--------------------------- MODULE MC_HeaderParser ---------------------------
(* Model values for HeaderParser; the .cfg files pick among them.          *)
EXTENDS HeaderParser

\* "HTTP/1.1 200", "HTTP/1.1 200 OK", "HTTP/1.1 404 Not Found"
MCMsgs == {<<>>, <<"Not", "Found">>}

=============================================================================
