-------------------------- MODULE MC_RequestBuilder --------------------------
(* Model values for RequestBuilder; the .cfg files pick among them.        *)
EXTENDS RequestBuilder

MCLengths == {0, 5, 7}

=============================================================================
