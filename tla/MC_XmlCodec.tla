----------------------------- MODULE MC_XmlCodec -----------------------------
EXTENDS XmlCodec

\* Numerals: a small size, a negative one as "%ld" prints sizes of 2^(W-1)
\* and more, and one past ULONG_MAX.
MCNumerals == {<<"7">>, <<"-", "3">>, <<"4", "0">>}

MCTruncTexts == {<<"t", "r", "u", "e">>, <<"f", "a", "l", "s", "e">>}
=============================================================================
