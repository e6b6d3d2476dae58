--------------------------- MODULE MCPairingText ---------------------------
(* Three words, one of them hyphenated with a listed right half, and phrases *)
(* of two.  One origin needs no escape beyond its scheme, the other one has  *)
(* every character that could be mistaken in a query, and does not fit with  *)
(* the longest phrase.                                                     *)
EXTENDS PairingText

MCWordList == {<<"a">>, <<"b">>, <<"t", "-", "b">>}

MCDrawn == {<<<<"a">>, <<"b">>>>, <<<<"t", "-", "b">>, <<"a">>>>, <<<<"b">>, <<"t", "-", "b">>>>}

MCOrigins ==
    {<<"https", ":", "/", "/", "host">>,
     <<"http", ":", "/", "/", "host", "%", "&", "=">>}
=============================================================================
