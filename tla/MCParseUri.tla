------------------------------ MODULE MCParseUri ------------------------------
EXTENDS ParseUri

CONSTANTS noreq

MCLetters == {"a", "b"}
MCPaths == {<<>>, <<"a">>}
(* Keys and values without reserved characters, one empty. *)
MCWords == {<<>>, <<"a">>, <<"b">>}
(* A value with "&" and one with "=" in it, which the client escapes. *)
MCWordsReserved == {<<"a">>, <<"a", "&", "b">>, <<"=">>}
=============================================================================
