------------------------------- MODULE MCConfig -------------------------------
(* Bounded inputs for Config: strings over "a", "b" and ".".               *)
EXTENDS Config

MCChars == {"a", "b", "."}

MCParsers == {<<"a">>, <<"b", ".", "a">>}

MCFields == {<<>>, <<"a">>}
=============================================================================
