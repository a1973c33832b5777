---------------------------- MODULE MCConfigFile -----------------------------
(* A file of at most two lines: an item with two contents, another, a comment. *)
EXTENDS ConfigFile

SmallLines == {<<"a", "=", "1">>, <<" ", "a", " ", "=", " ", "2", " ">>, <<"b", "=">>,
               <<"#", "a", "=", "2">>, <<"a", "1">>, <<>>}
SmallFiles == UNION {[1 .. n -> SmallLines] : n \in 0 .. 2}
=============================================================================
