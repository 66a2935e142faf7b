------------------------------ MODULE MCWorker ------------------------------
(* Small instance of Worker: two ids, one of which is a prefix of the      *)
(* other, both fitting the current_invoke_id slot of IdCap characters.     *)
EXTENDS WorkerRefinement

MCChars == {"a", "b"}

MCIds == {<<"a">>, <<"a", "b">>}

=============================================================================
