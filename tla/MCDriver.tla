------------------------------ MODULE MCDriver ------------------------------
(* Two sources of one name in two directories, and a third. *)
EXTENDS Driver

ThreePaths == {"a/x.jia", "b/x.jia", "y.jia"}
Stems == [p \in ThreePaths |-> IF p = "y.jia" THEN "y" ELSE "x"]
Prog == <<"prog", "">>
There == {Default, <<"x", "o">>}
=============================================================================
