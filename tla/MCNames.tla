------------------------------ MODULE MCNames -------------------------------
EXTENDS Names, TLC

(* Names and function types are only ever compared.                        *)
Symmetry == Permutations(Names) \cup Permutations(FnTypes)
=============================================================================
