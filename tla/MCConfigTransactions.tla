------------------------ MODULE MCConfigTransactions ------------------------
(* ConfigTransactions for TLC. *)
EXTENDS ConfigTransactions, TLC

(* Requests are interchangeable. *)
Symmetry == Permutations(Requests)
=============================================================================
