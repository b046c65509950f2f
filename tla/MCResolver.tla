----------------------------- MODULE MCResolver -----------------------------
(* A small instance of Resolver for TLC. *)
EXTENDS Resolver, TLC

Symmetry == Permutations(Queries) \cup Permutations(Clients) \cup Permutations(Names)
              \cup Permutations(Addresses)
=============================================================================
