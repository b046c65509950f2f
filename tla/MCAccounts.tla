----------------------------- MODULE MCAccounts -----------------------------
(* A small instance of Accounts for TLC. *)
EXTENDS Accounts, TLC

Symmetry == Permutations(Names) \cup Permutations(Passwords) \cup Permutations(Tokens)
              \cup Permutations(Clients) \cup Permutations(Logins)
=============================================================================
