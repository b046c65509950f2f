--------------------------- MODULE MCBlockPolicy ---------------------------
(* A small instance of BlockPolicy for TLC: two names, a pattern that      *)
(* matches the second, two local lists that overlap and two remote ones,   *)
(* with contents that change or cannot be read.                            *)
EXTENDS BlockPolicy, TLC

CONSTANTS wild, l1, l2, r1, r2

MCMatching == {<<wild, 2>>}

MCYields ==
  {(l1 :> a) @@ (l2 :> b) @@ (r1 :> c) @@ (r2 :> d) :
     a \in {{}, {2, wild}}, b \in {{}, {2}}, c \in SUBSET {1, 2}, d \in {{}, {1, wild}}}

(* Where the index and the configuration have parted no property speaks    *)
(* until a rebuild, which does not look at the index: such states are told *)
(* apart by the configuration alone.                                       *)
Told == IF undone THEN <<cfg, starting>> ELSE vars
=============================================================================
