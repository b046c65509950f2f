---------------------------- MODULE MCUpstreams ----------------------------
(* A small instance of Upstreams for TLC: u1 is named by a rule too, e is  *)
(* an endpoint.                                                            *)
EXTENDS Upstreams
=============================================================================
