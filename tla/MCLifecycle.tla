---------------------------- MODULE MCLifecycle ----------------------------
(* Lifecycle for TLC: the sockets of a default configuration. *)
EXTENDS Lifecycle

PlainOrder == <<"udp", "tcp", "http">>
=============================================================================
