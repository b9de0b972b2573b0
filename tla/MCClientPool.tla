---------------------------- MODULE MCClientPool ----------------------------
(* ClientPool for TLC: one host with two replicas, both operations to any of *)
(* them (which_replica -1).                                                  *)
EXTENDS ClientPool

Any == {1, 2}
=============================================================================
