---- MODULE MCClusterData ----
(* Model checking of ClusterData. *)
EXTENDS ClusterData, TLC
====
