---- MODULE MCMaintenance ----
(* Model checking of Maintenance. *)
EXTENDS Maintenance, TLC
====
