---------------------------- MODULE ReplicatedLog ----------------------------
(***************************************************************************)
(* What event synchronisation promises under one leader: the leader adds   *)
(* events at the end of its log, and a replica only ever extends its log   *)
(* by the events that come next in the leader's, as many at a time as it   *)
(* likes.  How a replica gets them (pages, heartbeats, a join, a replay    *)
(* cut short by a crash) is not said; ControlPlane implements it.          *)
(***************************************************************************)
EXTENDS Naturals, Sequences

CONSTANTS
  Node,      \* the control planes
  Leader,    \* the one that leads
  Event      \* what a log holds

VARIABLE log   \* the log of each node

Init == log = [n \in Node |-> <<>>]

\* A is where B begins.
Begins(a, b) == Len(a) <= Len(b) /\ \A i \in 1 .. Len(a) : a[i] = b[i]

\* The leader records an event.
Record ==
  /\ Leader \in Node
  /\ log' \in [Node -> Seq(Event)]
  /\ Len(log'[Leader]) = Len(log[Leader]) + 1
  /\ Begins(log[Leader], log'[Leader])
  /\ \A n \in Node \ {Leader} : log'[n] = log[n]

\* A replica takes over what comes next.
Replicate(n) ==
  /\ n \in Node \ {Leader}
  /\ Leader \in Node
  /\ log' \in [Node -> Seq(Event)]
  /\ Begins(log[n], log'[n])
  /\ Begins(log'[n], log[Leader])
  /\ \A m \in Node \ {n} : log'[m] = log[m]

Next == Record \/ \E n \in Node : Replicate(n)

Spec == Init /\ [][Next]_log

\* Every replica's log is the beginning of the leader's.
PrefixOfLeader == \A n \in Node : Begins(log[n], log[Leader])

=============================================================================
