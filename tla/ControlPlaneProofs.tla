-------------------------- MODULE ControlPlaneProofs -------------------------
(***************************************************************************)
(* Proofs about ControlPlane, for any number of nodes and pages of any     *)
(* length. Every action is shown to be a step of one of few kinds          *)
(* (StepSound): somebody writes a state or an event of his own, takes over *)
(* a state that somebody holds, or replays a page. The invariants are then *)
(* kept by the kinds of step, not by the actions one by one.               *)
(*                                                                         *)
(* The first half holds under any faults. The second is about groups whose *)
(* founder keeps the lead: the event logs implement ReplicatedLog, nobody  *)
(* finds histories diverged, and nodes that have replayed equally much     *)
(* agree on the members. The last part is about ReplicatedLog itself.      *)
(***************************************************************************)
EXTENDS ControlPlane, FiniteSetTheorems, WellFoundedInduction, TLAPS

-----------------------------------------------------------------------------
(* Group states and replicas.                                              *)

\* What replace_state never gives up: the term does not go back, and the state
\* does not rank below.
Advances(cur, new) ==
    /\ new.leader_epoch >= cur.leader_epoch
    /\ ~RankBelow(new, cur)

(* Ids are positive numbers, so neither 0 nor NoKey is one of them.        *)
LEMMA NodesAreNumbers ==
    /\ Node \subseteq Nat /\ 0 \notin Node
    /\ NoKey \notin Node
BY NodeAssumption DEF NoKey

(* The fields of a group state, as arithmetic sees them.                   *)
LEMMA GroupStateFields ==
    ASSUME NEW s \in GroupState
    PROVE  /\ s.version \in Nat /\ s.leader_epoch \in Nat /\ s.expires_at \in Nat
           /\ s.leader_node_id \in Node /\ s.leader_pubkey \in Node
           /\ s.leader_node_id \in Nat /\ s.leader_pubkey \in Nat
           /\ s.endpoints \subseteq Node
           /\ CpIds(s) \subseteq Node
           /\ s # NoState
<1>1. s.control_planes \in SUBSET {Member(n) : n \in Node}
  BY DEF GroupState
<1>2. CpIds(s) \subseteq Node
  BY <1>1 DEF CpIds, Member
<1> QED
  BY <1>2, NodesAreNumbers, StateAssumption DEF GroupState

(* A state that is kept advances.                                          *)
LEMMA AdvancesReflexive ==
    ASSUME NEW s \in GroupState
    PROVE  Advances(s, s)
BY GroupStateFields DEF Advances, RankBelow, LeaderPrecedes

(* Two advances in a row are one (the rank is an order).                   *)
LEMMA AdvancesTransitive ==
    ASSUME NEW r \in GroupState, NEW s \in GroupState, NEW t \in GroupState,
           Advances(r, s), Advances(s, t)
    PROVE  Advances(r, t)
BY GroupStateFields DEF Advances, RankBelow, LeaderPrecedes

(* validate_new_state lets through nothing that goes back: whatever is     *)
(* accepted, with or without a signature, advances on what is held.        *)
LEMMA AcceptsAdvances ==
    ASSUME NEW cur \in GroupState, NEW new \in GroupState, NEW trusted, NEW verify,
           Accepts(cur, new, trusted, verify)
    PROVE  Advances(cur, new)
<1>1. Admissible(cur, new, trusted)
  BY DEF Accepts
<1>2. new.version >= cur.version /\ new.leader_epoch >= cur.leader_epoch
  BY <1>1 DEF Admissible
<1>3. CASE SameTermContinues(cur, new)
  BY <1>2, <1>3, GroupStateFields DEF SameTermContinues, SameLeader, Advances, RankBelow, LeaderPrecedes
<1>4. CASE ConflictWon(cur, new)
  BY <1>2, <1>4, GroupStateFields DEF ConflictWon, ConflictingClaim, Advances, RankBelow, LeaderPrecedes
<1>5. CASE LeaderRotation(cur, new, trusted)
  BY <1>5, GroupStateFields DEF LeaderRotation, Advances, RankBelow
<1> QED
  BY <1>1, <1>3, <1>4, <1>5 DEF Admissible

\* Events that carry a group state, in a log that has one for each of them.
Grouped(ev) == ev.type \in GroupEventTypes
GoodEvent == {ev \in Event : Grouped(ev) => ev.st \in GroupState}
GoodReplica == [st : GroupState \cup {NoState}, log : Seq(GoodEvent), rbac : Rbac]

(* Taking in a member keeps a group state one (apply_join).                *)
LEMMA WithNodeTyped ==
    ASSUME NEW s \in GroupState, NEW n \in Node \cup Runtime
    PROVE  WithNode(s, n) \in GroupState
<1>1. Drop(s.control_planes, n) \cup (IF n \in Node THEN {Member(n)} ELSE {})
         \in SUBSET {Member(m) : m \in Node}
  BY DEF GroupState, Drop
<1>2. Drop(s.runtimes, n) \cup (IF n \in Runtime THEN {Member(n)} ELSE {})
         \in SUBSET {Member(m) : m \in Runtime}
  BY DEF GroupState, Drop
<1> QED
  BY <1>1, <1>2 DEF WithNode, GroupState

(* Taking out a member keeps a group state one (revoke_node).              *)
LEMMA WithoutNodeTyped ==
    ASSUME NEW s \in GroupState, NEW n
    PROVE  WithoutNode(s, n) \in GroupState
BY DEF WithoutNode, GroupState, Drop

(* The state that a replayed event leads to: its own snapshot, or one of   *)
(* the leader and term held locally (apply_remote_event).                  *)
LEMMA ReplayedTyped ==
    ASSUME NEW cur \in GroupState, NEW ev \in GoodEvent, Grouped(ev)
    PROVE  /\ ReplayedState(cur, ev) \in GroupState
           /\ \/ ReplayedState(cur, ev) = ev.st
              \/ /\ ReplayedState(cur, ev).leader_node_id = cur.leader_node_id
                 /\ ReplayedState(cur, ev).leader_epoch = cur.leader_epoch
           /\ ReplayedState(cur, ev).expires_at = ev.st.expires_at
<1>1. ev.st \in GroupState /\ ev.node \in Node \cup Runtime
  BY DEF GoodEvent, Event
<1>2. CASE ev.type \in SnapshotTypes
  BY <1>1, <1>2 DEF ReplayedState
<1>3. CASE ev.type \notin SnapshotTypes
  <2> DEFINE base == CASE ev.type = "joined" -> WithNode(cur, ev.node)
                       [] ev.type = "revoked" -> WithoutNode(cur, ev.node)
                       [] OTHER -> cur
             diff == [base EXCEPT !.version = ev.st.version,
                                  !.expires_at = ev.st.expires_at,
                                  !.leader_signature = NoKey]
  <2>1. base \in GroupState
    BY <1>1, WithNodeTyped, WithoutNodeTyped
  <2>2. base.leader_node_id = cur.leader_node_id /\ base.leader_epoch = cur.leader_epoch
    BY DEF WithNode, WithoutNode, GroupState
  <2>3. ReplayedState(cur, ev) = IF ev.type = "revoked" THEN diff ELSE [diff EXCEPT !.endpoints = ev.st.endpoints]
    BY <1>3, Zenon DEF ReplayedState
  <2> HIDE DEF base
  <2>4. /\ diff \in GroupState
        /\ [diff EXCEPT !.endpoints = ev.st.endpoints] \in GroupState
    BY <1>1, <2>1 DEF GroupState
  <2>5. /\ diff.leader_node_id = base.leader_node_id /\ diff.leader_epoch = base.leader_epoch
        /\ diff.expires_at = ev.st.expires_at
    BY <2>1 DEF GroupState
  <2> HIDE DEF diff
  <2>6. /\ [diff EXCEPT !.endpoints = ev.st.endpoints].leader_node_id = diff.leader_node_id
        /\ [diff EXCEPT !.endpoints = ev.st.endpoints].leader_epoch = diff.leader_epoch
        /\ [diff EXCEPT !.endpoints = ev.st.endpoints].expires_at = diff.expires_at
    BY <2>4 DEF GroupState
  <2> QED
    BY <2>2, <2>3, <2>4, <2>5, <2>6
<1> QED
  BY <1>2, <1>3

(* What an event saves before its log entry is in: the group state         *)
(* advances, and its leader and term are the event's or the old ones.      *)
LEMMA EffectTyped ==
    ASSUME NEW r \in GoodReplica, NEW ev \in GoodEvent, NEW trusted
    PROVE  /\ EffectOf(r, ev, trusted) \in GoodReplica
           /\ EffectOf(r, ev, trusted).log = r.log
           /\ \/ EffectOf(r, ev, trusted).st = r.st
              \/ /\ Grouped(ev)
                 /\ EffectOf(r, ev, trusted).st \in GroupState
                 /\ \/ EffectOf(r, ev, trusted).st = ev.st
                    \/ /\ r.st \in GroupState
                       /\ EffectOf(r, ev, trusted).st.leader_node_id = r.st.leader_node_id
                       /\ EffectOf(r, ev, trusted).st.leader_epoch = r.st.leader_epoch
                 /\ EffectOf(r, ev, trusted).st.expires_at = ev.st.expires_at
                 /\ r.st # NoState => Advances(r.st, EffectOf(r, ev, trusted).st)
<1> DEFINE s == ReplayedState(r.st, ev)
<1>0. /\ r.st \in GroupState \cup {NoState} /\ r.log \in Seq(GoodEvent) /\ r.rbac \in Rbac
      /\ r = [st |-> r.st, log |-> r.log, rbac |-> r.rbac]
      /\ ev.rbac \in Rbac
  BY DEF GoodReplica, GoodEvent, Event
<1>1. CASE Grouped(ev) /\ Taken(r, ev, trusted)
  <2>1. EffectOf(r, ev, trusted) = [r EXCEPT !.st = s]
    BY <1>1 DEF EffectOf, Grouped
  <2>2. /\ s \in GroupState
        /\ \/ s = ev.st
           \/ /\ r.st \in GroupState
              /\ s.leader_node_id = r.st.leader_node_id
              /\ s.leader_epoch = r.st.leader_epoch
        /\ s.expires_at = ev.st.expires_at
    <3>1. CASE r.st = NoState
      <4>1. ev.type = "state"
        BY <1>1, <3>1 DEF Taken
      <4>2. s = ev.st
        BY <4>1 DEF ReplayedState, SnapshotTypes
      <4> QED
        BY <1>1, <4>2 DEF GoodEvent
    <3>2. CASE r.st # NoState
      BY <1>0, <1>1, <3>2, ReplayedTyped
    <3> QED
      BY <3>1, <3>2
  <2>3. ASSUME r.st # NoState PROVE Advances(r.st, s)
    <3>1. Accepts(r.st, s, trusted, ev.type \in SnapshotTypes)
      BY <1>1, <2>3 DEF Taken
    <3> QED
      BY <1>0, <2>2, <2>3, <3>1, AcceptsAdvances
  <2> HIDE DEF s
  <2> QED
    BY <1>0, <1>1, <2>1, <2>2, <2>3 DEF GoodReplica
<1>2. CASE ~(Grouped(ev) /\ Taken(r, ev, trusted))
  <2>1. EffectOf(r, ev, trusted) \in {r, [r EXCEPT !.rbac = ev.rbac]}
    BY <1>2 DEF EffectOf, Grouped
  <2> QED
    BY <1>0, <2>1 DEF GoodReplica
<1> QED
  BY <1>1, <1>2

(* Every nonempty set of naturals has a least member: the induction that   *)
(* the provers can do.                                                     *)
LEMMA LeastNatural ==
    ASSUME NEW S \in SUBSET Nat, S # {}
    PROVE  \E m \in S : \A k \in S : m <= k
<1> DEFINE Less == {p \in Nat \X Nat : p[1] < p[2]}
<1>1. Less = OpToRel(<, Nat)
  BY Zenon DEF OpToRel
<1>2. IsWellFoundedOn(Less, Nat)
  BY <1>1, NatLessThanWellFounded, Zenon
<1> HIDE DEF Less
<1>3. \E m \in S : \A k \in S : ~(<<k, m>> \in Less)
  BY <1>2, WFMin, Zenon
<1>4. \A k, m \in Nat : <<k, m>> \notin Less => m <= k
  BY DEF Less
<1> QED
  BY <1>3, <1>4

\* The function that ApplyItems defines by recursion.
IsReplay(f, r, page, k, trusted) ==
    f = [i \in 0 .. k |->
           IF i = 0 THEN [replica |-> r, ok |-> TRUE]
           ELSE ApplyItem(f[i - 1], page, i, trusted)]

(* A page of any length can be replayed: the recursion of ApplyItems       *)
(* defines a function.                                                     *)
LEMMA ReplayExists ==
    ASSUME NEW r, NEW page, NEW k \in Nat, NEW trusted
    PROVE  \E f : IsReplay(f, r, page, k, trusted)
<1> SUFFICES ASSUME ~\E f : IsReplay(f, r, page, k, trusted)
             PROVE  FALSE
  OBVIOUS
<1> DEFINE None == {j \in Nat : ~\E f : IsReplay(f, r, page, j, trusted)}
<1>1. PICK m \in None : \A j \in None : m <= j
  BY LeastNatural
<1>2. m # 0
  <2> SUFFICES ASSUME m = 0 PROVE FALSE
    OBVIOUS
  <2> DEFINE g == [i \in 0 .. 0 |-> [replica |-> r, ok |-> TRUE]]
  <2>1. IsReplay(g, r, page, 0, trusted)
    BY DEF IsReplay
  <2> QED
    BY <2>1
<1>3. m - 1 \in Nat /\ m - 1 \notin None
  BY <1>1, <1>2
<1>4. PICK f : IsReplay(f, r, page, m - 1, trusted)
  BY <1>3
<1> DEFINE g == [i \in 0 .. m |->
                   IF i = 0 THEN [replica |-> r, ok |-> TRUE]
                   ELSE ApplyItem(f[i - 1], page, i, trusted)]
<1>5. ASSUME NEW i \in 0 .. m - 1 PROVE f[i] = g[i]
  <2>1. m \in Nat /\ i \in 0 .. m
    BY <1>1
  <2>2. f[i] = IF i = 0 THEN [replica |-> r, ok |-> TRUE]
               ELSE ApplyItem(f[i - 1], page, i, trusted)
    BY <1>4 DEF IsReplay
  <2> QED
    BY <2>1, <2>2
<1>6. IsReplay(g, r, page, m, trusted)
  <2>1. ASSUME NEW i \in 0 .. m, i # 0
        PROVE  ApplyItem(f[i - 1], page, i, trusted) = ApplyItem(g[i - 1], page, i, trusted)
    <3>1. i - 1 \in 0 .. m - 1
      BY <2>1
    <3> HIDE DEF g
    <3> QED
      BY <1>5, <3>1
  <2> QED
    BY <2>1 DEF IsReplay
<1> QED
  BY <1>6

(* Induction over the items of a page: what holds of the replica before    *)
(* the first one, and is kept by each, holds after the last.               *)
LEMMA ReplayInduction ==
    ASSUME NEW r, NEW page, NEW k \in Nat, NEW trusted, NEW Good,
           [replica |-> r, ok |-> TRUE] \in Good[0],
           \A i \in 1 .. k : \A p \in Good[i - 1] :
               ApplyItem(p, page, i, trusted) \in Good[i]
    PROVE  ApplyItems(r, page, k, trusted) \in Good[k]
<1> DEFINE f == CHOOSE f : IsReplay(f, r, page, k, trusted)
<1>1. IsReplay(f, r, page, k, trusted)
  BY ReplayExists, Zenon
<1>2. ApplyItems(r, page, k, trusted) = f[k]
  BY Zenon DEF ApplyItems, IsReplay
<1> HIDE DEF f
<1> SUFFICES ASSUME f[k] \notin Good[k] PROVE FALSE
  BY <1>2
<1> DEFINE Bad == {j \in 0 .. k : f[j] \notin Good[j]}
<1>3. PICK m \in Bad : \A j \in Bad : m <= j
  <2>1. Bad \in SUBSET Nat /\ Bad # {}
    OBVIOUS
  <2> HIDE DEF Bad
  <2> QED
    BY <2>1, LeastNatural
<1>4. m # 0
  BY <1>1 DEF IsReplay
<1>5. m - 1 \in 0 .. k /\ f[m - 1] \in Good[m - 1]
  BY <1>3, <1>4
<1>6. f[m] = ApplyItem(f[m - 1], page, m, trusted)
  BY <1>1, <1>4 DEF IsReplay
<1> QED
  BY <1>4, <1>5, <1>6

-----------------------------------------------------------------------------
(* A page of events, replayed: an induction over its items.                *)

\* A page of events as event_page builds it.
Page ==
    [server : Node, leader_pubkey : Node, leader_epoch : Nat, after : Nat,
     items : Seq(GoodEvent), last_event_id : Nat, last_event_nonce : Node \cup {0},
     state_hash : [log : Seq(GoodEvent), rbac : Rbac], has_more : BOOLEAN]

\* Two states of one leader and one term.
SameTerm(s, t) == s.leader_node_id = t.leader_node_id /\ s.leader_epoch = t.leader_epoch

\* Where the term of a replayed state comes from: the state before the page, or
\* one of the first k events of it.
Source(s, r, page, k) ==
    /\ s \in GroupState
    /\ \/ s = r.st
       \/ \E i \in 1 .. k : Grouped(page.items[i]) /\ s = page.items[i].st

\* q is what the first k events of a page can make of the replica r: its state
\* advances, its term comes from a source, and its log is the old one with
\* events of the page behind it, each at its own id.
Replayed(r, page, k, q) ==
    /\ q \in GoodReplica
    /\ r.st # NoState => q.st \in GroupState /\ Advances(r.st, q.st)
    /\ q.st # NoState =>
          /\ \E s : Source(s, r, page, k) /\ SameTerm(q.st, s)
          /\ \E s : Source(s, r, page, k) /\ q.st.expires_at = s.expires_at
    /\ Len(q.log) >= Len(r.log)
    /\ \A i \in 1 .. Len(r.log) : q.log[i] = r.log[i]
    /\ \A i \in Len(r.log) + 1 .. Len(q.log) :
          i - page.after \in 1 .. k /\ q.log[i] = page.items[i - page.after]

(* The effect of the next event, its log entry still missing, is such a    *)
(* replica: what a crash inside apply_remote_event leaves.                 *)
LEMMA EffectReplayed ==
    ASSUME NEW r \in GoodReplica, NEW page \in Page, NEW trusted, NEW k \in 1 .. Len(page.items),
           NEW q, Replayed(r, page, k - 1, q)
    PROVE  /\ Replayed(r, page, k, q)
           /\ Replayed(r, page, k, EffectOf(q, page.items[k], trusted))
<1> DEFINE ev == page.items[k]
           e == EffectOf(q, ev, trusted)
<1>0. /\ page.items \in Seq(GoodEvent) /\ page.after \in Nat /\ k \in Nat
      /\ ev \in GoodEvent
      /\ q \in GoodReplica
      /\ r.st \in GroupState \cup {NoState} /\ q.st \in GroupState \cup {NoState}
      /\ Len(r.log) \in Nat /\ Len(q.log) \in Nat
      /\ k - 1 \in Nat /\ 1 .. k - 1 \subseteq 1 .. k
  BY DEF Page, Replayed, GoodReplica
<1>1. \A s : Source(s, r, page, k - 1) => Source(s, r, page, k)
  BY <1>0 DEF Source
<1>2. Replayed(r, page, k, q)
  <2>1. q.st # NoState =>
          /\ \E s : Source(s, r, page, k) /\ SameTerm(q.st, s)
          /\ \E s : Source(s, r, page, k) /\ q.st.expires_at = s.expires_at
    BY <1>1 DEF Replayed
  <2>2. \A i \in Len(r.log) + 1 .. Len(q.log) :
          i - page.after \in 1 .. k /\ q.log[i] = page.items[i - page.after]
    BY <1>0 DEF Replayed
  <2> QED
    BY <2>1, <2>2 DEF Replayed
<1>3. /\ e \in GoodReplica /\ e.log = q.log
      /\ \/ e.st = q.st
         \/ /\ Grouped(ev)
            /\ e.st \in GroupState
            /\ \/ e.st = ev.st
               \/ /\ q.st \in GroupState
                  /\ e.st.leader_node_id = q.st.leader_node_id
                  /\ e.st.leader_epoch = q.st.leader_epoch
            /\ e.st.expires_at = ev.st.expires_at
            /\ q.st # NoState => Advances(q.st, e.st)
  BY <1>0, EffectTyped
<1> HIDE DEF e
<1>4. r.st # NoState => e.st \in GroupState /\ Advances(r.st, e.st)
  <2> SUFFICES ASSUME r.st # NoState PROVE e.st \in GroupState /\ Advances(r.st, e.st)
    OBVIOUS
  <2>1. q.st \in GroupState /\ Advances(r.st, q.st)
    BY DEF Replayed
  <2>2. q.st # NoState
    BY <2>1, GroupStateFields
  <2> QED
    BY <1>0, <1>3, <2>1, <2>2, AdvancesTransitive
<1>5. e.st # NoState => \E s : Source(s, r, page, k) /\ SameTerm(e.st, s)
  <2> SUFFICES ASSUME e.st # NoState PROVE \E s : Source(s, r, page, k) /\ SameTerm(e.st, s)
    OBVIOUS
  <2>1. CASE e.st = q.st
    BY <1>2, <2>1 DEF Replayed
  <2>2. CASE Grouped(ev) /\ e.st \in GroupState /\ e.st = ev.st
    <3>1. Source(e.st, r, page, k)
      BY <1>0, <2>2 DEF Source
    <3> QED
      BY <3>1 DEF SameTerm
  <2>3. CASE q.st \in GroupState /\ SameTerm(e.st, q.st)
    <3>1. q.st # NoState
      BY <2>3, GroupStateFields
    <3>2. PICK s : Source(s, r, page, k) /\ SameTerm(q.st, s)
      BY <1>2, <3>1 DEF Replayed
    <3> QED
      BY <2>3, <3>2 DEF SameTerm
  <2> QED
    BY <1>3, <2>1, <2>2, <2>3 DEF SameTerm
<1>7. e.st # NoState => \E s : Source(s, r, page, k) /\ e.st.expires_at = s.expires_at
  <2> SUFFICES ASSUME e.st # NoState
               PROVE  \E s : Source(s, r, page, k) /\ e.st.expires_at = s.expires_at
    OBVIOUS
  <2>1. CASE e.st = q.st
    BY <1>2, <2>1 DEF Replayed
  <2>2. CASE Grouped(ev) /\ e.st.expires_at = ev.st.expires_at
    <3>1. ev.st \in GroupState
      BY <1>0, <2>2 DEF GoodEvent
    <3>2. Source(ev.st, r, page, k)
      BY <1>0, <2>2, <3>1 DEF Source
    <3> QED
      BY <2>2, <3>2
  <2> QED
    BY <1>3, <2>1, <2>2
<1>6. Replayed(r, page, k, e)
  BY <1>2, <1>3, <1>4, <1>5, <1>7 DEF Replayed
<1> QED
  BY <1>2, <1>6 DEF e

(* Appending to the log of a replica changes nothing else of it.           *)
LEMMA LogAppended ==
    ASSUME NEW r \in GoodReplica, NEW ev \in GoodEvent
    PROVE  LET a == [r EXCEPT !.log = Append(@, ev)]
           IN  /\ a \in GoodReplica
               /\ a.log = Append(r.log, ev)
               /\ a.st = r.st
<1> DEFINE log == Append(r.log, ev)
<1>1. /\ log \in Seq(GoodEvent) /\ r.st \in GroupState \cup {NoState} /\ r.rbac \in Rbac
  BY DEF GoodReplica
<1> HIDE DEF log
<1>2. [r EXCEPT !.log = log] = [st |-> r.st, log |-> log, rbac |-> r.rbac]
  BY DEF GoodReplica
<1> QED
  BY <1>1, <1>2 DEF GoodReplica, log

(* One step of apply_remote_events keeps a replica replayed, and leaves no *)
(* gap in the ids as long as every event went through.                     *)
LEMMA ApplyItemReplayed ==
    ASSUME NEW r \in GoodReplica, NEW page \in Page, NEW trusted, NEW k \in 1 .. Len(page.items),
           page.after <= Len(r.log),
           NEW p \in [replica : GoodReplica, ok : BOOLEAN],
           Replayed(r, page, k - 1, p.replica),
           p.ok => Len(p.replica.log) >= page.after + k - 1
    PROVE  LET p2 == ApplyItem(p, page, k, trusted)
           IN  /\ p2 \in [replica : GoodReplica, ok : BOOLEAN]
               /\ Replayed(r, page, k, p2.replica)
               /\ p2.ok => Len(p2.replica.log) >= page.after + k
<1> DEFINE q == p.replica
           ev == page.items[k]
           e == EffectOf(q, ev, trusted)
           p2 == ApplyItem(p, page, k, trusted)
<1>0. /\ page.items \in Seq(GoodEvent) /\ page.after \in Nat /\ k \in Nat
      /\ ev \in GoodEvent
      /\ q \in GoodReplica /\ q.log \in Seq(GoodEvent)
      /\ Len(r.log) \in Nat /\ Len(q.log) \in Nat
      /\ p = [replica |-> q, ok |-> p.ok] /\ p.ok \in BOOLEAN
  BY DEF Page, GoodReplica
<1>1. Replayed(r, page, k, q) /\ Replayed(r, page, k, e)
  BY EffectReplayed
<1>2. CASE ~p.ok \/ page.after + k <= Len(q.log)
  <2>1. p2 = p
    BY <1>2 DEF ApplyItem, LastEventId
  <2> QED
    BY <1>0, <1>1, <1>2, <2>1
<1>3. CASE p.ok /\ ~(page.after + k <= Len(q.log)) /\ Raises(q, ev, trusted)
  <2>1. p2 = [p EXCEPT !.ok = FALSE]
    BY <1>3 DEF ApplyItem, LastEventId
  <2>2. p2 \in [replica : GoodReplica, ok : BOOLEAN] /\ p2.replica = q /\ p2.ok = FALSE
    BY <1>0, <2>1
  <2> QED
    BY <1>1, <2>2
<1>4. CASE p.ok /\ ~(page.after + k <= Len(q.log)) /\ ~Raises(q, ev, trusted)
  <2> DEFINE a == ApplyEvent(q, ev, trusted)
  <2>1. Len(q.log) + 1 = page.after + k
    <3>1. Len(q.log) >= page.after + k - 1
      BY <1>4
    <3>2. ~(page.after + k <= Len(q.log))
      BY <1>4
    <3>3. page.after \in Nat /\ k \in Nat /\ Len(q.log) \in Nat
      BY <1>0
    <3> HIDE DEF q
    <3> QED
      BY <3>1, <3>2, <3>3
  <2>2. p2 = [p EXCEPT !.replica = a]
    BY <1>4, <2>1, ZenonT(30) DEF ApplyItem, LastEventId
  <2>3. e \in GoodReplica /\ e.log = q.log
    BY <1>0, EffectTyped
  <2> HIDE DEF e
  <2>4. a = [e EXCEPT !.log = Append(@, ev)]
    BY DEF ApplyEvent, e
  <2>5. a \in GoodReplica /\ a.log = Append(q.log, ev) /\ a.st = e.st
    BY <1>0, <2>3, <2>4, LogAppended
  <2> HIDE DEF a
  <2>6. /\ Len(a.log) = Len(q.log) + 1
        /\ \A i \in 1 .. Len(q.log) : a.log[i] = q.log[i]
        /\ a.log[Len(q.log) + 1] = ev
    BY <1>0, <2>5
  <2>7. Replayed(r, page, k, a)
    <3>1. /\ Len(a.log) >= Len(r.log)
          /\ \A i \in 1 .. Len(r.log) : a.log[i] = r.log[i]
      BY <1>0, <1>1, <2>6 DEF Replayed
    <3>2. ASSUME NEW i \in Len(r.log) + 1 .. Len(a.log)
          PROVE  i - page.after \in 1 .. k /\ a.log[i] = page.items[i - page.after]
      <4>1. CASE i <= Len(q.log)
        <5>1. i \in Len(r.log) + 1 .. Len(q.log) /\ i \in 1 .. Len(q.log)
          BY <1>0, <4>1
        <5> QED
          BY <1>1, <2>6, <5>1, ZenonT(30) DEF Replayed
      <4>2. CASE i = Len(q.log) + 1
        BY <1>0, <2>6, <2>1, <4>2
      <4> QED
        BY <1>0, <2>6, <4>1, <4>2
    <3> QED
      BY <1>1, <2>3, <2>5, <3>1, <3>2 DEF Replayed
  <2>8. p2 = [replica |-> a, ok |-> p.ok]
    BY <1>0, <2>2
  <2>9. Len(a.log) >= page.after + k
    BY <1>0, <2>6, <2>1
  <2> QED
    BY <1>0, <2>5, <2>7, <2>8, <2>9
<1> QED
  BY <1>2, <1>3, <1>4

(* apply_remote_events: however many events of a page are applied, and     *)
(* whichever is refused or skipped, the replica is replayed.               *)
LEMMA PageReplayed ==
    ASSUME NEW r \in GoodReplica, NEW page \in Page, NEW trusted, NEW k \in 0 .. Len(page.items),
           page.after <= Len(r.log)
    PROVE  LET res == ApplyItems(r, page, k, trusted)
           IN  /\ res \in [replica : GoodReplica, ok : BOOLEAN]
               /\ Replayed(r, page, k, res.replica)
               /\ res.ok => Len(res.replica.log) >= page.after + k
<1> DEFINE Good == [i \in 0 .. k |->
             {p \in [replica : GoodReplica, ok : BOOLEAN] :
                /\ Replayed(r, page, i, p.replica)
                /\ p.ok => Len(p.replica.log) >= page.after + i}]
           start == [replica |-> r, ok |-> TRUE]
<1>0. k \in Nat /\ Len(page.items) \in Nat /\ page.after \in Nat /\ Len(r.log) \in Nat
  BY DEF Page, GoodReplica
<1>1. start \in Good[0]
  <2>1. r.st # NoState => r.st \in GroupState /\ Advances(r.st, r.st)
    BY AdvancesReflexive DEF GoodReplica
  <2>2. r.st # NoState => Source(r.st, r, page, 0) /\ SameTerm(r.st, r.st)
    BY <2>1 DEF Source, SameTerm
  <2>3. Replayed(r, page, 0, r)
    BY <1>0, <2>1, <2>2 DEF Replayed
  <2> QED
    BY <1>0, <2>3
<1>2. ASSUME NEW i \in 1 .. k, NEW p \in Good[i - 1]
      PROVE  ApplyItem(p, page, i, trusted) \in Good[i]
  <2>1. /\ i \in 1 .. Len(page.items) /\ i - 1 \in 0 .. k /\ i \in 0 .. k
        /\ page.after + (i - 1) = page.after + i - 1
    BY <1>0
  <2>2. /\ p \in [replica : GoodReplica, ok : BOOLEAN]
        /\ Replayed(r, page, i - 1, p.replica)
        /\ p.ok => Len(p.replica.log) >= page.after + i - 1
    BY <1>2, <2>1
  <2> QED
    BY <2>1, <2>2, ApplyItemReplayed
<1> HIDE DEF Good
<1>3. ApplyItems(r, page, k, trusted) \in Good[k]
  BY <1>0, <1>1, <1>2, ReplayInduction
<1> QED
  BY <1>0, <1>3 DEF Good

-----------------------------------------------------------------------------
(* The type invariant, and what every step has in common.                  *)

\* The points at which the coroutine of a node's loop gives up control.
SyncPc == {"fetch", "apply", "snapshot", "done", "failed", "heartbeat", "ping"}
Pc == SyncPc \cup {"idle", "join", "joined", "refused"}
Caller == {"none", "renew", "leader", "candidate", "peers", "others", "alone",
           "startup", "join", "rejoin"}
Seen == {<<>>} \cup (Nat \X Nat \X Node \X Node)

\* The local variables of that coroutine.
Task ==
    [pc : Pc, caller : Caller, urls : SUBSET Node, rest : SUBSET Node,
     trusted : Node \cup {NoKey}, before : Seen, diverged : BOOLEAN,
     page : Page \cup {<<>>}, saved : GroupState \cup {NoState},
     peer : Node \cup {0}, outcome : {"none", "synced", "diverged"}]

\* What the coroutine relies on when it goes on: there is a URL to ask, none of
\* them its own, the node has a state, the page was served by a node that has
\* one and begins where the log ended, and what was read earlier is still
\* there.
TaskSound(n) ==
    LET t == task[n]
    IN  /\ t.pc \in {"fetch", "apply", "snapshot", "ping"} => t.urls # {}
        /\ t.pc \in SyncPc => HasState(n)
        /\ t.pc \in {"apply", "snapshot"} => t.page \in Page /\ HasState(t.page.server)
        /\ t.pc = "apply" => t.page.after <= Len(disk[n].log)
        /\ t.pc \in {"heartbeat", "ping", "joined"} \/ t.caller \in {"renew", "others", "alone"}
              => t.saved \in GroupState
        /\ t.pc \in {"join", "joined"} \/ t.caller \in {"join", "rejoin"}
              => t.peer \in Node \ {n}
        /\ n \notin t.urls \cup t.rest
        /\ t.pc = "heartbeat" => t.peer # n

\* The inductive type invariant.
TypeInv ==
    /\ disk \in [Node -> GoodReplica]
    /\ proc \in [Node -> {"down", "cli", "starting", "up"}]
    /\ broken \in [Node -> BOOLEAN]
    /\ task \in [Node -> Task]
    /\ clock \in 0 .. MaxTime
    /\ crashes \in 0 .. MaxCrashes
    /\ \A n \in Node : TaskSound(n)

\* The coroutine found the lease over at a node that does not lead.
InFailover(t) ==
    t.caller \in {"peers", "others", "alone", "candidate"} \/ t.pc \in {"heartbeat", "ping"}

\* Why a node writes of its own accord: it is in the failover, any node answers
\* the handler, it leads and stays in its term, or it founds its group.
OwnCause(n, s) ==
    \/ InFailover(task[n])
    \/ "follower_apply" \in Requests
    \/ (Leads(n) \/ task[n].caller = "renew") /\ s.leader_epoch = Held(n).leader_epoch
    \/ n \in Founder /\ ~HasState(n) /\ s.leader_epoch = 1

\* The event says by which diff its state follows from cur: one version on, and
\* with the membership its replay rebuilds.
Derives(cur, ev) ==
    /\ ev.type \in GroupEventTypes \ SnapshotTypes
    /\ ev.st.version = cur.version + 1
    /\ Membership(ev.st) = Membership(ReplayedState(cur, ev))

\* The writes whose event need not tell all: a promotion, a renewal, and a save
\* whose event a crash may have cut off.
Unrecorded(n) ==
    InFailover(task[n]) \/ task[n].caller = "renew" \/ "op_crash" \in Faults

\* Otherwise the state changes only together with an event that carries it, the
\* first of a new group or a diff.
OwnChange(n, r) ==
    \/ Unrecorded(n)
    \/ /\ r.st = Held(n)
       /\ \/ r.log = disk[n].log
          \/ \E ev \in GoodEvent : ~Grouped(ev) /\ r.log = Append(disk[n].log, ev)
    \/ \E ev \in GoodEvent :
          /\ r.log = Append(disk[n].log, ev) /\ ev.st = r.st
          /\ IF HasState(n) THEN Derives(Held(n), ev) ELSE ev.type = "state"

\* A state of the node's own, with a lease of full length.
OwnState(n, s) == s.leader_node_id = n /\ s.expires_at >= TTL

\* The node writes a state that names it as the leader, or none, and at most
\* one event of its own, and has one of the causes above for it.
OwnWrite(n, r) ==
    /\ \/ r.st = Held(n)
       \/ r.st \in GroupState /\ OwnState(n, r.st)
    /\ \/ r.log = disk[n].log
       \/ \E ev \in GoodEvent :
            /\ ev.actor = n
            /\ Grouped(ev) => ev.st = r.st
            /\ r.log = Append(disk[n].log, ev)
    /\ OwnCause(n, r.st)
    /\ OwnChange(n, r)

\* The node takes over a state that another one holds, or that its join was
\* answered with.
Adoption(n, r) ==
    /\ r.log = disk[n].log
    /\ \/ \E p \in Node : HasState(p) /\ r.st = Held(p)
       \/ task[n].pc = "joined" /\ r.st = task[n].saved

Rebuilt(d, page, r) ==
    \E k \in 0 .. Len(page.items) : \E trusted :
        LET res == ApplyItems(d, page, k, trusted)
        IN  \/ r = res.replica
            \/ /\ res.ok /\ k < Len(page.items)
               /\ page.after + k + 1 > LastEventId(res.replica)
               /\ r = EffectOf(res.replica, page.items[k + 1], trusted)

\* The node applies the page it has fetched, or a part of it.
Replay(n, r) ==
    /\ task[n].pc = "apply"
    /\ \E k \in 0 .. Len(task[n].page.items) : Replayed(disk[n], task[n].page, k, r)
    /\ Rebuilt(disk[n], task[n].page, r)

\* All that a step may do to the storage of a node.
Write(n, r) ==
    /\ disk' = [disk EXCEPT ![n] = r]
    /\ HasState(n) => r.st \in GroupState /\ Advances(Held(n), r.st)
    /\ OwnWrite(n, r) \/ Adoption(n, r) \/ Replay(n, r)

\* A step writes to one storage at most.
DiskStep == disk' = disk \/ \E n \in Node, r \in GoodReplica : Write(n, r)

\* How a coroutine comes by a page (only from another node, one that leads), by
\* the wish for a snapshot, by the answer to a join, into the failover, into
\* the renewal and to a divergence.
TaskStep(n) ==
    LET t == task[n]
        u == task'[n]
    IN  /\ TaskSound(n)'
        /\ u.pc = "apply" =>
              /\ disk' = disk
              /\ \E p \in Node \ {n} :
                    Leads(p) /\ u.page = EventPage(disk[p], p, LastEventId(disk[n]))
        /\ u.pc = "snapshot" => t.pc = "apply" /\ PeerLeaderIsNewer(disk'[n].st, t.page)
        /\ u.pc = "joined" => \E l \in Node : HasState(l)' /\ u.saved = Held(l)'
        /\ InFailover(u) =>
              \/ InFailover(t)
              \/ HasState(n) /\ ~Leads(n) /\ IsExpired(Held(n), 0)
        /\ u.caller = "renew" =>
              \/ t.caller = "renew"
              \/ Leads(n) /\ IsExpired(Held(n), TTL \div 2)
        /\ u.diverged \/ u.outcome = "diverged" =>
              \/ t.diverged \/ t.outcome = "diverged"
              \/ t.pc = "apply" /\ Diverges(disk[n], t.page)

\* What every step of the cluster has in common; each action is shown to be
\* one.
StepSound ==
    /\ DiskStep
    /\ task' \in [Node -> Task]
    /\ \A n \in Node : task'[n] = task[n] \/ TaskStep(n)
    /\ \A n \in Node : broken'[n] => broken[n] \/ task[n].outcome = "diverged"
    /\ proc' \in [Node -> {"down", "cli", "starting", "up"}]
    /\ broken' \in [Node -> BOOLEAN]
    /\ clock' \in 0 .. MaxTime
    /\ crashes' \in 0 .. MaxCrashes

(* The bounds that arithmetic needs.                                       *)
LEMMA BoundsAreNumbers ==
    /\ TTL \in Nat /\ MaxTime \in Nat /\ MaxCrashes \in Nat
BY ClusterAssumption

(* The fields of a replica.                                                *)
LEMMA ReplicaFields ==
    ASSUME NEW r \in GoodReplica
    PROVE  /\ r = [st |-> r.st, log |-> r.log, rbac |-> r.rbac]
           /\ r.st \in GroupState \cup {NoState} /\ r.rbac \in Rbac
           /\ r.log \in Seq(GoodEvent) /\ Len(r.log) \in Nat
BY DEF GoodReplica

(* A node has a group state or none (StateManager.get_state).              *)
LEMMA HeldTyped ==
    ASSUME TypeInv, NEW n \in Node
    PROVE  /\ disk[n] \in GoodReplica
           /\ Held(n) \in GroupState \cup {NoState}
           /\ HasState(n) <=> Held(n) \in GroupState
<1>1. disk[n] \in GoodReplica
  BY DEF TypeInv
<1> QED
  BY <1>1, ReplicaFields, StateAssumption DEF Held, HasState

(* A step shrinks nobody's storage: no state is lost or goes back, and no  *)
(* event is lost or rewritten, whoever wrote to whose storage.             *)
LEMMA DiskGrows ==
    ASSUME TypeInv, DiskStep
    PROVE  /\ disk' \in [Node -> GoodReplica]
           /\ \A n \in Node : /\ HasState(n) => HasState(n)' /\ Held(n)' \in GroupState
                                                /\ Advances(Held(n), Held(n)')
                              /\ Len(disk[n].log) <= Len(disk'[n].log)
                              /\ \A i \in 1 .. Len(disk[n].log) : disk'[n].log[i] = disk[n].log[i]
<1>1. CASE disk' = disk
  <2>1. ASSUME NEW n \in Node, HasState(n) PROVE Advances(Held(n), Held(n)')
    BY <1>1, <2>1, HeldTyped, AdvancesReflexive DEF Held
  <2>2. \A n \in Node : Len(disk[n].log) \in Nat
    BY HeldTyped, ReplicaFields
  <2> QED
    BY <1>1, <2>1, <2>2, HeldTyped DEF TypeInv, Held, HasState
<1>2. ASSUME NEW n \in Node, NEW r \in GoodReplica, Write(n, r)
      PROVE  /\ disk' \in [Node -> GoodReplica]
             /\ \A m \in Node : /\ HasState(m) => HasState(m)' /\ Held(m)' \in GroupState
                                                  /\ Advances(Held(m), Held(m)')
                                /\ Len(disk[m].log) <= Len(disk'[m].log)
                                /\ \A i \in 1 .. Len(disk[m].log) : disk'[m].log[i] = disk[m].log[i]
  <2>1. /\ disk' = [disk EXCEPT ![n] = r]
        /\ HasState(n) => r.st \in GroupState /\ Advances(Held(n), r.st)
    BY <1>2 DEF Write
  <2>2. /\ disk' \in [Node -> GoodReplica] /\ disk'[n] = r
        /\ \A m \in Node \ {n} : disk'[m] = disk[m]
    BY <2>1 DEF TypeInv
  <2>3. /\ Len(disk[n].log) <= Len(r.log)
        /\ \A i \in 1 .. Len(disk[n].log) : r.log[i] = disk[n].log[i]
    <3>0. disk[n].log \in Seq(GoodEvent) /\ Len(disk[n].log) \in Nat /\ Len(r.log) \in Nat
      BY HeldTyped, ReplicaFields
    <3>1. CASE OwnWrite(n, r)
      BY <3>0, <3>1 DEF OwnWrite
    <3>2. CASE Adoption(n, r)
      BY <3>0, <3>2 DEF Adoption
    <3>3. CASE Replay(n, r)
      BY <3>0, <3>3 DEF Replay, Replayed
    <3> QED
      BY <1>2, <3>1, <3>2, <3>3 DEF Write
  <2>4. ASSUME NEW m \in Node \ {n}
        PROVE  /\ HasState(m) => HasState(m)' /\ Held(m)' \in GroupState
                                 /\ Advances(Held(m), Held(m)')
               /\ Len(disk[m].log) <= Len(disk'[m].log)
    <3>1. disk'[m] = disk[m] /\ Len(disk[m].log) \in Nat
      BY <2>2, HeldTyped, ReplicaFields
    <3> QED
      BY <3>1, HeldTyped, AdvancesReflexive DEF Held, HasState
  <2>5. HasState(n) => HasState(n)'
    BY <2>1, <2>2, StateAssumption DEF HasState
  <2> QED
    BY <2>1, <2>2, <2>3, <2>4, <2>5 DEF Held
<1> QED
  BY <1>1, <1>2 DEF DiskStep

(* A sound step keeps the type invariant: what a coroutine read before it  *)
(* gave up control is still usable after somebody else's step.             *)
LEMMA TypeInvKept ==
    ASSUME TypeInv, StepSound
    PROVE  TypeInv'
<1>1. disk' \in [Node -> GoodReplica]
  BY DiskGrows DEF StepSound
<1>2. ASSUME NEW n \in Node PROVE TaskSound(n)'
  <2>1. CASE TaskStep(n)
    BY <2>1 DEF TaskStep
  <2>2. CASE task'[n] = task[n]
    <3>1. TaskSound(n) /\ task[n] \in Task
      BY DEF TypeInv
    <3>2. /\ HasState(n) => HasState(n)'
          /\ Len(disk[n].log) \in Nat /\ Len(disk'[n].log) \in Nat
          /\ Len(disk[n].log) <= Len(disk'[n].log)
      BY <1>1, DiskGrows, HeldTyped, ReplicaFields DEF StepSound
    <3>3. ASSUME task[n].page \in Page, HasState(task[n].page.server)
          PROVE  HasState(task[n].page.server)'
      <4>1. task[n].page.server \in Node
        BY <3>3 DEF Page
      <4>2. \A m \in Node : HasState(m) => HasState(m)'
        BY DiskGrows DEF StepSound
      <4>3. disk'[task[n].page.server].st # NoState
        BY <3>3, <4>1, <4>2 DEF HasState
      <4> QED
        BY <2>2, <4>3 DEF HasState
    <3>4. task[n].page \in Page => task[n].page.after \in Nat
      BY DEF Page
    <3> QED
      BY <2>2, <3>1, <3>2, <3>3, <3>4 DEF TaskSound
  <2> QED
    BY <2>1, <2>2 DEF StepSound
<1> QED
  BY <1>1, <1>2 DEF StepSound, TypeInv

-----------------------------------------------------------------------------
(* Every action takes a sound step: the handlers of the leader.            *)

(* A coroutine at rest.                                                    *)
LEMMA IdleTyped ==
    /\ Idle \in Task /\ Idle.pc = "idle" /\ Idle.caller = "none"
    /\ Idle.urls = {} /\ Idle.rest = {} /\ ~Idle.diverged /\ Idle.outcome = "none"
BY DEF Idle, Task, Pc, Caller, Seen

(* The coroutine of one node is replaced, the others are not.              *)
LEMMA TaskReplaced ==
    ASSUME TypeInv, NEW n \in Node, NEW t \in Task,
           task' = [task EXCEPT ![n] = t]
    PROVE  /\ task' \in [Node -> Task]
           /\ task'[n] = t
           /\ \A m \in Node \ {n} : task'[m] = task[m]
BY DEF TypeInv

(* Going to rest is always sound (the end of check_failover, and of a      *)
(* process).                                                               *)
LEMMA RestSound ==
    ASSUME TypeInv, NEW n \in Node, Rest(n)
    PROVE  /\ task' \in [Node -> Task]
           /\ \A m \in Node : task'[m] = task[m] \/ TaskStep(m)
<1>1. /\ task' \in [Node -> Task]
      /\ task'[n] = Idle
      /\ \A m \in Node \ {n} : task'[m] = task[m]
  BY TaskReplaced, IdleTyped DEF Rest
<1>2. TaskStep(n)
  BY <1>1, IdleTyped DEF TaskStep, TaskSound, SyncPc, InFailover
<1> QED
  BY <1>1, <1>2

(* A stop leaves the process down and counts as a crash.                   *)
LEMMA StopTyped ==
    ASSUME TypeInv, NEW n \in Node, NEW kind, Stop(n), CanCrash(kind)
    PROVE  /\ proc' \in [Node -> {"down", "cli", "starting", "up"}]
           /\ broken' \in [Node -> BOOLEAN]
           /\ \A m \in Node : broken'[m] => broken[m]
           /\ crashes' \in 0 .. MaxCrashes
<1>1. crashes \in 0 .. MaxCrashes /\ crashes < MaxCrashes /\ crashes' = crashes + 1
  BY DEF TypeInv, Stop, CanCrash
<1>2. crashes' \in 0 .. MaxCrashes
  BY <1>1, BoundsAreNumbers
<1> QED
  BY <1>2 DEF TypeInv, Stop

(* What the assignment of one field makes of a node's storage.             *)
LEMMA FieldsWritten ==
    ASSUME TypeInv, NEW n \in Node, NEW v
    PROVE  LET d == disk[n]
           IN  /\ [disk EXCEPT ![n].st = v] =
                     [disk EXCEPT ![n] = [st |-> v, log |-> d.log, rbac |-> d.rbac]]
               /\ [disk EXCEPT ![n].log = v] =
                     [disk EXCEPT ![n] = [st |-> d.st, log |-> v, rbac |-> d.rbac]]
               /\ [disk EXCEPT ![n].rbac = v] =
                     [disk EXCEPT ![n] = [st |-> d.st, log |-> d.log, rbac |-> v]]
<1>1. disk[n] \in GoodReplica /\ disk \in [Node -> GoodReplica]
  BY HeldTyped DEF TypeInv
<1>2. /\ [disk[n] EXCEPT !.st = v] = [st |-> v, log |-> disk[n].log, rbac |-> disk[n].rbac]
      /\ [disk[n] EXCEPT !.log = v] = [st |-> disk[n].st, log |-> v, rbac |-> disk[n].rbac]
      /\ [disk[n] EXCEPT !.rbac = v] = [st |-> disk[n].st, log |-> disk[n].log, rbac |-> v]
  BY <1>1 DEF GoodReplica
<1> QED
  BY <1>1, <1>2

(* Saving a state of one's own, with its event or, when the process dies   *)
(* in between, without it, is a write.                                     *)
LEMMA OwnStateWrite ==
    ASSUME TypeInv, NEW n \in Node, NEW s \in GroupState,
           OwnState(n, s), HasState(n) => Advances(Held(n), s), OwnCause(n, s)
    PROVE  /\ \A ev \in GoodEvent :
                 /\ disk' = [disk EXCEPT ![n].st = s, ![n].log = Append(@, ev)]
                 /\ ev.actor = n /\ ev.st = s
                 /\ Unrecorded(n) \/ IF HasState(n) THEN Derives(Held(n), ev) ELSE ev.type = "state"
                 => DiskStep /\ HasState(n)' /\ Held(n)' = s
           /\ disk' = [disk EXCEPT ![n].st = s] /\ Unrecorded(n) => DiskStep
<1> DEFINE d == disk[n]
<1>0. /\ d \in GoodReplica
      /\ disk \in [Node -> GoodReplica]
      /\ d = [st |-> d.st, log |-> d.log, rbac |-> d.rbac]
      /\ d.log \in Seq(GoodEvent) /\ d.rbac \in Rbac
  BY HeldTyped, ReplicaFields DEF TypeInv
<1>1. ASSUME NEW ev \in GoodEvent,
             disk' = [disk EXCEPT ![n].st = s, ![n].log = Append(@, ev)],
             ev.actor = n, ev.st = s,
             Unrecorded(n) \/ IF HasState(n) THEN Derives(Held(n), ev) ELSE ev.type = "state"
      PROVE  DiskStep /\ HasState(n)' /\ Held(n)' = s
  <2> DEFINE r == [st |-> s, log |-> Append(d.log, ev), rbac |-> d.rbac]
  <2>1. r \in GoodReplica
    BY <1>0 DEF GoodReplica
  <2>2. disk' = [disk EXCEPT ![n] = r]
    BY <1>0, <1>1
  <2>3. OwnWrite(n, r)
    BY <1>1 DEF OwnWrite, OwnChange
  <2>4. Write(n, r)
    BY <2>2, <2>3 DEF Write
  <2>5. disk'[n].st = s
    BY <1>0, <2>2
  <2> QED
    BY <2>1, <2>4, <2>5, GroupStateFields DEF DiskStep, HasState, Held
<1>2. ASSUME disk' = [disk EXCEPT ![n].st = s], Unrecorded(n) PROVE DiskStep
  <2> DEFINE r == [st |-> s, log |-> d.log, rbac |-> d.rbac]
  <2>1. r \in GoodReplica
    BY <1>0 DEF GoodReplica
  <2>2. disk' = [disk EXCEPT ![n] = r]
    BY <1>2, FieldsWritten
  <2>3. OwnWrite(n, r)
    BY <1>2 DEF OwnWrite, OwnChange
  <2>4. Write(n, r)
    BY <2>2, <2>3 DEF Write
  <2> QED
    BY <2>1, <2>4 DEF DiskStep
<1> QED
  BY <1>1, <1>2

(* A handler that saves a state of its own and appends the event takes a   *)
(* sound step.                                                             *)
LEMMA MutateSound ==
    ASSUME TypeInv, NEW l \in Node, NEW s \in GroupState, NEW ev \in GoodEvent,
           OwnState(l, s), HasState(l), Advances(Held(l), s), OwnCause(l, s),
           ev.actor = l, ev.st = s, Unrecorded(l) \/ Derives(Held(l), ev),
           Mutate(l, s, ev),
           task' \in [Node -> Task],
           \A m \in Node : task'[m] = task[m] \/ TaskStep(m)
    PROVE  StepSound
<1>1. DiskStep
  BY OwnStateWrite DEF Mutate
<1> QED
  BY <1>1 DEF StepSound, Mutate, TypeInv

(* So does one that dies before it appends.                                *)
LEMMA MutateAndCrashSound ==
    ASSUME TypeInv, NEW l \in Node, NEW s \in GroupState,
           OwnState(l, s), HasState(l) => Advances(Held(l), s), OwnCause(l, s),
           MutateAndCrash(l, s)
    PROVE  StepSound
<1>1. DiskStep
  BY OwnStateWrite DEF MutateAndCrash, CanCrash, Unrecorded
<1>2. /\ task' \in [Node -> Task]
      /\ \A m \in Node : task'[m] = task[m] \/ TaskStep(m)
  BY RestSound DEF MutateAndCrash
<1> QED
  BY <1>1, <1>2, StopTyped DEF StepSound, MutateAndCrash, TypeInv

(* build_next_state yields a state that names its author as the leader.    *)
LEMMA NextStateTyped ==
    ASSUME TypeInv, NEW cur \in GroupState, NEW n \in Node, NEW from \in GroupState,
           NEW epoch \in Nat, NEW step \in Nat
    PROVE  LET s == NextState(cur, n, from, epoch, step)
           IN  /\ s \in GroupState
               /\ OwnState(n, s)
               /\ s.version = cur.version + step
               /\ s.leader_epoch = epoch
<1>1. cur.version + step \in Nat /\ clock + TTL \in Nat
  BY GroupStateFields, BoundsAreNumbers DEF TypeInv
<1>2. clock + TTL >= TTL
  BY BoundsAreNumbers DEF TypeInv
<1> QED
  BY <1>1, <1>2 DEF NextState, GroupState, OwnState

(* A next version in no earlier term advances.                             *)
LEMMA NextVersionAdvances ==
    ASSUME NEW cur \in GroupState, NEW s \in GroupState,
           s.version = cur.version + 1, s.leader_epoch >= cur.leader_epoch
    PROVE  Advances(cur, s)
BY GroupStateFields DEF Advances, RankBelow

(* An event about the group carries its state.                             *)
LEMMA GroupEventTyped ==
    ASSUME NEW type \in GroupEventTypes, NEW actor \in Node, NEW n \in Node \cup Runtime,
           NEW s \in GroupState
    PROVE  /\ GroupEvent(type, actor, n, s) \in GoodEvent
           /\ GroupEvent(type, actor, n, s).actor = actor
           /\ GroupEvent(type, actor, n, s).st = s
BY DEF GroupEvent, GoodEvent, Event, Grouped, NoRbac, Rbac

(* Audit and RBAC events carry none.                                       *)
LEMMA OtherEventsTyped ==
    ASSUME NEW n \in Node, NEW rbac \in Rbac
    PROVE  /\ AuditEvent(n) \in GoodEvent /\ AuditEvent(n).actor = n /\ ~Grouped(AuditEvent(n))
           /\ RbacEvent(n, rbac) \in GoodEvent /\ RbacEvent(n, rbac).actor = n
           /\ ~Grouped(RbacEvent(n, rbac))
BY DEF AuditEvent, RbacEvent, GoodEvent, Event, Grouped, GroupEventTypes, NoRbac, Rbac

(* The state a handler of the leader saves leads on from its own, keeps    *)
(* its term and takes the membership the handler built; the event carries  *)
(* it.                                                                     *)
LEMMA HandlerState ==
    ASSUME TypeInv, NEW l \in Node, Leads(l), NEW n \in Node \cup Runtime, NEW from \in GroupState,
           NEW type \in GroupEventTypes \ SnapshotTypes
    PROVE  LET s == NextState(Held(l), l, from, Held(l).leader_epoch, 1)
               ev == GroupEvent(type, l, n, s)
           IN  /\ s \in GroupState /\ OwnState(l, s)
               /\ HasState(l) /\ Advances(Held(l), s) /\ OwnCause(l, s)
               /\ ev \in GoodEvent /\ ev.actor = l /\ ev.st = s
               /\ s.version = Held(l).version + 1
               /\ s.control_planes = from.control_planes /\ s.runtimes = from.runtimes
               /\ s.endpoints = from.endpoints
<1> DEFINE s == NextState(Held(l), l, from, Held(l).leader_epoch, 1)
           ev == GroupEvent(type, l, n, s)
<1>1. /\ Held(l) \in GroupState /\ Held(l).leader_epoch \in Nat /\ HasState(l)
      /\ Held(l).leader_epoch >= Held(l).leader_epoch
  BY HeldTyped, GroupStateFields DEF Leads
<1>2. /\ Held(l).version + 1 \in Nat /\ clock + TTL \in Nat /\ clock + TTL >= TTL
  BY <1>1, GroupStateFields, BoundsAreNumbers DEF TypeInv
<1>3. /\ s \in GroupState /\ OwnState(l, s)
      /\ s.version = Held(l).version + 1 /\ s.leader_epoch = Held(l).leader_epoch
      /\ s.control_planes = from.control_planes /\ s.runtimes = from.runtimes
      /\ s.endpoints = from.endpoints
  BY <1>1, <1>2 DEF NextState, GroupState, OwnState
<1> HIDE DEF s
<1>4. Advances(Held(l), s) /\ OwnCause(l, s)
  BY <1>1, <1>3, NextVersionAdvances DEF OwnCause
<1>5. ev \in GoodEvent /\ ev.actor = l /\ ev.st = s
  BY <1>3, GroupEventTyped
<1> QED
  BY <1>1, <1>3, <1>4, <1>5 DEF s

(* What the replay of a diff makes of the membership.                      *)
LEMMA ReplayedMembers ==
    ASSUME NEW cur \in GroupState, NEW ev, ev.type \notin SnapshotTypes
    PROVE  LET s == ReplayedState(cur, ev)
               base == CASE ev.type = "joined" -> WithNode(cur, ev.node)
                         [] ev.type = "revoked" -> WithoutNode(cur, ev.node)
                         [] OTHER -> cur
           IN  /\ s.version = ev.st.version
               /\ s.control_planes = base.control_planes
               /\ s.runtimes = base.runtimes
               /\ s.endpoints = IF ev.type = "revoked" THEN base.endpoints ELSE ev.st.endpoints
<1> DEFINE base == CASE ev.type = "joined" -> WithNode(cur, ev.node)
                     [] ev.type = "revoked" -> WithoutNode(cur, ev.node)
                     [] OTHER -> cur
           diff == [base EXCEPT !.version = ev.st.version,
                                !.expires_at = ev.st.expires_at,
                                !.leader_signature = NoKey]
<1>1. DOMAIN base = DOMAIN cur
  BY DEF WithNode, WithoutNode
<1>2. DOMAIN cur = {"group_id", "version", "leader_epoch", "leader_node_id", "leader_pubkey",
                    "control_planes", "runtimes", "endpoints", "expires_at", "leader_signature"}
  BY DEF GroupState
<1>3. ReplayedState(cur, ev) =
         IF ev.type = "revoked" THEN diff ELSE [diff EXCEPT !.endpoints = ev.st.endpoints]
  BY Zenon DEF ReplayedState
<1> HIDE DEF base
<1>4. /\ diff.version = ev.st.version /\ diff.control_planes = base.control_planes
      /\ diff.runtimes = base.runtimes /\ diff.endpoints = base.endpoints
      /\ DOMAIN diff = DOMAIN base
  BY <1>1, <1>2
<1> HIDE DEF diff
<1>5. LET d == [diff EXCEPT !.endpoints = ev.st.endpoints]
      IN  /\ d.version = diff.version /\ d.control_planes = diff.control_planes
          /\ d.runtimes = diff.runtimes /\ d.endpoints = ev.st.endpoints
  BY <1>1, <1>2, <1>4
<1> QED
  BY <1>3, <1>4, <1>5 DEF base

(* A step that touches no coroutine.                                       *)
LEMMA TaskUnchanged ==
    ASSUME TypeInv, task' = task
    PROVE  /\ task' \in [Node -> Task]
           /\ \A m \in Node : task'[m] = task[m] \/ TaskStep(m)
BY DEF TypeInv

\* What a handler of the leader saves and records.
Handled(l, s, ev) ==
    /\ s \in GroupState /\ OwnState(l, s)
    /\ HasState(l) /\ Advances(Held(l), s) /\ OwnCause(l, s)
    /\ ev \in GoodEvent /\ ev.actor = l /\ ev.st = s
    /\ Derives(Held(l), ev)

(* apply_join: the replay of the event rebuilds what it saved.             *)
LEMMA JoinedHandled ==
    ASSUME TypeInv, NEW l \in Node, Leads(l), NEW n \in Node \cup Runtime
    PROVE  Handled(l, JoinedState(l, n), GroupEvent("joined", l, n, JoinedState(l, n)))
<1> DEFINE w == WithNode(Held(l), n)
           e == (w.endpoints \ {n}) \cup (IF n \in Node THEN {n} ELSE {})
           from == [w EXCEPT !.endpoints = e]
           s == JoinedState(l, n)
           ev == GroupEvent("joined", l, n, s)
<1>1. Held(l) \in GroupState /\ w \in GroupState
  BY HeldTyped, WithNodeTyped DEF Leads
<1>2. e \in SUBSET Node
  <2> HIDE DEF w
  <2> QED
    BY <1>1, GroupStateFields
<1>3. /\ from \in GroupState /\ from.control_planes = w.control_planes
      /\ from.runtimes = w.runtimes
  <2> HIDE DEF w, e
  <2> QED
    BY <1>1, <1>2 DEF GroupState
<1>4. s = NextState(Held(l), l, from, Held(l).leader_epoch, 1)
  BY Zenon DEF JoinedState
<1>5. "joined" \in GroupEventTypes \ SnapshotTypes
  BY DEF GroupEventTypes, SnapshotTypes
<1> HIDE DEF from, s
<1>6. /\ s \in GroupState /\ OwnState(l, s)
      /\ HasState(l) /\ Advances(Held(l), s) /\ OwnCause(l, s)
      /\ ev \in GoodEvent /\ ev.actor = l /\ ev.st = s
      /\ s.version = Held(l).version + 1
      /\ s.control_planes = w.control_planes /\ s.runtimes = w.runtimes
  BY <1>3, <1>4, <1>5, HandlerState
<1>7. ev.type = "joined" /\ ev.node = n
  BY DEF GroupEvent
<1> HIDE DEF ev
<1>8. Membership(ReplayedState(Held(l), ev)) = Membership(s)
  BY <1>1, <1>5, <1>6, <1>7, ReplayedMembers DEF Membership
<1>9. Derives(Held(l), ev)
  BY <1>5, <1>6, <1>7, <1>8 DEF Derives
<1> QED
  BY <1>6, <1>9 DEF Handled, ev, s

(* revoke_node likewise.                                                   *)
LEMMA RevokedHandled ==
    ASSUME TypeInv, NEW l \in Node, Leads(l), NEW n \in Node \cup Runtime
    PROVE  Handled(l, RevokedState(l, n), GroupEvent("revoked", l, n, RevokedState(l, n)))
<1> DEFINE from == WithoutNode(Held(l), n)
           s == RevokedState(l, n)
           ev == GroupEvent("revoked", l, n, s)
<1>1. Held(l) \in GroupState /\ from \in GroupState
  BY HeldTyped, WithoutNodeTyped DEF Leads
<1>4. s = NextState(Held(l), l, from, Held(l).leader_epoch, 1)
  BY Zenon DEF RevokedState
<1>5. "revoked" \in GroupEventTypes \ SnapshotTypes
  BY DEF GroupEventTypes, SnapshotTypes
<1> HIDE DEF from, s
<1>6. /\ s \in GroupState /\ OwnState(l, s)
      /\ HasState(l) /\ Advances(Held(l), s) /\ OwnCause(l, s)
      /\ ev \in GoodEvent /\ ev.actor = l /\ ev.st = s
      /\ s.version = Held(l).version + 1
      /\ s.control_planes = from.control_planes /\ s.runtimes = from.runtimes
      /\ s.endpoints = from.endpoints
  BY <1>1, <1>4, <1>5, HandlerState
<1>7. ev.type = "revoked" /\ ev.node = n
  BY DEF GroupEvent
<1> HIDE DEF ev
<1>8. Membership(ReplayedState(Held(l), ev)) = Membership(s)
  BY <1>1, <1>5, <1>6, <1>7, ReplayedMembers DEF Membership, from
<1>9. Derives(Held(l), ev)
  BY <1>5, <1>6, <1>7, <1>8 DEF Derives
<1> QED
  BY <1>6, <1>9 DEF Handled, ev, s

(* update_node_endpoints likewise.                                         *)
LEMMA EndpointsHandled ==
    ASSUME TypeInv, NEW l \in Node, Leads(l), NEW n \in Node, NEW published \in BOOLEAN
    PROVE  Handled(l, EndpointsState(l, n, published),
                   GroupEvent("endpoints", l, n, EndpointsState(l, n, published)))
<1> DEFINE e == (Held(l).endpoints \ {n}) \cup (IF published THEN {n} ELSE {})
           from == [Held(l) EXCEPT !.endpoints = e]
           s == EndpointsState(l, n, published)
           ev == GroupEvent("endpoints", l, n, s)
<1>1. Held(l) \in GroupState
  BY HeldTyped DEF Leads
<1>2. e \in SUBSET Node
  BY <1>1, GroupStateFields
<1>3. /\ from \in GroupState /\ from.control_planes = Held(l).control_planes
      /\ from.runtimes = Held(l).runtimes
  <2> HIDE DEF e
  <2> QED
    BY <1>1, <1>2 DEF GroupState
<1>4. s = NextState(Held(l), l, from, Held(l).leader_epoch, 1)
  BY Zenon DEF EndpointsState
<1>5. "endpoints" \in GroupEventTypes \ SnapshotTypes
  BY DEF GroupEventTypes, SnapshotTypes
<1> HIDE DEF from, s
<1>6. /\ s \in GroupState /\ OwnState(l, s)
      /\ HasState(l) /\ Advances(Held(l), s) /\ OwnCause(l, s)
      /\ ev \in GoodEvent /\ ev.actor = l /\ ev.st = s
      /\ s.version = Held(l).version + 1
      /\ s.control_planes = Held(l).control_planes /\ s.runtimes = Held(l).runtimes
  BY <1>3, <1>4, <1>5, HandlerState
<1>7. ev.type = "endpoints" /\ ev.node = n
  BY DEF GroupEvent
<1> HIDE DEF ev
<1>8. Membership(ReplayedState(Held(l), ev)) = Membership(s)
  BY <1>1, <1>5, <1>6, <1>7, ReplayedMembers DEF Membership
<1>9. Derives(Held(l), ev)
  BY <1>5, <1>6, <1>7, <1>8 DEF Derives
<1> QED
  BY <1>6, <1>9 DEF Handled, ev, s

(* A runtime joins (apply_join).                                           *)
LEMMA RuntimeJoinSound ==
    ASSUME TypeInv, NEW l \in Node, NEW r \in Runtime, RuntimeJoin(l, r)
    PROVE  StepSound
<1> DEFINE s == JoinedState(l, r)
           ev == GroupEvent("joined", l, r, s)
<1>1. /\ Leads(l)
      /\ \/ Mutate(l, s, ev) /\ task' = task
         \/ MutateAndCrash(l, s)
  BY DEF RuntimeJoin, MembershipRequest, Handles
<1>2. Handled(l, s, ev)
  BY <1>1, JoinedHandled
<1> HIDE DEF s, ev
<1> QED
  BY <1>1, <1>2, MutateSound, MutateAndCrashSound, TaskUnchanged DEF Handled

(* A node is revoked (revoke_node).                                        *)
LEMMA RevokeNodeSound ==
    ASSUME TypeInv, NEW l \in Node, NEW n \in Node \cup Runtime, RevokeNode(l, n)
    PROVE  StepSound
<1> DEFINE s == RevokedState(l, n)
           ev == GroupEvent("revoked", l, n, s)
<1>1. /\ Leads(l)
      /\ \/ Mutate(l, s, ev) /\ task' = task
         \/ MutateAndCrash(l, s)
  BY DEF RevokeNode, MembershipRequest, Handles
<1>2. Handled(l, s, ev)
  BY <1>1, RevokedHandled
<1> HIDE DEF s, ev
<1> QED
  BY <1>1, <1>2, MutateSound, MutateAndCrashSound, TaskUnchanged DEF Handled

(* A node publishes its URLs (update_node_endpoints).                      *)
LEMMA UpdateNodeEndpointsSound ==
    ASSUME TypeInv, NEW l \in Node, NEW n \in Node, NEW published \in BOOLEAN,
           UpdateNodeEndpoints(l, n, published)
    PROVE  StepSound
<1> DEFINE s == EndpointsState(l, n, published)
           ev == GroupEvent("endpoints", l, n, s)
<1>1. /\ Leads(l)
      /\ \/ Mutate(l, s, ev) /\ task' = task
         \/ MutateAndCrash(l, s)
  BY DEF UpdateNodeEndpoints, MembershipRequest, Handles
<1>2. Handled(l, s, ev)
  BY <1>1, EndpointsHandled
<1> HIDE DEF s, ev
<1> QED
  BY <1>1, <1>2, MutateSound, MutateAndCrashSound, TaskUnchanged DEF Handled

(* A write that leaves the group state alone.                              *)
LEMMA KeptStateWrite ==
    ASSUME TypeInv, NEW n \in Node, NEW r \in GoodReplica,
           disk' = [disk EXCEPT ![n] = r], r.st = Held(n), OwnWrite(n, r)
    PROVE  DiskStep
<1>1. HasState(n) => r.st \in GroupState /\ Advances(Held(n), r.st)
  BY HeldTyped, AdvancesReflexive
<1> QED
  BY <1>1 DEF DiskStep, Write

(* The GUI reads the cluster, which appends an audit event                 *)
(* (handle_gui_cluster).                                                   *)
LEMMA GuiClusterReadSound ==
    ASSUME TypeInv, NEW l \in Node, GuiClusterRead(l)
    PROVE  StepSound
<1> DEFINE d == disk[l]
           r == [st |-> d.st, log |-> Append(d.log, AuditEvent(l)), rbac |-> d.rbac]
<1>0. /\ d = [st |-> d.st, log |-> d.log, rbac |-> d.rbac] /\ d.st = Held(l)
      /\ d.st \in GroupState \cup {NoState} /\ d.rbac \in Rbac
      /\ d.log \in Seq(GoodEvent) /\ disk \in [Node -> GoodReplica]
      /\ AuditEvent(l) \in GoodEvent /\ AuditEvent(l).actor = l /\ ~Grouped(AuditEvent(l))
  BY HeldTyped, ReplicaFields, OtherEventsTyped DEF Held, TypeInv, Rbac
<1>1. r \in GoodReplica /\ disk' = [disk EXCEPT ![l] = r]
  <2>1. disk' = [disk EXCEPT ![l] = r]
    BY FieldsWritten, Zenon DEF GuiClusterRead
  <2>2. Append(d.log, AuditEvent(l)) \in Seq(GoodEvent)
    BY <1>0
  <2> QED
    BY <1>0, <2>1, <2>2 DEF GoodReplica
<1>2. OwnWrite(l, r)
  BY <1>0 DEF OwnWrite, OwnCause, OwnChange, GuiClusterRead, Handles
<1>3. DiskStep
  BY <1>0, <1>1, <1>2, KeptStateWrite
<1> QED
  BY <1>3, TaskUnchanged DEF StepSound, GuiClusterRead, TypeInv

(* A manifest is applied, also at a node that does not lead                *)
(* (handle_resources_apply).                                               *)
LEMMA ResourcesApplySound ==
    ASSUME TypeInv, NEW n \in Node, ResourcesApply(n)
    PROVE  StepSound
<1> DEFINE d == disk[n]
           new == [version |-> disk[n].rbac.version + 1, writer |-> n]
           r == [st |-> d.st, log |-> Append(d.log, RbacEvent(n, new)), rbac |-> new]
           torn == [st |-> d.st, log |-> d.log, rbac |-> new]
<1>0. /\ d = [st |-> d.st, log |-> d.log, rbac |-> d.rbac] /\ d.st = Held(n)
      /\ d.st \in GroupState \cup {NoState} /\ d.rbac \in Rbac
      /\ d.log \in Seq(GoodEvent) /\ disk \in [Node -> GoodReplica]
  BY HeldTyped, ReplicaFields DEF Held, TypeInv
<1>1. new \in Rbac
  BY <1>0 DEF Rbac
<1>2. /\ RbacEvent(n, new) \in GoodEvent /\ RbacEvent(n, new).actor = n
      /\ ~Grouped(RbacEvent(n, new))
  BY <1>1, OtherEventsTyped
<1>3. r \in GoodReplica /\ torn \in GoodReplica
  BY <1>0, <1>1, <1>2 DEF GoodReplica
<1>4. OwnWrite(n, r) /\ OwnWrite(n, torn)
  <2>1. OwnCause(n, d.st)
    BY <1>0 DEF ResourcesApply, OwnCause
  <2> QED
    BY <1>0, <1>2, <2>1 DEF OwnWrite, OwnChange
<1>5. CASE /\ disk' = [disk EXCEPT ![n].rbac = new, ![n].log = Append(@, RbacEvent(n, new))]
           /\ UNCHANGED <<proc, broken, task, crashes>>
  <2>1. disk' = [disk EXCEPT ![n] = r]
    BY <1>0, <1>5
  <2>2. DiskStep
    BY <1>0, <1>3, <1>4, <2>1, KeptStateWrite
  <2> QED
    BY <1>5, <2>2, TaskUnchanged DEF StepSound, ResourcesApply, TypeInv
<1>6. CASE CanCrash("op_crash") /\ disk' = [disk EXCEPT ![n].rbac = new] /\ Stop(n) /\ Rest(n)
  <2>1. disk' = [disk EXCEPT ![n] = torn]
    BY <1>6, FieldsWritten
  <2>2. DiskStep
    BY <1>0, <1>3, <1>4, <2>1, KeptStateWrite
  <2> QED
    BY <1>6, <2>2, RestSound, StopTyped DEF StepSound, ResourcesApply, TypeInv
<1> QED
  BY <1>5, <1>6 DEF ResourcesApply

-----------------------------------------------------------------------------
(* The failover loop and event synchronisation.                            *)

(* The least of some nodes is one of them.                                 *)
LEMMA MinIsMember ==
    ASSUME NEW S \in SUBSET Node, S # {}
    PROVE  Min(S) \in S /\ \A m \in S : Min(S) <= m
<1>1. \E x \in S : \A y \in S : x <= y
  BY NodesAreNumbers, LeastNatural
<1> QED
  BY <1>1 DEF Min

(* A coroutine that is replaced by a sound one makes a sound step.         *)
LEMMA TaskStepSound ==
    ASSUME TypeInv, NEW n \in Node, NEW t \in Task,
           task' = [task EXCEPT ![n] = t],
           TaskStep(n)
    PROVE  /\ task' \in [Node -> Task]
           /\ \A m \in Node : task'[m] = task[m] \/ TaskStep(m)
BY TaskReplaced

(* A call of sync_events_from_urls, with or without URLs.                  *)
LEMMA StartSyncSound ==
    ASSUME TypeInv, NEW n \in Node, NEW caller \in Caller,
           NEW urls \in SUBSET Node, NEW rest \in SUBSET Node,
           NEW trusted \in Node \cup {NoKey},
           NEW saved \in GroupState \cup {NoState}, NEW peer \in Node \cup {0},
           StartSync(n, caller, urls, rest, trusted, saved, peer),
           HasState(n)',
           caller \in {"renew", "others", "alone"} => saved \in GroupState,
           caller \in {"join", "rejoin"} => peer \in Node \ {n},
           n \notin urls \cup rest,
           caller \in {"peers", "others", "alone", "candidate"} =>
              InFailover(task[n]) \/ (HasState(n) /\ ~Leads(n) /\ IsExpired(Held(n), 0)),
           caller = "renew" =>
              task[n].caller = "renew" \/ (Leads(n) /\ IsExpired(Held(n), TTL \div 2))
    PROVE  /\ task' \in [Node -> Task]
           /\ \A m \in Node : task'[m] = task[m] \/ TaskStep(m)
<1> DEFINE t == [Idle EXCEPT !.pc = IF urls = {} THEN "done" ELSE "fetch",
                             !.caller = caller, !.urls = urls, !.rest = rest,
                             !.trusted = trusted, !.before = Fingerprint(Held(n)),
                             !.saved = saved, !.peer = peer]
<1>1. Fingerprint(Held(n)) \in Seen
  BY HeldTyped, GroupStateFields DEF Fingerprint, Seen
<1>2. /\ t \in Task
      /\ t.pc \in {"done", "fetch"} /\ (t.pc = "fetch" => t.urls # {})
      /\ t.caller = caller /\ t.saved = saved /\ t.peer = peer
      /\ t.urls = urls /\ t.rest = rest /\ ~t.diverged /\ t.outcome = "none"
  BY <1>1, ZenonT(30) DEF Task, Idle, Pc, SyncPc
<1>3. task' = [task EXCEPT ![n] = t]
  BY DEF StartSync
<1> HIDE DEF t
<1>4. task'[n] = t
  BY <1>2, <1>3, TaskReplaced
<1>5. TaskStep(n)
  BY <1>2, <1>4 DEF TaskStep, TaskSound, InFailover
<1> QED
  BY <1>2, <1>3, <1>5, TaskStepSound

(* Leaving a URL, for the next one or for the caller.                      *)
LEMMA NextUrlSound ==
    ASSUME TypeInv, NEW n \in Node, NEW u, NEW diverged \in BOOLEAN,
           NEW end \in {"done", "failed"},
           NextUrl(n, u, diverged, end),
           task[n].pc \in {"fetch", "apply", "snapshot"},
           HasState(n)',
           diverged => task[n].diverged \/ (task[n].pc = "apply" /\ Diverges(disk[n], task[n].page))
    PROVE  /\ task' \in [Node -> Task]
           /\ \A m \in Node : task'[m] = task[m] \/ TaskStep(m)
<1> DEFINE left == task[n].urls \ {u}
           pc == IF left = {} THEN end ELSE "fetch"
           outcome == IF left = {} /\ diverged /\ RaisesDivergence(task[n].caller)
                      THEN "diverged" ELSE "none"
           t == [task[n] EXCEPT !.urls = left, !.page = <<>>, !.diverged = diverged,
                                !.pc = pc, !.outcome = outcome]
<1>1. task[n] \in Task /\ task \in [Node -> Task] /\ TaskSound(n)
  BY DEF TypeInv
<1>2. /\ left \in SUBSET Node /\ pc \in {"done", "failed", "fetch"}
      /\ (pc = "fetch" => left # {}) /\ outcome \in {"none", "diverged"}
      /\ left \subseteq task[n].urls /\ (outcome = "diverged" => diverged)
  BY <1>1 DEF Task
<1>3. task' = [task EXCEPT ![n] = t]
  BY <1>1 DEF NextUrl
<1> HIDE DEF left, pc, outcome
<1>4. /\ t \in Task /\ t.pc = pc /\ t.urls = left
      /\ t.caller = task[n].caller /\ t.saved = task[n].saved /\ t.peer = task[n].peer
      /\ t.rest = task[n].rest /\ t.diverged = diverged /\ t.outcome = outcome
  <2>1. pc \in Pc
    BY <1>2 DEF Pc, SyncPc
  <2> QED
    BY <1>1, <1>2, <2>1 DEF Task
<1> HIDE DEF t
<1>5. task'[n] = t
  BY <1>3, <1>4, TaskReplaced
<1>6. TaskStep(n)
  BY <1>1, <1>2, <1>4, <1>5 DEF TaskStep, TaskSound, SyncPc, InFailover
<1> QED
  BY <1>3, <1>4, <1>6, TaskStepSound

(* Returning to the caller after a URL has been read to its end.           *)
LEMMA SyncCompletedSound ==
    ASSUME TypeInv, NEW n \in Node, NEW s,
           SyncCompleted(n, s),
           task[n].pc \in {"apply", "snapshot"},
           HasState(n)'
    PROVE  /\ task' \in [Node -> Task]
           /\ \A m \in Node : task'[m] = task[m] \/ TaskStep(m)
<1> DEFINE outcome == IF Fingerprint(s) = task[n].before THEN "none" ELSE "synced"
           t == [task[n] EXCEPT !.pc = "done", !.page = <<>>, !.outcome = outcome]
<1>1. task[n] \in Task /\ task \in [Node -> Task] /\ TaskSound(n)
  BY DEF TypeInv
<1>2. outcome \in {"none", "synced"}
  OBVIOUS
<1>3. task' = [task EXCEPT ![n] = t]
  BY <1>1 DEF SyncCompleted
<1> HIDE DEF outcome
<1>4. /\ t \in Task /\ t.pc = "done"
      /\ t.caller = task[n].caller /\ t.saved = task[n].saved /\ t.peer = task[n].peer
      /\ t.urls = task[n].urls /\ t.rest = task[n].rest
      /\ t.diverged = task[n].diverged /\ t.outcome # "diverged"
  BY <1>1, <1>2 DEF Task, Pc, SyncPc
<1> HIDE DEF t
<1>5. task'[n] = t
  BY <1>3, <1>4, TaskReplaced
<1>6. TaskStep(n)
  BY <1>1, <1>4, <1>5 DEF TaskStep, TaskSound, SyncPc, InFailover
<1> QED
  BY <1>3, <1>4, <1>6, TaskStepSound

(* A step of a coroutine that writes nothing.                              *)
LEMMA OnlyTask ==
    ASSUME TypeInv, disk' = disk,
           UNCHANGED <<broken, clock, crashes>>,
           proc' \in [Node -> {"down", "cli", "starting", "up"}],
           task' \in [Node -> Task],
           \A m \in Node : task'[m] = task[m] \/ TaskStep(m)
    PROVE  StepSound
BY DEF StepSound, DiskStep, TypeInv

(* A node whose storage does not change keeps its state.                   *)
LEMMA StateKept ==
    ASSUME TypeInv, disk' = disk, NEW n \in Node, HasState(n)
    PROVE  HasState(n)'
BY DEF HasState

(* What SubSeq returns.                                                    *)
LEMMA SubSeqTyped ==
    ASSUME NEW S, NEW s \in Seq(S), NEW i \in Nat, NEW j \in Nat, j <= Len(s)
    PROVE  /\ SubSeq(s, i + 1, j) \in Seq(S)
           /\ Len(SubSeq(s, i + 1, j)) <= Len(s) - i \/ Len(SubSeq(s, i + 1, j)) = 0
           /\ \A k \in 1 .. Len(SubSeq(s, i + 1, j)) : SubSeq(s, i + 1, j)[k] = s[i + k]
           /\ Len(SubSeq(s, i + 1, j)) = IF i < j THEN j - i ELSE 0
OBVIOUS

(* event_page: the items are the events of the server's log that follow    *)
(* the given id, and no more than a page holds.                            *)
LEMMA EventPageTyped ==
    ASSUME TypeInv, NEW p \in Node, HasState(p), NEW after \in Nat
    PROVE  LET page == EventPage(disk[p], p, after)
           IN  /\ page \in Page /\ page.server = p /\ page.after = after
               /\ Len(page.items) <= PageLimit
               /\ Len(page.items) <= IF after < Len(disk[p].log) THEN Len(disk[p].log) - after ELSE 0
               /\ \A i \in 1 .. Len(page.items) : page.items[i] = disk[p].log[after + i]
<1> DEFINE d == disk[p]
           last == IF after + PageLimit < Len(d.log) THEN after + PageLimit ELSE Len(d.log)
           items == SubSeq(d.log, after + 1, last)
           page == EventPage(d, p, after)
<1>1. /\ d \in GoodReplica /\ d.st \in GroupState /\ d.rbac \in Rbac
      /\ d.log \in Seq(GoodEvent) /\ Len(d.log) \in Nat
      /\ PageLimit \in Nat
  BY HeldTyped, ReplicaFields, PageAssumption DEF Held
<1>2. last \in Nat /\ last <= Len(d.log) /\ last <= after + PageLimit
  BY <1>1
<1> HIDE DEF d, last
<1>3. /\ items \in Seq(GoodEvent)
      /\ \A k \in 1 .. Len(items) : items[k] = d.log[after + k]
      /\ Len(items) = IF after < last THEN last - after ELSE 0
  BY <1>1, <1>2, SubSeqTyped
<1>4. Len(items) <= PageLimit /\ Len(items) <= IF after < Len(d.log) THEN Len(d.log) - after ELSE 0
  BY <1>1, <1>2, <1>3, PageAssumption
<1>5. LastEventId(d) \in Nat /\ LastEventNonce(d) \in Node \cup {0}
  BY <1>1 DEF LastEventId, LastEventNonce, GoodEvent, Event
<1>6. StateHash(d) \in [log : Seq(GoodEvent), rbac : Rbac]
  BY <1>1 DEF StateHash
<1>7. d.st.leader_pubkey \in Node /\ d.st.leader_epoch \in Nat
  BY <1>1, GroupStateFields
<1>8. page = [server |-> p, leader_pubkey |-> d.st.leader_pubkey,
              leader_epoch |-> d.st.leader_epoch, after |-> after, items |-> items,
              last_event_id |-> LastEventId(d), last_event_nonce |-> LastEventNonce(d),
              state_hash |-> StateHash(d), has_more |-> after + PageLimit < Len(d.log)]
  BY DEF EventPage, last
<1> HIDE DEF items, page
<1>9. page \in Page /\ page.server = p /\ page.after = after /\ page.items = items
  BY <1>3, <1>5, <1>6, <1>7, <1>8 DEF Page
<1> QED
  BY <1>3, <1>4, <1>9 DEF page, d

(* The URL that is asked next is one of those left.                        *)
LEMMA UrlTyped ==
    ASSUME TypeInv, NEW n \in Node, task[n].pc \in {"fetch", "ping"}
    PROVE  Url(n) \in task[n].urls /\ Url(n) \in Node
<1>1. task[n].urls \in SUBSET Node /\ task[n].urls # {}
  BY DEF TypeInv, Task, TaskSound
<1> QED
  BY <1>1, MinIsMember DEF Url

(* A page is answered; it begins where the log of the asking node ends.    *)
LEMMA FetchPageSound ==
    ASSUME TypeInv, NEW n \in Node, FetchPage(n)
    PROVE  StepSound
<1>1. /\ task[n].pc = "fetch" /\ UNCHANGED <<disk, proc, broken, clock, crashes>>
      /\ task[n] \in Task /\ task \in [Node -> Task] /\ TaskSound(n)
  BY DEF FetchPage, TypeInv
<1>2. PICK p \in Node \ {n} :
        /\ HasState(p) /\ Leads(p)
        /\ task' = [task EXCEPT ![n].pc = "apply",
                               ![n].page = EventPage(disk[p], p, LastEventId(disk[n]))]
  BY <1>1, UrlTyped DEF FetchPage, ServesEventsTo, Leads, TaskSound
<1>3. LastEventId(disk[n]) \in Nat /\ LastEventId(disk[n]) = Len(disk[n].log)
  BY HeldTyped, ReplicaFields DEF LastEventId
<1> DEFINE page == EventPage(disk[p], p, LastEventId(disk[n]))
           t == [task[n] EXCEPT !.pc = "apply", !.page = page]
<1>4. page \in Page /\ page.server = p /\ page.after = Len(disk[n].log)
  BY <1>2, <1>3, EventPageTyped
<1>6. task' = [task EXCEPT ![n] = t]
  BY <1>1, <1>2
<1>7. \E q \in Node \ {n} : Leads(q) /\ page = EventPage(disk[q], q, LastEventId(disk[n]))
  BY <1>2
<1> HIDE DEF page
<1>8. /\ t \in Task /\ t.pc = "apply" /\ t.page = page /\ t.urls = task[n].urls
      /\ t.caller = task[n].caller /\ t.saved = task[n].saved /\ t.peer = task[n].peer
      /\ t.rest = task[n].rest /\ t.diverged = task[n].diverged /\ t.outcome = task[n].outcome
  BY <1>1, <1>4 DEF Task, Pc, SyncPc
<1> HIDE DEF t
<1>9. task'[n] = t
  BY <1>6, <1>8, TaskReplaced
<1>10. HasState(n)
  BY <1>1 DEF TaskSound, SyncPc
<1>11. disk'[n] = disk[n] /\ Len(disk[n].log) \in Nat
  BY <1>1, HeldTyped, ReplicaFields
<1>12. disk'[n].st # NoState /\ disk'[p].st # NoState
  BY <1>1, <1>2, <1>10 DEF HasState
<1>13. TaskSound(n)'
  BY <1>1, <1>4, <1>8, <1>9, <1>11, <1>12 DEF TaskSound, HasState
<1>14. TaskStep(n)
  BY <1>1, <1>7, <1>8, <1>9, <1>13 DEF TaskStep, InFailover
<1> QED
  BY <1>1, <1>6, <1>8, <1>14, TaskStepSound, OnlyTask DEF TypeInv

(* A page is not answered, or refused.                                     *)
LEMMA FetchFailsSound ==
    ASSUME TypeInv, NEW n \in Node, FetchFails(n)
    PROVE  StepSound
<1>1. /\ task[n].pc = "fetch" /\ UNCHANGED <<disk, proc, broken, clock, crashes>>
      /\ NextUrl(n, Url(n), task[n].diverged, "failed")
  BY DEF FetchFails
<1>2. task[n].diverged \in BOOLEAN /\ HasState(n)
  BY <1>1 DEF TypeInv, Task, TaskSound, SyncPc
<1>3. HasState(n)'
  BY <1>1, <1>2, StateKept
<1>4. /\ task' \in [Node -> Task]
      /\ \A m \in Node : task'[m] = task[m] \/ TaskStep(m)
  BY <1>1, <1>2, <1>3, NextUrlSound
<1> QED
  BY <1>1, <1>4, OnlyTask DEF TypeInv

(* The leader's tick of the failover loop.                                 *)
LEMMA LeaderTickSound ==
    ASSUME TypeInv, NEW n \in Node, LeaderTick(n)
    PROVE  StepSound
<1>1. /\ HasState(n) /\ UNCHANGED <<disk, proc, broken, clock, crashes>>
      /\ StartSync(n, "renew", PeerUrls(n), {}, Held(n).leader_pubkey, Held(n), 0)
      /\ Leads(n) /\ IsExpired(Held(n), TTL \div 2)
  BY DEF LeaderTick, CanTick
<1>2. /\ Held(n) \in GroupState /\ PeerUrls(n) \in SUBSET Node
      /\ Held(n).leader_pubkey \in Node /\ n \notin PeerUrls(n) \cup {}
  BY <1>1, HeldTyped, GroupStateFields DEF PeerUrls
<1>3. HasState(n)'
  BY <1>1, StateKept
<1>4. /\ task' \in [Node -> Task]
      /\ \A m \in Node : task'[m] = task[m] \/ TaskStep(m)
  BY <1>1, <1>2, <1>3, StartSyncSound DEF Caller
<1> QED
  BY <1>1, <1>4, OnlyTask DEF TypeInv

(* The tick of a follower whose leader answers.                            *)
LEMMA FollowerTickSound ==
    ASSUME TypeInv, NEW n \in Node, FollowerTick(n)
    PROVE  StepSound
<1>1. /\ HasState(n) /\ UNCHANGED <<disk, proc, broken, clock, crashes>>
      /\ StartSync(n, "leader", {Held(n).leader_node_id}, {}, Held(n).leader_pubkey, NoState, 0)
  BY DEF FollowerTick, CanTick
<1>2. /\ {Held(n).leader_node_id} \in SUBSET Node /\ Held(n).leader_pubkey \in Node
      /\ n \notin {Held(n).leader_node_id} \cup {}
  BY <1>1, HeldTyped, GroupStateFields DEF FollowerTick, Leads
<1>3. HasState(n)'
  BY <1>1, StateKept
<1>4. /\ task' \in [Node -> Task]
      /\ \A m \in Node : task'[m] = task[m] \/ TaskStep(m)
  BY <1>1, <1>2, <1>3, StartSyncSound DEF Caller
<1> QED
  BY <1>1, <1>4, OnlyTask DEF TypeInv

(* The tick of a follower whose leader is silent and whose lease is over.  *)
LEMMA FailoverTickSound ==
    ASSUME TypeInv, NEW n \in Node, FailoverTick(n)
    PROVE  StepSound
<1>1. /\ HasState(n) /\ UNCHANGED <<disk, proc, broken, clock, crashes>>
      /\ StartSync(n, "peers", PeerUrls(n) \ {Held(n).leader_node_id}, {}, NoKey, NoState, 0)
      /\ ~Leads(n) /\ IsExpired(Held(n), 0)
  BY DEF FailoverTick, CanTick
<1>2. /\ PeerUrls(n) \ {Held(n).leader_node_id} \in SUBSET Node
      /\ n \notin (PeerUrls(n) \ {Held(n).leader_node_id}) \cup {}
  BY <1>1, HeldTyped, GroupStateFields DEF PeerUrls
<1>3. HasState(n)'
  BY <1>1, StateKept
<1>4. /\ task' \in [Node -> Task]
      /\ \A m \in Node : task'[m] = task[m] \/ TaskStep(m)
  BY <1>1, <1>2, <1>3, StartSyncSound DEF Caller
<1> QED
  BY <1>1, <1>4, OnlyTask DEF TypeInv

(* The round ends: the history diverged (mark_broken), there was nothing   *)
(* to do, or another peer answered.                                        *)
LEMMA RestOnlySound ==
    ASSUME TypeInv, NEW n \in Node, ResumeDiverged(n) \/ ResumeFollower(n) \/ OtherAnswers(n)
    PROVE  StepSound
<1>1. /\ Rest(n) /\ UNCHANGED <<disk, proc, clock, crashes>>
      /\ broken' \in [Node -> BOOLEAN]
      /\ \A m \in Node : broken'[m] => broken[m] \/ task[m].outcome = "diverged"
  BY DEF TypeInv, ResumeDiverged, ResumeFollower, OtherAnswers
<1> QED
  BY <1>1, RestSound DEF StepSound, DiskStep, TypeInv

(* current_failover_candidate is one of the control planes.                *)
LEMMA FailoverCandidateTyped ==
    ASSUME NEW s \in GroupState, s.control_planes # {}
    PROVE  FailoverCandidate(s) \in Node
<1>1. CpIds(s) # {}
  BY DEF CpIds
<1>2. /\ CpIds(s) \in SUBSET Node
      /\ {n \in CpIds(s) : n > s.leader_node_id} \in SUBSET Node
  BY GroupStateFields
<1> QED
  BY <1>1, <1>2, MinIsMember DEF FailoverCandidate

(* After sync_from_peers.                                                  *)
LEMMA ResumePeersSound ==
    ASSUME TypeInv, NEW n \in Node, ResumePeers(n)
    PROVE  StepSound
<1>1. /\ Returned(n) /\ UNCHANGED <<disk, proc, broken, clock, crashes>> /\ InFailover(task[n])
  BY DEF ResumePeers, Returns, InFailover
<1>2. HasState(n) /\ Held(n) \in GroupState
  BY <1>1, HeldTyped DEF TypeInv, Task, TaskSound, SyncPc, Returned
<1>3. HasState(n)'
  BY <1>1, <1>2, StateKept
<1>4. CASE IsExpired(Held(n), 0) /\ Held(n).control_planes # {}
  <2>1. StartSync(n, "others", Held(n).endpoints \ {n}, {}, NoKey,
                      Held(n), FailoverCandidate(Held(n)))
    BY <1>4 DEF ResumePeers
  <2>2. /\ Held(n).endpoints \ {n} \in SUBSET Node /\ FailoverCandidate(Held(n)) \in Node
          /\ n \notin (Held(n).endpoints \ {n}) \cup {}
    BY <1>2, <1>4, GroupStateFields, FailoverCandidateTyped
  <2>3. /\ task' \in [Node -> Task]
        /\ \A m \in Node : task'[m] = task[m] \/ TaskStep(m)
    BY <1>1, <1>2, <1>3, <2>1, <2>2, StartSyncSound DEF Caller
  <2> QED
    BY <1>1, <2>3, OnlyTask DEF TypeInv
<1>5. CASE ~(IsExpired(Held(n), 0) /\ Held(n).control_planes # {})
  BY <1>1, <1>5, RestSound, OnlyTask DEF ResumePeers, TypeInv
<1> QED
  BY <1>4, <1>5

(* The failover candidate answers the heartbeat.                           *)
LEMMA CandidateAnswersSound ==
    ASSUME TypeInv, NEW n \in Node, CandidateAnswers(n)
    PROVE  StepSound
<1>1. /\ task[n].pc = "heartbeat" /\ UNCHANGED <<disk, proc, broken, clock, crashes>>
      /\ task[n].peer \in task[n].saved.endpoints
      /\ StartSync(n, "candidate", {task[n].peer}, {}, NoKey, NoState, 0)
      /\ InFailover(task[n])
  BY DEF CandidateAnswers, InFailover
<1>2. HasState(n) /\ task[n].saved \in GroupState /\ n \notin {task[n].peer} \cup {}
  BY <1>1 DEF TypeInv, TaskSound, SyncPc
<1>3. {task[n].peer} \in SUBSET Node
  BY <1>1, <1>2, GroupStateFields
<1>4. HasState(n)'
  BY <1>1, <1>2, StateKept
<1>5. /\ task' \in [Node -> Task]
      /\ \A m \in Node : task'[m] = task[m] \/ TaskStep(m)
  BY <1>1, <1>2, <1>3, <1>4, StartSyncSound DEF Caller
<1> QED
  BY <1>1, <1>5, OnlyTask DEF TypeInv

(* The failover candidate does not.                                        *)
LEMMA CandidateSilentSound ==
    ASSUME TypeInv, NEW n \in Node, CandidateSilent(n)
    PROVE  StepSound
<1> DEFINE pc == IF task[n].rest = {} THEN "failed" ELSE "ping"
           t == [task[n] EXCEPT !.pc = pc, !.caller = "alone", !.urls = task[n].rest]
<1>1. /\ task[n].pc = "heartbeat" /\ UNCHANGED <<disk, proc, broken, clock, crashes>>
  BY DEF CandidateSilent
<1>2. /\ task[n] \in Task /\ task \in [Node -> Task] /\ HasState(n)
      /\ task[n].saved \in GroupState /\ TaskSound(n) /\ InFailover(task[n])
  BY <1>1 DEF TypeInv, TaskSound, SyncPc, InFailover
<1>3. task' = [task EXCEPT ![n] = t]
  BY <1>2 DEF CandidateSilent
<1>4. pc \in {"failed", "ping"} /\ (pc = "ping" => task[n].rest # {})
  OBVIOUS
<1> HIDE DEF pc
<1>5. /\ t \in Task /\ t.pc = pc /\ t.urls = task[n].rest
      /\ t.caller = "alone" /\ t.saved = task[n].saved /\ t.rest = task[n].rest
      /\ t.diverged = task[n].diverged /\ t.outcome = task[n].outcome
  <2>1. "alone" \in Caller /\ pc \in Pc
    BY <1>4 DEF Caller, Pc, SyncPc
  <2> QED
    BY <1>2, <2>1 DEF Task
<1> HIDE DEF t
<1>6. task'[n] = t
  BY <1>3, <1>5, TaskReplaced
<1>7. HasState(n)'
  BY <1>1, <1>2, StateKept
<1>8. TaskStep(n)
  BY <1>2, <1>4, <1>5, <1>6, <1>7 DEF TaskStep, TaskSound, InFailover
<1> QED
  BY <1>1, <1>3, <1>5, <1>8, TaskStepSound, OnlyTask DEF TypeInv

(* Another peer does not answer either.                                    *)
LEMMA OtherSilentSound ==
    ASSUME TypeInv, NEW n \in Node, OtherSilent(n)
    PROVE  StepSound
<1> DEFINE left == task[n].urls \ {Url(n)}
           pc == IF left = {} THEN "failed" ELSE "ping"
           t == [task[n] EXCEPT !.urls = left, !.pc = pc]
<1>1. /\ task[n].pc = "ping" /\ UNCHANGED <<disk, proc, broken, clock, crashes>>
  BY DEF OtherSilent
<1>2. /\ task[n] \in Task /\ task \in [Node -> Task] /\ HasState(n) /\ TaskSound(n)
      /\ task[n].saved \in GroupState /\ left \in SUBSET Node
      /\ left \subseteq task[n].urls /\ InFailover(task[n])
  BY <1>1 DEF TypeInv, Task, TaskSound, SyncPc, InFailover
<1>3. task' = [task EXCEPT ![n] = t]
  BY <1>2 DEF OtherSilent
<1>4. pc \in {"failed", "ping"} /\ (pc = "ping" => left # {})
  OBVIOUS
<1> HIDE DEF pc, left
<1>5. /\ t \in Task /\ t.pc = pc /\ t.urls = left
      /\ t.caller = task[n].caller /\ t.saved = task[n].saved /\ t.peer = task[n].peer
      /\ t.rest = task[n].rest /\ t.diverged = task[n].diverged /\ t.outcome = task[n].outcome
  <2>1. pc \in Pc
    BY <1>4 DEF Pc, SyncPc
  <2> QED
    BY <1>2, <2>1 DEF Task
<1> HIDE DEF t
<1>6. task'[n] = t
  BY <1>3, <1>5, TaskReplaced
<1>7. HasState(n)'
  BY <1>1, <1>2, StateKept
<1>8. TaskStep(n)
  BY <1>2, <1>4, <1>5, <1>6, <1>7 DEF TaskStep, TaskSound, InFailover
<1> QED
  BY <1>1, <1>3, <1>5, <1>8, TaskStepSound, OnlyTask DEF TypeInv

(* A page, as the node that examines it holds it.                          *)
LEMMA PageHeld ==
    ASSUME TypeInv, NEW n \in Node, task[n].pc = "apply"
    PROVE  /\ task[n].page \in Page /\ HasState(n)
           /\ disk[n] \in GoodReplica
           /\ task[n].page.after <= Len(disk[n].log)
           /\ Len(task[n].page.items) \in Nat
           /\ task[n].page.server \in Node /\ HasState(task[n].page.server)
<1>1. /\ task[n].page \in Page /\ HasState(n) /\ disk[n] \in GoodReplica
      /\ task[n].page.after <= Len(disk[n].log) /\ HasState(task[n].page.server)
  BY HeldTyped DEF TypeInv, TaskSound, SyncPc
<1> QED
  BY <1>1 DEF Page

(* Storing what a page has been replayed to is a write.                    *)
LEMMA ReplayWrite ==
    ASSUME TypeInv, NEW n \in Node, task[n].pc = "apply",
           NEW k \in 0 .. Len(task[n].page.items), NEW r,
           Replayed(disk[n], task[n].page, k, r), Rebuilt(disk[n], task[n].page, r),
           disk' = [disk EXCEPT ![n] = r]
    PROVE  DiskStep /\ HasState(n)'
<1>1. /\ r \in GoodReplica
      /\ HasState(n) => r.st \in GroupState /\ Advances(Held(n), r.st)
      /\ Replay(n, r)
  BY DEF Replayed, HasState, Held, Replay
<1>2. DiskStep
  BY <1>1 DEF DiskStep, Write
<1> QED
  BY <1>2, DiskGrows, PageHeld

(* sync_events_from_urls examines and applies a page; refused, stalled,    *)
(* mismatching or complete, the step is sound.                             *)
LEMMA ApplyPageSound ==
    ASSUME TypeInv, NEW n \in Node, ApplyPage(n)
    PROVE  StepSound
<1> DEFINE page == task[n].page
           res == ApplyItems(disk[n], page, Len(page.items), TrustOf(n))
           end == res.replica
<1>1. /\ task[n].pc = "apply" /\ UNCHANGED <<proc, broken, clock, crashes>>
      /\ task[n] \in Task /\ task \in [Node -> Task] /\ TaskSound(n)
      /\ task[n].diverged \in BOOLEAN
  BY DEF ApplyPage, TypeInv, Task
<1>2. /\ page \in Page /\ HasState(n) /\ disk[n] \in GoodReplica
      /\ page.after <= Len(disk[n].log) /\ Len(page.items) \in Nat
  BY <1>1, PageHeld
<1>3. CASE Diverges(disk[n], page)
  <2>1. NextUrl(n, page.server, TRUE, "done") /\ disk' = disk
    BY <1>3 DEF ApplyPage
  <2>2. HasState(n)'
    BY <1>2, <2>1, StateKept
  <2>3. /\ task' \in [Node -> Task]
        /\ \A m \in Node : task'[m] = task[m] \/ TaskStep(m)
    BY <1>1, <1>3, <2>1, <2>2, NextUrlSound
  <2> QED
    BY <1>1, <2>1, <2>3, OnlyTask DEF TypeInv
<1>4. CASE ~Diverges(disk[n], page)
  <2>1. /\ disk' = [disk EXCEPT ![n] = end]
        /\ \/ NextUrl(n, page.server, task[n].diverged, "done")
           \/ task' = [task EXCEPT ![n].pc = "fetch", ![n].page = <<>>]
           \/ task' = [task EXCEPT ![n].pc = "snapshot"] /\ PeerLeaderIsNewer(end.st, page)
           \/ SyncCompleted(n, end.st)
    BY <1>4, Zenon DEF ApplyPage
  <2>2. Len(page.items) \in 0 .. Len(page.items) /\ page.items \in Seq(GoodEvent)
    BY <1>2 DEF Page
  <2>3. Replayed(disk[n], page, Len(page.items), end)
    BY <1>2, <2>2, PageReplayed
  <2>10. Rebuilt(disk[n], page, end)
    <3> HIDE DEF page
    <3> QED
      BY <2>2, ZenonT(30) DEF Rebuilt
  <2> HIDE DEF end
  <2>4. DiskStep /\ HasState(n)'
    BY <1>1, <2>1, <2>2, <2>3, <2>10, ReplayWrite
  <2>5. HasState(page.server) => disk'[page.server].st # NoState
    BY <1>2, <2>4, DiskGrows DEF HasState, Page
  <2>6. CASE NextUrl(n, page.server, task[n].diverged, "done")
    BY <1>1, <2>4, <2>6, NextUrlSound DEF StepSound, TypeInv
  <2>7. CASE task' = [task EXCEPT ![n].pc = "fetch", ![n].page = <<>>]
    <3> DEFINE t == [task[n] EXCEPT !.pc = "fetch", !.page = <<>>]
    <3>1. task' = [task EXCEPT ![n] = t]
      BY <1>1, <2>7
    <3>2. /\ t \in Task /\ t.pc = "fetch" /\ t.urls = task[n].urls
          /\ t.caller = task[n].caller /\ t.saved = task[n].saved /\ t.peer = task[n].peer
          /\ t.rest = task[n].rest /\ t.diverged = task[n].diverged /\ t.outcome = task[n].outcome
      BY <1>1 DEF Task, Pc, SyncPc
    <3> HIDE DEF t
    <3>3. task'[n] = t
      BY <3>1, <3>2, TaskReplaced
    <3>4. task[n].urls # {}
      BY <1>1 DEF TaskSound
    <3>5. TaskStep(n)
      BY <1>1, <2>4, <3>2, <3>3, <3>4 DEF TaskStep, TaskSound, InFailover
    <3> QED
      BY <1>1, <2>4, <3>1, <3>2, <3>5, TaskStepSound DEF StepSound, TypeInv
  <2>8. CASE task' = [task EXCEPT ![n].pc = "snapshot"] /\ PeerLeaderIsNewer(end.st, page)
    <3> DEFINE t == [task[n] EXCEPT !.pc = "snapshot"]
    <3>1. task' = [task EXCEPT ![n] = t]
      BY <1>1, <2>8
    <3>2. /\ t \in Task /\ t.pc = "snapshot" /\ t.page = page /\ t.urls = task[n].urls
          /\ t.caller = task[n].caller /\ t.saved = task[n].saved /\ t.peer = task[n].peer
          /\ t.rest = task[n].rest /\ t.diverged = task[n].diverged /\ t.outcome = task[n].outcome
      BY <1>1 DEF Task, Pc, SyncPc
    <3> HIDE DEF t
    <3>3. task'[n] = t
      BY <3>1, <3>2, TaskReplaced
    <3>4. disk'[n].st = end.st
      BY <2>1 DEF TypeInv
    <3>5. TaskStep(n)
      BY <1>1, <1>2, <2>4, <2>5, <2>8, <3>2, <3>3, <3>4 DEF TaskStep, TaskSound, HasState, InFailover
    <3> QED
      BY <1>1, <2>4, <3>1, <3>2, <3>5, TaskStepSound DEF StepSound, TypeInv
  <2>9. CASE SyncCompleted(n, end.st)
    BY <1>1, <2>4, <2>9, SyncCompletedSound DEF StepSound, TypeInv
  <2> QED
    BY <2>1, <2>6, <2>7, <2>8, <2>9
<1> QED
  BY <1>3, <1>4

(* The process dies between two events of a page, or between the effect    *)
(* and the log entry of one.                                               *)
LEMMA ApplyPageAndCrashSound ==
    ASSUME TypeInv, NEW n \in Node, NEW k \in 0 .. PageLimit - 1, NEW torn \in BOOLEAN,
           ApplyPageAndCrash(n, k, torn)
    PROVE  StepSound
<1> DEFINE page == task[n].page
           res == ApplyItems(disk[n], page, k, TrustOf(n))
           q == res.replica
           i == k + 1
           e == EffectOf(q, page.items[i], TrustOf(n))
<1>1. /\ task[n].pc = "apply" /\ CanCrash("replay_crash") /\ Stop(n) /\ Rest(n)
      /\ k < Len(page.items) /\ UNCHANGED clock
      /\ res.ok
      /\ \/ /\ disk' = [disk EXCEPT ![n] = e]
            /\ page.after + k + 1 > LastEventId(q)
         \/ disk' = [disk EXCEPT ![n] = q]
  BY DEF ApplyPageAndCrash
<1>2. /\ page \in Page /\ HasState(n) /\ disk[n] \in GoodReplica
      /\ page.after <= Len(disk[n].log) /\ Len(page.items) \in Nat
  BY <1>1, PageHeld
<1>3. /\ k \in 0 .. Len(page.items) /\ i \in 1 .. Len(page.items)
      /\ i \in 0 .. Len(page.items) /\ i - 1 = k
  BY <1>1, <1>2, PageAssumption
<1>4. Replayed(disk[n], page, k, q)
  BY <1>2, <1>3, PageReplayed
<1>7. /\ Rebuilt(disk[n], page, q)
      /\ page.after + k + 1 > LastEventId(q) => Rebuilt(disk[n], page, e)
  <2> HIDE DEF page
  <2> QED
    BY <1>1, <1>3, ZenonT(30) DEF Rebuilt
<1> HIDE DEF q
<1> HIDE DEF i
<1>5. Replayed(disk[n], page, i, e)
  <2>1. Replayed(disk[n], page, i - 1, q)
    BY <1>3, <1>4
  <2> QED
    BY <1>2, <1>3, <2>1, EffectReplayed
<1> HIDE DEF e
<1>6. DiskStep
  BY <1>1, <1>3, <1>4, <1>5, <1>7, ReplayWrite
<1> QED
  BY <1>1, <1>6, RestSound, StopTyped DEF StepSound, TypeInv

(* Storing a state that another node holds, or that a join was answered    *)
(* with, is a write.                                                       *)
LEMMA AdoptionWrite ==
    ASSUME TypeInv, NEW n \in Node, NEW s \in GroupState,
           HasState(n) => Advances(Held(n), s),
           \/ \E p \in Node : HasState(p) /\ s = Held(p)
           \/ task[n].pc = "joined" /\ s = task[n].saved,
           disk' = [disk EXCEPT ![n].st = s]
    PROVE  DiskStep /\ HasState(n)'
<1> DEFINE d == disk[n]
           r == [st |-> s, log |-> d.log, rbac |-> d.rbac]
<1>1. /\ d.log \in Seq(GoodEvent) /\ d.rbac \in Rbac /\ disk \in [Node -> GoodReplica]
  BY HeldTyped, ReplicaFields DEF TypeInv
<1>2. r \in GoodReplica
  BY <1>1 DEF GoodReplica
<1>3. disk' = [disk EXCEPT ![n] = r]
  BY FieldsWritten
<1>4. Adoption(n, r)
  BY DEF Adoption
<1>5. Write(n, r)
  BY <1>3, <1>4 DEF Write
<1>6. disk'[n].st = s
  BY <1>1, <1>3
<1> QED
  BY <1>2, <1>5, <1>6, GroupStateFields DEF DiskStep, HasState

(* The signed state of a newer leader is taken, or refused                 *)
(* (_sync_group_state_from_url).                                           *)
LEMMA TakeSnapshotSound ==
    ASSUME TypeInv, NEW n \in Node, TakeSnapshot(n)
    PROVE  StepSound
<1> DEFINE page == task[n].page
           p == page.server
<1>1. /\ task[n].pc = "snapshot" /\ UNCHANGED <<proc, broken, clock, crashes>>
      /\ task[n].diverged \in BOOLEAN /\ HasState(n) /\ page \in Page /\ HasState(p)
  BY DEF TakeSnapshot, TypeInv, Task, TaskSound, SyncPc
<1>2. /\ p \in Node /\ Held(p) \in GroupState /\ Held(n) \in GroupState
  BY <1>1, HeldTyped DEF Page
<1>3. CASE /\ disk' = disk
           /\ \/ NextUrl(n, p, task[n].diverged, "done")
              \/ NextUrl(n, p, task[n].diverged, "failed")
  <2>1. HasState(n)'
    BY <1>1, <1>3, StateKept
  <2>2. /\ task' \in [Node -> Task]
        /\ \A m \in Node : task'[m] = task[m] \/ TaskStep(m)
    BY <1>1, <1>3, <2>1, NextUrlSound
  <2> QED
    BY <1>1, <1>3, <2>2, OnlyTask DEF TypeInv
<1>4. CASE /\ Accepts(Held(n), Held(p), page.leader_pubkey, TRUE)
           /\ disk' = [disk EXCEPT ![n].st = Held(p)]
           /\ SyncCompleted(n, Held(p))
  <2>1. Advances(Held(n), Held(p))
    BY <1>2, <1>4, AcceptsAdvances
  <2>2. DiskStep /\ HasState(n)'
    <3>1. \E m \in Node : HasState(m) /\ Held(p) = Held(m)
      BY <1>1, <1>2
    <3> QED
      BY <1>2, <1>4, <2>1, <3>1, AdoptionWrite
  <2> QED
    BY <1>1, <1>4, <2>2, SyncCompletedSound DEF StepSound, TypeInv
<1> QED
  BY <1>3, <1>4 DEF TakeSnapshot

(* A promotion is accepted by the node's own validation or does not        *)
(* happen.                                                                 *)
LEMMA PromoteSound ==
    ASSUME TypeInv, NEW n \in Node, NEW from \in GroupState, HasState(n), InFailover(task[n]),
           Promote(n, from)
    PROVE  StepSound
<1> DEFINE s == NextState(Held(n), n, from, from.leader_epoch + 1, 1)
<1>1. Held(n) \in GroupState
  BY HeldTyped
<1>2. s \in GroupState /\ OwnState(n, s)
  <2>1. /\ Held(n).version + 1 \in Nat /\ clock + TTL \in Nat /\ from.leader_epoch + 1 \in Nat
        /\ clock + TTL >= TTL
    BY <1>1, GroupStateFields, BoundsAreNumbers DEF TypeInv
  <2> QED
    BY <2>1 DEF NextState, GroupState, OwnState
<1>3. \/ /\ Accepts(Held(n), s, NoKey, TRUE)
         /\ \/ Mutate(n, s, GroupEvent("promoted", n, n, s)) /\ Rest(n)
            \/ MutateAndCrash(n, s)
      \/ Rest(n) /\ UNCHANGED <<disk, proc, broken, clock, crashes>>
  BY DEF Promote
<1> HIDE DEF s
<1>6. OwnCause(n, s) /\ Unrecorded(n)
  BY DEF OwnCause, Unrecorded
<1>4. CASE Accepts(Held(n), s, NoKey, TRUE)
  <2>1. Advances(Held(n), s)
    BY <1>1, <1>2, <1>4, AcceptsAdvances
  <2>2. /\ GroupEvent("promoted", n, n, s) \in GoodEvent
        /\ GroupEvent("promoted", n, n, s).actor = n
        /\ GroupEvent("promoted", n, n, s).st = s
    BY <1>2, GroupEventTyped DEF GroupEventTypes
  <2>3. CASE Mutate(n, s, GroupEvent("promoted", n, n, s)) /\ Rest(n)
    BY <1>2, <1>6, <2>1, <2>2, <2>3, MutateSound, RestSound
  <2>4. CASE MutateAndCrash(n, s)
    BY <1>2, <1>6, <2>1, <2>4, MutateAndCrashSound
  <2>5. CASE Rest(n) /\ UNCHANGED <<disk, proc, broken, clock, crashes>>
    BY <2>5, RestSound, OnlyTask DEF TypeInv
  <2> QED
    BY <1>3, <2>3, <2>4, <2>5
<1>5. CASE Rest(n) /\ UNCHANGED <<disk, proc, broken, clock, crashes>>
  BY <1>5, RestSound, OnlyTask DEF TypeInv
<1> QED
  BY <1>3, <1>4, <1>5

(* After the last round of questions: give way, promote or look for the    *)
(* candidate.                                                              *)
LEMMA ResumeOthersSound ==
    ASSUME TypeInv, NEW n \in Node, ResumeOthers(n)
    PROVE  StepSound
<1> DEFINE old == task[n].saved
           from == IF task[n].outcome = "synced" THEN Held(n) ELSE old
<1>1. /\ Returned(n) /\ task[n].caller = "others"
      /\ task[n] \in Task /\ task \in [Node -> Task] /\ TaskSound(n)
      /\ InFailover(task[n])
  BY DEF ResumeOthers, Returns, TypeInv, InFailover
<1>2. HasState(n) /\ Held(n) \in GroupState /\ old \in GroupState
  BY <1>1, HeldTyped DEF TaskSound, SyncPc, Returned
<1>3. from \in GroupState
  BY <1>2
<1>4. CASE Rest(n) /\ UNCHANGED <<disk, proc, broken, clock, crashes>>
  BY <1>4, RestSound, OnlyTask DEF TypeInv
<1>5. CASE Promote(n, from)
  BY <1>1, <1>2, <1>3, <1>5, PromoteSound
<1>6. CASE /\ task[n].peer # n
           /\ task' = [task EXCEPT ![n].pc = "heartbeat", ![n].caller = "none",
                                   ![n].rest = old.endpoints \ {n}, ![n].saved = from]
           /\ UNCHANGED <<disk, proc, broken, clock, crashes>>
  <2> DEFINE rest == old.endpoints \ {n}
             t == [task[n] EXCEPT !.pc = "heartbeat", !.caller = "none", !.rest = rest,
                                  !.saved = from]
  <2>1. rest \in SUBSET Node /\ n \notin rest
    BY <1>2, GroupStateFields
  <2>2. task' = [task EXCEPT ![n] = t]
    BY <1>1, <1>6
  <2> HIDE DEF rest, from
  <2>3. /\ t \in Task /\ t.pc = "heartbeat" /\ t.caller = "none" /\ t.saved = from
        /\ t.urls = task[n].urls /\ t.rest = rest /\ t.peer = task[n].peer
        /\ t.diverged = task[n].diverged /\ t.outcome = task[n].outcome
    <3>1. "none" \in Caller /\ "heartbeat" \in Pc
      BY DEF Caller, Pc, SyncPc
    <3> QED
      BY <1>1, <1>3, <2>1, <3>1 DEF Task
  <2> HIDE DEF t
  <2>4. task'[n] = t
    BY <2>2, <2>3, TaskReplaced
  <2>5. HasState(n)'
    BY <1>2, <1>6, StateKept
  <2>6. TaskStep(n)
    BY <1>1, <1>3, <1>6, <2>1, <2>3, <2>4, <2>5 DEF TaskStep, TaskSound, InFailover
  <2> QED
    BY <1>6, <2>2, <2>3, <2>6, TaskStepSound, OnlyTask DEF TypeInv
<1> QED
  BY <1>4, <1>5, <1>6, Zenon DEF ResumeOthers

(* Nobody answered, so the node promotes itself.                           *)
LEMMA AllPeersDownSound ==
    ASSUME TypeInv, NEW n \in Node, AllPeersDown(n)
    PROVE  StepSound
<1>1. /\ Returned(n) /\ task[n].caller = "alone" /\ Promote(n, task[n].saved)
      /\ InFailover(task[n])
  BY DEF AllPeersDown, Returns, InFailover
<1>2. HasState(n) /\ task[n].saved \in GroupState
  BY <1>1 DEF TypeInv, TaskSound, SyncPc, Returned
<1> QED
  BY <1>1, <1>2, PromoteSound

(* The renewal, on whatever has happened to the state while the peers were *)
(* asked, goes through the node's own validation.                          *)
LEMMA ResumeRenewalSound ==
    ASSUME TypeInv, NEW n \in Node, ResumeRenewal(n)
    PROVE  StepSound
<1>1. /\ Returned(n) /\ task[n].caller = "renew" /\ Rest(n)
      /\ UNCHANGED <<proc, broken, clock, crashes>>
      /\ disk' = disk \/ RenewLease(n)
  BY DEF ResumeRenewal, Returns
<1>2. HasState(n) /\ Held(n) \in GroupState /\ task[n].saved \in GroupState
  BY <1>1, HeldTyped DEF TypeInv, TaskSound, SyncPc, Returned
<1>3. DiskStep
  <2> DEFINE s == NextState(Held(n), n, task[n].saved, Held(n).leader_epoch, 0)
  <2>1. CASE disk' = disk
    BY <2>1 DEF DiskStep
  <2>2. CASE Accepts(Held(n), s, NoKey, TRUE) /\ disk' = [disk EXCEPT ![n].st = s]
    <3>1. s \in GroupState /\ OwnState(n, s) /\ s.leader_epoch = Held(n).leader_epoch
      <4>1. /\ Held(n).version + 0 \in Nat /\ clock + TTL \in Nat /\ Held(n).leader_epoch \in Nat
            /\ clock + TTL >= TTL
        BY <1>2, GroupStateFields, BoundsAreNumbers DEF TypeInv
      <4> QED
        BY <1>2, <4>1 DEF NextState, GroupState, OwnState
    <3> HIDE DEF s
    <3>2. Advances(Held(n), s)
      BY <1>2, <2>2, <3>1, AcceptsAdvances
    <3>3. OwnCause(n, s) /\ Unrecorded(n)
      BY <1>1, <3>1 DEF OwnCause, Unrecorded
    <3> QED
      BY <2>2, <3>1, <3>2, <3>3, OwnStateWrite
  <2> QED
    BY <1>1, <2>1, <2>2 DEF RenewLease
<1> QED
  BY <1>1, <1>3, RestSound DEF StepSound, TypeInv

-----------------------------------------------------------------------------
(* Starting, joining, crashing.                                            *)

(* A founder starts a group of its own.                                    *)
LEMMA BootstrapGroupSound ==
    ASSUME TypeInv, NEW n \in Node, BootstrapGroup(n)
    PROVE  StepSound
<1> DEFINE s == BootstrapState(n, clock)
           ev == GroupEvent("state", n, n, s)
<1>1. s \in GroupState /\ OwnState(n, s) /\ s.leader_epoch = 1
  <2>1. clock + TTL \in Nat /\ clock + TTL >= TTL
    BY BoundsAreNumbers DEF TypeInv
  <2>2. /\ {Member(n)} \in SUBSET {Member(m) : m \in Node}
        /\ {} \in SUBSET {Member(m) : m \in Runtime} /\ {n} \in SUBSET Node
    OBVIOUS
  <2> QED
    BY <2>1, <2>2 DEF BootstrapState, GroupState, OwnState
<1>2. /\ ~HasState(n) /\ n \in Founder
      /\ \/ /\ disk' = [disk EXCEPT ![n].st = s, ![n].log = Append(@, ev)]
            /\ proc' = [proc EXCEPT ![n] = "up"]
            /\ UNCHANGED <<broken, task, clock, crashes>>
         \/ MutateAndCrash(n, s)
  BY DEF BootstrapGroup
<1> HIDE DEF s
<1>3. ev \in GoodEvent /\ ev.actor = n /\ ev.st = s /\ ev.type = "state"
  BY <1>1, GroupEventTyped DEF GroupEventTypes, GroupEvent
<1> HIDE DEF ev
<1>5. OwnCause(n, s)
  BY <1>1, <1>2 DEF OwnCause
<1>4. CASE /\ disk' = [disk EXCEPT ![n].st = s, ![n].log = Append(@, ev)]
           /\ proc' = [proc EXCEPT ![n] = "up"]
           /\ UNCHANGED <<broken, task, clock, crashes>>
  <2>1. DiskStep
    BY <1>1, <1>2, <1>3, <1>4, <1>5, OwnStateWrite
  <2> QED
    BY <1>4, <2>1, TaskUnchanged DEF StepSound, TypeInv
<1> QED
  BY <1>1, <1>2, <1>4, <1>5, MutateAndCrashSound

(* A node starts with the state it stored.                                 *)
LEMMA StartNodeSound ==
    ASSUME TypeInv, NEW n \in Node, StartNode(n)
    PROVE  StepSound
<1> DEFINE first == {p \in PeerUrls(n) : p = Min(PeerUrls(n))}
<1>1. /\ HasState(n) /\ UNCHANGED <<disk, broken, clock, crashes>>
      /\ proc' \in [Node -> {"down", "cli", "starting", "up"}]
      /\ StartSync(n, "startup", first, PeerUrls(n) \ first, NoKey, NoState, 0)
  BY DEF StartNode, TypeInv
<1>2. PeerUrls(n) \in SUBSET Node /\ n \notin PeerUrls(n)
  BY <1>1, HeldTyped, GroupStateFields DEF PeerUrls
<1>3. /\ first \in SUBSET Node /\ PeerUrls(n) \ first \in SUBSET Node
      /\ n \notin first \cup (PeerUrls(n) \ first)
  BY <1>2
<1>4. HasState(n)'
  BY <1>1, StateKept
<1> HIDE DEF first
<1>5. /\ task' \in [Node -> Task]
      /\ \A m \in Node : task'[m] = task[m] \/ TaskStep(m)
  BY <1>1, <1>3, <1>4, StartSyncSound DEF Caller
<1> QED
  BY <1>1, <1>5, OnlyTask DEF TypeInv

(* sync_on_startup asks the next peer, or is done.                         *)
LEMMA ResumeStartupSound ==
    ASSUME TypeInv, NEW n \in Node, ResumeStartup(n)
    PROVE  StepSound
<1>1. /\ Returned(n) /\ UNCHANGED <<disk, broken, clock, crashes>>
      /\ proc' \in [Node -> {"down", "cli", "starting", "up"}]
      /\ task[n].rest \in SUBSET Node /\ n \notin task[n].rest
  BY DEF ResumeStartup, Returns, TypeInv, Task, TaskSound
<1>2. HasState(n)'
  BY <1>1, StateKept DEF TypeInv, TaskSound, SyncPc, Returned
<1>3. CASE Rest(n)
  BY <1>1, <1>3, RestSound, OnlyTask DEF TypeInv
<1>4. CASE /\ task[n].rest # {}
           /\ StartSync(n, "startup", {Min(task[n].rest)}, task[n].rest \ {Min(task[n].rest)},
                        NoKey, NoState, 0)
  <2> DEFINE next == {Min(task[n].rest)}
             rest == task[n].rest \ next
  <2>1. next \in SUBSET Node /\ rest \in SUBSET Node /\ n \notin next \cup rest
    BY <1>1, <1>4, MinIsMember
  <2>2. StartSync(n, "startup", next, rest, NoKey, NoState, 0)
    BY <1>4
  <2> HIDE DEF next, rest
  <2>3. /\ task' \in [Node -> Task]
        /\ \A m \in Node : task'[m] = task[m] \/ TaskStep(m)
    BY <1>2, <2>1, <2>2, StartSyncSound DEF Caller
  <2> QED
    BY <1>1, <2>3, OnlyTask DEF TypeInv
<1> QED
  BY <1>3, <1>4, Zenon DEF ResumeStartup

(* Ready to ask a leader to join: nothing but the leader is remembered.    *)
LEMMA ReadyToJoin ==
    ASSUME TypeInv, NEW n \in Node, NEW l \in Node \ {n},
           task' = [task EXCEPT ![n] = [Idle EXCEPT !.pc = "join", !.peer = l]]
    PROVE  /\ task' \in [Node -> Task]
           /\ \A m \in Node : task'[m] = task[m] \/ TaskStep(m)
<1> DEFINE t == [Idle EXCEPT !.pc = "join", !.peer = l]
<1>1. /\ t \in Task /\ t.pc = "join" /\ t.caller = "none" /\ t.peer = l
      /\ t.urls = {} /\ t.rest = {} /\ ~t.diverged /\ t.outcome = "none"
  <2>1. "join" \in Pc /\ Idle \in Task
    BY IdleTyped DEF Pc
  <2> QED
    BY <2>1 DEF Task, Idle
<1> HIDE DEF t
<1>2. task'[n] = t
  BY <1>1, TaskReplaced DEF t
<1>3. TaskStep(n)
  BY <1>1, <1>2 DEF TaskStep, TaskSound, SyncPc, InFailover
<1> QED
  BY <1>1, <1>3, TaskStepSound DEF t

(* join_peer starts, with a synchronisation when the node knows itself to  *)
(* be a member.                                                            *)
LEMMA JoinPeerSound ==
    ASSUME TypeInv, NEW n \in Node, NEW l \in Node, JoinPeer(n, l)
    PROVE  StepSound
<1>1. /\ UNCHANGED <<disk, broken, clock, crashes>>
      /\ proc' \in [Node -> {"down", "cli", "starting", "up"}]
      /\ l \in Node \ {n} /\ {l} \in SUBSET Node /\ n \notin {l} \cup {}
  BY DEF JoinPeer, TypeInv
<1>2. CASE HasState(n) /\ StartSync(n, "rejoin", {l}, {}, l, NoState, l)
  <2>1. HasState(n)'
    BY <1>1, <1>2, StateKept
  <2>2. /\ task' \in [Node -> Task]
        /\ \A m \in Node : task'[m] = task[m] \/ TaskStep(m)
    BY <1>1, <1>2, <2>1, StartSyncSound DEF Caller
  <2> QED
    BY <1>1, <2>2, OnlyTask
<1>3. CASE task' = [task EXCEPT ![n] = [Idle EXCEPT !.pc = "join", !.peer = l]]
  BY <1>1, <1>3, ReadyToJoin, OnlyTask
<1> QED
  BY <1>2, <1>3 DEF JoinPeer

(* The leader takes in the node; its answer, the answer's loss and the     *)
(* leader's crash are all sound.                                           *)
LEMMA HandleJoinSound ==
    ASSUME TypeInv, NEW n \in Node, HandleJoin(n)
    PROVE  StepSound
<1>1. /\ task[n].pc = "join" /\ task[n].peer \in Node
      /\ task[n] \in Task /\ task \in [Node -> Task] /\ TaskSound(n)
  BY DEF HandleJoin, TypeInv, TaskSound
<1>2. PICK l \in Node : l = task[n].peer
  BY <1>1
<1>3. PICK s : s = JoinedState(l, n)
  OBVIOUS
<1> DEFINE ev == GroupEvent("joined", l, n, s)
<1>4. /\ Leads(l)
      /\ \/ /\ Mutate(l, s, ev)
            /\ task' = [task EXCEPT ![n].pc = "joined", ![n].saved = s]
         \/ Mutate(l, s, ev) /\ task' = [task EXCEPT ![n].pc = "refused"]
         \/ MutateAndCrash(l, s)
  BY <1>2, <1>3 DEF HandleJoin, MembershipRequest, Handles
<1>5. Handled(l, s, ev)
  BY <1>3, <1>4, JoinedHandled
<1>6. /\ s \in GroupState /\ OwnState(l, s) /\ HasState(l) /\ Advances(Held(l), s)
      /\ OwnCause(l, s) /\ ev \in GoodEvent /\ ev.actor = l /\ ev.st = s
      /\ Derives(Held(l), ev)
  BY <1>5 DEF Handled
<1> HIDE DEF ev
<1>7. CASE /\ Mutate(l, s, ev)
           /\ task' = [task EXCEPT ![n].pc = "joined", ![n].saved = s]
  <2> DEFINE t == [task[n] EXCEPT !.pc = "joined", !.saved = s]
  <2>1. task' = [task EXCEPT ![n] = t]
    BY <1>1, <1>7
  <2>2. /\ t \in Task /\ t.pc = "joined" /\ t.saved = s
        /\ t.caller = task[n].caller /\ t.peer = l
        /\ t.urls = task[n].urls /\ t.rest = task[n].rest
        /\ t.diverged = task[n].diverged /\ t.outcome = task[n].outcome
    <3>1. "joined" \in Pc
      BY DEF Pc
    <3> QED
      BY <1>1, <1>2, <1>6, <3>1 DEF Task
  <2> HIDE DEF t
  <2>3. task'[n] = t
    BY <2>1, <2>2, TaskReplaced
  <2>4. HasState(l)' /\ Held(l)' = s
    BY <1>6, <1>7, OwnStateWrite DEF Mutate
  <2>5. \E m \in Node : HasState(m)' /\ s = Held(m)'
    BY <2>4
  <2>6. TaskStep(n)
    BY <1>1, <1>2, <1>6, <2>2, <2>3, <2>5 DEF TaskStep, TaskSound, SyncPc, InFailover
  <2> QED
    BY <1>6, <1>7, <2>1, <2>2, <2>6, TaskStepSound, MutateSound
<1>8. CASE Mutate(l, s, ev) /\ task' = [task EXCEPT ![n].pc = "refused"]
  <2> DEFINE t == [task[n] EXCEPT !.pc = "refused"]
  <2>1. task' = [task EXCEPT ![n] = t]
    BY <1>1, <1>8
  <2>2. /\ t \in Task /\ t.pc = "refused" /\ t.saved = task[n].saved
        /\ t.caller = task[n].caller /\ t.peer = l
        /\ t.urls = task[n].urls /\ t.rest = task[n].rest
        /\ t.diverged = task[n].diverged /\ t.outcome = task[n].outcome
    BY <1>1, <1>2 DEF Task, Pc
  <2> HIDE DEF t
  <2>3. task'[n] = t
    BY <2>1, <2>2, TaskReplaced
  <2>4. TaskSound(n)
    BY DEF TypeInv
  <2>5. TaskStep(n)
    BY <1>1, <1>2, <2>2, <2>3, <2>4 DEF TaskStep, TaskSound, SyncPc, InFailover
  <2> QED
    BY <1>6, <1>8, <2>1, <2>2, <2>5, TaskStepSound, MutateSound
<1>9. CASE MutateAndCrash(l, s)
  BY <1>6, <1>9, MutateAndCrashSound
<1> QED
  BY <1>4, <1>7, <1>8, <1>9

(* The joining node takes over the answered state, or refuses it.          *)
LEMMA FinishJoinSound ==
    ASSUME TypeInv, NEW n \in Node, FinishJoin(n)
    PROVE  StepSound
<1> DEFINE l == task[n].peer
           s == task[n].saved
<1>1. /\ task[n].pc = "joined" /\ s \in GroupState
      /\ l \in Node \ {n} /\ {l} \in SUBSET Node /\ n \notin {l} \cup {}
      /\ proc' \in [Node -> {"down", "cli", "starting", "up"}]
      /\ UNCHANGED <<broken, clock, crashes>>
  BY DEF FinishJoin, TypeInv, TaskSound
<1>2. CASE /\ HasState(n) => Accepts(Held(n), s, l, TRUE)
           /\ disk' = [disk EXCEPT ![n].st = s]
           /\ StartSync(n, "join", {l}, {}, l, NoState, l)
  <2>1. HasState(n) => Advances(Held(n), s)
    BY <1>1, <1>2, HeldTyped, AcceptsAdvances
  <2>2. DiskStep /\ HasState(n)'
    BY <1>1, <1>2, <2>1, AdoptionWrite
  <2>3. /\ task' \in [Node -> Task]
        /\ \A m \in Node : task'[m] = task[m] \/ TaskStep(m)
    BY <1>1, <1>2, <2>2, StartSyncSound DEF Caller
  <2> QED
    BY <1>1, <2>2, <2>3 DEF StepSound, TypeInv
<1>3. CASE disk' = disk /\ Rest(n)
  BY <1>1, <1>3, RestSound, OnlyTask
<1> QED
  BY <1>2, <1>3 DEF FinishJoin

(* The join is given up.                                                   *)
LEMMA JoinFailsSound ==
    ASSUME TypeInv, NEW n \in Node, JoinFails(n)
    PROVE  StepSound
<1>1. /\ UNCHANGED <<disk, broken, clock, crashes>> /\ Rest(n)
      /\ proc' \in [Node -> {"down", "cli", "starting", "up"}]
  BY DEF JoinFails, TypeInv
<1> QED
  BY <1>1, RestSound, OnlyTask

(* join_peer goes on after a synchronisation.                              *)
LEMMA ResumeJoinSound ==
    ASSUME TypeInv, NEW n \in Node, ResumeJoin(n)
    PROVE  StepSound
<1>1. /\ UNCHANGED <<disk, broken, clock, crashes>>
      /\ proc' \in [Node -> {"down", "cli", "starting", "up"}]
  BY DEF ResumeJoin, TypeInv
<1>2. CASE Rest(n)
  BY <1>1, <1>2, RestSound, OnlyTask
<1>3. CASE /\ task[n].caller = "rejoin"
           /\ task' = [task EXCEPT ![n] = [Idle EXCEPT !.pc = "join", !.peer = task[n].peer]]
  <2>1. PICK l \in Node \ {n} : l = task[n].peer
    BY <1>3 DEF TypeInv, TaskSound
  <2> QED
    BY <1>1, <1>3, <2>1, ReadyToJoin, OnlyTask
<1> QED
  BY <1>2, <1>3 DEF ResumeJoin, Returns

(* A process dies.                                                         *)
LEMMA CrashSound ==
    ASSUME TypeInv, NEW n \in Node, Crash(n)
    PROVE  StepSound
BY RestSound, StopTyped DEF Crash, StepSound, DiskStep, TypeInv

(* Time passes.                                                            *)
LEMMA AdvanceClockSound ==
    ASSUME TypeInv, AdvanceClock
    PROVE  StepSound
<1>1. clock' \in 0 .. MaxTime
  BY BoundsAreNumbers DEF AdvanceClock, TypeInv
<1> QED
  BY <1>1, TaskUnchanged DEF AdvanceClock, StepSound, DiskStep, TypeInv

(* Every step of the cluster is sound.                                     *)
LEMMA NextSound ==
    ASSUME TypeInv, [Next]_vars
    PROVE  StepSound
<1>1. ASSUME NEW n \in Node, Handler(n) PROVE StepSound
  BY <1>1, RuntimeJoinSound, RevokeNodeSound, UpdateNodeEndpointsSound, GuiClusterReadSound,
     ResourcesApplySound DEF Handler
<1>2. ASSUME NEW n \in Node, Coroutine(n) PROVE StepSound
  <2>1. CASE LeaderTick(n) \/ FollowerTick(n) \/ FailoverTick(n)
    BY <2>1, LeaderTickSound, FollowerTickSound, FailoverTickSound
  <2>2. CASE FetchPage(n) \/ FetchFails(n) \/ ApplyPage(n) \/ TakeSnapshot(n)
    BY <2>2, FetchPageSound, FetchFailsSound, ApplyPageSound, TakeSnapshotSound
  <2>3. CASE ResumeDiverged(n) \/ ResumeRenewal(n) \/ ResumeFollower(n) \/ ResumePeers(n)
             \/ ResumeOthers(n)
    BY <2>3, RestOnlySound, ResumeRenewalSound, ResumePeersSound, ResumeOthersSound
  <2>4. CASE CandidateAnswers(n) \/ CandidateSilent(n) \/ OtherAnswers(n) \/ OtherSilent(n)
             \/ AllPeersDown(n)
    BY <2>4, CandidateAnswersSound, CandidateSilentSound, RestOnlySound, OtherSilentSound,
       AllPeersDownSound
  <2>5. CASE ResumeStartup(n) \/ HandleJoin(n) \/ JoinFails(n) \/ FinishJoin(n) \/ ResumeJoin(n)
    BY <2>5, ResumeStartupSound, HandleJoinSound, JoinFailsSound, FinishJoinSound, ResumeJoinSound
  <2> QED
    BY <1>2, <2>1, <2>2, <2>3, <2>4, <2>5 DEF Coroutine
<1>3. ASSUME NEW n \in Node, Environment(n) PROVE StepSound
  BY <1>3, BootstrapGroupSound, StartNodeSound, JoinPeerSound, CrashSound,
     ApplyPageAndCrashSound DEF Environment
<1>4. CASE UNCHANGED vars
  BY <1>4, TaskUnchanged DEF vars, StepSound, DiskStep, TypeInv
<1> QED
  BY <1>1, <1>2, <1>3, <1>4, AdvanceClockSound DEF Next

-----------------------------------------------------------------------------
(* The initial states, type correctness and the advance of the stored      *)
(* state.                                                                  *)

(* A finite nonempty set of naturals has a greatest member.                *)
LEMMA GreatestNatural ==
    ASSUME NEW S \in SUBSET Nat, S # {}, IsFiniteSet(S)
    PROVE  \E x \in S : \A y \in S : y <= x
<1> DEFINE Above(x) == {m \in S : m > x}
           C == {Cardinality(Above(x)) : x \in S}
<1>1. \A x \in S : IsFiniteSet(Above(x)) /\ Cardinality(Above(x)) \in Nat
  BY FS_Subset, FS_CardinalityType
<1>2. PICK c \in C : \A d \in C : c <= d
  <2>1. C \in SUBSET Nat /\ C # {}
    BY <1>1
  <2> QED
    BY <2>1, LeastNatural
<1>3. PICK x \in S : c = Cardinality(Above(x))
  OBVIOUS
<1>4. ASSUME NEW y \in S, y > x PROVE FALSE
  <2>1. Above(y) \in SUBSET Above(x) /\ Above(y) # Above(x)
    BY <1>3, <1>4
  <2>2. Cardinality(Above(y)) < Cardinality(Above(x))
    <3>1. IsFiniteSet(Above(x))
      BY <1>1, <1>3
    <3> HIDE DEF Above
    <3>2. /\ Cardinality(Above(y)) <= Cardinality(Above(x))
          /\ Cardinality(Above(x)) # Cardinality(Above(y))
      BY <2>1, <3>1, FS_Subset
    <3>3. Cardinality(Above(x)) \in Nat /\ Cardinality(Above(y)) \in Nat
      BY <1>1, <1>3, <1>4
    <3> QED
      BY <3>2, <3>3
  <2>3. Cardinality(Above(x)) <= Cardinality(Above(y))
    <3>1. Cardinality(Above(y)) \in C
      BY <1>4
    <3> QED
      BY <1>2, <1>3, <3>1
  <2>4. Cardinality(Above(x)) \in Nat /\ Cardinality(Above(y)) \in Nat
    BY <1>1, <1>3, <1>4
  <2> HIDE DEF Above
  <2> QED
    BY <2>2, <2>3, <2>4
<1> QED
  BY <1>3, <1>4

(* The node that is k-th in the order of the ids exists.                   *)
LEMMA RankExists ==
    ASSUME NEW S \in SUBSET Nat, IsFiniteSet(S), NEW k \in 1 .. Cardinality(S)
    PROVE  \E n \in S : Cardinality({m \in S : m <= n}) = k
<1> DEFINE UpTo(n) == {m \in S : m <= n}
           T == {n \in S : Cardinality(UpTo(n)) >= k}
<1>1. \A n \in S : IsFiniteSet(UpTo(n)) /\ Cardinality(UpTo(n)) \in Nat
  BY FS_Subset, FS_CardinalityType
<1>2. Cardinality(S) \in Nat /\ k \in Nat /\ k >= 1 /\ S # {}
  BY FS_CardinalityType, FS_EmptySet
<1>3. T # {}
  <2>1. PICK x \in S : \A y \in S : y <= x
    BY <1>2, GreatestNatural
  <2>2. UpTo(x) = S
    BY <2>1
  <2>3. x \in T
    BY <1>2, <2>2
  <2> QED
    BY <2>3
<1>4. PICK n \in T : \A m \in T : n <= m
  <2>1. T \in SUBSET Nat
    OBVIOUS
  <2> QED
    BY <1>3, <2>1, LeastNatural
<1>5. n \in S /\ Cardinality(UpTo(n)) >= k
  OBVIOUS
<1>6. ASSUME Cardinality(UpTo(n)) # k PROVE FALSE
  <2> DEFINE L == UpTo(n) \ {n}
  <2>1. IsFiniteSet(L) /\ Cardinality(L) = Cardinality(UpTo(n)) - 1
    <3>1. n \in UpTo(n)
      BY <1>5
    <3> QED
      BY <1>1, <1>5, <3>1, FS_RemoveElement
  <2>2. Cardinality(L) >= k /\ Cardinality(L) \in Nat
    BY <1>1, <1>2, <1>5, <1>6, <2>1
  <2>3. L # {} /\ L \in SUBSET Nat
    <3>1. Cardinality(L) # 0
      BY <1>2, <2>2
    <3>2. L # {}
      BY <3>1, FS_EmptySet
    <3> QED
      BY <3>2
  <2>4. PICK x \in L : \A y \in L : y <= x
    BY <2>1, <2>3, GreatestNatural
  <2>5. UpTo(x) = L
    <3>1. n \in Nat /\ x \in Nat /\ x <= n /\ x # n /\ S \subseteq Nat
      BY <1>5, <2>4
    <3>2. ASSUME NEW m \in S PROVE m \in UpTo(x) <=> m \in L
      BY <2>4, <3>1, <3>2
    <3> QED
      BY <3>2
  <2>6. x \in T
    BY <2>2, <2>4, <2>5
  <2> QED
    BY <1>4, <1>5, <2>4, <2>6
<1> QED
  BY <1>5, <1>6

(* The state of the group that exists at the start.                        *)
LEMMA FormedStateTyped ==
    ASSUME NEW k \in Nat, Initial # {}
    PROVE  /\ FirstLeader \in Initial /\ FirstLeader \in Node
           /\ FormedState(k) \in GroupState
           /\ FormedState(k).leader_node_id = FirstLeader
           /\ FormedState(k).leader_epoch = 1
<1>1. FirstLeader \in Initial /\ FirstLeader \in Node
  BY ClusterAssumption, MinIsMember DEF FirstLeader
<1> DEFINE joined == {n \in Initial : Cardinality({m \in Initial : m <= n}) <= k}
           cps == {Member(n) : n \in joined}
<1>2. joined \in SUBSET Node /\ cps \in SUBSET {Member(n) : n \in Node}
  BY ClusterAssumption
<1>3. FormedState(k) = [BootstrapState(FirstLeader, 0) EXCEPT
           !.version = k, !.control_planes = cps, !.endpoints = joined]
  BY DEF FormedState
<1> HIDE DEF joined, cps
<1>4. 0 + TTL \in Nat /\ {} \in SUBSET {Member(m) : m \in Runtime} /\ 1 \in Nat
  BY BoundsAreNumbers
<1> QED
  BY <1>1, <1>2, <1>3, <1>4 DEF BootstrapState, GroupState

(* Its log: one event for each member, all by the first leader.            *)
LEMMA FormedLogTyped ==
    ASSUME Initial # {}
    PROVE  /\ FormedLog \in Seq(GoodEvent)
           /\ Len(FormedLog) = Cardinality(Initial)
           /\ \A k \in 1 .. Len(FormedLog) :
                 /\ FormedLog[k].actor = FirstLeader
                 /\ FormedLog[k].st = FormedState(k)
<1> DEFINE N == Cardinality(Initial)
<1>1. N \in Nat /\ Initial \in SUBSET Nat
  BY ClusterAssumption, NodesAreNumbers, FS_CardinalityType
<1>2. ASSUME NEW k \in 1 .. N
      PROVE  /\ FormedLog[k] \in GoodEvent
             /\ FormedLog[k].actor = FirstLeader
             /\ FormedLog[k].st = FormedState(k)
  <2>1. k \in Nat /\ FirstLeader \in Node /\ FormedState(k) \in GroupState
    BY <1>1, FormedStateTyped
  <2>2. PICK n : n = CHOOSE i \in Initial : Cardinality({m \in Initial : m <= i}) = k
    OBVIOUS
  <2>3. n \in Node
    BY <1>1, <2>2, RankExists, ClusterAssumption
  <2>4. \/ k = 1 /\ FormedLog[k] = GroupEvent("state", FirstLeader, FirstLeader, FormedState(k))
        \/ FormedLog[k] = GroupEvent("joined", FirstLeader, n, FormedState(k))
    BY <2>2, Zenon DEF FormedLog
  <2> QED
    BY <2>1, <2>3, <2>4, GroupEventTyped DEF GroupEventTypes
<1>3. FormedLog = [k \in 1 .. N |-> FormedLog[k]]
  BY DEF FormedLog
<1>4. FormedLog \in Seq(GoodEvent) /\ Len(FormedLog) = N
  BY <1>1, <1>2, <1>3
<1> QED
  BY <1>2, <1>4

(* The initial storage is well formed, for any number of initial members.  *)
LEMMA InitInv == Init => TypeInv
<1> SUFFICES ASSUME Init PROVE TypeInv
  OBVIOUS
<1> DEFINE fresh == [st |-> NoState, log |-> <<>>, rbac |-> NoRbac]
           formed(n) == [st |-> [FormedState(Cardinality(Initial)) EXCEPT
                                   !.leader_signature = IF n = FirstLeader THEN @ ELSE NoKey],
                         log |-> FormedLog, rbac |-> NoRbac]
<1>1. fresh \in GoodReplica
  BY DEF GoodReplica, NoRbac, Rbac
<1>2. ASSUME NEW n \in Initial PROVE formed(n) \in GoodReplica
  <2>1. FormedLog \in Seq(GoodEvent) /\ FormedState(Cardinality(Initial)) \in GroupState
    BY <1>2, FormedLogTyped, FormedStateTyped, FS_CardinalityType, ClusterAssumption
  <2>2. [FormedState(Cardinality(Initial)) EXCEPT
                                   !.leader_signature = IF n = FirstLeader THEN @ ELSE NoKey]
          \in GroupState
    BY <2>1 DEF GroupState
  <2> QED
    BY <2>1, <2>2 DEF GoodReplica, NoRbac, Rbac
<1>3. disk = [n \in Node |-> IF n \in Initial THEN formed(n) ELSE fresh]
  BY DEF Init
<1> HIDE DEF fresh, formed
<1>4. disk \in [Node -> GoodReplica]
  BY <1>1, <1>2, <1>3
<1>5. /\ proc \in [Node -> {"down", "cli", "starting", "up"}]
      /\ broken \in [Node -> BOOLEAN]
      /\ task \in [Node -> Task]
      /\ \A n \in Node : task[n] = Idle
  BY IdleTyped DEF Init
<1>6. clock \in 0 .. MaxTime /\ crashes \in 0 .. MaxCrashes
  BY BoundsAreNumbers DEF Init
<1>7. \A n \in Node : TaskSound(n)
  BY <1>5, IdleTyped DEF TaskSound, SyncPc
<1> QED
  BY <1>4, <1>5, <1>6, <1>7 DEF TypeInv

(* The type invariant is inductive, and with it every step is sound.       *)
LEMMA TypeInvInductive == TypeInv /\ [Next]_vars => TypeInv' /\ StepSound
BY NextSound, TypeInvKept

(* Every reachable state is well formed, coroutines included: no page is   *)
(* used that was not fetched, none is applied that begins beyond the end   *)
(* of the log, and no coroutine goes on about a state that the node no     *)
(* longer has.                                                             *)
THEOREM TypeInvAlways == Spec => []TypeInv
BY InitInv, TypeInvInductive, PTL DEF Spec

(* Type correctness: whatever is served, replayed, joined, renewed or      *)
(* promoted, and wherever a process dies, each node stores a group state   *)
(* or none, a log of events and an RBAC state.                             *)
THEOREM Typed == Spec => []TypeOK
<1>1. TypeInv => TypeOK
  <2> SUFFICES ASSUME TypeInv PROVE TypeOK
    OBVIOUS
  <2>1. GoodReplica \subseteq Replica
    <3>1. GoodEvent \subseteq Event
      BY DEF GoodEvent
    <3>2. Seq(GoodEvent) \subseteq Seq(Event)
      BY <3>1
    <3> QED
      BY <3>2 DEF GoodReplica, Replica
  <2>2. disk \in [Node -> Replica]
    BY <2>1 DEF TypeInv
  <2> QED
    BY <2>2 DEF TypeInv, TypeOK
<1> QED
  BY <1>1, TypeInvAlways, PTL

(* No step of any node makes its stored group state rank below what it     *)
(* was, nor its term go back, nor loses it (StateManager.replace_state),   *)
(* for any number of nodes, terms and crashes.                             *)
THEOREM NeverRegresses == Spec => StoredStateNeverRegresses
<1> DEFINE Kept == \A n \in Node : HasState(n) =>
                      /\ disk'[n].st # NoState
                      /\ disk'[n].st.leader_epoch >= Held(n).leader_epoch
                      /\ ~RankBelow(disk'[n].st, Held(n))
<1>1. TypeInv /\ [Next]_vars => [Kept]_vars
  <2> SUFFICES ASSUME TypeInv, [Next]_vars PROVE Kept
    OBVIOUS
  <2>1. DiskStep
    BY NextSound DEF StepSound
  <2>2. ASSUME NEW n \in Node, HasState(n)
        PROVE  HasState(n)' /\ Advances(Held(n), Held(n)')
    BY <2>1, <2>2, DiskGrows
  <2>3. ASSUME NEW n \in Node, HasState(n)
        PROVE  /\ disk'[n].st # NoState
               /\ disk'[n].st.leader_epoch >= Held(n).leader_epoch
               /\ ~RankBelow(disk'[n].st, Held(n))
    BY <2>2, <2>3 DEF HasState, Held, Advances
  <2> QED
    BY <2>3
<1> QED
  BY <1>1, TypeInvAlways, PTL DEF Spec, StoredStateNeverRegresses

-----------------------------------------------------------------------------
(* Leaders hold the terms they are followed into.                          *)

\* The node that a state names as its leader holds a term at least as high.
TermHeld(d, s) ==
    /\ d[s.leader_node_id].st # NoState
    /\ d[s.leader_node_id].st.leader_epoch >= s.leader_epoch

\* So it is with every state that some events carry.
EventsHeld(d, events) ==
    \A i \in 1 .. Len(events) : Grouped(events[i]) => TermHeld(d, events[i].st)

\* The inductive invariant behind LeaderHoldsTerm: the states that are stored,
\* those carried by an event of a log, those on their way in a page, and the
\* answers to a join that have not been taken yet.
TermInv ==
    \A n \in Node :
        /\ HasState(n) => TermHeld(disk, Held(n))
        /\ EventsHeld(disk, disk[n].log)
        /\ task[n].pc = "apply" => EventsHeld(disk, task[n].page.items)
        /\ task[n].pc = "joined" => TermHeld(disk, task[n].saved)

(* The events of a log.                                                    *)
LEMMA LogEvents ==
    ASSUME NEW log \in Seq(GoodEvent), NEW i \in 1 .. Len(log)
    PROVE  /\ log[i] \in GoodEvent /\ log[i].actor \in Node
           /\ Grouped(log[i]) => log[i].st \in GroupState
BY DEF GoodEvent, Event

(* A leader's term does not go back, so what has been held stays so.       *)
LEMMA TermKept ==
    ASSUME TypeInv, DiskStep, NEW s \in GroupState, TermHeld(disk, s)
    PROVE  TermHeld(disk', s)
<1> DEFINE l == s.leader_node_id
<1>1. l \in Node /\ HasState(l) /\ Held(l).leader_epoch >= s.leader_epoch
  BY GroupStateFields DEF TermHeld, HasState, Held
<1>2. /\ Held(l) \in GroupState /\ disk'[l].st \in GroupState
      /\ disk'[l].st.leader_epoch >= Held(l).leader_epoch
  BY <1>1, HeldTyped, DiskGrows DEF Advances, Held
<1>3. disk'[l].st.leader_epoch >= s.leader_epoch
  BY <1>1, <1>2, GroupStateFields
<1> QED
  BY <1>2, <1>3, GroupStateFields DEF TermHeld

(* The same for the states that events carry.                              *)
LEMMA EventsKept ==
    ASSUME TypeInv, DiskStep, NEW events \in Seq(GoodEvent), EventsHeld(disk, events)
    PROVE  EventsHeld(disk', events)
<1>1. ASSUME NEW i \in 1 .. Len(events), Grouped(events[i])
      PROVE  TermHeld(disk', events[i].st)
  BY <1>1, LogEvents, TermKept DEF EventsHeld
<1> QED
  BY <1>1 DEF EventsHeld

(* What a page carries is in the log of its server.                        *)
LEMMA PageEventsHeld ==
    ASSUME TypeInv, NEW p \in Node, HasState(p), NEW after \in Nat,
           EventsHeld(disk, disk[p].log)
    PROVE  EventsHeld(disk, EventPage(disk[p], p, after).items)
<1> DEFINE page == EventPage(disk[p], p, after)
           items == page.items
<1>0. /\ page \in Page
      /\ Len(items) <= IF after < Len(disk[p].log) THEN Len(disk[p].log) - after ELSE 0
      /\ \A i \in 1 .. Len(items) : items[i] = disk[p].log[after + i]
  BY EventPageTyped
<1> HIDE DEF page
<1>1. Len(items) \in Nat /\ Len(disk[p].log) \in Nat
  BY <1>0, HeldTyped, ReplicaFields DEF Page
<1> HIDE DEF items
<1>2. ASSUME NEW i \in 1 .. Len(items) PROVE after + i \in 1 .. Len(disk[p].log)
  BY <1>0, <1>1
<1>3. EventsHeld(disk, items)
  BY <1>0, <1>2 DEF EventsHeld
<1> QED
  BY <1>3 DEF items, page

(* Whatever a node writes, itself, by adoption or by replay, names a       *)
(* leader that holds the term when it is written: the leader of a new term *)
(* is the one that writes it first, and everybody else has it from a state *)
(* or an event that somebody stored.                                       *)
LEMMA WriteHoldsTerm ==
    ASSUME TypeInv, TermInv, NEW n \in Node, NEW r \in GoodReplica, Write(n, r)
    PROVE  /\ r.st # NoState => TermHeld(disk', r.st)
           /\ EventsHeld(disk', r.log)
<1>0. /\ DiskStep /\ disk' = [disk EXCEPT ![n] = r] /\ disk'[n] = r
      /\ disk' \in [Node -> GoodReplica]
      /\ disk[n].log \in Seq(GoodEvent) /\ r.log \in Seq(GoodEvent)
      /\ Len(disk[n].log) \in Nat /\ Len(r.log) \in Nat
      /\ r.st \in GroupState \cup {NoState}
      /\ EventsHeld(disk', disk[n].log)
      /\ HasState(n) => Held(n) \in GroupState /\ TermHeld(disk, Held(n))
  <2>1. DiskStep /\ disk' = [disk EXCEPT ![n] = r]
    BY DEF DiskStep, Write
  <2>2. disk[n].log \in Seq(GoodEvent) /\ EventsHeld(disk, disk[n].log)
    BY HeldTyped, ReplicaFields DEF TermInv
  <2> QED
    BY <2>1, <2>2, EventsKept, HeldTyped, ReplicaFields DEF TermInv, TypeInv
<1>1. CASE OwnWrite(n, r)
  <2>1. r.st # NoState => TermHeld(disk', r.st)
    <3>1. CASE r.st = Held(n)
      BY <1>0, <3>1, TermKept DEF HasState, Held
    <3>2. CASE r.st \in GroupState /\ r.st.leader_node_id = n
      BY <1>0, <3>2, GroupStateFields DEF TermHeld
    <3> QED
      BY <1>1, <3>1, <3>2 DEF OwnWrite, OwnState
  <2>2. CASE r.log = disk[n].log
    BY <1>0, <2>1, <2>2
  <2>3. ASSUME NEW ev \in GoodEvent, Grouped(ev) => ev.st = r.st,
               r.log = Append(disk[n].log, ev)
        PROVE  EventsHeld(disk', r.log)
    <3>1. ASSUME NEW i \in 1 .. Len(r.log), Grouped(r.log[i])
          PROVE  TermHeld(disk', r.log[i].st)
      <4>1. CASE i <= Len(disk[n].log)
        <5>1. i \in 1 .. Len(disk[n].log) /\ r.log[i] = disk[n].log[i]
          BY <1>0, <2>3, <4>1
        <5> QED
          BY <1>0, <3>1, <5>1 DEF EventsHeld
      <4>2. CASE i = Len(disk[n].log) + 1
        <5>1. r.log[i] = ev
          BY <1>0, <2>3, <4>2
        <5>2. ev.st = r.st /\ ev.st \in GroupState
          BY <2>3, <3>1, <5>1 DEF GoodEvent
        <5> QED
          BY <2>1, <5>1, <5>2, GroupStateFields
      <4> QED
        BY <1>0, <2>3, <4>1, <4>2
    <3> QED
      BY <3>1 DEF EventsHeld
  <2> QED
    BY <1>1, <2>1, <2>2, <2>3 DEF OwnWrite, OwnState
<1>2. CASE Adoption(n, r)
  <2>1. r.log = disk[n].log
    BY <1>2 DEF Adoption
  <2>2. CASE \E p \in Node : HasState(p) /\ r.st = Held(p)
    BY <1>0, <2>1, <2>2, TermKept, HeldTyped DEF TermInv
  <2>3. CASE task[n].pc = "joined" /\ r.st = task[n].saved
    <3>1. r.st \in GroupState /\ TermHeld(disk, r.st)
      BY <2>3 DEF TermInv, TypeInv, TaskSound
    <3> QED
      BY <1>0, <2>1, <3>1, TermKept
  <2> QED
    BY <1>2, <2>2, <2>3 DEF Adoption
<1>3. CASE Replay(n, r)
  <2> DEFINE page == task[n].page
  <2>1. PICK k \in 0 .. Len(page.items) : Replayed(disk[n], page, k, r)
    BY <1>3 DEF Replay
  <2>2. /\ page \in Page /\ page.items \in Seq(GoodEvent) /\ page.after \in Nat
        /\ Len(page.items) \in Nat
        /\ EventsHeld(disk, page.items) /\ EventsHeld(disk', page.items)
    <3>1. page \in Page /\ EventsHeld(disk, page.items)
      BY <1>3, PageHeld DEF Replay, TermInv
    <3>2. page.items \in Seq(GoodEvent) /\ page.after \in Nat
      BY <3>1 DEF Page
    <3> HIDE DEF page
    <3>3. EventsHeld(disk', page.items)
      BY <1>0, <3>1, <3>2, EventsKept
    <3> QED
      BY <3>1, <3>2, <3>3
  <2> HIDE DEF page
  <2>3. r.st # NoState => TermHeld(disk', r.st)
    <3> SUFFICES ASSUME r.st # NoState PROVE TermHeld(disk', r.st)
      OBVIOUS
    <3>1. PICK s : Source(s, disk[n], page, k) /\ SameTerm(r.st, s)
      BY <2>1 DEF Replayed
    <3>2. TermHeld(disk', s)
      <4>1. CASE s = disk[n].st /\ s \in GroupState
        BY <1>0, <4>1, TermKept, GroupStateFields DEF Held, HasState
      <4>2. CASE \E i \in 1 .. k : Grouped(page.items[i]) /\ s = page.items[i].st
        BY <2>1, <2>2, <4>2 DEF EventsHeld
      <4> QED
        BY <3>1, <4>1, <4>2 DEF Source
    <3> QED
      BY <3>1, <3>2 DEF SameTerm, TermHeld
  <2>4. ASSUME NEW i \in 1 .. Len(r.log), Grouped(r.log[i])
        PROVE  TermHeld(disk', r.log[i].st)
    <3>1. CASE i <= Len(disk[n].log)
      <4>1. i \in 1 .. Len(disk[n].log) /\ r.log[i] = disk[n].log[i]
        BY <1>0, <2>1, <3>1 DEF Replayed
      <4> QED
        BY <1>0, <2>4, <4>1 DEF EventsHeld
    <3>2. CASE i > Len(disk[n].log)
      <4> DEFINE j == i - page.after
      <4>1. i \in Len(disk[n].log) + 1 .. Len(r.log)
        BY <1>0, <3>2
      <4>2. j \in 1 .. k /\ r.log[i] = page.items[j]
        BY <2>1, <4>1 DEF Replayed
      <4> HIDE DEF j
      <4>3. j \in 1 .. Len(page.items)
        BY <2>1, <2>2, <4>2
      <4> QED
        BY <2>2, <2>4, <4>2, <4>3 DEF EventsHeld
    <3> QED
      BY <1>0, <3>1, <3>2
  <2> QED
    BY <2>3, <2>4 DEF EventsHeld
<1> QED
  BY <1>1, <1>2, <1>3 DEF Write

(* Every sound step keeps TermInv.                                         *)
LEMMA TermInvKept ==
    ASSUME TypeInv, TermInv, StepSound
    PROVE  TermInv'
<1>0. DiskStep /\ TypeInv'
  BY TypeInvKept DEF StepSound
<1>1. ASSUME NEW n \in Node
      PROVE  /\ HasState(n)' => TermHeld(disk', Held(n)')
             /\ EventsHeld(disk', disk'[n].log)
  <2>1. CASE disk'[n] = disk[n]
    <3>1. disk[n].log \in Seq(GoodEvent)
      BY HeldTyped, ReplicaFields
    <3>2. EventsHeld(disk', disk[n].log)
      BY <1>0, <3>1, EventsKept DEF TermInv
    <3>3. HasState(n) => TermHeld(disk', Held(n))
      BY <1>0, TermKept, HeldTyped DEF TermInv
    <3> QED
      BY <2>1, <3>2, <3>3 DEF HasState, Held
  <2>2. ASSUME NEW m \in Node, NEW r \in GoodReplica, Write(m, r)
        PROVE  /\ HasState(n)' => TermHeld(disk', Held(n)')
               /\ EventsHeld(disk', disk'[n].log)
    <3>1. disk' = [disk EXCEPT ![m] = r] /\ disk \in [Node -> GoodReplica]
      BY <2>2 DEF Write, TypeInv
    <3>2. CASE n # m
      BY <2>1, <3>1, <3>2
    <3>3. CASE n = m
      <4>1. disk'[n] = r
        BY <3>1, <3>3
      <4> QED
        BY <2>2, <3>3, <4>1, WriteHoldsTerm DEF HasState, Held
    <3> QED
      BY <3>2, <3>3
  <2> QED
    BY <1>0, <2>1, <2>2 DEF DiskStep
<1>2. ASSUME NEW n \in Node, task'[n].pc = "apply"
      PROVE  EventsHeld(disk', task'[n].page.items)
  <2>1. CASE task[n].pc = "apply" /\ task'[n].page = task[n].page
    <3>1. task[n].page.items \in Seq(GoodEvent)
      BY <2>1, PageHeld DEF Page
    <3> QED
      BY <1>0, <2>1, <3>1, EventsKept DEF TermInv
  <2>2. ASSUME disk' = disk, NEW p \in Node, Leads(p),
               task'[n].page = EventPage(disk[p], p, LastEventId(disk[n]))
        PROVE  EventsHeld(disk', task'[n].page.items)
    <3>1. LastEventId(disk[n]) \in Nat /\ EventsHeld(disk, disk[p].log)
      BY HeldTyped, ReplicaFields DEF LastEventId, TermInv
    <3> QED
      BY <2>2, <3>1, PageEventsHeld DEF Leads
  <2>3. CASE task'[n] = task[n]
    BY <1>2, <2>1, <2>3
  <2> QED
    BY <1>2, <2>2, <2>3 DEF StepSound, TaskStep
<1>3. ASSUME NEW n \in Node, task'[n].pc = "joined"
      PROVE  TermHeld(disk', task'[n].saved)
  <2>1. CASE task[n].pc = "joined" /\ task'[n].saved = task[n].saved
    <3>1. task[n].saved \in GroupState /\ TermHeld(disk, task[n].saved)
      BY <2>1 DEF TermInv, TypeInv, TaskSound
    <3> QED
      BY <1>0, <2>1, <3>1, TermKept
  <2>2. CASE \E l \in Node : HasState(l)' /\ task'[n].saved = Held(l)'
    BY <1>1, <2>2
  <2>3. CASE task'[n] = task[n]
    BY <1>3, <2>1, <2>3
  <2> QED
    BY <1>3, <2>1, <2>2, <2>3 DEF StepSound, TaskStep
<1> QED
  BY <1>1, <1>2, <1>3 DEF TermInv

(* The members of the initial group follow its first leader in the first   *)
(* term.                                                                   *)
LEMMA InitTermInv == Init => TermInv
<1> SUFFICES ASSUME Init PROVE TermInv
  OBVIOUS
<1>0. ASSUME NEW n \in Node
      PROVE  /\ n \notin Initial => disk[n].st = NoState /\ disk[n].log = <<>>
             /\ n \in Initial =>
                  /\ disk[n].log = FormedLog
                  /\ disk[n].st = [FormedState(Cardinality(Initial)) EXCEPT
                                     !.leader_signature = IF n = FirstLeader THEN @ ELSE NoKey]
  BY DEF Init
<1>1. ASSUME NEW n \in Node
      PROVE  /\ HasState(n) => TermHeld(disk, Held(n))
             /\ EventsHeld(disk, disk[n].log)
  <2>1. CASE n \notin Initial
    <3>1. disk[n].st = NoState /\ disk[n].log = <<>> /\ Len(<<>>) = 0
      BY <1>0, <2>1
    <3> QED
      BY <3>1 DEF HasState, EventsHeld
  <2>2. CASE n \in Initial
    <3> DEFINE N == Cardinality(Initial)
               f == FirstLeader
    <3>1. /\ N \in Nat /\ f \in Initial /\ f \in Node
          /\ \A k \in Nat : FormedState(k) \in GroupState /\ FormedState(k).leader_node_id = f
                            /\ FormedState(k).leader_epoch = 1
      BY <2>2, FormedStateTyped, FS_CardinalityType, ClusterAssumption
    <3>2. /\ disk[n].log = FormedLog
          /\ disk[n].st = [FormedState(N) EXCEPT !.leader_signature = IF n = f THEN @ ELSE NoKey]
          /\ disk[f].st = [FormedState(N) EXCEPT !.leader_signature = IF f = f THEN @ ELSE NoKey]
      BY <1>0, <2>2, <3>1
    <3>3. /\ disk[n].st.leader_node_id = f /\ disk[n].st.leader_epoch = 1
          /\ disk[f].st \in GroupState /\ disk[f].st.leader_epoch = 1
      BY <3>1, <3>2 DEF GroupState
    <3>4. ASSUME NEW s, s.leader_node_id = f, s.leader_epoch = 1 PROVE TermHeld(disk, s)
      BY <3>3, <3>4, GroupStateFields DEF TermHeld
    <3>5. \A i \in 1 .. Len(FormedLog) : FormedLog[i].st = FormedState(i) /\ i \in Nat
      BY <2>2, <3>1, FormedLogTyped
    <3>6. EventsHeld(disk, FormedLog)
      BY <3>1, <3>4, <3>5 DEF EventsHeld
    <3> QED
      BY <3>2, <3>3, <3>4, <3>6 DEF Held
  <2> QED
    BY <2>1, <2>2
<1> QED
  BY <1>1, IdleTyped DEF TermInv, Init

(* Nobody follows a node into a term that node has not stored: not after a *)
(* crash between the save of a promotion and its event, nor from a page, a *)
(* snapshot or an answer that was read long before it was used             *)
(* (check_failover).                                                       *)
THEOREM LeaderTerms == Spec => []LeaderHoldsTerm
<1>1. TypeInv /\ TermInv => LeaderHoldsTerm
  BY DEF TermInv, TermHeld, LeaderHoldsTerm, HasState, Held
<1>2. TypeInv /\ TermInv /\ [Next]_vars => TermInv'
  BY NextSound, TermInvKept
<1> QED
  BY <1>1, <1>2, InitTermInv, TypeInvAlways, PTL DEF Spec

-----------------------------------------------------------------------------
(* A group whose leader stays.                                             *)

\* The node that was started with the initial group state.
TheFounder == CHOOSE n \in Founder : TRUE

\* A group that one node founds and that only its leader writes to: nobody
\* starts with a stored state, no other node is a founder, and no GUI sends its
\* manifests to a follower.
FounderLeads ==
    /\ Initial = {}
    /\ \E f \in Node : Founder = {f}
    /\ "follower_apply" \notin Requests

\* No candidate gets as far as waiting for its turn to promote itself.
NobodyTakesOver == \A n \in Node : ~InFailover(task[n])

\* A state of the founder's first term.
FirstTerm(s) ==
    s.leader_node_id = TheFounder /\ s.leader_epoch = 1 /\ s.expires_at >= TTL

\* An event that the founder wrote in it.
FirstTermEvent(ev) == ev.actor = TheFounder /\ (Grouped(ev) => FirstTerm(ev.st))

\* A page that goes on from what n has: a part of the founder's log as it is
\* now, and not shorter than n's own.
PageSteady(n, page) ==
    LET leaders == disk[TheFounder].log
    IN  /\ page.server = TheFounder /\ page.leader_epoch = 1
        /\ Len(disk[n].log) <= page.last_event_id
        /\ page.last_event_id <= Len(leaders)
        /\ page.last_event_id # 0 => page.last_event_nonce = TheFounder
        /\ \A i \in 1 .. Len(page.items) :
              /\ page.after + i <= page.last_event_id
              /\ page.items[i] = leaders[page.after + i]

\* What is stored: one term, events of one author, and at every node a
\* beginning of the founder's log.
DiskSteady ==
    /\ \A n \in Node : HasState(n) => FirstTerm(Held(n))
    /\ \A i \in 1 .. Len(disk[TheFounder].log) : FirstTermEvent(disk[TheFounder].log[i])
    /\ \A n \in Node : Log!Begins(disk[n].log, disk[TheFounder].log)

\* What a coroutine holds: nothing diverged, no snapshot, a founder's page.
TaskSteady(n) ==
    LET t == task[n]
    IN  /\ t.caller = "renew" => n = TheFounder /\ HasState(n)
        /\ ~t.diverged /\ t.outcome # "diverged" /\ t.pc # "snapshot"
        /\ t.pc = "joined" => FirstTerm(t.saved)
        /\ t.pc = "apply" => n # TheFounder /\ PageSteady(n, t.page)

\* The inductive invariant of a group whose leader stays.
SteadyInv == DiskSteady /\ \A n \in Node : TaskSteady(n) /\ ~broken[n]

(* There is one founder.                                                   *)
LEMMA TheFounderIs ==
    ASSUME FounderLeads
    PROVE  TheFounder \in Node /\ Founder = {TheFounder}
BY DEF FounderLeads, TheFounder

(* Before the first start nothing is stored.                               *)
LEMMA InitSteady ==
    ASSUME FounderLeads, Init
    PROVE  SteadyInv
<1>1. \A n \in Node : disk[n].st = NoState /\ disk[n].log = <<>>
  BY DEF Init, FounderLeads
<1>2. \A n \in Node : task[n] = Idle /\ ~broken[n]
  BY DEF Init
<1>3. DiskSteady
  BY <1>1, TheFounderIs DEF DiskSteady, HasState, Log!Begins
<1> QED
  BY <1>2, <1>3, IdleTyped DEF SteadyInv, TaskSteady

(* Of its own accord only the founder writes, in its first term, and no    *)
(* more than one event.                                                    *)
LEMMA OwnWriteSteady ==
    ASSUME TypeInv, FounderLeads, NobodyTakesOver, SteadyInv,
           NEW n \in Node, NEW r \in GoodReplica, OwnWrite(n, r), r # disk[n]
    PROVE  /\ n = TheFounder
           /\ r.st # NoState => FirstTerm(r.st)
           /\ \/ r.log = disk[n].log
              \/ \E ev \in GoodEvent : FirstTermEvent(ev) /\ r.log = Append(disk[n].log, ev)
<1>1. /\ n = TheFounder
      /\ r.st = Held(n) \/ r.st.leader_epoch = 1
  <2>1. CASE Leads(n) /\ r.st.leader_epoch = Held(n).leader_epoch
    BY <2>1 DEF SteadyInv, DiskSteady, Leads, FirstTerm
  <2>2. CASE task[n].caller = "renew" /\ r.st.leader_epoch = Held(n).leader_epoch
    BY <2>2 DEF SteadyInv, TaskSteady, DiskSteady, FirstTerm
  <2>3. CASE n \in Founder /\ ~HasState(n) /\ r.st.leader_epoch = 1
    BY <2>3, TheFounderIs
  <2> QED
    BY <2>1, <2>2, <2>3 DEF OwnWrite, OwnCause, NobodyTakesOver, FounderLeads
<1>2. r.st # NoState => FirstTerm(r.st)
  <2>1. CASE r.st = Held(n)
    BY <2>1 DEF SteadyInv, DiskSteady, HasState, Held
  <2>2. CASE r.st # Held(n)
    BY <1>1, <2>2 DEF OwnWrite, OwnState, FirstTerm
  <2> QED
    BY <2>1, <2>2
<1>3. ASSUME NEW ev \in GoodEvent, ev.actor = n, Grouped(ev) => ev.st = r.st
      PROVE  FirstTermEvent(ev)
  <2>1. Grouped(ev) => r.st # NoState
    BY <1>3, StateAssumption DEF GoodEvent
  <2> QED
    BY <1>1, <1>2, <1>3, <2>1 DEF FirstTermEvent
<1> QED
  BY <1>1, <1>2, <1>3 DEF OwnWrite

(* What a join or a shared state hands over is of the first term, and      *)
(* touches no log.                                                         *)
LEMMA AdoptionSteady ==
    ASSUME SteadyInv, NEW n \in Node, NEW r \in GoodReplica, Adoption(n, r)
    PROVE  FirstTerm(r.st) /\ r.log = disk[n].log
BY DEF Adoption, SteadyInv, DiskSteady, TaskSteady

(* apply_remote_events continues a follower's log by what comes next in    *)
(* the founder's, as far as the page goes, and stays in the first term.    *)
LEMMA ReplaySteady ==
    ASSUME TypeInv, FounderLeads, SteadyInv, NEW n \in Node, NEW r \in GoodReplica, Replay(n, r)
    PROVE  /\ n # TheFounder
           /\ r.st # NoState => FirstTerm(r.st)
           /\ Log!Begins(disk[n].log, r.log) /\ Log!Begins(r.log, disk[TheFounder].log)
           /\ Len(r.log) <= task[n].page.last_event_id
<1> DEFINE page == task[n].page
           d == disk[n]
           leaders == disk[TheFounder].log
<1>1. PICK k \in 0 .. Len(page.items) : Replayed(d, page, k, r)
  BY DEF Replay
<1>2. /\ n # TheFounder /\ PageSteady(n, page)
      /\ page \in Page /\ d \in GoodReplica /\ HasState(n) /\ page.after <= Len(d.log)
  BY PageHeld DEF Replay, SteadyInv, TaskSteady
<1>3. /\ page.items \in Seq(GoodEvent) /\ Len(page.items) \in Nat /\ page.after \in Nat
      /\ page.last_event_id \in Nat
      /\ Len(d.log) \in Nat /\ Len(r.log) \in Nat /\ TheFounder \in Node
      /\ leaders \in Seq(GoodEvent) /\ Len(leaders) \in Nat
  BY <1>2, TheFounderIs, HeldTyped, ReplicaFields DEF Page
<1>4. /\ Log!Begins(d.log, leaders)
      /\ FirstTerm(d.st)
      /\ \A i \in 1 .. Len(leaders) : FirstTermEvent(leaders[i])
  BY <1>2 DEF SteadyInv, DiskSteady, Held
<1>5. /\ Len(d.log) <= page.last_event_id /\ page.last_event_id <= Len(leaders)
      /\ \A i \in 1 .. Len(page.items) :
            page.after + i <= page.last_event_id /\ page.items[i] = leaders[page.after + i]
  BY <1>2 DEF PageSteady
<1>6. /\ Len(r.log) >= Len(d.log)
      /\ \A i \in 1 .. Len(d.log) : r.log[i] = d.log[i]
      /\ \A i \in Len(d.log) + 1 .. Len(r.log) :
            i - page.after \in 1 .. k /\ r.log[i] = page.items[i - page.after]
  BY <1>1 DEF Replayed
<1> HIDE DEF d, leaders, page
<1>7. ASSUME NEW i \in Len(d.log) + 1 .. Len(r.log)
      PROVE  i <= page.last_event_id /\ r.log[i] = leaders[i]
  <2> DEFINE j == i - page.after
  <2>1. j \in 1 .. k /\ r.log[i] = page.items[j]
    BY <1>6, <1>7
  <2>2. j \in 1 .. Len(page.items) /\ page.after + j = i
    BY <1>1, <1>3, <2>1
  <2> HIDE DEF j
  <2> QED
    BY <1>5, <2>1, <2>2
<1>8. Log!Begins(d.log, r.log)
  BY <1>3, <1>6 DEF Log!Begins
<1>9. Len(r.log) <= page.last_event_id
  <2>1. CASE Len(r.log) = Len(d.log)
    BY <1>5, <2>1
  <2>2. CASE Len(r.log) # Len(d.log)
    BY <1>3, <1>6, <1>7, <2>2
  <2> QED
    BY <2>1, <2>2
<1>10. Log!Begins(r.log, leaders)
  <2>1. ASSUME NEW i \in 1 .. Len(r.log) PROVE r.log[i] = leaders[i]
    <3>1. CASE i <= Len(d.log)
      BY <1>3, <1>4, <1>6, <3>1 DEF Log!Begins
    <3>2. CASE i > Len(d.log)
      BY <1>3, <1>7, <3>2
    <3> QED
      BY <1>3, <3>1, <3>2
  <2>2. Len(r.log) <= Len(leaders)
    BY <1>3, <1>5, <1>9
  <2> QED
    BY <2>1, <2>2 DEF Log!Begins
<1>11. ASSUME NEW s, Source(s, d, page, k) PROVE FirstTerm(s)
  <2>1. CASE s = d.st
    BY <1>4, <2>1
  <2>2. ASSUME NEW i \in 1 .. k, Grouped(page.items[i]), s = page.items[i].st
        PROVE  FirstTerm(s)
    <3>1. /\ i \in 1 .. Len(page.items) /\ page.after + i \in 1 .. Len(leaders)
          /\ page.items[i] = leaders[page.after + i]
      BY <1>1, <1>3, <1>5, <2>2
    <3> QED
      BY <1>4, <2>2, <3>1 DEF FirstTermEvent
  <2> QED
    BY <1>11, <2>1, <2>2 DEF Source
<1>12. r.st # NoState => FirstTerm(r.st)
  <2> SUFFICES ASSUME r.st # NoState PROVE FirstTerm(r.st)
    OBVIOUS
  <2>1. /\ \E s : Source(s, d, page, k) /\ SameTerm(r.st, s)
        /\ \E s : Source(s, d, page, k) /\ r.st.expires_at = s.expires_at
    BY <1>1 DEF Replayed
  <2> QED
    BY <1>11, <2>1 DEF FirstTerm, SameTerm
<1> QED
  BY <1>2, <1>8, <1>9, <1>10, <1>12 DEF d, leaders, page

-----------------------------------------------------------------------------
(* The writes, and what they leave of the pages that were fetched.         *)

(* Beginnings of sequences.                                                *)
LEMMA BeginsFacts ==
    /\ \A a, b, c \in Seq(GoodEvent) :
          Log!Begins(a, b) /\ Log!Begins(b, c) => Log!Begins(a, c)
    /\ \A a \in Seq(GoodEvent) : Log!Begins(a, a)
    /\ \A a \in Seq(GoodEvent), ev \in GoodEvent :
          /\ Log!Begins(a, Append(a, ev))
          /\ Len(Append(a, ev)) = Len(a) + 1
<1>1. ASSUME NEW a \in Seq(GoodEvent), NEW b \in Seq(GoodEvent), NEW c \in Seq(GoodEvent),
             Log!Begins(a, b), Log!Begins(b, c)
      PROVE  Log!Begins(a, c)
  <2>1. Len(a) \in Nat /\ Len(b) \in Nat /\ Len(c) \in Nat
    OBVIOUS
  <2> QED
    BY <1>1, <2>1 DEF Log!Begins
<1>2. \A a \in Seq(GoodEvent) : Log!Begins(a, a)
  BY DEF Log!Begins
<1>3. ASSUME NEW a \in Seq(GoodEvent), NEW ev \in GoodEvent
      PROVE  Log!Begins(a, Append(a, ev)) /\ Len(Append(a, ev)) = Len(a) + 1
  BY DEF Log!Begins
<1> QED
  BY <1>1, <1>2, <1>3

(* What a write does to the logs, seen from the founder's.                 *)
LEMMA WriteSteady ==
    ASSUME TypeInv, FounderLeads, NobodyTakesOver, SteadyInv,
           NEW n \in Node, NEW r \in GoodReplica, Write(n, r)
    PROVE  /\ r.st # NoState => FirstTerm(r.st)
           /\ n = TheFounder =>
                 \/ r.log = disk[n].log
                 \/ \E ev \in GoodEvent : FirstTermEvent(ev) /\ r.log = Append(disk[n].log, ev)
           /\ n # TheFounder =>
                 /\ Log!Begins(disk[n].log, r.log) /\ Log!Begins(r.log, disk[TheFounder].log)
                 /\ \/ r.log = disk[n].log
                    \/ task[n].pc = "apply" /\ Len(r.log) <= task[n].page.last_event_id
<1>1. /\ disk[n].log \in Seq(GoodEvent) /\ Log!Begins(disk[n].log, disk[TheFounder].log)
      /\ Log!Begins(disk[n].log, disk[n].log)
      /\ HasState(n) => FirstTerm(Held(n))
  BY HeldTyped, ReplicaFields, BeginsFacts DEF SteadyInv, DiskSteady
<1>2. CASE r = disk[n]
  BY <1>1, <1>2 DEF HasState, Held
<1>3. CASE OwnWrite(n, r) /\ r # disk[n]
  BY <1>3, OwnWriteSteady
<1>4. CASE Adoption(n, r)
  BY <1>1, <1>4, AdoptionSteady
<1>5. CASE Replay(n, r)
  BY <1>5, ReplaySteady DEF Replay
<1> QED
  BY <1>2, <1>3, <1>4, <1>5 DEF Write

(* Every write keeps what is stored in one term and the logs beginnings of *)
(* the founder's.                                                          *)
LEMMA DiskSteadyKept ==
    ASSUME TypeInv, FounderLeads, NobodyTakesOver, SteadyInv, DiskStep
    PROVE  DiskSteady'
<1>1. CASE disk' = disk
  BY <1>1 DEF SteadyInv, DiskSteady, HasState, Held
<1>2. ASSUME NEW n \in Node, NEW r \in GoodReplica, Write(n, r) PROVE DiskSteady'
  <2> DEFINE f == TheFounder
  <2>0. /\ f \in Node /\ disk' = [disk EXCEPT ![n] = r] /\ disk \in [Node -> GoodReplica]
        /\ \A m \in Node : disk[m].log \in Seq(GoodEvent) /\ Len(disk[m].log) \in Nat
        /\ r.log \in Seq(GoodEvent) /\ Len(r.log) \in Nat
    BY <1>2, TheFounderIs, HeldTyped, ReplicaFields DEF Write, TypeInv
  <2> HIDE DEF f
  <2>1. disk'[n] = r /\ \A m \in Node \ {n} : disk'[m] = disk[m]
    BY <2>0
  <2>2. ASSUME NEW m \in Node, disk'[m].st # NoState PROVE FirstTerm(disk'[m].st)
    <3>1. CASE m = n
      BY <1>2, <2>1, <2>2, <3>1, WriteSteady
    <3>2. CASE m # n
      BY <2>1, <2>2, <3>2 DEF SteadyInv, DiskSteady, HasState, Held
    <3> QED
      BY <3>1, <3>2
  <2>3. /\ \A i \in 1 .. Len(disk[f].log) : FirstTermEvent(disk[f].log[i])
        /\ \A m \in Node : Log!Begins(disk[m].log, disk[f].log)
    BY DEF SteadyInv, DiskSteady, f
  <2>4. CASE n # f
    <3>1. disk'[f] = disk[f]
      BY <2>0, <2>1, <2>4
    <3>2. Log!Begins(r.log, disk[f].log)
      BY <1>2, <2>4, WriteSteady DEF f
    <3>3. \A m \in Node : Log!Begins(disk'[m].log, disk'[f].log)
      BY <2>1, <2>3, <3>1, <3>2
    <3> QED
      BY <2>2, <2>3, <3>1, <3>3 DEF DiskSteady, HasState, Held, f
  <2>5. CASE n = f
    <3>1. disk'[f] = r
      BY <2>1, <2>5
    <3>2. \/ r.log = disk[f].log
          \/ \E ev \in GoodEvent : FirstTermEvent(ev) /\ r.log = Append(disk[f].log, ev)
      BY <1>2, <2>5, WriteSteady DEF f
    <3>3. Log!Begins(disk[f].log, r.log)
      BY <2>0, <3>2, BeginsFacts
    <3>4. \A i \in 1 .. Len(r.log) : FirstTermEvent(r.log[i])
      BY <2>0, <2>3, <3>2
    <3>5. ASSUME NEW m \in Node PROVE Log!Begins(disk'[m].log, r.log)
      <4>1. CASE m = f
        BY <2>0, <3>1, <4>1, BeginsFacts
      <4>2. CASE m # f
        BY <2>0, <2>1, <2>3, <2>5, <3>3, <4>2, BeginsFacts
      <4> QED
        BY <4>1, <4>2
    <3> QED
      BY <2>2, <3>1, <3>4, <3>5 DEF DiskSteady, HasState, Held, f
  <2> QED
    BY <2>4, <2>5
<1> QED
  BY <1>1, <1>2 DEF DiskStep

(* A page goes on being a part of the founder's log while the logs grow.   *)
LEMMA PageSteadyKept ==
    ASSUME TypeInv, FounderLeads, NobodyTakesOver, SteadyInv, DiskStep,
           NEW n \in Node, task[n].pc = "apply", task'[n] = task[n]
    PROVE  PageSteady(n, task[n].page)'
<1> DEFINE page == task[n].page
           f == TheFounder
<1>1. PageSteady(n, page) /\ page \in Page /\ f \in Node /\ n # f
  BY PageHeld, TheFounderIs DEF SteadyInv, TaskSteady
<1>2. /\ page.items \in Seq(GoodEvent) /\ Len(page.items) \in Nat /\ page.after \in Nat
      /\ page.last_event_id \in Nat
  BY <1>1 DEF Page
<1>8. /\ Len(disk[f].log) \in Nat /\ Len(disk'[f].log) \in Nat
      /\ Len(disk[f].log) <= Len(disk'[f].log)
      /\ \A i \in 1 .. Len(disk[f].log) : disk'[f].log[i] = disk[f].log[i]
  <2>1. disk'[f] \in GoodReplica /\ disk[f] \in GoodReplica
    BY <1>1, DiskGrows, HeldTyped
  <2> QED
    BY <1>1, <2>1, DiskGrows, ReplicaFields
<1>3. Len(disk'[n].log) <= page.last_event_id
  <2>1. CASE disk'[n] = disk[n]
    BY <1>1, <2>1 DEF PageSteady
  <2>2. CASE disk'[n] # disk[n]
    <3>1. PICK m \in Node, r \in GoodReplica : Write(m, r)
      BY <2>2 DEF DiskStep
    <3>2. disk' = [disk EXCEPT ![m] = r] /\ disk \in [Node -> GoodReplica]
      BY <3>1 DEF Write, TypeInv
    <3>3. m = n /\ disk'[n] = r
      BY <2>2, <3>2
    <3>4. r.log = disk[n].log \/ Len(r.log) <= page.last_event_id
      BY <1>1, <3>1, <3>3, WriteSteady
    <3> QED
      BY <1>1, <3>3, <3>4 DEF PageSteady
  <2> QED
    BY <2>1, <2>2
<1>4. ASSUME NEW i \in 1 .. Len(page.items)
      PROVE  page.items[i] = disk'[f].log[page.after + i]
  <2> DEFINE j == page.after + i
  <2>1. /\ page.items[i] = disk[f].log[j]
        /\ j <= page.last_event_id /\ page.last_event_id <= Len(disk[f].log)
    BY <1>1 DEF PageSteady
  <2> HIDE DEF f, page
  <2>2. j \in 1 .. Len(disk[f].log)
    BY <1>2, <1>8, <2>1
  <2> HIDE DEF j
  <2>3. page.items[i] = disk'[f].log[j]
    BY <1>8, <2>1, <2>2
  <2> QED
    BY <2>3 DEF j
<1>5. /\ page.server = f /\ page.leader_epoch = 1
      /\ page.last_event_id <= Len(disk[f].log)
      /\ page.last_event_id # 0 => page.last_event_nonce = f
      /\ \A i \in 1 .. Len(page.items) : page.after + i <= page.last_event_id
  BY <1>1 DEF PageSteady
<1>6. page.last_event_id <= Len(disk'[f].log)
  BY <1>2, <1>5, <1>8
<1>7. task'[n].page = page
  OBVIOUS
<1> HIDE DEF page
<1> QED
  BY <1>3, <1>4, <1>5, <1>6, <1>7 DEF PageSteady, f, page

-----------------------------------------------------------------------------
(* The coroutines.                                                         *)

(* fetch_events: a page comes from the founder, the only one that leads,   *)
(* and is a part of its log.                                               *)
LEMMA FetchedSteady ==
    ASSUME TypeInv, FounderLeads, SteadyInv, disk' = disk, NEW n \in Node, NEW p \in Node \ {n},
           Leads(p), task'[n].page = EventPage(disk[p], p, LastEventId(disk[n]))
    PROVE  n # TheFounder /\ PageSteady(n, task[n].page)'
<1> DEFINE f == TheFounder
           d == disk[n]
           leaders == disk[f].log
           page == task'[n].page
<1>1. p = f /\ f \in Node /\ n # f /\ HasState(f) /\ FirstTerm(Held(f))
  BY TheFounderIs DEF Leads, SteadyInv, DiskSteady, FirstTerm
<1>2. /\ leaders \in Seq(GoodEvent) /\ Len(leaders) \in Nat /\ Len(d.log) \in Nat
      /\ Log!Begins(d.log, leaders)
      /\ \A i \in 1 .. Len(leaders) : FirstTermEvent(leaders[i])
  BY <1>1, HeldTyped, ReplicaFields DEF SteadyInv, DiskSteady
<1>3. /\ page \in Page /\ page.server = f /\ page.after = Len(d.log)
      /\ Len(page.items) <= IF Len(d.log) < Len(leaders) THEN Len(leaders) - Len(d.log) ELSE 0
      /\ \A i \in 1 .. Len(page.items) : page.items[i] = leaders[Len(d.log) + i]
  <2> DEFINE after == LastEventId(disk[n])
  <2>1. p \in Node /\ HasState(p) /\ after \in Nat /\ after = Len(d.log)
    BY <1>1, <1>2 DEF LastEventId
  <2>2. page = EventPage(disk[p], p, after)
    OBVIOUS
  <2> HIDE DEF after, page, d, leaders, f
  <2>3. LET pg == EventPage(disk[p], p, after)
        IN  /\ pg \in Page /\ pg.server = p /\ pg.after = after
            /\ Len(pg.items) <= PageLimit
            /\ Len(pg.items) <= IF after < Len(disk[p].log) THEN Len(disk[p].log) - after ELSE 0
            /\ \A i \in 1 .. Len(pg.items) : pg.items[i] = disk[p].log[after + i]
    BY <2>1, EventPageTyped, ZenonT(30)
  <2> QED
    BY <1>1, <2>1, <2>2, <2>3 DEF d, leaders
<1>4. /\ page.leader_epoch = 1 /\ page.last_event_id = Len(leaders)
      /\ page.last_event_nonce = IF leaders = <<>> THEN 0 ELSE leaders[Len(leaders)].actor
  BY <1>1 DEF EventPage, FirstTerm, LastEventId, LastEventNonce, Held
<1>5. Len(leaders) # 0 => leaders # <<>> /\ leaders[Len(leaders)].actor = f
  <2>1. Len(leaders) # 0 => Len(leaders) \in 1 .. Len(leaders) /\ leaders # <<>>
    BY <1>2
  <2> HIDE DEF leaders
  <2> QED
    BY <1>2, <2>1 DEF FirstTermEvent
<1>6. Len(d.log) <= Len(leaders)
  BY <1>2 DEF Log!Begins
<1>7. Len(page.items) \in Nat
  BY <1>3 DEF Page
<1>8. disk'[f].log = leaders /\ disk'[n].log = d.log
  OBVIOUS
<1> HIDE DEF page, d, leaders
<1>9. ASSUME NEW i \in 1 .. Len(page.items)
      PROVE  page.after + i <= page.last_event_id /\ page.items[i] = leaders[page.after + i]
  BY <1>2, <1>3, <1>4, <1>6, <1>7, <1>9
<1>10. PageSteady(n, task[n].page)'
  BY <1>2, <1>3, <1>4, <1>5, <1>6, <1>8, <1>9 DEF PageSteady, f, page
<1> QED
  BY <1>1, <1>10 DEF f, page

(* A page that goes on from what the follower has shows no divergence: the *)
(* hash comparison of sync_logic.py finds its own event in it.             *)
LEMMA NoDivergence ==
    ASSUME TypeInv, FounderLeads, SteadyInv, NEW n \in Node, task[n].pc = "apply"
    PROVE  ~Diverges(disk[n], task[n].page)
<1> DEFINE page == task[n].page
           d == disk[n]
           leaders == disk[TheFounder].log
<1>1. /\ page \in Page /\ d \in GoodReplica /\ TheFounder \in Node
      /\ PageSteady(n, page)
      /\ Log!Begins(d.log, leaders)
      /\ \A i \in 1 .. Len(leaders) : FirstTermEvent(leaders[i])
  BY PageHeld, TheFounderIs DEF SteadyInv, TaskSteady, DiskSteady
<1>2. /\ d.log \in Seq(GoodEvent) /\ Len(d.log) \in Nat
      /\ leaders \in Seq(GoodEvent) /\ Len(leaders) \in Nat
      /\ page.last_event_id \in Nat
  BY <1>1, HeldTyped, ReplicaFields DEF Page
<1>3. /\ Len(d.log) <= page.last_event_id
      /\ page.last_event_id # 0 => page.last_event_nonce = TheFounder
  BY <1>1 DEF PageSteady
<1>4. Len(d.log) # 0 => d.log # <<>> /\ d.log[Len(d.log)].actor = TheFounder
  <2>1. Len(d.log) # 0 => /\ Len(d.log) \in 1 .. Len(d.log) /\ Len(d.log) \in 1 .. Len(leaders)
                          /\ d.log # <<>>
    BY <1>1, <1>2 DEF Log!Begins
  <2> HIDE DEF d, leaders
  <2>2. Len(d.log) # 0 => d.log[Len(d.log)] = leaders[Len(d.log)]
    BY <1>1, <2>1 DEF Log!Begins
  <2> QED
    BY <1>1, <2>1, <2>2 DEF FirstTermEvent
<1> HIDE DEF d, page
<1>5. ~Diverges(d, page)
  BY <1>2, <1>3, <1>4 DEF Diverges, LastEventId, LastEventNonce
<1> QED
  BY <1>5 DEF d, page

(* A step keeps what every coroutine holds, that of another node too.      *)
LEMMA TaskSteadyKept ==
    ASSUME TypeInv, FounderLeads, NobodyTakesOver, SteadyInv, StepSound, DiskSteady',
           NEW n \in Node
    PROVE  TaskSteady(n)'
<1> DEFINE t == task[n]
           u == task'[n]
<1>1. TheFounder \in Node /\ TaskSteady(n)
  BY TheFounderIs DEF SteadyInv
<1>2. \A m \in Node : HasState(m) => HasState(m)'
  BY DiskGrows DEF StepSound
<1>3. CASE u = t
  <2>1. t.pc = "apply" => PageSteady(n, t.page)'
    BY <1>3, PageSteadyKept DEF StepSound
  <2>2. /\ t.caller = "renew" => n = TheFounder /\ HasState(n)'
        /\ ~t.diverged /\ t.outcome # "diverged" /\ t.pc # "snapshot"
        /\ t.pc = "joined" => FirstTerm(t.saved)
        /\ t.pc = "apply" => n # TheFounder
    BY <1>1, <1>2 DEF TaskSteady
  <2> QED
    BY <1>3, <2>1, <2>2 DEF TaskSteady
<1>4. CASE TaskStep(n)
  <2>1. u.caller = "renew" => n = TheFounder /\ HasState(n)'
    <3>1. u.caller = "renew" => t.caller = "renew" \/ Leads(n)
      BY <1>4 DEF TaskStep
    <3>2. Leads(n) => n = TheFounder /\ HasState(n)
      BY DEF Leads, SteadyInv, DiskSteady, FirstTerm
    <3> QED
      BY <1>1, <1>2, <3>1, <3>2 DEF TaskSteady
  <2>2. ~u.diverged /\ u.outcome # "diverged"
    BY <1>1, <1>4, NoDivergence DEF TaskStep, TaskSteady
  <2>3. u.pc # "snapshot"
    <3> SUFFICES ASSUME u.pc = "snapshot" PROVE FALSE
      OBVIOUS
    <3>1. t.pc = "apply" /\ PeerLeaderIsNewer(disk'[n].st, t.page)
      BY <1>4 DEF TaskStep
    <3>2. t.page.server = TheFounder /\ t.page.leader_epoch = 1
      BY <1>1, <3>1 DEF TaskSteady, PageSteady
    <3>3. FirstTerm(disk'[n].st)
      BY <3>1 DEF PeerLeaderIsNewer, DiskSteady, HasState, Held
    <3> QED
      BY <3>1, <3>2, <3>3 DEF PeerLeaderIsNewer, FirstTerm
  <2>4. u.pc = "joined" => FirstTerm(u.saved)
    <3> SUFFICES ASSUME u.pc = "joined" PROVE FirstTerm(u.saved)
      OBVIOUS
    <3>1. PICK l \in Node : HasState(l)' /\ u.saved = Held(l)'
      BY <1>4 DEF TaskStep
    <3>2. \A m \in Node : HasState(m)' => FirstTerm(Held(m)')
      BY DEF DiskSteady, FirstTerm
    <3> QED
      BY <3>1, <3>2
  <2>5. u.pc = "apply" => n # TheFounder /\ PageSteady(n, t.page)'
    <3> SUFFICES ASSUME u.pc = "apply" PROVE n # TheFounder /\ PageSteady(n, t.page)'
      OBVIOUS
    <3>1. /\ disk' = disk
          /\ \E p \in Node \ {n} :
                Leads(p) /\ u.page = EventPage(disk[p], p, LastEventId(disk[n]))
      BY <1>4 DEF TaskStep
    <3> QED
      BY <3>1, FetchedSteady
  <2> QED
    BY <2>1, <2>2, <2>3, <2>4, <2>5 DEF TaskSteady
<1> QED
  BY <1>3, <1>4 DEF StepSound

(* Every kind of step keeps the invariant.                                 *)
LEMMA SteadyInvKept ==
    ASSUME TypeInv, FounderLeads, NobodyTakesOver, SteadyInv, StepSound
    PROVE  SteadyInv'
<1>1. DiskSteady'
  BY DiskSteadyKept DEF StepSound
<1>2. \A n \in Node : TaskSteady(n)'
  BY <1>1, TaskSteadyKept
<1>3. \A n \in Node : ~broken'[n]
  BY DEF StepSound, SteadyInv, TaskSteady
<1> QED
  BY <1>1, <1>2, <1>3 DEF SteadyInv

-----------------------------------------------------------------------------
(* The event logs implement the abstract log.                              *)

(* Every step is one of the abstract log, or leaves the logs alone.        *)
LEMMA StepReplicates ==
    ASSUME TypeInv, FounderLeads, NobodyTakesOver, SteadyInv, DiskStep
    PROVE  Log!Next \/ UNCHANGED [n \in Node |-> disk[n].log]
<1> DEFINE f == TheFounder
           log == [n \in Node |-> disk[n].log]
           next == [n \in Node |-> disk'[n].log]
<1>1. f \in Node /\ f = CHOOSE n \in Founder : TRUE
  BY TheFounderIs DEF TheFounder
<1>2. next \in [Node -> Seq(Event)]
  <2>1. \A n \in Node : disk'[n].log \in Seq(GoodEvent)
    BY DiskGrows, ReplicaFields
  <2>2. \A n \in Node : disk'[n].log \in Seq(Event)
    <3>1. GoodEvent \subseteq Event
      BY DEF GoodEvent
    <3>2. Seq(GoodEvent) \subseteq Seq(Event)
      BY <3>1
    <3> QED
      BY <2>1, <3>2
  <2> QED
    BY <2>2
<1>3. CASE disk' = disk
  BY <1>3
<1>4. ASSUME NEW n \in Node, NEW r \in GoodReplica, Write(n, r), r.log # disk[n].log
      PROVE  Log!Next
  <2>1. disk' = [disk EXCEPT ![n] = r] /\ disk \in [Node -> GoodReplica]
    BY <1>4 DEF Write, TypeInv
  <2>2. disk'[n] = r /\ \A m \in Node \ {n} : disk'[m] = disk[m]
    BY <2>1
  <2>3. /\ next[n] = r.log /\ log[n] = disk[n].log
        /\ \A m \in Node \ {n} : next[m] = log[m]
        /\ log[f] = disk[f].log
        /\ disk[n].log \in Seq(GoodEvent)
    BY <1>1, <2>2, HeldTyped, ReplicaFields
  <2>4. CASE n = f
    <3>1. PICK ev \in GoodEvent : r.log = Append(disk[n].log, ev)
      BY <1>4, <2>4, WriteSteady
    <3>2. /\ Log!Begins(disk[n].log, Append(disk[n].log, ev))
          /\ Len(Append(disk[n].log, ev)) = Len(disk[n].log) + 1
      BY <2>3, BeginsFacts
    <3>3. /\ Len(next[f]) = Len(log[f]) + 1
          /\ Log!Begins(log[f], next[f])
          /\ \A m \in Node \ {f} : next[m] = log[m]
      BY <2>3, <2>4, <3>1, <3>2
    <3> HIDE DEF f, log, next
    <3>4. Log!Record
      BY <1>1, <1>2, <3>3 DEF Log!Record, log, next
    <3> QED
      BY <3>4 DEF Log!Next
  <2>5. CASE n # f
    <3>1. Log!Begins(disk[n].log, r.log) /\ Log!Begins(r.log, disk[f].log)
      BY <1>4, <2>5, WriteSteady
    <3>2. /\ n \in Node \ {f}
          /\ Log!Begins(log[n], next[n]) /\ Log!Begins(next[n], log[f])
          /\ \A m \in Node \ {n} : next[m] = log[m]
      BY <2>3, <2>5, <3>1
    <3> HIDE DEF f, log, next
    <3>3. Log!Replicate(n)
      BY <1>1, <1>2, <3>2 DEF Log!Replicate, log, next
    <3> QED
      BY <3>3 DEF Log!Next
  <2> QED
    BY <2>4, <2>5
<1>5. ASSUME NEW n \in Node, NEW r \in GoodReplica, Write(n, r), r.log = disk[n].log
      PROVE  UNCHANGED [m \in Node |-> disk[m].log]
  <2>1. disk' = [disk EXCEPT ![n] = r] /\ disk \in [Node -> GoodReplica]
    BY <1>5 DEF Write, TypeInv
  <2>2. \A m \in Node : disk'[m].log = disk[m].log
    BY <1>5, <2>1
  <2> QED
    BY <2>2
<1> QED
  BY <1>3, <1>4, <1>5 DEF DiskStep

(* The first logs are those of the abstract log.                           *)
LEMMA InitReplicates ==
    ASSUME FounderLeads, Init
    PROVE  Log!Init
<1>1. \A n \in Node : disk[n].log = <<>>
  BY DEF Init, FounderLeads
<1> QED
  BY <1>1 DEF Log!Init

(* The invariant holds as long as nobody takes over.                       *)
LEMMA SteadyAlways ==
    ASSUME FounderLeads
    PROVE  Spec /\ []NobodyTakesOver => []SteadyInv
<1>1. Init => SteadyInv
  BY InitSteady
<1>2. TypeInv /\ NobodyTakesOver /\ SteadyInv /\ [Next]_vars => SteadyInv'
  BY NextSound, SteadyInvKept
<1> QED
  BY <1>1, <1>2, TypeInvAlways, PTL DEF Spec

(* NeverBroken: as long as nobody takes the lead from the founder, no node *)
(* ever finds that its history diverged (mark_broken), whatever is lost,   *)
(* repeated or cut short, and however many nodes join.                     *)
THEOREM FounderNeverBroken ==
    ASSUME FounderLeads
    PROVE  Spec /\ []NobodyTakesOver => []NeverBroken
<1>1. SteadyInv => NeverBroken
  BY DEF SteadyInv, NeverBroken
<1> QED
  BY <1>1, SteadyAlways, PTL

(* Replicates: as long as nobody takes the lead from the founder, every    *)
(* step of the cluster is one of ReplicatedLog or leaves the logs alone,   *)
(* so that all that was proved of that module holds of the event logs.     *)
THEOREM FounderReplicates ==
    ASSUME FounderLeads
    PROVE  Spec /\ []NobodyTakesOver => Replicates
<1>1. Init => Log!Init
  BY InitReplicates
<1>2. TypeInv /\ NobodyTakesOver /\ SteadyInv /\ [Next]_vars
        => [Log!Next]_[n \in Node |-> disk[n].log]
  BY NextSound, StepReplicates DEF StepSound
<1> QED
  BY <1>1, <1>2, TypeInvAlways, SteadyAlways, PTL DEF Spec, Replicates, Log!Spec

(* A lease that cannot run out is not taken over: nobody passes the check  *)
(* of can_promote.                                                         *)
LEMMA LeaseHolds ==
    ASSUME TypeInv, FounderLeads, MaxTime < TTL, SteadyInv, NobodyTakesOver, StepSound
    PROVE  NobodyTakesOver'
<1> SUFFICES ASSUME NEW n \in Node, InFailover(task'[n]) PROVE FALSE
  BY DEF NobodyTakesOver, InFailover
<1>1. HasState(n) /\ IsExpired(Held(n), 0)
  BY DEF NobodyTakesOver, StepSound, TaskStep
<1>2. Held(n).expires_at \in Nat /\ Held(n).expires_at >= TTL
  BY <1>1, HeldTyped, GroupStateFields DEF SteadyInv, DiskSteady, FirstTerm
<1>3. clock \in 0 .. MaxTime /\ MaxTime \in Nat /\ TTL \in Nat
  BY BoundsAreNumbers DEF TypeInv
<1> QED
  BY <1>1, <1>2, <1>3 DEF IsExpired

(* So nobody does at any time.                                             *)
LEMMA LeaseAlwaysHolds ==
    ASSUME FounderLeads, MaxTime < TTL
    PROVE  Spec => []NobodyTakesOver
<1>1. Init => SteadyInv /\ NobodyTakesOver
  <2>1. Init => NobodyTakesOver
    BY IdleTyped DEF Init, NobodyTakesOver, InFailover
  <2> QED
    BY <2>1, InitSteady
<1>2. TypeInv /\ SteadyInv /\ NobodyTakesOver /\ [Next]_vars => (SteadyInv /\ NobodyTakesOver)'
  BY NextSound, SteadyInvKept, LeaseHolds
<1> QED
  BY <1>1, <1>2, TypeInvAlways, PTL DEF Spec

(* The same without the hypothesis about takeovers: a group that is        *)
(* watched for less than one lease cannot have any.                        *)
THEOREM NoExpiryReplicates ==
    ASSUME FounderLeads, MaxTime < TTL
    PROVE  Spec => Replicates /\ []NeverBroken
BY LeaseAlwaysHolds, FounderReplicates, FounderNeverBroken, PTL

-----------------------------------------------------------------------------
(* What a log says about the membership.                                   *)

\* Where a log has an event that carries a group state.
Changes(log) == {i \in 1 .. Len(log) : Grouped(log[i])}

\* Every change of the log is a diff to the one before it, except the first,
\* which founded the group.
Chained(log) ==
    \A i \in Changes(log) :
        \/ log[i].type = "state" /\ \A j \in Changes(log) : i <= j
        \/ \E p \in Changes(log) :
              /\ p < i
              /\ \A q \in Changes(log) : q < i => q <= p
              /\ Derives(log[p].st, log[i])

\* Later changes have higher versions.
Rising(log) ==
    \A i, j \in Changes(log) : i < j => log[i].st.version < log[j].st.version

\* s holds the membership that some change of the log led to, and none of the
\* first k events is a later change than that.
Reflects(s, k, log) ==
    \E j \in Changes(log) :
        /\ Membership(s) = Membership(log[j].st)
        /\ \A i \in Changes(log) : i <= k => i <= j

\* The storage of a node holds what the changes it has replayed led to, or a
\* later one that was handed to it with a join.
Tracks(r, log) ==
    IF r.st # NoState THEN Reflects(r.st, Len(r.log), log)
    ELSE \A i \in Changes(log) : i > Len(r.log)

\* The inductive invariant behind CaughtUpAgrees.
FaithfulInv ==
    LET leaders == disk[TheFounder].log
    IN  /\ Chained(leaders) /\ Rising(leaders)
        /\ \A n \in Node : Tracks(disk[n], leaders)
        /\ \A n \in Node : task[n].pc = "joined" => Reflects(task[n].saved, 0, leaders)

(* The changes of a log of typed events.                                   *)
LEMMA ChangeTyped ==
    ASSUME NEW log \in Seq(GoodEvent), NEW i \in Changes(log)
    PROVE  /\ i \in 1 .. Len(log) /\ i \in Nat /\ Len(log) \in Nat
           /\ log[i] \in GoodEvent /\ Grouped(log[i])
           /\ log[i].st \in GroupState /\ log[i].st.version \in Nat
<1>1. /\ i \in 1 .. Len(log) /\ i \in Nat /\ Len(log) \in Nat
      /\ log[i] \in GoodEvent /\ Grouped(log[i])
  BY DEF Changes
<1>2. log[i].st \in GroupState
  BY <1>1 DEF GoodEvent
<1> QED
  BY <1>1, <1>2, GroupStateFields

(* The order of the changes is that of their versions.                     *)
LEMMA VersionOrder ==
    ASSUME NEW log \in Seq(GoodEvent), Rising(log), NEW i \in Changes(log), NEW j \in Changes(log),
           log[i].st.version <= log[j].st.version
    PROVE  i <= j
<1> SUFFICES ASSUME ~(i <= j) PROVE FALSE
  OBVIOUS
<1>1. /\ i \in Nat /\ j \in Nat /\ log[i].st.version \in Nat /\ log[j].st.version \in Nat
  BY ChangeTyped
<1>2. log[j].st.version < log[i].st.version
  BY <1>1 DEF Rising
<1> QED
  BY <1>1, <1>2

(* A state that leads on from one the log accounts for, and that stands in *)
(* the log itself, accounts for as much.                                   *)
LEMMA AdvancedReflects ==
    ASSUME NEW log \in Seq(GoodEvent), Rising(log), NEW k \in Nat,
           NEW s \in GroupState, NEW t \in GroupState, Advances(s, t),
           Reflects(s, k, log), Reflects(t, 0, log)
    PROVE  Reflects(t, k, log)
<1>1. PICK i \in Changes(log) :
         /\ Membership(s) = Membership(log[i].st)
         /\ \A h \in Changes(log) : h <= k => h <= i
  BY DEF Reflects
<1>2. PICK j \in Changes(log) : Membership(t) = Membership(log[j].st)
  BY DEF Reflects
<1>3. s.version = log[i].st.version /\ t.version = log[j].st.version
  BY <1>1, <1>2 DEF Membership
<1>4. s.version \in Nat /\ t.version \in Nat /\ s.version <= t.version
  BY GroupStateFields DEF Advances, RankBelow
<1>5. i <= j
  BY <1>3, <1>4, VersionOrder
<1>6. \A h \in Changes(log) : h <= k => h <= j
  BY <1>1, <1>5, ChangeTyped
<1> QED
  BY <1>2, <1>6 DEF Reflects

(* A state that holds the first k events holds fewer of them as well.      *)
LEMMA ReflectsLess ==
    ASSUME NEW log \in Seq(GoodEvent), NEW k \in Nat, NEW m \in Nat, m <= k,
           NEW s, Reflects(s, k, log)
    PROVE  Reflects(s, m, log)
<1>1. \A i \in Changes(log) : i <= m => i <= k
  BY ChangeTyped
<1> QED
  BY <1>1 DEF Reflects

(* A diff makes of equal memberships equal ones.                           *)
LEMMA ReplaySameMembership ==
    ASSUME NEW s \in GroupState, NEW t \in GroupState, NEW ev, ev.type \notin SnapshotTypes,
           Membership(s) = Membership(t)
    PROVE  Membership(ReplayedState(s, ev)) = Membership(ReplayedState(t, ev))
<1>1. /\ s.control_planes = t.control_planes /\ s.runtimes = t.runtimes
      /\ s.endpoints = t.endpoints
  BY DEF Membership
<1> DEFINE Base(c) == CASE ev.type = "joined" -> WithNode(c, ev.node)
                        [] ev.type = "revoked" -> WithoutNode(c, ev.node)
                        [] OTHER -> c
<1>2. /\ Base(s).control_planes = Base(t).control_planes
      /\ Base(s).runtimes = Base(t).runtimes
      /\ Base(s).endpoints = Base(t).endpoints
  BY <1>1 DEF WithNode, WithoutNode, GroupState
<1>3. ASSUME NEW c \in GroupState
      PROVE  Membership(ReplayedState(c, ev)) =
               <<ev.st.version, Base(c).control_planes, Base(c).runtimes,
                 IF ev.type = "revoked" THEN Base(c).endpoints ELSE ev.st.endpoints>>
  BY ReplayedMembers DEF Membership
<1> HIDE DEF Base
<1> QED
  BY <1>2, <1>3

(* A diff replayed onto what it led to changes nothing: adding a node that *)
(* is there, or removing one that is not.                                  *)
LEMMA ReplayTwice ==
    ASSUME NEW s \in GroupState, NEW t \in GroupState, NEW ev, ev.type \notin SnapshotTypes,
           Membership(s) = Membership(ReplayedState(t, ev))
    PROVE  Membership(ReplayedState(s, ev)) = Membership(s)
<1> DEFINE Base(c) == CASE ev.type = "joined" -> WithNode(c, ev.node)
                        [] ev.type = "revoked" -> WithoutNode(c, ev.node)
                        [] OTHER -> c
<1>3. ASSUME NEW c \in GroupState
      PROVE  Membership(ReplayedState(c, ev)) =
               <<ev.st.version, Base(c).control_planes, Base(c).runtimes,
                 IF ev.type = "revoked" THEN Base(c).endpoints ELSE ev.st.endpoints>>
  BY ReplayedMembers DEF Membership
<1>4. /\ s.version = ev.st.version
      /\ s.control_planes = Base(t).control_planes
      /\ s.runtimes = Base(t).runtimes
      /\ s.endpoints = IF ev.type = "revoked" THEN Base(t).endpoints ELSE ev.st.endpoints
  BY <1>3 DEF Membership
<1>5. /\ Base(s).control_planes = s.control_planes
      /\ Base(s).runtimes = s.runtimes
      /\ ev.type = "revoked" => Base(s).endpoints = s.endpoints
  <2>1. CASE ev.type = "joined"
    <3>1. /\ \A c \in GroupState :
                /\ WithNode(c, ev.node).control_planes = Drop(c.control_planes, ev.node)
                      \cup (IF ev.node \in Node THEN {Member(ev.node)} ELSE {})
                /\ WithNode(c, ev.node).runtimes = Drop(c.runtimes, ev.node)
                      \cup (IF ev.node \in Runtime THEN {Member(ev.node)} ELSE {})
      BY DEF WithNode, GroupState
    <3>2. Base(s) = WithNode(s, ev.node) /\ Base(t) = WithNode(t, ev.node)
      BY <2>1
    <3> HIDE DEF Base
    <3> DEFINE X == IF ev.node \in Node THEN {Member(ev.node)} ELSE {}
               Y == IF ev.node \in Runtime THEN {Member(ev.node)} ELSE {}
    <3>3. (\A m \in X : m.node_id = ev.node) /\ (\A m \in Y : m.node_id = ev.node)
      BY DEF Member
    <3>4. /\ s.control_planes = Drop(t.control_planes, ev.node) \cup X
          /\ s.runtimes = Drop(t.runtimes, ev.node) \cup Y
          /\ Base(s).control_planes = Drop(s.control_planes, ev.node) \cup X
          /\ Base(s).runtimes = Drop(s.runtimes, ev.node) \cup Y
      BY <1>4, <3>1, <3>2
    <3> HIDE DEF X, Y
    <3>5. Drop(s.control_planes, ev.node) = Drop(t.control_planes, ev.node)
      BY <3>3, <3>4 DEF Drop
    <3>6. Drop(s.runtimes, ev.node) = Drop(t.runtimes, ev.node)
      BY <3>3, <3>4 DEF Drop
    <3> QED
      BY <2>1, <3>4, <3>5, <3>6
  <2>2. CASE ev.type = "revoked"
    <3>1. /\ \A c \in GroupState :
                /\ WithoutNode(c, ev.node).control_planes = Drop(c.control_planes, ev.node)
                /\ WithoutNode(c, ev.node).runtimes = Drop(c.runtimes, ev.node)
                /\ WithoutNode(c, ev.node).endpoints = c.endpoints \ {ev.node}
      BY DEF WithoutNode, GroupState
    <3>2. Base(s) = WithoutNode(s, ev.node) /\ Base(t) = WithoutNode(t, ev.node)
      BY <2>2
    <3> HIDE DEF Base
    <3>3. /\ s.control_planes = Drop(t.control_planes, ev.node)
          /\ s.runtimes = Drop(t.runtimes, ev.node)
          /\ s.endpoints = t.endpoints \ {ev.node}
      BY <1>4, <2>2, <3>1, <3>2
    <3>4. /\ Drop(s.control_planes, ev.node) = s.control_planes
          /\ Drop(s.runtimes, ev.node) = s.runtimes
      BY <3>3 DEF Drop
    <3>5. s.endpoints \ {ev.node} = s.endpoints
      BY <3>3
    <3> QED
      BY <3>1, <3>2, <3>4, <3>5
  <2>3. CASE ev.type \notin {"joined", "revoked"}
    BY <2>3
  <2> QED
    BY <2>1, <2>2, <2>3
<1> HIDE DEF Base
<1> QED
  BY <1>3, <1>4, <1>5 DEF Membership

-----------------------------------------------------------------------------
(* Replaying a page.                                                       *)

(* apply_remote_event, the next event of the leader's log: whatever later  *)
(* change the replica knew already, it knows this one now, even if the     *)
(* write of the log entry is cut off.                                      *)
LEMMA EventReflected ==
    ASSUME NEW log \in Seq(GoodEvent), Chained(log), Rising(log),
           \A i \in 1 .. Len(log) : FirstTermEvent(log[i]),
           NEW q \in GoodReplica, q.st # NoState, FirstTerm(q.st),
           NEW m \in 1 .. Len(log), Reflects(q.st, m - 1, log),
           NEW trusted
    PROVE  LET e == EffectOf(q, log[m], trusted)
           IN  /\ e \in GoodReplica /\ e.log = q.log
               /\ e.st # NoState /\ FirstTerm(e.st)
               /\ ~Raises(q, log[m], trusted) => Reflects(e.st, m, log)
               /\ Reflects(e.st, m - 1, log)
<1> DEFINE ev == log[m]
           e == EffectOf(q, ev, trusted)
           s == ReplayedState(q.st, ev)
<1>1. /\ ev \in GoodEvent /\ m \in Nat /\ m - 1 \in Nat /\ Len(log) \in Nat
      /\ q.st \in GroupState /\ q.st \in GroupState \cup {NoState}
      /\ FirstTermEvent(ev)
  BY ReplicaFields
<1>2. /\ e \in GoodReplica /\ e.log = q.log
      /\ e.st # NoState /\ FirstTerm(e.st)
  <2>1. /\ e \in GoodReplica /\ e.log = q.log
        /\ \/ e.st = q.st
           \/ /\ Grouped(ev) /\ e.st \in GroupState
              /\ \/ e.st = ev.st
                 \/ /\ e.st.leader_node_id = q.st.leader_node_id
                    /\ e.st.leader_epoch = q.st.leader_epoch
              /\ e.st.expires_at = ev.st.expires_at
    BY <1>1, EffectTyped
  <2> HIDE DEF e, ev
  <2> QED
    BY <1>1, <2>1, GroupStateFields DEF FirstTermEvent, FirstTerm
<1>3. PICK j \in Changes(log) :
         /\ Membership(q.st) = Membership(log[j].st)
         /\ \A i \in Changes(log) : i <= m - 1 => i <= j
  BY DEF Reflects
<1>4. /\ j \in Nat /\ log[j].st.version \in Nat /\ q.st.version = log[j].st.version
      /\ \A i \in Changes(log) : i \in Nat
  BY <1>3, ChangeTyped DEF Membership
<1>5. CASE ~Grouped(ev)
  <2>1. e.st = q.st
    BY <1>1, <1>5, EffectTyped
  <2>2. m \notin Changes(log)
    BY <1>5 DEF Changes
  <2>3. \A i \in Changes(log) : i <= m => i <= j
    BY <1>1, <1>3, <1>4, <2>2
  <2>4. Reflects(q.st, m, log)
    BY <1>3, <2>3 DEF Reflects
  <2> QED
    BY <1>1, <1>2, <2>1, <2>4
<1>6. CASE Grouped(ev) /\ ~Taken(q, ev, trusted)
  <2>1. e.st = q.st
    BY <1>6 DEF EffectOf, Grouped, GroupEventTypes
  <2>2. ASSUME ~Raises(q, ev, trusted) PROVE Reflects(q.st, m, log)
    <3>1. Regressed(q.st, s)
      BY <1>6, <2>2 DEF Raises, Skipped, Grouped
    <3>2. /\ s \in GroupState /\ m \in Changes(log)
          /\ \/ s = ev.st
             \/ s.leader_node_id = q.st.leader_node_id /\ s.leader_epoch = q.st.leader_epoch
      BY <1>1, <1>6, ReplayedTyped DEF Changes
    <3>3. s.version = ev.st.version
      BY <1>1, ReplayedMembers DEF ReplayedState
    <3>4. s.leader_node_id = q.st.leader_node_id /\ s.leader_epoch = q.st.leader_epoch
      BY <1>1, <1>6, <3>2 DEF FirstTermEvent, FirstTerm
    <3>5. s.version \in Nat /\ q.st.version \in Nat /\ q.st.leader_epoch \in Nat
      BY <1>1, <3>2, GroupStateFields
    <3> HIDE DEF s
    <3>6. s.version <= q.st.version
      BY <3>1, <3>4, <3>5 DEF Regressed, ConflictingClaim
    <3>7. m <= j
      BY <1>3, <1>4, <3>2, <3>3, <3>6, VersionOrder
    <3>8. ASSUME NEW i \in Changes(log), i <= m PROVE i <= j
      <4>1. i \in Nat /\ m \in Nat /\ j \in Nat
        BY <1>1, <1>4
      <4> QED
        BY <3>7, <3>8, <4>1
    <3> QED
      BY <1>3, <3>8 DEF Reflects
  <2> QED
    BY <1>2, <2>1, <2>2
<1>7. CASE Grouped(ev) /\ Taken(q, ev, trusted)
  <2>1. /\ e.st = s /\ s \in GroupState /\ m \in Changes(log)
        /\ ev.st \in GroupState
    <3>1. e = [q EXCEPT !.st = s]
      BY <1>7 DEF EffectOf, Grouped
    <3>2. s \in GroupState /\ m \in Changes(log) /\ ev.st \in GroupState
      BY <1>1, <1>7, ReplayedTyped DEF Changes, GoodEvent
    <3> HIDE DEF e, s
    <3> QED
      BY <3>1, <3>2 DEF GoodReplica
  <2>2. Advances(q.st, s)
    BY <1>1, <1>7, <2>1, AcceptsAdvances DEF Taken
  <2>3. Membership(s) = Membership(ev.st)
    <3>1. CASE ev.type = "state"
      BY <3>1 DEF ReplayedState, SnapshotTypes
    <3>2. CASE \E p \in Changes(log) :
                  /\ p < m
                  /\ \A h \in Changes(log) : h < m => h <= p
                  /\ Derives(log[p].st, ev)
      <4>1. PICK p \in Changes(log) :
               /\ p < m
               /\ \A h \in Changes(log) : h < m => h <= p
               /\ Derives(log[p].st, ev)
        BY <3>2
      <4>2. /\ ev.type \notin SnapshotTypes
            /\ Membership(ev.st) = Membership(ReplayedState(log[p].st, ev))
            /\ log[p].st \in GroupState /\ log[j].st \in GroupState
            /\ p \in Nat /\ p <= m - 1
        BY <1>1, <1>3, <4>1, ChangeTyped DEF Derives
      <4>3. s.version = ev.st.version
        BY <1>1, <4>2, ReplayedMembers
      <4>4. s.version \in Nat /\ q.st.version \in Nat /\ q.st.version <= s.version
        BY <1>1, <2>1, <2>2, GroupStateFields DEF Advances, RankBelow
      <4>5. j <= m
        BY <1>3, <1>4, <2>1, <4>3, <4>4, VersionOrder
      <4>6. j = p \/ j = m
        BY <1>1, <1>3, <1>4, <4>1, <4>2, <4>5
      <4>7. CASE j = p
        BY <1>1, <1>3, <4>2, <4>7, ReplaySameMembership
      <4>8. CASE j = m
        <5>1. Membership(q.st) = Membership(ReplayedState(log[p].st, ev))
          BY <1>3, <4>2, <4>8
        <5>2. Membership(s) = Membership(q.st)
          BY <1>1, <4>2, <5>1, ReplayTwice
        <5> QED
          BY <1>3, <4>8, <5>2
      <4> QED
        BY <4>6, <4>7, <4>8
    <3> QED
      BY <2>1, <3>1, <3>2 DEF Chained
  <2>4. Reflects(s, m, log)
    BY <2>1, <2>3 DEF Reflects
  <2>5. Reflects(s, m - 1, log)
    BY <1>1, <2>4, ReflectsLess
  <2> QED
    BY <1>2, <2>1, <2>4, <2>5
<1> QED
  BY <1>5, <1>6, <1>7

\* A replica that accounts for as much of a log as it has replayed.
Faithful(r, log) ==
    r.st # NoState /\ FirstTerm(r.st) /\ Reflects(r.st, Len(r.log), log)

(* One step of apply_remote_events keeps a replica faithful to the log.    *)
LEMMA ItemReflected ==
    ASSUME NEW log \in Seq(GoodEvent), Chained(log), Rising(log),
           \A i \in 1 .. Len(log) : FirstTermEvent(log[i]),
           NEW page \in Page, NEW k \in 1 .. Len(page.items),
           page.after + k <= Len(log), page.items[k] = log[page.after + k],
           NEW trusted, NEW p \in [replica : GoodReplica, ok : BOOLEAN],
           Faithful(p.replica, log),
           p.ok => Len(p.replica.log) >= page.after + k - 1
    PROVE  /\ Faithful(ApplyItem(p, page, k, trusted).replica, log)
           /\ p.ok /\ page.after + k > LastEventId(p.replica)
                => LET e == EffectOf(p.replica, page.items[k], trusted)
                   IN  Faithful(e, log)
<1> DEFINE q == p.replica
           ev == page.items[k]
           m == page.after + k
           e == EffectOf(q, ev, trusted)
           p2 == ApplyItem(p, page, k, trusted)
<1>1. /\ page.after \in Nat /\ k \in Nat /\ Len(log) \in Nat /\ m \in Nat
      /\ m \in 1 .. Len(log) /\ ev = log[m] /\ ev \in GoodEvent
      /\ q \in GoodReplica /\ q.log \in Seq(GoodEvent) /\ Len(q.log) \in Nat
      /\ p = [replica |-> q, ok |-> p.ok]
  <2>1. page.after \in Nat /\ k \in Nat /\ Len(log) \in Nat /\ p.replica \in GoodReplica
    BY DEF Page
  <2>2. m \in 1 .. Len(log) /\ ev = log[m]
    BY <2>1
  <2> QED
    BY <2>1, <2>2, ReplicaFields
<1>2. CASE ~(p.ok /\ m > Len(q.log))
  <2>1. p2 = p
    BY <1>1, <1>2 DEF ApplyItem, LastEventId
  <2> QED
    BY <1>2, <2>1 DEF LastEventId
<1>3. CASE p.ok /\ m > Len(q.log)
  <2>1. m = Len(q.log) + 1 /\ m - 1 = Len(q.log)
    <3> DEFINE a == page.after
               c == Len(q.log)
    <3>1. c >= a + k - 1 /\ a \in Nat /\ k \in Nat /\ c \in Nat
      BY <1>1, <1>3
    <3>2. a + k > c
      BY <1>3
    <3> HIDE DEF a, c
    <3>3. a + k = c + 1 /\ (a + k) - 1 = c
      BY <3>1, <3>2
    <3> QED
      BY <3>3 DEF a, c
  <2>2. q.st # NoState /\ FirstTerm(q.st) /\ Reflects(q.st, m - 1, log)
    BY <2>1 DEF Faithful
  <2> HIDE DEF m, q
  <2>3. LET x == EffectOf(q, log[m], trusted)
        IN  /\ x \in GoodReplica /\ x.log = q.log
            /\ x.st # NoState /\ FirstTerm(x.st)
            /\ ~Raises(q, log[m], trusted) => Reflects(x.st, m, log)
            /\ Reflects(x.st, m - 1, log)
    BY <1>1, <2>2, EventReflected, ZenonT(30)
  <2>4. /\ e \in GoodReplica /\ e.log = q.log
        /\ e.st # NoState /\ FirstTerm(e.st)
        /\ ~Raises(q, ev, trusted) => Reflects(e.st, m, log)
        /\ Reflects(e.st, m - 1, log)
    BY <1>1, <2>3
  <2>5. Faithful(e, log)
    BY <2>1, <2>4 DEF Faithful
  <2>6. CASE Raises(q, ev, trusted)
    <3>1. p2 = [p EXCEPT !.ok = FALSE]
      BY <1>1, <1>3, <2>6 DEF ApplyItem, LastEventId, m, q
    <3>2. p2.replica = q
      BY <1>1, <3>1
    <3> QED
      BY <2>5, <3>2 DEF q
  <2>7. CASE ~Raises(q, ev, trusted)
    <3> DEFINE a == ApplyEvent(q, ev, trusted)
    <3>1. ~(~p.ok \/ page.after + k <= LastEventId(q))
      BY <1>1, <1>3 DEF LastEventId, m
    <3>2. p2 = [p EXCEPT !.replica = a]
      <4>1. page.after + k = LastEventId(q) + 1
        BY <2>1 DEF LastEventId, m
      <4> QED
        BY <2>7, <3>1, <4>1, ZenonT(30) DEF ApplyItem, q
    <3>3. p2.replica = a
      BY <1>1, <3>2
    <3> HIDE DEF e
    <3>4. a = [e EXCEPT !.log = Append(@, ev)]
      BY DEF ApplyEvent, e
    <3>5. a.log = Append(q.log, ev) /\ a.st = e.st
      BY <1>1, <2>4, <3>4, LogAppended
    <3> HIDE DEF a
    <3>6. Len(a.log) = m
      BY <1>1, <2>1, <3>5
    <3>7. Faithful(a, log)
      BY <2>4, <2>7, <3>5, <3>6 DEF Faithful
    <3> QED
      BY <2>5, <3>3, <3>7 DEF e, q
  <2> QED
    BY <2>6, <2>7
<1> QED
  BY <1>2, <1>3

(* apply_remote_events keeps it so, however many events of the page are    *)
(* applied.                                                                *)
LEMMA ItemsReflected ==
    ASSUME NEW log \in Seq(GoodEvent), Chained(log), Rising(log),
           \A i \in 1 .. Len(log) : FirstTermEvent(log[i]),
           NEW page \in Page,
           \A i \in 1 .. Len(page.items) :
               page.after + i <= Len(log) /\ page.items[i] = log[page.after + i],
           NEW d \in GoodReplica, page.after <= Len(d.log), Faithful(d, log),
           NEW k \in 0 .. Len(page.items), NEW trusted
    PROVE  LET res == ApplyItems(d, page, k, trusted)
           IN  /\ res \in [replica : GoodReplica, ok : BOOLEAN]
               /\ Faithful(res.replica, log)
               /\ res.ok => Len(res.replica.log) >= page.after + k
<1> DEFINE Good == [i \in 0 .. k |->
             {p \in [replica : GoodReplica, ok : BOOLEAN] :
                /\ Replayed(d, page, i, p.replica)
                /\ Faithful(p.replica, log)
                /\ p.ok => Len(p.replica.log) >= page.after + i}]
           start == [replica |-> d, ok |-> TRUE]
<1>0. k \in Nat /\ Len(page.items) \in Nat /\ page.after \in Nat /\ Len(d.log) \in Nat
  BY ReplicaFields DEF Page
<1>1. start \in Good[0]
  <2>1. d.st # NoState => d.st \in GroupState /\ Advances(d.st, d.st)
    BY AdvancesReflexive, ReplicaFields
  <2>2. d.st # NoState => Source(d.st, d, page, 0) /\ SameTerm(d.st, d.st)
    BY <2>1 DEF Source, SameTerm
  <2>3. Replayed(d, page, 0, d)
    BY <1>0, <2>1, <2>2 DEF Replayed
  <2> QED
    BY <1>0, <2>3
<1>2. ASSUME NEW i \in 1 .. k, NEW p \in Good[i - 1]
      PROVE  ApplyItem(p, page, i, trusted) \in Good[i]
  <2>1. /\ i \in 1 .. Len(page.items) /\ i - 1 \in 0 .. k /\ i \in 0 .. k
        /\ page.after + (i - 1) = page.after + i - 1
    BY <1>0
  <2>2. /\ p \in [replica : GoodReplica, ok : BOOLEAN]
        /\ Replayed(d, page, i - 1, p.replica)
        /\ Faithful(p.replica, log)
        /\ p.ok => Len(p.replica.log) >= page.after + i - 1
    BY <1>2, <2>1
  <2>3. page.after + i <= Len(log) /\ page.items[i] = log[page.after + i]
    BY <2>1
  <2>4. Faithful(ApplyItem(p, page, i, trusted).replica, log)
    BY <2>1, <2>2, <2>3, ItemReflected
  <2>5. LET p2 == ApplyItem(p, page, i, trusted)
        IN  /\ p2 \in [replica : GoodReplica, ok : BOOLEAN]
            /\ Replayed(d, page, i, p2.replica)
            /\ p2.ok => Len(p2.replica.log) >= page.after + i
    BY <2>1, <2>2, ApplyItemReplayed
  <2> QED
    BY <2>1, <2>4, <2>5
<1> HIDE DEF Good
<1>3. ApplyItems(d, page, k, trusted) \in Good[k]
  BY <1>0, <1>1, <1>2, ReplayInduction
<1> QED
  BY <1>0, <1>3 DEF Good

-----------------------------------------------------------------------------
(* Recording an event.                                                     *)

(* The changes of a log with one more event.                               *)
LEMMA AppendChanges ==
    ASSUME NEW log \in Seq(GoodEvent), NEW ev \in GoodEvent
    PROVE  LET longer == Append(log, ev)
           IN  /\ longer \in Seq(GoodEvent) /\ Len(longer) = Len(log) + 1
               /\ \A i \in Changes(log) : i \in Changes(longer) /\ longer[i] = log[i] /\ i <= Len(log)
               /\ \A i \in Changes(longer) :
                     i \in Changes(log) \/ (i = Len(log) + 1 /\ Grouped(ev) /\ longer[i] = ev)
<1> DEFINE longer == Append(log, ev)
<1>1. /\ longer \in Seq(GoodEvent) /\ Len(longer) = Len(log) + 1 /\ Len(log) \in Nat
      /\ \A i \in 1 .. Len(log) : longer[i] = log[i]
      /\ longer[Len(log) + 1] = ev
  OBVIOUS
<1> HIDE DEF longer
<1>2. \A i \in Changes(log) : i \in Changes(longer) /\ longer[i] = log[i] /\ i <= Len(log)
  BY <1>1 DEF Changes
<1>3. ASSUME NEW i \in Changes(longer), i \notin Changes(log)
      PROVE  i = Len(log) + 1 /\ Grouped(ev) /\ longer[i] = ev
  <2>1. i \in 1 .. Len(log) + 1 /\ Grouped(longer[i])
    BY <1>1, <1>3 DEF Changes
  <2>2. i \notin 1 .. Len(log)
    BY <1>1, <1>3, <2>1 DEF Changes
  <2>3. i = Len(log) + 1
    BY <1>1, <2>1, <2>2
  <2> QED
    BY <1>1, <2>1, <2>3
<1> QED
  BY <1>1, <1>2, <1>3 DEF longer

(* What the log accounted for it accounts for with one more event.         *)
LEMMA ReflectsAppend ==
    ASSUME NEW log \in Seq(GoodEvent), NEW ev \in GoodEvent, NEW k \in Nat, k <= Len(log),
           NEW s, Reflects(s, k, log)
    PROVE  /\ Reflects(s, k, Append(log, ev))
           /\ ~Grouped(ev) => Reflects(s, k + 1, Append(log, ev)) \/ k # Len(log)
<1> DEFINE longer == Append(log, ev)
<1>1. /\ Len(log) \in Nat
      /\ \A i \in Changes(log) : i \in Changes(longer) /\ longer[i] = log[i] /\ i <= Len(log) /\ i \in Nat
      /\ \A i \in Changes(longer) :
            i \in Changes(log) \/ (i = Len(log) + 1 /\ Grouped(ev) /\ longer[i] = ev)
  BY AppendChanges, ChangeTyped
<1>2. PICK j \in Changes(log) :
         /\ Membership(s) = Membership(log[j].st)
         /\ \A i \in Changes(log) : i <= k => i <= j
  BY DEF Reflects
<1> HIDE DEF longer
<1>3. \A i \in Changes(longer) : i <= k => i <= j
  BY <1>1, <1>2
<1>4. ~Grouped(ev) /\ k = Len(log) => \A i \in Changes(longer) : i <= k + 1 => i <= j
  BY <1>1, <1>2
<1>5. j \in Changes(longer) /\ Membership(s) = Membership(longer[j].st)
  BY <1>1, <1>2
<1> QED
  BY <1>3, <1>4, <1>5 DEF Reflects, longer

(* A diff to the latest change, or an event that is no change, keeps the   *)
(* log a chain.                                                            *)
LEMMA ChainedAppend ==
    ASSUME NEW log \in Seq(GoodEvent), Chained(log), Rising(log), NEW ev \in GoodEvent,
           \/ ~Grouped(ev)
           \/ Changes(log) = {} /\ ev.type = "state"
           \/ \E s \in GroupState : Reflects(s, Len(log), log) /\ Derives(s, ev)
    PROVE  Chained(Append(log, ev)) /\ Rising(Append(log, ev))
<1> DEFINE longer == Append(log, ev)
           last == Len(log) + 1
<1>1. /\ Len(log) \in Nat /\ last \in Nat /\ longer \in Seq(GoodEvent)
      /\ \A i \in Changes(log) :
            /\ i \in Changes(longer) /\ longer[i] = log[i]
            /\ i <= Len(log) /\ i < last /\ i \in Nat
            /\ log[i].st \in GroupState /\ log[i].st.version \in Nat
      /\ \A i \in Changes(longer) :
            i \in Changes(log) \/ (i = last /\ Grouped(ev) /\ longer[i] = ev)
  <2>1. \A i \in Changes(log) : i \in Nat /\ log[i].st \in GroupState /\ log[i].st.version \in Nat
    BY ChangeTyped
  <2>2. Len(log) \in Nat /\ last \in Nat /\ last = Len(log) + 1
    OBVIOUS
  <2>3. /\ longer \in Seq(GoodEvent)
        /\ \A i \in Changes(log) : i \in Changes(longer) /\ longer[i] = log[i] /\ i <= Len(log)
        /\ \A i \in Changes(longer) :
              i \in Changes(log) \/ (i = Len(log) + 1 /\ Grouped(ev) /\ longer[i] = ev)
    BY AppendChanges
  <2> HIDE DEF longer, last
  <2> QED
    BY <2>1, <2>2, <2>3
<1>2. \/ ~Grouped(ev)
      \/ Changes(log) = {} /\ ev.type = "state"
      \/ \E p \in Changes(log) :
            /\ \A q \in Changes(log) : q <= p
            /\ Derives(log[p].st, ev)
  <2>1. ASSUME NEW s \in GroupState, Reflects(s, Len(log), log), Derives(s, ev)
        PROVE  \E p \in Changes(log) :
                  (\A q \in Changes(log) : q <= p) /\ Derives(log[p].st, ev)
    <3>1. PICK p \in Changes(log) :
             /\ Membership(s) = Membership(log[p].st)
             /\ \A i \in Changes(log) : i <= Len(log) => i <= p
      BY <2>1 DEF Reflects
    <3>2. \A q \in Changes(log) : q <= p
      BY <1>1, <3>1
    <3>3. log[p].st \in GroupState /\ s.version = log[p].st.version /\ ev.type \notin SnapshotTypes
      BY <1>1, <2>1, <3>1 DEF Membership, Derives
    <3>4. Membership(ReplayedState(s, ev)) = Membership(ReplayedState(log[p].st, ev))
      BY <3>1, <3>3, ReplaySameMembership
    <3>5. Derives(log[p].st, ev)
      BY <2>1, <3>3, <3>4 DEF Derives
    <3> QED
      BY <3>2, <3>5
  <2> QED
    BY <2>1
<1> HIDE DEF longer, last
<1>3. ASSUME NEW i \in Changes(log)
      PROVE  \/ longer[i].type = "state" /\ \A j \in Changes(longer) : i <= j
             \/ \E p \in Changes(longer) :
                   /\ p < i
                   /\ \A q \in Changes(longer) : q < i => q <= p
                   /\ Derives(longer[p].st, longer[i])
  <2>1. CASE log[i].type = "state" /\ \A j \in Changes(log) : i <= j
    <3>1. \A j \in Changes(longer) : i <= j
      BY <1>1, <2>1
    <3> QED
      BY <1>1, <2>1, <3>1
  <2>2. ASSUME NEW p \in Changes(log), p < i,
               \A q \in Changes(log) : q < i => q <= p,
               Derives(log[p].st, log[i])
        PROVE  \E o \in Changes(longer) :
                  /\ o < i
                  /\ \A q \in Changes(longer) : q < i => q <= o
                  /\ Derives(longer[o].st, longer[i])
    <3>1. \A q \in Changes(longer) : q < i => q <= p
      BY <1>1, <2>2
    <3>2. p \in Changes(longer) /\ Derives(longer[p].st, longer[i])
      BY <1>1, <2>2
    <3> QED
      BY <2>2, <3>1, <3>2
  <2> QED
    BY <2>1, <2>2 DEF Chained
<1>4. ASSUME last \in Changes(longer), Grouped(ev), longer[last] = ev
      PROVE  \/ longer[last].type = "state" /\ \A j \in Changes(longer) : last <= j
             \/ \E p \in Changes(longer) :
                   /\ p < last
                   /\ \A q \in Changes(longer) : q < last => q <= p
                   /\ Derives(longer[p].st, longer[last])
  <2>1. CASE Changes(log) = {} /\ ev.type = "state"
    BY <1>1, <1>4, <2>1
  <2>2. ASSUME NEW p \in Changes(log), \A q \in Changes(log) : q <= p, Derives(log[p].st, ev)
        PROVE  \E o \in Changes(longer) :
                  /\ o < last
                  /\ \A q \in Changes(longer) : q < last => q <= o
                  /\ Derives(longer[o].st, longer[last])
    <3>1. \A q \in Changes(longer) : q < last => q <= p
      BY <1>1, <2>2
    <3>2. p \in Changes(longer) /\ p < last /\ Derives(longer[p].st, longer[last])
      BY <1>1, <1>4, <2>2
    <3> QED
      BY <3>1, <3>2
  <2> QED
    BY <1>2, <1>4, <2>1, <2>2
<1>5. Chained(longer)
  <2> SUFFICES ASSUME NEW i \in Changes(longer)
               PROVE  \/ longer[i].type = "state" /\ \A j \in Changes(longer) : i <= j
                      \/ \E p \in Changes(longer) :
                            /\ p < i
                            /\ \A q \in Changes(longer) : q < i => q <= p
                            /\ Derives(longer[p].st, longer[i])
    BY DEF Chained
  <2> QED
    BY <1>1, <1>3, <1>4
<1>6. ASSUME NEW i \in Changes(log), Grouped(ev), longer[last] = ev
      PROVE  log[i].st.version < ev.st.version
  <2>1. PICK p \in Changes(log) : i <= p /\ Derives(log[p].st, ev)
    BY <1>2, <1>6
  <2>2. ev.st.version = log[p].st.version + 1 /\ log[p].st.version \in Nat /\ log[i].st.version \in Nat
    BY <1>1, <2>1 DEF Derives
  <2>3. i = p \/ i < p
    BY <1>1, <2>1
  <2>4. log[i].st.version <= log[p].st.version
    BY <2>2, <2>3 DEF Rising
  <2> QED
    BY <2>2, <2>4
<1>7. Rising(longer)
  <2> SUFFICES ASSUME NEW i \in Changes(longer), NEW j \in Changes(longer), i < j
               PROVE  longer[i].st.version < longer[j].st.version
    BY DEF Rising
  <2>1. CASE j \in Changes(log)
    BY <1>1, <2>1 DEF Rising
  <2>2. CASE j \notin Changes(log)
    BY <1>1, <1>6, <2>2
  <2> QED
    BY <2>1, <2>2
<1> QED
  BY <1>5, <1>7 DEF longer

-----------------------------------------------------------------------------
(* The nodes of a group whose leader stays agree with its log.             *)

\* No leader extends its lease (a renewal changes the state without an event).
NobodyRenews == \A n \in Node : task[n].caller # "renew"

\* No crash separates a save of the leader from its event.
ChangesRecorded == "op_crash" \notin Faults

(* What the invariants together say about the logs and the states.         *)
LEMMA TracksTyped ==
    ASSUME TypeInv, FounderLeads, SteadyInv, FaithfulInv
    PROVE  LET leaders == disk[TheFounder].log
           IN  /\ TheFounder \in Node
               /\ leaders \in Seq(GoodEvent) /\ Len(leaders) \in Nat
               /\ Chained(leaders) /\ Rising(leaders)
               /\ \A i \in 1 .. Len(leaders) : FirstTermEvent(leaders[i])
               /\ \A n \in Node :
                     /\ disk[n] \in GoodReplica /\ Tracks(disk[n], leaders)
                     /\ Len(disk[n].log) \in Nat /\ Len(disk[n].log) <= Len(leaders)
                     /\ HasState(n) => disk[n].st \in GroupState /\ FirstTerm(disk[n].st)
<1>1. TheFounder \in Node
  BY TheFounderIs
<1>2. \A n \in Node : /\ disk[n] \in GoodReplica /\ disk[n].log \in Seq(GoodEvent)
                      /\ Len(disk[n].log) \in Nat
                      /\ HasState(n) => disk[n].st \in GroupState
  BY HeldTyped, ReplicaFields DEF Held
<1>3. \A n \in Node : Len(disk[n].log) <= Len(disk[TheFounder].log)
  BY DEF SteadyInv, DiskSteady, Log!Begins
<1> QED
  BY <1>1, <1>2, <1>3 DEF FaithfulInv, SteadyInv, DiskSteady, Held

(* A state taken over from somebody the log accounts for.                  *)
LEMMA AdoptionTracks ==
    ASSUME TypeInv, FounderLeads, SteadyInv, FaithfulInv,
           NEW n \in Node, NEW r \in GoodReplica, Write(n, r), Adoption(n, r)
    PROVE  Tracks(r, disk[TheFounder].log) /\ r.st # NoState
<1> DEFINE leaders == disk[TheFounder].log
<1>1. /\ leaders \in Seq(GoodEvent) /\ Rising(leaders)
      /\ Len(disk[n].log) \in Nat /\ r.log = disk[n].log
      /\ \A m \in Node : Tracks(disk[m], leaders) /\ Len(disk[m].log) \in Nat
  BY TracksTyped DEF Adoption
<1> HIDE DEF leaders
<1>2. Reflects(r.st, 0, leaders) /\ r.st \in GroupState
  <2>1. ASSUME NEW p \in Node, HasState(p), r.st = Held(p) PROVE Reflects(r.st, 0, leaders)
    <3>1. Reflects(r.st, Len(disk[p].log), leaders)
      BY <1>1, <2>1 DEF Tracks, HasState, Held
    <3>2. \A i \in Changes(leaders) : i <= 0 => i <= Len(disk[p].log)
      BY <1>1, ChangeTyped
    <3> QED
      BY <3>1, <3>2 DEF Reflects
  <2>2. ASSUME task[n].pc = "joined", r.st = task[n].saved PROVE Reflects(r.st, 0, leaders)
    BY <2>2 DEF FaithfulInv, leaders
  <2>3. r.st \in GroupState
    BY HeldTyped DEF Adoption, TypeInv, TaskSound
  <2> QED
    BY <2>1, <2>2, <2>3 DEF Adoption
<1>3. r.st # NoState
  BY <1>2, GroupStateFields
<1>4. CASE HasState(n)
  <2>1. /\ disk[n].st \in GroupState /\ Advances(disk[n].st, r.st)
        /\ Reflects(disk[n].st, Len(disk[n].log), leaders)
    BY <1>1, <1>4, HeldTyped DEF Write, Tracks, HasState, Held
  <2>2. Reflects(r.st, Len(disk[n].log), leaders)
    BY <1>1, <1>2, <2>1, AdvancedReflects
  <2> QED
    BY <1>1, <1>3, <2>2 DEF Tracks, leaders
<1>5. CASE ~HasState(n)
  <2>1. \A i \in Changes(leaders) : ~(i <= Len(r.log))
    BY <1>1, <1>5, ChangeTyped DEF Tracks, HasState
  <2>2. Reflects(r.st, Len(r.log), leaders)
    BY <1>2, <2>1 DEF Reflects
  <2> QED
    BY <1>3, <2>2 DEF Tracks, leaders
<1> QED
  BY <1>4, <1>5

(* A page that was replayed, or a part of it.                              *)
LEMMA ReplayTracks ==
    ASSUME TypeInv, FounderLeads, SteadyInv, FaithfulInv,
           NEW n \in Node, NEW r \in GoodReplica, Replay(n, r)
    PROVE  n # TheFounder /\ Tracks(r, disk[TheFounder].log) /\ r.st # NoState
<1> DEFINE leaders == disk[TheFounder].log
           page == task[n].page
           d == disk[n]
<1>1. /\ task[n].pc = "apply" /\ Rebuilt(d, page, r)
      /\ n # TheFounder /\ PageSteady(n, page)
      /\ page \in Page /\ d \in GoodReplica /\ HasState(n) /\ page.after <= Len(d.log)
  BY PageHeld DEF Replay, SteadyInv, TaskSteady
<1>2. /\ leaders \in Seq(GoodEvent) /\ Len(leaders) \in Nat
      /\ Chained(leaders) /\ Rising(leaders)
      /\ \A i \in 1 .. Len(leaders) : FirstTermEvent(leaders[i])
      /\ d.st # NoState /\ FirstTerm(d.st) /\ Tracks(d, leaders)
  BY <1>1, TracksTyped DEF HasState
<1>3. Faithful(d, leaders)
  BY <1>2 DEF Faithful, Tracks
<1>4. /\ Len(page.items) \in Nat /\ page.after \in Nat /\ page.last_event_id \in Nat
      /\ page.last_event_id <= Len(leaders)
      /\ \A i \in 1 .. Len(page.items) :
            page.after + i <= page.last_event_id /\ page.items[i] = leaders[page.after + i]
  BY <1>1 DEF PageSteady, Page
<1> HIDE DEF leaders, page, d
<1>5. \A i \in 1 .. Len(page.items) :
         page.after + i <= Len(leaders) /\ page.items[i] = leaders[page.after + i]
  BY <1>2, <1>4
<1>6. PICK k \in 0 .. Len(page.items) : \E trusted :
         LET res == ApplyItems(d, page, k, trusted)
         IN  \/ r = res.replica
             \/ /\ res.ok /\ k < Len(page.items)
                /\ page.after + k + 1 > LastEventId(res.replica)
                /\ r = EffectOf(res.replica, page.items[k + 1], trusted)
  BY <1>1, Zenon DEF Rebuilt
<1>7. PICK trusted :
         LET res == ApplyItems(d, page, k, trusted)
         IN  \/ r = res.replica
             \/ /\ res.ok /\ k < Len(page.items)
                /\ page.after + k + 1 > LastEventId(res.replica)
                /\ r = EffectOf(res.replica, page.items[k + 1], trusted)
  BY <1>6, Zenon
<1> DEFINE res == ApplyItems(d, page, k, trusted)
<1>8. /\ res \in [replica : GoodReplica, ok : BOOLEAN]
      /\ Faithful(res.replica, leaders)
      /\ res.ok => Len(res.replica.log) >= page.after + k
  BY <1>1, <1>2, <1>3, <1>5, ItemsReflected
<1>9. CASE r = res.replica
  BY <1>1, <1>8, <1>9 DEF Faithful, Tracks, leaders
<1>10. CASE /\ res.ok /\ k < Len(page.items)
            /\ page.after + k + 1 > LastEventId(res.replica)
            /\ r = EffectOf(res.replica, page.items[k + 1], trusted)
  <2> DEFINE i == k + 1
  <2> HIDE DEF res
  <2>1. /\ i \in 1 .. Len(page.items)
        /\ page.after + i <= Len(leaders) /\ page.items[i] = leaders[page.after + i]
        /\ page.after + i - 1 = page.after + k
        /\ page.after + i > LastEventId(res.replica)
    BY <1>4, <1>5, <1>10
  <2>2. r = EffectOf(res.replica, page.items[i], trusted)
    BY <1>10
  <2>3. res.ok /\ Len(res.replica.log) >= page.after + i - 1
    BY <1>8, <1>10, <2>1
  <2> HIDE DEF i
  <2>4. Faithful(r, leaders)
    BY <1>1, <1>2, <1>8, <2>1, <2>2, <2>3, ItemReflected
  <2> QED
    BY <1>1, <2>4 DEF Faithful, Tracks, leaders
<1> QED
  BY <1>7, <1>9, <1>10

(* An event appended to a log accounts for what its writer stores with it. *)
LEMMA OwnEventTracks ==
    ASSUME NEW d \in GoodReplica, NEW r \in GoodReplica, NEW ev \in GoodEvent,
           Chained(d.log), Rising(d.log), Tracks(d, d.log), r.log = Append(d.log, ev),
           \/ ~Grouped(ev) /\ r.st = d.st
           \/ /\ Grouped(ev) /\ ev.st = r.st
              /\ IF d.st # NoState THEN Derives(d.st, ev) ELSE ev.type = "state"
    PROVE  Chained(r.log) /\ Rising(r.log) /\ Tracks(r, r.log)
<1>1. /\ d.log \in Seq(GoodEvent) /\ Len(d.log) \in Nat /\ Len(r.log) = Len(d.log) + 1
      /\ d.st \in GroupState \cup {NoState}
      /\ \A i \in Changes(d.log) : i \in Nat /\ i <= Len(d.log)
  BY ReplicaFields, ChangeTyped
<1>2. /\ \A i \in Changes(d.log) : i \in Changes(r.log) /\ r.log[i] = d.log[i]
      /\ \A i \in Changes(r.log) :
            i \in Changes(d.log) \/ (i = Len(d.log) + 1 /\ Grouped(ev) /\ r.log[i] = ev)
  <2> DEFINE log == d.log
  <2>1. log \in Seq(GoodEvent) /\ r.log = Append(log, ev)
    BY <1>1
  <2> HIDE DEF log
  <2>2. /\ \A i \in Changes(log) : i \in Changes(Append(log, ev)) /\ Append(log, ev)[i] = log[i]
        /\ \A i \in Changes(Append(log, ev)) :
              i \in Changes(log) \/ (i = Len(log) + 1 /\ Grouped(ev) /\ Append(log, ev)[i] = ev)
    BY <2>1, AppendChanges
  <2> QED
    BY <2>1, <2>2 DEF log
<1>3. CASE ~Grouped(ev) /\ r.st = d.st
  <2>1. Chained(r.log) /\ Rising(r.log)
    BY <1>1, <1>3, ChainedAppend
  <2>2. CASE d.st # NoState
    <3>1. Reflects(d.st, Len(d.log), d.log)
      BY <2>2 DEF Tracks
    <3>2. Reflects(d.st, Len(d.log) + 1, r.log)
      BY <1>1, <1>3, <3>1, ReflectsAppend
    <3> QED
      BY <1>1, <1>3, <2>1, <2>2, <3>2 DEF Tracks
  <2>3. CASE d.st = NoState
    <3>1. Changes(d.log) = {}
      BY <1>1, <2>3 DEF Tracks
    <3>2. Changes(r.log) = {}
      BY <1>2, <1>3, <3>1
    <3> QED
      BY <1>3, <2>1, <2>3, <3>2 DEF Tracks
  <2> QED
    BY <2>2, <2>3
<1>4. CASE /\ Grouped(ev) /\ ev.st = r.st
           /\ IF d.st # NoState THEN Derives(d.st, ev) ELSE ev.type = "state"
  <2>1. Chained(r.log) /\ Rising(r.log)
    <3>1. CASE d.st # NoState
      <4>1. Reflects(d.st, Len(d.log), d.log) /\ d.st \in GroupState /\ Derives(d.st, ev)
        BY <1>1, <1>4, <3>1 DEF Tracks
      <4> QED
        BY <1>1, <4>1, ChainedAppend
    <3>2. CASE d.st = NoState
      <4>1. Changes(d.log) = {} /\ ev.type = "state"
        BY <1>1, <1>4, <3>2 DEF Tracks
      <4> QED
        BY <1>1, <4>1, ChainedAppend
    <3> QED
      BY <3>1, <3>2
  <2> DEFINE last == Len(d.log) + 1
  <2>2. last \in Changes(r.log) /\ r.log[last] = ev
    BY <1>1, <1>4 DEF Changes
  <2>3. \A i \in Changes(r.log) : i <= last
    BY <1>1, <1>2
  <2>4. Reflects(r.st, Len(r.log), r.log)
    BY <1>4, <2>2, <2>3 DEF Reflects
  <2>5. r.st # NoState
    BY <1>4, GroupStateFields DEF GoodEvent
  <2> QED
    BY <2>1, <2>4, <2>5 DEF Tracks
<1> QED
  BY <1>3, <1>4

(* It takes nothing from what the log accounts for at others.              *)
LEMMA OthersTrack ==
    ASSUME NEW log \in Seq(GoodEvent), NEW ev \in GoodEvent, NEW d \in GoodReplica,
           Len(d.log) <= Len(log), Tracks(d, log)
    PROVE  Tracks(d, Append(log, ev))
<1>1. Len(d.log) \in Nat /\ Len(log) \in Nat
  BY ReplicaFields
<1>2. CASE d.st # NoState
  <2>1. Reflects(d.st, Len(d.log), log)
    BY <1>2 DEF Tracks
  <2>2. Reflects(d.st, Len(d.log), Append(log, ev))
    BY <1>1, <2>1, ReflectsAppend
  <2> QED
    BY <1>2, <2>2 DEF Tracks
<1>3. CASE d.st = NoState
  <2>1. \A i \in Changes(log) : i > Len(d.log)
    BY <1>3 DEF Tracks
  <2>2. \A i \in Changes(Append(log, ev)) : i \in Changes(log) \/ i = Len(log) + 1
    BY AppendChanges
  <2>3. \A i \in Changes(Append(log, ev)) : i > Len(d.log)
    BY <1>1, <2>1, <2>2
  <2> QED
    BY <1>3, <2>3 DEF Tracks
<1> QED
  BY <1>2, <1>3

(* Whatever the founder writes, its log goes on accounting for.            *)
LEMMA FounderTracks ==
    ASSUME TypeInv, FounderLeads, ChangesRecorded, NobodyTakesOver, NobodyRenews,
           SteadyInv, FaithfulInv, NEW r \in GoodReplica, Write(TheFounder, r)
    PROVE  /\ Chained(r.log) /\ Rising(r.log) /\ Tracks(r, r.log)
           /\ \/ r.log = disk[TheFounder].log
              \/ \E ev \in GoodEvent : r.log = Append(disk[TheFounder].log, ev)
<1> DEFINE f == TheFounder
           d == disk[f]
<1>1. /\ f \in Node /\ d \in GoodReplica /\ Chained(d.log) /\ Rising(d.log) /\ Tracks(d, d.log)
      /\ d.st = Held(f)
  BY TracksTyped DEF Held
<1>2. CASE r = d
  BY <1>1, <1>2
<1>3. CASE OwnWrite(f, r)
  <2>1. ~Unrecorded(f)
    BY <1>1 DEF Unrecorded, ChangesRecorded, NobodyTakesOver, NobodyRenews
  <2>2. OwnChange(f, r)
    BY <1>3 DEF OwnWrite
  <2>3. CASE r.st = d.st /\ r.log = d.log
    BY <1>1, <2>3 DEF Tracks
  <2>4. ASSUME NEW ev \in GoodEvent, ~Grouped(ev), r.st = d.st, r.log = Append(d.log, ev)
        PROVE  Chained(r.log) /\ Rising(r.log) /\ Tracks(r, r.log)
    BY <1>1, <2>4, OwnEventTracks
  <2>5. ASSUME NEW ev \in GoodEvent, r.log = Append(d.log, ev), ev.st = r.st,
               IF HasState(f) THEN Derives(Held(f), ev) ELSE ev.type = "state"
        PROVE  Chained(r.log) /\ Rising(r.log) /\ Tracks(r, r.log)
    <3>1. /\ Grouped(ev)
          /\ IF d.st # NoState THEN Derives(d.st, ev) ELSE ev.type = "state"
      BY <1>1, <2>5 DEF Derives, Grouped, GroupEventTypes, HasState
    <3> HIDE DEF d
    <3> QED
      BY <1>1, <2>5, <3>1, OwnEventTracks
  <2> HIDE DEF d
  <2> QED
    BY <1>1, <2>1, <2>2, <2>3, <2>4, <2>5 DEF OwnChange, d
<1>4. CASE Adoption(f, r)
  <2>1. Tracks(r, d.log) /\ r.log = d.log
    BY <1>1, <1>4, AdoptionTracks DEF Adoption
  <2> QED
    BY <1>1, <2>1
<1>5. CASE Replay(f, r)
  BY <1>1, <1>5, ReplayTracks
<1> QED
  BY <1>3, <1>4, <1>5 DEF Write

(* Whatever another node writes, the founder's log accounts for.           *)
LEMMA FollowerTracks ==
    ASSUME TypeInv, FounderLeads, NobodyTakesOver, SteadyInv, FaithfulInv,
           NEW n \in Node \ {TheFounder}, NEW r \in GoodReplica, Write(n, r)
    PROVE  Tracks(r, disk[TheFounder].log)
<1>1. CASE r = disk[n]
  BY <1>1, TracksTyped
<1>2. CASE OwnWrite(n, r) /\ r # disk[n]
  BY <1>2, OwnWriteSteady
<1>3. CASE Adoption(n, r)
  BY <1>3, AdoptionTracks
<1>4. CASE Replay(n, r)
  BY <1>4, ReplayTracks
<1> QED
  BY <1>1, <1>2, <1>3, <1>4 DEF Write

(* Every write keeps the founder's log accounting for what is stored.      *)
LEMMA DiskTracks ==
    ASSUME TypeInv, FounderLeads, ChangesRecorded, NobodyTakesOver, NobodyRenews,
           SteadyInv, FaithfulInv, DiskStep
    PROVE  LET leaders == disk'[TheFounder].log
           IN  /\ Chained(leaders) /\ Rising(leaders)
               /\ \A n \in Node : Tracks(disk'[n], leaders)
               /\ \/ leaders = disk[TheFounder].log
                  \/ \E ev \in GoodEvent : leaders = Append(disk[TheFounder].log, ev)
<1> DEFINE f == TheFounder
           log == disk[f].log
<1>1. /\ f \in Node /\ log \in Seq(GoodEvent)
      /\ Chained(log) /\ Rising(log)
      /\ \A n \in Node : /\ disk[n] \in GoodReplica /\ Tracks(disk[n], log)
                         /\ Len(disk[n].log) <= Len(log)
  BY TracksTyped
<1>2. CASE disk' = disk
  BY <1>1, <1>2
<1>3. ASSUME NEW n \in Node, NEW r \in GoodReplica, Write(n, r)
      PROVE  /\ Chained(disk'[f].log) /\ Rising(disk'[f].log)
             /\ \A m \in Node : Tracks(disk'[m], disk'[f].log)
             /\ \/ disk'[f].log = log
                \/ \E ev \in GoodEvent : disk'[f].log = Append(log, ev)
  <2>1. disk' = [disk EXCEPT ![n] = r] /\ disk \in [Node -> GoodReplica]
    BY <1>3 DEF Write, TypeInv
  <2>2. disk'[n] = r /\ \A m \in Node \ {n} : disk'[m] = disk[m]
    BY <2>1
  <2>3. CASE n = f
    <3>1. /\ Chained(r.log) /\ Rising(r.log) /\ Tracks(r, r.log)
          /\ r.log = log \/ \E ev \in GoodEvent : r.log = Append(log, ev)
      BY <1>3, <2>3, FounderTracks
    <3>2. ASSUME NEW m \in Node \ {n} PROVE Tracks(disk[m], r.log)
      <4>1. Tracks(disk[m], log) /\ disk[m] \in GoodReplica /\ Len(disk[m].log) <= Len(log)
        BY <1>1
      <4> HIDE DEF log
      <4> QED
        BY <1>1, <3>1, <4>1, OthersTrack
    <3> QED
      BY <2>2, <2>3, <3>1, <3>2
  <2>4. CASE n # f
    <3>1. Tracks(r, log)
      BY <1>3, <2>4, FollowerTracks
    <3>2. disk'[f].log = log
      BY <1>1, <2>2, <2>4
    <3> HIDE DEF log
    <3> QED
      BY <1>1, <2>2, <3>1, <3>2
  <2> QED
    BY <2>3, <2>4
<1> QED
  BY <1>2, <1>3 DEF DiskStep

(* Every kind of step keeps the invariant.                                 *)
LEMMA FaithfulInvKept ==
    ASSUME TypeInv, FounderLeads, ChangesRecorded, NobodyTakesOver, NobodyRenews,
           SteadyInv, FaithfulInv, StepSound
    PROVE  FaithfulInv'
<1> DEFINE log == disk[TheFounder].log
           longer == disk'[TheFounder].log
<1>1. /\ Chained(longer) /\ Rising(longer)
      /\ \A n \in Node : Tracks(disk'[n], longer)
      /\ longer = log \/ \E ev \in GoodEvent : longer = Append(log, ev)
  BY DiskTracks DEF StepSound
<1>2. /\ log \in Seq(GoodEvent) /\ Len(log) \in Nat
      /\ \A n \in Node : Len(disk'[n].log) \in Nat
      /\ longer \in Seq(GoodEvent)
  BY TracksTyped, DiskGrows, ReplicaFields DEF StepSound
<1>3. ASSUME NEW n \in Node, task'[n].pc = "joined" PROVE Reflects(task'[n].saved, 0, longer)
  <2>1. CASE task'[n] = task[n]
    <3>1. Reflects(task[n].saved, 0, log)
      BY <1>3, <2>1 DEF FaithfulInv
    <3>2. 0 \in Nat /\ 0 <= Len(log)
      BY <1>2
    <3> HIDE DEF log, longer
    <3>3. Reflects(task[n].saved, 0, longer)
      BY <1>1, <1>2, <3>1, <3>2, ReflectsAppend
    <3> QED
      BY <2>1, <3>3
  <2>2. CASE TaskStep(n)
    <3>1. PICK l \in Node : HasState(l)' /\ task'[n].saved = Held(l)'
      BY <1>3, <2>2 DEF TaskStep
    <3>2. disk'[l].st # NoState /\ task'[n].saved = disk'[l].st
      BY <3>1 DEF HasState, Held
    <3> HIDE DEF longer
    <3>3. Reflects(disk'[l].st, Len(disk'[l].log), longer)
      BY <1>1, <3>2 DEF Tracks
    <3>4. \A i \in Changes(longer) : i <= 0 => i <= Len(disk'[l].log)
      BY <1>2, ChangeTyped
    <3> QED
      BY <3>2, <3>3, <3>4 DEF Reflects
  <2> QED
    BY <2>1, <2>2 DEF StepSound
<1> QED
  BY <1>1, <1>3 DEF FaithfulInv

(* Before the first start there is nothing to account for.                 *)
LEMMA InitFaithful ==
    ASSUME FounderLeads, Init
    PROVE  FaithfulInv
<1>1. /\ \A n \in Node : disk[n].st = NoState /\ disk[n].log = <<>> /\ task[n].pc = "idle"
      /\ TheFounder \in Node
  BY TheFounderIs, IdleTyped DEF Init, FounderLeads
<1>2. Changes(<<>>) = {}
  BY DEF Changes
<1> QED
  BY <1>1, <1>2 DEF FaithfulInv, Chained, Rising, Tracks

(* Two nodes with as many events hold the membership of the same change.   *)
LEMMA FaithfulAgrees ==
    ASSUME TypeInv, FounderLeads, SteadyInv, FaithfulInv
    PROVE  CaughtUpAgrees
<1> SUFFICES ASSUME NEW n \in Node, Follows(n), disk[n].log = disk[LeaderOf(n)].log
             PROVE  Membership(Held(n)) = Membership(Held(LeaderOf(n)))
  BY DEF CaughtUpAgrees
<1> DEFINE f == TheFounder
           log == disk[f].log
<1>1. /\ f \in Node /\ log \in Seq(GoodEvent) /\ Len(log) \in Nat
      /\ HasState(n) /\ LeaderOf(n) = f /\ disk[n].log = log
      /\ Tracks(disk[n], log) /\ Tracks(disk[f], log)
  BY TracksTyped DEF Follows, LeaderOf, FirstTerm, Held
<1>2. \A i \in Changes(log) : i \in Nat /\ i <= Len(log)
  <2> HIDE DEF log
  <2> QED
    BY <1>1, ChangeTyped
<1>3. PICK i \in Changes(log) :
         /\ Membership(Held(n)) = Membership(log[i].st)
         /\ \A h \in Changes(log) : h <= Len(log) => h <= i
  BY <1>1 DEF Tracks, Reflects, HasState, Held
<1>4. HasState(f)
  BY <1>1, <1>2 DEF Tracks, HasState
<1>5. PICK j \in Changes(log) :
         /\ Membership(Held(f)) = Membership(log[j].st)
         /\ \A h \in Changes(log) : h <= Len(log) => h <= j
  BY <1>1, <1>4 DEF Tracks, Reflects, HasState, Held
<1> HIDE DEF log
<1>6. i = j
  BY <1>2, <1>3, <1>5
<1> QED
  BY <1>1, <1>3, <1>5, <1>6

(* CaughtUpAgrees: under a founder that keeps the lead, records every      *)
(* change and does not renew its lease, nodes with equally long logs agree *)
(* on the members of the group, although they took them over by joins, by  *)
(* diffs applied once or twice, and by pages cut short.                    *)
THEOREM FounderAgrees ==
    ASSUME FounderLeads, ChangesRecorded
    PROVE  Spec /\ []NobodyTakesOver /\ []NobodyRenews => []CaughtUpAgrees
<1>1. Init => FaithfulInv
  BY InitFaithful
<1>2. TypeInv /\ NobodyTakesOver /\ NobodyRenews /\ SteadyInv /\ FaithfulInv /\ [Next]_vars
        => FaithfulInv'
  BY NextSound, FaithfulInvKept
<1>3. TypeInv /\ SteadyInv /\ FaithfulInv => CaughtUpAgrees
  BY FaithfulAgrees
<1> QED
  BY <1>1, <1>2, <1>3, TypeInvAlways, SteadyAlways, PTL DEF Spec

(* A lease of which half is never used up is not renewed.                  *)
LEMMA NoRenewal ==
    ASSUME TypeInv, FounderLeads, MaxTime + (TTL \div 2) < TTL, SteadyInv, NobodyRenews, StepSound
    PROVE  NobodyRenews'
<1> SUFFICES ASSUME NEW n \in Node, task'[n].caller = "renew" PROVE FALSE
  BY DEF NobodyRenews
<1>1. HasState(n) /\ IsExpired(Held(n), TTL \div 2)
  BY DEF NobodyRenews, StepSound, TaskStep, Leads
<1>2. Held(n).expires_at \in Nat /\ Held(n).expires_at >= TTL
  BY <1>1, HeldTyped, GroupStateFields DEF SteadyInv, DiskSteady, FirstTerm
<1>3. clock \in 0 .. MaxTime /\ MaxTime \in Nat /\ TTL \in Nat /\ TTL \div 2 \in Nat
  BY BoundsAreNumbers DEF TypeInv
<1>4. Held(n).expires_at <= clock + (TTL \div 2)
  BY <1>1 DEF IsExpired
<1> QED
  BY <1>2, <1>3, <1>4

(* The same without hypotheses about the behaviour: a group that is        *)
(* watched for less than half a lease renews nothing.                      *)
THEOREM NoExpiryAgrees ==
    ASSUME FounderLeads, ChangesRecorded, MaxTime + (TTL \div 2) < TTL
    PROVE  Spec => []CaughtUpAgrees
<1>1. MaxTime < TTL
  BY BoundsAreNumbers
<1>2. Init => NobodyRenews
  BY IdleTyped DEF Init, NobodyRenews
<1>3. TypeInv /\ SteadyInv /\ NobodyRenews /\ [Next]_vars => NobodyRenews'
  BY NextSound, NoRenewal
<1>4. Spec => []NobodyTakesOver
  BY <1>1, LeaseAlwaysHolds
<1>5. Spec => []NobodyRenews
  BY <1>2, <1>3, <1>4, TypeInvAlways, SteadyAlways, PTL DEF Spec
<1> QED
  BY <1>4, <1>5, FounderAgrees, PTL

-----------------------------------------------------------------------------
(* What follows from the abstract log, whatever implements it.             *)

\* The logs of all nodes, as ReplicatedLog sees them.
Logs == [n \in Node |-> disk[n].log]

\* The inductive invariant: the prefixes, and the type they are stated over.
LogInv ==
    /\ Logs \in [Node -> Seq(Event)]
    /\ TheFounder \in Node => Log!PrefixOfLeader

(* The abstract log, in terms of Logs.                                     *)
LEMMA LogSteps ==
    /\ Log!Init <=> Logs = [n \in Node |-> <<>>]
    /\ Log!PrefixOfLeader <=> \A n \in Node : Log!Begins(Logs[n], Logs[TheFounder])
    /\ Log!Record <=>
         /\ TheFounder \in Node
         /\ Logs' \in [Node -> Seq(Event)]
         /\ Len(Logs'[TheFounder]) = Len(Logs[TheFounder]) + 1
         /\ Log!Begins(Logs[TheFounder], Logs'[TheFounder])
         /\ \A n \in Node \ {TheFounder} : Logs'[n] = Logs[n]
    /\ \A n \in Node : Log!Replicate(n) <=>
         /\ n \in Node \ {TheFounder}
         /\ TheFounder \in Node
         /\ Logs' \in [Node -> Seq(Event)]
         /\ Log!Begins(Logs[n], Logs'[n])
         /\ Log!Begins(Logs'[n], Logs[TheFounder])
         /\ \A m \in Node \ {n} : Logs'[m] = Logs[m]
BY DEF Log!Init, Log!PrefixOfLeader, Log!Record, Log!Replicate, Logs, TheFounder

(* Where a beginning of a beginning begins, and that a log begins itself.  *)
LEMMA BeginsOrder ==
    /\ \A a, b, c \in Seq(Event) : Log!Begins(a, b) /\ Log!Begins(b, c) => Log!Begins(a, c)
    /\ \A a \in Seq(Event) : Log!Begins(a, a)
<1>1. ASSUME NEW a \in Seq(Event), NEW b \in Seq(Event), NEW c \in Seq(Event),
             Log!Begins(a, b), Log!Begins(b, c)
      PROVE  Log!Begins(a, c)
  <2>1. Len(a) \in Nat /\ Len(b) \in Nat /\ Len(c) \in Nat
    OBVIOUS
  <2> QED
    BY <1>1, <2>1 DEF Log!Begins
<1>2. \A a \in Seq(Event) : Log!Begins(a, a)
  BY DEF Log!Begins
<1> QED
  BY <1>1, <1>2

(* Initially all logs are empty.                                           *)
LEMMA LogInvInit == Log!Init => LogInv
<1> SUFFICES ASSUME Log!Init PROVE LogInv
  OBVIOUS
<1>1. <<>> \in Seq(Event) /\ Logs = [n \in Node |-> <<>>]
  BY LogSteps
<1>2. TheFounder \in Node => \A n \in Node : Log!Begins(Logs[n], Logs[TheFounder])
  BY <1>1, BeginsOrder
<1>3. Logs \in [Node -> Seq(Event)]
  BY <1>1
<1> QED
  BY <1>2, <1>3, LogSteps DEF LogInv

(* Recording and replicating keep it: what began the old log of the leader *)
(* begins the new one, and a replica takes over a beginning of it.         *)
LEMMA LogInvStep ==
    ASSUME LogInv, Log!Next
    PROVE  LogInv'
<1> DEFINE l == TheFounder
<1>0. /\ Logs \in [Node -> Seq(Event)]
      /\ l \in Node => \A n \in Node : Log!Begins(Logs[n], Logs[l])
  BY LogSteps DEF LogInv
<1> SUFFICES /\ Logs' \in [Node -> Seq(Event)]
             /\ l \in Node
             /\ \A n \in Node : Log!Begins(Logs'[n], Logs'[l])
  BY DEF LogInv, Log!PrefixOfLeader, Logs, TheFounder
<1>1. CASE Log!Record
  <2>1. /\ l \in Node
        /\ Logs' \in [Node -> Seq(Event)]
        /\ Log!Begins(Logs[l], Logs'[l])
        /\ \A n \in Node \ {l} : Logs'[n] = Logs[n]
    BY <1>1, LogSteps
  <2> HIDE DEF l
  <2>2. ASSUME NEW n \in Node
        PROVE  Log!Begins(Logs'[n], Logs'[l])
    <3>1. /\ Logs[n] \in Seq(Event) /\ Logs[l] \in Seq(Event)
          /\ Logs'[l] \in Seq(Event) /\ Logs'[n] \in Seq(Event)
      BY <1>0, <2>1
    <3>2. CASE n = l
      BY <2>1, <3>1, <3>2, BeginsOrder
    <3>3. CASE n # l
      BY <1>0, <2>1, <3>1, <3>3, BeginsOrder
    <3> QED
      BY <3>2, <3>3
  <2> QED
    BY <2>1, <2>2
<1>2. ASSUME NEW m \in Node, Log!Replicate(m)
      PROVE  /\ Logs' \in [Node -> Seq(Event)]
             /\ l \in Node
             /\ \A n \in Node : Log!Begins(Logs'[n], Logs'[l])
  <2>1. /\ m # l /\ l \in Node
        /\ Logs' \in [Node -> Seq(Event)]
        /\ Log!Begins(Logs[m], Logs'[m]) /\ Log!Begins(Logs'[m], Logs[l])
        /\ \A n \in Node \ {m} : Logs'[n] = Logs[n]
    BY <1>2, LogSteps
  <2> HIDE DEF l
  <2>2. ASSUME NEW n \in Node
        PROVE  Log!Begins(Logs'[n], Logs'[l])
    <3>1. Logs[n] \in Seq(Event) /\ Logs'[l] = Logs[l]
      BY <1>0, <2>1
    <3>2. CASE n = m
      BY <2>1, <3>1, <3>2
    <3>3. CASE n # m
      BY <1>0, <2>1, <3>1, <3>3, BeginsOrder
    <3> QED
      BY <3>2, <3>3
  <2> QED
    BY <2>1, <2>2
<1> QED
  BY <1>1, <1>2 DEF Log!Next

(* Whatever implements ReplicatedLog has every replica at a beginning of   *)
(* the leader's log: what docs/sync-nodes.md calls contiguous.             *)
THEOREM ReplicasArePrefixes ==
    Log!Spec => [](TheFounder \in Node => Log!PrefixOfLeader)
<1>1. LogInv => (TheFounder \in Node => Log!PrefixOfLeader)
  BY DEF LogInv
<1>2. LogInv /\ UNCHANGED [n \in Node |-> disk[n].log] => LogInv'
  BY DEF LogInv, Logs, Log!PrefixOfLeader
<1>3. LogInv /\ [Log!Next]_[n \in Node |-> disk[n].log] => LogInv'
  BY <1>2, LogInvStep
<1> QED
  BY <1>1, <1>3, LogInvInit, PTL DEF Log!Spec

(* In a group whose leader stays every log therefore is a beginning of     *)
(* the leader's, on any disk and at any time.                              *)
THEOREM FounderIsFollowed ==
    ASSUME FounderLeads
    PROVE  Spec /\ []NobodyTakesOver => []Log!PrefixOfLeader
<1>1. TheFounder \in Node
  BY TheFounderIs
<1> QED
  BY <1>1, FounderReplicates, ReplicasArePrefixes, PTL DEF Replicates

(* No node ever loses or changes an event it has recorded: here without    *)
(* any hypothesis, when leaders coexist and histories fork as well.        *)
THEOREM LogsOnlyGrow ==
    Spec => [][\A n \in Node : Log!Begins(disk[n].log, disk'[n].log)]_vars
<1>1. TypeInv /\ [Next]_vars
        => [\A n \in Node : Log!Begins(disk[n].log, disk'[n].log)]_vars
  <2> SUFFICES ASSUME TypeInv, [Next]_vars, NEW n \in Node
               PROVE  Log!Begins(disk[n].log, disk'[n].log)
    OBVIOUS
  <2> QED
    BY NextSound, DiskGrows, HeldTyped, ReplicaFields DEF StepSound, Log!Begins
<1> QED
  BY <1>1, TypeInvAlways, PTL DEF Spec

=============================================================================
