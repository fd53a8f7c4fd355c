------------------------------ MODULE EventLog ------------------------------
(***************************************************************************)
(* The control-plane sync event log (cluster/control_plane_event_manager   *)
(* .py): the events a leader records, the pages it serves, and what a      *)
(* follower does with an event of a page.                                  *)
(*                                                                         *)
(* A replica is what one control-plane node keeps in its storage: its      *)
(* group state, its event log and its RBAC state.  The position of an      *)
(* event in the log is its event_id, so ids are contiguous from 1; the     *)
(* nonce is the actor, which with the id names an event uniquely because   *)
(* a node never rewrites its own log.  One entry stands for the change     *)
(* event and the two audit records the same handler appends after it.      *)
(***************************************************************************)
EXTENDS GroupStates, Sequences

CONSTANTS
    Node,       \* ids of control-plane nodes, ordered
    Runtime,    \* ids of runtime nodes
    NoState,    \* a node without a group state
    PageLimit   \* events per page (250 in sync_logic.py)

ASSUME NodeAssumption ==
    /\ Node \subseteq Nat \ {0}
    /\ Runtime \subseteq Nat \ {0}
    /\ Node \cap Runtime = {}
ASSUME PageAssumption == PageLimit \in Nat \ {0}

\* A node has one key for life (BaseNode keeps it in storage): key = id.
Member(n) == [node_id |-> n, public_key |-> n]
CpIds(s) == {m.node_id : m \in s.control_planes}
RtIds(s) == {m.node_id : m \in s.runtimes}
KnownIds(s) == CpIds(s) \cup RtIds(s)
Drop(members, n) == {m \in members : m.node_id # n}

\* Membership with node n added or replaced, as its role says.
WithNode(s, n) ==
    [s EXCEPT !.control_planes =
                  Drop(@, n) \cup (IF n \in Node THEN {Member(n)} ELSE {}),
              !.runtimes =
                  Drop(@, n) \cup (IF n \in Runtime THEN {Member(n)} ELSE {})]

WithoutNode(s, n) ==
    [s EXCEPT !.control_planes = Drop(@, n),
              !.runtimes = Drop(@, n),
              !.endpoints = @ \ {n}]

-----------------------------------------------------------------------------
(* Events.  st is the group state the event carries: a snapshot for        *)
(* "state" and "promoted"; of the others only endpoints, version and       *)
(* expires_at are sent and read.                                           *)

GroupEventTypes == {"state", "joined", "revoked", "endpoints", "promoted"}
SnapshotTypes == {"state", "promoted"}

\* The content of an RBAC state is told apart by who wrote its version.
NoRbac == [version |-> 0, writer |-> 0]

GroupEvent(type, actor, n, s) ==
    [type |-> type, actor |-> actor, node |-> n, st |-> s, rbac |-> NoRbac]
AuditEvent(actor) ==
    [type |-> "audit", actor |-> actor, node |-> actor, st |-> NoState, rbac |-> NoRbac]
RbacEvent(actor, rbac) ==
    [type |-> "rbac", actor |-> actor, node |-> actor, st |-> NoState, rbac |-> rbac]

LastEventId(r) == Len(r.log)
LastEventNonce(r) == IF r.log = <<>> THEN 0 ELSE r.log[Len(r.log)].actor
StateHash(r) == [log |-> r.log, rbac |-> r.rbac]

\* event_page: what a leader answers to after_event_id = after.
EventPage(r, server, after) ==
    [server |-> server,
     leader_pubkey |-> r.st.leader_pubkey,
     leader_epoch |-> r.st.leader_epoch,
     after |-> after,
     items |-> SubSeq(r.log, after + 1,
                      IF after + PageLimit < Len(r.log) THEN after + PageLimit ELSE Len(r.log)),
     last_event_id |-> LastEventId(r),
     last_event_nonce |-> LastEventNonce(r),
     state_hash |-> StateHash(r),
     has_more |-> after + PageLimit < Len(r.log)]

-----------------------------------------------------------------------------
(* What a replica stores.  The one group of the model has one name.        *)

GroupName == "demo"

GroupState ==
    [group_id : {GroupName}, version : Nat, leader_epoch : Nat,
     leader_node_id : Node, leader_pubkey : Node,
     control_planes : SUBSET {Member(n) : n \in Node},
     runtimes : SUBSET {Member(n) : n \in Runtime},
     endpoints : SUBSET Node, expires_at : Nat,
     leader_signature : Node \cup {NoKey}]

Rbac == [version : Nat, writer : Node \cup {0}]

Event ==
    [type : GroupEventTypes \cup {"audit", "rbac"}, actor : Node,
     node : Node \cup Runtime, st : GroupState \cup {NoState}, rbac : Rbac]

Replica == [st : GroupState \cup {NoState}, log : Seq(Event), rbac : Rbac]

ASSUME StateAssumption == NoState \notin GroupState

-----------------------------------------------------------------------------
(* apply_remote_event.                                                     *)

\* Mutant: the endpoints that a diff carries are not taken over.
ReplayedStateOldEndpoints(cur, ev) ==
    IF ev.type \in SnapshotTypes THEN ev.st
    ELSE [CASE ev.type = "joined" -> WithNode(cur, ev.node)
            [] ev.type = "revoked" -> WithoutNode(cur, ev.node)
            [] OTHER -> cur
          EXCEPT !.version = ev.st.version,
                 !.expires_at = ev.st.expires_at,
                 !.leader_signature = NoKey]

\* The state an event leads to.  A diff is applied to the LOCAL state, with
\* the local leader and epoch, and the result carries no signature.
ReplayedState(cur, ev) ==
    IF ev.type \in SnapshotTypes THEN ev.st
    ELSE LET diff == [CASE ev.type = "joined" -> WithNode(cur, ev.node)
                        [] ev.type = "revoked" -> WithoutNode(cur, ev.node)
                        [] OTHER -> cur
                      EXCEPT !.version = ev.st.version,
                             !.expires_at = ev.st.expires_at,
                             !.leader_signature = NoKey]
         IN  IF ev.type = "revoked" THEN diff
             ELSE [diff EXCEPT !.endpoints = ev.st.endpoints]

\* The event's state passes replace_state; only snapshots need a signature.
Taken(r, ev, trusted) ==
    IF r.st = NoState
    THEN ev.type = "state" /\ AcceptsFirst(ev.st, trusted, TRUE)
    ELSE Accepts(r.st, ReplayedState(r.st, ev), trusted, ev.type \in SnapshotTypes)

\* Mutant: a regression ends the page like any other refusal.
SkippedNever(r, ev) == FALSE

\* replace_state raised a regression: the event is logged all the same.
Skipped(r, ev) == r.st # NoState /\ Regressed(r.st, ReplayedState(r.st, ev))

\* Any other refusal leaves the event out of the log and ends the page.
Raises(r, ev, trusted) ==
    ev.type \in GroupEventTypes /\ ~Taken(r, ev, trusted) /\ ~Skipped(r, ev)

\* The part of the event's effect that is saved before the log is.
EffectOf(r, ev, trusted) ==
    IF ev.type \in GroupEventTypes /\ Taken(r, ev, trusted)
        THEN [r EXCEPT !.st = ReplayedState(r.st, ev)]
    ELSE IF ev.type = "rbac" /\ ev.rbac.version >= r.rbac.version
        THEN [r EXCEPT !.rbac = ev.rbac]
    ELSE r

ApplyEvent(r, ev, trusted) == [EffectOf(r, ev, trusted) EXCEPT !.log = Append(@, ev)]

\* Item i of a page, after the items before it left prev: the replica, and
\* whether they all went through.  Items already in the log are skipped; an
\* id that leaves a gap raises when the log is written, and by then the
\* effect of the event is stored.
ApplyItem(prev, page, i, trusted) ==
    LET ev == page.items[i]
        id == page.after + i
        r == prev.replica
    IN  IF ~prev.ok \/ id <= LastEventId(r) THEN prev
        ELSE IF Raises(r, ev, trusted) THEN [prev EXCEPT !.ok = FALSE]
        ELSE IF id # LastEventId(r) + 1
        THEN [replica |-> EffectOf(r, ev, trusted), ok |-> FALSE]
        ELSE [prev EXCEPT !.replica = ApplyEvent(r, ev, trusted)]

\* apply_remote_events on the first k items of a page.
ApplyItems(r, page, k, trusted) ==
    LET after[i \in 0 .. k] ==
          IF i = 0 THEN [replica |-> r, ok |-> TRUE]
          ELSE ApplyItem(after[i - 1], page, i, trusted)
    IN  after[k]
=============================================================================
