---------------------------- MODULE ControlPlane ----------------------------
(***************************************************************************)
(* A cluster of control-plane nodes: the leader's handlers, the failover   *)
(* loop of every node, event synchronisation between them, joining, and    *)
(* crashes and restarts (nodes/control_plane/state_logic.py, sync_logic    *)
(* .py, main.py and app/service_runner.py).                                *)
(*                                                                         *)
(* A node is one asyncio process.  Its handlers run to completion, since   *)
(* they await nothing between reading and writing; its failover loop is a  *)
(* coroutine that gives up control at every request it makes, and `task`   *)
(* holds its local variables there.  A request and the handling of it by   *)
(* the peer are one step, the use of the answer is a later one.            *)
(***************************************************************************)
EXTENDS EventLog, FiniteSetsExt

CONSTANTS
    Initial,     \* control planes of the group that exists at the start
    Founder,     \* nodes that are served without having joined a group
    TTL,         \* state_ttl_seconds, in ticks of the clock
    MaxTime,     \* bound: last tick of the clock
    MaxVersion,  \* bound: membership requests stop at this state version
    MaxLog,      \* bound: audit and RBAC requests stop at this log length
    MaxCrashes,  \* bound: crashes in a behaviour
    CrashUntil,  \* bound: no crash after this tick of the clock
    Requests,    \* the kinds of request that clients send
    Faults       \* the kinds of fault that occur

ASSUME ClusterAssumption ==
    /\ Initial \subseteq Node /\ IsFiniteSet(Initial)
    /\ Founder \subseteq Node
    /\ {TTL, MaxTime, MaxVersion, MaxLog, MaxCrashes, CrashUntil} \subseteq Nat
    /\ Requests \subseteq {"join", "runtime", "revoke", "endpoints", "gui", "apply", "follower_apply"}
    /\ Faults \subseteq {"loss", "crash", "op_crash", "replay_crash", "restart"}

VARIABLES
    disk,     \* what each node stores: group state, event log, RBAC state
    proc,     \* its process: "down", "cli" (join), "starting" or "up"
    broken,   \* broken_sync_reason is set
    task,     \* the coroutine of its failover loop, startup or join
    clock,    \* the time
    crashes   \* crashes so far

vars == <<disk, proc, broken, task, clock, crashes>>

-----------------------------------------------------------------------------
(* Group states of the cluster.                                            *)

BootstrapState(n, now) ==
    [group_id |-> GroupName, version |-> 1, leader_epoch |-> 1,
     leader_node_id |-> n, leader_pubkey |-> n,
     control_planes |-> {Member(n)}, runtimes |-> {}, endpoints |-> {n},
     expires_at |-> now + TTL, leader_signature |-> n]

\* build_next_state: the caller's membership, the current version.
NextState(cur, n, from, epoch, step) ==
    [from EXCEPT !.version = cur.version + step,
                 !.leader_epoch = epoch,
                 !.leader_node_id = n,
                 !.leader_pubkey = n,
                 !.expires_at = clock + TTL,
                 !.leader_signature = n]

Held(n) == disk[n].st
HasState(n) == disk[n].st # NoState
Leads(n) == HasState(n) /\ Held(n).leader_node_id = n
IsExpired(s, margin) == s.expires_at <= clock + margin
Fingerprint(s) ==
    IF s = NoState THEN <<>>
    ELSE <<s.version, s.leader_epoch, s.leader_node_id, s.leader_pubkey>>

\* Mutant: always the first control plane.
FirstControlPlane(s) == Min(CpIds(s))

\* current_failover_candidate: the next control plane after the leader.
FailoverCandidate(s) ==
    LET later == {n \in CpIds(s) : n > s.leader_node_id}
    IN  IF s.leader_node_id \in CpIds(s) /\ later # {}
        THEN Min(later) ELSE Min(CpIds(s))

-----------------------------------------------------------------------------
(* Processes and requests.                                                 *)

Idle == [pc |-> "idle", caller |-> "none", urls |-> {}, rest |-> {},
         trusted |-> NoKey, before |-> <<>>, diverged |-> FALSE, page |-> <<>>,
         saved |-> NoState, peer |-> 0, outcome |-> "none"]

\* "done": the coroutine goes on at once and no handler runs before it awaits
\* again.  "failed": it goes on once the answer, or its absence, has come in.
Running(n) == task[n].pc = "done"
Returned(n) == task[n].pc \in {"done", "failed"}

\* handle_request: a broken node refuses everything, heartbeats too.
Answers(p) == proc[p] = "up" /\ ~broken[p]
CanAnswer(p) == Answers(p) /\ ~Running(p)
CanFail(p) == ~Answers(p) \/ "loss" \in Faults

\* Leader-only routes, and the control-plane peers they are open to.
Handles(p) == CanAnswer(p) /\ Leads(p)
ServesEventsTo(p, n) == Leads(p) /\ n \in CpIds(Held(p))

\* A call of sync_events_from_urls; without URLs it returns at once.
StartSync(n, caller, urls, rest, trusted, saved, peer) ==
    task' = [task EXCEPT ![n] =
               [Idle EXCEPT !.pc = IF urls = {} THEN "done" ELSE "fetch",
                            !.caller = caller, !.urls = urls, !.rest = rest,
                            !.trusted = trusted, !.before = Fingerprint(Held(n)),
                            !.saved = saved, !.peer = peer]]

Rest(n) == task' = [task EXCEPT ![n] = Idle]

-----------------------------------------------------------------------------
(* Init: a group whose first node has taken in the others one by one, and  *)
(* whose followers have replayed its log.  Every other node is fresh.      *)

FirstLeader == Min(Initial)

FormedState(k) ==
    LET joined == {n \in Initial : Cardinality({m \in Initial : m <= n}) <= k}
    IN  [BootstrapState(FirstLeader, 0) EXCEPT
           !.version = k,
           !.control_planes = {Member(n) : n \in joined},
           !.endpoints = joined]

FormedLog ==
    [k \in 1 .. Cardinality(Initial) |->
        IF k = 1 THEN GroupEvent("state", FirstLeader, FirstLeader, FormedState(1))
        ELSE GroupEvent("joined", FirstLeader,
                 CHOOSE n \in Initial : Cardinality({m \in Initial : m <= n}) = k,
                 FormedState(k))]

Init ==
    /\ disk = [n \in Node |->
         IF n \in Initial
         THEN [st |-> [FormedState(Cardinality(Initial)) EXCEPT
                          !.leader_signature = IF n = FirstLeader THEN @ ELSE NoKey],
               log |-> FormedLog, rbac |-> NoRbac]
         ELSE [st |-> NoState, log |-> <<>>, rbac |-> NoRbac]]
    /\ proc = [n \in Node |-> IF n \in Initial THEN "up" ELSE "down"]
    /\ broken = [n \in Node |-> FALSE]
    /\ task = [n \in Node |-> Idle]
    /\ clock = 0
    /\ crashes = 0

-----------------------------------------------------------------------------
(* Handlers of the leader.  Each saves the new state, then appends to the  *)
(* log; the process may die between the two.                               *)

\* What a crash leaves of a node: its storage.
Stop(n) ==
    /\ proc' = [proc EXCEPT ![n] = "down"]
    /\ broken' = [broken EXCEPT ![n] = FALSE]
    /\ crashes' = crashes + 1

CanCrash(kind) == kind \in Faults /\ crashes < MaxCrashes /\ clock <= CrashUntil

Mutate(l, s, ev) ==
    /\ disk' = [disk EXCEPT ![l].st = s, ![l].log = Append(@, ev)]
    /\ UNCHANGED <<proc, broken, clock, crashes>>

MutateAndCrash(l, s) ==
    /\ CanCrash("op_crash")
    /\ disk' = [disk EXCEPT ![l].st = s]
    /\ Stop(l)
    /\ Rest(l)
    /\ UNCHANGED clock

MembershipRequest(l, kind) ==
    /\ kind \in Requests
    /\ Handles(l)
    /\ Held(l).version < MaxVersion

\* Mutant: the URLs of a runtime are not dropped.
JoinedStateKeepsUrls(l, n) ==
    LET s == WithNode(Held(l), n)
    IN  NextState(Held(l), l, [s EXCEPT !.endpoints = @ \cup {n}], Held(l).leader_epoch, 1)

\* apply_join for node n; its bootstrap token is valid and used up.
JoinedState(l, n) ==
    LET s == WithNode(Held(l), n)
        e == (s.endpoints \ {n}) \cup (IF n \in Node THEN {n} ELSE {})
    IN  NextState(Held(l), l, [s EXCEPT !.endpoints = e], Held(l).leader_epoch, 1)

RevokedState(l, n) ==
    NextState(Held(l), l, WithoutNode(Held(l), n), Held(l).leader_epoch, 1)

\* update_node_endpoints: the node publishes URLs, or takes all of them back.
EndpointsState(l, n, published) ==
    LET e == (Held(l).endpoints \ {n}) \cup (IF published THEN {n} ELSE {})
    IN  NextState(Held(l), l, [Held(l) EXCEPT !.endpoints = e], Held(l).leader_epoch, 1)

RuntimeJoin(l, r) ==
    /\ MembershipRequest(l, "runtime")
    /\ LET s == JoinedState(l, r)
       IN  \/ /\ Mutate(l, s, GroupEvent("joined", l, r, s))
              /\ UNCHANGED task
           \/ MutateAndCrash(l, s)

RevokeNode(l, n) ==
    /\ MembershipRequest(l, "revoke")
    /\ n \in KnownIds(Held(l)) \ {Held(l).leader_node_id}
    /\ LET s == RevokedState(l, n)
       IN  \/ /\ Mutate(l, s, GroupEvent("revoked", l, n, s))
              /\ UNCHANGED task
           \/ MutateAndCrash(l, s)

UpdateNodeEndpoints(l, n, published) ==
    /\ MembershipRequest(l, "endpoints")
    /\ n \in CpIds(Held(l))
    /\ LET s == EndpointsState(l, n, published)
       IN  \/ /\ Mutate(l, s, GroupEvent("endpoints", l, n, s))
              /\ UNCHANGED task
           \/ MutateAndCrash(l, s)

\* Mutant: a node that does not lead records the audit event as well.
GuiClusterReadAnywhere(l) ==
    /\ "gui" \in Requests
    /\ CanAnswer(l)
    /\ Len(disk[l].log) < MaxLog
    /\ disk' = [disk EXCEPT ![l].log = Append(@, AuditEvent(l))]
    /\ UNCHANGED <<proc, broken, task, clock, crashes>>

\* handle_gui_cluster: reading the snapshot appends an audit event.
GuiClusterRead(l) ==
    /\ "gui" \in Requests
    /\ Handles(l)
    /\ Len(disk[l].log) < MaxLog
    /\ disk' = [disk EXCEPT ![l].log = Append(@, AuditEvent(l))]
    /\ UNCHANGED <<proc, broken, task, clock, crashes>>

\* handle_resources_apply asks for no leader: any node that answers writes
\* its RBAC state and appends to its own log.
ResourcesApply(n) ==
    /\ IF Leads(n) THEN "apply" \in Requests ELSE "follower_apply" \in Requests
    /\ CanAnswer(n)
    /\ Len(disk[n].log) < MaxLog
    /\ LET new == [version |-> disk[n].rbac.version + 1, writer |-> n]
       IN  \/ /\ disk' = [disk EXCEPT ![n].rbac = new, ![n].log = Append(@, RbacEvent(n, new))]
              /\ UNCHANGED <<proc, broken, task, crashes>>
           \/ /\ CanCrash("op_crash")
              /\ disk' = [disk EXCEPT ![n].rbac = new]
              /\ Stop(n)
              /\ Rest(n)
    /\ UNCHANGED clock

-----------------------------------------------------------------------------
(* sync_events_from_urls.  One URL after the other, in endpoint order,     *)
(* until one of them has been read to its end.                             *)

Url(n) == Min(task[n].urls)

\* sync_control_plane_events reports, the failover path asks to raise.
RaisesDivergence(caller) == caller \in {"leader", "renew", "peers", "others", "candidate"}

\* Leave URL u: to the next one, or back to the caller as `end` says.
NextUrl(n, u, diverged, end) ==
    LET left == task[n].urls \ {u}
    IN  task' = [task EXCEPT ![n].urls = left,
                             ![n].page = <<>>,
                             ![n].diverged = diverged,
                             ![n].pc = IF left = {} THEN end ELSE "fetch",
                             ![n].outcome =
                                 IF left = {} /\ diverged /\ RaisesDivergence(task[n].caller)
                                 THEN "diverged" ELSE "none"]

\* Return to the caller; the outcome says whether the fingerprint changed.
SyncCompleted(n, s) ==
    task' = [task EXCEPT ![n].pc = "done",
                         ![n].page = <<>>,
                         ![n].outcome = IF Fingerprint(s) = task[n].before
                                        THEN "none" ELSE "synced"]

FetchPage(n) ==
    /\ task[n].pc = "fetch"
    /\ LET p == Url(n)
       IN  /\ CanAnswer(p)
           /\ ServesEventsTo(p, n)
           /\ LET page == EventPage(disk[p], p, LastEventId(disk[n]))
              IN  task' = [task EXCEPT ![n].pc = "apply", ![n].page = page]
    /\ UNCHANGED <<disk, proc, broken, clock, crashes>>

FetchFails(n) ==
    /\ task[n].pc = "fetch"
    /\ LET p == Url(n)
       IN  /\ CanFail(p) \/ (CanAnswer(p) /\ ~ServesEventsTo(p, n))
           /\ NextUrl(n, p, task[n].diverged, "failed")
    /\ UNCHANGED <<disk, proc, broken, clock, crashes>>

\* Mutant: off by one, a history of the same length counts as ahead.
DivergesWhenLevel(r, page) == LastEventId(r) >= page.last_event_id /\ page.last_event_id # 0

\* The local history is ahead of the page, or ends in another event.
Diverges(r, page) ==
    \/ LastEventId(r) > page.last_event_id /\ page.last_event_id # 0
    \/ /\ LastEventId(r) = page.last_event_id
       /\ LastEventId(r) # 0
       /\ LastEventNonce(r) # page.last_event_nonce

PeerLeaderIsNewer(s, page) ==
    /\ s # NoState
    /\ \/ page.leader_epoch > s.leader_epoch
       \/ page.leader_epoch = s.leader_epoch /\ page.server # s.leader_node_id

TrustOf(n) == IF task[n].trusted # NoKey THEN task[n].trusted ELSE task[n].page.leader_pubkey

\* The page is examined and applied; nothing is awaited in between.  What
\* has been applied stays, also when the URL is given up afterwards.
ApplyPage(n) ==
    /\ task[n].pc = "apply"
    /\ LET page == task[n].page
           res == ApplyItems(disk[n], page, Len(page.items), TrustOf(n))
           end == res.replica
           stalled == page.has_more /\ LastEventId(end) <= page.after
           mismatch == ~page.has_more /\ StateHash(end) # page.state_hash
       IN  IF Diverges(disk[n], page)
           THEN /\ NextUrl(n, page.server, TRUE, "done")
                /\ UNCHANGED disk
           ELSE /\ disk' = [disk EXCEPT ![n] = end]
                /\ IF ~res.ok \/ stalled \/ mismatch
                   THEN NextUrl(n, page.server, task[n].diverged, "done")
                   ELSE IF page.has_more
                   THEN task' = [task EXCEPT ![n].pc = "fetch", ![n].page = <<>>]
                   ELSE IF PeerLeaderIsNewer(end.st, page)
                   THEN task' = [task EXCEPT ![n].pc = "snapshot"]
                   ELSE SyncCompleted(n, end.st)
    /\ UNCHANGED <<proc, broken, clock, crashes>>

\* The process dies while it applies a page: after k events, and perhaps
\* with the effect of the next one saved but not its log entry.
ApplyPageAndCrash(n, k, torn) ==
    /\ CanCrash("replay_crash")
    /\ task[n].pc = "apply"
    /\ LET page == task[n].page
           res == ApplyItems(disk[n], page, k, TrustOf(n))
           ev == page.items[k + 1]
       IN  /\ k < Len(page.items)
           /\ ~Diverges(disk[n], page)
           /\ res.ok
           /\ disk' = [disk EXCEPT ![n] =
                IF torn /\ page.after + k + 1 > LastEventId(res.replica)
                THEN EffectOf(res.replica, ev, TrustOf(n)) ELSE res.replica]
    /\ Stop(n)
    /\ Rest(n)
    /\ UNCHANGED clock

\* _sync_group_state_from_url: the peer leads a newer term of which the log
\* said nothing; take its signed state.
TakeSnapshot(n) ==
    /\ task[n].pc = "snapshot"
    /\ LET page == task[n].page
           p == page.server
           remote == Held(p)
       IN  \/ /\ CanAnswer(p)
              /\ n \in KnownIds(remote)
              /\ IF Accepts(Held(n), remote, page.leader_pubkey, TRUE)
                 THEN /\ disk' = [disk EXCEPT ![n].st = remote]
                      /\ SyncCompleted(n, remote)
                 ELSE /\ NextUrl(n, p, task[n].diverged, "done")
                      /\ UNCHANGED disk
           \/ /\ CanFail(p) \/ (CanAnswer(p) /\ n \notin KnownIds(remote))
              /\ NextUrl(n, p, task[n].diverged, "failed")
              /\ UNCHANGED disk
    /\ UNCHANGED <<proc, broken, clock, crashes>>

-----------------------------------------------------------------------------
(* check_failover, started by the failover loop.                           *)

CanTick(n) ==
    /\ proc[n] = "up"
    /\ task[n].pc = "idle"
    /\ ~broken[n]
    /\ HasState(n)

PeerUrls(n) == (Held(n).endpoints \cap CpIds(Held(n))) \ {n}

\* The leader renews once half of the lease has gone, after asking its peers.
LeaderTick(n) ==
    /\ CanTick(n)
    /\ Leads(n)
    /\ IsExpired(Held(n), TTL \div 2)
    /\ StartSync(n, "renew", PeerUrls(n), {}, Held(n).leader_pubkey, Held(n), 0)
    /\ UNCHANGED <<disk, proc, broken, clock, crashes>>

LeaderAnswers(n) ==
    LET l == Held(n).leader_node_id
    IN  l \in Held(n).endpoints /\ l \in Node /\ CanAnswer(l)

LeaderSilent(n) ==
    LET l == Held(n).leader_node_id
    IN  l \notin Held(n).endpoints \/ CanFail(l)

\* The heartbeat is answered: sync_control_plane_events.
FollowerTick(n) ==
    /\ CanTick(n)
    /\ ~Leads(n)
    /\ LeaderAnswers(n)
    /\ StartSync(n, "leader", {Held(n).leader_node_id}, {}, Held(n).leader_pubkey, NoState, 0)
    /\ UNCHANGED <<disk, proc, broken, clock, crashes>>

\* No heartbeat and the lease is over: sync_from_peers comes first.
FailoverTick(n) ==
    /\ CanTick(n)
    /\ ~Leads(n)
    /\ LeaderSilent(n)
    /\ IsExpired(Held(n), 0)
    /\ StartSync(n, "peers", PeerUrls(n) \ {Held(n).leader_node_id}, {}, NoKey, NoState, 0)
    /\ UNCHANGED <<disk, proc, broken, clock, crashes>>

\* Mutant: the promoted state is saved without the new epoch.
PromoteInOldTerm(n, from) ==
    LET s == NextState(Held(n), n, from, from.leader_epoch + 1, 1)
    IN  /\ Accepts(Held(n), s, NoKey, TRUE)
        /\ Mutate(n, [s EXCEPT !.leader_epoch = from.leader_epoch],
                  GroupEvent("promoted", n, n, s))
        /\ Rest(n)

\* replace_state of the node's own next state, which validation may refuse,
\* and then the event: the process may die between the two.
Promote(n, from) ==
    LET s == NextState(Held(n), n, from, from.leader_epoch + 1, 1)
    IN  IF Accepts(Held(n), s, NoKey, TRUE)
        THEN \/ Mutate(n, s, GroupEvent("promoted", n, n, s)) /\ Rest(n)
             \/ MutateAndCrash(n, s)
        ELSE Rest(n) /\ UNCHANGED <<disk, proc, broken, clock, crashes>>

\* The renewal writes the membership read before the peers were asked.
RenewLease(n) ==
    LET s == NextState(Held(n), n, task[n].saved, Held(n).leader_epoch, 0)
    IN  IF Accepts(Held(n), s, NoKey, TRUE)
        THEN disk' = [disk EXCEPT ![n].st = s]
        ELSE UNCHANGED disk

Returns(n, caller) == Returned(n) /\ task[n].caller = caller

\* EventHistoryAheadError: mark_broken.
ResumeDiverged(n) ==
    /\ Returned(n)
    /\ task[n].outcome = "diverged"
    /\ broken' = [broken EXCEPT ![n] = TRUE]
    /\ Rest(n)
    /\ UNCHANGED <<disk, proc, clock, crashes>>

ResumeRenewal(n) ==
    /\ Returns(n, "renew")
    /\ task[n].outcome # "diverged"
    /\ LET old == task[n].saved
           newer == \/ ~Leads(n)
                    \/ Held(n).leader_epoch > old.leader_epoch
                    \/ Held(n).version > old.version
       IN  IF task[n].outcome = "synced" /\ newer THEN UNCHANGED disk ELSE RenewLease(n)
    /\ Rest(n)
    /\ UNCHANGED <<proc, broken, clock, crashes>>

ResumeFollower(n) ==
    /\ Returns(n, "leader") \/ Returns(n, "candidate")
    /\ task[n].outcome # "diverged"
    /\ Rest(n)
    /\ UNCHANGED <<disk, proc, broken, clock, crashes>>

\* After sync_from_peers: if the lease is still over, ask everybody.
ResumePeers(n) ==
    /\ Returns(n, "peers")
    /\ task[n].outcome # "diverged"
    /\ IF IsExpired(Held(n), 0) /\ Held(n).control_planes # {}
       THEN StartSync(n, "others", Held(n).endpoints \ {n}, {}, NoKey,
                      Held(n), FailoverCandidate(Held(n)))
       ELSE Rest(n)
    /\ UNCHANGED <<disk, proc, broken, clock, crashes>>

\* Mutant: promotes whether or not it is this node's turn.
ResumeOthersOutOfTurn(n) ==
    /\ Returns(n, "others")
    /\ task[n].outcome # "diverged"
    /\ LET old == task[n].saved
           fresh == task[n].outcome = "synced"
           from == IF fresh THEN Held(n) ELSE old
       IN  IF fresh /\ (~IsExpired(from, 0) \/ from.leader_node_id # old.leader_node_id)
           THEN Rest(n) /\ UNCHANGED <<disk, proc, broken, clock, crashes>>
           ELSE Promote(n, from)

\* After the last round: give way to a new leader or a renewed lease,
\* promote if it is this node's turn, or look for the candidate.
ResumeOthers(n) ==
    /\ Returns(n, "others")
    /\ task[n].outcome # "diverged"
    /\ LET old == task[n].saved
           fresh == task[n].outcome = "synced"
           from == IF fresh THEN Held(n) ELSE old
       IN  IF fresh /\ (~IsExpired(from, 0) \/ from.leader_node_id # old.leader_node_id)
           THEN Rest(n) /\ UNCHANGED <<disk, proc, broken, clock, crashes>>
           ELSE IF task[n].peer = n
           THEN Promote(n, from)
           ELSE /\ task' = [task EXCEPT ![n].pc = "heartbeat", ![n].caller = "none",
                                        ![n].rest = old.endpoints \ {n},
                                        ![n].saved = from]
                /\ UNCHANGED <<disk, proc, broken, clock, crashes>>

\* The candidate is alive: look whether it leads already, and wait.
CandidateAnswers(n) ==
    /\ task[n].pc = "heartbeat"
    /\ LET c == task[n].peer
       IN  /\ c \in task[n].saved.endpoints
           /\ CanAnswer(c)
           /\ StartSync(n, "candidate", {c}, {}, NoKey, NoState, 0)
    /\ UNCHANGED <<disk, proc, broken, clock, crashes>>

\* The candidate is silent: ask the others, the candidate among them, again.
CandidateSilent(n) ==
    /\ task[n].pc = "heartbeat"
    /\ LET c == task[n].peer
       IN  c \notin task[n].saved.endpoints \/ CanFail(c)
    /\ task' = [task EXCEPT ![n].pc = IF task[n].rest = {} THEN "failed" ELSE "ping",
                            ![n].caller = "alone",
                            ![n].urls = task[n].rest]
    /\ UNCHANGED <<disk, proc, broken, clock, crashes>>

\* Somebody answers: wait, "maybe they will promote".
OtherAnswers(n) ==
    /\ task[n].pc = "ping"
    /\ CanAnswer(Url(n))
    /\ Rest(n)
    /\ UNCHANGED <<disk, proc, broken, clock, crashes>>

OtherSilent(n) ==
    /\ task[n].pc = "ping"
    /\ CanFail(Url(n))
    /\ LET left == task[n].urls \ {Url(n)}
       IN  task' = [task EXCEPT ![n].urls = left, ![n].pc = IF left = {} THEN "failed" ELSE "ping"]
    /\ UNCHANGED <<disk, proc, broken, clock, crashes>>

\* Nobody answered: "all peers down, promoting self as leader".
AllPeersDown(n) ==
    /\ Returns(n, "alone")
    /\ Promote(n, task[n].saved)

-----------------------------------------------------------------------------
(* Starting a node, joining a group, crashing.                             *)

\* serve_forever without a group state: bootstrap a group of one's own.
BootstrapGroup(n) ==
    /\ proc[n] = "down"
    /\ n \in Founder
    /\ ~HasState(n)
    /\ LET s == BootstrapState(n, clock)
       IN  \/ /\ disk' = [disk EXCEPT ![n].st = s,
                                      ![n].log = Append(@, GroupEvent("state", n, n, s))]
              /\ proc' = [proc EXCEPT ![n] = "up"]
              /\ UNCHANGED <<broken, task, clock, crashes>>
           \/ MutateAndCrash(n, s)

\* serve_forever with one: sync_on_startup asks one peer after the other.
StartNode(n) ==
    /\ "restart" \in Faults
    /\ proc[n] = "down"
    /\ HasState(n)
    /\ proc' = [proc EXCEPT ![n] = "starting"]
    /\ LET first == {p \in PeerUrls(n) : p = Min(PeerUrls(n))}
       IN  StartSync(n, "startup", first, PeerUrls(n) \ first, NoKey, NoState, 0)
    /\ UNCHANGED <<disk, broken, clock, crashes>>

ResumeStartup(n) ==
    /\ Returns(n, "startup")
    /\ IF task[n].outcome = "synced" \/ task[n].rest = {}
       THEN /\ proc' = [proc EXCEPT ![n] = "up"]
            /\ Rest(n)
       ELSE /\ LET next == Min(task[n].rest)
               IN  StartSync(n, "startup", {next}, task[n].rest \ {next}, NoKey, NoState, 0)
            /\ UNCHANGED proc
    /\ UNCHANGED <<disk, broken, clock, crashes>>

\* join_peer, run by the command line beside no server: a node that finds
\* itself in the membership it knows syncs before it joins.
JoinPeer(n, l) ==
    /\ "join" \in Requests
    /\ proc[n] = "down"
    /\ n # l /\ Leads(l) /\ Held(l).version < MaxVersion
    /\ proc' = [proc EXCEPT ![n] = "cli"]
    /\ IF HasState(n) /\ n \in KnownIds(Held(n))
       THEN StartSync(n, "rejoin", {l}, {}, l, NoState, l)
       ELSE task' = [task EXCEPT ![n] = [Idle EXCEPT !.pc = "join", !.peer = l]]
    /\ UNCHANGED <<disk, broken, clock, crashes>>

\* handle_join at the leader; the answer may be lost on its way back.
HandleJoin(n) ==
    /\ task[n].pc = "join"
    /\ LET l == task[n].peer
           s == JoinedState(l, n)
       IN  /\ MembershipRequest(l, "join")
           /\ \/ /\ Mutate(l, s, GroupEvent("joined", l, n, s))
                 /\ task' = [task EXCEPT ![n].pc = "joined", ![n].saved = s]
              \/ /\ "loss" \in Faults
                 /\ Mutate(l, s, GroupEvent("joined", l, n, s))
                 /\ task' = [task EXCEPT ![n].pc = "refused"]
              \/ MutateAndCrash(l, s)

\* No answer, a node that does not lead, or a token that is not accepted.
JoinFails(n) ==
    /\ task[n].pc \in {"join", "refused"}
    /\ proc' = [proc EXCEPT ![n] = "down"]
    /\ Rest(n)
    /\ UNCHANGED <<disk, broken, clock, crashes>>

\* The answer: its state is taken with the given leader key as the anchor.
FinishJoin(n) ==
    /\ task[n].pc = "joined"
    /\ LET l == task[n].peer
           s == task[n].saved
       IN  IF IF HasState(n) THEN Accepts(Held(n), s, l, TRUE) ELSE AcceptsFirst(s, l, TRUE)
           THEN /\ disk' = [disk EXCEPT ![n].st = s]
                /\ StartSync(n, "join", {l}, {}, l, NoState, l)
                /\ UNCHANGED proc
           ELSE /\ proc' = [proc EXCEPT ![n] = "down"]
                /\ Rest(n)
                /\ UNCHANGED disk
    /\ UNCHANGED <<broken, clock, crashes>>

ResumeJoin(n) ==
    /\ \/ /\ Returns(n, "rejoin")
          /\ task' = [task EXCEPT ![n] = [Idle EXCEPT !.pc = "join", !.peer = task[n].peer]]
          /\ UNCHANGED proc
       \/ /\ Returns(n, "join")
          /\ proc' = [proc EXCEPT ![n] = "down"]
          /\ Rest(n)
    /\ UNCHANGED <<disk, broken, clock, crashes>>

Crash(n) ==
    /\ CanCrash("crash")
    /\ proc[n] # "down"
    /\ Stop(n)
    /\ Rest(n)
    /\ UNCHANGED <<disk, clock>>

AdvanceClock ==
    /\ clock < MaxTime
    /\ clock' = clock + 1
    /\ UNCHANGED <<disk, proc, broken, task, crashes>>

-----------------------------------------------------------------------------

Handler(n) ==
    \/ \E r \in Runtime : RuntimeJoin(n, r)
    \/ \E m \in Node \cup Runtime : RevokeNode(n, m)
    \/ \E m \in Node, published \in BOOLEAN : UpdateNodeEndpoints(n, m, published)
    \/ GuiClusterRead(n)
    \/ ResourcesApply(n)

\* The steps a process takes by itself once it runs.
Coroutine(n) ==
    \/ LeaderTick(n) \/ FollowerTick(n) \/ FailoverTick(n)
    \/ FetchPage(n) \/ FetchFails(n) \/ ApplyPage(n) \/ TakeSnapshot(n)
    \/ ResumeDiverged(n) \/ ResumeRenewal(n) \/ ResumeFollower(n)
    \/ ResumePeers(n) \/ ResumeOthers(n)
    \/ CandidateAnswers(n) \/ CandidateSilent(n)
    \/ OtherAnswers(n) \/ OtherSilent(n) \/ AllPeersDown(n)
    \/ ResumeStartup(n)
    \/ HandleJoin(n) \/ JoinFails(n) \/ FinishJoin(n) \/ ResumeJoin(n)

Environment(n) ==
    \/ BootstrapGroup(n)
    \/ StartNode(n)
    \/ \E l \in Node : JoinPeer(n, l)
    \/ Crash(n)
    \/ \E k \in 0 .. PageLimit - 1, torn \in BOOLEAN : ApplyPageAndCrash(n, k, torn)

Next ==
    \/ \E n \in Node : Handler(n) \/ Coroutine(n) \/ Environment(n)
    \/ AdvanceClock

Spec == Init /\ [][Next]_vars

\* The failover loop runs again and again whatever happens (run_failover_loop
\* catches every exception), and a request is answered or times out.  A peer
\* whose own coroutine holds its event loop answers when that one awaits, so
\* the answer is enabled again and again rather than all the time: strong
\* fairness.  A network that loses messages does not lose every one of them:
\* a page that is asked for again and again is delivered in the end.  And time
\* passes.
FairSpec ==
    /\ Spec
    /\ \A n \in Node : SF_vars(Coroutine(n)) /\ SF_vars(FetchPage(n))
    /\ WF_vars(AdvanceClock)

-----------------------------------------------------------------------------
(* Properties.                                                             *)

TypeOK ==
    /\ disk \in [Node -> Replica]
    /\ proc \in [Node -> {"down", "cli", "starting", "up"}]
    /\ broken \in [Node -> BOOLEAN]
    /\ DOMAIN task = Node
    /\ clock \in 0 .. MaxTime
    /\ crashes \in 0 .. MaxCrashes

\* Whatever a node replays, renews, promotes, snapshots or finds after a
\* crash, the state it stores never ranks below one it stored before
\* (StateManager.replace_state).
StoredStateNeverRegresses ==
    [][ \A n \in Node : HasState(n) =>
          /\ disk'[n].st # NoState
          /\ disk'[n].st.leader_epoch >= Held(n).leader_epoch
          /\ ~RankBelow(disk'[n].st, Held(n)) ]_vars

\* Nobody follows a node into a term that node has not stored itself: a
\* promotion is saved before any peer can read of it (check_failover).
LeaderHoldsTerm ==
    \A n \in Node : HasState(n) =>
        LET l == Held(n).leader_node_id
        IN  HasState(l) /\ Held(l).leader_epoch >= Held(n).leader_epoch

-----------------------------------------------------------------------------
(* Replication.                                                            *)

Follows(n) == HasState(n) /\ ~Leads(n)
LeaderOf(n) == Held(n).leader_node_id
Membership(s) == <<s.version, s.control_planes, s.runtimes, s.endpoints>>

\* The founder of the group leads as long as the clock stands still.
Log == INSTANCE ReplicatedLog WITH
           log <- [n \in Node |-> disk[n].log],
           Leader <- CHOOSE n \in Founder : TRUE,
           Event <- Event

\* Event synchronisation implements ReplicatedLog: whatever pages a follower
\* is served, however it joins and wherever it crashes, its log only ever
\* grows by the next events of its leader's, and is the beginning of it
\* (docs/sync-nodes.md: "Events must be contiguous").
Replicates == Log!Spec

\* A follower that has replayed the whole log of its leader holds the
\* membership the leader serves: the diffs of apply_remote_event rebuild what the
\* handlers of the leader saved (docs/events.md: "deterministic replication").
CaughtUpAgrees ==
    \A n \in Node :
        Follows(n) /\ proc[LeaderOf(n)] = "up" /\ disk[n].log = disk[LeaderOf(n)].log
            => Membership(Held(n)) = Membership(Held(LeaderOf(n)))

\* No history diverges, so nobody goes out of service for good (mark_broken).
NeverBroken == \A n \in Node : ~broken[n]

\* A running follower of a running leader, each of which knows the other.
InReach(n) ==
    /\ Follows(n)
    /\ proc[n] = "up"
    /\ proc[LeaderOf(n)] = "up"
    /\ LeaderOf(n) \in Held(n).endpoints
    /\ n \in CpIds(Held(LeaderOf(n)))

\* Every follower that runs, and that its leader counts as a member, ends up
\* with the whole log (run_failover_loop, sync_control_plane_events).
EventuallySynced ==
    <>[](\A n \in Node : InReach(n) => disk[n].log = disk[LeaderOf(n)].log)

-----------------------------------------------------------------------------
(* Elections.                                                              *)

Serves(n) == Answers(n) /\ Leads(n)

\* No two nodes serve as the leader of one term (check_failover: "ensure no one else has already
\* promoted themselves").
OneLeaderPerTerm ==
    \A n, m \in Node :
        Serves(n) /\ Serves(m) /\ Held(n).leader_epoch = Held(m).leader_epoch => n = m

\* While a node runs, the group gets a leader that serves, and keeps one
\* (check_failover: "Leader is dead ... Try to failover").
EventuallyLed ==
    <>[]((\E n \in Node : Answers(n)) => \E n \in Node : Serves(n))

\* A lease renewal changes nothing but the lease (check_failover: "No event
\* for just a lease renewal (no meaningful change)").
RenewalKeepsMembership ==
    [][\A n \in Node :
         task[n].caller = "renew" /\ Leads(n) /\ Held(n).version = disk'[n].st.version
             => Membership(disk'[n].st) = Membership(Held(n))]_vars

=============================================================================
