---- MODULE ClusterData ----
(***************************************************************************)
(* What the desktop GUI holds of one cluster (useClusterData.ts): the      *)
(* event timeline, page by page, and the snapshot, with the polling of     *)
(* useAppEffects.ts and the fetch indicator of the status bar.             *)
(*                                                                         *)
(* Requests go through the Tauri host and are answered in any order.  What *)
(* a handler does between two awaits is one step, and React renders its    *)
(* state before the next one, except where the code keeps a ref of its own *)
(* beside the state: `ref' is such a copy, brought up to date by an effect.*)
(***************************************************************************)
EXTENDS Naturals, Sequences, FiniteSets, FiniteSetsExt, SequencesExt

CONSTANTS
  PageSize,    \* eventPageSize
  MaxLog,      \* bound on the events of the server
  MaxInflight, \* bound on snapshots polled while others are unanswered
  MaxEdits,    \* bound on connecting and deleting the cluster
  MaxFails     \* bound on failed requests

ASSUME ClusterDataAssumption ==
  /\ PageSize \in Nat \ {0}
  /\ {MaxLog, MaxInflight, MaxEdits, MaxFails} \subseteq Nat

VARIABLES
  log,        \* number of audit events of the server, numbered from 1
  stored,     \* the cluster is among connectionConfigs
  view,       \* kind of its tab that is active: Event, Node or another
  events,     \* clusterEvents[clusterId], or NoCache
  ref,        \* clusterEventsRef.current[clusterId]
  busy,       \* clusterEventLoadingRef.current[clusterId]
  snapshot,   \* clusterSnapshots has an entry
  snapLoading, \* clusterSnapshotLoading[clusterId]
  snapError,  \* clusterSnapshotErrors[clusterId] is a message
  inflight,   \* requests not yet answered
  indicator,  \* useDataFetchIndicator
  clearing,   \* the cluster is deleted, its data not yet cleared
  edits, fails, \* counted for the bounds
  torn,       \* history: an answer was applied that cannot join up
  failed      \* history: a request of the last burst of them failed

vars == <<log, stored, view, events, ref, busy, snapshot, snapLoading,
          snapError, inflight, indicator, clearing, edits, fails, torn,
          failed>>

NoCache == [cached |-> FALSE]
None == 0   \* no sequence: events are numbered from 1

Cache(hasMore, items, loading) ==
  [cached |-> TRUE, hasMore |-> hasMore, items |-> items, loading |-> loading]

Items(c) == IF c.cached THEN c.items ELSE {}
HasMore(c) == IF c.cached THEN c.hasMore ELSE TRUE
\* oldestSequence is recomputed from the items whenever they change
OldestSequence(c) == IF Items(c) = {} THEN None ELSE Min(Items(c))
Loading(c) == c.cached /\ c.loading

\* Mutants: the page stops one event short of what is cached; the oldest event
\* is taken for the end.
PageSkipsOne(n, before) ==
  LET end == CASE before = None -> n [] before = 2 -> 1
               [] OTHER -> Min({n, before - 2})
      start == IF end > PageSize THEN end - PageSize ELSE 0
  IN  [items |-> (start + 1)..end, has_more |-> start > 0]
PageEndsEarly(n, before) ==
  LET end == IF before = None THEN n ELSE Min({n, before - 1})
      start == IF end > PageSize THEN end - PageSize ELSE 0
  IN  [items |-> (start + 1)..end, has_more |-> start > 1]
\* What the server answers when it has n events.
Page(n, before) ==
  LET end == IF before = None THEN n ELSE Min({n, before - 1})
      start == IF end > PageSize THEN end - PageSize ELSE 0
  IN  [items |-> (start + 1)..end, has_more |-> start > 0]

-----------------------------------------------------------------------------
(* useDataFetchIndicator *)

beginDataFetch(i) == [i EXCEPT !.count = @ + 1, !.fetching = TRUE]

markDataFetchError(i) == [i EXCEPT !.hadError = TRUE]

endDataFetch(i) ==
  LET n == IF i.count > 0 THEN i.count - 1 ELSE 0
  IN  IF n # 0 THEN [i EXCEPT !.count = n]
      ELSE [count |-> 0, hadError |-> FALSE, fetching |-> FALSE,
            error |-> i.hadError]

\* What the status bar says.
StatusBar == IF indicator.fetching THEN "fetch"
             ELSE IF indicator.error THEN "error" ELSE "ready"

-----------------------------------------------------------------------------
(* fetchEventPageForCluster *)

Events(mode, before, fresh) ==
  [what |-> mode, before |-> before, asof |-> log, fresh |-> fresh]

\* Mutant: the guard of the last page lost its negation.
CanFetchAtEnd(mode) ==
  /\ stored /\ ~busy
  /\ ~(mode = "older" /\ ref.cached /\ ref.hasMore)
CanFetchEvents(mode) ==
  /\ stored
  /\ ~busy
  /\ ~(mode = "older" /\ ref.cached /\ ~ref.hasMore)

fetchEventPage(mode) ==
  LET next == Cache(HasMore(events), Items(events), TRUE)
  IN  /\ CanFetchEvents(mode)
      /\ inflight' = Append(inflight,
           Events(mode, IF mode = "older" THEN OldestSequence(ref) ELSE None,
                  /\ mode # "older" \/ ref = events
                  /\ \A i \in DOMAIN inflight : inflight[i].what = "snapshot"))
      /\ busy' = TRUE
      /\ indicator' = beginDataFetch(indicator)
      /\ failed' = (failed /\ inflight # <<>>)
      /\ events' = next
      /\ ref' = next
      /\ UNCHANGED <<log, stored, view, snapshot, snapLoading, snapError,
                     edits, fails, torn, clearing>>

\* The page merged into what is cached now.
Merge(mode, c, page) ==
  Cache(IF mode = "older" \/ Items(c) = {} THEN page.has_more ELSE HasMore(c),
        Items(c) \cup page.items, FALSE)

\* More events have appeared since the newest cached one than fit on a page.
Outrun(mode, n) ==
  /\ mode # "older" /\ Items(events) # {}
  /\ n - Max(Items(events)) > PageSize

EventPageArrives(i) ==
  LET f == inflight[i]
  IN  /\ f.what # "snapshot"
      /\ \E n \in f.asof..log :
           LET next == Merge(f.what, events, Page(n, f.before))
           IN  /\ events' = next
               /\ ref' = next
               /\ torn' = (torn \/ ~f.fresh \/ Outrun(f.what, n))
      /\ busy' = FALSE
      /\ inflight' = RemoveAt(inflight, i)
      /\ indicator' = endDataFetch(indicator)
      /\ UNCHANGED <<log, stored, view, snapshot, snapLoading, snapError,
                     edits, fails, failed, clearing>>

\* Mutant: the failure leaves the pager loading.
FailedStillLoading(c) == Cache(HasMore(c), Items(c), TRUE)
FailedPage(c) == Cache(HasMore(c), Items(c), FALSE)

EventPageFails(i) ==
  LET next == FailedPage(events)
  IN  /\ fails < MaxFails
      /\ fails' = fails + 1
      /\ inflight[i].what # "snapshot"
      /\ events' = next
      /\ ref' = next
      /\ busy' = FALSE
      /\ inflight' = RemoveAt(inflight, i)
      /\ indicator' = endDataFetch(markDataFetchError(indicator))
      /\ failed' = TRUE
      /\ UNCHANGED <<log, stored, view, snapshot, snapLoading, snapError,
                     edits, torn, clearing>>

\* The effect that brings the ref up to date.
SyncRef ==
  /\ ref # events
  /\ ref' = events
  /\ UNCHANGED <<log, stored, view, events, busy, snapshot, snapLoading,
                 snapError, inflight, indicator, edits, fails, torn, failed,
                 clearing>>

-----------------------------------------------------------------------------
(* fetchSnapshotForCluster *)

fetchSnapshot ==
  /\ stored
  /\ snapLoading' = TRUE
  /\ snapError' = FALSE
  /\ indicator' = beginDataFetch(indicator)
  /\ failed' = (failed /\ inflight # <<>>)
  /\ inflight' = Append(inflight, [what |-> "snapshot", before |-> None,
                                   asof |-> 0, fresh |-> TRUE])
  /\ UNCHANGED <<log, stored, view, events, ref, busy, snapshot, edits,
                 fails, torn, clearing>>

\* It also starts a sync of the control-plane URLs, nobody waits for it and it
\* changes the connections only: SyncUrls of module Workspace.
SnapshotArrives(i) ==
  /\ inflight[i].what = "snapshot"
  /\ snapshot' = TRUE
  /\ snapLoading' = FALSE
  /\ inflight' = RemoveAt(inflight, i)
  /\ indicator' = endDataFetch(indicator)
  /\ UNCHANGED <<log, stored, view, events, ref, busy, snapError, edits,
                 fails, torn, failed, clearing>>

SnapshotFails(i) ==
  /\ fails < MaxFails
  /\ fails' = fails + 1
  /\ inflight[i].what = "snapshot"
  /\ snapError' = TRUE
  /\ snapLoading' = FALSE
  /\ inflight' = RemoveAt(inflight, i)
  /\ indicator' = endDataFetch(markDataFetchError(indicator))
  /\ failed' = TRUE
  /\ UNCHANGED <<log, stored, view, events, ref, busy, snapshot, edits,
                 torn, clearing>>

-----------------------------------------------------------------------------
(* useAppEffects: effects and timers of the active tab *)

IsSnapshot(f) == f.what = "snapshot"

activeKindNeedsSnapshot == view # "other"

InitialEffect ==
  /\ view = "Event" /\ Items(events) = {}
  /\ fetchEventPage("initial")

RefreshTimer ==
  /\ view = "Event"
  /\ fetchEventPage("refresh")

\* EventTable: the end of the list is in view (onReachEnd)
LoadMore ==
  /\ view = "Event" /\ events.cached
  /\ events.hasMore /\ ~events.loading
  /\ fetchEventPage("older")

SnapshotEffect ==
  /\ activeKindNeedsSnapshot /\ ~snapshot /\ ~snapLoading
  /\ fetchSnapshot

\* the interval, the refresh shortcut and the retry button
PollSnapshot ==
  /\ activeKindNeedsSnapshot
  /\ Len(SelectSeq(inflight, IsSnapshot)) < MaxInflight
  /\ fetchSnapshot

SwitchTab ==
  /\ view' \in {"Event", "Node", "other"} \ {view}
  /\ UNCHANGED <<log, stored, events, ref, busy, snapshot, snapLoading,
                 snapError, inflight, indicator, edits, fails, torn, failed,
                 clearing>>

-----------------------------------------------------------------------------
(* handleConnectGui and handleDeleteClusterFromEditor *)

\* Answers to what was asked before belong to a cache that is gone.
Outdated == [i \in DOMAIN inflight |-> [inflight[i] EXCEPT !.fresh = FALSE]]

handleConnectGui ==
  /\ edits < MaxEdits
  /\ edits' = edits + 1
  /\ stored' = TRUE
  /\ snapshot' = TRUE
  /\ snapError' = FALSE
  /\ events' = Cache(TRUE, {}, FALSE)
  /\ inflight' = Outdated
  /\ torn' = FALSE
  /\ UNCHANGED <<log, view, ref, busy, snapLoading, indicator, fails,
                 failed, clearing>>

\* deleteClusterFromEditor takes the cluster out of connectionConfigs first
DropConnection ==
  /\ edits < MaxEdits
  /\ edits' = edits + 1
  /\ stored /\ ~clearing
  /\ stored' = FALSE
  /\ clearing' = TRUE
  /\ UNCHANGED <<log, view, events, ref, busy, snapshot, snapLoading,
                 snapError, inflight, indicator, fails, torn, failed>>

\* once the list of connections is reloaded, and the cluster perhaps back
clearClusterData ==
  /\ clearing
  /\ clearing' = FALSE
  /\ snapshot' = FALSE /\ snapError' = FALSE /\ snapLoading' = FALSE
  /\ events' = NoCache
  /\ ref' = NoCache
  /\ busy' = FALSE
  /\ inflight' = Outdated
  /\ torn' = FALSE
  /\ UNCHANGED <<log, stored, view, indicator, edits, fails, failed>>

-----------------------------------------------------------------------------
\* The cluster goes on logging.
ServerLogs ==
  /\ log < MaxLog
  /\ log' = log + 1
  /\ UNCHANGED <<stored, view, events, ref, busy, snapshot, snapLoading,
                 snapError, inflight, indicator, edits, fails, torn, failed,
                 clearing>>

Init ==
  /\ log \in 0..MaxLog
  /\ stored = TRUE
  /\ view = "other"
  /\ events = NoCache
  /\ ref = NoCache
  /\ busy = FALSE
  /\ snapshot = FALSE
  /\ snapLoading = FALSE
  /\ snapError = FALSE
  /\ inflight = <<>>
  /\ indicator = [count |-> 0, hadError |-> FALSE, fetching |-> FALSE,
                  error |-> FALSE]
  /\ edits = 0
  /\ fails = 0
  /\ clearing = FALSE
  /\ torn = FALSE
  /\ failed = FALSE

EventsAnswered == \E i \in DOMAIN inflight : EventPageArrives(i)
SnapshotAnswered == \E i \in DOMAIN inflight : SnapshotArrives(i)

Next ==
  \/ InitialEffect \/ RefreshTimer \/ LoadMore
  \/ SnapshotEffect \/ PollSnapshot \/ SwitchTab
  \/ EventsAnswered \/ SnapshotAnswered
  \/ \E i \in DOMAIN inflight : EventPageFails(i) \/ SnapshotFails(i)
  \/ SyncRef
  \/ handleConnectGui \/ DropConnection \/ clearClusterData
  \/ ServerLogs

Spec == Init /\ [][Next]_vars

\* Effects run after every render, requests are answered in the end, and a
\* table whose end is in view goes on asking for more.
FairSpec ==
  /\ Spec
  /\ WF_vars(InitialEffect) /\ WF_vars(SnapshotEffect) /\ WF_vars(SyncRef)
  /\ SF_vars(LoadMore)
  /\ WF_vars(EventsAnswered) /\ WF_vars(SnapshotAnswered)

-----------------------------------------------------------------------------
CacheType ==
  {NoCache} \cup [cached : {TRUE}, hasMore : BOOLEAN, items : SUBSET (1..MaxLog),
                  loading : BOOLEAN]

TypeOK ==
  /\ log \in 0..MaxLog
  /\ view \in {"Event", "Node", "other"}
  /\ events \in CacheType /\ ref \in CacheType
  /\ {stored, busy, snapshot, snapLoading, snapError, torn, failed,
      clearing} \subseteq BOOLEAN
  /\ inflight \in Seq([what : {"initial", "older", "refresh", "snapshot"},
                       before : 0..MaxLog, asof : 0..MaxLog, fresh : BOOLEAN])
  /\ indicator \in [count : Nat, hadError : BOOLEAN, fetching : BOOLEAN,
                    error : BOOLEAN]

\* The timeline has no hole: as long as no answer to an older request, and no
\* page that the log has outrun, was merged (fetchEventPageForCluster), every
\* event between two cached ones is cached.
NoHole ==
  /\ TypeOK
  /\ ~torn => \A a, b \in Items(events) : a..b \subseteq Items(events)

\* "Scroll to load more" disappears only when the oldest event is cached: no
\* order of pages, refreshes, failures and resets leaves hasMore FALSE early,
\* again unless an answer meant for an earlier cache was merged.
NoFalseEnd ==
  ~torn /\ events.cached /\ ~events.hasMore /\ events.items # {}
    => 1 \in events.items

\* The status bar tells the truth whatever order answers come in: it fetches
\* exactly while requests are under way, and afterwards shows an error exactly
\* if one of the requests that overlapped failed, even if a later one did not.
IndicatorHonest ==
  IF inflight # <<>> THEN StatusBar = "fetch"
  ELSE StatusBar = IF failed THEN "error" ELSE "ready"

\* The views never wait for nothing: a timeline that is loading, or locked by
\* clusterEventLoadingRef, and a snapshot table that says "Loading" have a
\* request under way (else onReachEnd, every later fetch and the effect that
\* asks for the snapshot would be refused for good); and the status bar
\* says so exactly while it is true.
NothingStuck ==
  /\ IndicatorHonest
  /\ Loading(events) \/ busy =>
       \E i \in DOMAIN inflight : inflight[i].what # "snapshot"
  /\ snapLoading => \E i \in DOMAIN inflight : inflight[i].what = "snapshot"

\* If the tab stays open, the cluster stored and no page is torn, the timeline ends up
\* complete down to the oldest event and the snapshot is there.
EventuallyWhole ==
  <>[](view = "Event" /\ stored /\ ~torn) => <>(snapshot /\ (log = 0 \/ 1 \in Items(events)))
====
