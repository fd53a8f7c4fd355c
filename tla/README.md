# Verification of Xenage

Xenage manages a group of control-plane and runtime nodes. One control plane
leads: it signs a *group state* (members, endpoints, version, term, lease),
records every change in an *event log*, and serves both. The other control
planes replay the log and take over when the lease runs out. A desktop GUI
connects to clusters, shows and edits what they hold, and installs node
services on its own machine; a landing site redirects downloads to the releases
that two workflows publish. This directory models these parts in TLA+, checks
them with TLC on small instances and proves what it can with TLAPS. Source
paths below are relative to `src/` of the repository unless they start with
`docs/`, `tests/`, `structures/`, `landing/`, `.github/` or `apps/`;
file names without a path belong to `apps/xenage-gui/src/`.

## 1. Inventory

| Component | State | Operations | Correct when |
|---|---|---|---|
| `StateManager` (`xenage/cluster/state_manager.py`) | the current signed `GroupState`, saved on every change | `bootstrap_state`, `replace_state`, `build_next_state`, `is_expired` | no order of deliveries takes a node back to a version, term or leader it gave up |
| `ControlPlaneEventManager` (`xenage/cluster/control_plane_event_manager.py`) | the event log, contiguous ids, a nonce per event | `record_*`, `event_page`, `apply_remote_event(s)`, `current_state_hash` | replaying the log rebuilds the leader's membership |
| Control-plane handlers (`xenage/nodes/control_plane/state_logic.py`, `control_plane_api/`) | none of their own | join, revoke, endpoints, GUI snapshot, apply, GUI bootstrap | only the leader changes anything, and what it saves is what it logs |
| Failover loop (`check_failover`, `xenage/app/service_runner.py`) | local variables held across awaited requests, `broken_sync_reason` | renew, follow, synchronise, ask for heartbeats, promote | one serving leader per term, and in the end there is one |
| Event synchronisation (`xenage/nodes/control_plane/sync_logic.py`) | the page being applied | `sync_events_from_urls`, `sync_on_startup`, `join_peer` | a follower's log is the beginning of its leader's and ends up equal to it |
| Persistence (`xenage/persistence/`) | one key of a SQLite table per record | save, load | a crash leaves each record old or new |
| Request verification (`xenage/network/http_transport.py`, `xenage/nodes/base.py`) | nonces seen | sign, verify, prune | no signed request is accepted twice |
| Runtime node (`xenage/nodes/runtime/main.py`) | its copy of the state | `connect`, `pull_group_state` | it follows the rightful leader |
| RBAC (`xenage/cluster/rbac_*.py`) | versioned manifests | apply, `can_i` | a version is never lowered; a decision follows the bindings |
| Bootstrap tokens (`xenage/tokens.py`) | issued tokens, in memory or stored | issue, validate, mark used | a token admits once, and not after its expiry |
| GUI API pages (`control_plane_api/urls_logic.py`) | none | pages of the timeline | pages join up without gap or overlap |
| Command line (`xenage/cli*.py`) | client configuration | `connect`, `serve`, ... | |
| GUI cluster polling (`useClusterData.ts`, `useAppEffects.ts`, `useDataFetchIndicator.ts`) | timeline cache, snapshot, loading flags and locks, fetch indicator | fetch a page, fetch the snapshot, poll, load more, clear | the timeline has no hole and no false end; nothing waits for nothing |
| GUI workspace (`useClusterConnections.ts`, `useTabManager.ts`, `useAppViewModel.ts`) | connections, tabs, active tab and cluster | connect, list, delete, synchronise URLs; open, close, drag, detach tabs | tabs, connections and files agree |
| GUI sub-windows and console (`App.tsx`, `AgentConsole.tsx`) | editors and their YAML, which one is applying, console history | open, edit, apply, reorder, close, detach, run a command | tabs and documents stay in step, nothing is applied twice |
| GUI resource tables (`SchemaDataTable.tsx`, `RbacYamlEditor.tsx`) | rows, sort, filter, selection, loads, deletions | load, click, sort, filter, open, create, delete | only what was seen selected is deleted |
| GUI maintenance (`useMaintenanceSettings.ts`, `update.ts`, `standalone.ts`) and the host commands behind it (`apps/xenage-gui/src-tauri/src/main.rs`) | channel, flags, message, status; binaries and services | check, install, force; download the bundle; install, start, stop services | no success is reported that did not happen |
| Install service (`landing/app/api/install`) and release workflows (`.github/workflows`) | the releases on GitHub; the request being answered | resolve a download; delete, create, upload, replace | the redirect leads to a file that is there, of the application asked for |
| Tauri host otherwise, transport, generators, static pages | connections on disk, keys | sign and send requests | |

How the nodes interact. A control-plane node is one asyncio process. An HTTP
handler reads and writes the state manager and the event log without awaiting
anything in between. `run_failover_loop` is a second coroutine of the same
process: it calls `check_failover` every few seconds, and gives up control at
every HTTP request to a peer, so handlers run in the middle of it. Nodes share
nothing but these requests: event pages and snapshots (served by a leader to
known members), heartbeats (served by everybody who is not broken), and joins.
A process may die anywhere, and finds its files again when it is restarted.

How the GUI works. A window is one React application. Its handlers and effects
await commands of the Tauri host, which keeps the connections in files that all
windows share, and asks the cluster. Answers come in any order, and what a
handler captured when it started may be out of date when it goes on: the code
uses functional updates of the state in most places, and captured variables
and refs in some, which is where the properties aim.

How a download works. The route fetches manifests in turn, and the release the
manifest came from when the manifest does not list the machine; two workflows
replace both at the same time.

What is hard. (a) What `check_failover` read before an await and uses after
it. (b) Two nodes in the failover round at once, each before it can see the
other lead. (c) Histories that fork while two leaders coexist, and are compared
afterwards by length, last nonce and hash. (d) State and log saved one after
the other, with a crash in between, on the leader and during replay. (e) Lost
answers to a join that was carried out. (f) A node that joined with a snapshot
newer than the events it then replays. (g) Whether the loops ever come to an
end. (h) Answers applied to a view that has moved on. (i) Flags and locks that
an answer must release. (j) Sequences of commands of which one fails.
`PROJECT.json` lists each of these at its line under `hazards`.

## 2. Modules

    GroupStates  ->  StateManager  ->  StateManagerProofs
        |                 '->  MCStateManager
        '->  EventLog  ->  ControlPlane  ->  MCControlPlane
                                '->  ControlPlaneProofs
    ReplicatedLog  - implemented by ->  ControlPlane (Replicates)
    RequestVerifier  ->  RequestVerifierProofs, MCRequestVerifier
    ClusterData  ->  ClusterDataProofs, MCClusterData
    Workspace  ->  WorkspaceProofs, MCWorkspace
    SubWindows  ->  SubWindowsProofs, MCSubWindows
    SchemaTable  ->  RbacTable  ->  RbacTableProofs, MCRbacTable
    Maintenance  ->  MaintenanceProofs, MCMaintenance
    InstallResolver  ->  MCInstallResolver

### The control plane

**GroupStates** holds the rules of `_expected_signing_keys` and
`validate_new_state` as operators on two states: `Admissible` (continuation,
won conflict, rotation), `Regressed` (what raises
`StateVersionRegressedError`), `SigningKeys`, `Accepts`, `AcceptsFirst`. Ids
and keys are numbers, since the code compares and orders them only; a signature
is the key it verifies under. `RankBelow` is not in the code: it is the order
that acceptance turns out never to lower.

**StateManager** is one state manager under an unrestricted environment: any
state, any order, any repetition, any signer, any trust anchor. `abandoned` is
a history variable: the fingerprints (version, epoch, leader) given up since the last bootstrap.

**EventLog** has the events, `EventPage`, and `apply_remote_event(s)` as
functions from a replica (state, log, RBAC state) to a replica. It keeps the
case distinction of the code: an event that is *taken* changes the state, one
that is *skipped* as a regression is logged and changes nothing, and one that
*raises* is not logged and ends the page. An event whose id leaves a gap behind
the log raises in `_append`, when its effect is already stored. `ApplyItem` is
one turn of the loop over the page, `ApplyItems` that loop.

**ControlPlane** composes nodes. Per node it has `disk` (what survives a crash),
`proc`, `broken`, and `task`, the local variables of the one coroutine that
may be suspended at a request: the failover loop, the startup synchronisation,
or the command line's `join_peer`.

| Action | Code |
|---|---|
| `RuntimeJoin`, `RevokeNode`, `UpdateNodeEndpoints`, `HandleJoin` | `apply_join`, `revoke_node`, `update_node_endpoints` |
| `GuiClusterRead`, `ResourcesApply` | `handle_gui_cluster`, `handle_resources_apply` |
| `LeaderTick`, `FollowerTick`, `FailoverTick`, `Resume*`, `Promote`, `RenewLease` | `check_failover` from one await to the next |
| `CandidateAnswers`, `CandidateSilent`, `OtherAnswers`, `OtherSilent`, `AllPeersDown` | its heartbeat phase |
| `FetchPage`, `FetchFails`, `ApplyPage`, `TakeSnapshot` | `sync_events_from_urls`, `_sync_group_state_from_url` |
| `ResumeDiverged` | `mark_broken` |
| `JoinPeer`, `FinishJoin`, `JoinFails`, `ResumeJoin` | `join_peer` |
| `BootstrapGroup`, `StartNode`, `ResumeStartup` | `initialize_group`, `serve`, `sync_on_startup` |
| `Crash`, `ApplyPageAndCrash`, `MutateAndCrash` | death of the process; between two saves |

**ReplicatedLog** is what synchronisation promises while one node leads: the
leader appends (`Record`), a replica extends its log by the events that come
next in the leader's, any number at a time (`Replicate`), and nothing else
changes a log. `Replicates` of `ControlPlane` states that the logs on disk
behave so, `log` being `[n \in Node |-> disk[n].log]` and the leader the
founder: pages, heartbeats, joins, replays cut short by a crash and restarts
map to one of the two steps or to a stutter.

**RequestVerifier** is the nonce table of one server: `verify(r)` prunes, then
accepts or refuses, as `verify` and `_prune` of `http_transport.py` do. The
deque is a sequence, in order of arrival as in the code; `Drops(k)` says where
the pruning loop stops. The table is the set of its items, from which popping a
key only if its timestamp matches is a set difference. `Restart` empties it. The clock may jump ahead,
and be set back by `Drift`, which must be less than the window. `high`, `at`,
`accepted` and `replayed` are history.

Abstractions of `ControlPlane`, and why they are sound for the properties.

* A request and its handling by the peer are one step, the use of the answer a
  later one. Whatever happens while a request travels can as well happen before
  it is sent or after it is answered, because the sender does nothing in
  between. `pc = "done"` is a coroutine that goes on without awaiting (no
  handler of that node runs before its next step); `pc = "failed"` is one
  whose answer is on its way (handlers may run).
* A lost request and a lost answer differ only when the peer changes something,
  which only a join does: there both exist (`JoinFails`, the second disjunct of
  `HandleJoin`).
* Taking a snapshot asks and replaces in one step; the state served may only
  get newer in between, which the step's choice of moment covers.
* One log entry is a change with the audit records that the same handler
  appends after it. A crash between those leaves a shorter tail of audit
  records and no difference in the state.
* The nonce is the actor. A node never rewrites its log (`LogsOnlyGrow`), so one
  event has a given id and actor, as one has the random nonce of the code.
* A node has one key for life, so key = id. Endpoints are the set of nodes with
  a usable URL, one each, visited in order. Member records carry no endpoints.
* RBAC content is told apart by version and writer; a join's token is
  accepted or not by choice (`JoinFails`).
* The sync-status table is left out: no guard reads it.
* `state_hash` is the content it hashes: log and RBAC state.
* Time is a counter; the lease lasts `TTL` ticks.

### The desktop GUI

What a handler does between two awaits is one step, and React renders its state
before the next input, except where the code reads a ref, a closure or a
variable of its own: those are variables or fields of the models. Requests to
the host and the clusters are sets or sequences of records with what the
handler captured, answered in any order; each may fail. Names, colours,
layout, texts and logging are left out.

**ClusterData** is what the GUI holds of one cluster. `events` is
`clusterEvents[id]`, `ref` the copy in `clusterEventsRef` that an effect brings
up to date, `busy` the lock in `clusterEventLoadingRef`, `inflight` the requests. `Page` is
`handle_gui_events` of the control plane; `fetchEventPage`, `Merge`,
`EventPageArrives`, `EventPageFails` are the stretches of
`fetchEventPageForCluster`, `fetchSnapshot`, `SnapshotArrives`, `SnapshotFails`
those of `fetchSnapshotForCluster`; `InitialEffect`, `SnapshotEffect`,
`RefreshTimer`, `PollSnapshot` the effects, intervals and shortcuts of
`useAppEffects`; `LoadMore` the observer of `EventTable`; `handleConnectGui`,
`DropConnection`, `clearClusterData` what connecting and deleting do to the
data. An event is its number. `torn` marks the two cases in which the code
merges a page that cannot join up (section 6).

**Workspace** is one window: `store` are the host's files, which only this
window changes, `configs`, `tabs`, `active`, `activeCluster` its React state,
`asks` the handlers that wait.

| Action | Code |
|---|---|
| `openResource`, `openSetupTab`, `openSettingsTab`, `CloseTab`, `SwitchTab`, `SelectTabByNumber`, `DragTab` | `useTabManager` and its callers |
| `DetachTab`, `WindowOpens`, `WindowFails` | `detachTabToWindow`, `openTabInWindow` |
| `HostLists`, `loadConnections`, `ListFails` | `loadConnections` |
| `connectGui`, `HostSaves`, `handleConnectGui`, `ConnectFails` | `handleConnectGui` and the answers it awaits |
| `deleteClusterFromEditor`, `HostDeletes`, `ConnectionDropped`, `handleDeleteClusterFromEditor`, `RequestFails` | `handleDeleteClusterFromEditor` likewise |
| `SyncUrls`, `HostMerges`, `UrlsSynced` | `syncClusterControlPlaneUrls` |
| `openClusterConfigEditor`, `saveClusterConfigEditor`, `PrefsSaved`, `CloseEditor` | the cluster editor |
| `SetupEffect` | the effect that shows the setup guide to a window without connections |

A window opened for a detached tab starts with that tab only, which may be an
application tab that names a cluster.

**SubWindows** is the horizontal sub-window: `tabs` and `yaml` are
`horizontalTabs`, `applying` is `applyingSubWindowTabId`, `seen` what the
callback `detachHorizontalTab` captured, which `RefreshCallback` renews when the
clusters change: `DetachTab` carries that document along, the latest or not. The YAML of a tab is a version. The console is its bounded
history; what its commands click on is left out.

**SchemaTable** has the pure operators of the table: `VisibleRows` (filter and
sort; rows that compare equal keep their order, and each row stands in the place
its rank among the visible ones gives it), `Clicked` (a range from the anchor), `AllVisible`, `ToggledSort`, and the effects that prune the selection.
A cell is its rank, a row its key: a column is taken to be totally ordered,
which `compareCellValues` need not make of mixed values; no property is about
the order. **RbacTable** puts it under
`RbacYamlEditor`: `BeginLoad`, `ConnectionsArrive`, `HostLists`,
`ResourcesArrive` are the stretches of `loadResources`, `PressDelete`,
`DeleteOne`, `DeletionReloads`, `DeletionEnds` those of `handleDeleteSelected`;
`SwitchView` keeps the component, `Remount` replaces it while its deletion goes on.
`ChangedElsewhere` is Apply in an editor tab (`App.tsx:595`), which loads no
table, or another client of the cluster. Resources and YAML are named by the
cluster and kind they belong to. The return of `loadResources` without a cluster
is left out: a tab of an RBAC kind has one.

**Maintenance** is the settings view with the host's commands on Linux:
`PressUpdate`, `UpdateAnswered`, `Relaunch` for updates; `PressJob`,
`RoleSucceeds`, `RoleFails`, `BundleSucceeds`, `BundleFails` for jobs that take
a command per role; `PressRefresh`, `HostReadsStatus`, `StatusArrives`,
`StatusFails` for the status, of which only its age counts. `CanInstall`,
`Installed`, `Done`, `HalfWritten` are `main.rs`. Other windows and the user's
shell are `ElsewhereChannel` and `ElsewhereServices`.

**InstallResolver** is the route of the landing site over the releases two
workflows publish. `store` is GitHub, `job` how far each workflow run is
(`DeleteRelease`, `EnsureRelease`, `RemoveFile`, `SendFile`, `RemoveManifest`,
`SendManifest`, in the order of `Steps`): `gh release upload --clobber` removes a
file of the same name before it sends the new one, a run may stop after any
step, and runs of one tag may overlap, since no concurrency group keeps them
apart. `req` is the request: `ManifestNotOk` (any answer that is not OK, the file
being there or not), `ManifestFound`, `ManifestRead`, `ReleaseFound`,
`ReleaseNotOk`, `ReleaseRead`, `FetchFails`; each fetch and each body is awaited,
and the workflows go on in between. A file is what its name tells: application,
form, target and version, except that the updater's bundle for a Mac
(`Named`) has one name for every version and both architectures. The target
the workflow and the route infer from a name (`EntryFor`,
`inferTargetFromAssetName`) is therefore not always the one it was built for.
`Visit`, `RunScript`, `ClickCard`, `CallRoute` are the ways a request comes about.

History variables (`torn`, `failed`, `stale`, `adrift`, `mixed`, `calm`, `changed`,
`asked`, `muddled`, `misforced`, `disturbed`, `crossed`, and `covered`, `created`,
`refused` of a request) decide no step.
They say in which circumstances a property is claimed; section 6 lists what
happens outside them.

## 3. Runs

Bounds are constants named in the modules. In `ControlPlane`, `MaxVersion` and
`MaxLog` stop client requests, `MaxTime` the clock, `MaxCrashes` and
`CrashUntil` crashes; `Requests` and `Faults` say which kinds occur, so that
each run explores one question completely. The failover loop itself, replay and
promotion are never bounded. Of the GUI, what the user starts is bounded, and
never an answer. Deadlock is not checked where the environment may stop: when
clients stop sending and the clock has run out, a cluster of crashed or broken
nodes has nothing left to do; likewise a GUI nobody uses. It is checked for
`workspace`, whose tabs can always be used.

| Run | Instance | Shows |
|---|---|---|
| `state_manager` | 2 ids, 2 keys, 3 records, 2 versions, 2 epochs | `NoReturn`, `ReplaceNeverRegresses` under every sequence of deliveries |
| `request_verifier` | 2 nonce keys (symmetric), 8 seconds, window of 2, clock set back by 1 | `NoReplay`, `QueueMatchesTable`, `HistoryBounded` |
| `sync` | 2 control planes, 1 runtime, from an empty disk; every client request, pages of one event, losses, crashes during replay, restarts | `Replicates` (the refinement of `ReplicatedLog`), `CaughtUpAgrees`, `NeverBroken`; `EventuallySynced` under fairness |
| `election` | 3 nodes, up to 2 crash, nothing lost | `OneLeaderPerTerm`; `EventuallyLed` under fairness |
| `partition` | 3 nodes, losses, joins on both sides, one crash between two saves, restart | `LeaderHoldsTerm`, `StoredStateNeverRegresses` although leaders coexist |
| `renewal_lost_update` | 2 nodes, 1 runtime | the finding of section 5 (`expect: violation`) |
| `cluster_data` | pages of 1 event, 3 events, 1 poll ahead, 2 deletions or connections, 1 failure | `NoHole`, `NoFalseEnd`, `NothingStuck`; `EventuallyWhole` under fairness |
| `workspace` | 2 clusters (at most 1 at first in a window opened for a detached tab), 2 tabs, 2 handlers at once | `StripSound`, `ConnectionsInStep`, `NoOrphanTab`, `SetupReachable` |
| `sub_windows` | 2 editors (symmetric) and the console, 2 lines, 1 edit, 2 requests to apply, 1 to detach | `StripSound`, `ApplyingHonest`, `OneApplyAtATime` |
| `rbac_table` | 3 roles in one cluster, a user and a role of the same name in another; 2 loads, 1 deletion of several rows, 1 change of view, 1 change by someone else | `SelectionListed`, `PayloadCoherent`, `OnlyAskedDeleted`, `ShowsServer`, `HiddenUntouched` |
| `maintenance` | 2 roles, 2 channels, 3 status requests under way | `BusyExact`, `ReportTrue`, `ShowsServices`, `BundleSound` |
| `install_resolver` | 2 versions, the nightly and a development release, any 2 of 8 workflow runs, 2 platforms, 3 targets asked for | `ManifestsTrue`, `CliServed`, `AssetThere` |

Why these bounds are enough to be interesting. Two nodes suffice for everything
between a leader and a follower; three are needed for a candidate, a bystander
and a dead leader. Pages of one event make every event a page boundary, pages
of two or three put several on one page. Two or three versions beyond the
formed group allow a change before and after every fault. The lease expires
within `MaxTime`, and runs with `MaxTime = 0` are those in which it should not.
The verifier's clock covers three windows and a drift, the longest an entry can
last. Three events at a page of one need two requests for older pages, the
second of which overlaps a refresh that grows the log. Two handlers at once is
every pair of the workspace's handlers, at every point they wait; with two
clusters and the two application tabs every pair of tabs arises, and a third
would only be another of the same. Three rows are the least for a range with a
hidden row in the middle. Two versions are the least for one newer release to
appear while an older one is read, and two runs for one to replace what the
other has published, or to overlap with it file by file.

Each property of a passing run is also checked against a plausible bug in the
code: the operators commented `Mutant` stand before the definition they would
replace, and under each of them TLC finds the property violated.

**Fairness.** `FairSpec` of `ControlPlane` is strong fairness of each node's
`Coroutine` and of `FetchPage`, and weak fairness of the clock.
`run_failover_loop` catches every exception and goes on, a request is answered
or times out, and asyncio runs every ready coroutine. Strong rather than weak,
because a peer answers only while its own coroutine does not hold its event
loop: the answer is enabled again and again. Strong fairness of `FetchPage` is
the one assumption on the network: it may lose any request for a page, but not
every one for ever. No fairness is assumed of clients, crashes or restarts.
`FairSpec` of `ClusterData` is weak fairness of the effects, which React runs
after every render, and of answers, successful or not. The host's HTTP client
sets no timeout, so that a request ends is again an assumption on the network.
It has strong fairness of `LoadMore`, whose observer fires whenever the end of the
list is in view, which a refresh under way may hide for a moment.

## 4. Proofs

`StateManagerProofs` proves, for every set of ids, keys, groups and members and
every bound on versions and epochs:

* `TypeCorrect`: `Spec => []TypeOK`;
* `NeverReturns`: `Spec => []NoReturn`, a fingerprint given up is never current
  again;
* `NeverRegresses`: `Spec => ReplaceNeverRegresses`.

The assumptions are those of `StateManager`: ids and keys are numbers (any
totally ordered set would do), 0 is no key, the own record is a member record,
and `NoState` is not a group state.

The argument. `NoReturn` is not inductive: it does not say why the states
reachable from here cannot lead back. The strengthening is
`Inv == TypeOK /\ AllBelow`: everything abandoned ranks *strictly below* what
is held, by version, then epoch, then (reversed) leader order. `AcceptsRaisesRank`
is the heart: an accepted state has the same fingerprint or a strictly higher
rank, by cases on continuation, won conflict and rotation. With
`RankTransitive` the invariant is preserved by `replace_state`; `bootstrap_state`
starts a new history. With `RankIrreflexive` it implies `NoReturn`.

`RequestVerifierProofs` proves, for every window, every set of nonce keys and
every clock set back by less than the window, `NeverReplayed`
(`Spec => []NoReplay`), `TableInStep` (`Spec => []QueueMatchesTable`) and
`TableBounded` (`Spec => HistoryBounded`). The inductive invariant adds to these
that no key is queued twice (so forgetting an item cannot hide another), that
what was accepted is still remembered or is two windows older than the highest
time shown (`Guarded`; set back by less than one window, the clock cannot
bring it back into reach), and that entries were appended with a timestamp at
most a window ahead and in clock order up to the drift (`Appended`), from which
the age of everything behind the head follows. The assumption `Drift < Skew` is
needed: with `Drift = Skew` a forgotten nonce can pass the skew check again.

### The control plane

`ControlPlaneProofs` proves, for any number of nodes, any set of founders and of
nodes that start with a state, pages of any length, every kind of request and
of fault and every bound:

* `Typed`: `Spec => []TypeOK`;
* `NeverRegresses`: `Spec => StoredStateNeverRegresses`, no step takes a stored
  group state back to a lower rank or term;
* `LeaderTerms`: `Spec => []LeaderHoldsTerm`.

The last two hold while leaders coexist and histories fork.
The assumptions are those of `EventLog` and `ControlPlane`: ids are positive
numbers, a control plane is no runtime, pages are not empty, `NoState` is no
group state, and the nodes that start with a state are finitely many (the log
they start with has their joins one after the other).

The argument. The actions are not treated once per invariant. Each is
shown once to be a step of one of few *kinds* (`StepSound`): at most one node's
storage changes, and then the node writes a state or an event of its own
(`OwnWrite`, with the reason it had and the change it records), takes over a
state that somebody holds (`Adoption`), or replays a part of the page it has
(`Replay`); `TaskStep` says how a coroutine comes by a page, a snapshot or an
answer. An invariant is then kept by the kinds of step.

* `TypeInv` is `TypeOK` with the coroutines: no page is used that was not
  fetched, none is applied that begins beyond the end of the log, and no
  coroutine goes on about a state that its node no longer has. It is what makes
  every step of a resumed coroutine defined.
* `NeverRegresses` is about a step, and needs `TypeInv` and `AcceptsAdvances`:
  whatever `validate_new_state` lets through advances, with or without a
  signature to verify.
* `LeaderHoldsTerm` speaks of what is stored, but what is stored comes from
  logs, pages and answers. `TermInv` says it of every state in a log, in a page
  on its way and in the answer to a join as well; since a leader's own term
  never goes back, what was true when a page was read is true when it is used.

What a replay does is a recursive function over the page. The library's
induction rules cannot be used here, so the module states what a function that
computes a replay has to satisfy (`IsReplay`), and proves that there is one for
every length (`ReplayExists`) and what it yields (`ReplayInduction`) with the
well-ordering of the natural numbers (`LeastNatural`): were there an item at
which the claim fails, there would be a first one.

About groups whose founder keeps the lead it proves, for any number of nodes,

* `FounderReplicates`: `Spec /\ []NobodyTakesOver => Replicates`, the refinement
  of `ReplicatedLog`, under the assumption `FounderLeads`;
* `FounderNeverBroken`: `Spec /\ []NobodyTakesOver => []NeverBroken`, likewise;
* `FounderAgrees`: `Spec /\ []NobodyTakesOver /\ []NobodyRenews =>
  []CaughtUpAgrees`, under `FounderLeads` and `ChangesRecorded`;
* `NoExpiryReplicates` and `NoExpiryAgrees`: `Spec => Replicates` and
  `Spec => []CaughtUpAgrees` without a hypothesis about the behaviour, if the
  clock stops before the lease, or half of it, has run out. The constants of
  the run `sync` satisfy their assumptions, so these two are what that run
  checks, for any number of nodes, versions, events and crashes.

The hypotheses are the circumstances under which the code does what is claimed;
none of them can go.

| Hypothesis | Says | Without it |
|---|---|---|
| `FounderLeads` | one node founds the group, nobody starts with a stored state, no GUI applies a manifest at a follower | a manifest at a follower is an event that the leader's log does not have (section 5) |
| `NobodyTakesOver` | no candidate gets as far as promoting itself | histories fork, and a fork that is found breaks a node |
| `NobodyRenews` | the leader does not extend its lease | a renewal saves the membership it read before, without an event (the finding of section 5) |
| `ChangesRecorded` | no crash between a save and its event | a member that no event carries (section 5) |

The arguments. `SteadyInv` says that all is of one term and one author, that
every log is a beginning of the founder's, and that a page on its way is a part
of that log that reaches at least as far as the node's own: therefore the
comparison of length, nonce and hash never finds a divergence, and what a
replay appends is what comes next. `FaithfulInv` adds what the log says of the
membership: every change in it is a diff to the one before (`Chained`) and raises
the version (`Rising`), and a node holds the membership of the last change it
has replayed *or a later one* (`Tracks`), since a join hands over a state that
is ahead of the events. The heart is that such a node stays right when it
replays diffs that its state already contains: they are skipped as regressions,
until the log has caught up with the state.

Of `ReplicatedLog` itself, as `ControlPlane` instantiates it (`Log`), it proves
for every set of nodes and events `ReplicasArePrefixes`: if there is a leader,
every log is a beginning of its log.

`LogInv` says that logs are finite sequences of events and begin the leader's;
`BeginsOrder` (beginnings of beginnings are beginnings) carries it over `Record`
and `Replicate`. What follows for the cluster:

* `FounderIsFollowed`: `Spec /\ []NobodyTakesOver => []Log!PrefixOfLeader`
  under `FounderLeads`, by `FounderReplicates` and `ReplicasArePrefixes`: the
  refinement, put to use;
* `LogsOnlyGrow`: in every step of `Spec` each log on disk begins the one after
  it. This one has no hypothesis; it holds of logs that have forked as well, and
  follows from the kinds of step.

### The desktop GUI

`ClusterDataProofs` proves, for every page size and any number of events,
requests under way, edits and failures, `TimelineHasNoHole`
(`Spec => []NoHole`), `TimelineEndsAtTheEnd` (`Spec => []NoFalseEnd`) and
`ViewsNeverStuck` (`Spec => []NothingStuck`). The invariant `ClusterInv` adds to
the types: the indicator counts the requests under way and remembers their
failures (`BarInv`); what shows as loading, or holds the lock, has a request
(`WaitInv`); a request for events that no reset has made outdated is the only
one, and was made for the cache as it still is (`PendingInv`), which is why its
page joins up; the cache holds events of the server only, and without a hole
(`TimelineInv`).

`WorkspaceProofs` proves, for any set of clusters, kinds of tab and windows and
any number of tabs and overlapping handlers, `StripAlwaysSound`
(`Spec => []StripSound`), `ConnectionsAgree` (`Spec => []ConnectionsInStep`),
`TabsHaveClusters` (`Spec => []NoOrphanTab`) and `SetupAlwaysReachable`
(`Spec => []SetupReachable`). These say that the parts agree when no handler
waits; what has to be found is what holds while some do. `WindowInv`: tabs and
the active cluster belong to clusters that are in the files *or whose deletion
is under way* (`Known`), and the list shown is that of the files unless a
handler is waiting that will set it, or will set the merged URLs of that cluster
(`ConnectionInv`). Filtering the strip (`Filter`) is a recursive function; that
it keeps the order, the distinctness and exactly the tabs meant is proved with
`LeastNatural` as above (`IsFilter`, `FilterExists`, `FilterInduction`). The
clusters are finite (an assumption of `Workspace`), because the code picks the
first of a list.

`SubWindowsProofs` proves, for any set of editors, a console of any length and
any number of edits, requests to apply and windows being opened,
`StripAlwaysSound` (`Spec => []StripSound`), `ApplyingIsTrue`
(`Spec => []ApplyingHonest`) and `AppliesOneAtATime`
(`Spec => []OneApplyAtATime`). `TabsInv` is what the
strip keeps by itself; that dragging a tab neither loses nor doubles one comes
from what `RemoveAt` and `InsertAt` leave (`RemoveAtFacts`). `AppliesInv` has
both properties of requests to apply, with the requests told apart by numbers
of which a free one is always found (`NewNumber`): the button of the marked tab
is disabled, so unless a second tab joins in there is no second request, and the
answer that clears the mark is the last. `ConsoleInv` is about the keys of the console's lines.

`RbacTableProofs` proves, for any clusters and kinds, any finite set of names,
any table of cells and any number of loads, deletions, changes of view and
changes by others,
`SelectionAlwaysListed` (`Spec => []SelectionListed`), `PayloadsCoherent`
(`Spec => []PayloadCoherent`), `DeletesWhatWasAsked`
(`Spec => OnlyAskedDeleted`), `TableShowsServer` (`Spec => []ShowsServer`) and
`HiddenRowsUntouched` (`Spec => HiddenUntouched`).
`PayloadCoherent` and `ShowsServer` speak of a table that has settled, and say
nothing while a load is under way. `CalmInv` does: then there is just one,
for the view that is shown, and past its first answer it has set the
configuration. `AskedInv` extends `OnlyAskedDeleted` to what running deletions have
still to do, with the cluster and kind they send it to; it needs `CalmInv` at the
moment delete is pressed. `ServerInv` says of every
name in an answer, on its way or shown, that the cluster agrees, or that it was
changed elsewhere, or that a deletion going on has deleted it and will load
again. For the selection, `RowBefore` is a strict linear order (`CellOrder` and
what follows it), so every row has its own number of rows before it, and what is
visible is what is listed and matches the search; the assumptions
of `RbacTable` say that there are finitely many names, a cell for each, and that
columns, search terms and views are made of what there is.

`MaintenanceProofs` proves, for any number of overlapping status requests,
`ButtonsAreExact` (`Spec => []BusyExact`), `ReportsAreTrue`
(`Spec => []ReportTrue`), `BundlesAreSound` (`Spec => []BundleSound`) and
`StatusIsShown` (`Spec => []ShowsServices`). None of them is inductive. The
invariant `Inv` adds that at most one status request is awaited by a handler and
none without one (`OneWaits`: otherwise a second answer would end a handler
that has not finished, and the buttons would come back too early), and that a
handler that has come to the runtime has reached the control plane, while one
that has reported success has nothing left to do (`HalfWay`: otherwise the report
could be overtaken). It splits into a part about updates and a part about
services (`InvParts`), each kept by every action of `Next`. For the status,
`StatusInv` adds that unless requests crossed there is at most one, and that an
outdated answer, or an outdated status with nothing under way, occurs only
while a handler has commands left to send: that handler will ask again or
fail. The only assumption is that `MaxRefreshes` is a positive number.

### What stays with TLC

* Liveness (`EventuallySynced`, `EventuallyLed`, `EventuallyWhole`): the proof
  system has no reasoning about fairness.
* `OneLeaderPerTerm`: it is no invariant in general (two candidates that cannot
  reach each other promote themselves into the same term; `partition` is about
  what holds nevertheless). It holds in `election` because nothing is lost, and
  a proof would have to order the reads and answers of a whole round.
* `ManifestsTrue`, `CliServed` and `AssetThere` of `InstallResolver`: they are
  about which file of which release is there, at every step of two
  workflows. A proof would have to carry the contents of every release at every
  step; it is not done, and the run covers the versions, platforms and runs
  named above and no others.
* That a replay, a filter or a sorted table can be computed for every input: the
  proofs show that the functions the models define have the values meant, and
  the runs that TLC computes the same.

## 5. Findings

The run `renewal_lost_update` is one in which TLC finds a property violated
that the repository states; `PROJECT.json` quotes the line. The renewal writes
back the membership read before its peers were asked, over a join handled
meanwhile, at the same version.

The following also follows from the code, and from the models when the bounds
or properties named are changed; it has no run of its own.

* A former leader that reads a page of a newer term fails on its hash, swallows
  the error and renews.
* With leader and candidate dead, two live nodes each wait because the other
  answers heartbeats (`election` with four nodes of which two crash).
* The synchronisation before promotion asks nodes that do not lead, and those
  refuse to serve events.
* Applying a manifest needs no leader, and a follower appends to its own log
  (`sync` with `follower_apply` among `Requests`; `Replicates` fails).
* After a crash between saving and logging, the leader serves a member no event
  carries (`sync` with `op_crash` among `Faults`; `CaughtUpAgrees` fails).
* A freshly promoted leader that renews asks the deposed one, which still thinks
  that it leads and whose log is shorter by the promotion: the new leader finds
  itself ahead of a leader and marks itself broken. This takes neither a fork
  nor a crash. `docs/sync-nodes.md` speaks of a follower only.
* A document edited after the clusters last changed is detached as it was then
  (`SubWindows`, `DetachTab`).
* The bundle for a Mac is listed as `darwin-x86_64`, whichever of the two
  architectures was sent last, and both `darwin` targets are redirected to it:
  an Intel Mac may get the build for ARM.
* Both workflows write `latest.json` of the nightly release and of a version. If
  the standalone workflow was last, a request for the GUI, and the GUI's own
  updater, is led to a standalone binary. A request for the standalone
  application is led to the GUI's `latest.json`, or to 404, when GitHub refuses
  the two `latest_cli.json` (429, 503), and by the release's list of files to a
  GUI installer, whose name has the same prefix. That list may also begin with a
  file of an earlier nightly build.
* A redirect leads nowhere while a nightly run replaces the Mac bundle, and when
  a development release is deleted after its manifest was read. Two
  development runs that overlap may leave a manifest of deleted files.

`docs/sync-nodes.md` reserves promotion to the node that "candidate selection
points to"; the code (`AllPeersDown`) and `tests/test_failover_scenarios.py`
also promote a node that reaches nobody. The model follows the code, and
`partition` is about what that leads to.

Because of these, `Replicates` and `NeverBroken` are checked without lease
expiry, and `CaughtUpAgrees` without crashes between the two saves.

## 6. Circumstances the GUI's properties exclude

Each is what the code does, reached in the run, and marked by a history variable.

| Variable | The code |
|---|---|
| `torn` | a page asked for before its cluster was deleted and connected again is merged into the new timeline; a refresh that more than a page of new events has outrun joins nothing, and the hole stays (`useClusterData.ts`) |
| `stale` (Workspace) | a list of connections that was read before a change is applied after it; a list that cannot be read leaves the window as it was; a cluster deleted while it is being connected comes back in the window only |
| `adrift` | the tab made active by a deletion or by the setup effect may have been closed meanwhile; the workspace then shows the first one |
| `mixed` | two tabs apply at once: the first answer clears the flag of the other |
| `calm`, `muddled` | loads of different views overlap, or the connections cannot be listed: the configuration of one cluster stays next to the rows of another, and a deletion pressed then goes where the configuration says |
| `changed` (RbacTable) | Apply in an editor tab, other clients, a deletion that fails half way and the deletion of an unmounted table load no table: it goes on showing what was there. `ShowsServer` excepts the names concerned, and no others |
| `disturbed`, `stale`, `crossed` (Maintenance) | services changed elsewhere; a failed job or request; of two status requests the older one answered last |
| `created`, `covered` (InstallResolver) | a version created while the request is resolved, or one without a standalone manifest: `/releases/latest` moves |
| `refused` (InstallResolver) | GitHub refuses a manifest that is there, and the next one is taken |
| `Dev`, `InPlace` (InstallResolver) | a development release is deleted under way; a bundle for a Mac is replaced under the name that manifests list |

## 7. Not modelled

Runtime node, RBAC content and authorization, tokens and GUI bootstrap:
planned, see below. File layout, encoding, logging, argument parsing and
prompts have no property here. Of the Tauri host, signing requests, the updater
plugin and platforms other than Linux. Of the GUI, rendering, icons and styles;
several windows at once appear as environment of `Maintenance` only. The pages
of the landing site are static but for the links that `InstallResolver` starts
from. Generators keep no state. The generated schemas
(`generated/controlPlaneSchema.ts`) are data.

Of the release workflows, the mode "stable" (started by hand from another
branch), repeating a run, and a repository without signing keys.

Also outside: how often a request is repeated (the effect that loads the first
page asks again at once when the log is empty), requests of the host that never
return, console commands that click on the window, and duplicate React keys
once the console's history is full, which `ConsoleSound` states as they are.

## 8. Plan

1. `RuntimeNode`: `connect` and `pull_group_state` over `Accepts`, against the
   states that forked leaders serve; whether it can be stuck with a deposed
   leader.
2. `BootstrapTokens`, in memory and stored, with GUI bootstrap and a crash
   between its steps, and with the command line, which issues tokens from another
   process over the same storage.
3. `Rbac`: apply, delete and `can_i` against a reference definition.
4. Two properties still to be stated: which node ends up broken after a fork or
   a takeover (section 5), and the endpoints inside member records, which no event carries.
