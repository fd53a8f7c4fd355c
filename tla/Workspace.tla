---- MODULE Workspace ----
(***************************************************************************)
(* One window of the desktop GUI: the connections it knows                 *)
(* (useClusterConnections.ts), its strip of tabs (useTabManager.ts), and   *)
(* the handlers of App.tsx that tie them together.                         *)
(*                                                                         *)
(* The files of the connections belong to the Tauri host.  Everything a    *)
(* window asks of the host is asynchronous, and answers come in any order: *)
(* `asks' holds one record per handler that waits, with the step it waits  *)
(* for and what its closure captured when it started.                      *)
(***************************************************************************)
EXTENDS Naturals, Sequences, FiniteSets, FiniteSetsExt, SequencesExt

CONSTANTS
  Clusters,   \* connection ids, positive numbers in the order of the list
  Kinds,      \* kinds of the navigation that open a table
  Windows,    \* how the window may open: pairs of what the files hold and
              \*   whether it is opened for a detached tab
  MaxTabs,    \* bound on open tabs
  MaxAsks,    \* bound on handlers waiting at once
  MaxOps      \* bound on handlers started

ASSUME WorkspaceAssumption ==
  /\ Clusters \subseteq Nat \ {0} /\ IsFiniteSet(Clusters)
  /\ "Node" \in Kinds /\ {"SetupGuide", "Settings"} \cap Kinds = {}
  /\ Windows \subseteq (SUBSET Clusters) \X BOOLEAN
  /\ {MaxTabs, MaxAsks, MaxOps} \subseteq Nat

VARIABLES
  store,         \* the files: connection id -> has the host merged its URLs
  configs,       \* connectionConfigs, the same
  activeCluster, \* activeClusterId
  tabs,          \* openTabs
  active,        \* activeTabId
  popout,        \* the window was opened for a detached tab (initialWindowTab)
  editing,       \* editingClusterId
  asks,          \* handlers waiting for the host
  ops,           \* counted for MaxOps
  stale,         \* history: an answer was applied that the files had outrun,
                 \* or a list could not be read, or a cluster was deleted while
                 \* it was being connected
  adrift         \* history: a deletion, or the effect, left active not open

conVars == <<store, configs, editing, stale>>
tabVars == <<tabs, active, activeCluster, adrift>>
vars == <<conVars, tabVars, popout, asks, ops>>

NoCluster == 0   \* the empty cluster id
AppKinds == {"SetupGuide", "Settings"}

Tab(kind, c) == [kind |-> kind, cluster |-> c]
IdOf(t) == IF t.kind \in AppKinds THEN <<t.kind, NoCluster>> ELSE <<t.kind, t.cluster>>
SETUP_TAB_ID == <<"SetupGuide", NoCluster>>
SETTINGS_TAB_ID == <<"Settings", NoCluster>>

Ids(s) == {IdOf(s[i]) : i \in DOMAIN s}
IndexOfId(s, id) == IF id \in Ids(s) THEN CHOOSE i \in DOMAIN s : IdOf(s[i]) = id ELSE 0
\* s.filter, written as a recursive function of what is kept
Filter(s, keep) ==
  LET f[i \in 0..Len(s)] ==
        IF i = 0 THEN <<>> ELSE IF s[i] \in keep THEN Append(f[i - 1], s[i]) ELSE f[i - 1]
  IN  f[Len(s)]
Without(s, id) == Filter(s, {t \in Range(s) : IdOf(t) # id})
AppendTab(s, t) == IF IdOf(t) \in Ids(s) THEN s ELSE Append(s, t)

Listed == DOMAIN configs
FirstOf(list) == IF list = {} THEN NoCluster ELSE Min(list)
\* activeClusterId || clusters[0]?.id || ""
CurrentCluster == IF activeCluster # NoCluster THEN activeCluster ELSE FirstOf(Listed)

\* The tab the workspace shows (useAppViewModel).
ActiveTab == IF active \in Ids(tabs) THEN tabs[IndexOfId(tabs, active)] ELSE tabs[1]

NoTab == Tab("none", NoCluster)
Ask(op, step, c, t) ==
  [op |-> op, step |-> step, c |-> c, tab |-> t, active |-> IdOf(NoTab), got |-> <<>>]

Waiting(op) == {a \in asks : a.op = op}

\* A handler starts and waits.
Start(a) ==
  /\ ops < MaxOps /\ Cardinality(asks) < MaxAsks
  /\ ops' = ops + 1
  /\ asks' = asks \cup {a}

Proceed(a, b) == asks' = (asks \ {a}) \cup {b}
Finish(a) == asks' = asks \ {a}

-----------------------------------------------------------------------------
(* useTabManager *)

\* activateTab
ActivateTab(i) ==
  /\ active' = IdOf(tabs[i])
  /\ activeCluster' = tabs[i].cluster
  /\ adrift' = FALSE
  /\ UNCHANGED <<conVars, tabs, popout, asks, ops>>

OpenTab(t) ==
  /\ IdOf(t) \in Ids(tabs) \/ Len(tabs) < MaxTabs
  /\ tabs' = AppendTab(tabs, t)
  /\ active' = IdOf(t)
  /\ activeCluster' = t.cluster
  /\ adrift' = FALSE
  /\ UNCHANGED <<conVars, popout, asks, ops>>

\* These three are reached from the sidebar, shown only with connections.
openResource(kind, c) == c \in Listed /\ OpenTab(Tab(kind, c))
openSetupTab == Listed # {} /\ OpenTab(Tab("SetupGuide", CurrentCluster))
openSettingsTab == Listed # {} /\ OpenTab(Tab("Settings", CurrentCluster))

\* Mutant: the tab after the closed one is activated, if there is one.
ClosedActiveAfter(id) ==
  LET i == IndexOfId(tabs, id)
  IN  IF active # id \/ i = 0 THEN active
      ELSE IdOf(tabs[IF i = Len(tabs) THEN i ELSE i + 1])
\* Which tab is active once tab id is closed: its neighbour to the left, the
\* new first one if there is none, itself if it is the last tab left.
ClosedActive(id) ==
  LET i == IndexOfId(tabs, id)
      next == Without(tabs, id)
  IN  IF active # id \/ i = 0 \/ Len(tabs) = 1 THEN active
      ELSE IdOf(next[IF i > 1 THEN i - 1 ELSE 1])

ClosedTabs(id) == IF Len(tabs) = 1 THEN tabs ELSE Without(tabs, id)

closeTab(id) ==
  /\ tabs' = ClosedTabs(id)
  /\ active' = ClosedActive(id)
  /\ UNCHANGED <<activeCluster, adrift>>

\* the close button, and the shortcut, of more than one tab
CloseTab(id) ==
  /\ Len(tabs) > 1
  /\ closeTab(id)
  /\ UNCHANGED <<conVars, popout, asks, ops>>

\* switchTab: the next tab or the one before, round the ends
SwitchTab(direction) ==
  LET i == IndexOfId(tabs, active)
      current == IF i = 0 THEN 1 ELSE i
      next == ((current - 1 + direction + Len(tabs)) % Len(tabs)) + 1
  IN  /\ Len(tabs) > 1
      /\ IdOf(tabs[next]) # active
      /\ ActivateTab(next)

\* activateTabAtIndex: the last tab, when there are fewer
SelectTabByNumber(n) ==
  LET i == Min({n, Len(tabs)})
  IN  IdOf(tabs[i]) # active /\ ActivateTab(i)

\* handleTabDragEnd on another tab: arrayMove
DragTab(from, to) ==
  /\ from # to
  /\ tabs' = InsertAt(RemoveAt(tabs, from), to, tabs[from])
  /\ UNCHANGED <<active, activeCluster, adrift>>
  /\ UNCHANGED <<conVars, popout, asks, ops>>

\* handleTabDragEnd outside the bar: detachTabToWindow
DetachTab(i) ==
  /\ Start(Ask("detach", "open", NoCluster, tabs[i]))
  /\ UNCHANGED <<conVars, tabVars, popout>>

WindowOpens(a) ==
  /\ a.op = "detach"
  /\ closeTab(IdOf(a.tab))
  /\ Finish(a)
  /\ UNCHANGED <<conVars, popout, ops>>

WindowFails(a) ==
  /\ a.op = "detach"
  /\ Finish(a)
  /\ UNCHANGED <<conVars, tabVars, popout, ops>>

-----------------------------------------------------------------------------
(* useClusterConnections *)

SelectCluster(c) ==
  /\ c \in Listed
  /\ activeCluster' = c
  /\ UNCHANGED <<conVars, tabs, active, adrift, popout, asks, ops>>

\* The host reads the files.
HostLists(a) ==
  /\ a.step = "list"
  /\ Proceed(a, [a EXCEPT !.step = "apply", !.got = store])
  /\ UNCHANGED <<conVars, tabVars, popout, ops>>

ApplyList(list) ==
  /\ configs' = list
  /\ stale' = (stale \/ list # store)

KeptCluster(list) ==
  IF activeCluster \in DOMAIN list THEN activeCluster ELSE FirstOf(DOMAIN list)

\* loadConnections, when the window opens
loadConnections(a) ==
  /\ a.op = "load" /\ a.step = "apply"
  /\ ApplyList(a.got)
  /\ activeCluster' = KeptCluster(a.got)
  /\ Finish(a)
  /\ UNCHANGED <<store, editing, tabs, active, adrift, popout, ops>>

\* the setup guide's Connect; the user may have put any YAML in its form
connectGui(c) ==
  /\ ActiveTab.kind = "SetupGuide"
  /\ Waiting("connect") = {}    \* connectingGui disables the button
  /\ Start(Ask("connect", "save", c, NoTab))
  /\ UNCHANGED <<conVars, tabVars, popout>>

\* fetchSnapshotFromYaml, or saving, fails
ConnectFails(a) ==
  /\ a.op = "connect" /\ a.step = "save"
  /\ Finish(a)
  /\ UNCHANGED <<conVars, tabVars, popout, ops>>

HostSaves(a) ==
  /\ a.op = "connect" /\ a.step = "save"
  /\ store' = [c \in DOMAIN store \cup {a.c} |-> IF c = a.c THEN FALSE ELSE store[c]]
  /\ Proceed(a, [a EXCEPT !.step = "list"])
  /\ UNCHANGED <<configs, editing, stale, tabVars, popout, ops>>

ConnectedTabs(c) == AppendTab(Without(tabs, SETUP_TAB_ID), Tab("Node", c))

\* the rest of connectGui and of handleConnectGui
handleConnectGui(a) ==
  /\ a.op = "connect" /\ a.step = "apply"
  /\ configs' = a.got
  /\ stale' = (stale \/ a.got # store \/ a.c \notin DOMAIN store)
  /\ activeCluster' = a.c
  /\ tabs' = ConnectedTabs(a.c)
  /\ active' = <<"Node", a.c>>
  /\ adrift' = FALSE
  /\ Finish(a)
  /\ UNCHANGED <<store, editing, popout, ops>>

openClusterConfigEditor(c) ==
  /\ c \in Listed
  /\ editing' = c
  /\ UNCHANGED <<store, configs, stale, tabVars, popout, asks, ops>>

CloseEditor ==
  /\ editing # NoCluster
  /\ editing' = NoCluster
  /\ UNCHANGED <<store, configs, stale, tabVars, popout, asks, ops>>

\* saveClusterConfigEditor: the host keeps the name and colour, which nothing
\* here depends on, and the answer closes the editor, whoever's it is by then.
saveClusterConfigEditor ==
  /\ editing # NoCluster
  /\ Start(Ask("prefs", "write", editing, NoTab))
  /\ UNCHANGED <<conVars, tabVars, popout>>

PrefsSaved(a) ==
  /\ a.op = "prefs"
  /\ Finish(a)
  /\ editing' = NoCluster
  /\ UNCHANGED <<store, configs, stale, tabVars, popout, ops>>

deleteClusterFromEditor ==
  /\ editing # NoCluster
  /\ Start([Ask("delete", "drop", editing, NoTab) EXCEPT !.active = active])
  /\ UNCHANGED <<conVars, tabVars, popout>>

\* The host refuses to keep the name, to delete the connection or to merge the
\* URLs, or there is no such connection any more: a line in the log.
RequestFails(a) ==
  /\ a.step \in {"write", "drop", "merge"}
  /\ Finish(a)
  /\ UNCHANGED <<conVars, tabVars, popout, ops>>

HostDeletes(a) ==
  /\ a.op = "delete" /\ a.step = "drop" /\ a.c \in DOMAIN store
  /\ store' = [c \in DOMAIN store \ {a.c} |-> store[c]]
  /\ Proceed(a, [a EXCEPT !.step = "dropped"])
  /\ UNCHANGED <<configs, editing, stale, tabVars, popout, ops>>

DroppedConfig(c) == [d \in Listed \ {c} |-> configs[d]]

ConnectionDropped(a) ==
  /\ a.step = "dropped"
  /\ configs' = DroppedConfig(a.c)
  /\ editing' = NoCluster
  /\ Proceed(a, [a EXCEPT !.step = "list"])
  /\ UNCHANGED <<store, stale, tabVars, popout, ops>>

\* Mutants: the settings take the place of the last tab; only the Node tab of
\* the cluster is closed.
RemainingOrSettings(c) ==
  LET filtered == Filter(tabs, {t \in Range(tabs) : t.cluster # c})
  IN  IF filtered # <<>> THEN filtered ELSE <<Tab("Settings", NoCluster)>>
RemainingButNode(c) ==
  LET filtered == Without(tabs, <<"Node", c>>)
  IN  IF filtered # <<>> THEN filtered ELSE <<Tab("SetupGuide", NoCluster)>>
RemainingTabs(c) ==
  LET filtered == Filter(tabs, {t \in Range(tabs) : t.cluster # c})
  IN  IF filtered # <<>> THEN filtered ELSE <<Tab("SetupGuide", NoCluster)>>

\* The rest of handleDeleteClusterFromEditor.  `deletedActiveTab' is set by the
\* updater of openTabs and read right after it is queued: React may or may not
\* have run it by then.  The tab compared is the one active at the click.
DeletionTail(a) ==
  LET wasActive == \E i \in DOMAIN tabs : IdOf(tabs[i]) = a.active /\ tabs[i].cluster = a.c
  IN  /\ tabs' = RemainingTabs(a.c)
      /\ \E deletedActiveTab \in {FALSE, wasActive} :
           active' = IF deletedActiveTab THEN SETUP_TAB_ID ELSE active
      /\ adrift' = (active' \notin Ids(tabs'))

\* the reload that follows a deletion
handleDeleteClusterFromEditor(a) ==
  /\ a.op = "delete" /\ a.step = "apply"
  /\ ApplyList(a.got)
  /\ activeCluster' = KeptCluster(a.got)
  /\ DeletionTail(a)
  /\ Finish(a)
  /\ UNCHANGED <<store, editing, popout, ops>>

\* a list that cannot be read is logged, and the deletion goes on
ListFails(a) ==
  /\ a.step = "list"
  /\ CASE a.op = "delete" -> DeletionTail(a) /\ UNCHANGED activeCluster
       [] OTHER -> UNCHANGED tabVars
  /\ stale' = TRUE
  /\ Finish(a)
  /\ UNCHANGED <<store, configs, editing, popout, ops>>

\* syncClusterControlPlaneUrls, which each snapshot of a listed cluster starts
SyncUrls(c) ==
  /\ c \in Listed
  /\ Start(Ask("sync", "merge", c, NoTab))
  /\ UNCHANGED <<conVars, tabVars, popout>>

HostMerges(a) ==
  /\ a.step = "merge" /\ a.c \in DOMAIN store
  /\ store' = [store EXCEPT ![a.c] = TRUE]
  /\ Proceed(a, [a EXCEPT !.step = "synced"])
  /\ UNCHANGED <<configs, editing, stale, tabVars, popout, ops>>

\* Mutant: a connection that is gone comes back.
SyncedAgain(c) == [d \in Listed \cup {c} |-> IF d = c THEN TRUE ELSE configs[d]]
SyncedConfig(c) == [d \in Listed |-> IF d = c THEN TRUE ELSE configs[d]]

UrlsSynced(a) ==
  /\ a.step = "synced"
  /\ configs' = SyncedConfig(a.c)
  /\ stale' = (stale \/ (a.c \in Listed /\ ~(a.c \in DOMAIN store /\ store[a.c])))
  /\ Finish(a)
  /\ UNCHANGED <<store, editing, tabVars, popout, ops>>

-----------------------------------------------------------------------------
(* useAppEffects: without connections the setup guide is activated *)

SetupEffect ==
  /\ ~popout /\ Listed = {}
  /\ active \notin {SETUP_TAB_ID, SETTINGS_TAB_ID}
  /\ active' = SETUP_TAB_ID
  /\ adrift' = (SETUP_TAB_ID \notin Ids(tabs))
  /\ UNCHANGED <<conVars, tabs, activeCluster, popout, asks, ops>>

-----------------------------------------------------------------------------
\* parseInitialWindowTab: a window of its own shows the tab it was opened for.
Init ==
  /\ \E w \in Windows : store = [c \in w[1] |-> FALSE] /\ popout = w[2]
  /\ configs = <<>>
  /\ \E t \in {Tab(k, c) : k \in Kinds \cup AppKinds, c \in DOMAIN store}
                \cup {Tab("SetupGuide", NoCluster)} :
       /\ popout \/ t = Tab("SetupGuide", NoCluster)
       /\ tabs = <<t>>
       /\ active = IdOf(t)
       /\ activeCluster = t.cluster
  /\ editing = NoCluster
  /\ asks = {Ask("load", "list", NoCluster, NoTab)}
  /\ ops = 0
  /\ stale = FALSE
  /\ adrift = FALSE

TabNext ==
  \/ \E i \in DOMAIN tabs : ActivateTab(i) \/ DetachTab(i) \/ CloseTab(IdOf(tabs[i]))
  \/ CloseTab(active)
  \/ \E kind \in Kinds, c \in Clusters : openResource(kind, c)
  \/ openSetupTab \/ openSettingsTab
  \/ \E direction \in {1, Len(tabs) - 1} : SwitchTab(direction)
  \/ \E n \in 1..(Len(tabs) + 1) : SelectTabByNumber(n)
  \/ \E from, to \in DOMAIN tabs : DragTab(from, to)
  \/ \E a \in asks : WindowOpens(a) \/ WindowFails(a)
  \/ SetupEffect

ConnectionNext ==
  \/ \E c \in Clusters :
       SelectCluster(c) \/ connectGui(c) \/ openClusterConfigEditor(c) \/ SyncUrls(c)
  \/ CloseEditor \/ saveClusterConfigEditor \/ deleteClusterFromEditor
  \/ \E a \in asks :
       \/ HostLists(a) \/ ListFails(a) \/ loadConnections(a)
       \/ HostSaves(a) \/ ConnectFails(a) \/ handleConnectGui(a)
       \/ PrefsSaved(a)
       \/ HostDeletes(a) \/ RequestFails(a) \/ ConnectionDropped(a)
       \/ handleDeleteClusterFromEditor(a)
       \/ HostMerges(a) \/ UrlsSynced(a)

Next == TabNext \/ ConnectionNext

Spec == Init /\ [][Next]_vars

-----------------------------------------------------------------------------
AllTabs == {Tab(k, c) : k \in Kinds \cup AppKinds, c \in Clusters \cup {NoCluster}}

TypeOK ==
  /\ \A f \in {store, configs} : DOMAIN f \subseteq Clusters /\ \A c \in DOMAIN f : f[c] \in BOOLEAN
  /\ tabs \in Seq(AllTabs)
  /\ active \in {IdOf(t) : t \in AllTabs}
  /\ {activeCluster, editing} \subseteq Clusters \cup {NoCluster}
  /\ \A a \in asks : a.c \in Clusters \cup {NoCluster}

\* The strip is never empty and never shows a tab twice, however connecting,
\* deleting, dragging, detaching and closing overlap: React keys, the active
\* tab and every lookup by id rest on it.  And the active tab is open: only the
\* deletion of its cluster, and the effect that sends a window without
\* connections to the setup guide, can name one that is not.
StripSound ==
  /\ TypeOK
  /\ tabs # <<>>
  /\ Cardinality(Ids(tabs)) = Len(tabs)
  /\ active \in Ids(tabs) \/ adrift

\* Once every handler is done, the connections shown are exactly the files,
\* and the cluster in use is one of them, unless `stale' says why not.
ConnectionsInStep ==
  asks = {} /\ ~stale =>
    /\ configs = store
    /\ activeCluster \in Listed \cup {NoCluster}

\* No tab outlives the cluster it shows.
NoOrphanTab ==
  asks = {} /\ ~stale => \A i \in DOMAIN tabs : tabs[i].cluster \in Listed \cup {NoCluster}

\* A window without connections can connect: with no sidebar to open it from,
\* the setup guide must be one of the tabs.
SetupReachable ==
  asks = {} /\ ~stale /\ ~popout /\ Listed = {} => SETUP_TAB_ID \in Ids(tabs)
====
