---- MODULE RbacTable ----
(***************************************************************************)
(* The table of RBAC resources of the desktop GUI (RbacYamlEditor.tsx on   *)
(* top of SchemaDataTable.tsx): loading the resources of the cluster and   *)
(* the kind that are shown, selecting rows, deleting the selected ones.    *)
(*                                                                         *)
(* loadResources awaits twice, the deletion once per resource and then a   *)
(* load; nothing is cancelled when another cluster or kind is shown.  What *)
(* a callback captured is in its record.  Answers arrive in any order.     *)
(*                                                                         *)
(* The table is not alone: Apply in an editor tab, and other clients of    *)
(* the cluster, change its resources, and nothing loads the table then.    *)
(*                                                                         *)
(* A tab of an RBAC kind has its cluster (openResource), so loadResources  *)
(* is never called without one and its first return is not modelled.       *)
(***************************************************************************)
EXTENDS SchemaTable

CONSTANTS
  Names,       \* names of RBAC resources, numbered in their order
  Views,       \* pairs of a cluster and a kind that are shown
  FirstView,   \* the one that is shown first
  ColumnsOf,   \* kind -> columns of its table
  Stored,      \* cluster -> kind -> names it holds in the beginning
  Filters,     \* what may be typed into the search field: sets of names
  MaxLoads,    \* bound on loads under way
  MaxPresses,  \* bound on uses of the delete button
  MaxSwitches, \* bound on changes of the view
  MaxElsewhere \* bound on changes that are not this table's

Clusters == {v[1] : v \in Views}
Kinds == {v[2] : v \in Views}
NoYaml == "none"

ASSUME RbacTableAssumption ==
  /\ Names \subseteq Nat \ {NoKey} /\ IsFiniteSet(Names)
  /\ Views \subseteq Clusters \X Kinds
  /\ NoYaml \notin Clusters
  /\ FirstView \in Views
  /\ Stored \in [Clusters -> [Kinds -> SUBSET Names]]
  /\ \A column \in DOMAIN Cells : Cells[column] \in [Names -> Nat]
  /\ ColumnsOf \in [Kinds -> SUBSET DOMAIN Cells]
  /\ Filters \subseteq SUBSET Names
  /\ MaxLoads \in Nat \ {0} /\ {MaxPresses, MaxSwitches, MaxElsewhere} \subseteq Nat

VARIABLES
  view,       \* resolvedClusterId and activeKind
  yaml,       \* clusterYaml: the cluster it belongs to
  resources,  \* the resources of the last answer: [view, names]
  selected, anchor, sort, filter,  \* SchemaDataTable
  loading, saving,
  loads,      \* loads under way
  deletions,  \* runs of handleDeleteSelected under way
  server,     \* cluster -> kind -> names
  switches, presses, elsewhere,
  calm,       \* history: the last load began alone and for the view, and could
              \*   list the connections
  changed,    \* history: what changed behind the table's back since resources
              \*   were last listed, <<view, name>>
  asked,      \* history: what the user saw selected on pressing delete
  muddled     \* history: delete was pressed with a load under way or not calm

tableVars == <<selected, anchor, sort, filter>>
loadVars == <<yaml, resources, loading, loads>>
deleteVars == <<saving, deletions, server, presses, asked, muddled>>
vars == <<view, tableVars, loadVars, deleteVars, switches, elsewhere, calm, changed>>

-----------------------------------------------------------------------------
(* loadResources *)

\* A load of view v, by deletion d if it is not 0.
NewLoad(n, v, d) ==
  [n |-> n, view |-> v, by |-> d, at |-> "connections", names |-> {}]

BeginLoad(v, d, shown) ==
  /\ LET n == CHOOSE n \in 1..MaxLoads : \A l \in loads : l.n # n
     IN  loads' = loads \cup {NewLoad(n, v, d)}
  /\ loading' = TRUE
  /\ calm' = (loads = {} /\ v = shown)

\* resources, with what the effects of the table make of its selection
SetResources(r) ==
  /\ resources' = r
  /\ selected' = Pruned(selected, r.names)
  /\ anchor' = PrunedAnchor(anchor, r.names)

EndLoad(l) ==
  /\ loads' = loads \ {l}
  /\ loading' = FALSE

Advance(l, m) == loads' = (loads \ {l}) \cup {m}

\* Mutant: the configuration is kept until the resources are there.
YamlOfShown(l) == yaml
YamlOfLoad(l) == l.view[1]

\* The stored connections are listed and the cluster is among them.
ConnectionsArrive(l) ==
  /\ l.at = "connections"
  /\ yaml' = YamlOfLoad(l)
  /\ Advance(l, [l EXCEPT !.at = "listing"])
  /\ UNCHANGED <<view, resources, loading, tableVars, deleteVars, switches, calm, elsewhere, changed>>

MissingYaml == NoYaml

\* The cluster is not among them.
ConnectionMissing(l) ==
  /\ l.at = "connections"
  /\ yaml' = MissingYaml
  /\ SetResources([view |-> l.view, names |-> {}])
  /\ EndLoad(l)
  /\ UNCHANGED <<view, sort, filter, deleteVars, switches, calm, elsewhere, changed>>

\* The connections or the resources cannot be listed: the yaml stays.
LoadFails(l) ==
  /\ l.at # "answer"
  /\ SetResources([view |-> l.view, names |-> {}])
  /\ EndLoad(l)
  /\ calm' = (calm /\ l.at # "connections")
  /\ UNCHANGED <<view, yaml, sort, filter, deleteVars, switches, elsewhere,
                 changed>>

HostLists(l) ==
  /\ l.at = "listing"
  /\ Advance(l, [l EXCEPT !.at = "answer", !.names = server[l.view[1]][l.view[2]]])
  /\ changed' = {}
  /\ UNCHANGED <<view, yaml, resources, loading, tableVars, deleteVars,
                 switches, elsewhere, calm>>

\* Mutant: the answer is added to what the table shows.
ShowMerged(l) ==
  /\ resources' = [view |-> l.view, names |-> resources.names \cup l.names]
  /\ selected' = {} /\ anchor' = NoKey
\* Mutant: the selection survives a load.
KeepSelection(l) ==
  /\ resources' = [view |-> l.view, names |-> l.names]
  /\ UNCHANGED <<selected, anchor>>
\* The resources are shown and selectionResetToken clears the selection.
ShowAnswer(l) ==
  /\ resources' = [view |-> l.view, names |-> l.names]
  /\ selected' = {} /\ anchor' = NoKey

ResourcesArrive(l) ==
  /\ l.at = "answer"
  /\ ShowAnswer(l)
  /\ EndLoad(l)
  /\ UNCHANGED <<view, yaml, sort, filter, deleteVars, switches, calm, elsewhere, changed>>

-----------------------------------------------------------------------------
(* the view *)

\* The effect on [activeKind, loadResources].
Reload(v) == BeginLoad(v, 0, v)

\* Another cluster or kind is shown in the same component.
SwitchView(v) ==
  /\ v # view
  /\ switches < MaxSwitches /\ Cardinality(loads) < MaxLoads
  /\ switches' = switches + 1
  /\ view' = v
  /\ sort' = KeptSort(sort, ColumnsOf[v[2]])
  /\ Reload(v)
  /\ UNCHANGED <<yaml, resources, selected, anchor, filter, deleteVars,
                 elsewhere, changed>>

\* A tab of no RBAC kind was shown in between: the component is a new one.
\* The answers of the old one's loads are ignored, its deletion goes on.
Remount(v) ==
  /\ switches < MaxSwitches
  /\ switches' = switches + 1
  /\ view' = v
  /\ yaml' = NoYaml
  /\ resources' = [view |-> v, names |-> {}]
  /\ selected' = {} /\ anchor' = NoKey /\ sort' = NoSort
  /\ loads' = {NewLoad(1, v, 0)}
  /\ loading' = TRUE
  /\ saving' = FALSE
  /\ deletions' = {[d EXCEPT !.orphan = TRUE] : d \in deletions}
  /\ calm' = TRUE
  /\ UNCHANGED <<filter, server, presses, asked, muddled, elsewhere, changed>>

-----------------------------------------------------------------------------
(* the table *)

\* toTableRows: each resource has a row, with its name as the key.
TableRows == resources.names

Visible == VisibleRows(TableRows, filter, sort)

\* Mutant: the range is taken from all rows.
ChangedOfAll(key, shift) == Clicked(Rows(TableRows, sort), anchor, key, shift)
ChangedRows(key, shift) == Clicked(Visible, anchor, key, shift)

ClickRow(key, shift) ==
  /\ key \in Range(Visible)
  /\ selected' = Checked(selected, ChangedRows(key, shift), key \notin selected)
  /\ anchor' = key
  /\ UNCHANGED <<view, sort, filter, loadVars, deleteVars, switches, calm, elsewhere, changed>>

ClickAll ==
  /\ selected' = AllVisible(selected, Visible)
  /\ UNCHANGED <<view, anchor, sort, filter, loadVars, deleteVars, switches,
                 calm, elsewhere, changed>>

ClickHead(column) ==
  /\ column \in ColumnsOf[view[2]]
  /\ sort' = ToggledSort(sort, column)
  /\ UNCHANGED <<view, selected, anchor, filter, loadVars, deleteVars,
                 switches, calm, elsewhere, changed>>

TypeFilter(f) ==
  /\ filter' = f
  /\ UNCHANGED <<view, selected, anchor, sort, loadVars, deleteVars, switches,
                 calm, elsewhere, changed>>

-----------------------------------------------------------------------------
(* What the editor is given *)

Template(kind) == <<"new", kind>>

\* handleCreate
CreatePayload ==
  [clusterId |-> view[1], clusterYaml |-> yaml, kind |-> view[2],
   resourceName |-> NoKey, yaml |-> Template(view[2])]

\* handleOpenExisting: the resource and its manifest come from the last answer.
OpenPayload(name) ==
  [CreatePayload EXCEPT !.resourceName = name,
                        !.yaml = <<resources.view[1], resources.view[2], name>>]

\* Neither opens an editor without a configuration.
CanOpen == yaml # NoYaml

-----------------------------------------------------------------------------
(* handleDeleteSelected *)

Targets == selected

\* The button is there while rows are selected and enabled unless saving.
PressDelete ==
  /\ presses < MaxPresses
  /\ selected # {} /\ ~saving /\ yaml # NoYaml
  /\ presses' = presses + 1
  /\ saving' = TRUE
  /\ deletions' = deletions \cup
       {[n |-> presses', view |-> view, yaml |-> yaml, kind |-> resources.view[2],
         targets |-> Targets, left |-> Targets, reloads |-> FALSE, orphan |-> FALSE]}
  /\ asked' = asked \cup {<<view, n>> : n \in selected}
  /\ muddled' = (muddled \/ loads # {} \/ ~calm)
  /\ UNCHANGED <<view, tableVars, loadVars, server, switches, calm, elsewhere, changed>>

\* Mutant: the resource is deleted from the cluster that is shown.
TargetShown(d) == view[1]
TargetCluster(d) == d.yaml

\* What run d deleted and will not load the table for.
Unloaded(d, names) == {<<<<d.yaml, d.kind>>, n>> : n \in names}

\* One resource after the other, in the order of the rows.
DeleteOne(d) ==
  /\ d.left # {}
  /\ LET n == Min(d.left)
     IN  /\ server' = [server EXCEPT ![TargetCluster(d)][d.kind] = @ \ {n}]
         /\ deletions' = (deletions \ {d}) \cup {[d EXCEPT !.left = @ \ {n}]}
         /\ changed' = IF d.orphan THEN changed \cup Unloaded(d, {n}) ELSE changed
  /\ UNCHANGED <<view, tableVars, loadVars, saving, presses, asked, muddled,
                 switches, elsewhere, calm>>

\* finally, of the component that is still there
AfterDeletion(d) == IF d.orphan THEN saving ELSE FALSE

\* One fails: the rest is left, and the table is not loaded again.
DeletionFails(d) ==
  /\ d.left # {}
  /\ saving' = AfterDeletion(d)
  /\ deletions' = deletions \ {d}
  /\ changed' = changed \cup Unloaded(d, d.targets \ d.left)
  /\ UNCHANGED <<view, tableVars, loadVars, server, presses, asked, muddled,
                 switches, elsewhere, calm>>

\* All are deleted: what was shown when the button was pressed is loaded.
DeletionReloads(d) ==
  /\ d.left = {} /\ ~d.reloads
  /\ Cardinality(loads) < MaxLoads
  /\ deletions' = (deletions \ {d}) \cup {[d EXCEPT !.reloads = TRUE]}
  /\ IF d.orphan THEN UNCHANGED <<loads, loading, calm>>
                 ELSE BeginLoad(d.view, d.n, view)
  /\ UNCHANGED <<view, tableVars, yaml, resources, saving, server, presses,
                 asked, muddled, switches, elsewhere, changed>>

\* await loadResources() is over
DeletionEnds(d) ==
  /\ d.reloads /\ \A l \in loads : l.by # d.n
  /\ saving' = AfterDeletion(d)
  /\ deletions' = deletions \ {d}
  /\ UNCHANGED <<view, tableVars, loadVars, server, presses, asked, muddled,
                 switches, calm, elsewhere, changed>>

-----------------------------------------------------------------------------
(* the cluster *)

Toggled(names, n) == IF n \in names THEN names \ {n} ELSE names \cup {n}

\* A resource appears or goes by Apply in an editor tab or by another client.
\* Apply reports to its tab only: no table is loaded.
ChangedElsewhere(v, n) ==
  /\ elsewhere < MaxElsewhere
  /\ elsewhere' = elsewhere + 1
  /\ server' = [server EXCEPT ![v[1]][v[2]] = Toggled(@, n)]
  /\ changed' = changed \cup {<<v, n>>}
  /\ UNCHANGED <<view, tableVars, loadVars, saving, deletions, presses, asked,
                 muddled, switches, calm>>

-----------------------------------------------------------------------------
Init ==
  /\ view = FirstView
  /\ yaml = NoYaml
  /\ resources = [view |-> view, names |-> {}]
  /\ selected = {} /\ anchor = NoKey /\ sort = NoSort /\ filter = Names
  /\ loads = {NewLoad(1, view, 0)}
  /\ loading = TRUE /\ saving = FALSE
  /\ deletions = {}
  /\ server = Stored
  /\ switches = 0 /\ presses = 0 /\ elsewhere = 0
  /\ calm = TRUE /\ changed = {}
  /\ asked = {} /\ muddled = FALSE

Next ==
  \/ \E l \in loads : \/ ConnectionsArrive(l) \/ ConnectionMissing(l)
                      \/ LoadFails(l) \/ HostLists(l) \/ ResourcesArrive(l)
  \/ \E v \in Views : SwitchView(v) \/ Remount(v)
  \/ \E key \in Names, shift \in BOOLEAN : ClickRow(key, shift)
  \/ ClickAll
  \/ \E column \in DOMAIN Cells : ClickHead(column)
  \/ \E f \in Filters : TypeFilter(f)
  \/ PressDelete
  \/ \E d \in deletions : \/ DeleteOne(d) \/ DeletionFails(d)
                          \/ DeletionReloads(d) \/ DeletionEnds(d)
  \/ \E v \in Views, n \in Names : ChangedElsewhere(v, n)

Spec == Init /\ [][Next]_vars

-----------------------------------------------------------------------------
Loads == [n : 1..MaxLoads, view : Views, by : 0..MaxPresses,
          at : {"connections", "listing", "answer"}, names : SUBSET Names]

TypeOK ==
  /\ view \in Views
  /\ yaml \in Clusters \cup {NoYaml}
  /\ resources \in [view : Views, names : SUBSET Names]
  /\ selected \subseteq Names /\ anchor \in Names \cup {NoKey}
  /\ sort.column \in DOMAIN Cells \cup {"none"}
  /\ filter \subseteq Names
  /\ loading \in BOOLEAN /\ saving \in BOOLEAN
  /\ loads \subseteq Loads
  /\ server \in [Clusters -> [Kinds -> SUBSET Names]]
  /\ calm \in BOOLEAN /\ changed \subseteq (Clusters \X Kinds) \X Names

\* "Loading" and the disabled button are never shown for nothing.
BusyHonest ==
  /\ loading => loads # {}
  /\ saving => \E d \in deletions : ~d.orphan

\* The table, the selection and the anchor of a range speak of the same rows,
\* and the sort of a column the table has: no late answer, no other view
\* leaves a row selected that is not listed, or the table busy for nothing.
SelectionListed ==
  /\ TypeOK
  /\ BusyHonest
  /\ selected \subseteq resources.names
  /\ anchor = NoKey \/ anchor \in resources.names
  /\ sort = NoSort \/ sort.column \in ColumnsOf[view[2]]

\* What handleOpenExisting and handleCreate give to the editor belongs
\* together: with no load under way, and if the last one began alone and for
\* the view and could list the connections, the rows are the view's and the
\* configuration is its cluster's.
PayloadCoherent ==
  loads = {} /\ calm =>
    IF CanOpen
    THEN /\ CreatePayload.clusterYaml = CreatePayload.clusterId
         /\ \A name \in resources.names : LET p == OpenPayload(name) IN
              /\ p.clusterYaml = p.clusterId
              /\ p.yaml = <<p.clusterId, p.kind, name>>
    ELSE resources.names = {}

\* The table deletes nothing that the user did not see selected when the
\* button was pressed, whatever is shown while the deletion goes on and
\* whoever else changes the cluster, as long as the button was pressed on a
\* table that had settled.
OnlyAskedDeleted ==
  [][~muddled /\ elsewhere' = elsewhere => \A c \in Clusters, k \in Kinds :
       \A n \in server[c][k] \ server'[c][k] : <<<<c, k>>, n>> \in asked]_vars

\* Once everything has settled, a table that lists anything is outdated in
\* nothing but what Apply in the editor, another client, a deletion that
\* failed half way or the deletion of a component that is gone changed since
\* resources were listed: the table's own deletions show.
ShowsServer ==
  loads = {} /\ deletions = {} /\ calm /\ resources.names # {} =>
    \A n \in Names :
      (n \in resources.names <=> n \in server[view[1]][view[2]]) \/ <<view, n>> \in changed

\* A click on the table changes only rows that are visible: what the filter
\* hides keeps its selection.
HiddenUntouched ==
  [][resources' = resources /\ loads' = loads =>
       \A n \in resources.names \ filter : n \in selected <=> n \in selected']_vars
====
