---- MODULE SubWindows ----
(***************************************************************************)
(* The horizontal sub-window of the desktop GUI (App.tsx): a strip with    *)
(* the console and one tab per RBAC resource that is being edited, the     *)
(* edits of their YAML, applying it, and detaching a tab into a window.    *)
(*                                                                         *)
(* The YAML of a tab is a version: Absent while the tab is not open,       *)
(* Listed when it is opened with what the table showed, and a fresh number *)
(* for every edit.  `seen' is the copy of the tabs that the callback of    *)
(* detachHorizontalTab captured: its dependencies are the clusters and the *)
(* resolved cluster, and not the tabs.                                     *)
(***************************************************************************)
EXTENDS Naturals, Sequences, FiniteSets, FiniteSetsExt, SequencesExt

CONSTANTS
  Editors,    \* ids of RBAC editor tabs
  MaxHistory, \* lines the console keeps (18 in the code)
  MaxEdits,   \* bound on edits
  MaxApplies, \* bound on requests to apply under way
  MaxDetached \* bound on requests for windows under way

Console == "console"
None == "none"
Ids == Editors \cup {Console}

ASSUME SubWindowsAssumption ==
  /\ Console \notin Editors /\ None \notin Editors
  /\ MaxHistory \in Nat \ {0}
  /\ {MaxEdits, MaxApplies, MaxDetached} \subseteq Nat

VARIABLES
  tabs,      \* horizontalTabs, their ids
  yaml,      \* id -> version of its payload's YAML
  status,    \* id -> status line of the editor
  active,    \* activeHorizontalTabId
  seen,      \* yaml as captured by detachHorizontalTab
  applying,  \* applyingSubWindowTabId
  applies,   \* requests to apply that are under way
  lines,     \* history of the console: the key and the kind of each line
  detaches,  \* requests to open a window
  edits,     \* edits so far
  mixed      \* history: two tabs were applying at once

tabVars == <<tabs, yaml, status, active, seen>>
applyVars == <<applying, applies, mixed>>
vars == <<tabVars, applyVars, lines, detaches, edits>>

Absent == 0
Listed == 1

IsOpen(id) == id \in Range(tabs)
LastOf(s) == IF s = <<>> THEN None ELSE s[Len(s)]
\* filter, written as a recursive function of what is kept
Filter(s, keep) ==
  LET f[i \in 0..Len(s)] ==
        IF i = 0 THEN <<>> ELSE IF s[i] \in keep THEN Append(f[i - 1], s[i]) ELSE f[i - 1]
  IN  f[Len(s)]
Without(s, id) == Filter(s, Range(s) \ {id})

\* AgentConsole is mounted only while its tab is active.
Mounted(a) == IF a = Console THEN lines ELSE <<>>

-----------------------------------------------------------------------------
(* tabs *)

Opened(id) == IF IsOpen(id) THEN tabs ELSE Append(tabs, id)

\* openConsoleTab, openRbacEditorTab: a tab that is open keeps its edits
OpenTab(id) ==
  /\ tabs' = Opened(id)
  /\ yaml' = IF IsOpen(id) THEN yaml ELSE [yaml EXCEPT ![id] = Listed]
  /\ status' = IF IsOpen(id) THEN status ELSE [status EXCEPT ![id] = None]
  /\ active' = id
  /\ lines' = Mounted(id)
  /\ UNCHANGED <<seen, applyVars, detaches, edits>>

ActivateTab(id) ==
  /\ IsOpen(id)
  /\ active' = id
  /\ lines' = Mounted(id)
  /\ UNCHANGED <<tabs, yaml, status, seen, applyVars, detaches, edits>>

\* Mutant: the active tab is not replaced.
ActiveKept(id, next) == active
\* The active tab once tab id is gone: the last one that is left.
ActiveAfter(id, next) == IF active = id THEN LastOf(next) ELSE active

RemoveTab(id) ==
  LET next == Without(tabs, id)
  IN  /\ tabs' = next
      /\ yaml' = [yaml EXCEPT ![id] = Absent]
      /\ status' = [status EXCEPT ![id] = None]
      /\ active' = ActiveAfter(id, next)
      /\ lines' = Mounted(active')

CloseTab(id) ==
  /\ IsOpen(id)
  /\ RemoveTab(id)
  /\ UNCHANGED <<seen, applyVars, detaches, edits>>

\* reorderHorizontalTabs
ReorderTabs(from, to) ==
  /\ from # to
  /\ tabs' = InsertAt(RemoveAt(tabs, from), to, tabs[from])
  /\ UNCHANGED <<yaml, status, active, seen, applyVars, lines,
                 detaches, edits>>

\* onYamlChange of the editor that is shown
EditYaml ==
  /\ active \in Editors /\ IsOpen(active)
  /\ edits < MaxEdits
  /\ edits' = edits + 1
  /\ yaml' = [yaml EXCEPT ![active] = Listed + edits']
  /\ UNCHANGED <<tabs, status, active, seen, applyVars, lines, detaches>>

-----------------------------------------------------------------------------
(* Apply *)

\* Mutant: the button of a tab that is applying stays enabled.
CanAlwaysApply(id) == id \in Editors
CanApply(id) == id \in Editors /\ applying # id

\* Tells the requests under way apart.
NewNumber == Min(1..MaxApplies \ {r.n : r \in applies})

Apply ==
  /\ CanApply(active) /\ IsOpen(active)
  /\ Cardinality(applies) < MaxApplies
  /\ applying' = active
  /\ status' = [status EXCEPT ![active] = None]
  /\ applies' = applies \cup
       {[n |-> NewNumber, id |-> active]}
  /\ mixed' = (mixed \/ \E r \in applies : r.id # active)
  /\ UNCHANGED <<tabs, yaml, active, seen, lines, detaches, edits>>

\* Mutant: only a success ends it.
EndsIfOk(result) == IF result = "ok" THEN None ELSE applying
\* .finally: whichever tab's request it was
AfterApply(result) == None

\* The cluster took the YAML or refused it; the answer is shown on the tab
\* with this id, if there is one by now.
ApplyAnswered(r, result) ==
  /\ status' = IF IsOpen(r.id) THEN [status EXCEPT ![r.id] = result] ELSE status
  /\ applying' = AfterApply(result)
  /\ applies' = applies \ {r}
  /\ UNCHANGED <<tabs, yaml, active, seen, mixed, lines, detaches, edits>>

-----------------------------------------------------------------------------
(* detachHorizontalTab *)

\* The clusters or the resolved cluster change: the callback is made anew.
RefreshCallback ==
  /\ seen' = yaml
  /\ UNCHANGED <<tabs, yaml, status, active, applyVars, lines, detaches, edits>>

\* The window gets the document of the captured copy, which may be an older
\* one than the tab holds; a tab that the copy does not have stays where it is.
DetachTab(id) ==
  /\ IsOpen(id)
  /\ seen[id] # Absent
  /\ Cardinality(detaches) < MaxDetached
  /\ detaches' = detaches \cup {[id |-> id, yaml |-> seen[id]]}
  /\ UNCHANGED <<tabVars, applyVars, lines, edits>>

WindowOpens(r) ==
  /\ detaches' = detaches \ {r}
  /\ RemoveTab(r.id)
  /\ UNCHANGED <<seen, applyVars, edits>>

WindowFails(r) ==
  /\ detaches' = detaches \ {r}
  /\ UNCHANGED <<tabVars, applyVars, lines, edits>>

-----------------------------------------------------------------------------
(* AgentConsole *)

\* the key is the number of lines, and only the last ones are kept
addHistory(h, kind) ==
  LET next == Append(h, [key |-> Len(h) + 1, kind |-> kind])
  IN  IF Len(next) > MaxHistory THEN Tail(next) ELSE next

\* Enter: the command and its result are added.  A selector that does not
\* parse makes querySelector throw: then the result is missing.
RunCommand ==
  /\ active = Console
  /\ lines' \in {addHistory(lines, "command"),
                 addHistory(addHistory(lines, "command"), "result")}
  /\ UNCHANGED <<tabVars, applyVars, detaches, edits>>

-----------------------------------------------------------------------------
\* The window starts without tabs, or it was opened for one
\* (parseInitialHorizontalWindowTab).
Init ==
  /\ \E id \in Ids \cup {None} :
       /\ tabs = IF id = None THEN <<>> ELSE <<id>>
       /\ yaml = [i \in Ids |-> IF i = id THEN Listed ELSE Absent]
       /\ active = id
  /\ status = [id \in Ids |-> None]
  /\ seen = yaml
  /\ applying = None
  /\ applies = {}
  /\ lines = <<>>
  /\ detaches = {}
  /\ edits = 0
  /\ mixed = FALSE

Next ==
  \/ \E id \in Ids : OpenTab(id) \/ ActivateTab(id) \/ CloseTab(id) \/ DetachTab(id)
  \/ \E from, to \in DOMAIN tabs : ReorderTabs(from, to)
  \/ EditYaml \/ Apply
  \/ \E r \in applies, result \in {"ok", "error"} : ApplyAnswered(r, result)
  \/ RefreshCallback
  \/ \E r \in detaches : WindowOpens(r) \/ WindowFails(r)
  \/ RunCommand

Spec == Init /\ [][Next]_vars

-----------------------------------------------------------------------------
Results == {None, "ok", "error"}

TypeOK ==
  /\ tabs \in Seq(Ids)
  /\ yaml \in [Ids -> Nat] /\ seen \in [Ids -> Nat]
  /\ status \in [Ids -> Results]
  /\ active \in Ids \cup {None}
  /\ applying \in Editors \cup {None}
  /\ applies \subseteq [n : 1..MaxApplies, id : Editors]
  /\ detaches \subseteq [id : Ids, yaml : Nat]
  /\ edits \in Nat
  /\ lines \in Seq([key : Nat, kind : {"command", "result"}])
  /\ mixed \in BOOLEAN

\* The console never grows past its bound, and the keys React tells its lines
\* apart by are distinct except that once the history has been full every new
\* line has the same key; a result follows the command it belongs to.
ConsoleSound ==
  /\ Len(lines) <= MaxHistory
  /\ \A i, j \in DOMAIN lines :
       i < j => \/ lines[i].key < lines[j].key
                \/ lines[i].key = MaxHistory + 1 /\ lines[j].key = MaxHistory + 1
  /\ \A i \in DOMAIN lines :
       lines[i].kind = "result" => i = 1 \/ lines[i - 1].kind = "command"

\* However closing, opening, moving and late answers of detaching follow one
\* another: no tab appears twice, the tabs are exactly the documents that are
\* held, and the body shows one of them as long as there is one.
StripSound ==
  /\ TypeOK
  /\ ConsoleSound
  /\ Cardinality(Range(tabs)) = Len(tabs)
  /\ \A id \in Ids : yaml[id] # Absent <=> IsOpen(id)
  /\ IF tabs = <<>> THEN active = None ELSE IsOpen(active)

\* "Applying" is never shown for nothing: the tab it names has a request under
\* way, so its Apply button is enabled again.
ApplyingHonest ==
  applying # None => \E r \in applies : r.id = applying

\* A tab is applied once at a time, and its button says so, as long as no two
\* tabs apply at once: applyingSubWindowTabId has room for one.
OneApplyAtATime ==
  ~mixed => /\ \A r1, r2 \in applies : r1 = r2
            /\ \A r \in applies : applying = r.id

====
