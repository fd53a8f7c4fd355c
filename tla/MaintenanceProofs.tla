-------------------------- MODULE MaintenanceProofs --------------------------
(***************************************************************************)
(* Proofs about Maintenance for any number of overlapping requests of the  *)
(* status.                                                                 *)
(***************************************************************************)
EXTENDS Maintenance, TLAPS

\* The state a command for one service leaves it in.
Reached(op, s) ==
  /\ op = "install" => s # "not-installed"
  /\ op = "start" => s = "running"
  /\ op = "stop" => s = "stopped"

\* At most one request of the status is awaited by a handler, and none when
\* there is no handler.
OneWaits ==
  /\ \A f, g \in refreshes : f.job /\ g.job => f = g
  /\ jobs = {} => \A f \in refreshes : ~f.job

\* A handler that has come to the runtime has the control plane done, and one
\* that has reported success has nothing left to do.
HalfWay ==
  /\ ~disturbed => \A j \in jobs :
       j.role = "runtime" => Reached(j.op, services["control-plane"])
  /\ report \in Ops => \A j \in jobs : j.role = None

\* The inductive invariant.
Inv == BusyExact /\ OneWaits /\ HalfWay /\ BundleSound /\ ReportTrue

Refresh == [n : 1..MaxRefreshes, job : BOOLEAN, read : Ages]

(* BeginRefresh adds a request of the right type.                          *)
LEMMA BeginRefreshAdds ==
  ASSUME NEW byJob \in BOOLEAN, NEW others, BeginRefresh(byJob, others)
  PROVE  \E n \in 1..MaxRefreshes :
           refreshes' = others \cup {[n |-> n, job |-> byJob, read |-> None]}
<1> DEFINE m == CHOOSE n \in 1..MaxRefreshes : Free(n, others)
<1>1. m \in 1..MaxRefreshes
  BY DEF BeginRefresh
<1>2. refreshes' = others \cup {[n |-> m, job |-> byJob, read |-> None]}
  BY DEF BeginRefresh
<1> QED
  BY <1>1, <1>2

(* The requests under way keep their number and who awaits them when what  *)
(* they read ages.                                                         *)
LEMMA AgedSame ==
  ASSUME refreshes \subseteq Refresh
  PROVE  /\ AgedRefreshes \subseteq Refresh
         /\ \A g \in AgedRefreshes : \E f \in refreshes :
              /\ g.n = f.n /\ g.job = f.job
              /\ g = [f EXCEPT !.read = Aged(f.read)]
         /\ \A f \in refreshes : \E g \in AgedRefreshes : g.job = f.job
<1>1. \A a \in Ages : Aged(a) \in Ages
  BY DEF Ages, Aged
<1>2. ASSUME NEW f \in Refresh
      PROVE  LET g == [f EXCEPT !.read = Aged(f.read)]
             IN  g \in Refresh /\ g.n = f.n /\ g.job = f.job
  BY <1>1 DEF Refresh
<1>3. AgedRefreshes = {[f EXCEPT !.read = Aged(f.read)] : f \in refreshes}
  BY DEF AgedRefreshes
<1> QED
  BY <1>2, <1>3

(* Initially the window has asked for the status and nothing else.         *)
LEMMA InvInit == Init => Inv
<1> SUFFICES ASSUME Init PROVE Inv
  OBVIOUS
<1> USE MaintenanceAssumption DEF Init
<1>1. TypeOK
  <2>1. FirstRefresh \in Refresh
    BY DEF FirstRefresh, Refresh, Ages
  <2>2. services \in [Roles -> {"not-installed", "stopped", "running"}]
    OBVIOUS
  <2>3. /\ checking \in BOOLEAN /\ managing \in BOOLEAN /\ misforced \in BOOLEAN
        /\ disturbed \in BOOLEAN /\ stale \in BOOLEAN /\ crossed \in BOOLEAN
    BY Zenon
  <2>4. /\ stored \in Channels /\ channel \in Channels
        /\ report \in Ops \cup {None, "failed"} /\ status \in Ages
    BY DEF Channels, Ages
  <2> QED
    BY <2>1, <2>2, <2>3, <2>4 DEF TypeOK, Refresh
<1>2. UpdateBusyExact /\ ManageBusyExact /\ ForceOnlyDev
  BY DEF UpdateBusyExact, ManageBusyExact, ForceOnlyDev, FirstRefresh
<1>3. OneWaits /\ HalfWay
  BY DEF OneWaits, HalfWay, FirstRefresh, Ops, None
<1>4. BundleSound /\ ReportTrue
  BY DEF BundleSound, ReportTrue, Roles, None
<1> QED
  BY <1>1, <1>2, <1>3, <1>4 DEF Inv, BusyExact

(* The part of the invariant about updates.                                *)
UpdateInv ==
  /\ stored \in Channels /\ channel \in Channels
  /\ checking \in BOOLEAN /\ misforced \in BOOLEAN
  /\ updates \subseteq {"check", "install", "force"}
  /\ UpdateBusyExact
  /\ ForceOnlyDev

(* The part about the services, with the types of its variables.           *)
ServiceType ==
  /\ managing \in BOOLEAN
  /\ jobs \subseteq [op : Ops, role : Roles \cup {None}]
  /\ report \in Ops \cup {None, "failed"}
  /\ binaries \subseteq Roles
  /\ services \in [Roles -> {"not-installed", "stopped", "running"}]
  /\ refreshes \subseteq Refresh
  /\ status \in Ages
  /\ disturbed \in BOOLEAN /\ stale \in BOOLEAN /\ crossed \in BOOLEAN

ServiceInv ==
  /\ ServiceType
  /\ ManageBusyExact /\ OneWaits /\ HalfWay /\ BundleSound /\ ReportTrue

(* The invariant is these two parts.                                       *)
LEMMA InvParts == Inv <=> UpdateInv /\ ServiceInv
BY DEF Inv, BusyExact, TypeOK, UpdateInv, ServiceInv, ServiceType, Refresh

(* Every step keeps the part about updates: a command starts only when     *)
(* none is under way, every answer ends the only one, and the others leave *)
(* it alone.                                                               *)
LEMMA UpdateStep == UpdateInv /\ [Next]_vars => UpdateInv'
<1> SUFFICES ASSUME UpdateInv, [Next]_vars PROVE UpdateInv'
  OBVIOUS
<1>0. ASSUME UNCHANGED updateVars PROVE UpdateInv'
  BY <1>0 DEF UpdateInv, updateVars, UpdateBusyExact, ForceOnlyDev
<1>1. ASSUME NEW c \in Channels, ChangeChannel(c) PROVE UpdateInv'
  BY <1>1 DEF ChangeChannel, UpdateInv, UpdateBusyExact, ForceOnlyDev
<1>2. CASE ElsewhereChannel
  BY <1>2 DEF ElsewhereChannel, UpdateInv, UpdateBusyExact, ForceOnlyDev
<1>3. ASSUME NEW kind \in {"check", "install", "force"}, PressUpdate(kind)
      PROVE  UpdateInv'
  <2>1. ~checking /\ updates = {}
    BY <1>3 DEF PressUpdate, UpdateInv, UpdateBusyExact
  <2>2. checking' = TRUE /\ updates' = {kind}
    BY <1>3, <2>1 DEF PressUpdate
  <2>3. misforced' = FALSE
    BY <1>3 DEF PressUpdate, UpdateInv, ForceOnlyDev, ForceAllowed
  <2>4. stored' = stored /\ channel' = channel
    BY <1>3 DEF PressUpdate
  <2> QED
    BY <2>2, <2>3, <2>4 DEF UpdateInv, UpdateBusyExact, ForceOnlyDev
<1>4. ASSUME NEW kind \in updates, NEW ok \in BOOLEAN, UpdateAnswered(kind, ok)
      PROVE  UpdateInv'
  <2>1. updates = {kind}
    BY DEF UpdateInv, UpdateBusyExact
  <2>2. checking' = FALSE /\ updates' = {}
    BY <1>4, <2>1 DEF UpdateAnswered, CheckingAtEnd
  <2>3. UNCHANGED <<stored, channel, misforced>>
    BY <1>4 DEF UpdateAnswered
  <2> QED
    BY <2>2, <2>3 DEF UpdateInv, UpdateBusyExact, ForceOnlyDev
<1>5. ASSUME NEW kind \in updates, Relaunch(kind) PROVE UpdateInv'
  <2>1. /\ checking' = FALSE /\ updates' = {} /\ channel' = stored
        /\ UNCHANGED <<stored, misforced>>
    BY <1>5 DEF Relaunch
  <2> QED
    BY <2>1 DEF UpdateInv, UpdateBusyExact, ForceOnlyDev
<1>6. ASSUME \/ ElsewhereServices \/ PressRefresh
             \/ \E f \in refreshes : HostReadsStatus(f) \/ StatusArrives(f) \/ StatusFails(f)
             \/ \E op \in {"bundle", "install", "start", "stop"} : PressJob(op)
             \/ \E j \in jobs : RoleSucceeds(j) \/ RoleFails(j) \/ BundleSucceeds(j)
                                \/ BundleFails(j)
             \/ UNCHANGED vars
      PROVE  UNCHANGED updateVars
  BY <1>6 DEF ElsewhereServices, PressRefresh, HostReadsStatus, StatusArrives,
     StatusFails, EndRefresh, PressJob, RoleSucceeds, RoleFails, BundleSucceeds,
     BundleFails, vars
<1> QED
  BY <1>0, <1>1, <1>2, <1>3, <1>4, <1>5, <1>6 DEF Next

(* A step that changes neither services, binaries, jobs, report nor the    *)
(* button keeps the part about the services if the requests it leaves are  *)
(* awaited as before.                                                      *)
LEMMA SameServices ==
  ASSUME ServiceInv,
         UNCHANGED <<binaries, services, managing, jobs, report>>,
         disturbed' = disturbed \/ disturbed' = TRUE,
         refreshes' \subseteq Refresh, status' \in Ages,
         stale' \in BOOLEAN, crossed' \in BOOLEAN,
         \A f, g \in refreshes' : f.job /\ g.job => f = g,
         (\E f \in refreshes : f.job) <=> (\E f \in refreshes' : f.job)
  PROVE  ServiceInv'
<1>1. disturbed' \in BOOLEAN
  BY DEF ServiceInv, ServiceType
<1>2. ServiceType'
  BY <1>1 DEF ServiceInv, ServiceType
<1>3. ManageBusyExact'
  BY DEF ServiceInv, ManageBusyExact
<1>4. OneWaits'
  BY DEF ServiceInv, OneWaits
<1>5. HalfWay'
  BY DEF ServiceInv, HalfWay
<1>6. BundleSound' /\ ReportTrue'
  BY DEF ServiceInv, BundleSound, ReportTrue
<1> QED
  BY <1>2, <1>3, <1>4, <1>5, <1>6 DEF ServiceInv

(* The end of a request: the handler that awaited it, if any, is over.     *)
LEMMA RefreshEnds ==
  ASSUME ServiceInv, NEW f \in refreshes, EndRefresh(f),
         UNCHANGED binaries, status' \in Ages, stale' \in BOOLEAN
  PROVE  ServiceInv'
<1>1. /\ refreshes' = refreshes \ {f}
      /\ managing' = (managing /\ ~f.job)
      /\ jobs' = IF f.job THEN {} ELSE jobs
      /\ UNCHANGED <<binaries, services, report, disturbed, crossed>>
  BY DEF EndRefresh, ManagingAfter
<1>2. f \in Refresh /\ f.job \in BOOLEAN
  BY DEF ServiceInv, ServiceType, Refresh
<1>3. CASE f.job
  <2>1. managing' = FALSE /\ jobs' = {}
    BY <1>1, <1>3
  <2>2. \A g \in refreshes' : ~g.job
    BY <1>1, <1>3 DEF ServiceInv, OneWaits
  <2>3. ServiceType'
    BY <1>1, <2>1 DEF ServiceInv, ServiceType
  <2>4. ManageBusyExact' /\ OneWaits'
    BY <2>1, <2>2 DEF ManageBusyExact, OneWaits
  <2>5. HalfWay' /\ BundleSound' /\ ReportTrue'
    BY <1>1, <2>1 DEF ServiceInv, HalfWay, BundleSound, ReportTrue
  <2> QED
    BY <2>3, <2>4, <2>5 DEF ServiceInv
<1>4. CASE ~f.job
  <2>1. managing' = managing /\ jobs' = jobs
    BY <1>1, <1>2, <1>4 DEF ServiceInv, ServiceType
  <2>2. refreshes' \subseteq Refresh /\ crossed' \in BOOLEAN
    BY <1>1 DEF ServiceInv, ServiceType
  <2>3. \A g, h \in refreshes' : g.job /\ h.job => g = h
    BY <1>1 DEF ServiceInv, OneWaits
  <2>4. (\E g \in refreshes : g.job) <=> (\E g \in refreshes' : g.job)
    BY <1>1, <1>4
  <2> QED
    BY <1>1, <2>1, <2>2, <2>3, <2>4, SameServices
<1> QED
  BY <1>3, <1>4

(* The handler under way is the only one; until its work is done nothing   *)
(* is reported and no request of the status is awaited.                    *)
LEMMA OneJob ==
  ASSUME ServiceInv, NEW j \in jobs
  PROVE  /\ jobs = {j}
         /\ managing = TRUE
         /\ j.op \in Ops
         /\ j.role \in Roles \cup {None}
         /\ j = [op |-> j.op, role |-> j.role]
         /\ j.role # None => report \notin Ops /\ \A f \in refreshes : ~f.job
<1>1. j \in [op : Ops, role : Roles \cup {None}]
  BY DEF ServiceInv, ServiceType
<1>2. jobs = {j} /\ managing = TRUE
  BY DEF ServiceInv, ServiceType, ManageBusyExact
<1>3. ASSUME j.role # None PROVE report \notin Ops /\ \A f \in refreshes : ~f.job
  BY <1>3 DEF ServiceInv, HalfWay, ManageBusyExact
<1> QED
  BY <1>1, <1>2, <1>3

(* A command for one service leaves it where the command leads to, leaves  *)
(* the other one alone, and installs nothing without its binary.           *)
LEMMA DoneSound ==
  ASSUME ServiceInv, NEW op \in {"install", "start", "stop"}, NEW r \in Roles,
         op = "install" => r \in binaries,
         op # "install" => services[r] # "not-installed"
  PROVE  /\ Done(op, r) \in [Roles -> {"not-installed", "stopped", "running"}]
         /\ Reached(op, Done(op, r)[r])
         /\ \A q \in Roles \ {r} : Done(op, r)[q] = services[q]
         /\ \A q \in Roles : Done(op, r)[q] # "not-installed" => q \in binaries
<1>1. /\ services \in [Roles -> {"not-installed", "stopped", "running"}]
      /\ \A q \in Roles : services[q] # "not-installed" => q \in binaries
  BY DEF ServiceInv, ServiceType, BundleSound
<1>2. CASE op = "install"
  <2>1. Done(op, r) = [services EXCEPT ![r] = IF @ = "not-installed" THEN "stopped" ELSE @]
    BY <1>2 DEF Done, Installed
  <2> QED
    BY <1>1, <1>2, <2>1 DEF Reached
<1>3. CASE op = "start"
  <2>1. Done(op, r) = [services EXCEPT ![r] = "running"]
    BY <1>3 DEF Done
  <2> QED
    BY <1>1, <1>3, <2>1 DEF Reached
<1>4. CASE op = "stop"
  <2>1. Done(op, r) = [services EXCEPT ![r] = "stopped"]
    BY <1>4 DEF Done
  <2> QED
    BY <1>1, <1>4, <2>1 DEF Reached
<1> QED
  BY <1>2, <1>3, <1>4

(* A status never becomes more than it was.                                *)
LEMMA AgedStatus ==
  ASSUME ServiceInv
  PROVE  Aged(status) \in Ages
BY DEF ServiceInv, ServiceType, Ages, Aged

(* The failure of the only handler.                                        *)
LEMMA FailKeeps ==
  ASSUME ServiceInv, NEW j \in jobs, j.role # None, FailJob(j),
         UNCHANGED disturbed, status' \in Ages, binaries' \subseteq Roles,
         services' \in [Roles -> {"not-installed", "stopped", "running"}],
         BundleSound'
  PROVE  ServiceInv'
<1>1. /\ report' = "failed" /\ managing' = FALSE /\ stale' = TRUE
      /\ jobs' = {} /\ refreshes' = AgedRefreshes /\ crossed' = crossed
  BY OneJob DEF FailJob
<1>2. \A f \in refreshes : ~f.job
  BY OneJob
<1>3. refreshes \subseteq Refresh
  BY DEF ServiceInv, ServiceType
<1>4. refreshes' \subseteq Refresh /\ \A f \in refreshes' : ~f.job
  BY <1>1, <1>2, <1>3, AgedSame
<1>5. "failed" \notin Ops
  BY DEF Ops
<1>6. disturbed' \in BOOLEAN /\ crossed' \in BOOLEAN
  BY <1>1 DEF ServiceInv, ServiceType
<1>7. ServiceType'
  BY <1>1, <1>4, <1>6 DEF ServiceType
<1>8. ManageBusyExact' /\ OneWaits' /\ HalfWay'
  BY <1>1, <1>4, <1>5 DEF ManageBusyExact, OneWaits, HalfWay
<1>9. ReportTrue'
  BY <1>1 DEF ReportTrue
<1> QED
  BY <1>7, <1>8, <1>9 DEF ServiceInv

(* Its success: true for both services when it is reported, and the status *)
(* is asked for on its behalf.                                             *)
LEMMA SucceedKeeps ==
  ASSUME ServiceInv, NEW j \in jobs, j.role # None, Succeed(j),
         UNCHANGED disturbed, status' \in Ages, binaries' \subseteq Roles,
         services' \in [Roles -> {"not-installed", "stopped", "running"}],
         BundleSound',
         ~disturbed => \A r \in Roles : Reached(j.op, services'[r])
  PROVE  ServiceInv'
<1>1. PICK n \in 1..MaxRefreshes :
        refreshes' = AgedRefreshes \cup {[n |-> n, job |-> TRUE, read |-> None]}
  BY BeginRefreshAdds DEF Succeed
<1> DEFINE r0 == [n |-> n, job |-> TRUE, read |-> None]
           j0 == [op |-> j.op, role |-> None]
<1>2. \A f \in AgedRefreshes : ~f.job /\ f \in Refresh
  BY OneJob, AgedSame DEF ServiceInv, ServiceType
<1>3. r0 \in Refresh /\ r0.job
  BY DEF Refresh, Ages
<1>4. [j EXCEPT !.role = None] = j0
  <2>1. j \in [op : Ops, role : Roles \cup {None}]
    BY DEF ServiceInv, ServiceType
  <2> QED
    BY <2>1
<1>5. /\ jobs' = {j0} /\ report' = j.op /\ managing' = TRUE
      /\ UNCHANGED stale /\ crossed' = (AgedRefreshes # {})
  BY <1>4, OneJob DEF Succeed, BeginRefresh
<1>6. disturbed' \in BOOLEAN /\ stale' \in BOOLEAN /\ crossed' \in BOOLEAN
  <2>1. disturbed' \in BOOLEAN /\ stale' \in BOOLEAN
    BY <1>5 DEF ServiceInv, ServiceType
  <2>2. crossed' \in BOOLEAN
    BY <1>5, Zenon
  <2> QED
    BY <2>1, <2>2
<1>7. ServiceType'
  <2>1. j0 \in [op : Ops, role : Roles \cup {None}] /\ report' \in Ops
    BY <1>5, OneJob
  <2>2. refreshes' \subseteq Refresh
    BY <1>1, <1>2, <1>3
  <2> QED
    BY <1>5, <1>6, <2>1, <2>2 DEF ServiceType
<1>8. ManageBusyExact' /\ OneWaits'
  <2>1. r0 \in refreshes' /\ \A f \in refreshes' : f.job => f = r0
    BY <1>1, <1>2
  <2>2. j0.role = None /\ \A k \in jobs' : k = j0
    BY <1>5
  <2>3. \E f \in refreshes' : f.job
    BY <2>1, <1>3
  <2>4. ManageBusyExact'
    BY <1>5, <2>2, <2>3 DEF ManageBusyExact
  <2>5. OneWaits'
    BY <1>5, <2>1 DEF OneWaits
  <2> QED
    BY <2>4, <2>5
<1>9. HalfWay'
  BY <1>5 DEF HalfWay, None
<1>10. ReportTrue'
  BY <1>5 DEF ReportTrue, Reached
<1> QED
  BY <1>7, <1>8, <1>9, <1>10 DEF ServiceInv

(* Each action on the services keeps the part about them.                  *)
LEMMA ElsewhereKeeps == ServiceInv /\ ElsewhereServices => ServiceInv'
<1> SUFFICES ASSUME ServiceInv, ElsewhereServices PROVE ServiceInv'
  OBVIOUS
<1>1. PICK r \in Roles, s \in {"stopped", "running"} :
        /\ services[r] \notin {"not-installed", s}
        /\ services' = [services EXCEPT ![r] = s]
  BY DEF ElsewhereServices
<1>2. /\ disturbed' = TRUE /\ stale' = TRUE /\ status' = Aged(status)
      /\ refreshes' = AgedRefreshes
      /\ UNCHANGED <<binaries, managing, jobs, report, crossed>>
  BY DEF ElsewhereServices
<1>3. refreshes \subseteq Refresh
  BY DEF ServiceInv, ServiceType
<1>4. status' \in Ages
  BY <1>2, AgedStatus
<1>5. services' \in [Roles -> {"not-installed", "stopped", "running"}]
  BY <1>1 DEF ServiceInv, ServiceType
<1>6. ServiceType'
  BY <1>2, <1>3, <1>4, <1>5, AgedSame DEF ServiceInv, ServiceType
<1>7. OneWaits'
  <2>1. ASSUME NEW f \in refreshes', NEW g \in refreshes', f.job, g.job
        PROVE  f = g
    <3>1. PICK a \in refreshes : a.job = f.job /\ f = [a EXCEPT !.read = Aged(a.read)]
      BY <1>2, <1>3, AgedSame
    <3>2. PICK b \in refreshes : b.job = g.job /\ g = [b EXCEPT !.read = Aged(b.read)]
      BY <1>2, <1>3, AgedSame
    <3>3. a = b
      BY <2>1, <3>1, <3>2 DEF ServiceInv, OneWaits
    <3> QED
      BY <3>1, <3>2, <3>3
  <2>2. ASSUME jobs' = {}, NEW f \in refreshes' PROVE ~f.job
    <3>1. PICK a \in refreshes : a.job = f.job
      BY <1>2, <1>3, AgedSame
    <3> QED
      BY <1>2, <2>2, <3>1 DEF ServiceInv, OneWaits
  <2> QED
    BY <2>1, <2>2 DEF OneWaits
<1>8. ManageBusyExact'
  <2>1. (\E f \in refreshes : f.job) <=> (\E f \in refreshes' : f.job)
    BY <1>2, <1>3, AgedSame
  <2> QED
    BY <1>2, <2>1 DEF ServiceInv, ManageBusyExact
<1>9. HalfWay'
  BY <1>2 DEF ServiceInv, HalfWay
<1>10. ReportTrue'
  BY <1>2 DEF ReportTrue
<1>11. BundleSound'
  BY <1>1, <1>2 DEF ServiceInv, ServiceType, BundleSound
<1> QED
  BY <1>6, <1>7, <1>8, <1>9, <1>10, <1>11 DEF ServiceInv

LEMMA PressRefreshKeeps == ServiceInv /\ PressRefresh => ServiceInv'
<1> SUFFICES ASSUME ServiceInv, PressRefresh PROVE ServiceInv'
  OBVIOUS
<1>1. PICK n \in 1..MaxRefreshes :
        refreshes' = refreshes \cup {[n |-> n, job |-> FALSE, read |-> None]}
  BY BeginRefreshAdds DEF PressRefresh
<1> DEFINE r0 == [n |-> n, job |-> FALSE, read |-> None]
<1>2. r0 \in Refresh /\ ~r0.job
  BY DEF Refresh, Ages
<1>3. /\ UNCHANGED <<binaries, services, managing, jobs, report, disturbed, status, stale>>
      /\ crossed' = (refreshes # {})
  BY DEF PressRefresh, jobVars, BeginRefresh
<1>4. refreshes' \subseteq Refresh /\ status' \in Ages /\ stale' \in BOOLEAN
  BY <1>1, <1>2, <1>3 DEF ServiceInv, ServiceType
<1>5. crossed' \in BOOLEAN
  BY <1>3, Zenon
<1>6. \A f, g \in refreshes' : f.job /\ g.job => f = g
  BY <1>1, <1>2 DEF ServiceInv, OneWaits
<1>7. (\E f \in refreshes : f.job) <=> (\E f \in refreshes' : f.job)
  BY <1>1, <1>2
<1>8. disturbed' = disturbed \/ disturbed' = TRUE
  BY <1>3
<1> QED
  BY <1>3, <1>4, <1>5, <1>6, <1>7, <1>8, SameServices

LEMMA HostReadsKeeps ==
  ASSUME ServiceInv, NEW f \in refreshes, HostReadsStatus(f)
  PROVE  ServiceInv'
<1> DEFINE g == [f EXCEPT !.read = "current"]
<1>1. f \in Refresh
  BY DEF ServiceInv, ServiceType
<1>2. g \in Refresh /\ g.job = f.job
  BY <1>1 DEF Refresh, Ages
<1>3. /\ refreshes' = (refreshes \ {f}) \cup {g}
      /\ stale' = FALSE
      /\ UNCHANGED <<binaries, services, managing, jobs, report, disturbed, status, crossed>>
  BY DEF HostReadsStatus, jobVars
<1>4. /\ refreshes' \subseteq Refresh /\ status' \in Ages /\ stale' \in BOOLEAN
      /\ crossed' \in BOOLEAN
  BY <1>2, <1>3 DEF ServiceInv, ServiceType
<1>5. \A a, b \in refreshes' : a.job /\ b.job => a = b
  BY <1>2, <1>3 DEF ServiceInv, OneWaits
<1>6. (\E a \in refreshes : a.job) <=> (\E a \in refreshes' : a.job)
  BY <1>2, <1>3
<1>7. disturbed' = disturbed \/ disturbed' = TRUE
  BY <1>3
<1> QED
  BY <1>3, <1>4, <1>5, <1>6, <1>7, SameServices

LEMMA StatusKeeps ==
  ASSUME ServiceInv, NEW f \in refreshes, StatusArrives(f) \/ StatusFails(f)
  PROVE  ServiceInv'
<1>1. f.read \in Ages
  BY DEF ServiceInv, ServiceType, Refresh
<1>2. EndRefresh(f) /\ UNCHANGED binaries
  BY DEF StatusArrives, StatusFails, EndRefresh
<1>3. status' \in Ages /\ stale' \in BOOLEAN
  BY <1>1 DEF StatusArrives, StatusFails, StatusOf, ServiceInv, ServiceType
<1> QED
  BY <1>2, <1>3, RefreshEnds

LEMMA PressJobKeeps ==
  ASSUME ServiceInv, NEW op \in Ops, PressJob(op)
  PROVE  ServiceInv'
<1> DEFINE j == [op |-> op, role |-> "control-plane"]
<1>1. jobs = {} /\ \A f \in refreshes : ~f.job
  BY DEF PressJob, ServiceInv, ManageBusyExact, OneWaits
<1>2. /\ jobs' = {j} /\ managing' = TRUE /\ report' = None /\ disturbed' = FALSE
      /\ UNCHANGED <<binaries, services, refreshes, status, stale, crossed>>
  BY <1>1 DEF PressJob, statusVars
<1>3. j \in [op : Ops, role : Roles \cup {None}] /\ j.role = "control-plane"
  BY DEF Roles
<1>4. ServiceType'
  BY <1>2, <1>3 DEF ServiceInv, ServiceType
<1>5. ManageBusyExact' /\ OneWaits'
  BY <1>1, <1>2, <1>3 DEF ManageBusyExact, OneWaits, None
<1>6. HalfWay' /\ ReportTrue' /\ BundleSound'
  BY <1>2, <1>3 DEF ServiceInv, HalfWay, ReportTrue, BundleSound, Ops, None
<1> QED
  BY <1>4, <1>5, <1>6 DEF ServiceInv

LEMMA RoleSucceedsKeeps ==
  ASSUME ServiceInv, NEW j \in jobs, RoleSucceeds(j)
  PROVE  ServiceInv'
<1>1. /\ j.op \in {"install", "start", "stop"} /\ j.role \in Roles /\ j.role # None
      /\ services' = Done(j.op, j.role) /\ status' = Aged(status)
      /\ UNCHANGED <<binaries, disturbed>>
  BY OneJob DEF RoleSucceeds, Ops
<1>2. /\ j.op = "install" => j.role \in binaries
      /\ j.op # "install" => services[j.role] # "not-installed"
  BY DEF RoleSucceeds, Possible, CanInstall
<1>3. /\ services' \in [Roles -> {"not-installed", "stopped", "running"}]
      /\ Reached(j.op, services'[j.role])
      /\ \A q \in Roles \ {j.role} : services'[q] = services[q]
      /\ BundleSound'
  BY <1>1, <1>2, DoneSound DEF BundleSound
<1>4. status' \in Ages /\ binaries' \subseteq Roles
  BY <1>1, AgedStatus DEF ServiceInv, ServiceType
<1>5. CASE j.role = "runtime"
  <2>1. Succeed(j)
    BY <1>5 DEF RoleSucceeds, AfterRole
  <2>2. ~disturbed => Reached(j.op, services["control-plane"])
    BY <1>5 DEF ServiceInv, HalfWay
  <2>3. ~disturbed => \A r \in Roles : Reached(j.op, services'[r])
    BY <1>3, <1>5, <2>2 DEF Roles
  <2> QED
    BY <1>1, <1>3, <1>4, <2>1, <2>3, SucceedKeeps
<1>6. CASE j.role = "control-plane"
  <2> DEFINE k == [op |-> j.op, role |-> "runtime"]
  <2>1. j \in [op : Ops, role : Roles \cup {None}]
    BY DEF ServiceInv, ServiceType
  <2>2. [j EXCEPT !.role = "runtime"] = k
    BY <2>1
  <2>3. /\ jobs' = {k} /\ refreshes' = AgedRefreshes
        /\ UNCHANGED <<report, managing, stale, crossed>>
    BY <1>6, <2>2, OneJob DEF RoleSucceeds, AfterRole
  <2>4. refreshes \subseteq Refresh /\ managing = TRUE /\ report \notin Ops
        /\ \A f \in refreshes : ~f.job
    BY <1>1, OneJob DEF ServiceInv, ServiceType
  <2>5. refreshes' \subseteq Refresh /\ \A f \in refreshes' : ~f.job
    BY <2>3, <2>4, AgedSame
  <2>6. k \in [op : Ops, role : Roles \cup {None}] /\ k.role = "runtime" /\ k.op = j.op
    BY <2>1 DEF Roles
  <2>7. ServiceType'
    BY <1>1, <1>3, <1>4, <2>3, <2>5, <2>6 DEF ServiceInv, ServiceType
  <2>8. ManageBusyExact' /\ OneWaits'
    BY <2>3, <2>4, <2>5, <2>6 DEF ManageBusyExact, OneWaits, None
  <2>9. HalfWay'
    BY <1>3, <1>6, <2>3, <2>4, <2>6 DEF HalfWay
  <2>10. ReportTrue'
    BY <2>3, <2>4 DEF ReportTrue, Ops
  <2> QED
    BY <1>3, <2>7, <2>8, <2>9, <2>10 DEF ServiceInv
<1> QED
  BY <1>1, <1>5, <1>6 DEF Roles

LEMMA RoleFailsKeeps ==
  ASSUME ServiceInv, NEW j \in jobs, RoleFails(j)
  PROVE  ServiceInv'
<1>1. /\ j.role # None /\ status' = Aged(status) /\ FailJob(j)
      /\ UNCHANGED <<binaries, disturbed>>
  BY DEF RoleFails
<1>2. \/ services' = services
      \/ j.role \in binaries /\ j.role \in Roles /\ services' = Installed(j.role)
  BY DEF RoleFails, Possible, CanInstall
<1>3. /\ services \in [Roles -> {"not-installed", "stopped", "running"}]
      /\ \A q \in Roles : services[q] # "not-installed" => q \in binaries
  BY DEF ServiceInv, ServiceType, BundleSound
<1>4. services' \in [Roles -> {"not-installed", "stopped", "running"}] /\ BundleSound'
  BY <1>1, <1>2, <1>3 DEF Installed, BundleSound
<1>5. status' \in Ages /\ binaries' \subseteq Roles
  BY <1>1, AgedStatus DEF ServiceInv, ServiceType
<1> QED
  BY <1>1, <1>4, <1>5, FailKeeps

LEMMA BundleKeeps ==
  ASSUME ServiceInv, NEW j \in jobs, BundleSucceeds(j) \/ BundleFails(j)
  PROVE  ServiceInv'
<1>1. /\ j.op = "bundle" /\ j.role # None
      /\ UNCHANGED <<services, status, disturbed>>
      /\ binaries \subseteq binaries' /\ binaries' \subseteq Roles
  BY DEF BundleSucceeds, BundleFails, HalfWritten, ServiceInv, ServiceType, Roles
<1>2. /\ status' \in Ages
      /\ services' \in [Roles -> {"not-installed", "stopped", "running"}]
      /\ BundleSound'
  BY <1>1 DEF ServiceInv, ServiceType, BundleSound
<1>3. \A r \in Roles : Reached(j.op, services'[r])
  BY <1>1 DEF Reached
<1>4. CASE BundleSucceeds(j)
  BY <1>1, <1>2, <1>3, <1>4, SucceedKeeps DEF BundleSucceeds
<1>5. CASE BundleFails(j)
  BY <1>1, <1>2, <1>5, FailKeeps DEF BundleFails
<1> QED
  BY <1>4, <1>5

LEMMA RelaunchKeeps ==
  ASSUME ServiceInv, NEW kind, Relaunch(kind)
  PROVE  ServiceInv'
<1>1. /\ managing' = FALSE /\ jobs' = {} /\ report' = None /\ disturbed' = FALSE
      /\ refreshes' = {FirstRefresh} /\ status' = None
      /\ stale' = TRUE /\ crossed' = FALSE /\ services' = services
  BY DEF Relaunch
<1>2. binaries \subseteq binaries' /\ binaries' \subseteq Roles
  BY DEF Relaunch, HalfWritten, ServiceInv, ServiceType, Roles
<1>3. FirstRefresh \in Refresh /\ ~FirstRefresh.job
  BY MaintenanceAssumption DEF FirstRefresh, Refresh, Ages
<1>4. ServiceType'
  BY <1>1, <1>2, <1>3 DEF ServiceInv, ServiceType, Ages
<1>5. ManageBusyExact' /\ OneWaits' /\ HalfWay'
  BY <1>1, <1>3 DEF ManageBusyExact, OneWaits, HalfWay
<1>6. BundleSound' /\ ReportTrue'
  BY <1>1, <1>2 DEF ServiceInv, ServiceType, BundleSound, ReportTrue, None
<1> QED
  BY <1>4, <1>5, <1>6 DEF ServiceInv

(* Every step keeps the part about the services.                           *)
LEMMA ServiceStep == ServiceInv /\ [Next]_vars => ServiceInv'
<1> SUFFICES ASSUME ServiceInv, [Next]_vars PROVE ServiceInv'
  OBVIOUS
<1>1. ASSUME UNCHANGED <<binaries, services, jobVars, statusVars>> PROVE ServiceInv'
  BY <1>1 DEF jobVars, statusVars, ServiceInv, ServiceType, ManageBusyExact,
     OneWaits, HalfWay, BundleSound, ReportTrue
<1>2. CASE \/ \E c \in Channels : ChangeChannel(c)
           \/ ElsewhereChannel
           \/ \E kind \in {"check", "install", "force"} : PressUpdate(kind)
           \/ \E kind \in updates, ok \in BOOLEAN : UpdateAnswered(kind, ok)
           \/ UNCHANGED vars
  BY <1>1, <1>2 DEF ChangeChannel, ElsewhereChannel, PressUpdate, UpdateAnswered, vars
<1>3. CASE ElsewhereServices
  BY <1>3, ElsewhereKeeps
<1>4. CASE PressRefresh
  BY <1>4, PressRefreshKeeps
<1>5. CASE \E kind \in updates : Relaunch(kind)
  BY <1>5, RelaunchKeeps
<1>6. ASSUME NEW f \in refreshes, HostReadsStatus(f) \/ StatusArrives(f) \/ StatusFails(f)
      PROVE  ServiceInv'
  BY <1>6, HostReadsKeeps, StatusKeeps
<1>7. ASSUME NEW op \in Ops, PressJob(op) PROVE ServiceInv'
  BY <1>7, PressJobKeeps
<1>8. ASSUME NEW j \in jobs,
             RoleSucceeds(j) \/ RoleFails(j) \/ BundleSucceeds(j) \/ BundleFails(j)
      PROVE  ServiceInv'
  BY <1>8, RoleSucceedsKeeps, RoleFailsKeeps, BundleKeeps
<1> QED
  BY <1>2, <1>3, <1>4, <1>5, <1>6, <1>7, <1>8 DEF Next, Ops

(* The invariant is inductive, so that every behaviour keeps it.           *)
LEMMA InvAlways == Spec => []Inv
<1>1. Inv /\ [Next]_vars => Inv'
  <2> SUFFICES ASSUME Inv, [Next]_vars PROVE Inv'
    OBVIOUS
  <2>1. UpdateInv' /\ ServiceInv'
    BY InvParts, UpdateStep, ServiceStep
  <2>2. Inv' <=> UpdateInv' /\ ServiceInv'
    BY InvParts, PTL
  <2> QED
    BY <2>1, <2>2
<1> QED
  BY <1>1, InvInit, PTL DEF Spec

(* A window never has two update commands or two standalone handlers under *)
(* way, disables its buttons exactly while it has one, and never forces an *)
(* installation outside the dev channel.                                   *)
THEOREM ButtonsAreExact == Spec => []BusyExact
<1>1. Inv => BusyExact
  BY DEF Inv
<1> QED
  BY <1>1, InvAlways, PTL

(* A job reported as successful has reached both services, whatever failed *)
(* half way before it.                                                     *)
THEOREM ReportsAreTrue == Spec => []ReportTrue
<1>1. Inv => ReportTrue
  BY DEF Inv
<1> QED
  BY <1>1, InvAlways, PTL

(* No service is installed without its binary.                             *)
THEOREM BundlesAreSound == Spec => []BundleSound
<1>1. Inv => BundleSound
  BY DEF Inv
<1> QED
  BY <1>1, InvAlways, PTL

(* A handler of the services has commands left to send.                    *)
MidWay == \E j \in jobs : j.role # None

(* What the age of the status depends on: unless requests crossed there is *)
(* at most one of them, and what was read is outdated only while a handler *)
(* is half way, which will ask again.                                      *)
OneRequest == ~crossed => \A f, g \in refreshes : f = g

AgeInv ==
  ~stale /\ ~crossed =>
    /\ \A f \in refreshes : f.read = "outdated" => MidWay
    /\ refreshes = {} /\ status # "current" => MidWay

StatusInv == OneRequest /\ AgeInv

(* A new request is alone, or it crosses another.                          *)
LEMMA BeginStatus ==
  ASSUME NEW byJob \in BOOLEAN, NEW others, BeginRefresh(byJob, others)
  PROVE  StatusInv'
<1>1. PICK n \in 1..MaxRefreshes :
        refreshes' = others \cup {[n |-> n, job |-> byJob, read |-> None]}
  BY BeginRefreshAdds
<1> DEFINE new == [n |-> n, job |-> byJob, read |-> None]
<1>2. crossed' = (others # {})
  BY DEF BeginRefresh
<1>3. ~crossed' => refreshes' = {new}
  BY <1>1, <1>2
<1>4. OneRequest'
  BY <1>3 DEF OneRequest
<1>5. new.read # "outdated"
  BY DEF None
<1>6. ~crossed' => refreshes' # {} /\ \A f \in refreshes' : f.read # "outdated"
  BY <1>3, <1>5
<1>7. AgeInv'
  BY <1>6 DEF AgeInv
<1> QED
  BY <1>4, <1>7 DEF StatusInv

(* Ageing keeps the number of requests.                                    *)
LEMMA AgedOne ==
  ASSUME ServiceInv, OneRequest, refreshes' = AgedRefreshes, crossed' = crossed
  PROVE  OneRequest'
<1>1. \A g \in AgedRefreshes : \E f \in refreshes : g = [f EXCEPT !.read = Aged(f.read)]
  BY DEF AgedRefreshes
<1>2. ASSUME NEW a \in AgedRefreshes, NEW b \in AgedRefreshes, ~crossed
      PROVE  a = b
  <2>1. PICK f \in refreshes : a = [f EXCEPT !.read = Aged(f.read)]
    BY <1>1
  <2>2. PICK g \in refreshes : b = [g EXCEPT !.read = Aged(g.read)]
    BY <1>1
  <2>3. f = g
    BY <1>2 DEF OneRequest
  <2> QED
    BY <2>1, <2>2, <2>3
<1> QED
  BY <1>2 DEF OneRequest

(* A failed handler leaves the status as old as it is, which is recorded.  *)
LEMMA FailStatus ==
  ASSUME ServiceInv, StatusInv, NEW j \in jobs, FailJob(j)
  PROVE  StatusInv'
<1>1. refreshes' = AgedRefreshes /\ crossed' = crossed /\ stale' = TRUE
  BY DEF FailJob
<1>2. OneRequest'
  BY <1>1, AgedOne DEF StatusInv
<1> QED
  BY <1>1, <1>2 DEF StatusInv, AgeInv

LEMMA HostReadsStatusInv ==
  ASSUME ServiceInv, StatusInv, NEW f \in refreshes, HostReadsStatus(f)
  PROVE  StatusInv'
<1> DEFINE g == [f EXCEPT !.read = "current"]
<1>1. f \in Refresh
  BY DEF ServiceInv, ServiceType
<1>2. g.read = "current"
  BY <1>1 DEF Refresh
<1>3. refreshes' = (refreshes \ {f}) \cup {g} /\ crossed' = crossed
  BY DEF HostReadsStatus
<1>4. ~crossed' => refreshes' = {g}
  BY <1>3 DEF StatusInv, OneRequest
<1>5. OneRequest'
  BY <1>4 DEF OneRequest
<1>6. AgeInv'
  BY <1>2, <1>4 DEF AgeInv
<1> QED
  BY <1>5, <1>6 DEF StatusInv

(* The answer that arrives is the only one; if it is outdated a handler is *)
(* half way, and then this is not the request that handler waits for.      *)
LEMMA StatusArrivesInv ==
  ASSUME ServiceInv, StatusInv, NEW f \in refreshes, StatusArrives(f) \/ StatusFails(f)
  PROVE  StatusInv'
<1>1. /\ refreshes' = refreshes \ {f} /\ crossed' = crossed
      /\ jobs' = IF f.job THEN {} ELSE jobs
  BY DEF StatusArrives, StatusFails, EndRefresh
<1>2. OneRequest'
  BY <1>1 DEF StatusInv, OneRequest
<1>3. CASE StatusFails(f)
  <2>1. stale' = TRUE
    BY <1>3 DEF StatusFails
  <2> QED
    BY <1>2, <2>1 DEF StatusInv, AgeInv
<1>4. CASE StatusArrives(f)
  <2> SUFFICES ASSUME ~stale', ~crossed'
               PROVE  /\ refreshes' = {}
                      /\ status' # "current" => MidWay'
    BY <1>2 DEF StatusInv, AgeInv
  <2>1. /\ f.read # None /\ status' = f.read /\ stale' = stale
    BY <1>4 DEF StatusArrives, StatusOf
  <2>2. refreshes' = {}
    BY <1>1 DEF StatusInv, OneRequest
  <2>3. f.read \in Ages
    BY DEF ServiceInv, ServiceType, Refresh
  <2>4. ASSUME status' # "current" PROVE MidWay'
    <3>1. f.read = "outdated"
      BY <2>1, <2>3, <2>4 DEF Ages
    <3>2. MidWay
      BY <1>1, <2>1, <3>1 DEF StatusInv, AgeInv
    <3>3. ~f.job
      BY <3>2 DEF MidWay, ServiceInv, ManageBusyExact
    <3> QED
      BY <1>1, <3>2, <3>3 DEF MidWay
  <2> QED
    BY <2>2, <2>4
<1> QED
  BY <1>3, <1>4

LEMMA RoleSucceedsInv ==
  ASSUME ServiceInv, StatusInv, NEW j \in jobs, RoleSucceeds(j)
  PROVE  StatusInv'
<1>1. CASE j.role = "control-plane"
  <2>1. /\ jobs' = (jobs \ {j}) \cup {[j EXCEPT !.role = "runtime"]}
        /\ refreshes' = AgedRefreshes /\ UNCHANGED <<stale, crossed>>
    BY <1>1 DEF RoleSucceeds, AfterRole
  <2>2. j \in [op : Ops, role : Roles \cup {None}]
    BY DEF ServiceInv, ServiceType
  <2>3. [j EXCEPT !.role = "runtime"].role # None
    BY <2>2 DEF None
  <2>4. MidWay'
    BY <2>1, <2>3 DEF MidWay
  <2>5. OneRequest'
    BY <2>1, AgedOne DEF StatusInv
  <2> QED
    BY <2>4, <2>5 DEF StatusInv, AgeInv
<1>2. CASE j.role = "runtime"
  <2>1. BeginRefresh(TRUE, AgedRefreshes)
    BY <1>2 DEF RoleSucceeds, AfterRole, Succeed
  <2> QED
    BY <2>1, BeginStatus
<1> QED
  BY <1>1, <1>2 DEF RoleSucceeds, AfterRole

(* Every step keeps what the age of the status depends on.                 *)
LEMMA StatusStep == ServiceInv /\ StatusInv /\ [Next]_vars => StatusInv'
<1> SUFFICES ASSUME ServiceInv, StatusInv, [Next]_vars PROVE StatusInv'
  OBVIOUS
<1>1. ASSUME UNCHANGED <<jobs, statusVars>> PROVE StatusInv'
  BY <1>1 DEF statusVars, StatusInv, OneRequest, AgeInv, MidWay
<1>2. CASE \/ \E c \in Channels : ChangeChannel(c)
           \/ ElsewhereChannel
           \/ \E kind \in {"check", "install", "force"} : PressUpdate(kind)
           \/ \E kind \in updates, ok \in BOOLEAN : UpdateAnswered(kind, ok)
           \/ UNCHANGED vars
  BY <1>1, <1>2 DEF ChangeChannel, ElsewhereChannel, PressUpdate, UpdateAnswered,
     vars, jobVars
<1>3. CASE ElsewhereServices
  <2>1. refreshes' = AgedRefreshes /\ crossed' = crossed /\ stale' = TRUE
    BY <1>3 DEF ElsewhereServices
  <2>2. OneRequest'
    BY <2>1, AgedOne DEF StatusInv
  <2> QED
    BY <2>1, <2>2 DEF StatusInv, AgeInv
<1>4. CASE PressRefresh
  BY <1>4, BeginStatus DEF PressRefresh
<1>5. ASSUME NEW kind \in updates, Relaunch(kind) PROVE StatusInv'
  <2>1. refreshes' = {FirstRefresh} /\ stale' = TRUE
    BY <1>5 DEF Relaunch
  <2> QED
    BY <2>1 DEF StatusInv, OneRequest, AgeInv
<1>6. ASSUME NEW f \in refreshes, HostReadsStatus(f) \/ StatusArrives(f) \/ StatusFails(f)
      PROVE  StatusInv'
  BY <1>6, HostReadsStatusInv, StatusArrivesInv
<1>7. ASSUME NEW op \in Ops, PressJob(op) PROVE StatusInv'
  <2>1. jobs \subseteq jobs' /\ UNCHANGED statusVars
    BY <1>7 DEF PressJob
  <2> QED
    BY <2>1 DEF statusVars, StatusInv, OneRequest, AgeInv, MidWay
<1>8. ASSUME NEW j \in jobs, BundleSucceeds(j) \/ RoleSucceeds(j) PROVE StatusInv'
  BY <1>8, RoleSucceedsInv, BeginStatus DEF BundleSucceeds, Succeed
<1>9. ASSUME NEW j \in jobs, BundleFails(j) \/ RoleFails(j) PROVE StatusInv'
  BY <1>9, FailStatus DEF BundleFails, RoleFails
<1> QED
  BY <1>2, <1>3, <1>4, <1>5, <1>6, <1>7, <1>8, <1>9 DEF Next, Ops

(* With nothing under way the window shows the services as they are,       *)
(* unless they were changed elsewhere or by a handler that failed, the     *)
(* last request failed, or the older of two requests came last.            *)
THEOREM StatusIsShown == Spec => []ShowsServices
<1>1. Init => StatusInv
  BY DEF Init, StatusInv, OneRequest, AgeInv
<1>2. Inv /\ StatusInv /\ [Next]_vars => StatusInv'
  BY InvParts, StatusStep
<1>3. StatusInv => ShowsServices
  BY DEF StatusInv, AgeInv, MidWay, ShowsServices
<1> QED
  BY <1>1, <1>2, <1>3, InvAlways, PTL DEF Spec

=============================================================================
