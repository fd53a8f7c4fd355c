---- MODULE Maintenance ----
(***************************************************************************)
(* The settings of the desktop GUI (useMaintenanceSettings.ts, update.ts,  *)
(* standalone.ts, SettingsView.tsx) and the commands of the host behind    *)
(* them (src-tauri/src/main.rs, on Linux): the update channel, checking    *)
(* for and installing updates, downloading the standalone bundle, and      *)
(* installing, starting and stopping the two node services.                *)
(*                                                                         *)
(* One window is modelled; what other windows or the user's shell do to    *)
(* the stored channel and to the services is Elsewhere.  A handler runs    *)
(* from one await to the next in a step, and a command of the host is a    *)
(* step, except for the status: it is read, and arrives later.  Of the     *)
(* status only its age counts: whether the services have changed since the *)
(* host read it.                                                           *)
(***************************************************************************)
EXTENDS Naturals

CONSTANT MaxRefreshes  \* bound on requests of the status under way

ASSUME MaintenanceAssumption == MaxRefreshes \in Nat \ {0}

Roles == {"control-plane", "runtime"}
Channels == {"main", "dev"}
None == "none"

VARIABLES
  stored,     \* the channel in localStorage, shared by the windows
  channel,    \* the channel this window shows
  checking,   \* checkingUpdates
  updates,    \* update commands under way: their kinds
  misforced,  \* history: an update was forced on another channel than dev
  managing,   \* managingStandalone
  jobs,       \* standalone handlers under way
  report,     \* what standaloneStatusMessage says of the last job
  binaries,   \* the roles whose binary is there
  services,   \* role -> state of its service
  refreshes,  \* requests of the status under way
  status,     \* standaloneStatus: none, current or outdated
  disturbed,  \* history: the services were changed elsewhere since the last job
  stale,      \* history: changed elsewhere, by a job that failed, or by a
              \*   request that failed, since the status was read
  crossed     \* history: a request of the status began with another under way

updateVars == <<stored, channel, checking, updates, misforced>>
jobVars == <<managing, jobs, report, disturbed>>
statusVars == <<refreshes, status, stale, crossed>>
vars == <<updateVars, binaries, services, jobVars, statusVars>>

-----------------------------------------------------------------------------
(* updates *)

\* handleChannelChange
ChangeChannel(c) ==
  /\ channel' = c
  /\ stored' = c
  /\ UNCHANGED <<checking, updates, misforced, binaries, services, jobVars, statusVars>>

\* Another window changes the channel; this one goes on showing its own.
ElsewhereChannel ==
  /\ \E c \in Channels : stored' = c
  /\ UNCHANGED <<channel, checking, updates, misforced, binaries, services,
                 jobVars, statusVars>>

\* forceUpdateDev looks at the stored channel again.
ForceAllowed == stored = "dev"

\* handleCheckUpdates, handleInstallUpdate, handleForceUpdate: the command gets
\* the stored channel.
PressUpdate(kind) ==
  /\ ~checking
  /\ kind = "force" => channel = "dev" /\ ForceAllowed
  /\ checking' = TRUE
  /\ updates' = updates \cup {kind}
  /\ misforced' = (misforced \/ (kind = "force" /\ stored # "dev"))
  /\ UNCHANGED <<stored, channel, binaries, services, jobVars, statusVars>>

\* finally
CheckingAtEnd(ok) == FALSE

\* There is an update or none, it is installed or not, or the command failed.
UpdateAnswered(kind, ok) ==
  /\ updates' = updates \ {kind}
  /\ checking' = CheckingAtEnd(ok)
  /\ UNCHANGED <<stored, channel, misforced, binaries, services, jobVars, statusVars>>

-----------------------------------------------------------------------------
(* the host *)

\* Mutant: the service is installed without its binary.
CanInstallAlways(r) == TRUE
\* install_service_for_role; without arguments it fails, see RoleFails
CanInstall(r) == r \in binaries

\* The unit file is written; a service that runs goes on running.
Installed(r) ==
  [services EXCEPT ![r] = IF @ = "not-installed" THEN "stopped" ELSE @]

\* What the command for role r leaves the services as, if it succeeds.
Done(op, r) ==
  CASE op = "install" -> Installed(r)
    [] op = "start" -> [services EXCEPT ![r] = "running"]
    [] op = "stop" -> [services EXCEPT ![r] = "stopped"]

Possible(j) ==
  IF j.op = "install" THEN CanInstall(j.role) ELSE services[j.role] # "not-installed"

\* What a status that was read is worth after a change of the services.
Aged(age) ==
  IF age = "current" /\ services' # services THEN "outdated" ELSE age
AgedRefreshes == {[f EXCEPT !.read = Aged(@)] : f \in refreshes}

-----------------------------------------------------------------------------
(* refreshStandaloneStatus *)

Free(n, others) == \A f \in others : f.n # n

\* A request, by a handler or not, in addition to the ones under way.
BeginRefresh(byJob, others) ==
  /\ \E n \in 1..MaxRefreshes : Free(n, others)
  /\ refreshes' = others \cup
       {[n |-> CHOOSE n \in 1..MaxRefreshes : Free(n, others),
         job |-> byJob, read |-> None]}
  /\ crossed' = (others # {})

PressRefresh ==
  /\ ~managing
  /\ BeginRefresh(FALSE, refreshes)
  /\ UNCHANGED <<updateVars, binaries, services, jobVars, status, stale>>

HostReadsStatus(f) ==
  /\ f.read = None
  /\ refreshes' = (refreshes \ {f}) \cup {[f EXCEPT !.read = "current"]}
  /\ stale' = FALSE
  /\ UNCHANGED <<updateVars, binaries, services, jobVars, status, crossed>>

\* Mutant: the answer is dropped.
StatusKept(f) == status
StatusOf(f) == f.read

\* Mutant: a handler that awaits the status does not end.
StillManaging(f) == managing
\* finally, for a handler that awaited this request
ManagingAfter(f) == managing /\ ~f.job

EndRefresh(f) ==
  /\ refreshes' = refreshes \ {f}
  /\ managing' = ManagingAfter(f)
  /\ jobs' = IF f.job THEN {} ELSE jobs
  /\ UNCHANGED <<updateVars, binaries, services, report, disturbed, crossed>>

StatusArrives(f) ==
  /\ f.read # None
  /\ status' = StatusOf(f)
  /\ UNCHANGED stale
  /\ EndRefresh(f)

\* The status stays as it is.
StatusFails(f) ==
  /\ f.read = None
  /\ stale' = TRUE
  /\ UNCHANGED status
  /\ EndRefresh(f)

-----------------------------------------------------------------------------
(* the bundle and the services *)

\* The four handlers, up to their first await.
PressJob(op) ==
  /\ ~managing
  /\ managing' = TRUE
  /\ jobs' = jobs \cup {[op |-> op, role |-> "control-plane"]}
  /\ report' = None
  /\ disturbed' = FALSE
  /\ UNCHANGED <<updateVars, binaries, services, statusVars>>

\* The last await succeeded: the message, and the status is requested.
Succeed(j) ==
  /\ report' = j.op
  /\ jobs' = (jobs \ {j}) \cup {[j EXCEPT !.role = None]}
  /\ BeginRefresh(TRUE, AgedRefreshes)
  /\ UNCHANGED <<managing, stale>>

\* catch: the status is not requested again
FailJob(j) ==
  /\ report' = "failed"
  /\ jobs' = jobs \ {j}
  /\ managing' = FALSE
  /\ stale' = TRUE
  /\ refreshes' = AgedRefreshes
  /\ UNCHANGED crossed

\* Mutant: one service is enough.
SucceedAtOnce(j) == Succeed(j)
\* The control plane, then the runtime.
AfterRole(j) ==
  \/ /\ j.role = "control-plane"
     /\ jobs' = (jobs \ {j}) \cup {[j EXCEPT !.role = "runtime"]}
     /\ refreshes' = AgedRefreshes
     /\ UNCHANGED <<report, managing, stale, crossed>>
  \/ j.role = "runtime" /\ Succeed(j)

RoleSucceeds(j) ==
  /\ j.op # "bundle" /\ j.role # None
  /\ Possible(j)
  /\ services' = Done(j.op, j.role)
  /\ status' = Aged(status)
  /\ AfterRole(j)
  /\ UNCHANGED <<updateVars, binaries, disturbed>>

\* Installing may fail after the unit file was written.
RoleFails(j) ==
  /\ j.op # "bundle" /\ j.role # None
  /\ services' \in {services} \cup
       {Installed(r) : r \in {j.role} \cap {r \in Roles : j.op = "install" /\ Possible(j)}}
  /\ status' = Aged(status)
  /\ FailJob(j)
  /\ UNCHANGED <<updateVars, binaries, disturbed>>

\* The archive's checksum is right, both binaries and the manifest are written.
BundleSucceeds(j) ==
  /\ j.op = "bundle" /\ j.role # None
  /\ binaries' = Roles
  /\ UNCHANGED <<updateVars, services, status, disturbed>>
  /\ Succeed(j)

\* No binary, one of them, or both were written.
HalfWritten == {binaries, binaries \cup {"control-plane"}, Roles}

BundleFails(j) ==
  /\ j.op = "bundle" /\ j.role # None
  /\ binaries' \in HalfWritten
  /\ UNCHANGED <<updateVars, services, status, disturbed>>
  /\ FailJob(j)

\* Another window or the shell starts or stops a service.
ElsewhereServices ==
  /\ \E r \in Roles, s \in {"stopped", "running"} :
       /\ services[r] \notin {"not-installed", s}
       /\ services' = [services EXCEPT ![r] = s]
  /\ disturbed' = TRUE
  /\ stale' = TRUE
  /\ status' = Aged(status)
  /\ refreshes' = AgedRefreshes
  /\ UNCHANGED <<updateVars, binaries, managing, jobs, report, crossed>>

FirstRefresh == [n |-> 1, job |-> FALSE, read |-> None]

\* An update was installed and the application is started again: whatever was
\* under way ends where it is, and the window is a new one.
Relaunch(kind) ==
  /\ kind # "check"
  /\ IF \E j \in jobs : j.op = "bundle" /\ j.role # None
     THEN binaries' \in HalfWritten ELSE UNCHANGED binaries
  /\ channel' = stored
  /\ checking' = FALSE /\ updates' = {}
  /\ managing' = FALSE /\ jobs' = {} /\ report' = None /\ disturbed' = FALSE
  /\ refreshes' = {FirstRefresh}
  /\ status' = None
  /\ stale' = TRUE /\ crossed' = FALSE
  /\ UNCHANGED <<stored, misforced, services>>

-----------------------------------------------------------------------------
\* The window is opened before anything was downloaded; the status is requested.
Init ==
  /\ stored = "main" /\ channel = "main"
  /\ checking = FALSE /\ updates = {} /\ misforced = FALSE
  /\ managing = FALSE /\ jobs = {} /\ report = None /\ disturbed = FALSE
  /\ binaries = {}
  /\ services = [r \in Roles |-> "not-installed"]
  /\ refreshes = {FirstRefresh}
  /\ status = None
  /\ stale = TRUE /\ crossed = FALSE

Next ==
  \/ \E c \in Channels : ChangeChannel(c)
  \/ ElsewhereChannel \/ ElsewhereServices
  \/ \E kind \in {"check", "install", "force"} : PressUpdate(kind)
  \/ \E kind \in updates, ok \in BOOLEAN : UpdateAnswered(kind, ok)
  \/ \E kind \in updates : Relaunch(kind)
  \/ PressRefresh
  \/ \E f \in refreshes : HostReadsStatus(f) \/ StatusArrives(f) \/ StatusFails(f)
  \/ \E op \in {"bundle", "install", "start", "stop"} : PressJob(op)
  \/ \E j \in jobs : RoleSucceeds(j) \/ RoleFails(j) \/ BundleSucceeds(j) \/ BundleFails(j)

Spec == Init /\ [][Next]_vars

-----------------------------------------------------------------------------
Ops == {"bundle", "install", "start", "stop"}
Ages == {None, "current", "outdated"}

TypeOK ==
  /\ stored \in Channels /\ channel \in Channels
  /\ checking \in BOOLEAN /\ managing \in BOOLEAN
  /\ updates \subseteq {"check", "install", "force"} /\ misforced \in BOOLEAN
  /\ jobs \subseteq [op : Ops, role : Roles \cup {None}]
  /\ report \in Ops \cup {None, "failed"}
  /\ binaries \subseteq Roles
  /\ services \in [Roles -> {"not-installed", "stopped", "running"}]
  /\ refreshes \subseteq [n : 1..MaxRefreshes, job : BOOLEAN, read : Ages]
  /\ status \in Ages
  /\ disturbed \in BOOLEAN /\ stale \in BOOLEAN /\ crossed \in BOOLEAN

\* A forced installation is always one of the dev channel, also when another
\* window has left that channel while this one still shows the button.
ForceOnlyDev == ~misforced

\* The update buttons are disabled exactly while a command is under way, so
\* that this window never has two.
UpdateBusyExact ==
  /\ checking <=> updates # {}
  /\ \A a, b \in updates : a = b

\* The standalone buttons are disabled exactly while a handler is under way:
\* the commands of two handlers of this window never mix, and a handler that
\* has done its work waits for a status that is on its way.
ManageBusyExact ==
  /\ managing <=> jobs # {}
  /\ \A a, b \in jobs : a = b
  /\ \A j \in jobs : j.role = None <=> \E f \in refreshes : f.job

\* Both, and no forced installation outside the dev channel.
BusyExact == TypeOK /\ UpdateBusyExact /\ ManageBusyExact /\ ForceOnlyDev

\* What the message says of a job is true of both services until they are
\* changed elsewhere: a job that stops half way never reports success.
ReportTrue ==
  ~disturbed =>
    /\ report = "install" => \A r \in Roles : services[r] # "not-installed"
    /\ report = "start" => \A r \in Roles : services[r] = "running"
    /\ report = "stop" => \A r \in Roles : services[r] = "stopped"

\* With nothing under way the status shown is that of the services, unless
\* they were changed elsewhere or by a job that failed, the last request
\* failed, or two requests crossed and the older one came last.
ShowsServices ==
  jobs = {} /\ refreshes = {} /\ ~stale /\ ~crossed => status = "current"

\* No service is installed without its binary, through all the ways in which
\* a download or an installation can stop half way.
BundleSound == \A r \in Roles : services[r] # "not-installed" => r \in binaries
====
