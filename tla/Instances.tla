------------------------------ MODULE Instances ------------------------------
(***************************************************************************)
(* The processes of one service on one Unix host, as the embedded deployer *)
(* manages them: several instances share a port (SO_REUSEPORT), each       *)
(* writes <metadataDir>/<pid>.json every three seconds, the dashboard      *)
(* polls /status, and an administrator retires old instances with /kill.   *)
(* Nothing is shared but the process table, the port and that directory.   *)
(***************************************************************************)
EXTENDS Naturals, FiniteSets

CONSTANTS
    Pids,        \* the process ids of the host that this model follows
    First,       \* the instance an operator started by hand
    Requests,    \* the /kill requests that may be in flight together
    NoPid,       \* not a process id
    Patient,     \* TRUE: a /kill is sent only when the one before has run its course
    PidReuse,    \* TRUE: the kernel may give a free pid to an unrelated program
    MaxCrashes   \* bound on the instances that die of themselves

ASSUME PidsAssumption == IsFiniteSet(Pids) /\ First \in Pids /\ NoPid \notin Pids
ASSUME EnvironmentAssumption == Patient \in BOOLEAN /\ PidReuse \in BOOLEAN /\ MaxCrashes \in Nat

VARIABLES
    proc,     \* proc[p]: what the process table says of p
    bound,    \* the instances that listen on the port (what lsof lists)
    meta,     \* the pids with a metadata file
    req,      \* req[k]: progress of a /kill handler
    pending,  \* <<a, t>>: a goroutine of process a will signal t after 500 ms
    sweep,    \* the /status handler at work, one poll at a time
    crashes

vars == <<proc, bound, meta, req, pending, sweep, crashes>>

\* "exiting": the SIGTERM handler runs; "cleaned": it has called Cleanup.
\* "foreign": the pid belongs to an unrelated program; "shot": which we signalled.
Phases == {"none", "running", "exiting", "cleaned", "dead", "foreign", "shot"}
Alive(p) == proc[p] \in {"running", "exiting", "cleaned"}
Exiting == {p \in Pids : proc[p] \in {"exiting", "cleaned"}}

KillPhases == {"idle", "arrived", "counted", "permitted"}
NoRequest == [pc |-> "idle", at |-> NoPid, target |-> NoPid]
NoSweep == [pc |-> "idle", at |-> NoPid, listed |-> {}, todo |-> {}]

TypeOK ==
    /\ proc \in [Pids -> Phases]
    /\ bound \subseteq {p \in Pids : Alive(p)}
    /\ meta \subseteq Pids
    /\ req \in [Requests -> [pc : KillPhases, at : Pids \cup {NoPid}, target : Pids \cup {NoPid}]]
    /\ \A k \in Requests : req[k].pc # "idle" => req[k].at \in bound /\ req[k].target \in Pids
    /\ pending \subseteq Pids \X Pids
    /\ \A g \in pending : g[1] \in bound
    /\ sweep \in [pc : {"idle", "listed", "visiting"}, at : Pids \cup {NoPid},
                  listed : SUBSET Pids, todo : SUBSET Pids]
    /\ sweep.pc # "idle" => sweep.at \in bound
    /\ crashes \in Nat

\* The files of an earlier boot may still be there.
Init ==
    /\ proc = [p \in Pids |-> IF p = First THEN "running" ELSE "none"]
    /\ bound = {First}
    /\ meta \in SUBSET Pids
    /\ req = [k \in Requests |-> NoRequest]
    /\ pending = {}
    /\ sweep = NoSweep
    /\ crashes = 0
-----------------------------------------------------------------------------
(***************************************************************************)
(* Processes.                                                              *)
(***************************************************************************)

\* A death takes the socket, the handlers and the goroutines with it.
Die(p) ==
    /\ proc' = [proc EXCEPT ![p] = "dead"]
    /\ bound' = bound \ {p}
    /\ req' = [k \in Requests |-> IF req[k].at = p THEN NoRequest ELSE req[k]]
    /\ sweep' = IF sweep.at = p THEN NoSweep ELSE sweep

\* Mutant: a signal outlives the process that was to send it.
GoroutinesKept(p) == pending

GoroutinesWithout(p) == {g \in pending : g[1] # p}

\* A deployment of some instance runs "nohup <binary> &" and does not look back.
PlatformStart(p) ==
    /\ proc[p] = "none"
    /\ bound # {}
    /\ proc' = [proc EXCEPT ![p] = "running"]
    /\ UNCHANGED <<bound, meta, req, pending, sweep, crashes>>

Listen(p) ==
    /\ proc[p] = "running"
    /\ p \notin bound
    /\ bound' = bound \cup {p}
    /\ UNCHANGED <<proc, meta, req, pending, sweep, crashes>>

\* Mutant: the file is written once, on the way up.
HeartbeatOnce(p) ==
    /\ Alive(p) /\ p \notin bound
    /\ meta' = meta \cup {p}
    /\ UNCHANGED <<proc, bound, req, pending, sweep, crashes>>

\* heartbeatLoop runs from New until the process is gone, its exit handler included.
Heartbeat(p) ==
    /\ Alive(p)
    /\ meta' = meta \cup {p}
    /\ UNCHANGED <<proc, bound, req, pending, sweep, crashes>>

Cleanup(p) ==
    /\ proc[p] = "exiting"
    /\ meta' = meta \ {p}
    /\ proc' = [proc EXCEPT ![p] = "cleaned"]
    /\ UNCHANGED <<bound, req, pending, sweep, crashes>>

Exit(p) ==
    /\ proc[p] = "cleaned"
    /\ Die(p)
    /\ pending' = GoroutinesWithout(p)
    /\ UNCHANGED <<meta, crashes>>

Crash(p) ==
    /\ Alive(p)
    /\ crashes < MaxCrashes
    /\ crashes' = crashes + 1
    /\ Die(p)
    /\ pending' = GoroutinesWithout(p)
    /\ UNCHANGED meta

Recycle(p) ==
    /\ PidReuse
    /\ proc[p] \in {"none", "dead"}
    /\ proc' = [proc EXCEPT ![p] = "foreign"]
    /\ UNCHANGED <<bound, meta, req, pending, sweep, crashes>>
-----------------------------------------------------------------------------
(***************************************************************************)
(* POST /kill?pid=t served by instance a.                                  *)
(***************************************************************************)

Quiet == (\A k \in Requests : req[k].pc = "idle") /\ pending = {} /\ Exiting = {}

KillArrives(k, a, t) ==
    /\ req[k].pc = "idle"
    /\ a \in bound
    /\ Patient => Quiet
    /\ req' = [req EXCEPT ![k] = [pc |-> "arrived", at |-> a, target |-> t]]
    /\ UNCHANGED <<proc, bound, meta, pending, sweep, crashes>>

\* Mutant: "< 1" for "<= 1".
KillCountOffByOne(k) ==
    /\ req[k].pc = "arrived"
    /\ req' = IF Cardinality(bound) < 1 THEN [req EXCEPT ![k] = NoRequest]
                                        ELSE [req EXCEPT ![k].pc = "counted"]
    /\ UNCHANGED <<proc, bound, meta, pending, sweep, crashes>>

\* countPortListeners; one listener or none: "Action Denied", 403.
KillCount(k) ==
    /\ req[k].pc = "arrived"
    /\ req' = IF Cardinality(bound) <= 1 THEN [req EXCEPT ![k] = NoRequest]
                                         ELSE [req EXCEPT ![k].pc = "counted"]
    /\ UNCHANGED <<proc, bound, meta, pending, sweep, crashes>>

\* os.Stat of the metadata file; none: "Permission Denied", 403.
KillPermit(k) ==
    /\ req[k].pc = "counted"
    /\ req' = IF req[k].target \notin meta THEN [req EXCEPT ![k] = NoRequest]
                                           ELSE [req EXCEPT ![k].pc = "permitted"]
    /\ UNCHANGED <<proc, bound, meta, pending, sweep, crashes>>

\* The file goes, the client reads "OK", and a goroutine sleeps.
KillAccept(k) ==
    /\ req[k].pc = "permitted"
    /\ meta' = meta \ {req[k].target}
    /\ pending' = pending \cup {<<req[k].at, req[k].target>>}
    /\ req' = [req EXCEPT ![k] = NoRequest]
    /\ UNCHANGED <<proc, bound, sweep, crashes>>

\* SIGTERM without a handler, as in examples/basic.
SignalKills(a, t) ==
    /\ <<a, t>> \in pending
    /\ proc[t] = "running"
    /\ Die(t)
    /\ pending' = GoroutinesWithout(t) \ {<<a, t>>}
    /\ UNCHANGED <<meta, crashes>>

\* SIGTERM with the handler of examples/fullstack.
SignalHandled(a, t) ==
    /\ <<a, t>> \in pending
    /\ proc[t] = "running"
    /\ proc' = [proc EXCEPT ![t] = "exiting"]
    /\ pending' = pending \ {<<a, t>>}
    /\ UNCHANGED <<bound, meta, req, sweep, crashes>>

\* The target has gone, is on its way out, or is no longer ours.
SignalOther(a, t) ==
    /\ <<a, t>> \in pending
    /\ proc[t] # "running"
    /\ proc' = IF proc[t] = "foreign" THEN [proc EXCEPT ![t] = "shot"] ELSE proc
    /\ pending' = pending \ {<<a, t>>}
    /\ UNCHANGED <<bound, meta, req, sweep, crashes>>
-----------------------------------------------------------------------------
(***************************************************************************)
(* GET /status served by instance a: lsof first, the directory after it,   *)
(* then the stale files one at a time.                                     *)
(***************************************************************************)

StatusList(a) ==
    /\ sweep.pc = "idle"
    /\ a \in bound
    /\ sweep' = [pc |-> "listed", at |-> a, listed |-> bound, todo |-> {}]
    /\ UNCHANGED <<proc, bound, meta, req, pending, crashes>>

\* The process that answers counts itself alive whatever lsof said; the files of
\* listed processes are only read.
StaleFiles == {p \in meta : p \notin sweep.listed /\ p # sweep.at}

StatusReadDir ==
    /\ sweep.pc = "listed"
    /\ sweep' = [sweep EXCEPT !.pc = "visiting", !.listed = {}, !.todo = StaleFiles]
    /\ UNCHANGED <<proc, bound, meta, req, pending, crashes>>

\* Mutant: a stale file is left out of the answer but not deleted.
StatusSkip(p) ==
    /\ sweep.pc = "visiting"
    /\ p \in sweep.todo
    /\ sweep' = [sweep EXCEPT !.todo = @ \ {p}]
    /\ UNCHANGED <<proc, bound, meta, req, pending, crashes>>

StatusRemove(p) ==
    /\ sweep.pc = "visiting"
    /\ p \in sweep.todo
    /\ meta' = meta \ {p}
    /\ sweep' = [sweep EXCEPT !.todo = @ \ {p}]
    /\ UNCHANGED <<proc, bound, req, pending, crashes>>

StatusReply ==
    /\ sweep.pc = "visiting"
    /\ sweep.todo = {}
    /\ sweep' = NoSweep
    /\ UNCHANGED <<proc, bound, meta, req, pending, crashes>>
-----------------------------------------------------------------------------
Process(p) ==
    PlatformStart(p) \/ Listen(p) \/ Heartbeat(p) \/ Cleanup(p) \/ Exit(p) \/ Crash(p) \/ Recycle(p)

Signal(a, t) == SignalKills(a, t) \/ SignalHandled(a, t) \/ SignalOther(a, t)

Kill(k) ==
    \/ \E a, t \in Pids : KillArrives(k, a, t)
    \/ KillCount(k)
    \/ KillPermit(k)
    \/ KillAccept(k)

Status ==
    \/ \E p \in Pids : StatusList(p) \/ StatusRemove(p)
    \/ StatusReadDir
    \/ StatusReply

Next ==
    \/ \E p \in Pids : Process(p)
    \/ \E k \in Requests : Kill(k)
    \/ \E a, t \in Pids : Signal(a, t)
    \/ Status

Spec == Init /\ [][Next]_vars

\* heartbeatLoop never ends while the process lives, and an open dashboard
\* polls /status every three seconds (backend.html).
Fairness == (\A p \in Pids : WF_vars(Heartbeat(p))) /\ WF_vars(Status)

FairSpec == Spec /\ Fairness
-----------------------------------------------------------------------------
(***************************************************************************)
(* What an administrator relies on.                                        *)
(***************************************************************************)

\* kill: "Prevents killing the last running instance to maintain service
\* availability". Only a crash may leave the port without a listener.
LastInstanceStanding == bound = {} => crashes > 0

\* A sweep that listed the port before an instance came up deletes its file, and
\* kill then refuses it; the heartbeat must make it manageable again.
ListenersBecomeManaged ==
    \A p \in Pids : (p \in bound) ~> (p \in meta \/ p \notin bound)

\* A file whose process is gone (a crash, or a heartbeat after Cleanup) does not
\* stay on the dashboard while some instance answers the polls.
GhostsCollected ==
    \A p \in Pids : (p \in meta /\ ~Alive(p)) ~> (p \notin meta \/ Alive(p) \/ bound = {})
=============================================================================
