----------------------------- MODULE Supervisor -----------------------------
(***************************************************************************)
(* The embedded deployer on Windows, where no two processes can listen on  *)
(* the port: it is the supervisor of one child, which it kills before it   *)
(* starts the next, and whose pid it keeps in memory and in a file for its *)
(* own next life.  The deployer may die at any step; children live on.     *)
(***************************************************************************)
EXTENDS Naturals, FiniteSets

CONSTANTS
    Pids,
    NoPid,
    MaxDeploys,  \* a bound on the deployments
    MaxCrashes,  \* a bound on the deaths of the deployer
    MaxOthers    \* a bound on the other programs that get a pid

ASSUME SupervisorAssumption ==
    /\ NoPid \notin Pids
    /\ MaxDeploys \in Nat /\ MaxCrashes \in Nat /\ MaxOthers \in Nat

VARIABLES
    proc,      \* proc[p]: what runs under the pid p
    bound,     \* the pid that listens on the port, or NoPid
    at,        \* where platformStart is; idle between deployments, down when there is no deployer
    old,       \* oldPID
    new,       \* newPID
    childPID,
    file,      \* what child.pid says: NoPid when it is missing, empty or torn
    saved,     \* childPID has been written to the file
    orphans,   \* the children whose pid was lost before it was in the file
    deploys, crashes, others  \* how many there have been

vars == <<proc, bound, at, old, new, childPID, file, saved, orphans, deploys, crashes, others>>

TypeOK ==
    /\ proc \in [Pids -> {"none", "child", "dying", "other"}]
    /\ bound \in Pids \cup {NoPid}
    /\ bound # NoPid => proc[bound] \in {"child", "dying"}
    /\ at \in {"down", "idle", "kill", "wait", "spawn", "record", "write", "rest"}
    /\ {old, new, childPID, file} \subseteq Pids \cup {NoPid}
    /\ saved \in BOOLEAN
    /\ orphans \subseteq Pids
    /\ deploys \in 0 .. MaxDeploys /\ crashes \in 0 .. MaxCrashes /\ others \in 0 .. MaxOthers

Init ==
    /\ proc = [p \in Pids |-> "none"]
    /\ bound = NoPid /\ old = NoPid /\ new = NoPid /\ childPID = NoPid /\ file = NoPid
    /\ at = "idle" /\ saved = TRUE
    /\ orphans = {}
    /\ deploys = 0 /\ crashes = 0 /\ others = 0

\* The pid that the next deployment will kill.
Tracked == IF childPID # NoPid THEN childPID ELSE file
-----------------------------------------------------------------------------
(***************************************************************************)
(* platformStart, under deployMu.                                          *)
(***************************************************************************)

\* Mutant: the file is not read.
DeployForgetful ==
    /\ at = "idle" /\ deploys < MaxDeploys
    /\ deploys' = deploys + 1
    /\ old' = childPID
    /\ at' = IF old' = NoPid THEN "spawn" ELSE "kill"
    /\ UNCHANGED <<proc, bound, new, childPID, file, saved, orphans, crashes, others>>

Deploy ==
    /\ at = "idle" /\ deploys < MaxDeploys
    /\ deploys' = deploys + 1
    /\ old' = Tracked
    /\ at' = IF old' = NoPid THEN "spawn" ELSE "kill"
    /\ UNCHANGED <<proc, bound, new, childPID, file, saved, orphans, crashes, others>>

\* Mutant: a process that was told to end is taken to have ended.
KillOldAtOnce ==
    /\ at = "kill"
    /\ proc' = [proc EXCEPT ![old] = "none"]
    /\ at' = "spawn"
    /\ UNCHANGED <<bound, old, new, childPID, file, saved, orphans, deploys, crashes, others>>

\* FindProcess and Kill: whatever runs under the pid, if the deployer may; nothing when
\* nothing does.
KillOld ==
    /\ at = "kill"
    /\ \/ proc[old] \in {"child", "dying"} /\ proc' = [proc EXCEPT ![old] = "dying"]
       \/ proc[old] = "other" /\ proc' \in {proc, [proc EXCEPT ![old] = "none"]}
       \/ proc[old] = "none" /\ UNCHANGED proc
    /\ at' = IF proc[old] = "none" THEN "spawn" ELSE "wait"
    /\ UNCHANGED <<bound, old, new, childPID, file, saved, orphans, deploys, crashes, others>>

\* Mutant: there is no limit to the wait.
WaitForOld ==
    /\ at = "wait" /\ proc[old] # "dying"
    /\ at' = "spawn"
    /\ UNCHANGED <<proc, bound, old, new, childPID, file, saved, orphans, deploys, crashes, others>>

\* Until it has gone, or for five seconds.
Wait ==
    /\ at = "wait"
    /\ at' = "spawn"
    /\ UNCHANGED <<proc, bound, old, new, childPID, file, saved, orphans, deploys, crashes, others>>

\* Start may fail: then the old child is gone, and nothing has replaced it.
SpawnFails ==
    /\ at = "spawn"
    /\ at' = "idle"
    /\ UNCHANGED <<proc, bound, old, new, childPID, file, saved, orphans, deploys, crashes, others>>

Spawn(p) ==
    /\ at = "spawn"
    /\ proc[p] = "none"
    /\ proc' = [proc EXCEPT ![p] = "child"]
    /\ orphans' = orphans \ {p}
    /\ new' = p
    /\ at' = "record"
    /\ UNCHANGED <<bound, old, childPID, file, saved, deploys, crashes, others>>

\* Mutant: the pid is kept in the file only.
RecordNothing ==
    /\ at = "record"
    /\ saved' = FALSE
    /\ at' = "write"
    /\ UNCHANGED <<proc, bound, old, new, childPID, file, orphans, deploys, crashes, others>>

Record ==
    /\ at = "record"
    /\ childPID' = new
    /\ saved' = FALSE
    /\ at' = "write"
    /\ UNCHANGED <<proc, bound, old, new, file, orphans, deploys, crashes, others>>

\* WriteFile truncates first; that it fails is not looked at.
Truncate ==
    /\ at = "write"
    /\ file' = NoPid
    /\ at' \in {"rest", "idle"}
    /\ UNCHANGED <<proc, bound, old, new, childPID, saved, orphans, deploys, crashes, others>>

WriteFails ==
    /\ at = "write"
    /\ at' = "idle"
    /\ UNCHANGED <<proc, bound, old, new, childPID, file, saved, orphans, deploys, crashes, others>>

WriteChildPIDFile ==
    /\ at = "rest"
    /\ file' = new
    /\ saved' = TRUE
    /\ at' = "idle"
    /\ UNCHANGED <<proc, bound, old, new, childPID, orphans, deploys, crashes, others>>
-----------------------------------------------------------------------------
(***************************************************************************)
(* The deployer's own life, the children, and other programs.              *)
(***************************************************************************)

\* Dead with a child that only it knew.
Crash ==
    /\ at # "down" /\ crashes < MaxCrashes
    /\ crashes' = crashes + 1
    /\ orphans' = IF at = "record" \/ ~saved THEN orphans \cup {new} ELSE orphans
    /\ at' = "down"
    /\ childPID' = NoPid /\ saved' = TRUE
    /\ UNCHANGED <<proc, bound, old, new, file, deploys, others>>

\* The next deployer holds no pid until it reads the file.
Restart ==
    /\ at = "down"
    /\ at' = "idle"
    /\ UNCHANGED <<proc, bound, old, new, childPID, file, saved, orphans, deploys, crashes, others>>

Gone(p) == bound' = IF bound = p THEN NoPid ELSE bound

\* A child that cannot listen on the port exits.
Listen(p) ==
    /\ proc[p] = "child" /\ bound # p
    /\ IF bound = NoPid THEN bound' = p /\ UNCHANGED proc
       ELSE proc' = [proc EXCEPT ![p] = "none"] /\ UNCHANGED bound
    /\ UNCHANGED <<at, old, new, childPID, file, saved, orphans, deploys, crashes, others>>

\* A child that was terminated is gone at last, or one ends by itself or by /kill.
ProcessEnds(p) ==
    /\ proc[p] \in {"child", "dying"}
    /\ proc' = [proc EXCEPT ![p] = "none"]
    /\ Gone(p)
    /\ UNCHANGED <<at, old, new, childPID, file, saved, orphans, deploys, crashes, others>>

OtherStarts(p) ==
    /\ proc[p] = "none" /\ others < MaxOthers
    /\ others' = others + 1
    /\ proc' = [proc EXCEPT ![p] = "other"]
    /\ UNCHANGED <<bound, at, old, new, childPID, file, saved, orphans, deploys, crashes>>
-----------------------------------------------------------------------------
PlatformStart ==
    KillOld \/ Wait \/ SpawnFails \/ (\E p \in Pids : Spawn(p)) \/ Record \/ Truncate \/ WriteFails
        \/ WriteChildPIDFile

Next ==
    \/ Deploy \/ PlatformStart \/ Crash \/ Restart
    \/ \E p \in Pids : Listen(p) \/ ProcessEnds(p) \/ OtherStarts(p)

\* A deployment that has begun goes on; nobody makes processes end or deployers return.
Spec == Init /\ [][Next]_vars /\ WF_vars(PlatformStart)
-----------------------------------------------------------------------------
\* "When the deployer restarts: the pid is recovered from child.pid": a child that is not
\* about to be replaced or recorded is the one that the next deployment will find,
\* whenever the deployer died, but for the children that were lost with it.
ChildrenTracked ==
    \A p \in Pids : proc[p] = "child" =>
        \/ p = Tracked
        \/ at = "record" /\ p = new
        \/ p \in orphans

\* "At any time at most one child": of two children one has been lost by a deployer that
\* died before it had saved its pid.
OneChild ==
    \A p, q \in Pids : proc[p] = "child" /\ proc[q] = "child" /\ p # q => p \in orphans \/ q \in orphans

\* A deployment ends whatever the old child does, and deployMu is released.
DeploymentsEnd == at \notin {"idle", "down"} ~> at \in {"idle", "down"}
=============================================================================
