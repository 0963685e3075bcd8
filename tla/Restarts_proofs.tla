-------------------------- MODULE Restarts_proofs --------------------------
(***************************************************************************)
(* Proofs about the two programs that come back after their death and find *)
(* on the disk what the last life left.  Supervisor: there is one child at *)
(* most that is not lost with a deployer, and the next deployment finds it.*)
(* ControlPlane: the fingerprint that agents were given stays that of the  *)
(* server.                                                                 *)
(***************************************************************************)
EXTENDS Supervisor, ControlPlane, TLAPS

USE DEF Tracked

Children == {p \in Pids : proc[p] = "child"}

\* What platformStart knows: which pid it kills, that only lost children are left when it
\* spawns, and how memory and file agree.
Aim == at \in {"kill", "wait", "spawn"} => old = Tracked
KillsOne == at = "kill" => old # NoPid
Cleared == at \in {"wait", "spawn"} => Children \subseteq orphans
Newcomer == at = "record" => new \in Pids /\ Children \subseteq orphans \cup {new}
Unsaved == at \in {"write", "rest"} => ~saved
FileCurrent == saved /\ childPID # NoPid => file = childPID
MemoryCurrent == ~saved /\ at # "record" => childPID = new /\ new # NoPid

IInv ==
    /\ TypeOK /\ ChildrenTracked
    /\ Aim /\ KillsOne /\ Cleared /\ Newcomer /\ Unsaved /\ FileCurrent /\ MemoryCurrent
-----------------------------------------------------------------------------
\* The deployer begins without a child and without a file.
LEMMA InitIInv == Init => IInv
  BY SupervisorAssumption
  DEF Init, IInv, TypeOK, ChildrenTracked, Aim, KillsOne, Cleared, Newcomer, Unsaved, FileCurrent,
      MemoryCurrent, Children

\* Every step of platformStart, of the deployer's life, of children and of other programs
\* keeps the invariant.
LEMMA StepIInv == IInv /\ [Next]_vars => IInv'
<1> SUFFICES ASSUME IInv, [Next]_vars PROVE IInv'
    OBVIOUS
<1> USE SupervisorAssumption
    DEF IInv, TypeOK, ChildrenTracked, Aim, KillsOne, Cleared, Newcomer, Unsaved, FileCurrent,
        MemoryCurrent, Children
<1>1. CASE Deploy
      BY <1>1 DEF Deploy
<1>2. CASE KillOld
  <2>0. old \in Pids
        BY <1>2 DEF KillOld
  <2>1. TypeOK'
        BY <1>2, <2>0 DEF KillOld
  <2>2. \A p \in Pids : proc'[p] = "child" => proc[p] = "child" /\ p # old
        BY <1>2, <2>0 DEF KillOld
  <2>3. QED BY <1>2, <2>0, <2>1, <2>2 DEF KillOld
<1>3. CASE Wait
      BY <1>3 DEF Wait
<1>4. CASE SpawnFails
      BY <1>4 DEF SpawnFails
<1>5. ASSUME NEW p \in Pids, Spawn(p) PROVE IInv'
      BY <1>5 DEF Spawn
<1>6. CASE Record
      BY <1>6 DEF Record
<1>7. CASE Truncate
      BY <1>7 DEF Truncate
<1>8. CASE WriteFails
      BY <1>8 DEF WriteFails
<1>9. CASE WriteChildPIDFile
      BY <1>9 DEF WriteChildPIDFile
<1>10. CASE Crash
      BY <1>10 DEF Crash
<1>11. CASE Restart
      BY <1>11 DEF Restart
<1>12. ASSUME NEW p \in Pids, Listen(p) PROVE IInv'
      BY <1>12 DEF Listen
<1>13. ASSUME NEW p \in Pids, ProcessEnds(p) PROVE IInv'
      BY <1>13 DEF ProcessEnds, Gone
<1>14. ASSUME NEW p \in Pids, OtherStarts(p) PROVE IInv'
      BY <1>14 DEF OtherStarts
<1>15. CASE UNCHANGED vars
      BY <1>15 DEF vars
<1>16. QED
      BY <1>1, <1>2, <1>3, <1>4, <1>5, <1>6, <1>7, <1>8, <1>9, <1>10, <1>11, <1>12, <1>13, <1>14,
         <1>15 DEF Next, PlatformStart

\* The invariant of every behaviour.
LEMMA Invariance == Spec => []IInv
  BY InitIInv, StepIInv, PTL DEF Spec
-----------------------------------------------------------------------------
\* The variables have their types, and what listens is a child.
THEOREM TypeCorrect == Spec => []TypeOK
<1>1. IInv => TypeOK BY DEF IInv
<1>2. QED BY <1>1, Invariance, PTL

\* A child is found by the next deployment, about to be recorded, or was lost with a
\* deployer that died before it had saved the pid.
THEOREM ChildrenAreTracked == Spec => []ChildrenTracked
<1>1. IInv => ChildrenTracked BY DEF IInv
<1>2. QED BY <1>1, Invariance, PTL

\* Of two children one was lost with a deployer that died.
THEOREM OneChildAtATime == Spec => []OneChild
<1>1. IInv => OneChild
      BY DEF IInv, ChildrenTracked, Newcomer, Children, OneChild
<1>2. QED BY <1>1, Invariance, PTL
-----------------------------------------------------------------------------
(***************************************************************************)
(* The control plane.                                                      *)
(***************************************************************************)

\* What was once served is on the disk, whole; what is in memory has not been served
\* unless it is what is on the disk.
Born == stage # "down" => life \in Lives
Served == pinned # {} => certFile # Torn /\ keyFile = certFile /\ pinned = {certFile}
Unserved == stage \in {"cert", "key"} => pinned = {} /\ cert = life
CertWritten == stage = "key" => certFile = cert
Ready == stage \in {"ready", "up"} => cert # Torn /\ certFile = cert /\ keyFile = cert
Up == stage = "up" => pinned = {cert}

PlaneInv == PlaneTypeOK /\ Born /\ Served /\ Unserved /\ CertWritten /\ Ready /\ Up
-----------------------------------------------------------------------------
\* Nothing has been served, and there is no file.
LEMMA PlaneInitially == PlaneInit => PlaneInv
  BY ControlPlaneAssumption
  DEF PlaneInit, PlaneInv, PlaneTypeOK, Born, Served, Unserved, CertWritten, Ready, Up, Torn, Lives

\* The certificate: every step of a start, a crash at any of them, and the agent.
LEMMA StepCert ==
    ASSUME PlaneInv, [PlaneNext]_planeVars
    PROVE  (Born /\ Served /\ Unserved /\ CertWritten /\ Ready /\ Up)'
<1> USE DEF PlaneInv, PlaneTypeOK, Born, Served, Unserved, CertWritten, Ready, Up, Torn, Lives, certVars
<1>1. CASE NewServer
      BY <1>1, ControlPlaneAssumption DEF NewServer
<1>2. CASE LoadCert
      BY <1>2 DEF LoadCert
<1>3. CASE Generate
      BY <1>3 DEF Generate
<1>4. CASE WriteCert
      BY <1>4 DEF WriteCert
<1>5. CASE WriteKey
      BY <1>5 DEF WriteKey
<1>6. CASE Serve
      BY <1>6 DEF Serve
<1>7. CASE PlaneCrash
      BY <1>7 DEF PlaneCrash
<1>8. CASE UNCHANGED <<stage, life, certVars>>
      BY <1>8
<1>9. QED
      BY <1>1, <1>2, <1>3, <1>4, <1>5, <1>6, <1>7, <1>8
      DEF PlaneNext, StartStep, AgentConnects, planeVars

\* The types, and that an agent is connected to a server it trusts.
LEMMA StepType ==
    ASSUME PlaneInv, [PlaneNext]_planeVars
    PROVE  PlaneTypeOK'
<1> USE ControlPlaneAssumption DEF PlaneInv, PlaneTypeOK, certVars, Torn, Lives
<1>1. CASE NewServer
      BY <1>1 DEF NewServer
<1>0. certFile \in 0 .. MaxLives /\ keyFile \in 0 .. MaxLives /\ cert \in 0 .. MaxLives
      OBVIOUS
<1>2. CASE LoadCert \/ Generate \/ WriteCert \/ WriteKey
  <2>1. /\ certFile' \in 0 .. MaxLives /\ keyFile' \in 0 .. MaxLives /\ cert' \in 0 .. MaxLives
        /\ stage' \in {"down", "cert", "key", "ready"} /\ agent # "connected"
        /\ UNCHANGED <<life, pinned, agent>>
        BY <1>0, <1>2 DEF LoadCert, Generate, WriteCert, WriteKey
  <2>2. QED BY <2>1
<1>3. CASE Serve
  <2>1. pinned' \subseteq Lives /\ stage' = "up"
        BY <1>0, <1>3 DEF Serve, Ready
  <2>2. agent # "connected" /\ UNCHANGED <<life, certFile, keyFile, cert, agent>>
        BY <1>3 DEF Serve
  <2>3. QED BY <2>1, <2>2
<1>4. CASE PlaneCrash
      BY <1>4 DEF PlaneCrash
<1>5. CASE AgentConnects
      BY <1>5 DEF AgentConnects, Up
<1>6. CASE UNCHANGED planeVars
      BY <1>6 DEF planeVars
<1>7. QED BY <1>1, <1>2, <1>3, <1>4, <1>5, <1>6 DEF PlaneNext, StartStep

\* The invariant of every behaviour.
LEMMA PlaneInvariance == PlaneSpec => []PlaneInv
<1>1. PlaneInv /\ [PlaneNext]_planeVars => PlaneInv'
      BY StepCert, StepType DEF PlaneInv
<1>2. QED BY PlaneInitially, <1>1, PTL DEF PlaneSpec
-----------------------------------------------------------------------------
\* The variables have their types, and an agent is connected to a server it trusts only.
THEOREM PlaneTypeCorrect == PlaneSpec => []PlaneTypeOK
<1>1. PlaneInv => PlaneTypeOK BY DEF PlaneInv
<1>2. QED BY <1>1, PlaneInvariance, PTL

\* Whatever step of a start the process dies at, every life of it that serves has the
\* fingerprint of the first.
THEOREM FingerprintIsStable == PlaneSpec => []FingerprintStable
<1>1. PlaneInv => FingerprintStable BY DEF PlaneInv, Served, FingerprintStable
<1>2. QED BY <1>1, PlaneInvariance, PTL
=============================================================================
