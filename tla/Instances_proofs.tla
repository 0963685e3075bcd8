-------------------------- MODULE Instances_proofs --------------------------
(***************************************************************************)
(* When kill requests do not overlap, no sequence of starts, polls, kills  *)
(* and graceful exits empties the port, whatever the number of processes.  *)
(***************************************************************************)
EXTENDS Instances, FiniteSetTheorems, TLAPS

Busy(k) == req[k].pc # "idle"
Counted(k) == req[k].pc \in {"counted", "permitted"}

\* At most one kill is anywhere between its arrival and the end of its target.
OneAtATime ==
    /\ \A k, l \in Requests : Busy(k) /\ Busy(l) => k = l
    /\ \A k \in Requests : Busy(k) => pending = {} /\ Exiting = {}
    /\ pending # {} => Exiting = {}
    /\ \A g, h \in pending : g = h
    /\ \A p, q \in Exiting : p = q

\* Whatever is on its way out leaves a listener behind.
SurvivorLeft ==
    /\ bound # {}
    /\ \A k \in Requests : Counted(k) => \E q \in bound : q # req[k].target
    /\ \A g \in pending : \E q \in bound : q # g[2]
    /\ \A p \in Exiting : \E q \in bound : q # p

IInv == crashes = 0 => OneAtATime /\ SurvivorLeft

\* A set of more than one element has one that differs from any given value.
LEMMA AnotherElement ==
    ASSUME NEW S, IsFiniteSet(S), Cardinality(S) > 1, NEW t
    PROVE  \E q \in S : q # t
<1>1. SUFFICES ASSUME S \subseteq {t} PROVE FALSE
  OBVIOUS
<1>2. IsFiniteSet({t}) /\ Cardinality({t}) = 1
  BY FS_Singleton
<1>3. Cardinality(S) <= 1 /\ Cardinality(S) \in Nat
  BY <1>1, <1>2, FS_Subset, FS_CardinalityType
<1> QED
  BY <1>3

\* Every state of the model has the shape TypeOK says; in particular handlers and
\* sleeping goroutines only ever belong to processes that are still there.
THEOREM TypeCorrect == Spec => []TypeOK
<1>1. Init => TypeOK
  BY PidsAssumption DEF Init, TypeOK, Phases, KillPhases, NoRequest, NoSweep, Alive
<1>2. TypeOK /\ [Next]_vars => TypeOK'
  <2> SUFFICES ASSUME TypeOK, [Next]_vars PROVE TypeOK'
    OBVIOUS
  <2> USE PidsAssumption DEF TypeOK, Phases, KillPhases, NoRequest, NoSweep, Alive
  <2>1. CASE UNCHANGED vars
    BY <2>1 DEF vars
  <2>2. ASSUME NEW p \in Pids, PlatformStart(p) PROVE TypeOK'
    BY <2>2 DEF PlatformStart
  <2>3. ASSUME NEW p \in Pids, Listen(p) PROVE TypeOK'
    BY <2>3 DEF Listen
  <2>4. ASSUME NEW p \in Pids, Heartbeat(p) PROVE TypeOK'
    BY <2>4 DEF Heartbeat
  <2>5. ASSUME NEW p \in Pids, Cleanup(p) PROVE TypeOK'
    BY <2>5 DEF Cleanup
  <2>6. ASSUME NEW p \in Pids, Exit(p) PROVE TypeOK'
    BY <2>6 DEF Exit, Die, GoroutinesWithout
  <2>7. ASSUME NEW p \in Pids, Crash(p) PROVE TypeOK'
    BY <2>7 DEF Crash, Die, GoroutinesWithout
  <2>8. ASSUME NEW p \in Pids, Recycle(p) PROVE TypeOK'
    BY <2>8 DEF Recycle
  <2>9. ASSUME NEW k \in Requests, NEW a \in Pids, NEW t \in Pids, KillArrives(k, a, t)
        PROVE  TypeOK'
    BY <2>9 DEF KillArrives
  <2>10. ASSUME NEW k \in Requests, KillCount(k) PROVE TypeOK'
    BY <2>10 DEF KillCount
  <2>11. ASSUME NEW k \in Requests, KillPermit(k) PROVE TypeOK'
    BY <2>11 DEF KillPermit
  <2>12. ASSUME NEW k \in Requests, KillAccept(k) PROVE TypeOK'
    BY <2>12 DEF KillAccept
  <2>13. ASSUME NEW a \in Pids, NEW t \in Pids, SignalKills(a, t) PROVE TypeOK'
    BY <2>13 DEF SignalKills, Die, GoroutinesWithout
  <2>14. ASSUME NEW a \in Pids, NEW t \in Pids, SignalHandled(a, t) PROVE TypeOK'
    BY <2>14 DEF SignalHandled
  <2>15. ASSUME NEW a \in Pids, NEW t \in Pids, SignalOther(a, t) PROVE TypeOK'
    BY <2>15 DEF SignalOther
  <2>16. ASSUME NEW a \in Pids, StatusList(a) PROVE TypeOK'
    BY <2>16 DEF StatusList
  <2>17. CASE StatusReadDir
    BY <2>17 DEF StatusReadDir, StaleFiles
  <2>18. ASSUME NEW p \in Pids, StatusRemove(p) PROVE TypeOK'
    BY <2>18 DEF StatusRemove
  <2>19. CASE StatusReply
    BY <2>19 DEF StatusReply
  <2> QED
    BY <2>1, <2>2, <2>3, <2>4, <2>5, <2>6, <2>7, <2>8, <2>9, <2>10, <2>11, <2>12,
       <2>13, <2>14, <2>15, <2>16, <2>17, <2>18, <2>19
    DEF Next, Process, Kill, Signal, Status
<1> QED
  BY <1>1, <1>2, PTL DEF Spec

\* The invariant speaks of these alone; a step that leaves them alone keeps it.
LEMMA Untouched ==
    ASSUME IInv, UNCHANGED <<proc, bound, req, pending, crashes>>
    PROVE  IInv'
  BY DEF IInv, OneAtATime, SurvivorLeft, Busy, Counted, Exiting

\* The first instance is on its own and nobody leaves.
LEMMA InvariantInit == Init => IInv
  BY DEF Init, IInv, OneAtATime, SurvivorLeft, Busy, Counted, Exiting, NoRequest

\* The end of t removes the only departure there is, and a survivor listens on.
LEMMA DeathOfTheDeparting ==
    ASSUME TypeOK, OneAtATime, NEW t \in Pids, Die(t),
           \E q \in bound : q # t,
           \A k \in Requests : ~Busy(k),
           pending' = {}, Exiting \subseteq {t}
    PROVE  OneAtATime' /\ SurvivorLeft'
<1>1. \A k \in Requests : ~Busy(k)'
  BY DEF Die, Busy, TypeOK, NoRequest
<1>2. Exiting' = {}
  BY DEF Die, Exiting, TypeOK
<1>3. bound' # {}
  BY DEF Die
<1> QED
  BY <1>1, <1>2, <1>3 DEF OneAtATime, SurvivorLeft, Busy, Counted

\* Every step keeps the invariant; a crash makes it void.
LEMMA InvariantStep ==
    ASSUME Patient, TypeOK, IInv, [Next]_vars
    PROVE  IInv'
<1>1. SUFFICES ASSUME crashes' = 0 PROVE OneAtATime' /\ SurvivorLeft'
  BY DEF IInv
<1>2. crashes = 0
  <2>1. ASSUME NEW p \in Pids, Crash(p) PROVE FALSE
    BY <1>1, <2>1 DEF Crash, TypeOK
  <2> QED
    BY <1>1, <2>1 DEF Next, vars, Process, Kill, Signal, Status, PlatformStart, Listen, Heartbeat,
       Cleanup, Exit, Recycle, KillArrives, KillCount, KillPermit, KillAccept, SignalKills,
       SignalHandled, SignalOther, StatusList, StatusReadDir, StatusRemove, StatusReply
<1>3. OneAtATime /\ SurvivorLeft
  BY <1>2 DEF IInv
<1>4. ASSUME NEW p \in Pids, PlatformStart(p) PROVE OneAtATime' /\ SurvivorLeft'
  BY <1>3, <1>4 DEF PlatformStart, OneAtATime, SurvivorLeft, Busy, Counted, Exiting, TypeOK
<1>5. ASSUME NEW p \in Pids, Listen(p) PROVE OneAtATime' /\ SurvivorLeft'
  BY <1>3, <1>5 DEF Listen, OneAtATime, SurvivorLeft, Busy, Counted, Exiting
<1>6. ASSUME NEW p \in Pids, Heartbeat(p) PROVE OneAtATime' /\ SurvivorLeft'
  BY <1>1, <1>2, <1>6, Untouched DEF Heartbeat, IInv
<1>7. ASSUME NEW p \in Pids, Cleanup(p) PROVE OneAtATime' /\ SurvivorLeft'
  BY <1>3, <1>7 DEF Cleanup, OneAtATime, SurvivorLeft, Busy, Counted, Exiting, TypeOK
<1>8. ASSUME NEW p \in Pids, Exit(p) PROVE OneAtATime' /\ SurvivorLeft'
  <2>1. p \in Exiting
    BY <1>8 DEF Exit, Exiting
  <2>2. pending = {} /\ \A k \in Requests : ~Busy(k)
    BY <1>3, <2>1 DEF OneAtATime
  <2>3. Exiting \subseteq {p} /\ \E q \in bound : q # p
    BY <1>3, <2>1 DEF OneAtATime, SurvivorLeft
  <2> QED
    BY <1>3, <1>8, <2>2, <2>3, DeathOfTheDeparting DEF Exit, GoroutinesWithout
<1>9. ASSUME NEW p \in Pids, Recycle(p) PROVE OneAtATime' /\ SurvivorLeft'
  BY <1>3, <1>9 DEF Recycle, OneAtATime, SurvivorLeft, Busy, Counted, Exiting, TypeOK
<1>10. ASSUME NEW k \in Requests, NEW a \in Pids, NEW t \in Pids, KillArrives(k, a, t)
       PROVE  OneAtATime' /\ SurvivorLeft'
  BY <1>3, <1>10 DEF KillArrives, Quiet, OneAtATime, SurvivorLeft, Busy, Counted, Exiting, TypeOK
<1>11. ASSUME NEW k \in Requests, KillCount(k) PROVE OneAtATime' /\ SurvivorLeft'
  <2>1. OneAtATime'
    BY <1>3, <1>11 DEF KillCount, OneAtATime, Busy, Exiting, NoRequest, TypeOK
  <2>2. ASSUME Cardinality(bound) > 1 PROVE \E q \in bound : q # req[k].target
    <3>1. IsFiniteSet(bound)
      BY PidsAssumption, FS_Subset DEF TypeOK
    <3> QED
      BY <2>2, <3>1, AnotherElement
  <2>3. Cardinality(bound) \in Nat
    BY PidsAssumption, FS_Subset, FS_CardinalityType DEF TypeOK
  <2>4. CASE Cardinality(bound) <= 1
    BY <1>3, <1>11, <2>1, <2>4 DEF KillCount, SurvivorLeft, Counted, Exiting, NoRequest, TypeOK
  <2>5. CASE ~(Cardinality(bound) <= 1)
    <3>1. \E q \in bound : q # req[k].target
      BY <2>2, <2>3, <2>5
    <3>2. req' = [req EXCEPT ![k].pc = "counted"]
      BY <1>11, <2>5 DEF KillCount
    <3> QED
      BY <1>3, <1>11, <2>1, <3>1, <3>2 DEF KillCount, SurvivorLeft, Counted, Exiting, TypeOK
  <2> QED
    BY <2>1, <2>4, <2>5
<1>12. ASSUME NEW k \in Requests, KillPermit(k) PROVE OneAtATime' /\ SurvivorLeft'
  BY <1>3, <1>12 DEF KillPermit, OneAtATime, SurvivorLeft, Busy, Counted, Exiting, NoRequest, TypeOK
<1>13. ASSUME NEW k \in Requests, KillAccept(k) PROVE OneAtATime' /\ SurvivorLeft'
  <2>1. Busy(k) /\ Counted(k)
    BY <1>13 DEF KillAccept, Busy, Counted
  <2>2. pending = {} /\ Exiting = {} /\ \A l \in Requests : Busy(l) => l = k
    BY <1>3, <2>1 DEF OneAtATime
  <2>3. pending' = {<<req[k].at, req[k].target>>} /\ Exiting' = {}
    BY <1>13, <2>2 DEF KillAccept, Exiting
  <2>4. \A l \in Requests : ~Busy(l)'
    BY <1>13, <2>2 DEF KillAccept, Busy, NoRequest, TypeOK
  <2>5. bound' # {} /\ \E q \in bound' : q # req[k].target
    BY <1>3, <1>13, <2>1 DEF KillAccept, SurvivorLeft
  <2> QED
    BY <2>3, <2>4, <2>5 DEF OneAtATime, SurvivorLeft, Busy, Counted
<1>14. ASSUME NEW a \in Pids, NEW t \in Pids, <<a, t>> \in pending
       PROVE  /\ pending = {<<a, t>>} /\ Exiting = {}
              /\ \A k \in Requests : ~Busy(k)
              /\ \E q \in bound : q # t
  BY <1>3, <1>14 DEF OneAtATime, SurvivorLeft
<1>15. ASSUME NEW a \in Pids, NEW t \in Pids, SignalKills(a, t) PROVE OneAtATime' /\ SurvivorLeft'
  <2>1. <<a, t>> \in pending /\ Die(t) /\ pending' = GoroutinesWithout(t) \ {<<a, t>>}
    BY <1>15 DEF SignalKills
  <2>2. pending' = {}
    BY <1>14, <2>1 DEF GoroutinesWithout
  <2> QED
    BY <1>3, <1>14, <2>1, <2>2, DeathOfTheDeparting
<1>16. ASSUME NEW a \in Pids, NEW t \in Pids, SignalHandled(a, t) PROVE OneAtATime' /\ SurvivorLeft'
  <2>1. <<a, t>> \in pending
    BY <1>16 DEF SignalHandled
  <2>2. pending' = {} /\ Exiting' = {t}
    BY <1>14, <1>16, <2>1 DEF SignalHandled, Exiting, TypeOK
  <2> QED
    BY <1>3, <1>14, <1>16, <2>1, <2>2 DEF SignalHandled, OneAtATime, SurvivorLeft, Busy, Counted
<1>17. ASSUME NEW a \in Pids, NEW t \in Pids, SignalOther(a, t) PROVE OneAtATime' /\ SurvivorLeft'
  <2>1. <<a, t>> \in pending
    BY <1>17 DEF SignalOther
  <2>2. pending' = {} /\ Exiting' \subseteq Exiting
    BY <1>14, <1>17, <2>1 DEF SignalOther, Exiting, TypeOK
  <2> QED
    BY <1>3, <1>14, <1>17, <2>1, <2>2 DEF SignalOther, OneAtATime, SurvivorLeft, Busy, Counted
<1>18. CASE Status \/ UNCHANGED vars
  BY <1>1, <1>2, <1>18, Untouched
  DEF vars, Status, StatusList, StatusReadDir, StatusRemove, StatusReply, IInv
<1>19. ASSUME NEW p \in Pids, Crash(p) PROVE FALSE
  BY <1>1, <1>19 DEF Crash, TypeOK
<1> QED
  BY <1>4, <1>5, <1>6, <1>7, <1>8, <1>9, <1>10, <1>11, <1>12, <1>13, <1>15, <1>16, <1>17, <1>18,
     <1>19
  DEF Next, Process, Kill, Signal

\* Kill requests that wait for one another never take the last listener away: only
\* a crash empties the port.
THEOREM LastInstanceProtected == Patient => (Spec => []LastInstanceStanding)
<1> SUFFICES ASSUME Patient PROVE Spec => []LastInstanceStanding
  OBVIOUS
<1>1. TypeOK /\ IInv /\ [Next]_vars => IInv'
  BY InvariantStep
<1>2. TypeOK /\ IInv => LastInstanceStanding
  BY DEF IInv, SurvivorLeft, LastInstanceStanding, TypeOK
<1> QED
  BY InvariantInit, TypeCorrect, <1>1, <1>2, PTL DEF Spec
=============================================================================
