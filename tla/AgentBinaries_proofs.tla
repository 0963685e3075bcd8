------------------------ MODULE AgentBinaries_proofs ------------------------
(***************************************************************************)
(* As long as no two agents of a host have been deploying the same file    *)
(* name at once, a name of a version denotes a complete binary, and a      *)
(* failed deployment never costs the copy that was there: for any number   *)
(* of agents, versions, orders, downloads, crashes and rollbacks.  An      *)
(* agent that is alone and never interrupted executes complete binaries    *)
(* only.                                                                   *)
(***************************************************************************)
EXTENDS AgentBinaries, TLAPS

Shape ==
    /\ dir \in [Names -> Files \cup {Absent}]
    /\ whole \subseteq Files
    /\ pc \in [Agents -> Steps]
    /\ path \in [Agents -> Names \cup {NoName}]
    /\ fd \in [Agents -> Files \cup {Absent}]
    /\ \A a \in Agents : pc[a] = "copy" => fd[a] \in Files

\* Agent a is preparing version v.
Downloads(a, v) == pc[a] \in Preparing /\ path[a] = Final(v)

\* Each agent prepares a version, and no other one does the same.
Apart ==
    /\ \A a \in Agents : pc[a] \in Preparing => \E v \in Versions : path[a] = Final(v)
    /\ \A a, b \in Agents, v \in Versions : Downloads(a, v) /\ Downloads(b, v) => a = b

\* The temporary name is the downloading agent's own until it is placed.
TmpIsMine ==
    \A a \in Agents, v \in Versions :
        /\ Downloads(a, v) /\ pc[a] = "copy" => dir[Tmp(v)] \in {fd[a], Absent}
        /\ Downloads(a, v) /\ pc[a] = "place" => dir[Tmp(v)] \in whole \cup {Absent}

Quiet == Shape /\ Apart /\ TmpIsMine /\ NamesWhole

\* It stays quiet until two agents have clashed, and what clashed is not forgotten.
IInv == clashed \in BOOLEAN /\ (clashed \/ Quiet)

\* The final, set-aside and temporary names of the versions are all distinct.
LEMMA NamesDiffer ==
    ASSUME NEW v \in Versions, NEW w \in Versions
    PROVE  /\ Final(v) \in Names /\ Old(v) \in Names /\ Tmp(v) \in Names
           /\ Final(v)[1] = v
           /\ Final(v) # Old(w) /\ Final(v) # Tmp(w) /\ Old(v) # Tmp(w)
           /\ v # w => Final(v) # Final(w) /\ Old(v) # Old(w) /\ Tmp(v) # Tmp(w)
  BY DEF Names, Endings, Final, Old, Tmp

\* The directory is empty at first.
LEMMA InvariantInit == Init => IInv /\ Quiet
<1> SUFFICES ASSUME Init PROVE IInv /\ Quiet
  OBVIOUS
<1>1. /\ \A n \in Names : dir[n] = Absent
      /\ \A a \in Agents : pc[a] = "idle"
      /\ clashed \in BOOLEAN
  BY DEF Init
<1>2. Shape
  BY DEF Init, Shape, Steps, Preparing
<1>3. Apart /\ TmpIsMine
  BY <1>1 DEF Apart, TmpIsMine, Downloads, Preparing
<1>4. NamesWhole
  BY <1>1, NamesDiffer DEF NamesWhole, Exists
<1> QED
  BY <1>1, <1>2, <1>3, <1>4 DEF IInv, Quiet

\* Every step that makes no clash keeps it quiet.
LEMMA QuietStep ==
    ASSUME Quiet, [Next]_vars, ~clashed'
    PROVE  Quiet'
<1> USE DEF Quiet, Preparing
<1>1. Absent \notin Files /\ NoName \notin Names
  BY DEF Absent, Files, NoName, Names
<1>2. CASE UNCHANGED vars
  BY <1>2 DEF vars, Shape, Apart, TmpIsMine, NamesWhole, Exists, Downloads
<1>3. ASSUME NEW a \in Agents, NEW v \in Versions, Deploy(a, v) PROVE Quiet'
  <2>1. /\ pc[a] = "idle" /\ pc' = [pc EXCEPT ![a] = "stat"] /\ path' = [path EXCEPT ![a] = Final(v)]
        /\ UNCHANGED <<dir, whole, fd>>
        /\ \A b \in Agents : ~(pc[b] \in Preparing /\ path[b] = Final(v))
    BY <1>3 DEF Deploy
  <2>2. Shape'
    BY <2>1, NamesDiffer DEF Shape, Steps
  <2>3. Apart'
    <3>1. \A b \in Agents : pc'[b] \in Preparing => \E w \in Versions : path'[b] = Final(w)
      BY <2>1 DEF Apart, Shape
    <3>2. ASSUME NEW b \in Agents, NEW c \in Agents, NEW w \in Versions, Downloads(b, w)', Downloads(c, w)'
          PROVE  b = c
      BY <2>1, <3>2, NamesDiffer DEF Apart, Shape, Downloads
    <3> QED
      BY <3>1, <3>2 DEF Apart
  <2>4. TmpIsMine' /\ NamesWhole'
    BY <2>1, NamesDiffer DEF TmpIsMine, NamesWhole, Exists, Downloads, Shape
  <2> QED
    BY <2>2, <2>3, <2>4
<1>4. ASSUME NEW a \in Agents, Return(a), UNCHANGED <<whole>>,
             dir' \in [Names -> Files \cup {Absent}],
             \A n \in Names : dir'[n] \in {dir[n], Absent},
             fd' \in [Agents -> Files \cup {Absent}], \A b \in Agents \ {a} : fd'[b] = fd[b]
      PROVE  Quiet'
  <2>1. Shape'
    BY <1>4 DEF Shape, Return, Steps
  <2>2. Apart'
    BY <1>4 DEF Apart, Return, Shape, Downloads
  <2>3. TmpIsMine'
    BY <1>4, NamesDiffer DEF TmpIsMine, Return, Shape, Downloads
  <2>4. NamesWhole'
    BY <1>4, NamesDiffer DEF NamesWhole, Exists
  <2> QED
    BY <2>1, <2>2, <2>3, <2>4
<1>5. ASSUME NEW a \in Agents, pc[a] \in Preparing
      PROVE  \E v \in Versions : /\ path[a] = Final(v) /\ path[a][1] = v
                                 /\ Final(v) \in Names /\ Old(v) \in Names /\ Tmp(v) \in Names
  BY <1>5, NamesDiffer DEF Apart
<1>6. ASSUME NEW a \in Agents, NEW w \in Preparing \ {"copy", "place"}, NEW v \in Versions,
             pc[a] \in Preparing, path[a] = Final(v), pc' = [pc EXCEPT ![a] = w], UNCHANGED <<whole, path, fd>>,
             dir' \in [Names -> Files \cup {Absent}],
             \A n \in Names \ {Old(v)} : dir'[n] \in {dir[n], Absent}
      PROVE  Quiet'
  <2>1. Shape'
    BY <1>6 DEF Shape, Steps
  <2>2. Apart'
    BY <1>6 DEF Apart, Shape, Downloads
  <2>3. TmpIsMine' /\ NamesWhole'
    BY <1>6, NamesDiffer DEF Shape, TmpIsMine, NamesWhole, Exists, Downloads
  <2> QED
    BY <2>1, <2>2, <2>3
<1>7. ASSUME NEW a \in Agents, StatTarget(a) \/ SetAside(a) \/ SetAsideFails(a) PROVE Quiet'
  <2>1. /\ pc[a] \in Preparing /\ UNCHANGED <<whole, path, fd>>
        /\ \E w \in Preparing \ {"copy", "place"} : pc' = [pc EXCEPT ![a] = w]
    BY <1>7 DEF StatTarget, SetAside, SetAsideFails
  <2>2. PICK v \in Versions : path[a] = Final(v) /\ path[a][1] = v /\ Old(v) \in Names /\ Final(v) \in Names
    BY <1>5, <2>1
  <2>3. \/ UNCHANGED dir
        \/ dir' = [dir EXCEPT ![Old(v)] = Absent]
        \/ dir' = [dir EXCEPT ![Final(v)] = Absent]
        \/ dir' = [dir EXCEPT ![Final(v)] = Absent, ![Old(v)] = dir[Final(v)]]
    BY <1>7, <2>2 DEF StatTarget, SetAside, SetAsideFails, Unlinked, Renamed
  <2>4. /\ dir' \in [Names -> Files \cup {Absent}]
        /\ \A n \in Names \ {Old(v)} : dir'[n] \in {dir[n], Absent}
    BY <2>2, <2>3 DEF Shape
  <2> QED
    BY <1>6, <2>1, <2>2, <2>4
<1>8. ASSUME NEW a \in Agents, NEW f \in Files, pc[a] = "get",
             fd' = [fd EXCEPT ![a] = f], pc' = [pc EXCEPT ![a] = "copy"],
             dir' = [dir EXCEPT ![Tmp(path[a][1])] = f], UNCHANGED <<whole, path>>
      PROVE  Quiet'
  <2>1. PICK v \in Versions : path[a] = Final(v) /\ path[a][1] = v
    BY <1>5, <1>8
  <2>2. dir' = [dir EXCEPT ![Tmp(v)] = f]
    BY <1>8, <2>1
  <2>3. Shape'
    <3>1. dir' \in [Names -> Files \cup {Absent}]
      BY <2>2 DEF Shape
    <3>2. pc' \in [Agents -> Steps] /\ fd' \in [Agents -> Files \cup {Absent}]
      BY <1>8 DEF Shape, Steps
    <3>3. \A b \in Agents : pc'[b] = "copy" => fd'[b] \in Files
      BY <1>8 DEF Shape
    <3> QED
      BY <1>8, <3>1, <3>2, <3>3 DEF Shape
  <2>4. Apart'
    BY <1>8 DEF Apart, Shape, Downloads
  <2>5. NamesWhole'
    BY <1>8, <2>2, NamesDiffer DEF NamesWhole, Shape, Exists
  <2>6. ASSUME NEW b \in Agents, NEW w \in Versions, Downloads(b, w)', b # a
        PROVE  w # v
    <3>1. Downloads(b, w) /\ path[b] = Final(w)
      BY <1>8, <2>6 DEF Downloads, Shape
    <3>2. Downloads(a, v)
      BY <1>8, <2>1 DEF Downloads
    <3> QED
      BY <2>6, <3>1, <3>2 DEF Apart
  <2>7. TmpIsMine'
    <3> SUFFICES ASSUME NEW b \in Agents, NEW w \in Versions, Downloads(b, w)'
                 PROVE  /\ pc'[b] = "copy" => dir'[Tmp(w)] \in {fd'[b], Absent}
                        /\ pc'[b] = "place" => dir'[Tmp(w)] \in whole' \cup {Absent}
      BY DEF TmpIsMine
    <3>1. CASE b = a
      <4>1. w = v /\ pc'[b] = "copy"
        BY <1>8, <2>1, <3>1, NamesDiffer DEF Downloads, Shape
      <4> QED
        BY <1>8, <2>2, <3>1, <4>1, NamesDiffer DEF Shape
    <3>2. CASE b # a
      <4>1. dir'[Tmp(w)] = dir[Tmp(w)]
        BY <2>2, <2>6, <3>2, NamesDiffer DEF Shape
      <4>2. Downloads(b, w) /\ pc'[b] = pc[b] /\ fd'[b] = fd[b]
        BY <1>8, <3>2 DEF Downloads, Shape
      <4> QED
        BY <1>8, <4>1, <4>2 DEF TmpIsMine
    <3> QED
      BY <3>1, <3>2
  <2> QED
    BY <2>3, <2>4, <2>5, <2>7
<1>9. ASSUME NEW a \in Agents, OpenTmp(a) PROVE Quiet'
  BY <1>8, <1>9 DEF OpenTmp
<1>10. ASSUME NEW a \in Agents, Copy(a) PROVE Quiet'
  BY <1>10 DEF Copy, Shape, Apart, TmpIsMine, NamesWhole, Exists, Downloads
<1>11. ASSUME NEW a \in Agents, CopyEnds(a) PROVE Quiet'
  <2>1. /\ pc[a] = "copy" /\ pc' = [pc EXCEPT ![a] = "place"]
        /\ fd' = [fd EXCEPT ![a] = Absent] /\ whole' = whole \cup {fd[a]}
        /\ UNCHANGED <<dir, path>>
    BY <1>11 DEF CopyEnds
  <2>2. fd[a] \in Files
    BY <2>1 DEF Shape
  <2>3. Shape'
    BY <2>1, <2>2 DEF Shape, Steps
  <2>4. Apart' /\ NamesWhole'
    BY <2>1 DEF Apart, Shape, Downloads, NamesWhole, Exists
  <2>5. TmpIsMine'
    BY <2>1 DEF TmpIsMine, Shape, Downloads
  <2> QED
    BY <2>3, <2>4, <2>5
<1>12. ASSUME NEW a \in Agents, GetFails(a) \/ StartFails(a) PROVE Quiet'
  BY <1>4, <1>12 DEF GetFails, StartFails, Shape
<1>13. ASSUME NEW a \in Agents, CopyFails(a) \/ PlaceFails(a) PROVE Quiet'
  BY <1>4, <1>5, <1>13 DEF CopyFails, PlaceFails, Unlinked, Shape
<1>14. ASSUME NEW a \in Agents, Crash(a) PROVE Quiet'
  BY <1>4, <1>14 DEF Crash, Shape
<1>15. ASSUME NEW a \in Agents, Clean(a) PROVE Quiet'
  <2>1. dir' \in [Names -> Files \cup {Absent}] /\ \A n \in Names : dir'[n] \in {dir[n], Absent}
    BY <1>15 DEF Clean, Shape
  <2> QED
    BY <1>4, <1>15, <2>1 DEF Clean, Shape
<1>16. ASSUME NEW a \in Agents, Place(a) PROVE Quiet'
  <2>1. PICK v \in Versions : path[a] = Final(v) /\ path[a][1] = v
    BY <1>5, <1>16 DEF Place
  <2>2. /\ dir' = [dir EXCEPT ![Tmp(v)] = Absent, ![Final(v)] = dir[Tmp(v)]]
        /\ pc' = [pc EXCEPT ![a] = "start"] /\ pc[a] = "place" /\ dir[Tmp(v)] # Absent
        /\ UNCHANGED <<whole, path, fd>>
    BY <1>16, <2>1 DEF Place, Renamed, Exists
  <2>3. dir[Tmp(v)] \in whole
    BY <2>1, <2>2 DEF TmpIsMine, Downloads
  <2>4. Shape' /\ Apart'
    BY <2>2, <2>3, NamesDiffer DEF Shape, Steps, Apart, Downloads
  <2>5. NamesWhole'
    BY <2>2, <2>3, NamesDiffer DEF NamesWhole, Exists, Shape
  <2>6. \A w \in Versions : dir'[Tmp(w)] \in {dir[Tmp(w)], Absent}
    BY <2>2, NamesDiffer DEF Shape
  <2>7. TmpIsMine'
    BY <2>2, <2>6 DEF TmpIsMine, Downloads, Shape
  <2> QED
    BY <2>4, <2>5, <2>7
<1>17. ASSUME NEW a \in Agents, Start(a) PROVE Quiet'
  BY <1>17 DEF Start, Shape, Apart, TmpIsMine, NamesWhole, Exists, Downloads, Steps
<1>18. ASSUME NEW a \in Agents, Rollback(a) PROVE Quiet'
  <2>1. PICK n \in Names : path' = [path EXCEPT ![a] = n]
    BY <1>18 DEF Rollback
  <2> QED
    BY <1>18, <2>1 DEF Rollback, Shape, Apart, TmpIsMine, NamesWhole, Exists, Downloads, Steps
<1> QED
  BY <1>2, <1>3, <1>7, <1>9, <1>10, <1>11, <1>12, <1>13, <1>14, <1>15, <1>16, <1>17, <1>18
  DEF Next, Command, Download

\* What clashed is not forgotten, so the invariant is kept.
LEMMA InvariantStep == IInv /\ [Next]_vars => IInv'
<1> SUFFICES ASSUME IInv, [Next]_vars PROVE IInv'
  OBVIOUS
<1>1. clashed' \in BOOLEAN /\ (clashed => clashed')
  BY DEF IInv, vars, Next, Command, Download, Deploy, StatTarget, SetAside, SetAsideFails,
         OpenTmp, GetFails, Copy, CopyEnds, CopyFails, Place, PlaceFails, Start, StartFails, Clean, Rollback, Crash
<1> QED
  BY <1>1, QuietStep DEF IInv

\* A partial download is never found under the name of a version, whatever the agents
\* are told, until two of them have been deploying the same name at once.
THEOREM FinalNamesAreWhole == Spec => []FinalNamesWhole
<1>1. IInv => FinalNamesWhole
  BY DEF IInv, Quiet, FinalNamesWhole
<1> QED
  BY InvariantInit, InvariantStep, <1>1, PTL DEF Spec

\* What GoodCopy says, name by name.
LEMMA TwoNames ==
    ASSUME NEW v \in Versions
    PROVE  /\ GoodCopy(v) <=> dir[Final(v)] \in whole \/ dir[Old(v)] \in whole
           /\ GoodCopy(v)' <=> dir'[Final(v)] \in whole' \/ dir'[Old(v)] \in whole'
  BY DEF GoodCopy, Final, Old

\* Each step but the cleanup and a rename that fails keeps a good copy where there was one.
LEMMA GoodCopyStep ==
    ASSUME Quiet, faults \in Nat, [Next]_vars, NEW v \in Versions, GoodCopy(v), ~\E a \in Agents : Clean(a), UNCHANGED faults
    PROVE  GoodCopy(v)'
<1> USE DEF Quiet
<1>1. dir \in [Names -> Files \cup {Absent}] /\ Absent \notin whole
  BY DEF Shape, Absent, Files
<1>2. ASSUME UNCHANGED dir, whole \subseteq whole' PROVE GoodCopy(v)'
  BY <1>2, TwoNames
<1>3. ASSUME NEW n \in Names, NEW x, dir' = [dir EXCEPT ![n] = x], UNCHANGED whole,
             n # Final(v), n # Old(v)
      PROVE  GoodCopy(v)'
  BY <1>1, <1>3, TwoNames, NamesDiffer
<1>4. ASSUME NEW a \in Agents, pc[a] \in Preparing
      PROVE  \E w \in Versions : path[a] = Final(w) /\ path[a][1] = w
  BY <1>4, NamesDiffer DEF Apart
<1>5. ASSUME NEW a \in Agents, StatTarget(a) PROVE GoodCopy(v)'
  <2>1. PICK w \in Versions : path[a] = Final(w) /\ path[a][1] = w
    BY <1>4, <1>5 DEF StatTarget, Preparing
  <2>2. CASE ~Exists(Final(w))
    BY <1>2, <1>5, <2>1, <2>2 DEF StatTarget
  <2>3. CASE Exists(Final(w)) /\ w # v
    <3>1. dir' \in {dir, [dir EXCEPT ![Old(w)] = Absent]} /\ UNCHANGED whole
      BY <1>5, <2>1, <2>3 DEF StatTarget, Unlinked
    <3> QED
      BY <1>2, <1>3, <2>3, <3>1, NamesDiffer
  <2>4. CASE Exists(Final(w)) /\ w = v
    <3>1. dir[Final(v)] \in whole
      BY <2>4 DEF NamesWhole
    <3>2. dir' \in {dir, [dir EXCEPT ![Old(v)] = Absent]} /\ UNCHANGED whole
      BY <1>5, <2>1, <2>4 DEF StatTarget, Unlinked
    <3> QED
      BY <1>1, <3>1, <3>2, TwoNames, NamesDiffer
  <2> QED
    BY <2>2, <2>3, <2>4
<1>6. ASSUME NEW a \in Agents, SetAside(a) PROVE GoodCopy(v)'
  <2>1. PICK w \in Versions : path[a] = Final(w) /\ path[a][1] = w
    BY <1>4, <1>6 DEF SetAside, Preparing
  <2>2. CASE ~Exists(Final(w))
    BY <1>2, <1>6, <2>1, <2>2 DEF SetAside
  <2>3. CASE Exists(Final(w))
    <3>1. dir' = [dir EXCEPT ![Final(w)] = Absent, ![Old(w)] = dir[Final(w)]] /\ UNCHANGED whole
      BY <1>6, <2>1, <2>3 DEF SetAside, Renamed
    <3>2. dir[Final(w)] \in whole
      BY <2>3 DEF NamesWhole
    <3>3. dir'[Old(w)] \in whole'
      BY <1>1, <3>1, <3>2, NamesDiffer
    <3>4. w # v => dir'[Final(v)] = dir[Final(v)] /\ dir'[Old(v)] = dir[Old(v)]
      BY <1>1, <3>1, NamesDiffer
    <3>5. CASE w = v
      BY <3>3, <3>5, TwoNames
    <3>6. CASE w # v
      <4>1. dir[Final(v)] \in whole \/ dir[Old(v)] \in whole
        BY TwoNames
      <4>2. dir'[Final(v)] \in whole' \/ dir'[Old(v)] \in whole'
        BY <3>1, <3>4, <3>6, <4>1
      <4> QED
        BY <4>2, TwoNames
    <3> QED
      BY <3>5, <3>6
  <2> QED
    BY <2>2, <2>3
<1>7. ASSUME NEW a \in Agents, OpenTmp(a) PROVE GoodCopy(v)'
  <2>1. PICK w \in Versions : path[a] = Final(w) /\ path[a][1] = w
    BY <1>4, <1>7 DEF OpenTmp, Preparing
  <2>2. PICK f \in Files : dir' = [dir EXCEPT ![Tmp(w)] = f] /\ UNCHANGED whole
    BY <1>7, <2>1 DEF OpenTmp
  <2> QED
    BY <1>3, <2>2, NamesDiffer
<1>8. ASSUME NEW a \in Agents, CopyFails(a) \/ PlaceFails(a) PROVE GoodCopy(v)'
  <2>1. PICK w \in Versions : path[a] = Final(w) /\ path[a][1] = w
    BY <1>4, <1>8 DEF CopyFails, PlaceFails, Preparing
  <2>2. dir' = [dir EXCEPT ![Tmp(w)] = Absent] /\ UNCHANGED whole
    BY <1>8, <2>1 DEF CopyFails, PlaceFails, Unlinked
  <2> QED
    BY <1>3, <2>2, NamesDiffer
<1>9. ASSUME NEW a \in Agents, Place(a) PROVE GoodCopy(v)'
  <2>1. PICK w \in Versions : path[a] = Final(w) /\ path[a][1] = w
    BY <1>4, <1>9 DEF Place, Preparing
  <2>2. /\ dir' = [dir EXCEPT ![Tmp(w)] = Absent, ![Final(w)] = dir[Tmp(w)]]
        /\ UNCHANGED whole /\ dir[Tmp(w)] # Absent /\ pc[a] = "place"
    BY <1>9, <2>1 DEF Place, Renamed, Exists
  <2>3. dir[Tmp(w)] \in whole
    BY <2>1, <2>2 DEF TmpIsMine, Downloads, Preparing
  <2>4. dir'[Final(w)] \in whole'
    BY <1>1, <2>2, <2>3, NamesDiffer
  <2>5. w # v => dir'[Final(v)] = dir[Final(v)] /\ dir'[Old(v)] = dir[Old(v)]
    BY <1>1, <2>2, NamesDiffer
  <2>6. CASE w = v
    BY <2>4, <2>6, TwoNames
  <2>7. CASE w # v
    <3>1. dir[Final(v)] \in whole \/ dir[Old(v)] \in whole
      BY TwoNames
    <3>2. dir'[Final(v)] \in whole' \/ dir'[Old(v)] \in whole'
      BY <2>2, <2>5, <2>7, <3>1
    <3> QED
      BY <3>2, TwoNames
  <2> QED
    BY <2>6, <2>7
<1>10. CASE UNCHANGED vars
  BY <1>2, <1>10 DEF vars
<1>11. ASSUME NEW a \in Agents,
              \/ \E w \in Versions : Deploy(a, w)
              \/ GetFails(a) \/ Copy(a) \/ CopyEnds(a)
              \/ Start(a) \/ StartFails(a) \/ Rollback(a) \/ Crash(a)
       PROVE  GoodCopy(v)'
  BY <1>2, <1>11
  DEF Deploy, GetFails, Copy, CopyEnds, Start, StartFails, Rollback, Crash
<1>12. ASSUME NEW a \in Agents, SetAsideFails(a) PROVE FALSE
  BY <1>12 DEF SetAsideFails
<1> QED
  BY <1>5, <1>6, <1>7, <1>8, <1>9, <1>10, <1>11, <1>12 DEF Next, Command, Download

-----------------------------------------------------------------------------
(***************************************************************************)
(* The order of the files, whatever the agents are told.                   *)
(***************************************************************************)

\* The number of a file that is created next is new, what is being written has been
\* created, and an agent that is at work has a name to work on.
Numbered == \A i \in 1 .. Len(written) : written[i] <= Len(written)
Created == \A a \in Agents : pc[a] = "copy" => fd[a] \in Files /\ Contains(written, fd[a])
Named == \A a \in Agents : pc[a] # "idle" => path[a] \in Names

TInv == TypeOK /\ Numbered /\ Created /\ Named

\* A file that becomes the newest leaves the others in their order: nothing is lost, and
\* nothing is listed twice.
LEMMA TouchedKeeps ==
    ASSUME written \in Seq(Files), IsInjective(written), NEW f, Contains(written, f)
    PROVE  /\ Touched(f) \in Seq(Files) /\ IsInjective(Touched(f))
           /\ Len(Touched(f)) = Len(written)
           /\ \A x : Contains(Touched(f), x) <=> Contains(written, x)
<1> DEFINE n == Len(written)
           t == ModTime(f)
           q == Touched(f)
<1>1. n \in Nat /\ t \in 1 .. n /\ written[t] = f
      BY DEF ModTime, Contains
<1>2. /\ DOMAIN written = 1 .. n
      /\ \A i \in 1 .. n : written[i] \in Files
      /\ \A i, j \in 1 .. n : written[i] = written[j] => i = j
      BY DEF IsInjective
<1>3. /\ DOMAIN q = 1 .. n
      /\ \A i \in 1 .. n : q[i] = IF i < t THEN written[i] ELSE IF i < n THEN written[i + 1] ELSE f
      BY DEF Touched
<1> HIDE DEF t, n
<1>4. \A i \in 1 .. n : \E j \in 1 .. n : /\ q[i] = written[j]
                                         /\ j = IF i < t THEN i ELSE IF i < n THEN i + 1 ELSE t
      BY <1>1, <1>3
<1>5. \A i \in 1 .. n : q[i] \in Files
      BY <1>2, <1>4
<1>6. q \in Seq(Files) /\ Len(q) = n
      BY <1>1, <1>3, <1>5 DEF Touched, n
<1>7. \A i, j \in 1 .. n : q[i] = q[j] => i = j
  <2> SUFFICES ASSUME NEW i \in 1 .. n, NEW j \in 1 .. n, q[i] = q[j] PROVE i = j
      OBVIOUS
  <2>1. PICK k \in 1 .. n : q[i] = written[k] /\ k = IF i < t THEN i ELSE IF i < n THEN i + 1 ELSE t
        BY <1>4
  <2>2. PICK m \in 1 .. n : q[j] = written[m] /\ m = IF j < t THEN j ELSE IF j < n THEN j + 1 ELSE t
        BY <1>4
  <2>3. k = m
        BY <1>2, <2>1, <2>2
  <2> HIDE DEF q
  <2>4. QED BY <1>1, <2>1, <2>2, <2>3
<1>8. \A j \in 1 .. n : \E i \in 1 .. n : q[i] = written[j]
  <2> SUFFICES ASSUME NEW j \in 1 .. n PROVE \E i \in 1 .. n : q[i] = written[j]
      OBVIOUS
  <2>1. CASE j < t
        BY <1>1, <1>3, <2>1
  <2>2. CASE j = t
        BY <1>1, <1>3, <2>2
  <2>3. CASE j > t
    <3>1. j - 1 \in 1 .. n /\ ~(j - 1 < t) /\ j - 1 < n /\ (j - 1) + 1 = j
          BY <1>1, <2>3
    <3>2. q[j - 1] = written[j]
          BY <1>3, <3>1
    <3>3. QED BY <3>1, <3>2
  <2>4. QED BY <1>1, <2>1, <2>2, <2>3
<1> HIDE DEF q
<1>9. \A x : (\E i \in 1 .. n : q[i] = x) <=> (\E i \in 1 .. n : written[i] = x)
      BY <1>4, <1>8
<1>10. IsInjective(q)
      BY <1>3, <1>7 DEF IsInjective
<1>11. QED BY <1>6, <1>9, <1>10 DEF Contains, q, n

\* A file that has just been created is the newest.
LEMMA AppendedNewest ==
    ASSUME written \in Seq(Files), IsInjective(written), Numbered, NEW f \in Files, f = Len(written) + 1
    PROVE  /\ Append(written, f) \in Seq(Files) /\ IsInjective(Append(written, f))
           /\ \A i \in 1 .. Len(Append(written, f)) : Append(written, f)[i] <= Len(Append(written, f))
           /\ \A x : Contains(Append(written, f), x) <=> Contains(written, x) \/ x = f
           /\ ~Contains(written, f)
<1> DEFINE n == Len(written)
           q == Append(written, f)
<1>1. /\ n \in Nat /\ f = n + 1 /\ DOMAIN written = 1 .. n
      /\ \A i \in 1 .. n : written[i] \in Files /\ written[i] \in Nat /\ written[i] <= n
      /\ \A i, j \in 1 .. n : written[i] = written[j] => i = j
  <2>1. n \in Nat /\ DOMAIN written = 1 .. n /\ \A i \in 1 .. n : written[i] \in Files
        OBVIOUS
  <2>2. \A i \in 1 .. n : written[i] \in Nat
        BY <2>1 DEF Files
  <2>3. \A i, j \in 1 .. n : written[i] = written[j] => i = j
        BY <2>1 DEF IsInjective
  <2>4. \A i \in 1 .. n : written[i] <= n
        BY DEF Numbered
  <2>5. QED BY <2>1, <2>2, <2>3, <2>4
<1>2. /\ q \in Seq(Files) /\ Len(q) = n + 1 /\ DOMAIN q = 1 .. n + 1 /\ q[n + 1] = f
      /\ \A i \in 1 .. n : q[i] = written[i]
      OBVIOUS
<1> HIDE DEF n, q
<1>3. \A i \in 1 .. n + 1 : i = n + 1 \/ i \in 1 .. n
      BY <1>1
<1>4. \A i \in 1 .. n + 1 : q[i] <= n + 1
      BY <1>1, <1>2, <1>3
<1>5. IsInjective(q)
      BY <1>1, <1>2, <1>3 DEF IsInjective
<1>6. \A x : (\E i \in 1 .. n + 1 : q[i] = x) <=> (\E i \in 1 .. n : written[i] = x) \/ x = f
      BY <1>1, <1>2, <1>3
<1>7. ~\E i \in 1 .. n : written[i] = f
      BY <1>1
<1>8. QED BY <1>2, <1>4, <1>5, <1>6, <1>7 DEF Contains, q, n

\* Each file has one name, and what the directory refers to has a time of its own.
DirOK(d) ==
    /\ d \in [Names -> Files \cup {Absent}]
    /\ \A m, n \in Names : d[m] = d[n] /\ d[m] # Absent => m = n
    /\ \A n \in Names : d[n] = Absent \/ Contains(written, d[n])

\* Removals and renames give no file a second name and list nothing that is not written.
LEMMA DirKept ==
    ASSUME DirOK(dir)
    PROVE  /\ \A n \in Names : DirOK(Unlinked(n))
           /\ \A m, n \in Names : DirOK(Renamed(m, n))
           /\ \A d : d \in [Names -> Files \cup {Absent}] /\ (\A n \in Names : d[n] \in {dir[n], Absent})
                    => DirOK(d)
  BY DEF DirOK, Unlinked, Renamed

\* No name refers to a file, and no file has been written.
LEMMA TypeInit == Init => TInv
<1> SUFFICES ASSUME Init PROVE TInv
    OBVIOUS
<1>1. written = <<>> /\ written \in Seq(Files) /\ Len(written) = 0 /\ DOMAIN written = {}
      BY DEF Init
<1>2. IsInjective(written) /\ Numbered
      BY <1>1 DEF IsInjective, Numbered
<1>3. QED BY <1>1, <1>2 DEF Init, TInv, TypeOK, Created, Named, Steps, Preparing, Absent

\* Every step of every agent keeps the types, without any condition on the orders.
LEMMA TypeStep == TInv /\ [Next]_vars => TInv'
<1> SUFFICES ASSUME TInv, [Next]_vars PROVE TInv'
    OBVIOUS
<1> USE DEF TInv
<1>0. /\ DirOK(dir) /\ written \in Seq(Files) /\ IsInjective(written) /\ whole \subseteq Files
      /\ pc \in [Agents -> Steps] /\ path \in [Agents -> Names \cup {NoName}]
      /\ fd \in [Agents -> Files \cup {Absent}]
      /\ crashes \in Nat /\ faults \in Nat /\ clashed \in BOOLEAN
      /\ \A a \in Agents : pc[a] # "copy" => fd[a] = Absent
      BY DEF TypeOK, DirOK
<1>1. ASSUME NEW a \in Agents, pc[a] # "idle"
      PROVE  /\ path[a] \in Names /\ path[a][1] \in Versions
             /\ Old(path[a][1]) \in Names /\ Tmp(path[a][1]) \in Names
      BY <1>1 DEF Named, Names, Old, Tmp, Endings
\* Steps that write nothing and open nothing.
<1>2. ASSUME NEW a \in Agents, UNCHANGED <<written, whole>>, DirOK(dir'),
             crashes' \in Nat, faults' \in Nat, clashed' \in BOOLEAN,
             NEW w \in Steps \ {"copy"}, pc' = [pc EXCEPT ![a] = w],
             fd' = [fd EXCEPT ![a] = Absent],
             NEW p \in Names \cup {NoName}, path' = [path EXCEPT ![a] = p], w # "idle" => p \in Names
      PROVE  TInv'
  <2>1. TypeOK'
        BY <1>0, <1>2 DEF TypeOK, DirOK
  <2>2. Numbered' /\ Created' /\ Named'
        BY <1>0, <1>2 DEF Numbered, Created, Named
  <2>3. QED BY <2>1, <2>2
<1>3. ASSUME NEW a \in Agents, fd[a] = Absent PROVE fd = [fd EXCEPT ![a] = Absent]
      BY <1>0, <1>3
<1>4. ASSUME NEW a \in Agents PROVE path = [path EXCEPT ![a] = path[a]] /\ path[a] \in Names \cup {NoName}
      BY <1>0
<1>5. ASSUME NEW a \in Agents, NEW v \in Versions, Deploy(a, v) PROVE TInv'
  <2>1. Final(v) \in Names
        BY NamesDiffer
  <2>2. QED BY <1>0, <1>2, <1>3, <1>5, <2>1 DEF Deploy, Steps, Preparing
<1>6. ASSUME NEW a \in Agents, StatTarget(a) \/ SetAside(a) \/ SetAsideFails(a) PROVE TInv'
  <2>1. /\ pc[a] \in {"stat", "rename"} /\ UNCHANGED <<written, whole, path, fd, crashes, clashed>>
        /\ faults' \in Nat
        BY <1>0, <1>6 DEF StatTarget, SetAside, SetAsideFails
  <2>2. DirOK(dir')
        BY <1>0, <1>1, <1>6, <2>1, DirKept DEF StatTarget, SetAside, SetAsideFails
  <2>3. \E w \in {"rename", "get"} : pc' = [pc EXCEPT ![a] = w]
        BY <1>6 DEF StatTarget, SetAside, SetAsideFails
  <2>4. QED BY <1>0, <1>1, <1>2, <1>3, <1>4, <2>1, <2>2, <2>3 DEF Steps, Preparing
<1>7. ASSUME NEW a \in Agents, OpenTmp(a) PROVE TInv'
  <2> DEFINE f == Len(written) + 1
  <2>1. /\ pc[a] = "get" /\ f \in Files /\ written' = Append(written, f)
        /\ dir' = [dir EXCEPT ![Tmp(path[a][1])] = f]
        /\ fd' = [fd EXCEPT ![a] = f] /\ pc' = [pc EXCEPT ![a] = "copy"]
        /\ UNCHANGED <<whole, path, crashes, faults, clashed>>
        BY <1>7 DEF OpenTmp
  <2>2. /\ written' \in Seq(Files) /\ IsInjective(written') /\ Numbered'
        /\ \A x : Contains(written', x) <=> Contains(written, x) \/ x = f
        /\ ~Contains(written, f)
        BY <1>0, <2>1, AppendedNewest DEF Numbered
  <2>3. f # Absent
        BY <2>1 DEF Files, Absent
  <2> HIDE DEF f
  <2>4. Tmp(path[a][1]) \in Names
        BY <1>1, <2>1
  <2>5. /\ dir' \in [Names -> Files \cup {Absent}]
        /\ \A m, n \in Names : dir'[m] = dir'[n] /\ dir'[m] # Absent => m = n
        /\ \A n \in Names : dir'[n] = Absent \/ Contains(written', dir'[n])
        BY <1>0, <2>1, <2>2, <2>3, <2>4 DEF DirOK
  <2>6. TypeOK'
        BY <1>0, <2>1, <2>2, <2>5 DEF TypeOK, Steps, Preparing
  <2>7. Created' /\ Named'
        BY <1>0, <2>1, <2>2 DEF Created, Named
  <2>8. QED BY <2>2, <2>6, <2>7
<1>8. ASSUME NEW a \in Agents, Copy(a) \/ CopyEnds(a) PROVE TInv'
  <2>1. pc[a] = "copy" /\ written' = Touched(fd[a]) /\ UNCHANGED <<dir, path, crashes, faults, clashed>>
        BY <1>8 DEF Copy, CopyEnds
  <2>2. fd[a] \in Files /\ Contains(written, fd[a])
        BY <2>1 DEF Created
  <2>3. /\ written' \in Seq(Files) /\ IsInjective(written') /\ Len(written') = Len(written)
        /\ \A x : Contains(written', x) <=> Contains(written, x)
        BY <1>0, <2>1, <2>2, TouchedKeeps
  <2>4. Numbered'
    <3>1. \A i \in 1 .. Len(written') : \E j \in 1 .. Len(written) : written'[i] = written[j]
          BY <2>3 DEF Contains
    <3>2. QED BY <2>3, <3>1 DEF Numbered
  <2>5. DirOK(dir)'
        BY <1>0, <2>1, <2>3 DEF DirOK
  <2>6. /\ whole' \subseteq Files /\ pc' \in [Agents -> Steps] /\ fd' \in [Agents -> Files \cup {Absent}]
        /\ \A b \in Agents : pc'[b] # "copy" => fd'[b] = Absent
        /\ \A b \in Agents : pc'[b] = "copy" => pc[b] = "copy" /\ fd'[b] = fd[b]
        /\ \A b \in Agents : pc'[b] # "idle" => pc[b] # "idle"
        BY <1>0, <1>8, <2>2 DEF Copy, CopyEnds, Steps, Preparing
  <2>7. TypeOK'
        BY <1>0, <2>1, <2>3, <2>5, <2>6 DEF TypeOK, DirOK
  <2>8. Created' /\ Named'
        BY <2>1, <2>3, <2>6 DEF Created, Named
  <2>9. QED BY <2>4, <2>7, <2>8
<1>9. ASSUME NEW a \in Agents, CopyFails(a) \/ GetFails(a) \/ PlaceFails(a) \/ StartFails(a) \/ Clean(a) \/ Crash(a)
      PROVE  TInv'
  <2>1. /\ pc[a] # "idle" /\ Return(a) /\ UNCHANGED <<written, whole, faults, clashed>> /\ crashes' \in Nat
        /\ fd' = [fd EXCEPT ![a] = Absent]
        BY <1>0, <1>3, <1>9 DEF CopyFails, GetFails, PlaceFails, StartFails, Clean, Crash
  <2>2. DirOK(dir')
    <3>1. CASE Clean(a)
      <4>1. dir' \in [Names -> Files \cup {Absent}] /\ \A n \in Names : dir'[n] \in {dir[n], Absent}
            BY <1>0, <3>1 DEF Clean, DirOK
      <4>2. QED BY <1>0, <4>1, DirKept
    <3>2. CASE ~Clean(a)
          BY <1>0, <1>1, <1>9, <2>1, <3>2, DirKept DEF CopyFails, GetFails, PlaceFails, StartFails, Crash
    <3>3. QED BY <3>1, <3>2
  <2>3. QED BY <1>0, <1>2, <2>1, <2>2 DEF Return, Steps, Preparing
<1>10. ASSUME NEW a \in Agents, Place(a) PROVE TInv'
  <2>1. /\ pc[a] = "place" /\ dir' = Renamed(Tmp(path[a][1]), path[a])
        /\ pc' = [pc EXCEPT ![a] = "start"] /\ UNCHANGED <<written, whole, path, fd, crashes, faults, clashed>>
        BY <1>10 DEF Place
  <2>2. DirOK(dir')
        BY <1>0, <1>1, <2>1, DirKept
  <2>3. QED BY <1>0, <1>1, <1>2, <1>3, <1>4, <2>1, <2>2 DEF Steps, Preparing
<1>11. ASSUME NEW a \in Agents, Start(a) PROVE TInv'
  <2>1. /\ pc[a] = "start" /\ pc' = [pc EXCEPT ![a] = "clean"]
        /\ UNCHANGED <<dir, written, whole, path, fd, crashes, faults, clashed>>
        BY <1>11 DEF Start
  <2>2. QED BY <1>0, <1>1, <1>2, <1>3, <1>4, <2>1 DEF Steps, Preparing
<1>12. ASSUME NEW a \in Agents, Rollback(a) PROVE TInv'
  <2>1. /\ pc[a] = "idle" /\ pc' = [pc EXCEPT ![a] = "start"]
        /\ UNCHANGED <<dir, written, whole, fd, crashes, faults, clashed>>
        /\ \E n \in Names : path' = [path EXCEPT ![a] = n]
        BY <1>12 DEF Rollback
  <2>2. QED BY <1>0, <1>2, <1>3, <2>1 DEF Steps, Preparing
<1>13. CASE UNCHANGED vars
      BY <1>13 DEF vars, TypeOK, Numbered, Created, Named
<1>14. QED
      BY <1>5, <1>6, <1>7, <1>8, <1>9, <1>10, <1>11, <1>12, <1>13 DEF Next, Command, Download

\* The state is well-formed for any orders: a file has one name, the listing by
\* modification time has every file once, and who does not download holds nothing open.
THEOREM TypeCorrect == Spec => []TypeOK
<1>1. TInv => TypeOK BY DEF TInv
<1>2. QED BY <1>1, TypeInit, TypeStep, PTL DEF Spec

\* Nothing but a cleanup or a rename that fails costs a version its last good copy,
\* unless two agents have been deploying the same name at once: not a download that
\* breaks, not an agent that dies in the middle of a redeployment.
THEOREM GoodCopiesAreKept == Spec => GoodCopyKept
<1>1. TInv /\ IInv /\ [Next]_vars =>
        [\A v \in Versions : GoodCopy(v) /\ ~GoodCopy(v)' =>
             clashed \/ faults' # faults \/ \E a \in Agents : Clean(a)]_vars
  BY GoodCopyStep DEF IInv, TInv, TypeOK
<1> QED
  BY InvariantInit, InvariantStep, TypeInit, TypeStep, <1>1, PTL DEF Spec, GoodCopyKept
-----------------------------------------------------------------------------
(***************************************************************************)
(* One agent in its directory that is never interrupted: it takes other    *)
(* agents, or a crash, for a truncated file to be run.                     *)
(***************************************************************************)

Alone == \A a, b \in Agents : a = b

\* What is being downloaded, under its temporary name, is all that may be truncated.
RestWhole ==
    /\ crashes \in Nat
    /\ \A n \in Names : Exists(n) =>
          \/ dir[n] \in whole
          \/ \E a \in Agents, v \in Versions : pc[a] = "copy" /\ path[a] = Final(v) /\ n = Tmp(v)

\* Whoever is alone clashes with nobody.
LEMMA AloneIsQuiet == Alone /\ Quiet /\ ~clashed /\ [Next]_vars => Quiet' /\ ~clashed'
<1> SUFFICES ASSUME Alone, Quiet, ~clashed, [Next]_vars PROVE Quiet' /\ ~clashed'
  OBVIOUS
<1>1. ASSUME NEW a \in Agents, NEW v \in Versions, Deploy(a, v) PROVE ~clashed'
  <2>1. \A b \in Agents : pc[b] = "idle"
    BY <1>1 DEF Deploy, Alone
  <2> QED
    BY <1>1, <2>1 DEF Deploy, Preparing
<1>2. ~clashed'
  BY <1>1 DEF vars, Next, Command, Download, StatTarget, SetAside, SetAsideFails,
         OpenTmp, GetFails, Copy, CopyEnds, CopyFails, Place, PlaceFails, Start, StartFails, Clean, Rollback, Crash
<1> QED
  BY <1>2, QuietStep

\* While the agent does not copy, all that the directory refers to is whole.
LEMMA AllWhole ==
    ASSUME Alone, RestWhole, NEW a \in Agents, pc[a] # "copy", NEW n \in Names, Exists(n)
    PROVE  dir[n] \in whole
  BY DEF Alone, RestWhole

\* A step of an agent that is alone leaves nothing truncated behind.
LEMMA RestWholeStep ==
    ASSUME Alone, MaxCrashes = 0, Quiet, RestWhole, [Next]_vars
    PROVE  RestWhole'
<1> USE DEF Quiet
<1>0. dir \in [Names -> Files \cup {Absent}] /\ pc \in [Agents -> Steps]
  BY DEF Shape
<1>1. CASE UNCHANGED vars
  BY <1>1 DEF vars, RestWhole, Exists
<1>2. ASSUME NEW a \in Agents, pc[a] # "copy", UNCHANGED <<whole, crashes>>,
             \A n \in Names : dir'[n] = Absent \/ \E m \in Names : dir'[n] = dir[m]
      PROVE  RestWhole'
  <2>1. ASSUME NEW n \in Names, dir'[n] # Absent PROVE dir'[n] \in whole
    <3>1. PICK m \in Names : dir'[n] = dir[m]
      BY <1>2, <2>1
    <3> QED
      BY <1>2, <2>1, <3>1, AllWhole DEF Exists
  <2> QED
    BY <1>2, <2>1 DEF RestWhole, Exists
<1>3. ASSUME NEW a \in Agents, pc[a] \in Preparing
      PROVE  \E v \in Versions : /\ path[a] = Final(v) /\ path[a][1] = v
                                 /\ Final(v) \in Names /\ Old(v) \in Names /\ Tmp(v) \in Names
  BY <1>3, NamesDiffer DEF Apart
<1>4. ASSUME NEW a \in Agents, StatTarget(a) \/ SetAside(a) \/ SetAsideFails(a) \/ Place(a) \/ PlaceFails(a) PROVE RestWhole'
  <2>1. /\ pc[a] \in {"stat", "rename", "place"} /\ UNCHANGED <<whole, crashes>>
    BY <1>4 DEF StatTarget, SetAside, SetAsideFails, Place, PlaceFails
  <2>2. PICK v \in Versions : /\ path[a] = Final(v) /\ path[a][1] = v
                              /\ Final(v) \in Names /\ Old(v) \in Names /\ Tmp(v) \in Names
    BY <1>3, <2>1 DEF Preparing
  <2>3. \A n \in Names : dir'[n] = Absent \/ \E m \in Names : dir'[n] = dir[m]
    BY <1>0, <1>4, <2>2 DEF StatTarget, SetAside, SetAsideFails, Place, PlaceFails, Unlinked, Renamed
  <2> QED
    BY <1>2, <2>1, <2>3
<1>5. ASSUME NEW a \in Agents,
             \/ \E v \in Versions : Deploy(a, v)
             \/ GetFails(a) \/ Start(a) \/ StartFails(a) \/ Clean(a) \/ Rollback(a)
      PROVE  RestWhole'
  <2>1. pc[a] # "copy" /\ UNCHANGED <<whole, crashes>>
    BY <1>5 DEF Deploy, GetFails, Start, StartFails, Clean, Rollback
  <2>2. \A n \in Names : dir'[n] = Absent \/ \E m \in Names : dir'[n] = dir[m]
    BY <1>0, <1>5 DEF Deploy, GetFails, Start, StartFails, Clean, Rollback
  <2> QED
    BY <1>2, <2>1, <2>2
<1>6. ASSUME NEW a \in Agents, OpenTmp(a) PROVE RestWhole'
  <2>1. /\ pc[a] = "get" /\ dir' = [dir EXCEPT ![Tmp(path[a][1])] = Len(written) + 1]
        /\ pc' = [pc EXCEPT ![a] = "copy"] /\ UNCHANGED <<whole, path, crashes>>
    BY <1>6 DEF OpenTmp
  <2>2. PICK v \in Versions : path[a] = Final(v) /\ path[a][1] = v /\ Tmp(v) \in Names
    BY <1>3, <2>1 DEF Preparing
  <2>3. \A n \in Names \ {Tmp(v)} : Exists(n)' => dir'[n] \in whole
    BY <1>0, <2>1, <2>2, AllWhole DEF Exists
  <2>4. pc'[a] = "copy" /\ path'[a] = Final(v)
    BY <1>0, <2>1, <2>2
  <2> QED
    BY <2>1, <2>3, <2>4 DEF RestWhole, Exists
<1>7. ASSUME NEW a \in Agents, Copy(a) PROVE RestWhole'
  BY <1>7 DEF Copy, RestWhole, Exists
<1>8. ASSUME NEW a \in Agents, CopyEnds(a) \/ CopyFails(a) PROVE RestWhole'
  <2>1. pc[a] = "copy" /\ crashes' = crashes
    BY <1>8 DEF CopyEnds, CopyFails
  <2>2. PICK v \in Versions : path[a] = Final(v) /\ path[a][1] = v /\ Tmp(v) \in Names
    BY <1>3, <2>1 DEF Preparing
  <2>3. \A n \in Names \ {Tmp(v)} : Exists(n) => dir[n] \in whole
    <3>1. \A w \in Versions : path[a] = Final(w) => w = v
      BY <2>2, NamesDiffer
    <3> QED
      BY <3>1 DEF Alone, RestWhole
  <2>4. dir[Tmp(v)] \in {fd[a], Absent}
    BY <2>1, <2>2 DEF TmpIsMine, Downloads, Preparing
  <2>5. CASE CopyEnds(a)
    <3>1. whole' = whole \cup {fd[a]} /\ UNCHANGED dir
      BY <2>5 DEF CopyEnds
    <3> QED
      BY <2>1, <2>3, <2>4, <3>1 DEF RestWhole, Exists
  <2>6. CASE CopyFails(a)
    <3>1. dir' = [dir EXCEPT ![Tmp(v)] = Absent] /\ UNCHANGED whole
      BY <2>2, <2>6 DEF CopyFails, Unlinked
    <3>2. \A n \in Names : Exists(n)' => dir'[n] \in whole
      BY <1>0, <2>3, <3>1 DEF Exists
    <3> QED
      BY <2>1, <3>1, <3>2 DEF RestWhole, Exists
  <2> QED
    BY <1>8, <2>5, <2>6
<1>9. ASSUME NEW a \in Agents, Crash(a) PROVE FALSE
  BY <1>9 DEF Crash, RestWhole
<1> QED
  BY <1>1, <1>4, <1>5, <1>6, <1>7, <1>8, <1>9 DEF Next, Command, Download

\* A single agent that is not interrupted never executes a truncated binary, whatever it
\* is told to deploy, however often downloads break and rollbacks are asked for. So what
\* refutes the promise is another agent in the directory, or a death in a download.
THEOREM WholeRunsAlone == Alone /\ MaxCrashes = 0 => (Spec => PartialNeverRuns)
<1> SUFFICES ASSUME Alone, MaxCrashes = 0 PROVE Spec => PartialNeverRuns
  OBVIOUS
<1>1. Init => RestWhole
  BY DEF Init, RestWhole, Exists
<1>2. Init => Quiet /\ ~clashed
  BY InvariantInit DEF Init
<1>5. Quiet /\ ~clashed /\ [Next]_vars => Quiet' /\ ~clashed'
  BY AloneIsQuiet
<1>3. Quiet /\ RestWhole /\ [Next]_vars => RestWhole'
  BY RestWholeStep
<1>4. TInv /\ RestWhole /\ [Next]_vars => [\A a \in Agents : Start(a) => dir[path[a]] \in whole]_vars
  <2> SUFFICES ASSUME TInv, RestWhole, NEW a \in Agents, Start(a) PROVE dir[path[a]] \in whole
    OBVIOUS
  <2>1. pc[a] = "start" /\ Exists(path[a])
    BY DEF Start, Executable
  <2>2. path[a] \in Names
    BY <2>1 DEF TInv, Named
  <2> QED
    BY <2>1, <2>2, AllWhole
<1> QED
  BY TypeInit, TypeStep, <1>1, <1>2, <1>3, <1>4, <1>5, PTL DEF Spec, PartialNeverRuns
=============================================================================
