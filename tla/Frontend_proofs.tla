-------------------------- MODULE Frontend_proofs --------------------------
(***************************************************************************)
(* What a frontend build keeps however often the host goes down in it, or  *)
(* other requests make a dist in the middle of it, or when a command fails *)
(* of itself, as long as it is not that and one of the others.             *)
(***************************************************************************)
EXTENDS Frontend, TLAPS

\* Crashes and races come about, any number of them, or one command that fails of itself;
\* a move fails whenever it is blocked.
MildTroubles == \A t \in Troubles : t[2] = 0 \/ t = <<0, 1, 0>>

\* No directory is told from every directory, and mkdirAll makes one.
LEMMA NoDirIsNone == NoDir \notin Directory /\ Empty \in Directory /\ Empty # NoDir
<1>1. NoDir.files \notin {"none", "some", "all"}
  BY DEF NoDir
<1>2. NoInner \in [Names -> {"none", "empty", "full"}]
  BY DEF NoInner
<1>3. Empty \in Directory
  BY <1>2 DEF Empty, Directory
<1>4. \A d \in Directory : d.files \in {"none", "some", "all"}
  BY DEF Directory
<1> QED
  BY <1>1, <1>3, <1>4

\* A directory into which another is moved keeps its own files, and its tree gains what
\* the other's has.
LEMMA WithType ==
    ASSUME NEW x \in Names, NEW y \in Names, dir[x] \in Directory, dir[y] \in Directory
    PROVE  /\ With(y, x) \in Directory
           /\ With(y, x).v = dir[y].v
           /\ With(y, x).files = dir[y].files
           /\ With(y, x).has = (dir[y].has \/ dir[x].has)
<1> DEFINE i == [dir[y].inner EXCEPT ![x] = IF dir[x] = Empty THEN "empty" ELSE "full"]
           h == dir[y].has \/ dir[x].has
<1>1. dir[y].inner \in [Names -> {"none", "empty", "full"}] /\ dir[y].has \in BOOLEAN /\ dir[x].has \in BOOLEAN
  BY DEF Directory
<1>2. i \in [Names -> {"none", "empty", "full"}] /\ h \in BOOLEAN
  BY <1>1
<1>3. With(y, x) = [dir[y] EXCEPT !.inner = i, !.has = h]
  BY DEF With
<1> HIDE DEF i, h
<1>4. /\ With(y, x) \in Directory /\ With(y, x).v = dir[y].v
      /\ With(y, x).files = dir[y].files /\ With(y, x).has = h
  BY <1>2, <1>3 DEF Directory
<1> QED
  BY <1>4 DEF h

\* A directory is one of the right type or none; what the moves do to the three of them.
LEMMA MovedType ==
    ASSUME NEW x \in Names, NEW y \in Names, x # y,
           dir \in [Names -> Directory \cup {NoDir}], ~Blocked(x, y)
    PROVE  /\ dir[x] \in Directory
           /\ Moved(x, y) \in [Names -> Directory \cup {NoDir}]
           /\ Moved(x, y)[x] = NoDir
           /\ \A n \in Names \ {x, y} : Moved(x, y)[n] = dir[n]
           /\ ~Exists(y) => Moved(x, y)[y] = dir[x]
           /\ Exists(y) => /\ Moved(x, y)[y] \in Directory
                           /\ Moved(x, y)[y].v = dir[y].v
                           /\ Moved(x, y)[y].files = dir[y].files
                           /\ Moved(x, y)[y].has = (dir[y].has \/ dir[x].has)
<1>1. dir[x] \in Directory
  BY DEF Blocked, Exists
<1>2. CASE Exists(y)
  <2>1. dir[y] \in Directory
    BY <1>2 DEF Exists
  <2>2. Moved(x, y) = [dir EXCEPT ![x] = NoDir, ![y] = With(y, x)]
    BY <1>2 DEF Moved
  <2>3. /\ With(y, x) \in Directory /\ With(y, x).v = dir[y].v
        /\ With(y, x).files = dir[y].files /\ With(y, x).has = (dir[y].has \/ dir[x].has)
    BY <1>1, <2>1, WithType
  <2>4. /\ Moved(x, y) \in [Names -> Directory \cup {NoDir}]
        /\ Moved(x, y)[x] = NoDir
        /\ \A n \in Names \ {x, y} : Moved(x, y)[n] = dir[n]
        /\ Moved(x, y)[y] = With(y, x)
    BY <2>2, <2>3
  <2> QED
    BY <1>1, <1>2, <2>3, <2>4
<1>3. CASE ~Exists(y)
  <2>1. Moved(x, y) = [dir EXCEPT ![x] = NoDir, ![y] = dir[x]]
    BY <1>3 DEF Moved
  <2> QED
    BY <1>1, <1>3, <2>1
<1> QED
  BY <1>2, <1>3

\* What mkdirAll makes of the directories.
LEMMA WithDistType ==
    ASSUME dir \in [Names -> Directory \cup {NoDir}]
    PROVE  /\ WithDist \in [Names -> Directory \cup {NoDir}]
           /\ \A n \in Names : n # "dist" => WithDist[n] = dir[n]
           /\ Exists("dist") => WithDist = dir
           /\ ~Exists("dist") => WithDist["dist"] = Empty
BY NoDirIsNone DEF WithDist, Names

\* What removing files leaves is a directory, with nothing complete in it.
LEMMA RemainsType ==
    ASSUME NEW d \in Directory, NEW kept \in SUBSET Names
    PROVE  Remains(d, kept) \in Directory
<1> DEFINE f == IF d.files = "all" THEN "some" ELSE d.files
           i == [n \in Names |-> IF n \in kept THEN d.inner[n] ELSE "none"]
<1>1. f \in {"none", "some", "all"} /\ i \in [Names -> {"none", "empty", "full"}]
  BY DEF Directory
<1>2. Remains(d, kept) = [d EXCEPT !.files = f, !.inner = i, !.has = FALSE]
  BY DEF Remains
<1> HIDE DEF f, i
<1> QED
  BY <1>1, <1>2 DEF Directory

\* Every step of the program keeps the type invariant, faults and crashes included.
LEMMA TypeStep == TypeOK /\ [Next]_vars => TypeOK'
<1> SUFFICES ASSUME TypeOK, [Next]_vars
             PROVE  TypeOK'
  OBVIOUS
<1> USE NoDirIsNone
<1>1. ASSUME NEW v \in Versions, Build(v)
      PROVE  TypeOK'
  <2> DEFINE n == [v |-> v, files |-> "some", inner |-> NoInner, has |-> FALSE]
  <2>1. n \in Directory /\ n.v = v /\ n.inner = NoInner
    <3>1. NoInner \in [Names -> {"none", "empty", "full"}]
      BY DEF NoInner
    <3> QED
      BY <3>1 DEF Directory
  <2>2. PICK d \in {dir, WithDist} : dir' = [d EXCEPT !["new"] = n] /\ found' = d["dist"]
    BY <1>1 DEF Build
  <2>3. d \in [Names -> Directory \cup {NoDir}]
    BY <2>2, WithDistType DEF TypeOK
  <2> HIDE DEF n
  <2>4. /\ dir' \in [Names -> Directory \cup {NoDir}] /\ found' \in Directory \cup {NoDir}
        /\ dir'["new"] = n
    BY <2>1, <2>2, <2>3 DEF Names
  <2> QED
    BY <1>1, <2>1, <2>4 DEF Build, TypeOK, Exists, Steps
<1>2. CASE Copied
  <2>1. dir["new"] \in Directory /\ dir["new"].v = version /\ dir["new"].inner = NoInner
    BY <1>2 DEF Copied, TypeOK, Exists, Names
  <2>2. dir' = [dir EXCEPT !["new"] = [dir["new"] EXCEPT !.files = "all", !.has = TRUE]]
    BY <1>2 DEF Copied, TypeOK, Names
  <2> DEFINE n == [dir["new"] EXCEPT !.files = "all", !.has = TRUE]
  <2>3. n \in Directory /\ n.files = "all" /\ n.has /\ n.v = version /\ n.inner = NoInner
    BY <2>1 DEF Directory
  <2> HIDE DEF n
  <2>4. dir' \in [Names -> Directory \cup {NoDir}] /\ dir'["new"] = n
    BY <2>2, <2>3 DEF TypeOK, Names, n
  <2> QED
    BY <1>2, <2>3, <2>4 DEF Copied, TypeOK, Exists, Whole, Steps
<1>3. CASE CopyFails
  BY <1>3 DEF CopyFails, TypeOK, Exists, Whole, Steps
<1>4. CASE StatDist
  BY <1>4 DEF StatDist, TypeOK, Exists, Whole, Steps
<1>5. CASE MoveAside
  <2>1. CASE Mv("dist", "old") /\ pc' = "place"
    <3>1. /\ dir' \in [Names -> Directory \cup {NoDir}]
          /\ dir'["dist"] = NoDir
          /\ dir'["new"] = dir["new"]
      BY <2>1, MovedType DEF Mv, TypeOK, Names
    <3> QED
      BY <1>5, <2>1, <3>1 DEF MoveAside, Mv, TypeOK, Exists, Whole, Steps
  <2>2. CASE MvFails("dist", "old") /\ pc' = "recover"
    BY <1>5, <2>2 DEF MoveAside, MvFails, Fault, TypeOK, Exists, Whole, Steps
  <2> QED
    BY <1>5, <2>1, <2>2 DEF MoveAside
<1>6. CASE Place
  <2>1. CASE Mv("new", "dist") /\ pc' = "remove" /\ placed' = version
    <3>1. dir' \in [Names -> Directory \cup {NoDir}]
      BY <2>1, MovedType DEF Mv, TypeOK, Names
    <3> QED
      BY <1>6, <2>1, <3>1 DEF Place, Mv, TypeOK, Exists, Whole, Steps
  <2>2. CASE MvFails("new", "dist") /\ pc' = "recover" /\ UNCHANGED placed
    BY <1>6, <2>2 DEF Place, MvFails, Fault, TypeOK, Exists, Whole, Steps
  <2> QED
    BY <1>6, <2>1, <2>2 DEF Place
<1>7. CASE Recover
  <2>1. dir' \in [Names -> Directory \cup {NoDir}]
    BY <1>7, MovedType DEF Recover, Mv, MvFails, TypeOK, Names
  <2>2. <<crashes', faults', races'>> \in Troubles
    BY <1>7 DEF Recover, Mv, MvFails, Fault, TypeOK
  <2> QED
    BY <1>7, <2>1, <2>2 DEF Recover, TypeOK, Exists, Whole, Steps
<1>8. CASE RemoveOld
  <2>1. dir' \in [Names -> Directory \cup {NoDir}]
    <3>1. CASE Exists("old")
      <4>1. PICK kept \in SUBSET Names : dir' = [dir EXCEPT !["old"] = Remains(dir["old"], kept)]
        BY <1>8, <3>1 DEF RemoveOld, TypeOK, Names
      <4>2. Remains(dir["old"], kept) \in Directory
        BY <3>1, RemainsType DEF TypeOK, Exists, Names
      <4> QED
        BY <4>1, <4>2 DEF TypeOK
    <3> QED
      BY <1>8, <3>1 DEF RemoveOld, TypeOK
  <2> QED
    BY <1>8, <2>1 DEF RemoveOld, TypeOK, Exists, Whole, Steps
<1>9. CASE OldRemoved
  BY <1>9 DEF OldRemoved, Fault, TypeOK, Exists, Whole, Steps, Names
<1>10. CASE SaveInfo
  BY <1>10 DEF SaveInfo, TypeOK, Exists, Whole, Steps
<1>11. CASE Crash
  BY <1>11 DEF Crash, TypeOK, Exists, Whole, Steps
<1>12. CASE UNCHANGED vars
  BY <1>12 DEF vars, TypeOK, Exists, Whole
<1>13. CASE Mkdirs
  <2>1. /\ dir' \in [Names -> Directory \cup {NoDir}]
        /\ dir'["new"] = dir["new"] /\ dir'["dist"] = Empty
    BY <1>13, WithDistType DEF Mkdirs, TypeOK, Names
  <2>2. <<crashes', faults', races'>> \in Troubles
    BY <1>13 DEF Mkdirs, TypeOK
  <2> QED
    BY <1>13, <2>1, <2>2 DEF Mkdirs, TypeOK, Exists, Whole
<1> QED
  BY <1>13, <1>1, <1>2, <1>3, <1>4, <1>5, <1>6, <1>7, <1>8, <1>9, <1>10, <1>11, <1>12 DEF Next, Swap

\* The three directories are well-formed, what is about to be placed is complete, and
\* nothing but an empty dist is in its way.
THEOREM TypeCorrect == Spec => []TypeOK
<1>1. Init => TypeOK
  BY TroublesAssumption, NoDirIsNone DEF Init, TypeOK, Exists, Whole, Steps
<1> QED
  BY <1>1, TypeStep, PTL DEF Spec
-----------------------------------------------------------------------------
\* Nothing has gone wrong so far.
Calm == crashes = 0 /\ faults = 0 /\ races = 0

\* Directory d is what the last successful swap has placed, if there has been one.
Served(d) == placed # None => d # NoDir /\ d.files = "all" /\ d.v = placed

\* What was served when the build began is dist-old now.
SetAside ==
    /\ found \in {NoDir, dir["old"]}
    /\ Exists("old") => dir["old"].files # "some"
    /\ Served(dir["old"])

\* A swap that failed has either left dist alone or, by the one command that failed of
\* itself, moved it aside; it finds no dist-old then, since nothing went wrong before.
IInv ==
    /\ DistWhole
    /\ NeverLost
    /\ LastIsServed
    /\ pc \in {"copy", "stat", "aside"} => found \in {NoDir, dir["dist"]}
    /\ pc \in {"remove", "removing"} => Exists("dist") /\ dir["dist"].has
    /\ pc = "recover" => ~Calm
    /\ pc = "recover" => \/ /\ Exists("dist") /\ found \in {NoDir, dir["dist"]}
                            /\ crashes = 0 /\ races = 0 => Served(dir["dist"])
                         \/ ~Exists("dist") /\ faults = 1 /\ SetAside
    /\ races = 0 /\ pc = "place" => ~Exists("dist")
    /\ Calm /\ pc \in {"idle", "copy", "stat", "aside", "save"} => ~Exists("old")
    /\ Calm /\ pc = "place" => SetAside

\* The command that fails of itself is the first thing that goes wrong.
LEMMA FaultIsFirst == MildTroubles /\ TypeOK /\ Fault => Calm /\ faults' = 1
<1> SUFFICES ASSUME MildTroubles, TypeOK, Fault
             PROVE  Calm /\ faults' = 1
  OBVIOUS
<1>1. /\ <<crashes, faults + 1, races>> \in Troubles
      /\ crashes \in Nat /\ faults \in Nat /\ races \in Nat
      /\ faults' = faults + 1
  BY TroublesAssumption DEF Fault, TypeOK
<1>2. faults + 1 = 0 \/ <<crashes, faults + 1, races>> = <<0, 1, 0>>
  BY <1>1 DEF MildTroubles
<1> QED
  BY <1>1, <1>2 DEF Calm

\* Once a command has failed nothing else goes wrong.
LEMMA FaultIsAlone == MildTroubles /\ TypeOK /\ faults = 1 => crashes = 0 /\ races = 0 /\ ~Fault
BY FaultIsFirst, TroublesAssumption DEF MildTroubles, TypeOK, Calm

\* After a crash it is not calm, nor after a race.
LEMMA TroubleIsTrouble ==
    /\ TypeOK /\ Crash => ~Calm' /\ crashes' # 0
    /\ TypeOK /\ races' = races + 1 => races' # 0
BY TroublesAssumption DEF TypeOK, Crash, Calm

\* What a recovery makes of what the failed swap left.
LEMMA Recovered ==
    ASSUME MildTroubles, TypeOK, IInv, Recover
    PROVE  \/ /\ Exists("dist") /\ found \in {NoDir, dir["dist"]}
              /\ dir'["dist"] \in Directory
              /\ dir'["dist"].v = dir["dist"].v /\ dir'["dist"].files = dir["dist"].files
              /\ \/ UNCHANGED dir
                 \/ Exists("old") /\ dir'["dist"].has = (dir["dist"].has \/ dir["old"].has)
           \/ ~Exists("dist") /\ SetAside /\ Exists("old") /\ dir'["dist"] = dir["old"]
           \/ ~Exists("dist") /\ SetAside /\ ~Exists("old") /\ UNCHANGED dir
<1> USE NoDirIsNone
<1>1. pc = "recover"
  BY DEF Recover
<1>2. CASE Exists("dist") /\ found \in {NoDir, dir["dist"]}
  <2>1. dir["dist"] \in Directory
    BY <1>2 DEF TypeOK, Exists, Names
  <2>2. CASE Mv("old", "dist")
    BY <1>2, <2>1, <2>2, MovedType DEF Mv, TypeOK, Names, Blocked
  <2>3. CASE UNCHANGED dir
    BY <1>2, <2>1, <2>3
  <2> QED
    BY <2>2, <2>3 DEF Recover, MvFails
<1>3. CASE ~Exists("dist") /\ faults = 1 /\ SetAside
  <2>1. ~Fault
    BY <1>3, FaultIsAlone
  <2>2. CASE Exists("old")
    <3>1. Mv("old", "dist")
      BY <1>3, <2>1, <2>2 DEF Recover, MvFails, Blocked
    <3>2. dir'["dist"] = dir["old"]
      BY <1>3, <3>1, MovedType DEF Mv, TypeOK, Names
    <3> QED
      BY <1>3, <2>2, <3>2
  <2>3. CASE ~Exists("old")
    BY <1>3, <2>3 DEF Recover
  <2> QED
    BY <2>2, <2>3
<1> QED
  BY <1>1, <1>2, <1>3 DEF IInv

\* Every step keeps the invariant.
LEMMA IInvStep == MildTroubles /\ TypeOK /\ IInv /\ [Next]_vars => IInv'
<1> SUFFICES ASSUME MildTroubles, TypeOK, IInv, [Next]_vars
             PROVE  IInv'
  OBVIOUS
<1> USE NoDirIsNone
<1>1. ASSUME NEW v \in Versions, Build(v)
      PROVE  IInv'
  <2>1. /\ dir'["old"] = dir["old"]
        /\ dir'["dist"] = dir["dist"] \/ (~Exists("dist") /\ dir'["dist"] = Empty)
        /\ found' \in {NoDir, dir'["dist"]}
    BY <1>1, WithDistType DEF Build, TypeOK, Names
  <2> QED
    BY <1>1, <2>1 DEF Build, IInv, Calm, DistWhole, NeverLost, LastIsServed, Empty, Exists, Whole
<1>2. CASE Copied
  <2>1. dir'["old"] = dir["old"] /\ dir'["dist"] = dir["dist"]
    BY <1>2 DEF Copied, TypeOK, Names
  <2> QED
    BY <1>2, <2>1 DEF Copied, IInv, Calm, DistWhole, NeverLost, LastIsServed, Exists, Whole
<1>3. CASE CopyFails
  BY <1>3 DEF CopyFails, IInv, Calm, DistWhole, NeverLost, LastIsServed, Exists, Whole
<1>4. CASE StatDist
  <2>1. CASE Exists("dist")
    BY <1>4, <2>1 DEF StatDist, IInv, Calm, DistWhole, NeverLost, LastIsServed, Exists, Whole
  <2>2. CASE ~Exists("dist")
    <3>1. Calm => placed = None /\ ~Exists("old")
      BY <1>4, <2>2 DEF StatDist, IInv, LastIsServed, Calm
    <3>2. found = NoDir
      BY <1>4, <2>2 DEF StatDist, IInv, Exists
    <3> QED
      BY <1>4, <2>2, <3>1, <3>2
      DEF StatDist, IInv, Calm, SetAside, Served, DistWhole, NeverLost, LastIsServed, Exists, Whole
  <2> QED
    BY <2>1, <2>2
<1>5. CASE MoveAside
  <2>1. /\ Exists("dist") /\ dir["dist"].files # "some" /\ found \in {NoDir, dir["dist"]}
        /\ crashes = 0 /\ races = 0 => Served(dir["dist"])
    BY <1>5 DEF MoveAside, TypeOK, IInv, DistWhole, LastIsServed, Served, Exists, Whole
  <2>2. CASE Mv("dist", "old") /\ pc' = "place"
    <3>1. /\ dir'["dist"] = NoDir
          /\ ~Exists("old") => dir'["old"] = dir["dist"]
          /\ Exists("old") => dir'["old"] \in Directory /\ dir'["old"].has = (dir["old"].has \/ dir["dist"].has)
          /\ UNCHANGED <<found, crashes, faults, races, placed>>
      BY <1>5, <2>2, MovedType DEF MoveAside, Mv, TypeOK, Names
    <3>2. NeverLost'
      BY <3>1 DEF IInv, NeverLost, Exists
    <3>3. DistWhole' /\ LastIsServed'
      BY <2>2, <3>1 DEF DistWhole, LastIsServed, Exists
    <3>4. Calm => SetAside'
      <4>1. Calm => ~Exists("old")
        BY <1>5 DEF MoveAside, IInv
      <4> QED
        BY <2>1, <3>1, <4>1 DEF SetAside, Served, Calm, Exists
    <3> QED
      BY <2>2, <3>1, <3>2, <3>3, <3>4 DEF IInv, Calm, Exists
  <2>3. CASE MvFails("dist", "old") /\ pc' = "recover"
    <3>1. Calm => ~Blocked("dist", "old")
      BY <1>5, <2>1 DEF MoveAside, IInv, Blocked
    <3>2. ~Calm'
      BY <1>5, <2>3, <3>1, FaultIsFirst DEF MoveAside, MvFails, Calm
    <3> QED
      BY <1>5, <2>1, <2>3, <3>2
      DEF MoveAside, MvFails, IInv, DistWhole, NeverLost, LastIsServed, Served, Exists, Whole
  <2> QED
    BY <1>5, <2>2, <2>3 DEF MoveAside
<1>6. CASE Place
  <2>1. /\ Exists("new") /\ dir["new"].files = "all" /\ dir["new"].has /\ dir["new"].v = version
        /\ dir["dist"] \in {NoDir, Empty} /\ (races = 0 => ~Exists("dist"))
    BY <1>6 DEF Place, TypeOK, IInv, Whole
  <2>2. CASE Mv("new", "dist") /\ pc' = "remove" /\ placed' = version
    <3>1. CASE Exists("dist")
      <4>1. /\ races # 0 /\ dir["dist"] = Empty
            /\ dir'["dist"] \in Directory /\ dir'["dist"].files = "none" /\ dir'["dist"].has
        <5>1. races # 0 /\ dir["dist"] = Empty
          BY <2>1, <3>1 DEF Exists
        <5>2. /\ dir'["dist"] \in Directory
              /\ dir'["dist"].files = dir["dist"].files
              /\ dir'["dist"].has = (dir["dist"].has \/ dir["new"].has)
          BY <2>2, <3>1, MovedType DEF Mv, TypeOK, Names
        <5>3. dir["dist"].files = "none" /\ ~dir["dist"].has
          BY <5>1 DEF Empty
        <5> QED
          BY <2>1, <5>1, <5>2, <5>3
      <4> QED
        BY <1>6, <2>2, <4>1 DEF Place, IInv, Calm, DistWhole, NeverLost, LastIsServed, Exists, Whole
    <3>2. CASE ~Exists("dist")
      <4>1. dir'["dist"] = dir["new"]
        BY <2>2, <3>2, MovedType DEF Mv, TypeOK, Names
      <4> QED
        BY <1>6, <2>1, <2>2, <4>1 DEF Place, IInv, Calm, DistWhole, NeverLost, LastIsServed, Exists, Whole
    <3> QED
      BY <3>1, <3>2
  <2>3. CASE MvFails("new", "dist") /\ pc' = "recover" /\ UNCHANGED placed
    <3>1. ~Blocked("new", "dist")
      BY <2>1 DEF Blocked, Exists, Empty, NoInner, Names
    <3>2. Calm /\ faults' = 1 /\ UNCHANGED <<dir, found, crashes, races>>
      BY <1>6, <2>3, <3>1, FaultIsFirst DEF MvFails, Place
    <3>3. SetAside /\ ~Exists("dist")
      BY <1>6, <2>1, <3>2 DEF Place, IInv, Calm
    <3> QED
      BY <2>1, <2>3, <3>2, <3>3
      DEF IInv, Calm, SetAside, Served, DistWhole, NeverLost, LastIsServed, Exists, Whole
  <2> QED
    BY <1>6, <2>2, <2>3 DEF Place
<1>7. CASE Recover
  <2>1. pc = "recover" /\ pc' = "idle" /\ UNCHANGED <<placed, crashes, races>>
    BY <1>7 DEF Recover
  <2>2. ASSUME Exists("dist")
        PROVE  DistWhole' /\ NeverLost' /\ LastIsServed'
    <3>1. /\ dir'["dist"] \in Directory
          /\ dir'["dist"].v = dir["dist"].v /\ dir'["dist"].files = dir["dist"].files
          /\ UNCHANGED dir \/ (Exists("old") /\ dir'["dist"].has = (dir["dist"].has \/ dir["old"].has))
      BY <1>7, <2>2, Recovered
    <3>2. crashes = 0 /\ races = 0 => Served(dir["dist"])
      BY <2>1, <2>2 DEF IInv
    <3>3. DistWhole' /\ LastIsServed'
      BY <2>1, <2>2, <3>1, <3>2 DEF IInv, DistWhole, LastIsServed, Served, Exists, Whole
    <3>4. NeverLost'
      BY <2>1, <2>2, <3>1 DEF IInv, NeverLost, Exists
    <3> QED
      BY <3>3, <3>4
  <2>3. ASSUME ~Exists("dist") /\ SetAside /\ Exists("old") /\ dir'["dist"] = dir["old"]
        PROVE  DistWhole' /\ NeverLost' /\ LastIsServed'
    BY <2>1, <2>3 DEF IInv, SetAside, Served, DistWhole, NeverLost, LastIsServed, Exists, Whole
  <2>4. ASSUME ~Exists("dist") /\ SetAside /\ ~Exists("old") /\ UNCHANGED dir
        PROVE  DistWhole' /\ NeverLost' /\ LastIsServed'
    BY <2>1, <2>4 DEF IInv, SetAside, Served, DistWhole, NeverLost, LastIsServed, Exists, Whole
  <2>5. DistWhole' /\ NeverLost' /\ LastIsServed'
    <3>1. Exists("dist") \/ (~Exists("dist") /\ SetAside /\ Exists("old") /\ dir'["dist"] = dir["old"])
            \/ (~Exists("dist") /\ SetAside /\ ~Exists("old") /\ UNCHANGED dir)
      BY <1>7, Recovered
    <3> QED
      BY <3>1, <2>2, <2>3, <2>4
  <2>6. ~Calm'
    <3>1. ~Calm /\ (UNCHANGED faults \/ Fault)
      BY <1>7 DEF Recover, Mv, MvFails, IInv
    <3> QED
      BY <2>1, <3>1, FaultIsFirst DEF Calm
  <2> QED
    BY <2>1, <2>5, <2>6 DEF IInv
<1>8. CASE RemoveOld
  <2>1. dir'["dist"] = dir["dist"]
    BY <1>8 DEF RemoveOld, TypeOK, Names
  <2> QED
    BY <1>8, <2>1 DEF RemoveOld, IInv, DistWhole, NeverLost, LastIsServed, Exists, Whole
<1>9. CASE OldRemoved
  <2>1. dir'["dist"] = dir["dist"] /\ (dir'["old"] = NoDir \/ Fault)
    BY <1>9 DEF OldRemoved, TypeOK, Names
  <2>2. Fault => ~Calm'
    BY FaultIsFirst DEF Calm
  <2> QED
    BY <1>9, <2>1, <2>2 DEF OldRemoved, IInv, DistWhole, NeverLost, LastIsServed, Exists, Whole
<1>10. CASE SaveInfo
  BY <1>10 DEF SaveInfo, IInv, Calm, DistWhole, NeverLost, LastIsServed, Exists, Whole
<1>11. CASE Crash
  BY <1>11, TroubleIsTrouble DEF Crash, IInv, DistWhole, NeverLost, LastIsServed, Exists, Whole
<1>12. CASE UNCHANGED vars
  BY <1>12 DEF vars, IInv, Calm, SetAside, Served, DistWhole, NeverLost, LastIsServed, Exists, Whole
<1>13. CASE Mkdirs
  <2>1. /\ ~Exists("dist") /\ dir'["dist"] = Empty /\ dir'["old"] = dir["old"]
        /\ UNCHANGED <<pc, version, found, placed, crashes, faults>>
    BY <1>13, WithDistType DEF Mkdirs, TypeOK, Names
  <2>2. Exists("dist")' /\ dir'["dist"].files = "none"
    BY <2>1 DEF Exists, Empty
  <2>3. CASE pc \in {"place", "recover"}
    <3>1. /\ races' = races + 1 /\ <<crashes, faults, races'>> \in Troubles
      BY <1>13, <2>3 DEF Mkdirs
    <3>2. races' # 0 /\ faults # 1
      BY <3>1, TroubleIsTrouble, TroublesAssumption DEF MildTroubles, TypeOK
    <3>3. pc = "place"
      BY <2>1, <2>3, <3>2 DEF IInv
    <3> QED
      BY <2>1, <2>2, <3>2, <3>3 DEF IInv, Calm, DistWhole, NeverLost, LastIsServed, Exists
  <2>4. CASE pc \notin {"place", "recover"}
    <3>1. UNCHANGED races
      BY <1>13, <2>4 DEF Mkdirs
    <3>2. placed # None => ~(crashes = 0 /\ races = 0)
      BY <2>1, <2>4 DEF IInv, LastIsServed
    <3>3. pc \in {"copy", "stat", "aside"} => found = NoDir
      BY <2>1 DEF IInv, Exists
    <3> QED
      BY <2>1, <2>2, <2>4, <3>1, <3>2, <3>3 DEF IInv, Calm, DistWhole, NeverLost, LastIsServed, Exists
  <2> QED
    BY <2>3, <2>4
<1> QED
  BY <1>13, <1>1, <1>2, <1>3, <1>4, <1>5, <1>6, <1>7, <1>8, <1>9, <1>10, <1>11, <1>12 DEF Next, Swap

\* The invariant holds throughout.
LEMMA Invariant == MildTroubles => (Spec => []IInv)
<1>1. Init => IInv
  <2> SUFFICES ASSUME Init
               PROVE  IInv
    OBVIOUS
  <2>1. dir["dist"] \in {Empty, NoDir} /\ dir["old"] = NoDir
    BY DEF Init, Names
  <2> QED
    BY <2>1 DEF Init, IInv, DistWhole, NeverLost, LastIsServed, Empty, Exists
<1>2. MildTroubles /\ Init /\ [][Next]_vars => []IInv
  <2>1. SUFFICES ASSUME MildTroubles
                 PROVE  Init /\ [][Next]_vars => []IInv
    OBVIOUS
  <2>2. TypeOK /\ IInv /\ [Next]_vars => IInv'
    BY <2>1, IInvStep
  <2> QED
    BY <1>1, <2>2, TypeCorrect, PTL DEF Spec
<1> QED
  BY <1>2 DEF Spec

\* When troubles are mild, no part of a build is ever served.
THEOREM ServedIsWhole == MildTroubles => (Spec => []DistWhole)
<1>1. IInv => DistWhole
  BY DEF IInv
<1> QED
  BY <1>1, Invariant, PTL

\* When troubles are mild, a complete build remains once one has been placed.
THEOREM BuildsAreNotLost == MildTroubles => (Spec => []NeverLost)
<1>1. IInv => NeverLost
  BY DEF IInv
<1> QED
  BY <1>1, Invariant, PTL

\* When troubles are mild, the version placed last is served but between the two moves of
\* a swap, unless the host has gone down or a dist was made while a swap had moved it away.
THEOREM LastPlacedIsServed == MildTroubles => (Spec => []LastIsServed)
<1>1. IInv => LastIsServed
  BY DEF IInv
<1> QED
  BY <1>1, Invariant, PTL

\* When troubles are mild, a failed swap leaves what was served before it.
THEOREM SwapsAreUndone == MildTroubles => (Spec => RecoveryRestores)
<1> SUFFICES ASSUME MildTroubles
             PROVE  Spec => RecoveryRestores
  OBVIOUS
<1>1. TypeOK /\ IInv /\ [Next]_vars =>
        [Recover /\ found # NoDir => /\ dir["dist"]' # NoDir
                                     /\ dir["dist"]'.v = found.v
                                     /\ dir["dist"]'.files = found.files]_vars
  <2> SUFFICES ASSUME TypeOK, IInv, Recover, found # NoDir
               PROVE  /\ dir["dist"]' # NoDir
                      /\ dir["dist"]'.v = found.v
                      /\ dir["dist"]'.files = found.files
    OBVIOUS
  <2> QED
    BY Recovered, NoDirIsNone DEF Exists, SetAside
<1> QED
  BY <1>1, TypeCorrect, Invariant, PTL DEF Spec, RecoveryRestores
=============================================================================
