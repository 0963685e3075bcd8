------------------------------ MODULE Frontend ------------------------------
(***************************************************************************)
(* The directories of a frontend build: the built files are copied to      *)
(* dist-new, dist is moved to dist-old, dist-new to dist, and dist-old is  *)
(* removed.  Each is a command of the shell and may be the last thing the  *)
(* process does; "mv x y" moves x into y when y is a directory already.    *)
(* mkdirAll makes a dist wherever it finds none: before a build, and in    *)
(* every request that deploys something else, which no lock keeps away.    *)
(***************************************************************************)
EXTENDS Naturals, FiniteSets

CONSTANTS
    Versions,  \* the commits that are built
    None,      \* no version
    Troubles   \* <<c, f, r>>: c crashes, f commands that fail of themselves and r races
               \* with another request's mkdirAll may come about

ASSUME VersionsAssumption == None \notin Versions
ASSUME TroublesAssumption == Troubles \subseteq Nat \X Nat \X Nat /\ <<0, 0, 0>> \in Troubles

VARIABLES
    dir,      \* dir[n]: the directory of name n, or NoDir
    pc,       \* where the goroutine of buildFrontend is
    version,  \* the version it builds
    found,    \* what it found as dist
    placed,   \* the version that was placed last
    crashes,
    faults,
    races     \* how often a dist has been made while a swap had moved it away

vars == <<dir, pc, version, found, placed, crashes, faults, races>>

Names == {"dist", "new", "old"}

\* A directory: the version of its files, how many of them are there, which directories
\* a move has put inside and whether a complete build is anywhere in the tree.
Directory == [v : Versions \cup {None}, files : {"none", "some", "all"},
              inner : [Names -> {"none", "empty", "full"}], has : BOOLEAN]
NoInner == [n \in Names |-> "none"]
Empty == [v |-> None, files |-> "none", inner |-> NoInner, has |-> FALSE]
NoDir == [files |-> "no directory"]

Exists(n) == dir[n] # NoDir
Whole(n) == dir[n].files = "all"

\* mkdirAll as far as it concerns dist; nobody asks whether it succeeds.
WithDist == [dir EXCEPT !["dist"] = IF Exists("dist") THEN @ ELSE Empty]

Steps == {"idle", "copy", "stat", "aside", "place", "recover", "remove", "removing", "save"}

TypeOK ==
    /\ dir \in [Names -> Directory \cup {NoDir}]
    /\ pc \in Steps
    /\ version \in Versions
    /\ found \in Directory \cup {NoDir}
    /\ placed \in Versions \cup {None}
    /\ <<crashes, faults, races>> \in Troubles
    /\ pc \in {"copy", "stat", "aside", "place"} =>
          Exists("new") /\ dir["new"].v = version /\ dir["new"].inner = NoInner
    /\ pc \in {"stat", "aside", "place"} => Whole("new") /\ dir["new"].has
    /\ pc = "aside" => Exists("dist")
    /\ pc = "place" => dir["dist"] \in {NoDir, Empty}

\* New has called mkdirAll.
Init ==
    /\ \E d \in {Empty, NoDir} : dir = [n \in Names |-> IF n = "dist" THEN d ELSE NoDir]
    /\ pc = "idle"
    /\ version \in Versions
    /\ found = NoDir
    /\ placed = None
    /\ crashes = 0
    /\ faults = 0
    /\ races = 0
-----------------------------------------------------------------------------
(***************************************************************************)
(* The shell.                                                              *)
(***************************************************************************)

Fault == faults' = faults + 1 /\ <<crashes, faults + 1, races>> \in Troubles

\* There is nothing to move, or a directory of that name that is not empty is inside.
Blocked(x, y) == ~Exists(x) \/ (Exists(y) /\ dir[y].inner[x] = "full")

\* Directory y with directory x inside.
With(y, x) ==
    [dir[y] EXCEPT !.inner[x] = IF dir[x] = Empty THEN "empty" ELSE "full",
                   !.has = @ \/ dir[x].has]

Moved(x, y) == [dir EXCEPT ![x] = NoDir, ![y] = IF Exists(y) THEN With(y, x) ELSE dir[x]]

Mv(x, y) == ~Blocked(x, y) /\ dir' = Moved(x, y) /\ UNCHANGED faults

\* A move that fails changes nothing.
MvFails(x, y) ==
    /\ UNCHANGED dir
    /\ \/ Blocked(x, y) /\ UNCHANGED faults
       \/ Fault
-----------------------------------------------------------------------------
(***************************************************************************)
(* buildFrontend; frontendMu is held while pc # "idle".  Sync, install and *)
(* build work in the checkout; when one fails, mkdirAll is all there was.  *)
(***************************************************************************)

\* mkdirAll of another request: New, deploy, deployFromURL, or a build that fails early.
Mkdirs ==
    /\ ~Exists("dist")
    /\ dir' = WithDist
    /\ IF pc \in {"place", "recover"}
       THEN races' = races + 1 /\ <<crashes, faults, races + 1>> \in Troubles
       ELSE UNCHANGED races
    /\ UNCHANGED <<pc, version, found, placed, crashes, faults>>

\* mkdirAll; sync, install and build have succeeded; "rm -rf dist-new && cp -r" begins.
Build(v) ==
    /\ pc = "idle"
    /\ \E d \in {dir, WithDist} :
          /\ dir' = [d EXCEPT !["new"] =
                       [v |-> v, files |-> "some", inner |-> NoInner, has |-> FALSE]]
          /\ found' = d["dist"]
    /\ pc' = "copy"
    /\ version' = v
    /\ UNCHANGED <<placed, crashes, faults, races>>

Copied ==
    /\ pc = "copy"
    /\ dir' = [dir EXCEPT !["new"].files = "all", !["new"].has = TRUE]
    /\ pc' = "stat"
    /\ UNCHANGED <<version, found, placed, crashes, faults, races>>

\* Mutant: the return after a failed copy is missing.
CopyFailsOn ==
    /\ pc = "copy"
    /\ pc' = "stat"
    /\ UNCHANGED <<dir, version, found, placed, crashes, faults, races>>

CopyFails ==
    /\ pc = "copy"
    /\ pc' = "idle"
    /\ UNCHANGED <<dir, version, found, placed, crashes, faults, races>>

\* Mutant: every build is taken for the first.
StatNothing ==
    /\ pc = "stat"
    /\ pc' = "place"
    /\ UNCHANGED <<dir, version, found, placed, crashes, faults, races>>

\* "First deployment" when there is no dist, mkdirAll having failed.
StatDist ==
    /\ pc = "stat"
    /\ pc' = IF Exists("dist") THEN "aside" ELSE "place"
    /\ UNCHANGED <<dir, version, found, placed, crashes, faults, races>>

\* Mutant: dist is removed to make room.
RemoveDist ==
    /\ pc = "aside"
    /\ dir' = [dir EXCEPT !["dist"] = NoDir]
    /\ pc' = "place"
    /\ UNCHANGED <<version, found, placed, crashes, faults, races>>

\* mv dist dist-old
MoveAside ==
    /\ pc = "aside"
    /\ \/ Mv("dist", "old") /\ pc' = "place"
       \/ MvFails("dist", "old") /\ pc' = "recover"
    /\ UNCHANGED <<version, found, placed, crashes, races>>

\* && mv dist-new dist
Place ==
    /\ pc = "place"
    /\ \/ Mv("new", "dist") /\ pc' = "remove" /\ placed' = version
       \/ MvFails("new", "dist") /\ pc' = "recover" /\ UNCHANGED placed
    /\ UNCHANGED <<version, found, crashes, races>>

\* Mutant: ERR, and nothing else.
RecoverNothing ==
    /\ pc = "recover"
    /\ pc' = "idle"
    /\ UNCHANGED <<dir, version, found, placed, crashes, faults, races>>

\* "Try to recover if dist-old exists": whether this move succeeds is not asked.
Recover ==
    /\ pc = "recover"
    /\ IF Exists("old") THEN Mv("old", "dist") \/ MvFails("old", "dist") ELSE UNCHANGED <<dir, faults>>
    /\ pc' = "idle"
    /\ UNCHANGED <<version, found, placed, crashes, races>>

\* What rm -rf has left of directory d so far.
Remains(d, kept) ==
    [d EXCEPT !.files = IF @ = "all" THEN "some" ELSE @,
              !.inner = [n \in Names |-> IF n \in kept THEN @[n] ELSE "none"],
              !.has = FALSE]

\* rm -rf dist-old: file by file, and nobody asks whether it succeeds.
RemoveOld ==
    /\ pc = "remove"
    /\ IF Exists("old") THEN \E kept \in SUBSET Names : dir' = [dir EXCEPT !["old"] = Remains(@, kept)]
                        ELSE UNCHANGED dir
    /\ pc' = "removing"
    /\ UNCHANGED <<version, found, placed, crashes, faults, races>>

OldRemoved ==
    /\ pc = "removing"
    /\ \/ dir' = [dir EXCEPT !["old"] = NoDir] /\ UNCHANGED faults
       \/ Exists("old") /\ UNCHANGED dir /\ Fault
    /\ pc' = "save"
    /\ UNCHANGED <<version, found, placed, crashes, races>>

\* frontend-build.json is written, or not and the build ends in ERR.
SaveInfo ==
    /\ pc = "save"
    /\ pc' = "idle"
    /\ UNCHANGED <<dir, version, found, placed, crashes, faults, races>>

\* The host goes down in the middle; the next build is another process's.
Crash ==
    /\ pc # "idle"
    /\ <<crashes + 1, faults, races>> \in Troubles
    /\ crashes' = crashes + 1
    /\ pc' = "idle"
    /\ UNCHANGED <<dir, version, found, placed, faults, races>>
-----------------------------------------------------------------------------
Swap == StatDist \/ MoveAside \/ Place \/ Recover

Next ==
    \/ \E v \in Versions : Build(v)
    \/ Mkdirs
    \/ Copied \/ CopyFails
    \/ Swap
    \/ RemoveOld \/ OldRemoved \/ SaveInfo
    \/ Crash

Spec == Init /\ [][Next]_vars
-----------------------------------------------------------------------------
\* Part of a build is never served, whatever was copied, moved back or left behind by a
\* process that died; a dist that mkdirAll has made is empty.
DistWhole == Exists("dist") => dir["dist"].files # "some"

\* "If step 2 fails, step 3 won't execute (transactional)": a swap that fails leaves
\* what was served before it, if there was a dist; what moves put inside does not matter.
RecoveryRestores ==
    [][Recover /\ found # NoDir => /\ dir["dist"]' # NoDir
                                   /\ dir["dist"]'.v = found.v
                                   /\ dir["dist"]'.files = found.files]_vars

\* Once a build has been placed a complete one is never lost, at worst it has to be
\* fetched by hand from dist-old or from the directory that another one was moved into.
NeverLost == placed # None => \E n \in {"dist", "old"} : Exists(n) /\ dir[n].has

\* "SUCCESS (zero-downtime deployment)": no version but the one placed last is served,
\* and it is served all the time except between the two moves of a swap, as long as the
\* host has not gone down in one and no other request's mkdirAll has come in between.
LastIsServed ==
    placed # None =>
        /\ Exists("dist") => dir["dist"].files = "none" \/ dir["dist"].v = placed
        /\ crashes = 0 /\ races = 0 /\ pc \notin {"place", "recover"} => Exists("dist") /\ Whole("dist")
=============================================================================
