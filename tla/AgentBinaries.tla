---------------------------- MODULE AgentBinaries ----------------------------
(***************************************************************************)
(* The binaries of one service on one host, as its agents handle them.     *)
(* Every running instance carries an agent, so while an old and a new      *)
(* instance coexist two agents serve deploy and rollback commands in one   *)
(* directory; deployMu protects each from itself only.  Names and contents *)
(* are apart: a name refers to a file (an inode), a download writes to the *)
(* file it created whatever happens to the name meanwhile.                 *)
(***************************************************************************)
EXTENDS Naturals, FiniteSets, Sequences, SequencesExt

CONSTANTS
    Agents,        \* the agent processes of the service on this host
    Versions,      \* the values of DeployData.FileName
    Orders,        \* <<a, v>>: the control plane may tell agent a to deploy v
    Keep,          \* cleanupOldBinaries(5)
    MaxDownloads,  \* bound on the files ever created
    MaxCrashes,    \* bound on the agents that die, or are killed, in the middle
    MaxFaults      \* bound on the files that cannot be renamed though they are there

ASSUME AgentBinariesAssumption ==
    /\ Orders \subseteq Agents \X Versions
    /\ Keep \in Nat \ {0} /\ MaxDownloads \in Nat /\ MaxCrashes \in Nat /\ MaxFaults \in Nat

VARIABLES
    dir,      \* dir[n]: the file that the name n refers to, or Absent
    written,  \* the files ever created, oldest modification time first
    whole,    \* the files that hold a complete binary
    pc,       \* pc[a]: where agent a is in handleDeploy or handleRollback
    path,     \* path[a]: the name it works on
    fd,       \* fd[a]: the file it holds open for writing, or Absent
    crashes,
    faults,
    clashed   \* two agents have been deploying the same name at once

vars == <<dir, written, whole, pc, path, fd, crashes, faults, clashed>>

Absent == 0
Files == 1 .. MaxDownloads
Endings == {"", ".old", ".downloading"}
Names == Versions \X Endings
Final(v) == <<v, "">>
Old(v) == <<v, ".old">>
Tmp(v) == <<v, ".downloading">>
NoName == <<>>

\* From where on a name is prepared, to where the file has it.
Preparing == {"stat", "rename", "get", "copy", "place"}
Steps == Preparing \cup {"idle", "start", "clean"}

TypeOK ==
    /\ dir \in [Names -> Files \cup {Absent}]
    /\ \A m, n \in Names : dir[m] = dir[n] /\ dir[m] # Absent => m = n
    /\ written \in Seq(Files) /\ IsInjective(written)
    /\ \A n \in Names : dir[n] = Absent \/ Contains(written, dir[n])
    /\ whole \subseteq Files
    /\ pc \in [Agents -> Steps]
    /\ path \in [Agents -> Names \cup {NoName}]
    /\ fd \in [Agents -> Files \cup {Absent}]
    /\ \A a \in Agents : pc[a] # "copy" => fd[a] = Absent
    /\ crashes \in Nat /\ faults \in Nat
    /\ clashed \in BOOLEAN

Init ==
    /\ dir = [n \in Names |-> Absent]
    /\ written = <<>>
    /\ whole = {}
    /\ pc = [a \in Agents |-> "idle"]
    /\ path = [a \in Agents |-> NoName]
    /\ fd = [a \in Agents |-> Absent]
    /\ crashes = 0
    /\ faults = 0
    /\ clashed = FALSE
-----------------------------------------------------------------------------
(***************************************************************************)
(* File system.                                                            *)
(***************************************************************************)

Exists(n) == dir[n] # Absent
Unlinked(n) == [dir EXCEPT ![n] = Absent]
Renamed(m, n) == [dir EXCEPT ![m] = Absent, ![n] = dir[m]]

\* The directory by modification time, the newest file first: the prefix test lets
\* ".old" and ".downloading" names through.
ModTime(f) == CHOOSE i \in 1 .. Len(written) : written[i] = f

\* A file that is written to becomes the newest.
Touched(f) ==
    [i \in 1 .. Len(written) |->
        IF i < ModTime(f) THEN written[i] ELSE IF i < Len(written) THEN written[i + 1] ELSE f]

Newer(n) == {m \in Names : Exists(m) /\ ModTime(dir[m]) > ModTime(dir[n])}

Return(a) ==
    /\ pc' = [pc EXCEPT ![a] = "idle"]
    /\ path' = [path EXCEPT ![a] = NoName]
-----------------------------------------------------------------------------
(***************************************************************************)
(* handleDeploy; deployMu is held exactly while pc[a] # "idle".            *)
(***************************************************************************)

Deploy(a, v) ==
    /\ pc[a] = "idle"
    /\ <<a, v>> \in Orders
    /\ pc' = [pc EXCEPT ![a] = "stat"]
    /\ path' = [path EXCEPT ![a] = Final(v)]
    /\ clashed' = (clashed \/ \E b \in Agents : pc[b] \in Preparing /\ path[b] = Final(v))
    /\ UNCHANGED <<dir, written, whole, fd, crashes, faults>>

\* A file of that name is to be set aside: its ".old" makes room first, or does not.
StatTarget(a) ==
    /\ pc[a] = "stat"
    /\ IF Exists(path[a])
       THEN dir' \in {dir, Unlinked(Old(path[a][1]))} /\ pc' = [pc EXCEPT ![a] = "rename"]
       ELSE pc' = [pc EXCEPT ![a] = "get"] /\ UNCHANGED dir
    /\ UNCHANGED <<written, whole, path, fd, crashes, faults, clashed>>

\* Mutant: the file in the way is removed instead of renamed.
RemoveTarget(a) ==
    /\ pc[a] = "rename"
    /\ dir' = Unlinked(path[a])
    /\ pc' = [pc EXCEPT ![a] = "get"]
    /\ UNCHANGED <<written, whole, path, fd, crashes, faults, clashed>>

\* Should another agent have renamed it meanwhile, this fails and so does the Remove.
SetAside(a) ==
    /\ pc[a] = "rename"
    /\ dir' = IF Exists(path[a]) THEN Renamed(path[a], Old(path[a][1])) ELSE dir
    /\ pc' = [pc EXCEPT ![a] = "get"]
    /\ UNCHANGED <<written, whole, path, fd, crashes, faults, clashed>>

\* A file that is there cannot be renamed, on Windows for one if ".old" is executing: it
\* is removed instead, if that can be done.
SetAsideFails(a) ==
    /\ pc[a] = "rename"
    /\ Exists(path[a])
    /\ faults < MaxFaults
    /\ faults' = faults + 1
    /\ dir' \in {dir, Unlinked(path[a])}
    /\ pc' = [pc EXCEPT ![a] = "get"]
    /\ UNCHANGED <<written, whole, path, fd, crashes, clashed>>

\* Mutant: the body is written under the final name.
OpenTarget(a) ==
    LET f == Len(written) + 1
    IN  /\ pc[a] = "get"
        /\ f \in Files
        /\ dir' = [dir EXCEPT ![path[a]] = f]
        /\ written' = Append(written, f)
        /\ fd' = [fd EXCEPT ![a] = f]
        /\ pc' = [pc EXCEPT ![a] = "copy"]
        /\ UNCHANGED <<whole, path, crashes, faults, clashed>>

\* The server answers 200; the temporary name is freed and created anew.
OpenTmp(a) ==
    LET f == Len(written) + 1
    IN  /\ pc[a] = "get"
        /\ f \in Files
        /\ dir' = [dir EXCEPT ![Tmp(path[a][1])] = f]
        /\ written' = Append(written, f)
        /\ fd' = [fd EXCEPT ![a] = f]
        /\ pc' = [pc EXCEPT ![a] = "copy"]
        /\ UNCHANGED <<whole, path, crashes, faults, clashed>>

\* No connection, or a status other than 200.
GetFails(a) ==
    /\ pc[a] = "get"
    /\ Return(a)
    /\ UNCHANGED <<dir, written, whole, fd, crashes, faults, clashed>>

\* Some more of the body arrives.
Copy(a) ==
    /\ pc[a] = "copy"
    /\ written' = Touched(fd[a])
    /\ UNCHANGED <<dir, whole, pc, path, fd, crashes, faults, clashed>>

\* Mutant: f.Close is forgotten.
CopyEndsOpen(a) ==
    /\ pc[a] = "copy"
    /\ written' = Touched(fd[a])
    /\ whole' = whole \cup {fd[a]}
    /\ pc' = [pc EXCEPT ![a] = "place"]
    /\ UNCHANGED <<dir, path, fd, crashes, faults, clashed>>

\* The end of the body; the file is closed.
CopyEnds(a) ==
    /\ pc[a] = "copy"
    /\ written' = Touched(fd[a])
    /\ whole' = whole \cup {fd[a]}
    /\ fd' = [fd EXCEPT ![a] = Absent]
    /\ pc' = [pc EXCEPT ![a] = "place"]
    /\ UNCHANGED <<dir, path, crashes, faults, clashed>>

\* A broken connection: close, and remove whatever has the temporary name.
CopyFails(a) ==
    /\ pc[a] = "copy"
    /\ dir' = Unlinked(Tmp(path[a][1]))
    /\ fd' = [fd EXCEPT ![a] = Absent]
    /\ Return(a)
    /\ UNCHANGED <<written, whole, crashes, faults, clashed>>

\* os.Rename(tmp, dst) moves what is under the temporary name by now.
Place(a) ==
    LET tmp == Tmp(path[a][1])
    IN  /\ pc[a] = "place"
        /\ Exists(tmp)
        /\ dir' = Renamed(tmp, path[a])
        /\ pc' = [pc EXCEPT ![a] = "start"]
        /\ UNCHANGED <<written, whole, path, fd, crashes, faults, clashed>>

\* The temporary name has gone, or the rename fails for a reason of its own.
PlaceFails(a) ==
    /\ pc[a] = "place"
    /\ dir' = Unlinked(Tmp(path[a][1]))
    /\ Return(a)
    /\ UNCHANGED <<written, whole, fd, crashes, faults, clashed>>
-----------------------------------------------------------------------------
(***************************************************************************)
(* startBinary, shared by deploy and rollback.                             *)
(***************************************************************************)

\* The kernel refuses to execute a file that is open for writing.
Executable(n) == Exists(n) /\ \A b \in Agents : fd[b] # dir[n]

Start(a) ==
    /\ pc[a] = "start"
    /\ Executable(path[a])
    /\ pc' = [pc EXCEPT ![a] = "clean"]
    /\ UNCHANGED <<dir, written, whole, path, fd, crashes, faults, clashed>>

\* chmod or exec returns an error; a file that is there may still be refused.
StartFails(a) ==
    /\ pc[a] = "start"
    /\ Return(a)
    /\ UNCHANGED <<dir, written, whole, fd, crashes, faults, clashed>>

\* cleanupOldBinaries.
Clean(a) ==
    /\ pc[a] = "clean"
    /\ dir' = [n \in Names |-> IF Exists(n) /\ Cardinality(Newer(n)) < Keep THEN dir[n] ELSE Absent]
    /\ Return(a)
    /\ UNCHANGED <<written, whole, fd, crashes, faults, clashed>>
-----------------------------------------------------------------------------
(***************************************************************************)
(* handleRollback.                                                         *)
(***************************************************************************)

\* "the one before the current deploy" is the second newest file.
Rollback(a) ==
    /\ pc[a] = "idle"
    /\ \E n \in Names : /\ Exists(n)
                        /\ Cardinality(Newer(n)) = 1
                        /\ path' = [path EXCEPT ![a] = n]
    /\ pc' = [pc EXCEPT ![a] = "start"]
    /\ UNCHANGED <<dir, written, whole, fd, crashes, faults, clashed>>

\* The process goes in the middle of a command; an agent of a new instance takes over.
Crash(a) ==
    /\ pc[a] # "idle"
    /\ crashes < MaxCrashes
    /\ crashes' = crashes + 1
    /\ fd' = [fd EXCEPT ![a] = Absent]
    /\ Return(a)
    /\ UNCHANGED <<dir, written, whole, faults, clashed>>
-----------------------------------------------------------------------------
Download(a) ==
    OpenTmp(a) \/ GetFails(a) \/ Copy(a) \/ CopyEnds(a) \/ CopyFails(a) \/ Place(a) \/ PlaceFails(a)

Command(a) ==
    \/ \E v \in Versions : Deploy(a, v)
    \/ StatTarget(a) \/ SetAside(a) \/ SetAsideFails(a) \/ Download(a)
    \/ Start(a) \/ StartFails(a) \/ Clean(a)
    \/ Rollback(a)
    \/ Crash(a)

Next == \E a \in Agents : Command(a)

Spec == Init /\ [][Next]_vars
-----------------------------------------------------------------------------
NamesWhole == \A v \in Versions : Exists(Final(v)) => dir[Final(v)] \in whole

\* downloadFile "streams to a temp file then renames into place so a partial
\* download can never be mistaken for a good binary": what has the name of a version is a
\* complete file, until two agents have been deploying the same name at once.
FinalNamesWhole == clashed \/ NamesWhole

\* The same promise at the point where it matters: no deploy and no rollback ever
\* executes a truncated binary.
PartialNeverRuns == [][\A a \in Agents : Start(a) => dir[path[a]] \in whole]_vars

GoodCopy(v) == \E s \in {"", ".old"} : dir[<<v, s>>] \in whole

\* Deploying a version anew sets the copy at hand aside before the download; whether
\* the download breaks, the agent dies or the start is refused, a good copy of that
\* version stays on the disk. Only the cleanup after a successful start deletes one, or
\* a rename that fails, or two agents that have been deploying the same name at once.
GoodCopyKept ==
    [][\A v \in Versions : GoodCopy(v) /\ ~GoodCopy(v)' =>
            clashed \/ faults' # faults \/ \E a \in Agents : Clean(a)]_vars
=============================================================================
