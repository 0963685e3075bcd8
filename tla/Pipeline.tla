------------------------------ MODULE Pipeline ------------------------------
(***************************************************************************)
(* The deployment pipelines of the embedded deployer and their logs.  A    *)
(* click on "Deploy" opens an event stream and posts the job; the job runs *)
(* in a goroutine that holds a mutex and reports through one bounded       *)
(* channel per process, from which every open stream takes what it can.    *)
(* Backend jobs share deployMu and logChan, frontend builds share          *)
(* frontendMu and frontendLogChan.                                         *)
(***************************************************************************)
EXTENDS Naturals, Sequences, FiniteSets

CONSTANTS
    Clicks,     \* the clicks on "Deploy" or "Build", one run each at most
    Servers,    \* the instances behind the port; the kernel picks one per connection
    Jobs,       \* the jobs that are posted, a subset of DOMAIN Program
    Nobody,     \* not a click
    Cap,        \* capacity of a log channel (100 in New)
    MaxOutput   \* bound on the lines that one command prints

\* The stages of each job; a stage ends in SUCCESS or in ERR.
Program ==
    [source   |-> <<"entry", "sync", "build", "chmod", "run", "cleanup">>,
     url      |-> <<"ready", "download", "chmod", "run", "cleanup">>,
     frontend |-> <<"ready", "sync", "install", "build", "copy", "swap", "save">>]

ASSUME JobsAssumption == Jobs # {} /\ Jobs \subseteq DOMAIN Program
ASSUME PipelineAssumption ==
    /\ IsFiniteSet(Clicks) /\ IsFiniteSet(Servers) /\ Servers # {}
    /\ Nobody \notin Clicks /\ Cap \in Nat \ {0} /\ MaxOutput \in Nat

VARIABLES
    job,      \* job[c]: what c posts
    posted,   \* posted[c]: the server its POST goes to
    run,      \* run[c]: the goroutine that c started, or why there is none
    verdict,  \* verdict[c]: the EOF or ERR that the run of c has sent
    holder,   \* holder[q]: the run that holds the mutex of q
    chan,     \* chan[q]: the log channel
    stream,   \* stream[c]: the log stream of c
    told      \* told[c]: the verdict that ended the stream, and whose it was

vars == <<job, posted, run, verdict, holder, chan, stream, told>>

\* One mutex and one channel for each process and side.
Queues == Servers \X {"backend", "frontend"}
Side(c) == IF job[c] = "frontend" THEN "frontend" ELSE "backend"
Queue(c) == <<posted[c], Side(c)>>

Stages(c) == Program[job[c]]
Commands == {"sync", "build", "download", "install"}
Quiet == {"entry", "ready"}            \* stages with no line of their own before the work
Silent == {"run", "copy"}              \* stages that say nothing when they succeed
MayFail == {"entry", "sync", "build", "download", "install", "chmod", "run", "copy", "swap", "save"}

NoRun == [at |-> "none", stage |-> 0, out |-> 0]
Message == [run : Clicks, kind : {"line", "ERR", "EOF"}]
NoMessage == [run |-> Nobody, kind |-> "line"]
Verdict(m) == m.kind # "line"

\* The goroutine of c exists and has not released its mutex yet.
Active(c) == run[c].at \in {"head", "work", "eof", "unlock"}

TypeOK ==
    /\ job \in [Clicks -> Jobs]
    /\ posted \in [Clicks -> Servers]
    /\ run \in [Clicks -> [at : {"none", "sent", "refused", "head", "work", "eof", "unlock", "done"},
                           stage : 0 .. 7, out : 0 .. MaxOutput]]
    /\ verdict \in [Clicks -> {"none", "ERR", "EOF"}]
    /\ holder \in [Queues -> Clicks \cup {Nobody}]
    /\ \A c \in Clicks : Active(c) => holder[Queue(c)] = c
    /\ chan \in [Queues -> Seq(Message)]
    /\ \A q \in Queues : Len(chan[q]) <= Cap
    /\ stream \in [Clicks -> [at : {"none", "opening", "reading", "ended"}, from : Servers]]
    /\ told \in [Clicks -> Message \cup {NoMessage}]

Init ==
    /\ job \in [Clicks -> Jobs]
    /\ posted \in [Clicks -> Servers]
    /\ run = [c \in Clicks |-> NoRun]
    /\ verdict = [c \in Clicks |-> "none"]
    /\ holder = [q \in Queues |-> Nobody]
    /\ chan = [q \in Queues |-> <<>>]
    /\ stream \in [Clicks -> [at : {"none"}, from : Servers]]
    /\ told = [c \in Clicks |-> NoMessage]
-----------------------------------------------------------------------------
(***************************************************************************)
(* The page: startLogStream, then the POST.  They travel on connections    *)
(* of their own, so either may arrive first and at another process.        *)
(***************************************************************************)

Click(c) ==
    /\ run[c].at = "none"
    /\ run' = [run EXCEPT ![c].at = "sent"]
    /\ stream' = [stream EXCEPT ![c].at = "opening"]
    /\ UNCHANGED <<job, posted, verdict, holder, chan, told>>

\* deployLogs, buildLogs.
Attach(c) ==
    /\ stream[c].at = "opening"
    /\ stream' = [stream EXCEPT ![c].at = "reading"]
    /\ UNCHANGED <<job, posted, run, verdict, holder, chan, told>>

Source(c) == <<stream[c].from, Side(c)>>

\* Mutant: streamLogs returns after any line.
ReceiveOne(c) ==
    LET q == Source(c)
    IN  /\ stream[c].at = "reading"
        /\ chan[q] # <<>>
        /\ chan' = [chan EXCEPT ![q] = Tail(@)]
        /\ stream' = [stream EXCEPT ![c].at = "ended"]
        /\ told' = [told EXCEPT ![c] = Head(chan[q])]
        /\ UNCHANGED <<job, posted, run, verdict, holder>>

\* streamLogs: the first EOF or ERR ends it, whichever run it is from.
Receive(c) ==
    LET q == Source(c)
        m == Head(chan[q])
    IN  /\ stream[c].at = "reading"
        /\ chan[q] # <<>>
        /\ chan' = [chan EXCEPT ![q] = Tail(@)]
        /\ IF Verdict(m) THEN /\ stream' = [stream EXCEPT ![c].at = "ended"]
                              /\ told' = [told EXCEPT ![c] = m]
                         ELSE UNCHANGED <<stream, told>>
        /\ UNCHANGED <<job, posted, run, verdict, holder>>
-----------------------------------------------------------------------------
(***************************************************************************)
(* The handlers deploy, deployFromURL and buildFrontend.                   *)
(***************************************************************************)

\* Mutant: the result of TryLock is ignored.
AcceptAnyway(c) ==
    /\ run[c].at = "sent"
    /\ holder' = [holder EXCEPT ![Queue(c)] = c]
    /\ run' = [run EXCEPT ![c] = [at |-> "head", stage |-> 1, out |-> 0]]
    /\ UNCHANGED <<job, posted, verdict, chan, stream, told>>

\* TryLock succeeds; the goroutine holds the mutex from here on.
Accept(c) ==
    /\ run[c].at = "sent"
    /\ holder[Queue(c)] = Nobody
    /\ holder' = [holder EXCEPT ![Queue(c)] = c]
    /\ run' = [run EXCEPT ![c] = [at |-> "head", stage |-> 1, out |-> 0]]
    /\ UNCHANGED <<job, posted, verdict, chan, stream, told>>

\* 409: "already in progress".  The stream stays open.
Refuse(c) ==
    /\ run[c].at = "sent"
    /\ holder[Queue(c)] # Nobody
    /\ run' = [run EXCEPT ![c].at = "refused"]
    /\ UNCHANGED <<job, posted, verdict, holder, chan, stream, told>>
-----------------------------------------------------------------------------
(***************************************************************************)
(* The goroutine.  Every line is a send that blocks on a full channel.     *)
(***************************************************************************)

Say(c, kind) ==
    /\ Len(chan[Queue(c)]) < Cap
    /\ chan' = [chan EXCEPT ![Queue(c)] = Append(@, [run |-> c, kind |-> kind])]

Stage(c) == Stages(c)[run[c].stage]

\* ">> STEP: ...", the command and its directory.
Announce(c) ==
    /\ run[c].at = "head"
    /\ IF Stage(c) \in Quiet THEN UNCHANGED chan ELSE Say(c, "line")
    /\ run' = [run EXCEPT ![c].at = "work"]
    /\ UNCHANGED <<job, posted, verdict, holder, stream, told>>

Output(c) ==
    /\ run[c].at = "work"
    /\ Stage(c) \in Commands
    /\ run[c].out < MaxOutput
    /\ Say(c, "line")
    /\ run' = [run EXCEPT ![c].out = @ + 1]
    /\ UNCHANGED <<job, posted, verdict, holder, stream, told>>

AfterStage(c) ==
    IF run[c].stage < Len(Stages(c))
    THEN [at |-> "head", stage |-> run[c].stage + 1, out |-> 0]
    ELSE [at |-> "eof", stage |-> run[c].stage, out |-> 0]

\* "SUCCESS" or, for the quiet stages, the "Ready" line.
Succeed(c) ==
    /\ run[c].at = "work"
    /\ IF Stage(c) \in Silent THEN UNCHANGED chan ELSE Say(c, "line")
    /\ run' = [run EXCEPT ![c] = AfterStage(c)]
    /\ UNCHANGED <<job, posted, verdict, holder, stream, told>>

\* Mutant: the return after a failed stage is missing.
FailAndGoOn(c) ==
    /\ run[c].at = "work"
    /\ Stage(c) \in MayFail
    /\ Say(c, "ERR")
    /\ verdict' = [verdict EXCEPT ![c] = "ERR"]
    /\ run' = [run EXCEPT ![c] = AfterStage(c)]
    /\ UNCHANGED <<job, posted, holder, stream, told>>

Fail(c) ==
    /\ run[c].at = "work"
    /\ Stage(c) \in MayFail
    /\ Say(c, "ERR")
    /\ verdict' = [verdict EXCEPT ![c] = "ERR"]
    /\ run' = [run EXCEPT ![c].at = "unlock"]
    /\ UNCHANGED <<job, posted, holder, stream, told>>

Finish(c) ==
    /\ run[c].at = "eof"
    /\ Say(c, "EOF")
    /\ verdict' = [verdict EXCEPT ![c] = "EOF"]
    /\ run' = [run EXCEPT ![c].at = "unlock"]
    /\ UNCHANGED <<job, posted, holder, stream, told>>

\* The deferred Unlock.
Unlock(c) ==
    /\ run[c].at = "unlock"
    /\ holder' = [holder EXCEPT ![Queue(c)] = Nobody]
    /\ run' = [run EXCEPT ![c].at = "done"]
    /\ UNCHANGED <<job, posted, verdict, chan, stream, told>>
-----------------------------------------------------------------------------
Worker(c) == Announce(c) \/ Output(c) \/ Succeed(c) \/ Fail(c) \/ Finish(c) \/ Unlock(c)
Handler(c) == Accept(c) \/ Refuse(c)

Next == \E c \in Clicks : Click(c) \/ Attach(c) \/ Receive(c) \/ Handler(c) \/ Worker(c)

Spec == Init /\ [][Next]_vars

\* Requests reach the server, goroutines are scheduled, commands end, and the
\* server keeps reading for a client even after it has gone.
Fairness ==
    \A c \in Clicks : WF_vars(Attach(c)) /\ WF_vars(Receive(c)) /\ WF_vars(Handler(c)) /\ WF_vars(Worker(c))

FairSpec == Spec /\ Fairness
-----------------------------------------------------------------------------
\* A run says its EOF or ERR once and falls silent: whoever reads it may close
\* the stream without missing a line.
VerdictLast ==
    \A q \in Queues : \A i, j \in 1 .. Len(chan[q]) :
        i < j /\ Verdict(chan[q][i]) => chan[q][i].run # chan[q][j].run

\* The runs, begun or about to, whose verdict nobody has read yet.
Owed(q) == {c \in Clicks : /\ Queue(c) = q
                           /\ run[c].at \notin {"none", "refused"}
                           /\ \A d \in Clicks : told[d].run = c => ~Verdict(told[d])}
Readers(q) == {c \in Clicks : Source(c) = q /\ stream[c].at \in {"opening", "reading"}}

\* With one process behind the port, every run that is still to be heard out has a
\* stream left to hear it, however many pages are open and whatever POST was refused.
EveryRunHasAReader ==
    Cardinality(Servers) = 1 => \A q \in Queues : Cardinality(Owed(q)) <= Cardinality(Readers(q))

\* "Prevents blocking on slow clients": a deployment comes to its end and lets the
\* next one in.
DeploymentsEnd == \A c \in Clicks : (run[c].at = "head") ~> (run[c].at = "done")
-----------------------------------------------------------------------------
\* The clicks, their runs and their verdicts behave as Deployments says.
State(c) ==
    CASE run[c].at = "none" -> "idle"
      [] run[c].at = "sent" -> "asked"
      [] run[c].at = "refused" -> "refused"
      [] run[c].at = "done" -> "over"
      [] OTHER -> "running"
Shown(c) == IF told[c].run = Nobody THEN "none" ELSE told[c].kind

Promise == INSTANCE Deployments WITH
    queue <- [c \in Clicks |-> Queue(c)],
    source <- [c \in Clicks |-> Source(c)],
    state <- [c \in Clicks |-> State(c)],
    outcome <- verdict,
    author <- [c \in Clicks |-> told[c].run],
    shown <- [c \in Clicks |-> Shown(c)]

\* One run of a process and side at a time, no click refused without one, one verdict
\* for each run that begins, shown once and as it was said: whatever streams and runs,
\* old and new, meet in the channel.
KeepsPromise == Promise!Spec
=============================================================================
