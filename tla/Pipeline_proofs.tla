-------------------------- MODULE Pipeline_proofs --------------------------
(***************************************************************************)
(* Whatever pages are opened and jobs posted, a verdict is the last word   *)
(* of its run; and with one process behind the port as many streams are    *)
(* left to read as there are runs that are still to be heard out.          *)
(* Behind any number of ports and processes, the runs and what the pages   *)
(* show of them do what Deployments promises.                              *)
(***************************************************************************)
EXTENDS Pipeline, FiniteSetTheorems, TLAPS

Records == [at : {"none", "sent", "refused", "head", "work", "eof", "unlock", "done"},
            stage : 0 .. 7, out : 0 .. MaxOutput]
Ended(c) == run[c].at \in {"unlock", "done"}

\* A verdict in a channel is from a run that says no more, and nobody has been told it.
Said ==
    \A q \in Queues : \A i \in 1 .. Len(chan[q]) :
        LET m == chan[q][i]
        IN  /\ Queue(m.run) = q
            /\ Verdict(m) => Ended(m.run) /\ \A d \in Clicks : told[d].run # m.run

\* A stream is opened with its run, and ends with a verdict.
Heard ==
    \A d \in Clicks :
        /\ stream[d].at = "none" <=> run[d].at = "none"
        /\ stream[d].at # "ended" => told[d] = NoMessage
        /\ told[d].run # Nobody => told[d].run \in Clicks /\ Verdict(told[d]) /\ Ended(told[d].run)

IInv == TypeOK /\ Said /\ VerdictLast /\ Heard

\* No job has more than seven stages.
LEMMA StagesBounded == \A j \in Jobs : Len(Program[j]) \in 0 .. 7
<1>1. Len(Program["source"]) = 6
  BY DEF Program
<1>2. Len(Program["url"]) = 5
  BY DEF Program
<1>3. Len(Program["frontend"]) = 7
  BY DEF Program
<1>4. Jobs \subseteq {"source", "url", "frontend"}
  BY JobsAssumption DEF Program
<1> QED
  BY <1>1, <1>2, <1>3, <1>4

\* A line goes to the end of the channel of its run.
LEMMA Appended ==
    ASSUME TypeOK, NEW c \in Clicks, NEW kind \in {"line", "ERR", "EOF"}, Say(c, kind)
    PROVE  /\ Queue(c) \in Queues
           /\ chan' \in [Queues -> Seq(Message)]
           /\ \A q \in Queues : Len(chan'[q]) <= Cap
           /\ \A q \in Queues \ {Queue(c)} : chan'[q] = chan[q]
           /\ Len(chan'[Queue(c)]) = Len(chan[Queue(c)]) + 1
           /\ \A i \in 1 .. Len(chan[Queue(c)]) : chan'[Queue(c)][i] = chan[Queue(c)][i]
           /\ chan'[Queue(c)][Len(chan[Queue(c)]) + 1] = [run |-> c, kind |-> kind]
<1>1. Queue(c) \in Queues
  BY DEF TypeOK, Queue, Queues, Side
<1>2. [run |-> c, kind |-> kind] \in Message
  BY DEF Message
<1>3. chan \in [Queues -> Seq(Message)] /\ \A q \in Queues : Len(chan[q]) <= Cap
  BY DEF TypeOK
<1>4. Len(chan[Queue(c)]) < Cap
      /\ chan' = [chan EXCEPT ![Queue(c)] = Append(chan[Queue(c)], [run |-> c, kind |-> kind])]
  BY DEF Say
<1>5. Cap \in Nat
  BY PipelineAssumption
<1> QED
  BY <1>1, <1>2, <1>3, <1>4, <1>5

\* The runs have not begun.
LEMMA InvariantInit == Init => IInv
<1> SUFFICES ASSUME Init PROVE IInv
  OBVIOUS
<1>1. TypeOK
  BY PipelineAssumption DEF Init, TypeOK, NoRun, NoMessage, Active
<1>2. Said /\ VerdictLast
  BY DEF Init, Said, VerdictLast
<1>3. Heard
  BY DEF Init, Heard, NoRun, NoMessage
<1> QED
  BY <1>1, <1>2, <1>3 DEF IInv

\* A step of a goroutine: it may say a line, and a verdict only as it ends.
LEMMA GoroutineStep ==
    ASSUME IInv, NEW c \in Clicks, run[c].at \in {"head", "work", "eof"},
           NEW r \in Records, r.at \in {"head", "work", "eof", "unlock"},
           run' = [run EXCEPT ![c] = r],
           UNCHANGED chan \/ \E kind \in {"line", "ERR", "EOF"} :
                                Say(c, kind) /\ (kind # "line" => r.at = "unlock"),
           verdict' \in [Clicks -> {"none", "ERR", "EOF"}],
           UNCHANGED <<job, posted, holder, stream, told>>
    PROVE  IInv'
<1> USE DEF IInv
<1>1. /\ run \in [Clicks -> Records] /\ run'[c] = r
      /\ \A d \in Clicks \ {c} : run'[d] = run[d]
  BY DEF TypeOK, Records
<1>2. \A d \in Clicks : Queue(d)' = Queue(d)
  BY DEF Queue, Side
<1>3. \A d \in Clicks : Ended(d) => Ended(d)'
  BY <1>1 DEF Ended
<1>4. /\ chan' \in [Queues -> Seq(Message)] /\ \A q \in Queues : Len(chan'[q]) <= Cap
  BY Appended DEF TypeOK
<1>5. TypeOK'
  <2>1. run' \in [Clicks -> Records]
    BY <1>1
  <2>2. \A d \in Clicks : Active(d)' => holder'[Queue(d)'] = d
    BY <1>1, <1>2 DEF TypeOK, Active
  <2> QED
    BY <1>4, <2>1, <2>2 DEF TypeOK, Records
<1>6. ASSUME NEW q \in Queues, NEW i \in 1 .. Len(chan'[q])
      PROVE  \/ i \in 1 .. Len(chan[q]) /\ chan'[q][i] = chan[q][i]
             \/ /\ q = Queue(c) /\ i = Len(chan[q]) + 1 /\ chan'[q][i].run = c
                /\ Verdict(chan'[q][i]) => r.at = "unlock"
  <2>1. CASE UNCHANGED chan
    BY <2>1, <1>6
  <2>2. ASSUME NEW kind \in {"line", "ERR", "EOF"}, Say(c, kind), kind # "line" => r.at = "unlock"
        PROVE  \/ i \in 1 .. Len(chan[q]) /\ chan'[q][i] = chan[q][i]
               \/ /\ q = Queue(c) /\ i = Len(chan[q]) + 1 /\ chan'[q][i].run = c
                  /\ Verdict(chan'[q][i]) => r.at = "unlock"
    <3>1. CASE q = Queue(c)
      <4>0. q \in Queues /\ chan[q] \in Seq(Message)
        BY DEF TypeOK
      <4>1. Len(chan[q]) \in Nat /\ Len(chan'[q]) = Len(chan[q]) + 1
        <5>1. Len(chan[q]) \in Nat
          BY <4>0
        <5>2. Len(chan'[Queue(c)]) = Len(chan[Queue(c)]) + 1
          BY <2>2, Appended
        <5> QED
          BY <3>1, <5>1, <5>2
      <4>2. CASE i = Len(chan[q]) + 1
        <5>1. chan'[q][i] = [run |-> c, kind |-> kind]
          BY <2>2, <3>1, <4>2, Appended
        <5> QED
          BY <2>2, <3>1, <4>2, <5>1 DEF Verdict
      <4>3. CASE i \in 1 .. Len(chan[q])
        BY <2>2, <3>1, <4>3, Appended
      <4> QED
        BY <1>6, <4>1, <4>2, <4>3
    <3>2. CASE q # Queue(c)
      BY <1>6, <2>2, <3>2, Appended
    <3> QED
      BY <3>1, <3>2
  <2> QED
    BY <2>1, <2>2
<1>7. \A d \in Clicks : told[d].run # c
  BY PipelineAssumption DEF Heard, Ended
<1>8. Said'
  <2>1. ASSUME NEW q \in Queues, NEW i \in 1 .. Len(chan'[q])
        PROVE  LET m == chan'[q][i]
               IN  /\ m.run \in Clicks /\ Queue(m.run) = q
                   /\ Verdict(m) => run'[m.run].at \in {"unlock", "done"} /\ \A d \in Clicks : told[d].run # m.run
    <3>1. CASE i \in 1 .. Len(chan[q]) /\ chan'[q][i] = chan[q][i]
      <4>1. chan[q][i] \in Message
        BY <3>1 DEF TypeOK
      <4>2. chan[q][i].run \in Clicks
        BY <4>1 DEF Message
      <4> QED
        BY <3>1, <4>2, <1>3 DEF Said, Ended
    <3>2. CASE q = Queue(c) /\ chan'[q][i].run = c /\ (Verdict(chan'[q][i]) => r.at = "unlock")
      BY <3>2, <1>1, <1>7
    <3> QED
      BY <2>1, <1>6, <3>1, <3>2
  <2> QED
    BY <2>1, <1>2 DEF Said, Ended, Verdict
<1>9. VerdictLast'
  <2> SUFFICES ASSUME NEW q \in Queues, NEW i \in 1 .. Len(chan'[q]), NEW j \in 1 .. Len(chan'[q]),
                      i < j, Verdict(chan'[q][i])
               PROVE  chan'[q][i].run # chan'[q][j].run
    BY DEF VerdictLast, Verdict
  <2>1. Len(chan[q]) \in Nat /\ i \in 1 .. Len(chan[q]) /\ chan'[q][i] = chan[q][i]
    <3>1. Len(chan[q]) \in Nat
      BY DEF TypeOK
    <3>2. j <= Len(chan[q]) + 1
      BY <3>1, <1>6
    <3> QED
      BY <3>1, <3>2, <1>6
  <2>2. CASE j \in 1 .. Len(chan[q]) /\ chan'[q][j] = chan[q][j]
    BY <2>1, <2>2 DEF VerdictLast
  <2>3. CASE chan'[q][j].run = c
    BY <2>1, <2>3 DEF Said, Ended
  <2> QED
    BY <1>6, <2>2, <2>3
<1>10. Heard'
  <2> SUFFICES ASSUME NEW d \in Clicks
               PROVE  /\ stream[d].at = "none" <=> run'[d].at = "none"
                      /\ stream[d].at # "ended" => told[d] = NoMessage
                      /\ told[d].run # Nobody =>
                            told[d].run \in Clicks /\ Verdict(told[d]) /\ Ended(told[d].run)'
    BY DEF Heard, Verdict
  <2>1. stream[d].at = "none" <=> run[d].at = "none"
    BY DEF Heard
  <2>2. run'[d].at = "none" <=> run[d].at = "none"
    BY <1>1
  <2> QED
    BY <2>1, <2>2, <1>3 DEF Heard
<1> QED
  BY <1>5, <1>8, <1>9, <1>10

\* Each step keeps it.
LEMMA InvariantStep ==
    ASSUME IInv, [Next]_vars
    PROVE  IInv'
<1> USE DEF IInv
<1>1. CASE UNCHANGED vars
  <2>1. TypeOK'
    BY <1>1 DEF vars, TypeOK, Active, Queue, Side
  <2>2. Said' /\ VerdictLast'
    BY <1>1 DEF vars, Said, VerdictLast, Verdict, Ended, Queue, Side
  <2>3. Heard'
    BY <1>1 DEF vars, Heard, Verdict, Ended
  <2> QED
    BY <2>1, <2>2, <2>3
<1>2. ASSUME NEW c \in Clicks, Worker(c), ~Unlock(c) PROVE IInv'
  <2>1. /\ run[c] \in Records /\ c \in Clicks /\ MaxOutput \in Nat
        /\ verdict \in [Clicks -> {"none", "ERR", "EOF"}]
    BY PipelineAssumption DEF TypeOK, Records
  <2>2. CASE Announce(c)
    <3>1. [run[c] EXCEPT !.at = "work"] \in Records /\ [run[c] EXCEPT !.at = "work"].at = "work"
      BY <2>1 DEF Records
    <3>2. /\ run[c].at = "head" /\ run' = [run EXCEPT ![c] = [run[c] EXCEPT !.at = "work"]]
          /\ UNCHANGED chan \/ Say(c, "line")
          /\ UNCHANGED <<job, posted, verdict, holder, stream, told>>
      BY <2>2 DEF Announce
    <3>3. UNCHANGED chan \/ \E kind \in {"line", "ERR", "EOF"} : Say(c, kind) /\ kind = "line"
      BY <3>2
    <3> QED
      BY <2>1, <3>1, <3>2, <3>3, GoroutineStep
  <2>3. CASE Output(c)
    <3>1. run[c].out < MaxOutput /\ [run[c] EXCEPT !.out = @ + 1] \in Records
          /\ [run[c] EXCEPT !.out = @ + 1].at = "work"
      BY <2>1, <2>3 DEF Records, Output
    <3> QED
      BY <2>1, <2>3, <3>1, GoroutineStep DEF Output
  <2>4. CASE Succeed(c)
    <3>1. AfterStage(c) \in Records /\ AfterStage(c).at \in {"head", "eof"}
      <4>1. Len(Stages(c)) \in 0 .. 7
        BY StagesBounded DEF Stages, TypeOK
      <4>2. run[c].stage \in 0 .. 7
        BY <2>1 DEF Records
      <4>3. CASE run[c].stage < Len(Stages(c))
        <5>1. run[c].stage + 1 \in 0 .. 7
          <6>1. \A a, b \in 0 .. 7 : a < b => a + 1 \in 0 .. 7
            OBVIOUS
          <6> QED
            BY <4>1, <4>2, <4>3, <6>1
        <5> QED
          BY <2>1, <4>3, <5>1 DEF AfterStage, Records
      <4>4. CASE ~(run[c].stage < Len(Stages(c)))
        BY <2>1, <4>2, <4>4 DEF AfterStage, Records
      <4> QED
        BY <4>3, <4>4
    <3> QED
      BY <2>1, <2>4, <3>1, GoroutineStep DEF Succeed
  <2>5. CASE Fail(c)
    <3>1. [run[c] EXCEPT !.at = "unlock"] \in Records /\ [run[c] EXCEPT !.at = "unlock"].at = "unlock"
      BY <2>1 DEF Records
    <3>2. /\ run[c].at = "work" /\ run' = [run EXCEPT ![c] = [run[c] EXCEPT !.at = "unlock"]]
          /\ \E kind \in {"line", "ERR", "EOF"} : Say(c, kind)
          /\ verdict' \in [Clicks -> {"none", "ERR", "EOF"}]
          /\ UNCHANGED <<job, posted, holder, stream, told>>
      BY <2>1, <2>5 DEF Fail
    <3> QED
      BY <2>1, <3>1, <3>2, GoroutineStep
  <2>6. CASE Finish(c)
    <3>1. [run[c] EXCEPT !.at = "unlock"] \in Records /\ [run[c] EXCEPT !.at = "unlock"].at = "unlock"
      BY <2>1 DEF Records
    <3>2. /\ run[c].at = "eof" /\ run' = [run EXCEPT ![c] = [run[c] EXCEPT !.at = "unlock"]]
          /\ \E kind \in {"line", "ERR", "EOF"} : Say(c, kind)
          /\ verdict' \in [Clicks -> {"none", "ERR", "EOF"}]
          /\ UNCHANGED <<job, posted, holder, stream, told>>
      BY <2>1, <2>6 DEF Finish
    <3> QED
      BY <2>1, <3>1, <3>2, GoroutineStep
  <2> QED
    BY <1>2, <2>2, <2>3, <2>4, <2>5, <2>6 DEF Worker
<1>3. ASSUME NEW c \in Clicks, Handler(c) \/ Unlock(c) PROVE IInv'
  <2>1. UNCHANGED <<job, posted, verdict, chan, stream, told>>
    BY <1>3 DEF Handler, Accept, Refuse, Unlock
  <2>2. /\ run' \in [Clicks -> Records] /\ \A d \in Clicks \ {c} : run'[d] = run[d]
        /\ run[c].at \in {"sent", "unlock"} /\ run'[c].at \in {"head", "refused", "done"}
        /\ run[c].at = "unlock" <=> run'[c].at = "done"
    <3>1. run[c] \in Records /\ MaxOutput \in Nat
      BY PipelineAssumption DEF TypeOK, Records
    <3>2. run \in [Clicks -> Records]
      BY DEF TypeOK, Records
    <3>3. CASE Accept(c)
      <4>1. [at |-> "head", stage |-> 1, out |-> 0] \in Records
        BY <3>1 DEF Records
      <4> QED
        BY <3>2, <3>3, <4>1 DEF Accept
    <3>4. CASE Refuse(c)
      <4>1. [run[c] EXCEPT !.at = "refused"] \in Records
        BY <3>1 DEF Records
      <4> QED
        BY <3>1, <3>2, <3>4, <4>1 DEF Refuse, Records
    <3>5. CASE Unlock(c)
      <4>1. [run[c] EXCEPT !.at = "done"] \in Records
        BY <3>1 DEF Records
      <4> QED
        BY <3>1, <3>2, <3>5, <4>1 DEF Unlock, Records
    <3> QED
      BY <1>3, <3>3, <3>4, <3>5 DEF Handler
  <2>3. \A d \in Clicks : Queue(d)' = Queue(d) /\ Queue(d) \in Queues
    BY <2>1 DEF Queue, Side, TypeOK, Queues
  <2>4. \A d \in Clicks : Ended(d) => Ended(d)'
    BY <2>2 DEF Ended
  <2>5. TypeOK'
    <3>1. CASE Accept(c)
      <4>1. holder[Queue(c)] = Nobody /\ holder' = [holder EXCEPT ![Queue(c)] = c]
        BY <3>1 DEF Accept
      <4>2. \A d \in Clicks : Active(d)' => holder'[Queue(d)] = d
        BY <2>2, <2>3, <4>1, PipelineAssumption DEF TypeOK, Active
      <4>3. holder' \in [Queues -> Clicks \cup {Nobody}]
        BY <4>1 DEF TypeOK
      <4> QED
        BY <2>1, <2>2, <2>3, <4>2, <4>3 DEF TypeOK, Records
    <3>2. CASE Refuse(c)
      <4>1. \A d \in Clicks : Active(d)' => holder'[Queue(d)] = d
        BY <2>2, <3>2 DEF TypeOK, Active, Refuse
      <4> QED
        BY <2>1, <2>2, <2>3, <4>1, <3>2 DEF TypeOK, Records, Refuse
    <3>3. CASE Unlock(c)
      <4>1. holder[Queue(c)] = c /\ holder' = [holder EXCEPT ![Queue(c)] = Nobody]
        BY <3>3 DEF Unlock, TypeOK, Active
      <4>2. run'[c].at = "done"
        BY <3>3, <2>2 DEF Unlock
      <4>3. \A d \in Clicks : Active(d)' => holder'[Queue(d)] = d
        BY <2>2, <2>3, <4>1, <4>2 DEF TypeOK, Active
      <4>4. holder' \in [Queues -> Clicks \cup {Nobody}]
        BY <4>1 DEF TypeOK
      <4> QED
        BY <2>1, <2>2, <2>3, <4>3, <4>4 DEF TypeOK, Records
    <3> QED
      BY <1>3, <3>1, <3>2, <3>3 DEF Handler
  <2>6. Said'
    <3>1. ASSUME NEW q \in Queues, NEW i \in 1 .. Len(chan[q]) PROVE chan[q][i].run \in Clicks
      <4>1. chan[q] \in Seq(Message)
        BY DEF TypeOK
      <4>2. chan[q][i] \in Message
        BY <4>1
      <4> QED
        BY <4>2 DEF Message
    <3> QED
      BY <2>1, <2>3, <2>4, <3>1 DEF Said, Verdict
  <2>7. VerdictLast'
    BY <2>1 DEF VerdictLast, Verdict
  <2>8. Heard'
    BY <2>1, <2>2, <2>4 DEF Heard, Verdict
  <2> QED
    BY <2>5, <2>6, <2>7, <2>8
<1>4. ASSUME NEW c \in Clicks, Click(c) \/ Attach(c) PROVE IInv'
  <2>1. UNCHANGED <<job, posted, verdict, chan, holder, told>>
    BY <1>4 DEF Click, Attach
  <2>2. /\ run' \in [Clicks -> Records] /\ \A d \in Clicks \ {c} : run'[d] = run[d]
        /\ (run[c].at = "none" /\ run'[c].at = "sent") \/ run'[c] = run[c]
    <3>1. run[c] \in Records
      BY DEF TypeOK, Records
    <3>2. CASE Click(c)
      <4>1. [run[c] EXCEPT !.at = "sent"] \in Records
        BY <3>1 DEF Records
      <4> QED
        BY <3>1, <3>2, <4>1 DEF Click, TypeOK, Records
    <3>3. CASE Attach(c)
      BY <3>1, <3>3 DEF Attach, TypeOK, Records
    <3> QED
      BY <1>4, <3>2, <3>3
  <2>3. /\ stream' \in [Clicks -> [at : {"none", "opening", "reading", "ended"}, from : Servers]]
        /\ \A d \in Clicks \ {c} : stream'[d] = stream[d]
        /\ \/ run[c].at = "none" /\ run'[c].at = "sent" /\ stream'[c].at = "opening"
           \/ run'[c] = run[c] /\ stream[c].at = "opening" /\ stream'[c].at = "reading"
    <3>1. run[c] \in Records /\ stream[c] \in [at : {"none", "opening", "reading", "ended"}, from : Servers]
      BY DEF TypeOK, Records
    <3>2. CASE Click(c)
      <4>1. run[c].at = "none" /\ run'[c].at = "sent" /\ stream' = [stream EXCEPT ![c].at = "opening"]
        BY <3>1, <3>2 DEF Click, TypeOK, Records
      <4> QED
        BY <3>1, <4>1 DEF TypeOK
    <3>3. CASE Attach(c)
      <4>1. run'[c] = run[c] /\ stream[c].at = "opening" /\ stream' = [stream EXCEPT ![c].at = "reading"]
        BY <3>3 DEF Attach
      <4> QED
        BY <3>1, <4>1 DEF TypeOK
    <3> QED
      BY <1>4, <3>2, <3>3
  <2>4. \A d \in Clicks : Queue(d)' = Queue(d) /\ (Ended(d) <=> Ended(d)') /\ (Active(d) <=> Active(d)')
    BY <2>1, <2>2 DEF Queue, Side, Ended, Active
  <2>5. TypeOK'
    BY <2>1, <2>2, <2>3, <2>4 DEF TypeOK, Records
  <2>6. Said'
    <3>1. ASSUME NEW q \in Queues, NEW i \in 1 .. Len(chan[q]) PROVE chan[q][i].run \in Clicks
      <4>1. chan[q] \in Seq(Message)
        BY DEF TypeOK
      <4>2. chan[q][i] \in Message
        BY <4>1
      <4> QED
        BY <4>2 DEF Message
    <3> QED
      BY <2>1, <2>4, <3>1 DEF Said, Verdict
  <2>7. VerdictLast'
    BY <2>1 DEF VerdictLast, Verdict
  <2>8. Heard'
    <3> SUFFICES ASSUME NEW d \in Clicks
                 PROVE  /\ stream'[d].at = "none" <=> run'[d].at = "none"
                        /\ stream'[d].at # "ended" => told[d] = NoMessage
                        /\ told[d].run # Nobody =>
                              told[d].run \in Clicks /\ Verdict(told[d]) /\ run'[told[d].run].at \in {"unlock", "done"}
      BY <2>1 DEF Heard, Verdict, Ended
    <3>1. CASE d = c
      BY <2>2, <2>3, <2>4, <3>1 DEF Heard, Ended
    <3>2. CASE d # c
      BY <2>2, <2>3, <2>4, <3>2 DEF Heard, Ended
    <3> QED
      BY <3>1, <3>2
  <2> QED
    BY <2>5, <2>6, <2>7, <2>8
<1>5. ASSUME NEW c \in Clicks, Receive(c) PROVE IInv'
  <2> DEFINE q == Source(c)
             m == Head(chan[q])
  <2>1. /\ q \in Queues /\ stream[c].at = "reading" /\ chan[q] # <<>> /\ chan[q] \in Seq(Message)
        /\ chan' = [chan EXCEPT ![q] = Tail(chan[q])]
    BY <1>5 DEF Receive, Source, Side, Queues, TypeOK
  <2>2. UNCHANGED <<job, posted, run, verdict, holder>>
    BY <1>5 DEF Receive
  <2>3. /\ m = chan[q][1] /\ m \in Message /\ 1 \in 1 .. Len(chan[q])
        /\ Tail(chan[q]) \in Seq(Message) /\ Len(Tail(chan[q])) = Len(chan[q]) - 1
        /\ \A i \in 1 .. Len(chan[q]) - 1 : Tail(chan[q])[i] = chan[q][i + 1]
    BY <2>1
  <2>4. /\ m.run \in Clicks /\ m # NoMessage
        /\ \A d \in Clicks : Queue(d)' = Queue(d) /\ (Ended(d) <=> Ended(d)') /\ (Active(d) <=> Active(d)')
    BY <2>2, <2>3, PipelineAssumption DEF Queue, Side, Ended, Active, Message, NoMessage
  <2>5. \/ UNCHANGED <<stream, told>>
        \/ /\ Verdict(m) /\ stream' = [stream EXCEPT ![c].at = "ended"]
           /\ told' = [told EXCEPT ![c] = m]
    BY <1>5 DEF Receive
  <2>6. ASSUME NEW p \in Queues, NEW i \in 1 .. Len(chan'[p])
        PROVE  /\ p = q => i + 1 \in 1 .. Len(chan[p]) /\ chan'[p][i] = chan[p][i + 1]
               /\ p # q => i \in 1 .. Len(chan[p]) /\ chan'[p][i] = chan[p][i]
    <3>1. CASE p = q
      <4>1. chan'[p] = Tail(chan[q])
        BY <2>1, <3>1 DEF TypeOK
      <4>2. Len(chan[q]) \in Nat
        BY <2>1
      <4> QED
        BY <2>3, <2>6, <3>1, <4>1, <4>2
    <3>2. CASE p # q
      BY <2>1, <2>6, <3>2 DEF TypeOK
    <3> QED
      BY <3>1, <3>2
  <2>7. TypeOK'
    <3>1. chan' \in [Queues -> Seq(Message)] /\ \A p \in Queues : Len(chan'[p]) <= Cap
      <4>1. Len(chan[q]) \in Nat /\ Cap \in Nat /\ Len(chan[q]) <= Cap
        BY <2>1, PipelineAssumption DEF TypeOK
      <4>2. Len(Tail(chan[q])) <= Cap
        BY <2>3, <4>1
      <4> QED
        BY <2>1, <2>3, <4>2 DEF TypeOK
    <3>2. stream' \in [Clicks -> [at : {"none", "opening", "reading", "ended"}, from : Servers]]
      <4>1. stream[c] \in [at : {"none", "opening", "reading", "ended"}, from : Servers]
        BY DEF TypeOK
      <4>2. [stream[c] EXCEPT !.at = "ended"] \in [at : {"none", "opening", "reading", "ended"}, from : Servers]
        BY <4>1
      <4>3. CASE UNCHANGED <<stream, told>>
        BY <4>3 DEF TypeOK
      <4>4. CASE stream' = [stream EXCEPT ![c].at = "ended"]
        BY <4>2, <4>4 DEF TypeOK
      <4> QED
        BY <2>5, <4>3, <4>4
    <3>3. told' \in [Clicks -> Message \cup {NoMessage}]
      BY <2>3, <2>5 DEF TypeOK
    <3> QED
      BY <2>2, <2>4, <3>1, <3>2, <3>3 DEF TypeOK
  <2>8. ASSUME NEW p \in Queues, NEW i \in 1 .. Len(chan'[p])
        PROVE  LET n == chan'[p][i]
               IN  /\ n.run \in Clicks /\ Queue(n.run) = p
                   /\ Verdict(n) => Ended(n.run) /\ \A d \in Clicks : told'[d].run # n.run
    <3>1. PICK k \in 1 .. Len(chan[p]) : chan'[p][i] = chan[p][k] /\ (p = q => k > 1)
      <4>1. CASE p = q
        BY <2>6, <2>8, <4>1
      <4>2. CASE p # q
        BY <2>6, <2>8, <4>2
      <4> QED
        BY <4>1, <4>2
    <3>2. chan[p][k] \in Message
      BY <3>1 DEF TypeOK
    <3>3. chan[p][k].run \in Clicks
      BY <3>2 DEF Message
    <3>4. Queue(chan[p][k].run) = p
          /\ (Verdict(chan[p][k]) => Ended(chan[p][k].run) /\ \A d \in Clicks : told[d].run # chan[p][k].run)
      BY DEF Said
    <3>5. Verdict(m) => m.run # chan[p][k].run
      <4>1. CASE p = q
        BY <2>3, <3>1, <4>1 DEF VerdictLast
      <4>2. CASE p # q
        <5>1. Queue(m.run) = q
          BY <2>1, <2>3 DEF Said
        <5> QED
          BY <3>4, <4>2, <5>1
      <4> QED
        BY <4>1, <4>2
    <3>6. \A d \in Clicks : told'[d] = told[d] \/ (Verdict(m) /\ told'[d] = m)
      BY <2>5 DEF TypeOK
    <3> QED
      BY <3>1, <3>3, <3>4, <3>5, <3>6
  <2>9. Said'
    BY <2>4, <2>8 DEF Said, Verdict
  <2>10. VerdictLast'
    <3> SUFFICES ASSUME NEW p \in Queues, NEW i \in 1 .. Len(chan'[p]), NEW j \in 1 .. Len(chan'[p]),
                        i < j, Verdict(chan'[p][i])
                 PROVE  chan'[p][i].run # chan'[p][j].run
      BY DEF VerdictLast, Verdict
    <3>1. CASE p = q
      BY <2>6, <3>1 DEF VerdictLast
    <3>2. CASE p # q
      BY <2>6, <3>2 DEF VerdictLast
    <3> QED
      BY <3>1, <3>2
  <2>11. Heard'
    <3> SUFFICES ASSUME NEW d \in Clicks
                 PROVE  /\ stream'[d].at = "none" <=> run[d].at = "none"
                        /\ stream'[d].at # "ended" => told'[d] = NoMessage
                        /\ told'[d].run # Nobody =>
                              told'[d].run \in Clicks /\ Verdict(told'[d]) /\ Ended(told'[d].run)
      BY <2>2 DEF Heard, Verdict, Ended
    <3>1. Verdict(m) => Ended(m.run)
      BY <2>1, <2>3 DEF Said
    <3>2. CASE UNCHANGED <<stream, told>>
      BY <3>2 DEF Heard
    <3>3. CASE /\ Verdict(m) /\ stream' = [stream EXCEPT ![c].at = "ended"]
               /\ told' = [told EXCEPT ![c] = m]
      <4>1. CASE d = c
        <5>1. stream'[d].at = "ended" /\ told'[d] = m
          BY <3>3, <4>1 DEF TypeOK
        <5> QED
          BY <2>1, <2>4, <3>1, <3>3, <4>1, <5>1 DEF Heard
      <4>2. CASE d # c
        <5>1. stream'[d] = stream[d] /\ told'[d] = told[d]
          BY <3>3, <4>2 DEF TypeOK
        <5> QED
          BY <5>1 DEF Heard
      <4> QED
        BY <4>1, <4>2
    <3> QED
      BY <2>5, <3>2, <3>3
  <2> QED
    BY <2>7, <2>9, <2>10, <2>11
<1> QED
  BY <1>1, <1>2, <1>3, <1>4, <1>5 DEF Next, Worker

\* With one process each stream reads the channel of its own click's run.
LEMMA OneServer ==
    ASSUME TypeOK, Cardinality(Servers) = 1
    PROVE  \A c \in Clicks : Source(c) = Queue(c)
<1>1. PICK s : Servers = {s}
  BY FS_Singleton, PipelineAssumption
<1>2. \A c \in Clicks : posted[c] \in Servers /\ stream[c].from \in Servers
  BY DEF TypeOK
<1> QED
  BY <1>1, <1>2 DEF Source, Queue

\* The runs that are owed a reader, and the readers, are finitely many.
LEMMA CountsFinite ==
    \A q : /\ IsFiniteSet(Owed(q)) /\ IsFiniteSet(Readers(q))
           /\ Cardinality(Owed(q)) \in Nat /\ Cardinality(Readers(q)) \in Nat
<1> TAKE q
<1>1. Owed(q) \in SUBSET Clicks /\ Readers(q) \in SUBSET Clicks
  BY DEF Owed, Readers
<1>2. IsFiniteSet(Owed(q)) /\ IsFiniteSet(Readers(q))
  BY <1>1, FS_Subset, PipelineAssumption
<1> QED
  BY <1>2, FS_CardinalityType

\* Each step keeps as many readers as there are runs to be heard.
LEMMA CountStep ==
    ASSUME IInv, IInv', EveryRunHasAReader, [Next]_vars
    PROVE  EveryRunHasAReader'
<1> SUFFICES ASSUME Cardinality(Servers) = 1, NEW q \in Queues
             PROVE  Cardinality(Owed(q)') <= Cardinality(Readers(q)')
  BY DEF EveryRunHasAReader
<1> USE DEF IInv
<1>1. Cardinality(Owed(q)) <= Cardinality(Readers(q))
  BY DEF EveryRunHasAReader
<1>2. /\ IsFiniteSet(Owed(q)) /\ IsFiniteSet(Readers(q))
      /\ Cardinality(Owed(q)) \in Nat /\ Cardinality(Readers(q)) \in Nat
  BY CountsFinite
<1>3. \A d \in Clicks : Source(d) = Queue(d) /\ Queue(d) \in Queues
  BY OneServer DEF TypeOK, Queue, Side, Queues
<1>4. \A d \in Clicks : told[d].run # Nobody =>
          told[d].run \in Clicks /\ Verdict(told[d]) /\ Ended(told[d].run)
  BY DEF Heard
<1>5. CASE UNCHANGED vars
  BY <1>1, <1>5 DEF vars, Owed, Readers, Source, Queue, Side, Verdict
<1>6. ASSUME NEW c \in Clicks, Attach(c) \/ Handler(c) \/ Worker(c)
      PROVE  Cardinality(Owed(q)') <= Cardinality(Readers(q)')
  <2>1. UNCHANGED <<job, posted, told>>
    BY <1>6 DEF Attach, Handler, Accept, Refuse, Worker, Announce, Output, Succeed, Fail, Finish, Unlock
  <2>2. \A d \in Clicks : run'[d].at \notin {"none", "refused"} => run[d].at \notin {"none", "refused"}
    <3>1. CASE Attach(c)
      BY <3>1 DEF Attach
    <3>2. CASE Handler(c)
      BY <3>2 DEF Handler, Accept, Refuse, TypeOK
    <3>3. CASE Worker(c)
      BY <3>3 DEF Worker, Announce, Output, Succeed, Fail, Finish, Unlock, TypeOK
    <3> QED
      BY <1>6, <3>1, <3>2, <3>3
  <2>3. \A d \in Clicks : /\ stream'[d].at \in {"opening", "reading"} <=> stream[d].at \in {"opening", "reading"}
                          /\ stream'[d].from = stream[d].from
    <3>1. CASE Attach(c)
      BY <3>1 DEF Attach, TypeOK
    <3>2. CASE UNCHANGED stream
      BY <3>2
    <3> QED
      BY <1>6, <3>1, <3>2 DEF Handler, Accept, Refuse, Worker, Announce, Output, Succeed, Fail, Finish, Unlock
  <2>4. Owed(q)' \in SUBSET Owed(q)
    BY <2>1, <2>2 DEF Owed, Queue, Side, Verdict
  <2>5. Readers(q)' = Readers(q)
    BY <2>1, <2>3 DEF Readers, Source, Side
  <2>6. Cardinality(Owed(q)') <= Cardinality(Owed(q)) /\ Cardinality(Owed(q)') \in Nat
    BY <1>2, <2>4, FS_Subset, FS_CardinalityType
  <2> QED
    BY <1>1, <1>2, <2>5, <2>6
<1>7. ASSUME NEW c \in Clicks, Click(c)
      PROVE  Cardinality(Owed(q)') <= Cardinality(Readers(q)')
  <2>1. /\ UNCHANGED <<job, posted, told>>
        /\ run[c].at = "none" /\ run'[c].at = "sent" /\ stream[c].at = "none"
        /\ stream'[c].at = "opening" /\ stream'[c].from = stream[c].from
        /\ \A d \in Clicks \ {c} : run'[d] = run[d] /\ stream'[d] = stream[d]
    BY <1>7 DEF Click, TypeOK, Heard
  <2>2. \A d \in Clicks : told[d].run # c
    BY <1>4, <2>1, PipelineAssumption DEF Ended
  <2>3. CASE Queue(c) = q
    <3>1. Owed(q)' = Owed(q) \cup {c} /\ c \notin Owed(q)
      BY <2>1, <2>2, <2>3 DEF Owed, Queue, Side, Verdict
    <3>2. Readers(q)' = Readers(q) \cup {c} /\ c \notin Readers(q)
      BY <1>3, <2>1, <2>3 DEF Readers, Source, Side
    <3>3. Cardinality(Owed(q)') = Cardinality(Owed(q)) + 1
      BY <1>2, <3>1, FS_AddElement
    <3>4. Cardinality(Readers(q)') = Cardinality(Readers(q)) + 1
      BY <1>2, <3>2, FS_AddElement
    <3> QED
      BY <1>1, <1>2, <3>3, <3>4
  <2>4. CASE Queue(c) # q
    <3>1. Owed(q)' = Owed(q)
      BY <2>1, <2>4 DEF Owed, Queue, Side, Verdict
    <3>2. Readers(q)' = Readers(q)
      BY <1>3, <2>1, <2>4 DEF Readers, Source, Side
    <3> QED
      BY <1>1, <3>1, <3>2
  <2> QED
    BY <2>3, <2>4
<1>8. ASSUME NEW c \in Clicks, Receive(c)
      PROVE  Cardinality(Owed(q)') <= Cardinality(Readers(q)')
  <2> DEFINE m == Head(chan[Source(c)])
  <2>1. UNCHANGED <<job, posted, run>>
    BY <1>8 DEF Receive
  <2>2. CASE UNCHANGED <<stream, told>>
    BY <1>1, <2>1, <2>2 DEF Owed, Readers, Source, Queue, Side, Verdict
  <2>3. CASE Verdict(m) /\ stream' = [stream EXCEPT ![c].at = "ended"] /\ told' = [told EXCEPT ![c] = m]
    <3>1. /\ stream[c].at = "reading" /\ stream'[c].at = "ended" /\ stream'[c].from = stream[c].from
          /\ told[c] = NoMessage /\ told'[c] = m
          /\ \A d \in Clicks \ {c} : stream'[d] = stream[d] /\ told'[d] = told[d]
      BY <1>8, <2>3 DEF Receive, TypeOK, Heard
    <3>2. /\ m.run \in Clicks /\ Queue(m.run) = Source(c) /\ Ended(m.run)
          /\ \A d \in Clicks : told[d].run # m.run
      <4>1. Source(c) \in Queues /\ chan[Source(c)] \in Seq(Message) /\ chan[Source(c)] # <<>>
        BY <1>3, <1>8 DEF Receive, TypeOK
      <4>2. m = chan[Source(c)][1] /\ m \in Message /\ 1 \in 1 .. Len(chan[Source(c)])
        BY <4>1
      <4> QED
        BY <2>3, <4>1, <4>2 DEF Said, Message
    <3>3. NoMessage.run = Nobody /\ ~Verdict(NoMessage)
      BY DEF NoMessage, Verdict
    <3>4. \A x \in Clicks : (\A d \in Clicks : told'[d].run = x => ~Verdict(told'[d]))
                 <=> x # m.run /\ (\A d \in Clicks : told[d].run = x => ~Verdict(told[d]))
      BY <2>3, <3>1, <3>3
    <3>5. CASE Source(c) = q
      <4>1. Owed(q)' = Owed(q) \ {m.run} /\ m.run \in Owed(q)
        <5>1. Owed(q)' = Owed(q) \ {m.run}
          BY <2>1, <3>4 DEF Owed, Queue, Side, Verdict
        <5>2. m.run \in Owed(q)
          BY <3>2, <3>5 DEF Owed, Ended
        <5> QED
          BY <5>1, <5>2
      <4>2. Readers(q)' = Readers(q) \ {c} /\ c \in Readers(q)
        BY <2>1, <3>1, <3>5 DEF Readers, Source, Side
      <4>3. Cardinality(Owed(q)') = Cardinality(Owed(q)) - 1
        <5>1. \A x \in Owed(q) : Cardinality(Owed(q) \ {x}) = Cardinality(Owed(q)) - 1
          BY <1>2, FS_RemoveElement
        <5> QED
          BY <4>1, <5>1
      <4>4. Cardinality(Readers(q)') = Cardinality(Readers(q)) - 1
        BY <1>2, <4>2, FS_RemoveElement
      <4> QED
        BY <1>1, <1>2, <4>3, <4>4
    <3>6. CASE Source(c) # q
      <4>1. Owed(q)' = Owed(q)
        <5>1. m.run \notin Owed(q)
          BY <3>2, <3>6 DEF Owed
        <5>2. Owed(q)' = Owed(q) \ {m.run}
          BY <2>1, <3>4 DEF Owed, Queue, Side, Verdict
        <5> QED
          BY <5>1, <5>2
      <4>2. Readers(q)' = Readers(q)
        BY <2>1, <3>1, <3>6 DEF Readers, Source, Side
      <4> QED
        BY <1>1, <4>1, <4>2
    <3> QED
      BY <3>5, <3>6
  <2> QED
    BY <1>8, <2>2, <2>3 DEF Receive
<1> QED
  BY <1>5, <1>6, <1>7, <1>8 DEF Next

\* At first nothing runs and nothing is read.
LEMMA CountInit == Init => EveryRunHasAReader
<1> SUFFICES ASSUME Init, NEW q \in Queues PROVE Cardinality(Owed(q)) <= Cardinality(Readers(q))
  BY DEF EveryRunHasAReader
<1>1. Owed(q) = {} /\ Readers(q) = {}
  BY DEF Init, Owed, Readers, NoRun
<1> QED
  BY <1>1, FS_EmptySet

\* The invariant holds throughout.
LEMMA Invariant == Spec => []IInv
  BY InvariantInit, InvariantStep, PTL DEF Spec

\* The mutex of a side is held by the one run of it that is active, and channels keep to
\* their capacity.
THEOREM TypeCorrect == Spec => []TypeOK
<1>1. IInv => TypeOK
  BY DEF IInv
<1> QED
  BY <1>1, Invariant, PTL

\* After its EOF or ERR a run says nothing: a stream that ends there has missed nothing.
THEOREM VerdictsAreLast == Spec => []VerdictLast
<1>1. IInv => VerdictLast
  BY DEF IInv
<1> QED
  BY <1>1, Invariant, PTL

\* With one process, however many pages are opened and whatever is refused, no fewer
\* streams are left to read than runs are still to be heard out.
THEOREM RunsAreRead == Spec => []EveryRunHasAReader
<1>1. IInv /\ IInv' /\ EveryRunHasAReader /\ [Next]_vars => EveryRunHasAReader'
  BY CountStep
<1> QED
  BY <1>1, Invariant, CountInit, PTL DEF Spec
-----------------------------------------------------------------------------
(***************************************************************************)
(* Deployments.  The mutex belongs to a run that is active, and the        *)
(* verdict of a run is known from when it is said; a step of Pipeline is   *)
(* then a step of Deployments or none.                                     *)
(***************************************************************************)

\* The mutex of a side is held by a run of it that has not ended.
Held == \A q \in Queues : holder[q] # Nobody => Active(holder[q]) /\ Queue(holder[q]) = q

\* A run has its verdict from when it said it, and what is said of it is that.
Judged ==
    /\ \A c \in Clicks : verdict[c] # "none" <=> Ended(c)
    /\ \A q \in Queues : \A i \in 1 .. Len(chan[q]) :
          Verdict(chan[q][i]) => chan[q][i].kind = verdict[chan[q][i].run]

\* A stage goes on: nothing but the run and perhaps a line.
LEMMA StageMoves ==
    ASSUME TypeOK, NEW c \in Clicks, Announce(c) \/ Output(c) \/ Succeed(c)
    PROVE  /\ UNCHANGED <<job, posted, verdict, holder, stream, told>>
           /\ run[c].at \in {"head", "work"} /\ run'[c].at \in {"head", "work", "eof"}
           /\ \A d \in Clicks \ {c} : run'[d] = run[d]
           /\ UNCHANGED chan \/ Say(c, "line")
<1>1. run \in [Clicks -> Records] /\ run[c] \in Records
  BY DEF TypeOK, Records
<1>2. CASE Announce(c)
  BY <1>1, <1>2 DEF Announce, Records
<1>3. CASE Output(c)
  BY <1>1, <1>3 DEF Output, Records
<1>4. CASE Succeed(c)
  <2>1. AfterStage(c).at \in {"head", "eof"}
    BY DEF AfterStage
  <2> QED
    BY <1>1, <1>4, <2>1 DEF Succeed
<1> QED
  BY <1>2, <1>3, <1>4

\* A run says its verdict.
LEMMA VerdictMoves ==
    ASSUME TypeOK, NEW c \in Clicks, Fail(c) \/ Finish(c)
    PROVE  /\ UNCHANGED <<job, posted, holder, stream, told>>
           /\ run[c].at \in {"work", "eof"} /\ run'[c].at = "unlock"
           /\ \A d \in Clicks \ {c} : run'[d] = run[d]
           /\ \E v \in {"ERR", "EOF"} : Say(c, v) /\ verdict' = [verdict EXCEPT ![c] = v]
<1>1. run \in [Clicks -> Records] /\ run[c] \in Records
  BY DEF TypeOK, Records
<1>2. CASE Fail(c)
  BY <1>1, <1>2 DEF Fail, Records
<1>3. CASE Finish(c)
  BY <1>1, <1>3 DEF Finish, Records
<1> QED
  BY <1>2, <1>3

\* A run is asked for, begins, is refused or makes room.
LEMMA HandlerMoves ==
    ASSUME TypeOK, NEW c \in Clicks, Click(c) \/ Handler(c) \/ Unlock(c)
    PROVE  /\ UNCHANGED <<job, posted, verdict, chan, told>>
           /\ \A d \in Clicks \ {c} : run'[d] = run[d]
           /\ Click(c) => run[c].at = "none" /\ run'[c].at = "sent"
           /\ Accept(c) => run[c].at = "sent" /\ run'[c].at = "head"
           /\ Refuse(c) => run[c].at = "sent" /\ run'[c].at = "refused"
           /\ Unlock(c) => run[c].at = "unlock" /\ run'[c].at = "done"
           /\ \A d \in Clicks : stream'[d].from = stream[d].from
<1>1. run \in [Clicks -> Records] /\ run[c] \in Records
  BY DEF TypeOK, Records
<1>2. CASE Click(c)
  BY <1>1, <1>2 DEF Click, Records, Accept, Refuse, Unlock, TypeOK
<1>3. CASE Accept(c)
  BY <1>1, <1>3 DEF Accept, Click, Refuse, Unlock
<1>4. CASE Refuse(c)
  BY <1>1, <1>4 DEF Refuse, Records, Accept, Click, Unlock
<1>5. CASE Unlock(c)
  BY <1>1, <1>5 DEF Unlock, Records, Accept, Refuse, Click
<1> QED
  BY <1>2, <1>3, <1>4, <1>5 DEF Handler

\* A stream is opened or takes the first message of its channel.
LEMMA StreamMoves ==
    ASSUME TypeOK, NEW c \in Clicks, Attach(c) \/ Receive(c)
    PROVE  /\ UNCHANGED <<job, posted, run, verdict, holder>>
           /\ \A d \in Clicks : stream'[d].from = stream[d].from
           /\ chan' \in [Queues -> Seq(Message)]
           /\ \A q \in Queues : \/ chan'[q] = chan[q]
                                \/ q = Source(c) /\ chan[q] # <<>> /\ chan'[q] = Tail(chan[q])
<1>1. Source(c) \in Queues
  BY DEF Source, Side, TypeOK, Queues
<1>2. CASE Attach(c)
  BY <1>2 DEF Attach, TypeOK
<1>3. CASE Receive(c)
  <2>1. chan[Source(c)] \in Seq(Message) /\ chan[Source(c)] # <<>>
    BY <1>1, <1>3 DEF TypeOK, Receive
  <2>2. Tail(chan[Source(c)]) \in Seq(Message)
    BY <2>1
  <2>3. chan' = [chan EXCEPT ![Source(c)] = Tail(chan[Source(c)])]
    BY <1>3 DEF Receive
  <2>4. \A d \in Clicks : stream'[d].from = stream[d].from
    <3>1. UNCHANGED stream \/ stream' = [stream EXCEPT ![c].at = "ended"]
      BY <1>3 DEF Receive
    <3>2. stream \in [Clicks -> [at : {"none", "opening", "reading", "ended"}, from : Servers]]
      BY DEF TypeOK
    <3>3. CASE stream' = [stream EXCEPT ![c].at = "ended"]
      BY <3>2, <3>3
    <3> QED
      BY <3>1, <3>3
  <2> QED
    BY <1>1, <1>3, <2>1, <2>2, <2>3, <2>4 DEF TypeOK, Receive
<1> QED
  BY <1>2, <1>3

\* The mutex goes with the run.
LEMMA HeldStep ==
    ASSUME TypeOK, Held, [Next]_vars
    PROVE  Held'
<1>1. CASE UNCHANGED vars
  BY <1>1 DEF vars, Held, Active, Queue, Side
<1>2. ASSUME NEW c \in Clicks, Click(c) \/ Handler(c) \/ Worker(c) \/ Attach(c) \/ Receive(c)
      PROVE  Held'
  <2>0. UNCHANGED <<job, posted>> /\ \A d \in Clicks : Queue(d)' = Queue(d) /\ Queue(d) \in Queues
    <3>1. UNCHANGED <<job, posted>>
      BY <1>2, StageMoves, VerdictMoves, HandlerMoves, StreamMoves DEF Worker
    <3> QED
      BY <3>1 DEF Queue, Side, TypeOK, Queues
  <2>1. holder \in [Queues -> Clicks \cup {Nobody}] /\ Nobody \notin Clicks
    BY PipelineAssumption DEF TypeOK
  <2>2. CASE /\ UNCHANGED holder /\ \A d \in Clicks : Active(d) => Active(d)'
    BY <2>0, <2>1, <2>2 DEF Held
  <2>3. CASE Announce(c) \/ Output(c) \/ Succeed(c)
    BY <2>2, <2>3, StageMoves DEF Active
  <2>4. CASE Fail(c) \/ Finish(c)
    BY <2>2, <2>4, VerdictMoves DEF Active
  <2>5. CASE Attach(c) \/ Receive(c)
    BY <2>2, <2>5, StreamMoves DEF Active
  <2>6. CASE Click(c) \/ Refuse(c)
    <3>1. UNCHANGED holder
      BY <2>6 DEF Click, Refuse
    <3>2. run[c].at \in {"none", "sent"} /\ \A d \in Clicks \ {c} : run'[d] = run[d]
      BY <2>6, HandlerMoves DEF Handler
    <3> QED
      BY <2>2, <3>1, <3>2 DEF Active
  <2>7. CASE Accept(c)
    <3>1. holder' = [holder EXCEPT ![Queue(c)] = c]
      BY <2>7 DEF Accept
    <3>2. run[c].at = "sent" /\ run'[c].at = "head" /\ \A d \in Clicks \ {c} : run'[d] = run[d]
      BY <2>7, HandlerMoves DEF Handler
    <3> QED
      BY <2>0, <2>1, <3>1, <3>2 DEF Held, Active
  <2>8. CASE Unlock(c)
    <3>1. holder' = [holder EXCEPT ![Queue(c)] = Nobody] /\ holder[Queue(c)] = c
      BY <2>8 DEF Unlock, TypeOK, Active
    <3>2. \A d \in Clicks \ {c} : run'[d] = run[d]
      BY <2>8, HandlerMoves
    <3>3. \A q \in Queues : holder'[q] # Nobody => holder'[q] = holder[q] /\ q # Queue(c)
      BY <2>1, <3>1
    <3>4. ASSUME NEW q \in Queues, holder'[q] # Nobody
          PROVE  (Active(holder[q]) /\ Queue(holder[q]) = q)'
      <4>1. Active(holder[q]) /\ Queue(holder[q]) = q /\ holder[q] \in Clicks
        BY <2>1, <3>3, <3>4 DEF Held
      <4>2. holder[q] # c
        BY <3>3, <3>4, <4>1
      <4>3. run'[holder[q]] = run[holder[q]] /\ holder'[q] = holder[q]
        BY <3>2, <3>3, <3>4, <4>1, <4>2
      <4>4. Queue(holder[q])' = q
        BY <2>0, <4>1, <4>3 DEF Queue, Side
      <4> QED
        BY <4>1, <4>3, <4>4 DEF Active
    <3> QED
      BY <3>4 DEF Held
  <2> QED
    BY <1>2, <2>3, <2>4, <2>5, <2>6, <2>7, <2>8 DEF Worker, Handler
<1> QED
  BY <1>1, <1>2 DEF Next

\* What is in a channel after a send was there before it, or is what was sent.
LEMMA LastLine ==
    ASSUME TypeOK, NEW c \in Clicks, NEW kind \in {"line", "ERR", "EOF"}, Say(c, kind),
           NEW q \in Queues, NEW i \in 1 .. Len(chan'[q])
    PROVE  \/ i \in 1 .. Len(chan[q]) /\ chan'[q][i] = chan[q][i]
           \/ chan'[q][i] = [run |-> c, kind |-> kind]
<1>1. Len(chan[q]) \in Nat
  BY DEF TypeOK
<1>2. CASE q # Queue(c)
  BY <1>2, Appended
<1>3. CASE q = Queue(c)
  <2>1. Len(chan'[q]) = Len(chan[q]) + 1
    BY <1>3, Appended
  <2>2. i \in 1 .. Len(chan[q]) \/ i = Len(chan[q]) + 1
    BY <1>1, <2>1
  <2> QED
    BY <1>3, <2>2, Appended
<1> QED
  BY <1>2, <1>3

\* A verdict is taken down as it is said, and none is changed or forgotten.
LEMMA JudgedStep ==
    ASSUME IInv, Judged, [Next]_vars
    PROVE  Judged'
<1> USE DEF IInv
<1>1. CASE UNCHANGED vars
  BY <1>1 DEF vars, Judged, Ended, Verdict
<1>2. ASSUME NEW q \in Queues, NEW i \in 1 .. Len(chan[q]), Verdict(chan[q][i])
      PROVE  /\ chan[q][i].run \in Clicks /\ Ended(chan[q][i].run)
             /\ chan[q][i].kind = verdict[chan[q][i].run]
  <2>1. chan[q] \in Seq(Message)
    BY DEF TypeOK
  <2>2. chan[q][i] \in Message
    BY <2>1
  <2> QED
    BY <1>2, <2>2 DEF Message, Judged, Said
<1>3. ASSUME NEW c \in Clicks, Announce(c) \/ Output(c) \/ Succeed(c) PROVE Judged'
  <2>1. /\ UNCHANGED verdict
        /\ run[c].at \in {"head", "work"} /\ run'[c].at \in {"head", "work", "eof"}
        /\ \A d \in Clicks \ {c} : run'[d] = run[d]
        /\ UNCHANGED chan \/ Say(c, "line")
    BY <1>3, StageMoves
  <2>2. \A d \in Clicks : Ended(d)' <=> Ended(d)
    BY <2>1 DEF Ended
  <2>3. ASSUME NEW q \in Queues, NEW i \in 1 .. Len(chan'[q]), Verdict(chan'[q][i])
        PROVE  chan'[q][i].kind = verdict[chan'[q][i].run]
    <3>1. CASE UNCHANGED chan
      BY <1>2, <2>3, <3>1
    <3>2. CASE Say(c, "line")
      <4>1. i \in 1 .. Len(chan[q]) /\ chan'[q][i] = chan[q][i]
        <5>1. \/ i \in 1 .. Len(chan[q]) /\ chan'[q][i] = chan[q][i]
              \/ chan'[q][i] = [run |-> c, kind |-> "line"]
          BY <2>3, <3>2, LastLine
        <5>2. chan'[q][i].kind # "line"
          BY <2>3 DEF Verdict
        <5> QED
          BY <5>1, <5>2
      <4> QED
        BY <1>2, <2>3, <4>1
    <3> QED
      BY <2>1, <3>1, <3>2
  <2> QED
    BY <2>1, <2>2, <2>3 DEF Judged, Verdict, Ended
<1>4. ASSUME NEW c \in Clicks, Fail(c) \/ Finish(c) PROVE Judged'
  <2>1. PICK v \in {"ERR", "EOF"} : Say(c, v) /\ verdict' = [verdict EXCEPT ![c] = v]
    BY <1>4, VerdictMoves
  <2>2. /\ run[c].at \in {"work", "eof"} /\ run'[c].at = "unlock"
        /\ \A d \in Clicks \ {c} : run'[d] = run[d]
    BY <1>4, VerdictMoves
  <2>3. verdict'[c] = v /\ \A d \in Clicks \ {c} : verdict'[d] = verdict[d]
    BY <2>1 DEF TypeOK
  <2>4. \A d \in Clicks : (verdict[d] # "none" <=> Ended(d))'
    BY <2>2, <2>3 DEF Judged, Ended
  <2>5. ASSUME NEW q \in Queues, NEW i \in 1 .. Len(chan'[q]), Verdict(chan'[q][i])
        PROVE  chan'[q][i].kind = verdict'[chan'[q][i].run]
    <3>1. CASE i \in 1 .. Len(chan[q]) /\ chan'[q][i] = chan[q][i]
      BY <1>2, <2>2, <2>3, <2>5, <3>1 DEF Ended
    <3>2. CASE chan'[q][i] = [run |-> c, kind |-> v]
      BY <2>3, <3>2
    <3> QED
      BY <2>1, <2>5, <3>1, <3>2, LastLine
  <2> QED
    BY <2>4, <2>5 DEF Judged, Verdict, Ended
<1>5. ASSUME NEW c \in Clicks, Click(c) \/ Handler(c) \/ Unlock(c) PROVE Judged'
  <2>1. UNCHANGED <<verdict, chan>> /\ \A d \in Clicks : Ended(d)' <=> Ended(d)
    BY <1>5, HandlerMoves DEF Ended, Handler
  <2> QED
    BY <2>1 DEF Judged, Verdict, Ended
<1>6. ASSUME NEW c \in Clicks, Attach(c) \/ Receive(c) PROVE Judged'
  <2>1. UNCHANGED <<run, verdict>>
    BY <1>6, StreamMoves
  <2>2. ASSUME NEW q \in Queues, NEW i \in 1 .. Len(chan'[q])
        PROVE  \E j \in 1 .. Len(chan[q]) : chan'[q][i] = chan[q][j]
    <3>1. chan[q] \in Seq(Message)
      BY DEF TypeOK
    <3>2. CASE chan'[q] = chan[q]
      BY <2>2, <3>2
    <3>3. CASE chan[q] # <<>> /\ chan'[q] = Tail(chan[q])
      <4>1. i + 1 \in 1 .. Len(chan[q]) /\ chan'[q][i] = chan[q][i + 1]
        BY <2>2, <3>1, <3>3
      <4> QED
        BY <4>1
    <3> QED
      BY <1>6, <3>2, <3>3, StreamMoves
  <2>3. ASSUME NEW q \in Queues, NEW i \in 1 .. Len(chan'[q]), Verdict(chan'[q][i])
        PROVE  chan'[q][i].kind = verdict[chan'[q][i].run]
    BY <1>2, <2>2, <2>3
  <2> QED
    BY <2>1, <2>3 DEF Judged, Verdict, Ended
<1> QED
  BY <1>1, <1>3, <1>4, <1>5, <1>6 DEF Next, Worker

\* Nothing has begun.
LEMMA PromiseInit == Init => Held /\ Judged /\ Promise!Init
<1> SUFFICES ASSUME Init PROVE Held /\ Judged /\ Promise!Init
  OBVIOUS
<1>1. Held /\ Judged
  BY DEF Init, Held, Judged, NoRun, Ended
<1>2. \A c \in Clicks : Queue(c) \in Queues /\ Source(c) \in Queues
  BY DEF Init, Queue, Source, Side, Queues
<1>3. \A c \in Clicks : State(c) = "idle" /\ Shown(c) = "none" /\ told[c].run = Nobody
  BY DEF Init, State, Shown, NoRun, NoMessage
<1> QED
  BY <1>1, <1>2, <1>3 DEF Init, Promise!Init

\* A run goes on in Deployments when it is active here, and somebody holds the mutex then.
LEMMA BusyHolder ==
    ASSUME TypeOK, Held, NEW c \in Clicks
    PROVE  (\E d \in Clicks : Queue(d) = Queue(c) /\ State(d) = "running") <=> holder[Queue(c)] # Nobody
<1>1. \A d \in Clicks : State(d) = "running" <=> Active(d)
  BY DEF State, Active, TypeOK
<1>2. Queue(c) \in Queues
  BY DEF Queue, Side, TypeOK, Queues
<1>3. holder[Queue(c)] \in Clicks \cup {Nobody} /\ Nobody \notin Clicks
  BY <1>2, PipelineAssumption DEF TypeOK
<1>4. ASSUME NEW d \in Clicks, Queue(d) = Queue(c), State(d) = "running" PROVE holder[Queue(c)] # Nobody
  BY <1>1, <1>3, <1>4 DEF TypeOK
<1>5. ASSUME holder[Queue(c)] # Nobody
      PROVE  \E d \in Clicks : Queue(d) = Queue(c) /\ State(d) = "running"
  BY <1>1, <1>2, <1>3, <1>5 DEF Held
<1> QED
  BY <1>4, <1>5

\* A step of the run of c alone shows in Deployments as the new state of the run.
LEMMA StateMoves ==
    ASSUME NEW c \in Clicks, UNCHANGED <<job, posted, told>>,
           \A d \in Clicks : stream'[d].from = stream[d].from,
           \A d \in Clicks \ {c} : run'[d] = run[d]
    PROVE  /\ UNCHANGED <<[x \in Clicks |-> Queue(x)], [x \in Clicks |-> Source(x)],
                          [x \in Clicks |-> told[x].run], [x \in Clicks |-> Shown(x)]>>
           /\ [x \in Clicks |-> State(x)]' = [[x \in Clicks |-> State(x)] EXCEPT ![c] = State(c)']
<1>1. \A d \in Clicks : Queue(d)' = Queue(d) /\ Source(d)' = Source(d) /\ Shown(d)' = Shown(d)
  BY DEF Queue, Source, Side, Shown
<1>2. \A d \in Clicks \ {c} : State(d)' = State(d)
  BY DEF State
<1> QED
  BY <1>1, <1>2

\* Each step is a step of Deployments or none of it can see.
LEMMA PromiseStep ==
    ASSUME IInv, Held, Judged, [Next]_vars
    PROVE  [Promise!Next]_(Promise!vars)
<1> USE DEF IInv
<1>1. CASE UNCHANGED vars
  BY <1>1 DEF vars, Promise!vars, Queue, Source, Side, State, Shown
<1>2. ASSUME NEW c \in Clicks, Announce(c) \/ Output(c) \/ Succeed(c) PROVE UNCHANGED Promise!vars
  <2>1. /\ UNCHANGED <<job, posted, verdict, holder, stream, told>>
        /\ run[c].at \in {"head", "work"} /\ run'[c].at \in {"head", "work", "eof"}
        /\ \A d \in Clicks \ {c} : run'[d] = run[d]
    BY <1>2, StageMoves
  <2>2. State(c) = "running" /\ State(c)' = "running"
    BY <2>1 DEF State
  <2> QED
    BY <2>1, <2>2, StateMoves DEF Promise!vars
<1>3. ASSUME NEW c \in Clicks, Fail(c) \/ Finish(c) PROVE Promise!Decide(c)
  <2>1. /\ UNCHANGED <<job, posted, holder, stream, told>>
        /\ run[c].at \in {"work", "eof"} /\ run'[c].at = "unlock"
        /\ \A d \in Clicks \ {c} : run'[d] = run[d]
        /\ \E v \in {"ERR", "EOF"} : verdict' = [verdict EXCEPT ![c] = v]
    BY <1>3, VerdictMoves
  <2>2. State(c) = "running" /\ State(c)' = "running" /\ verdict[c] = "none"
    BY <2>1 DEF State, Judged, Ended
  <2>3. /\ UNCHANGED <<[x \in Clicks |-> Queue(x)], [x \in Clicks |-> Source(x)],
                       [x \in Clicks |-> told[x].run], [x \in Clicks |-> Shown(x)]>>
        /\ [x \in Clicks |-> State(x)]' = [[x \in Clicks |-> State(x)] EXCEPT ![c] = State(c)']
    BY <2>1, StateMoves
  <2>4. UNCHANGED [x \in Clicks |-> State(x)]
    BY <2>2, <2>3
  <2> QED
    BY <2>1, <2>2, <2>3, <2>4 DEF Promise!Decide
<1>4. ASSUME NEW c \in Clicks, Click(c) \/ Handler(c) \/ Unlock(c)
      PROVE  Promise!Ask(c) \/ Promise!Begin(c) \/ Promise!Refuse(c) \/ Promise!MakeRoom(c)
  <2>1. /\ UNCHANGED <<job, posted, verdict, chan, told>>
        /\ \A d \in Clicks \ {c} : run'[d] = run[d]
        /\ \A d \in Clicks : stream'[d].from = stream[d].from
    BY <1>4, HandlerMoves
  <2>2. /\ UNCHANGED <<[x \in Clicks |-> Queue(x)], [x \in Clicks |-> Source(x)],
                       [x \in Clicks |-> told[x].run], [x \in Clicks |-> Shown(x)]>>
        /\ [x \in Clicks |-> State(x)]' = [[x \in Clicks |-> State(x)] EXCEPT ![c] = State(c)']
    BY <2>1, StateMoves
  <2>3. (\E d \in Clicks : Queue(d) = Queue(c) /\ State(d) = "running") <=> holder[Queue(c)] # Nobody
    BY BusyHolder
  <2>4. CASE Click(c)
    <3>1. State(c) = "idle" /\ State(c)' = "asked"
      BY <2>4, HandlerMoves DEF State
    <3> QED
      BY <2>1, <2>2, <3>1 DEF Promise!Ask
  <2>5. CASE Accept(c)
    <3>1. State(c) = "asked" /\ State(c)' = "running" /\ holder[Queue(c)] = Nobody
      BY <2>5, HandlerMoves DEF State, Handler, Accept
    <3> QED
      BY <2>1, <2>2, <2>3, <3>1 DEF Promise!Begin, Promise!Busy
  <2>6. CASE Refuse(c)
    <3>1. State(c) = "asked" /\ State(c)' = "refused" /\ holder[Queue(c)] # Nobody
      BY <2>6, HandlerMoves DEF State, Handler, Refuse
    <3> QED
      BY <2>1, <2>2, <2>3, <3>1 DEF Promise!Refuse, Promise!Busy
  <2>7. CASE Unlock(c)
    <3>1. State(c) = "running" /\ State(c)' = "over" /\ verdict[c] # "none"
      BY <2>7, HandlerMoves DEF State, Judged, Ended
    <3> QED
      BY <2>1, <2>2, <3>1 DEF Promise!MakeRoom
  <2> QED
    BY <1>4, <2>4, <2>5, <2>6, <2>7 DEF Handler
<1>5. ASSUME NEW c \in Clicks, Attach(c) \/ (Receive(c) /\ UNCHANGED told) PROVE UNCHANGED Promise!vars
  <2>1. /\ UNCHANGED <<job, posted, run, verdict, told>>
        /\ \A d \in Clicks : stream'[d].from = stream[d].from
    BY <1>5, StreamMoves DEF Attach
  <2>2. \A d \in Clicks : /\ Queue(d)' = Queue(d) /\ Source(d)' = Source(d)
                          /\ State(d)' = State(d) /\ Shown(d)' = Shown(d)
    BY <2>1 DEF Queue, Source, Side, State, Shown
  <2> QED
    BY <2>1, <2>2 DEF Promise!vars
<1>6. ASSUME NEW c \in Clicks, Receive(c), told' # told PROVE Promise!Tell(c)
  <2> DEFINE m == Head(chan[Source(c)])
  <2>1. /\ UNCHANGED <<job, posted, run, verdict>>
        /\ \A d \in Clicks : stream'[d].from = stream[d].from
    BY <1>6, StreamMoves
  <2>2. Verdict(m) /\ stream[c].at = "reading" /\ told' = [told EXCEPT ![c] = m] /\ chan[Source(c)] # <<>>
    BY <1>6 DEF Receive
  <2>3. /\ m \in Message /\ Queue(m.run) = Source(c) /\ Ended(m.run)
        /\ m.kind = verdict[m.run] /\ \A d \in Clicks : told[d].run # m.run
    <3>1. Source(c) \in Queues
      BY DEF Source, Side, TypeOK, Queues
    <3>2. chan[Source(c)] \in Seq(Message)
      BY <3>1 DEF TypeOK
    <3>3. m = chan[Source(c)][1] /\ m \in Message /\ 1 \in 1 .. Len(chan[Source(c)])
      BY <2>2, <3>2
    <3> QED
      BY <2>2, <3>1, <3>3 DEF Said, Judged
  <2>4. m.run \in Clicks /\ verdict[m.run] # "none" /\ m.run # Nobody
    BY <2>3, PipelineAssumption DEF Message, Judged
  <2>5. told[c] = NoMessage /\ State(c) # "idle" /\ told[c].run = Nobody
    <3>1. told[c] = NoMessage /\ run[c].at # "none"
      BY <2>2 DEF Heard
    <3>2. State(c) # "idle"
      BY <3>1 DEF State, TypeOK
    <3> QED
      BY <3>1, <3>2 DEF NoMessage
  <2>6. told'[c] = m /\ \A d \in Clicks \ {c} : told'[d] = told[d]
    BY <2>2 DEF TypeOK
  <2> HIDE DEF m
  <2>7. \A d \in Clicks : Queue(d)' = Queue(d) /\ Source(d)' = Source(d) /\ State(d)' = State(d)
    BY <2>1 DEF Queue, Source, Side, State
  <2>8. /\ [x \in Clicks |-> told[x].run]' = [[x \in Clicks |-> told[x].run] EXCEPT ![c] = m.run]
        /\ [x \in Clicks |-> Shown(x)]' = [[x \in Clicks |-> Shown(x)] EXCEPT ![c] = verdict[m.run]]
    <3>1. \A d \in Clicks \ {c} : Shown(d)' = Shown(d)
      BY <2>6 DEF Shown
    <3>2. Shown(c)' = verdict[m.run]
      BY <2>3, <2>4, <2>6 DEF Shown
    <3> QED
      BY <2>6, <3>1, <3>2
  <2> QED
    BY <2>1, <2>3, <2>4, <2>5, <2>7, <2>8 DEF Promise!Tell
<1> QED
  BY <1>1, <1>2, <1>3, <1>4, <1>5, <1>6 DEF Next, Worker, Promise!Next

\* Whatever is clicked and wherever it arrives: one run at a time, refusals only while
\* one goes on, a verdict for each run before it makes room, and each told once at most.
THEOREM PipelineKeepsPromise == Spec => KeepsPromise
<1>1. IInv /\ Held /\ [Next]_vars => Held'
  BY HeldStep DEF IInv
<1>2. IInv /\ Judged /\ [Next]_vars => Judged'
  BY JudgedStep
<1>3. IInv /\ Held /\ Judged /\ [Next]_vars => [Promise!Next]_(Promise!vars)
  BY PromiseStep
<1> QED
  BY <1>1, <1>2, <1>3, Invariant, PromiseInit, PTL DEF Spec, KeepsPromise, Promise!Spec
=============================================================================
