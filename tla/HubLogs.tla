------------------------------- MODULE HubLogs -------------------------------
(***************************************************************************)
(* Log streaming through the hub of the control plane.  An API request     *)
(* subscribes its own id, commands the agents and answers with the id; the *)
(* browser then opens a stream for it.  The read loop of each agent's      *)
(* connection publishes log lines into the channel of the id, streams take *)
(* them out, and a janitor closes subscriptions after five minutes.        *)
(***************************************************************************)
EXTENDS Naturals, Sequences, FiniteSets

CONSTANTS
    Reqs,     \* the request ids that are handed out
    Agents,   \* the connected agents
    Streams,  \* the event streams that browsers open
    Nothing,  \* no agent, request or stream
    Cap,      \* capacity of a subscription's channel (100)
    Lines     \* lines an agent logs before its EOF or ERR

ASSUME HubLogsAssumption ==
    /\ Nothing \notin Reqs
    /\ Cap \in Nat \ {0} /\ Lines \in Nat

VARIABLES
    api,      \* api[r]: the handler that owns r; the agents it still has to command
    work,     \* work[a][r]: how far a is with r: messages sent, or not asked, or done
    up,       \* the agents whose connection stands
    pub,      \* pub[a]: the message a's read loop has looked a channel up for
    logSubs,  \* logSubs[r]: the channel registered for r, or NoChan
    chans,    \* every channel ever made: its request, its content, whether it is open
    stream    \* stream[h]: the handler apiLogs

vars == <<api, work, up, pub, logSubs, chans, stream>>

NoChan == 0
Channel == [req : Reqs, msgs : Seq({"line", "end"}), open : BOOLEAN]
NotAsked == Lines + 2

NoPub == [req |-> Nothing, ch |-> NoChan, msg |-> "line"]
NoStream == [at |-> "idle", req |-> Nothing, ch |-> NoChan]
IsOpen(ch) == chans[ch].open

TypeOK ==
    /\ api \in [Reqs -> [at : {"idle", "sending", "answered", "failed"}, todo : SUBSET Agents,
                         strict : BOOLEAN]]
    /\ work \in [Agents -> [Reqs -> 0 .. NotAsked]]
    /\ up \subseteq Agents
    /\ pub \in [Agents -> [req : Reqs \cup {Nothing}, ch : Nat, msg : {"line", "end"}]]
    /\ \A a \in Agents : pub[a].ch <= Len(chans)
    /\ chans \in Seq(Channel)
    /\ \A ch \in 1 .. Len(chans) : Len(chans[ch].msgs) <= Cap
    /\ logSubs \in [Reqs -> 0 .. Len(chans)]
    /\ stream \in [Streams -> [at : {"idle", "reading", "leaving", "done"},
                               req : Reqs \cup {Nothing}, ch : 0 .. Len(chans)]]
    /\ \A h \in Streams : stream[h].at \in {"reading", "leaving"} =>
           stream[h].ch # NoChan /\ stream[h].req = chans[stream[h].ch].req

Init ==
    /\ api = [r \in Reqs |-> [at |-> "idle", todo |-> {}, strict |-> FALSE]]
    /\ work = [a \in Agents |-> [r \in Reqs |-> NotAsked]]
    /\ up = Agents
    /\ pub = [a \in Agents |-> NoPub]
    /\ logSubs = [r \in Reqs |-> NoChan]
    /\ chans = <<>>
    /\ stream = [h \in Streams |-> NoStream]
-----------------------------------------------------------------------------
(***************************************************************************)
(* The subscription table, under logMu.                                    *)
(***************************************************************************)

\* SubscribeLogs: the channel of r, made if there is none.
SubscribeLogs(r) ==
    IF logSubs[r] # NoChan
    THEN UNCHANGED <<logSubs, chans>>
    ELSE /\ chans' = Append(chans, [req |-> r, msgs |-> <<>>, open |-> TRUE])
         /\ logSubs' = [logSubs EXCEPT ![r] = Len(chans) + 1]

\* Mutant: the channel is closed but stays in the table.
CloseSubOnly(r) ==
    IF logSubs[r] = NoChan
    THEN UNCHANGED <<logSubs, chans>>
    ELSE /\ chans' = [chans EXCEPT ![logSubs[r]].open = FALSE]
         /\ UNCHANGED logSubs

\* UnsubscribeLogs and the janitor: close and forget whatever r is registered with.
CloseSub(r) ==
    IF logSubs[r] = NoChan
    THEN UNCHANGED <<logSubs, chans>>
    ELSE /\ chans' = [chans EXCEPT ![logSubs[r]].open = FALSE]
         /\ logSubs' = [logSubs EXCEPT ![r] = NoChan]

\* Mutant: the janitor forgets a subscription without closing its channel.
Forget(r) ==
    /\ logSubs[r] # NoChan
    /\ logSubs' = [logSubs EXCEPT ![r] = NoChan]
    /\ UNCHANGED <<api, work, up, pub, chans, stream>>

\* cleanupOrphanedSubs looks at the age alone; a subscription in use is no exception.
Expire(r) ==
    /\ logSubs[r] # NoChan
    /\ CloseSub(r)
    /\ UNCHANGED <<api, work, up, pub, stream>>
-----------------------------------------------------------------------------
(***************************************************************************)
(* apiDeploy, apiRestart, apiKill, apiRollback, apiExec, apiBatchDeploy.   *)
(***************************************************************************)

\* Restart and kill name one agent and give up when it cannot be told; deploy,
\* rollback and the batch command whom they find.
MayCommand(targets, strict) == strict => Cardinality(targets) = 1

\* Mutant: the subscription is left to the stream.
ApiStartBare(r, targets, strict) ==
    /\ api[r].at = "idle"
    /\ MayCommand(targets, strict)
    /\ api' = [api EXCEPT ![r] = [at |-> "sending", todo |-> targets, strict |-> strict]]
    /\ UNCHANGED <<work, up, pub, logSubs, chans, stream>>

\* "Subscribe BEFORE sending command to avoid losing early logs".
ApiStart(r, targets, strict) ==
    /\ api[r].at = "idle"
    /\ MayCommand(targets, strict)
    /\ api' = [api EXCEPT ![r] = [at |-> "sending", todo |-> targets, strict |-> strict]]
    /\ SubscribeLogs(r)
    /\ UNCHANGED <<work, up, pub, stream>>

ApiSend(r, a) ==
    /\ a \in api[r].todo
    /\ a \in up
    /\ api' = [api EXCEPT ![r].todo = @ \ {a}]
    /\ work' = [work EXCEPT ![a][r] = 0]
    /\ UNCHANGED <<up, pub, logSubs, chans, stream>>

\* SendCommand fails, for the connection that was looked up has gone, even when the
\* agent is back on another; a strict handler unsubscribes and answers 500.
ApiSendFails(r, a) ==
    /\ a \in api[r].todo
    /\ IF api[r].strict
       THEN CloseSub(r) /\ api' = [api EXCEPT ![r].at = "failed", ![r].todo = {}]
       ELSE api' = [api EXCEPT ![r].todo = @ \ {a}] /\ UNCHANGED <<logSubs, chans>>
    /\ UNCHANGED <<work, up, pub, stream>>

ApiAnswer(r) ==
    /\ api[r].at = "sending"
    /\ api[r].todo = {}
    /\ api' = [api EXCEPT ![r].at = "answered"]
    /\ UNCHANGED <<work, up, pub, logSubs, chans, stream>>
-----------------------------------------------------------------------------
(***************************************************************************)
(* An agent and the read loop of its connection.                           *)
(***************************************************************************)

Working(a, r) == work[a][r] <= Lines
NextMessage(a, r) == IF work[a][r] < Lines THEN "line" ELSE "end"
Progress(a, r) == work' = [work EXCEPT ![a][r] = @ + 1]

\* publishLog looks the channel up under the read lock, which it then releases.
PublishLookup(a, r) ==
    /\ a \in up
    /\ pub[a] = NoPub
    /\ Working(a, r)
    /\ pub' = [pub EXCEPT ![a] = [req |-> r, ch |-> logSubs[r], msg |-> NextMessage(a, r)]]
    /\ Progress(a, r)
    /\ UNCHANGED <<api, up, logSubs, chans, stream>>

\* The send does not block: a line for a full channel, or for none, is dropped.
PublishSend(a) ==
    /\ pub[a] # NoPub
    /\ pub[a].ch # NoChan => IsOpen(pub[a].ch)
    /\ chans' = IF pub[a].ch # NoChan /\ Len(chans[pub[a].ch].msgs) < Cap
                THEN [chans EXCEPT ![pub[a].ch].msgs = Append(@, pub[a].msg)]
                ELSE chans
    /\ pub' = [pub EXCEPT ![a] = NoPub]
    /\ UNCHANGED <<api, work, up, logSubs, stream>>

\* The channel has been closed since: the send panics and the connection goes down.
PublishPanics(a) ==
    /\ pub[a].ch # NoChan
    /\ ~IsOpen(pub[a].ch)
    /\ pub' = [pub EXCEPT ![a] = NoPub]
    /\ up' = up \ {a}
    /\ UNCHANGED <<api, work, logSubs, chans, stream>>

Disconnect(a) ==
    /\ a \in up
    /\ pub[a] = NoPub
    /\ up' = up \ {a}
    /\ UNCHANGED <<api, work, pub, logSubs, chans, stream>>

Reconnect(a) ==
    /\ a \notin up
    /\ up' = up \cup {a}
    /\ UNCHANGED <<api, work, pub, logSubs, chans, stream>>

\* sendMsg without a connection: the agent works on, the line is lost.
LogLost(a, r) ==
    /\ a \notin up
    /\ Working(a, r)
    /\ Progress(a, r)
    /\ UNCHANGED <<api, up, pub, logSubs, chans, stream>>
-----------------------------------------------------------------------------
(***************************************************************************)
(* apiLogs, opened by a browser that has read the answer.                  *)
(***************************************************************************)

\* Mutant: the table is read before the subscription is made.
StreamOpenEarly(h, r) ==
    /\ stream[h].at = "idle"
    /\ api[r].at = "answered"
    /\ SubscribeLogs(r)
    /\ stream' = [stream EXCEPT ![h] = [at |-> "reading", req |-> r, ch |-> logSubs[r]]]
    /\ UNCHANGED <<api, work, up, pub>>

StreamOpen(h, r) ==
    /\ stream[h].at = "idle"
    /\ api[r].at = "answered"
    /\ SubscribeLogs(r)
    /\ stream' = [stream EXCEPT ![h] = [at |-> "reading", req |-> r, ch |-> logSubs'[r]]]
    /\ UNCHANGED <<api, work, up, pub>>

StreamRead(h) ==
    LET ch == stream[h].ch
    IN  /\ stream[h].at = "reading"
        /\ chans[ch].msgs # <<>>
        /\ chans' = [chans EXCEPT ![ch].msgs = Tail(@)]
        /\ stream' = IF Head(chans[ch].msgs) = "end" THEN [stream EXCEPT ![h].at = "leaving"]
                                                     ELSE stream
        /\ UNCHANGED <<api, work, up, pub, logSubs>>

\* A closed channel is drained first.
StreamClosed(h) ==
    /\ stream[h].at = "reading"
    /\ chans[stream[h].ch].msgs = <<>>
    /\ ~IsOpen(stream[h].ch)
    /\ stream' = [stream EXCEPT ![h].at = "leaving"]
    /\ UNCHANGED <<api, work, up, pub, logSubs, chans>>

ClientGone(h) ==
    /\ stream[h].at = "reading"
    /\ stream' = [stream EXCEPT ![h].at = "leaving"]
    /\ UNCHANGED <<api, work, up, pub, logSubs, chans>>

\* The deferred UnsubscribeLogs goes by the id: it closes the channel that the id
\* has now, which may be a later one than this stream's.
StreamLeave(h) ==
    /\ stream[h].at = "leaving"
    /\ CloseSub(stream[h].req)
    /\ stream' = [stream EXCEPT ![h].at = "done"]
    /\ UNCHANGED <<api, work, up, pub>>
-----------------------------------------------------------------------------
Api(r) ==
    \/ \E targets \in SUBSET Agents, strict \in BOOLEAN : ApiStart(r, targets, strict)
    \/ \E a \in Agents : ApiSend(r, a) \/ ApiSendFails(r, a)
    \/ ApiAnswer(r)

Agent(a) ==
    \/ \E r \in Reqs : PublishLookup(a, r) \/ LogLost(a, r)
    \/ PublishSend(a) \/ PublishPanics(a) \/ Disconnect(a) \/ Reconnect(a)

Serve(h) == StreamRead(h) \/ StreamClosed(h) \/ StreamLeave(h)

Next ==
    \/ \E r \in Reqs : Api(r) \/ Expire(r)
    \/ \E a \in Agents : Agent(a)
    \/ \E h \in Streams : Serve(h) \/ ClientGone(h) \/ \E r \in Reqs : StreamOpen(h, r)

Spec == Init /\ [][Next]_vars

\* The janitor's ticker runs for ever and every subscription grows old; handlers
\* are scheduled.
Fairness == (\A r \in Reqs : WF_vars(Expire(r))) /\ (\A h \in Streams : WF_vars(Serve(h)))

FairSpec == Spec /\ Fairness
-----------------------------------------------------------------------------
\* A channel is open exactly as long as it is registered: no stream waits on a
\* channel that nobody can close any more, and none is closed twice.
RegisteredIffOpen ==
    \A ch \in 1 .. Len(chans) : IsOpen(ch) <=> logSubs[chans[ch].req] = ch

Retired(r) == \E ch \in 1 .. Len(chans) : chans[ch].req = r /\ ~IsOpen(ch)

\* However fast an agent answers, its first lines find a subscription: only after
\* that was closed (by a stream's end or the janitor) is a line without a channel.
EarlyLogsFindAChannel ==
    \A a \in Agents : pub[a].req # Nothing /\ pub[a].ch = NoChan => Retired(pub[a].req)

\* No stream stays open for ever, not even one whose verdict was dropped, whose agent
\* died or whose id was never given out a second time.
StreamsEnd == \A h \in Streams : (stream[h].at = "reading") ~> (stream[h].at = "done")
=============================================================================
