--------------------------- MODULE HubLogs_proofs ---------------------------
(***************************************************************************)
(* The subscription table of the hub, for any number of requests, agents   *)
(* and streams: a channel is open exactly while it is registered, and the  *)
(* lines of an agent find one until it has been closed.                    *)
(***************************************************************************)
EXTENDS HubLogs, SequenceTheorems, TLAPS

ChansOK ==
    /\ chans \in Seq(Channel)
    /\ \A ch \in 1 .. Len(chans) : Len(chans[ch].msgs) <= Cap

\* What is registered for r is an open channel of r, and nothing else is open.
Table ==
    /\ ChansOK
    /\ logSubs \in [Reqs -> 0 .. Len(chans)]
    /\ \A r \in Reqs : logSubs[r] # NoChan => chans[logSubs[r]].req = r
    /\ RegisteredIffOpen

CommandsOK ==
    /\ api \in [Reqs -> [at : {"idle", "sending", "answered", "failed"}, todo : SUBSET Agents,
                         strict : BOOLEAN]]
    /\ work \in [Agents -> [Reqs -> 0 .. NotAsked]]
    /\ up \subseteq Agents

PubOK ==
    /\ pub \in [Agents -> [req : Reqs \cup {Nothing}, ch : Nat, msg : {"line", "end"}]]
    /\ \A a \in Agents : pub[a].ch <= Len(chans)

StreamsOK ==
    /\ stream \in [Streams -> [at : {"idle", "reading", "leaving", "done"},
                               req : Reqs \cup {Nothing}, ch : 0 .. Len(chans)]]
    /\ \A h \in Streams : stream[h].at \in {"reading", "leaving"} =>
           stream[h].ch # NoChan /\ stream[h].req = chans[stream[h].ch].req

Begun ==
    /\ \A r \in Reqs : api[r].at = "idle" => api[r].todo = {}
    /\ \A a \in Agents, r \in Reqs : work[a][r] # NotAsked => api[r].at # "idle"

\* A handler that has begun has subscribed; what is not registered since was closed.
Covered == \A r \in Reqs : api[r].at # "idle" /\ logSubs[r] = NoChan => Retired(r)

IInv ==
    Table /\ CommandsOK /\ PubOK /\ StreamsOK /\ Begun /\ Covered /\ EarlyLogsFindAChannel

\* Channels are only ever added, they keep their request and are never reopened.
Grows ==
    /\ Len(chans') >= Len(chans)
    /\ \A ch \in 1 .. Len(chans) : /\ chans'[ch].req = chans[ch].req
                                   /\ chans'[ch].open => chans[ch].open

\* An element of chans is a channel of some request.
LEMMA ChannelAt ==
    ASSUME ChansOK, NEW ch \in 1 .. Len(chans)
    PROVE  chans[ch] \in Channel /\ chans[ch].req \in Reqs
<1>1. chans[ch] \in Channel
  BY ElementOfSeq DEF ChansOK
<1> QED
  BY <1>1 DEF Channel

\* Subscribing leaves r, and only r, with a channel of its own.
LEMMA SubscribeKeepsTable ==
    ASSUME Table, NEW r \in Reqs, SubscribeLogs(r)
    PROVE  /\ Table' /\ Grows
           /\ logSubs'[r] \in 1 .. Len(chans') /\ chans'[logSubs'[r]].req = r
           /\ \A q \in Reqs \ {r} : logSubs'[q] = logSubs[q]
<1>1. CASE logSubs[r] # NoChan
  BY <1>1 DEF SubscribeLogs, Table, ChansOK, Grows, RegisteredIffOpen, IsOpen, NoChan
<1>2. CASE logSubs[r] = NoChan
  <2> DEFINE new == [req |-> r, msgs |-> <<>>, open |-> TRUE]
  <2>1. chans' = Append(chans, new) /\ logSubs' = [logSubs EXCEPT ![r] = Len(chans) + 1]
    BY <1>2 DEF SubscribeLogs
  <2>2. new \in Channel /\ Len(new.msgs) = 0
    BY DEF Channel
  <2> HIDE DEF new
  <2>3. /\ chans' \in Seq(Channel) /\ Len(chans') = Len(chans) + 1
        /\ \A ch \in 1 .. Len(chans) : chans'[ch] = chans[ch]
        /\ chans'[Len(chans) + 1] = new
    BY <2>1, <2>2 DEF Table, ChansOK
  <2>4. new.req = r /\ new.open
    BY DEF new
  <2>5. Len(chans) \in Nat
    BY DEF Table, ChansOK
  <2>6. ChansOK'
    BY <2>2, <2>3, <2>5, HubLogsAssumption DEF Table, ChansOK
  <2>7. /\ logSubs' \in [Reqs -> 0 .. Len(chans')]
        /\ \A q \in Reqs : logSubs'[q] # NoChan => chans'[logSubs'[q]].req = q
    BY <2>1, <2>3, <2>4, <2>5 DEF Table, NoChan
  <2>8. RegisteredIffOpen'
    <3> SUFFICES ASSUME NEW ch \in 1 .. Len(chans')
                 PROVE  chans'[ch].open <=> logSubs'[chans'[ch].req] = ch
      BY DEF RegisteredIffOpen, IsOpen
    <3>1. CASE ch = Len(chans) + 1
      BY <3>1, <2>1, <2>3, <2>4 DEF Table
    <3>2. CASE ch \in 1 .. Len(chans)
      <4>1. chans[ch].req \in Reqs /\ chans'[ch] = chans[ch]
        BY <3>2, <2>3, ChannelAt DEF Table
      <4>2. chans[ch].open <=> logSubs[chans[ch].req] = ch
        BY <3>2 DEF Table, RegisteredIffOpen, IsOpen
      <4> QED
        BY <4>1, <4>2, <3>2, <2>1, <2>5, <1>2 DEF Table, NoChan
    <3> QED
      BY <3>1, <3>2, <2>3, <2>5
  <2>9. Grows
    BY <2>3, <2>5 DEF Grows
  <2>10. logSubs'[r] = Len(chans') /\ \A q \in Reqs \ {r} : logSubs'[q] = logSubs[q]
    BY <2>1, <2>3 DEF Table
  <2>11. logSubs'[r] \in 1 .. Len(chans') /\ chans'[logSubs'[r]].req = r
    BY <2>10, <2>3, <2>4, <2>5
  <2> QED
    BY <2>6, <2>7, <2>8, <2>9, <2>10, <2>11 DEF Table
<1> QED
  BY <1>1, <1>2

\* Closing a subscription retires its request.
LEMMA CloseKeepsTable ==
    ASSUME Table, NEW r \in Reqs, CloseSub(r)
    PROVE  /\ Table' /\ Grows /\ Len(chans') = Len(chans)
           /\ logSubs'[r] = NoChan
           /\ logSubs[r] # NoChan => Retired(r)'
           /\ \A q \in Reqs \ {r} : logSubs'[q] = logSubs[q]
<1>1. CASE logSubs[r] = NoChan
  BY <1>1 DEF CloseSub, Table, ChansOK, Grows, RegisteredIffOpen, IsOpen, NoChan
<1>2. CASE logSubs[r] # NoChan
  <2> DEFINE c == logSubs[r]
  <2>1. c \in 1 .. Len(chans) /\ chans[c].req = r /\ chans[c] \in Channel /\ Len(chans) \in Nat
    BY <1>2 DEF Table, ChansOK, NoChan
  <2>2. chans' = [chans EXCEPT ![c].open = FALSE] /\ logSubs' = [logSubs EXCEPT ![r] = NoChan]
    BY <1>2 DEF CloseSub
  <2> DEFINE closed == [chans[c] EXCEPT !.open = FALSE]
  <2> HIDE DEF c
  <2>9. closed \in Channel /\ closed.req = r /\ closed.msgs = chans[c].msgs /\ ~closed.open
    BY <2>1 DEF Channel
  <2>10. chans' = [chans EXCEPT ![c] = closed]
    BY <2>2
  <2> HIDE DEF closed
  <2>11. /\ chans' \in Seq(Channel) /\ Len(chans') = Len(chans)
         /\ \A ch \in 1 .. Len(chans) : chans'[ch] = IF ch = c THEN closed ELSE chans[ch]
    BY <2>1, <2>9, <2>10, ExceptSeq DEF Table, ChansOK
  <2>3. /\ chans' \in Seq(Channel) /\ Len(chans') = Len(chans)
        /\ \A ch \in 1 .. Len(chans) : /\ chans'[ch].req = chans[ch].req
                                       /\ chans'[ch].msgs = chans[ch].msgs
                                       /\ chans'[ch].open <=> (chans[ch].open /\ ch # c)
    BY <2>1, <2>9, <2>11
  <2>4. ChansOK'
    BY <2>3 DEF Table, ChansOK
  <2>5. /\ logSubs' \in [Reqs -> 0 .. Len(chans')]
        /\ \A q \in Reqs : logSubs'[q] # NoChan => chans'[logSubs'[q]].req = q
    BY <2>1, <2>2, <2>3 DEF Table, NoChan
  <2>6. RegisteredIffOpen'
    <3> SUFFICES ASSUME NEW ch \in 1 .. Len(chans)
                 PROVE  chans'[ch].open <=> logSubs'[chans'[ch].req] = ch
      BY <2>3 DEF RegisteredIffOpen, IsOpen
    <3>1. chans[ch].req \in Reqs /\ (chans[ch].open <=> logSubs[chans[ch].req] = ch)
      BY ChannelAt DEF Table, RegisteredIffOpen, IsOpen
    <3> QED
      BY <3>1, <2>1, <2>2, <2>3 DEF Table, NoChan, c
  <2>7. Grows
    BY <2>3, <2>1 DEF Grows
  <2>8. Retired(r)'
    BY <2>1, <2>3 DEF Retired, IsOpen
  <2> QED
    BY <2>2, <2>3, <2>4, <2>5, <2>6, <2>7, <2>8 DEF Table
<1> QED
  BY <1>1, <1>2

\* Messages go in and out of one channel; the table is as before.
LEMMA MessagesKeepTable ==
    ASSUME Table, NEW c \in 1 .. Len(chans), NEW s \in Seq({"line", "end"}), Len(s) <= Cap,
           chans' = [chans EXCEPT ![c].msgs = s], UNCHANGED logSubs
    PROVE  Table' /\ Grows /\ Len(chans') = Len(chans)
<1> DEFINE moved == [chans[c] EXCEPT !.msgs = s]
           changed == [chans EXCEPT ![c] = moved]
<1>1. chans[c] \in Channel /\ Len(chans) \in Nat /\ chans \in Seq(Channel)
  BY ChannelAt DEF Table, ChansOK
<1>2. /\ moved \in Channel /\ moved.req = chans[c].req /\ moved.open = chans[c].open
      /\ moved.msgs = s
  BY <1>1 DEF Channel
<1>3. chans' = changed
  OBVIOUS
<1> HIDE DEF moved
<1>4. /\ changed \in Seq(Channel) /\ Len(changed) = Len(chans)
      /\ \A ch \in 1 .. Len(chans) : changed[ch] = IF ch = c THEN moved ELSE chans[ch]
  BY ONLY <1>1, <1>2, c \in 1 .. Len(chans), ExceptSeq
<1> HIDE DEF changed
<1>5. /\ chans' \in Seq(Channel) /\ Len(chans') = Len(chans)
      /\ \A ch \in 1 .. Len(chans) : /\ chans'[ch].req = chans[ch].req
                                     /\ chans'[ch].open = chans[ch].open
                                     /\ chans'[ch].msgs = IF ch = c THEN s ELSE chans[ch].msgs
  BY <1>2, <1>3, <1>4
<1>6. ChansOK'
  BY <1>5 DEF Table, ChansOK
<1>7. \A r \in Reqs : logSubs'[r] # NoChan => chans'[logSubs'[r]].req = r
  BY <1>5 DEF Table, NoChan
<1>8. RegisteredIffOpen'
  BY <1>5 DEF Table, RegisteredIffOpen, IsOpen
<1> QED
  BY <1>1, <1>5, <1>6, <1>7, <1>8 DEF Table, Grows

\* What has been retired stays retired.
LEMMA RetiredStays ==
    ASSUME Grows, ChansOK, ChansOK', NEW r, Retired(r)
    PROVE  Retired(r)'
<1>1. Len(chans) \in Nat /\ Len(chans') \in Nat
  BY DEF ChansOK
<1> QED
  BY <1>1 DEF Grows, Retired, IsOpen

\* The table survives a step that does not touch it.
LEMMA TableUntouched ==
    ASSUME Table, UNCHANGED <<logSubs, chans>>
    PROVE  Table' /\ Grows
  BY DEF Table, ChansOK, RegisteredIffOpen, IsOpen, Grows, NoChan

\* What the read loops hold survives any step that only adds or closes channels.
LEMMA PubUntouched ==
    ASSUME Table, Table', Grows, PubOK, UNCHANGED pub
    PROVE  PubOK'
<1>1. Len(chans) \in Nat /\ Len(chans') \in Nat /\ Len(chans') >= Len(chans)
  BY DEF Table, ChansOK, Grows
<1> QED
  BY <1>1 DEF PubOK

\* So does what the streams hold.
LEMMA StreamsUntouched ==
    ASSUME Table, Table', Grows, StreamsOK, UNCHANGED stream
    PROVE  StreamsOK'
<1>1. Len(chans) \in Nat /\ Len(chans') \in Nat /\ Len(chans') >= Len(chans)
  BY DEF Table, ChansOK, Grows
<1>2. \A h \in Streams : stream[h].ch \in 0 .. Len(chans)
  BY DEF StreamsOK
<1> QED
  BY <1>1, <1>2 DEF StreamsOK, Grows, NoChan

\* So do the lines that have looked their channel up.
LEMMA EarlyUntouched ==
    ASSUME Table, Table', Grows, EarlyLogsFindAChannel, UNCHANGED pub
    PROVE  EarlyLogsFindAChannel'
  BY RetiredStays DEF EarlyLogsFindAChannel, Table

\* A request stays covered if its handler subscribes as it begins and a subscription
\* only goes by being closed.
LEMMA CoveredStep ==
    ASSUME Table, Table', Grows, Covered,
           \A r \in Reqs : api'[r].at # "idle" => api[r].at # "idle" \/ logSubs'[r] # NoChan,
           \A r \in Reqs : logSubs'[r] = NoChan => logSubs[r] = NoChan \/ Retired(r)'
    PROVE  Covered'
  BY RetiredStays DEF Covered, Table

\* Nothing is subscribed, asked or open at first.
LEMMA InvariantInit == Init => IInv
<1> SUFFICES ASSUME Init PROVE IInv
  OBVIOUS
<1>1. chans = <<>> /\ Len(chans) = 0 /\ chans \in Seq(Channel)
  BY DEF Init
<1>2. Table
  BY <1>1 DEF Init, Table, ChansOK, RegisteredIffOpen, NoChan
<1>3. CommandsOK
  BY HubLogsAssumption DEF Init, CommandsOK, NotAsked
<1>4. PubOK /\ StreamsOK
  BY <1>1 DEF Init, PubOK, StreamsOK, NoPub, NoStream, NoChan
<1>5. Begun /\ Covered
  BY HubLogsAssumption DEF Init, Begun, Covered, NotAsked
<1>6. EarlyLogsFindAChannel
  BY DEF Init, EarlyLogsFindAChannel, NoPub
<1> QED
  BY <1>2, <1>3, <1>4, <1>5, <1>6 DEF IInv

\* A step of an agent or of a stream that leaves the table alone.
LEMMA StepBesideTable ==
    ASSUME IInv, UNCHANGED <<logSubs, chans>>, UNCHANGED api,
           CommandsOK', PubOK', StreamsOK', Begun', EarlyLogsFindAChannel'
    PROVE  IInv'
<1>1. Table' /\ Grows
  BY TableUntouched DEF IInv
<1>2. Covered'
  BY <1>1, CoveredStep DEF IInv
<1> QED
  BY <1>1, <1>2 DEF IInv

\* A step that changes the table and perhaps a stream, but no agent and no API handler.
LEMMA StepOnTable ==
    ASSUME IInv, Table', Grows, StreamsOK', UNCHANGED <<api, work, up, pub>>,
           \A r \in Reqs : logSubs'[r] = NoChan => logSubs[r] = NoChan \/ Retired(r)'
    PROVE  IInv'
<1>1. CommandsOK' /\ Begun'
  BY DEF IInv, CommandsOK, Begun
<1>2. Covered'
  BY CoveredStep DEF IInv
<1> QED
  BY <1>1, <1>2, PubUntouched, EarlyUntouched DEF IInv

\* The steps of the API handlers.
LEMMA ApiStep ==
    ASSUME IInv, NEW r \in Reqs, Api(r)
    PROVE  IInv'
<1> USE DEF IInv
<1>1. ASSUME NEW targets \in SUBSET Agents, NEW strict \in BOOLEAN, ApiStart(r, targets, strict)
      PROVE  IInv'
  <2>1. /\ Table' /\ Grows /\ logSubs'[r] # NoChan
        /\ \A q \in Reqs \ {r} : logSubs'[q] = logSubs[q]
    BY <1>1, SubscribeKeepsTable DEF ApiStart, NoChan
  <2>2. /\ api' = [api EXCEPT ![r] = [at |-> "sending", todo |-> targets, strict |-> strict]]
        /\ UNCHANGED <<work, up, pub, stream>>
    BY <1>1 DEF ApiStart
  <2>3. CommandsOK' /\ Begun'
    BY <2>2 DEF CommandsOK, Begun
  <2>4. Covered'
    BY <2>1, <2>2, CoveredStep DEF CommandsOK
  <2> QED
    BY <2>1, <2>2, <2>3, <2>4, PubUntouched, StreamsUntouched, EarlyUntouched
<1>2. ASSUME NEW a \in Agents, ApiSend(r, a) PROVE IInv'
  <2>1. /\ api' = [api EXCEPT ![r].todo = @ \ {a}] /\ work' = [work EXCEPT ![a][r] = 0]
        /\ a \in api[r].todo /\ UNCHANGED <<up, pub, logSubs, chans, stream>>
    BY <1>2 DEF ApiSend
  <2>2. CommandsOK' /\ Begun'
    BY <2>1, HubLogsAssumption DEF CommandsOK, Begun, NotAsked
  <2>3. Table' /\ Grows
    BY <2>1, TableUntouched
  <2>4. Covered'
    BY <2>1, <2>3, CoveredStep DEF CommandsOK
  <2> QED
    BY <2>1, <2>2, <2>3, <2>4, PubUntouched, StreamsUntouched, EarlyUntouched
<1>3. ASSUME NEW a \in Agents, ApiSendFails(r, a) PROVE IInv'
  <2>1. a \in api[r].todo /\ UNCHANGED <<work, up, pub, stream>>
    BY <1>3 DEF ApiSendFails
  <2>2. /\ Table' /\ Grows
        /\ \A q \in Reqs : logSubs'[q] = NoChan => logSubs[q] = NoChan \/ Retired(q)'
    BY <1>3, CloseKeepsTable, TableUntouched DEF ApiSendFails
  <2>3. /\ CommandsOK' /\ Begun'
        /\ \A q \in Reqs : api'[q].at # "idle" => api[q].at # "idle"
    <3>1. CASE api[r].strict
      <4>1. api' = [api EXCEPT ![r].at = "failed", ![r].todo = {}]
        BY <1>3, <3>1 DEF ApiSendFails
      <4> QED
        BY <2>1, <4>1 DEF CommandsOK, Begun
    <3>2. CASE ~api[r].strict
      <4>1. api' = [api EXCEPT ![r].todo = @ \ {a}]
        BY <1>3, <3>2 DEF ApiSendFails
      <4> QED
        BY <2>1, <4>1 DEF CommandsOK, Begun
    <3> QED
      BY <3>1, <3>2
  <2>4. Covered'
    BY <2>2, <2>3, CoveredStep
  <2> QED
    BY <2>1, <2>2, <2>3, <2>4, PubUntouched, StreamsUntouched, EarlyUntouched
<1>4. CASE ApiAnswer(r)
  <2>1. /\ api' = [api EXCEPT ![r].at = "answered"] /\ api[r].at = "sending"
        /\ UNCHANGED <<work, up, pub, logSubs, chans, stream>>
    BY <1>4 DEF ApiAnswer
  <2>2. CommandsOK' /\ Begun'
    BY <2>1 DEF CommandsOK, Begun
  <2>3. Table' /\ Grows
    BY <2>1, TableUntouched
  <2>4. Covered'
    BY <2>1, <2>3, CoveredStep DEF CommandsOK
  <2> QED
    BY <2>1, <2>2, <2>3, <2>4, PubUntouched, StreamsUntouched, EarlyUntouched
<1> QED
  BY <1>1, <1>2, <1>3, <1>4 DEF Api

\* The steps of the agents and of the read loops of their connections.
LEMMA AgentStep ==
    ASSUME IInv, NEW a \in Agents, Agent(a)
    PROVE  IInv'
<1> USE DEF IInv
<1>1. ASSUME NEW r \in Reqs, PublishLookup(a, r) PROVE IInv'
  <2>1. /\ pub' = [pub EXCEPT ![a] = [req |-> r, ch |-> logSubs[r], msg |-> NextMessage(a, r)]]
        /\ work' = [work EXCEPT ![a][r] = @ + 1] /\ work[a][r] <= Lines
        /\ UNCHANGED <<api, up, logSubs, chans, stream>>
    BY <1>1 DEF PublishLookup, Progress, Working
  <2>2. /\ logSubs[r] \in Nat /\ logSubs[r] <= Len(chans) /\ Len(chans) \in Nat
        /\ NextMessage(a, r) \in {"line", "end"}
    BY DEF Table, ChansOK, NextMessage
  <2>3. api[r].at # "idle"
    BY <2>1, HubLogsAssumption DEF Begun, NotAsked
  <2>4. CommandsOK' /\ Begun'
    BY <2>1, <2>3, HubLogsAssumption DEF CommandsOK, Begun, NotAsked
  <2>5. PubOK' /\ StreamsOK'
    BY <2>1, <2>2 DEF PubOK, StreamsOK
  <2>6. Table' /\ Grows
    BY <2>1, TableUntouched
  <2>7. EarlyLogsFindAChannel'
    <3>1. Retired(r) => Retired(r)'
      BY <2>6, RetiredStays DEF Table
    <3>2. logSubs[r] = NoChan => Retired(r)'
      BY <2>3, <3>1 DEF Covered
    <3> QED
      BY <2>1, <2>6, <3>2, RetiredStays DEF EarlyLogsFindAChannel, PubOK, Table
  <2> QED
    BY <2>1, <2>4, <2>5, <2>7, StepBesideTable
<1>2. ASSUME NEW r \in Reqs, LogLost(a, r) PROVE IInv'
  <2>1. /\ work' = [work EXCEPT ![a][r] = @ + 1] /\ work[a][r] <= Lines
        /\ UNCHANGED <<api, up, pub, logSubs, chans, stream>>
    BY <1>2 DEF LogLost, Progress, Working
  <2>2. CommandsOK' /\ Begun'
    BY <2>1, HubLogsAssumption DEF CommandsOK, Begun, NotAsked
  <2> QED
    BY <2>1, <2>2, TableUntouched, PubUntouched, StreamsUntouched, EarlyUntouched, StepBesideTable
<1>3. ASSUME UNCHANGED <<api, work, stream>>, up' \subseteq Agents,
             pub' = [pub EXCEPT ![a] = NoPub] \/ UNCHANGED pub
      PROVE  /\ CommandsOK' /\ Begun'
             /\ Table' /\ Grows => PubOK' /\ StreamsOK' /\ EarlyLogsFindAChannel'
  <2>1. CommandsOK' /\ Begun'
    BY <1>3 DEF CommandsOK, Begun
  <2>2. ASSUME Table', Grows PROVE PubOK' /\ StreamsOK' /\ EarlyLogsFindAChannel'
    <3>1. Len(chans) \in Nat /\ Len(chans') \in Nat /\ Len(chans') >= Len(chans)
      BY <2>2 DEF Table, ChansOK, Grows
    <3>5. /\ NoPub \in [req : Reqs \cup {Nothing}, ch : Nat, msg : {"line", "end"}]
          /\ NoPub.ch = 0
      BY DEF NoPub, NoChan
    <3>2. PubOK'
      BY <1>3, <3>1, <3>5 DEF PubOK
    <3>3. \A b \in Agents : pub'[b] = pub[b] \/ pub'[b].req = Nothing
      BY <1>3 DEF PubOK, NoPub
    <3>4. EarlyLogsFindAChannel'
      BY <2>2, <3>3, RetiredStays DEF EarlyLogsFindAChannel, Table
    <3> QED
      BY <1>3, <2>2, <3>2, <3>4, StreamsUntouched
  <2> QED
    BY <2>1, <2>2
<1>4. CASE PublishSend(a)
  <2>1. /\ pub' = [pub EXCEPT ![a] = NoPub] /\ UNCHANGED <<api, work, up, logSubs, stream>>
    BY <1>4 DEF PublishSend
  <2>2. Table' /\ Grows
    <3>1. CASE chans' = chans
      BY <2>1, <3>1, TableUntouched
    <3>2. CASE chans' # chans
      <4> DEFINE c == pub[a].ch
                 s == Append(chans[c].msgs, pub[a].msg)
      <4>1. chans' = [chans EXCEPT ![c].msgs = s] /\ c # NoChan /\ Len(chans[c].msgs) < Cap
        BY <1>4, <3>2 DEF PublishSend
      <4>2. c \in 1 .. Len(chans) /\ pub[a].msg \in {"line", "end"}
        BY <4>1 DEF PubOK, NoChan
      <4>3. chans[c].msgs \in Seq({"line", "end"})
        BY <4>2, ChannelAt DEF Table, Channel
      <4>4. s \in Seq({"line", "end"}) /\ Len(s) = Len(chans[c].msgs) + 1
        BY <4>2, <4>3
      <4>5. Len(s) <= Cap
        BY <4>1, <4>3, <4>4, HubLogsAssumption
      <4> HIDE DEF c, s
      <4> QED
        BY <2>1, <4>1, <4>2, <4>4, <4>5, MessagesKeepTable
    <3> QED
      BY <3>1, <3>2
  <2>3. up' \subseteq Agents
    BY <2>1 DEF CommandsOK
  <2>4. Covered'
    BY <2>1, <2>2, CoveredStep
  <2> QED
    BY <1>3, <2>1, <2>2, <2>3, <2>4
<1>5. CASE PublishPanics(a) \/ Disconnect(a) \/ Reconnect(a)
  <2>1. /\ UNCHANGED <<api, work, stream, logSubs, chans>> /\ up' \subseteq Agents
        /\ pub' = [pub EXCEPT ![a] = NoPub] \/ UNCHANGED pub
    BY <1>5 DEF PublishPanics, Disconnect, Reconnect, CommandsOK
  <2> QED
    BY <1>3, <2>1, TableUntouched, StepBesideTable
<1> QED
  BY <1>1, <1>2, <1>4, <1>5 DEF Agent

\* The steps of the streams.
LEMMA StreamStep ==
    ASSUME IInv, NEW h \in Streams,
           Serve(h) \/ ClientGone(h) \/ \E r \in Reqs : StreamOpen(h, r)
    PROVE  IInv'
<1> USE DEF IInv
<1>1. ASSUME NEW r \in Reqs, StreamOpen(h, r) PROVE IInv'
  <2>1. /\ stream' = [stream EXCEPT ![h] = [at |-> "reading", req |-> r, ch |-> logSubs'[r]]]
        /\ UNCHANGED <<api, work, up, pub>>
    BY <1>1 DEF StreamOpen
  <2>2. /\ Table' /\ Grows
        /\ logSubs'[r] \in 1 .. Len(chans') /\ chans'[logSubs'[r]].req = r
        /\ \A q \in Reqs \ {r} : logSubs'[q] = logSubs[q]
    BY <1>1, SubscribeKeepsTable DEF StreamOpen
  <2>3. StreamsOK'
    <3>1. Len(chans) \in Nat /\ Len(chans') \in Nat /\ Len(chans') >= Len(chans)
      BY <2>2 DEF Table, ChansOK, Grows
    <3>2. \A g \in Streams : stream[g].ch \in 0 .. Len(chans)
      BY DEF StreamsOK
    <3> QED
      BY <2>1, <2>2, <3>1, <3>2 DEF StreamsOK, Grows, NoChan
  <2> QED
    BY <2>1, <2>2, <2>3, StepOnTable DEF NoChan
<1>2. ASSUME stream' = [stream EXCEPT ![h].at = "leaving"] \/ UNCHANGED stream,
             stream[h].at = "reading" \/ UNCHANGED stream,
             Table', Grows
      PROVE  StreamsOK'
  <2>1. Len(chans) \in Nat /\ Len(chans') \in Nat /\ Len(chans') >= Len(chans)
    BY <1>2 DEF Table, ChansOK, Grows
  <2>2. \A g \in Streams : stream[g].ch \in 0 .. Len(chans)
    BY DEF StreamsOK
  <2> QED
    BY <1>2, <2>1, <2>2 DEF StreamsOK, Grows, NoChan
<1>3. CASE StreamRead(h)
  <2> DEFINE c == stream[h].ch
             s == Tail(chans[c].msgs)
  <2>1. /\ chans' = [chans EXCEPT ![c].msgs = s] /\ chans[c].msgs # <<>>
        /\ stream[h].at = "reading"
        /\ stream' = [stream EXCEPT ![h].at = "leaving"] \/ UNCHANGED stream
        /\ UNCHANGED <<api, work, up, pub, logSubs>>
    BY <1>3 DEF StreamRead
  <2>2. c \in 1 .. Len(chans)
    BY <2>1 DEF StreamsOK, NoChan
  <2>3. chans[c].msgs \in Seq({"line", "end"}) /\ Len(chans[c].msgs) <= Cap
    BY <2>2, ChannelAt DEF Table, ChansOK, Channel
  <2>4. s \in Seq({"line", "end"}) /\ Len(s) = Len(chans[c].msgs) - 1
    BY <2>1, <2>3
  <2>5. Len(s) <= Cap
    BY <2>3, <2>4, HubLogsAssumption
  <2> HIDE DEF c, s
  <2>6. Table' /\ Grows
    BY <2>1, <2>2, <2>4, <2>5, MessagesKeepTable
  <2> QED
    BY <1>2, <2>1, <2>6, StepOnTable
<1>4. CASE StreamClosed(h) \/ ClientGone(h)
  <2>1. /\ stream[h].at = "reading" /\ stream' = [stream EXCEPT ![h].at = "leaving"]
        /\ UNCHANGED <<api, work, up, pub, logSubs, chans>>
    BY <1>4 DEF StreamClosed, ClientGone
  <2>2. Table' /\ Grows
    BY <2>1, TableUntouched
  <2> QED
    BY <1>2, <2>1, <2>2, StepOnTable
<1>5. CASE StreamLeave(h)
  <2> DEFINE r == stream[h].req
  <2>1. /\ stream[h].at = "leaving" /\ stream' = [stream EXCEPT ![h].at = "done"]
        /\ CloseSub(r) /\ UNCHANGED <<api, work, up, pub>>
    BY <1>5 DEF StreamLeave
  <2>2. r \in Reqs
    <3>1. stream[h].ch \in 1 .. Len(chans) /\ r = chans[stream[h].ch].req
      BY <2>1 DEF StreamsOK, NoChan
    <3> QED
      BY <3>1, ChannelAt DEF Table
  <2>3. /\ Table' /\ Grows /\ Len(chans') = Len(chans)
        /\ \A q \in Reqs : logSubs'[q] = NoChan => logSubs[q] = NoChan \/ Retired(q)'
    BY <2>1, <2>2, CloseKeepsTable
  <2>4. StreamsOK'
    <3>1. Len(chans) \in Nat /\ \A g \in Streams : stream[g].ch \in 0 .. Len(chans)
      BY DEF StreamsOK, Table, ChansOK
    <3> QED
      BY <2>1, <2>3, <3>1 DEF StreamsOK, Grows, NoChan
  <2> QED
    BY <2>1, <2>3, <2>4, StepOnTable
<1> QED
  BY <1>1, <1>3, <1>4, <1>5 DEF Serve

\* Every step keeps the invariant.
LEMMA InvariantStep ==
    ASSUME IInv, [Next]_vars
    PROVE  IInv'
<1>1. CASE UNCHANGED vars
  BY <1>1 DEF vars, IInv, Table, ChansOK, CommandsOK, PubOK, StreamsOK, Begun, Covered,
     RegisteredIffOpen, IsOpen, Retired, EarlyLogsFindAChannel, NoChan
<1>2. ASSUME NEW r \in Reqs, Expire(r) PROVE IInv'
  <2>1. CloseSub(r) /\ UNCHANGED <<api, work, up, pub, stream>> /\ Table
    BY <1>2 DEF Expire, IInv
  <2>2. /\ Table' /\ Grows
        /\ \A q \in Reqs : logSubs'[q] = NoChan => logSubs[q] = NoChan \/ Retired(q)'
    BY <2>1, CloseKeepsTable
  <2> QED
    BY <2>1, <2>2, StepOnTable, StreamsUntouched DEF IInv
<1> QED
  BY <1>1, <1>2, ApiStep, AgentStep, StreamStep DEF Next

\* The hub's state is well-formed: no channel holds more than its capacity, and a
\* stream reads a channel of the request it was opened for.
THEOREM TypeCorrect == Spec => []TypeOK
<1>1. IInv => TypeOK
  BY DEF IInv, Table, ChansOK, CommandsOK, PubOK, StreamsOK, TypeOK
<1> QED
  BY <1>1, InvariantInit, InvariantStep, PTL DEF Spec

\* Whatever the order of janitor, departing streams and failing commands, a channel
\* is open exactly as long as somebody can still close it: none leaks, none is closed
\* twice (a panic in Go).
THEOREM OpenChannelsAreRegistered == Spec => []RegisteredIffOpen
<1>1. IInv => RegisteredIffOpen
  BY DEF IInv, Table
<1> QED
  BY <1>1, InvariantInit, InvariantStep, PTL DEF Spec

\* "Subscribe BEFORE sending command to avoid losing early logs": a line is without a
\* channel only after a channel of its request has been closed.
THEOREM EarlyLogsAreKept == Spec => []EarlyLogsFindAChannel
<1>1. IInv => EarlyLogsFindAChannel
  BY DEF IInv
<1> QED
  BY <1>1, InvariantInit, InvariantStep, PTL DEF Spec
=============================================================================
