-------------------------- MODULE AgentLink_proofs --------------------------
(***************************************************************************)
(* Proofs about AgentLink for any number of terminals, requests,           *)
(* connections and messages: terminals are released, pages see what a      *)
(* connection carries in order, and everything together does what          *)
(* RemoteSession promises.                                                 *)
(***************************************************************************)
EXTENDS AgentLink, TLAPS

Started == {"relay", "leave", "done"}
PtyMessage(m, s) == m[1] # "answer" /\ m[2] = s

\* A page is opened by its handler, and the handler orders one shell.
PageOpened == \A s \in Sessions : proxy[s] = "none" <=> page[s] = "none"
StartOnce ==
    \A s \in Sessions :
        /\ <<"start", s>> \in orders => shell[s] = "none" /\ proxy[s] \in Started
        /\ shell[s] # "none" => proxy[s] \in Started
        /\ reader[s] # "none" => shell[s] # "none"

\* A key is on its way or heard, and has been typed.
KeysOnce ==
    \A s \in Sessions :
        /\ heard[s] \subseteq 1 .. typed[s]
        /\ \A k \in 1 .. MaxKeys : <<s, k>> \in keys => k \in (1 .. typed[s]) \ heard[s]

\* A page shows what has been read, and not yet the message that is being passed on.
ShownRead ==
    \A s \in Sessions : \A p \in shown[s] :
        0 < p[2] /\ p[2] <= read[p[1]] /\ (busy[p[1]] => p[2] # read[p[1]])

\* Nothing about a terminal follows the note that it is closed.
CloseLast ==
    \A c \in ConnIds, s \in Sessions : \A i \in 1 .. Len(up[c]) :
        up[c][i] = <<"close", s>> =>
            /\ reader[s] \in {"cleanup", "done"}
            /\ \A j \in i + 1 .. Len(up[c]) : ~PtyMessage(up[c][j], s)

\* An answer is a reply of the agent to a question, which it gets once.
Replies ==
    /\ box \subseteq replied
    /\ \A c \in ConnIds : \A i \in 1 .. Len(up[c]) : up[c][i][1] = "answer" => up[c][i][2] \in replied
Questions ==
    \A r \in Requests :
        /\ r \in questions => r \notin replied
        /\ r \in questions \cup replied => request[r] \notin {"idle", "send"}

IInv ==
    /\ TypeOK /\ PageOpened /\ StartOnce /\ SessionsReleased /\ KeysOnce /\ ShownRead /\ CloseLast
    /\ Replies /\ Questions
-----------------------------------------------------------------------------
\* Before the agent has connected there is nothing.
LEMMA InitIInv == Init => IInv
<1> SUFFICES ASSUME Init PROVE IInv
    OBVIOUS
<1> USE AgentLinkAssumption DEF Init
<1>1. TypeOK
      BY DEF TypeOK, NoConn, ConnIds, Messages, Orders, Positions
<1>2. PageOpened /\ StartOnce /\ SessionsReleased /\ KeysOnce /\ ShownRead /\ Questions
      BY DEF PageOpened, StartOnce, SessionsReleased, KeysOnce, ShownRead, Questions
<1>3. CloseLast /\ Replies
      BY DEF CloseLast, Replies, ConnIds
<1>4. QED BY <1>1, <1>2, <1>3 DEF IInv

\* What a message sent does to what has been sent.
LEMMA SendType ==
    ASSUME TypeOK, NEW m \in Messages, Send(m)
    PROVE  /\ up' \in [ConnIds -> Seq(Messages)]
           /\ \A c \in ConnIds : Len(up[c]) <= Len(up'[c])
           /\ \A c \in ConnIds : \A i \in 1 .. Len(up[c]) : up'[c][i] = up[c][i]
           /\ \A c \in ConnIds : \A i \in 1 .. Len(up'[c]) :
                 i > Len(up[c]) => i = Len(up[c]) + 1 /\ up'[c][i] = m /\ c = conn
<1>1. CASE conn = NoConn
      BY <1>1 DEF Send, TypeOK
<1>2. CASE conn # NoConn
  <2>1. conn \in ConnIds
        BY <1>2, AgentLinkAssumption DEF TypeOK, NoConn, ConnIds
  <2>2. /\ up[conn] \in Seq(Messages)
        /\ up' = [up EXCEPT ![conn] = Append(up[conn], m)]
        BY <1>2, <2>1 DEF Send, TypeOK
  <2>3. \A c \in ConnIds : up'[c] = IF c = conn THEN Append(up[conn], m) ELSE up[c]
        BY <2>1, <2>2 DEF TypeOK
  <2>4. \A c \in ConnIds : up[c] \in Seq(Messages)
        BY DEF TypeOK
  <2>5. /\ Append(up[conn], m) \in Seq(Messages)
        /\ Len(Append(up[conn], m)) = Len(up[conn]) + 1
        /\ \A i \in 1 .. Len(up[conn]) : Append(up[conn], m)[i] = up[conn][i]
        /\ Append(up[conn], m)[Len(up[conn]) + 1] = m
        BY <2>2
  <2>6. up' \in [ConnIds -> Seq(Messages)]
        BY <2>1, <2>2, <2>5 DEF TypeOK
  <2>7. \A c \in ConnIds : Len(up[c]) \in Nat
        BY <2>4
  <2>8. QED BY <2>1, <2>3, <2>5, <2>6, <2>7
<1>3. QED BY <1>1, <1>2
-----------------------------------------------------------------------------
(***************************************************************************)
(* The type invariant, for the groups of variables that act together.      *)
(***************************************************************************)

LinkType ==
    /\ load \in Loads /\ unix \in Builds
    /\ conn \in 0 .. MaxConns /\ dialed \in 0 .. MaxConns /\ conn <= dialed
    /\ loop \in [ConnIds -> {"none", "reading", "gone"}]
    /\ registry \in 0 .. MaxConns
    /\ ac \in [Sessions \cup Requests -> 0 .. MaxConns]
UpType ==
    /\ up \in [ConnIds -> Seq(Messages)]
    /\ read \in [ConnIds -> Nat] /\ \A c \in ConnIds : read[c] <= Len(up[c])
    /\ busy \in [ConnIds -> BOOLEAN] /\ \A c \in ConnIds : busy[c] => read[c] > 0
PageType ==
    /\ proxy \in [Sessions -> {"none", "start", "relay", "leave", "done"}]
    /\ page \in [Sessions -> {"none", "open", "gone"}]
    /\ typed \in [Sessions -> 0 .. MaxKeys]
    /\ shown \in [Sessions -> SUBSET Positions]
RequestType ==
    /\ request \in [Requests -> {"idle", "send", "wait", "got", "late", "answered", "failed"}]
    /\ box \subseteq Requests
WorkType ==
    /\ orders \subseteq Orders /\ keys \subseteq Sessions \X (1 .. MaxKeys)
    /\ questions \subseteq Requests /\ replied \subseteq Requests
PtyType ==
    /\ shell \in [Sessions -> {"none", "running", "gone"}]
    /\ tty \in [Sessions -> {"none", "open", "closed"}]
    /\ blocking \subseteq Sessions /\ sessions \subseteq Sessions
    /\ reader \in [Sessions -> {"none", "new", "read", "close", "cleanup", "done"}]
    /\ heard \in [Sessions -> SUBSET (1 .. MaxKeys)]

\* The groups together.
LEMMA TypeGroups == TypeOK <=> LinkType /\ UpType /\ PageType /\ RequestType /\ WorkType /\ PtyType
  BY DEF TypeOK, LinkType, UpType, PageType, RequestType, WorkType, PtyType

\* A function with one value replaced.
LEMMA ExceptType ==
    ASSUME NEW S, NEW T, NEW f \in [S -> T], NEW x \in S, NEW v \in T
    PROVE  [f EXCEPT ![x] = v] \in [S -> T]
  OBVIOUS

\* Connections come and go.
LEMMA StepLink ==
    ASSUME TypeOK, [Next]_vars
    PROVE  LinkType'
<1> USE AgentLinkAssumption DEF TypeOK, LinkType, ConnIds, linkVars
<1>1. CASE Register
  <2>1. dialed' \in ConnIds /\ conn' = dialed' /\ registry' = dialed'
        BY <1>1 DEF Register
  <2>2. loop' \in [ConnIds -> {"none", "reading", "gone"}]
        BY <1>1, <2>1 DEF Register
  <2>3. QED BY <1>1, <2>1, <2>2 DEF Register
<1>2. CASE Disconnect
      BY <1>2 DEF Disconnect, NoConn
<1>3. ASSUME NEW c \in ConnIds, ReadFails(c) PROVE LinkType'
      BY <1>3 DEF ReadFails, EndLoop, NoConn
<1>4. ASSUME NEW c \in ConnIds, WritePanics(c) PROVE LinkType'
      BY <1>4 DEF WritePanics, EndLoop, NoConn
<1>5. ASSUME NEW s \in Sessions, OpenTerminal(s) PROVE LinkType'
      BY <1>5 DEF OpenTerminal, linkVars
<1>6. ASSUME NEW r \in Requests, Ask(r) PROVE LinkType'
      BY <1>6 DEF Ask, linkVars
<1>7. CASE UNCHANGED <<linkVars, ac>>
      BY <1>7
<1>8. QED
      BY <1>1, <1>2, <1>3, <1>4, <1>5, <1>6, <1>7
      DEF Next, HubStep, ProxyStep, RequestStep, ReaderStep, EndLoop, ReadMessage,
          ForwardPty, DeliverResponse, StartTerminal, Resize, TypeKey, LeavePage,
          CloseTerminal, LeaveTerminal, SendRequest, ReceiveAnswer, Timeout,
          ReleaseRequest, PtyStartFails, PtyStart, KeepSession, HandlePtyInput,
          HandlePtyResize, HandlePtyClose, ShellExits, Hangup, ReadOutput, OutputEnds,
          SendPtyClose, ReaderCleansUp, HandleComplete, Done, Send, CleanupPty, vars,
          linkVars, loopVars, pageVars, requestVars, workVars, ptyVars

\* What a read loop is passing on.
LEMMA CurrentMessage ==
    ASSUME TypeOK, NEW c \in ConnIds, busy[c]
    PROVE  /\ read[c] \in 1 .. Len(up[c])
           /\ Current(c) \in Messages
           /\ Current(c)[1] = "answer" => Current(c)[2] \in Requests
           /\ Current(c)[1] # "answer" => Current(c)[2] \in Sessions
<1>1. up[c] \in Seq(Messages) /\ read[c] \in 1 .. Len(up[c])
      BY DEF TypeOK
<1>2. Current(c) \in Messages
      BY <1>1 DEF Current
<1>3. \A m \in Messages : /\ m[1] = "answer" => m[2] \in Requests
                          /\ m[1] # "answer" => m[2] \in Sessions
      BY DEF Messages
<1>4. QED BY <1>1, <1>2, <1>3

\* What the agent sends, and the read loops.
LEMMA StepUp ==
    ASSUME TypeOK, [Next]_vars
    PROVE  UpType'
<1>1. ASSUME NEW c \in ConnIds, ReadMessage(c) PROVE UpType'
  <2>1. up[c] \in Seq(Messages) /\ read[c] \in Nat /\ Len(up[c]) \in Nat
        BY DEF TypeOK
  <2>2. read' = [read EXCEPT ![c] = read[c] + 1] /\ up' = up /\ read[c] < Len(up[c])
        BY <1>1 DEF ReadMessage
  <2>3. \E b \in BOOLEAN : busy' = [busy EXCEPT ![c] = b]
    <3> DEFINE m == up[c][read[c] + 1]
                 b == IF m[1] = "answer" THEN Pending(m[2], c) ELSE Subscribed(m[2])
    <3>1. Pending(m[2], c) \in BOOLEAN /\ Subscribed(m[2]) \in BOOLEAN
          BY DEF Pending, Subscribed
    <3>2. b \in BOOLEAN
      <4>1. CASE m[1] = "answer"
            BY <3>1, <4>1, Zenon
      <4>2. CASE m[1] # "answer"
            BY <3>1, <4>2, Zenon
      <4>3. QED BY <4>1, <4>2
    <3>3. busy' = [busy EXCEPT ![c] = b]
          BY <1>1 DEF ReadMessage
    <3>4. QED BY <3>2, <3>3
  <2>4. /\ busy' \in [ConnIds -> BOOLEAN]
        /\ \A d \in ConnIds \ {c} : busy'[d] = busy[d] /\ read'[d] = read[d]
        /\ read' \in [ConnIds -> Nat] /\ read'[c] = read[c] + 1
        BY <2>1, <2>2, <2>3 DEF TypeOK
  <2>5. read[c] + 1 <= Len(up[c]) /\ read[c] + 1 > 0
        BY <2>1, <2>2
  <2>6. QED BY <2>2, <2>4, <2>5 DEF TypeOK, UpType
<1>2. ASSUME NEW c \in ConnIds, ForwardPty(c) PROVE UpType'
      BY <1>2 DEF ForwardPty, TypeOK, UpType
<1>3. ASSUME NEW c \in ConnIds, WritePanics(c) PROVE UpType'
      BY <1>3 DEF WritePanics, TypeOK, UpType
<1>4. ASSUME NEW c \in ConnIds, DeliverResponse(c) PROVE UpType'
      BY <1>4 DEF DeliverResponse, TypeOK, UpType
<1>5. ASSUME NEW s \in Sessions, PtyStartFails(s) PROVE UpType'
  <2>1. Send(<<"error", s>>) /\ <<"error", s>> \in Messages
        BY <1>5 DEF PtyStartFails, Messages
  <2>2. up' \in [ConnIds -> Seq(Messages)] /\ \A c \in ConnIds : Len(up[c]) <= Len(up'[c])
        BY <2>1, SendType
  <2>3. UNCHANGED loopVars
        BY <1>5 DEF PtyStartFails
  <2>4. \A c \in ConnIds : Len(up[c]) \in Nat /\ Len(up'[c]) \in Nat
        BY <2>2 DEF TypeOK
  <2>5. QED BY <2>2, <2>3, <2>4 DEF TypeOK, UpType, loopVars
<1>6. ASSUME NEW s \in Sessions, ReadOutput(s) PROVE UpType'
  <2>1. Send(<<"output", s>>) /\ <<"output", s>> \in Messages
        BY <1>6 DEF ReadOutput, Messages
  <2>2. up' \in [ConnIds -> Seq(Messages)] /\ \A c \in ConnIds : Len(up[c]) <= Len(up'[c])
        BY <2>1, SendType
  <2>3. UNCHANGED loopVars
        BY <1>6 DEF ReadOutput
  <2>4. \A c \in ConnIds : Len(up[c]) \in Nat /\ Len(up'[c]) \in Nat
        BY <2>2 DEF TypeOK
  <2>5. QED BY <2>2, <2>3, <2>4 DEF TypeOK, UpType, loopVars
<1>7. ASSUME NEW s \in Sessions, SendPtyClose(s) PROVE UpType'
  <2>1. Send(<<"close", s>>) /\ <<"close", s>> \in Messages
        BY <1>7 DEF SendPtyClose, Messages
  <2>2. up' \in [ConnIds -> Seq(Messages)] /\ \A c \in ConnIds : Len(up[c]) <= Len(up'[c])
        BY <2>1, SendType
  <2>3. UNCHANGED loopVars
        BY <1>7 DEF SendPtyClose
  <2>4. \A c \in ConnIds : Len(up[c]) \in Nat /\ Len(up'[c]) \in Nat
        BY <2>2 DEF TypeOK
  <2>5. QED BY <2>2, <2>3, <2>4 DEF TypeOK, UpType, loopVars
<1>8. ASSUME NEW r \in Requests, HandleComplete(r) PROVE UpType'
  <2>1. Send(<<"answer", r>>) /\ <<"answer", r>> \in Messages
        BY <1>8 DEF HandleComplete, Messages
  <2>2. up' \in [ConnIds -> Seq(Messages)] /\ \A c \in ConnIds : Len(up[c]) <= Len(up'[c])
        BY <2>1, SendType
  <2>3. UNCHANGED loopVars
        BY <1>8 DEF HandleComplete
  <2>4. \A c \in ConnIds : Len(up[c]) \in Nat /\ Len(up'[c]) \in Nat
        BY <2>2 DEF TypeOK
  <2>5. QED BY <2>2, <2>3, <2>4 DEF TypeOK, UpType, loopVars
<1>9. CASE UNCHANGED <<up, loopVars>>
      BY <1>9 DEF TypeOK, UpType, loopVars
<1>10. QED
      BY <1>1, <1>2, <1>3, <1>4, <1>5, <1>6, <1>7, <1>8, <1>9
      DEF Next, HubStep, ProxyStep, RequestStep, ReaderStep, Register, Disconnect,
          ReadFails, EndLoop, OpenTerminal, StartTerminal, Resize, TypeKey, LeavePage,
          CloseTerminal, LeaveTerminal, Ask, SendRequest, ReceiveAnswer, Timeout,
          ReleaseRequest, PtyStart, KeepSession, HandlePtyInput, HandlePtyResize,
          HandlePtyClose, ShellExits, Hangup, OutputEnds, ReaderCleansUp, Done, Send,
          CleanupPty, vars, linkVars, loopVars, pageVars, requestVars, workVars, ptyVars

\* Pages and their handlers.
LEMMA StepPage ==
    ASSUME TypeOK, [Next]_vars
    PROVE  PageType'
<1> USE AgentLinkAssumption DEF TypeOK, PageType, pageVars
<1>1. ASSUME NEW c \in ConnIds, ForwardPty(c) PROVE PageType'
  <2>1. read[c] \in Nat /\ <<c, read[c]>> \in Positions
        BY DEF Positions
  <2>2. \/ shown' = shown
        \/ shown' = [shown EXCEPT ![Current(c)[2]] = @ \cup {<<c, read[c]>>}]
        BY <1>1 DEF ForwardPty
  <2>3. shown' \in [Sessions -> SUBSET Positions]
    <3>1. shown \in [Sessions -> SUBSET Positions]
          OBVIOUS
    <3>2. busy[c]
          BY <1>1 DEF ForwardPty
    <3>3. Current(c)[2] \in Sessions
          BY <1>1, <3>2, CurrentMessage DEF ForwardPty
    <3>4. shown[Current(c)[2]] \cup {<<c, read[c]>>} \in SUBSET Positions
          BY <2>1, <3>1, <3>3
    <3>5. [shown EXCEPT ![Current(c)[2]] = shown[Current(c)[2]] \cup {<<c, read[c]>>}]
              \in [Sessions -> SUBSET Positions]
          BY <3>1, <3>3, <3>4, ExceptType, Zenon
    <3>6. QED BY <2>2, <3>1, <3>5, Zenon
  <2>4. QED BY <1>1, <2>3 DEF ForwardPty
<1>2. ASSUME NEW s \in Sessions, OpenTerminal(s) PROVE PageType'
      BY <1>2 DEF OpenTerminal
<1>3. ASSUME NEW s \in Sessions, StartTerminal(s) PROVE PageType'
  <2>1. \E next \in {"relay", "leave"} : proxy' = [proxy EXCEPT ![s] = next]
        BY <1>3 DEF StartTerminal
  <2>2. QED BY <1>3, <2>1 DEF StartTerminal
<1>4. ASSUME NEW s \in Sessions, TypeKey(s) PROVE PageType'
      BY <1>4 DEF TypeKey
<1>5. ASSUME NEW s \in Sessions, LeavePage(s) PROVE PageType'
      BY <1>5 DEF LeavePage
<1>6. ASSUME NEW s \in Sessions, CloseTerminal(s) PROVE PageType'
      BY <1>6 DEF CloseTerminal
<1>7. ASSUME NEW s \in Sessions, LeaveTerminal(s) PROVE PageType'
      BY <1>7 DEF LeaveTerminal
<1>8. CASE UNCHANGED <<pageVars>>
      BY <1>8
<1>9. QED
      BY <1>1, <1>2, <1>3, <1>4, <1>5, <1>6, <1>7, <1>8
      DEF Next, HubStep, ProxyStep, RequestStep, ReaderStep, Register, Disconnect,
          ReadFails, EndLoop, ReadMessage, WritePanics, DeliverResponse, Resize, Ask,
          SendRequest, ReceiveAnswer, Timeout, ReleaseRequest, PtyStartFails, PtyStart,
          KeepSession, HandlePtyInput, HandlePtyResize, HandlePtyClose, ShellExits,
          Hangup, ReadOutput, OutputEnds, SendPtyClose, ReaderCleansUp, HandleComplete,
          Done, Send, CleanupPty, vars, linkVars, loopVars, pageVars, requestVars,
          workVars, ptyVars

\* Requests that wait, and their channels.
LEMMA StepRequest ==
    ASSUME TypeOK, [Next]_vars
    PROVE  RequestType'
<1> USE DEF TypeOK, RequestType, requestVars
<1>1. ASSUME NEW c \in ConnIds, DeliverResponse(c) PROVE RequestType'
      BY <1>1, CurrentMessage DEF DeliverResponse
<1>2. ASSUME NEW r \in Requests, Ask(r) PROVE RequestType'
      BY <1>2 DEF Ask
<1>3. ASSUME NEW r \in Requests, SendRequest(r) PROVE RequestType'
  <2>1. \E next \in {"wait", "late"} : request' = [request EXCEPT ![r] = next]
        BY <1>3 DEF SendRequest
  <2>2. QED BY <1>3, <2>1 DEF SendRequest
<1>4. ASSUME NEW r \in Requests, ReceiveAnswer(r) PROVE RequestType'
      BY <1>4 DEF ReceiveAnswer
<1>5. ASSUME NEW r \in Requests, Timeout(r) PROVE RequestType'
      BY <1>5 DEF Timeout
<1>6. ASSUME NEW r \in Requests, ReleaseRequest(r) PROVE RequestType'
      BY <1>6 DEF ReleaseRequest
<1>7. CASE UNCHANGED <<requestVars>>
      BY <1>7
<1>8. QED
      BY <1>1, <1>2, <1>3, <1>4, <1>5, <1>6, <1>7
      DEF Next, HubStep, ProxyStep, RequestStep, ReaderStep, Register, Disconnect,
          ReadFails, EndLoop, ReadMessage, ForwardPty, WritePanics, OpenTerminal,
          StartTerminal, Resize, TypeKey, LeavePage, CloseTerminal, LeaveTerminal,
          PtyStartFails, PtyStart, KeepSession, HandlePtyInput, HandlePtyResize,
          HandlePtyClose, ShellExits, Hangup, ReadOutput, OutputEnds, SendPtyClose,
          ReaderCleansUp, HandleComplete, Done, Send, CleanupPty, vars, linkVars,
          loopVars, pageVars, requestVars, workVars, ptyVars

\* What is on its way to the agent.
LEMMA StepWork ==
    ASSUME TypeOK, [Next]_vars
    PROVE  WorkType'
<1> USE AgentLinkAssumption DEF TypeOK, WorkType, workVars
<1>1. CASE Disconnect
      BY <1>1 DEF Disconnect
<1>2. ASSUME NEW s \in Sessions, StartTerminal(s) PROVE WorkType'
      BY <1>2 DEF StartTerminal, Orders
<1>3. ASSUME NEW s \in Sessions, Resize(s) PROVE WorkType'
      BY <1>3 DEF Resize, Orders
<1>4. ASSUME NEW s \in Sessions, TypeKey(s) PROVE WorkType'
      BY <1>4 DEF TypeKey
<1>5. ASSUME NEW s \in Sessions, CloseTerminal(s) PROVE WorkType'
      BY <1>5 DEF CloseTerminal, Orders
<1>6. ASSUME NEW r \in Requests, SendRequest(r) PROVE WorkType'
      BY <1>6 DEF SendRequest
<1>7. ASSUME NEW s \in Sessions, PtyStartFails(s) PROVE WorkType'
      BY <1>7 DEF PtyStartFails, Done
<1>8. ASSUME NEW s \in Sessions, PtyStart(s) PROVE WorkType'
      BY <1>8 DEF PtyStart, Done
<1>9. ASSUME NEW s \in Sessions, NEW k \in 1 .. MaxKeys, HandlePtyInput(s, k) PROVE WorkType'
      BY <1>9 DEF HandlePtyInput
<1>10. ASSUME NEW s \in Sessions, HandlePtyResize(s) PROVE WorkType'
      BY <1>10 DEF HandlePtyResize, Done
<1>11. ASSUME NEW s \in Sessions, HandlePtyClose(s) PROVE WorkType'
      BY <1>11 DEF HandlePtyClose, Done
<1>12. ASSUME NEW r \in Requests, HandleComplete(r) PROVE WorkType'
      BY <1>12 DEF HandleComplete
<1>13. CASE UNCHANGED <<workVars>>
      BY <1>13
<1>14. QED
      BY <1>1, <1>2, <1>3, <1>4, <1>5, <1>6, <1>7, <1>8, <1>9, <1>10, <1>11, <1>12,
         <1>13
      DEF Next, HubStep, ProxyStep, RequestStep, ReaderStep, Register, ReadFails, EndLoop,
          ReadMessage, ForwardPty, WritePanics, DeliverResponse, OpenTerminal, LeavePage,
          LeaveTerminal, Ask, ReceiveAnswer, Timeout, ReleaseRequest, KeepSession,
          ShellExits, Hangup, ReadOutput, OutputEnds, SendPtyClose, ReaderCleansUp, Done,
          Send, CleanupPty, vars, linkVars, loopVars, pageVars, requestVars, workVars,
          ptyVars

\* Shells, terminals and their readers.
LEMMA StepPty ==
    ASSUME TypeOK, [Next]_vars
    PROVE  PtyType'
<1> USE DEF TypeOK, PtyType, ptyVars
<1>1. ASSUME NEW s \in Sessions, PtyStart(s) PROVE PtyType'
      BY <1>1 DEF PtyStart
<1>2. ASSUME NEW s \in Sessions, KeepSession(s) PROVE PtyType'
      BY <1>2 DEF KeepSession
<1>3. ASSUME NEW s \in Sessions, NEW k \in 1 .. MaxKeys, HandlePtyInput(s, k) PROVE PtyType'
      BY <1>3 DEF HandlePtyInput
<1>4. ASSUME NEW s \in Sessions, HandlePtyResize(s) PROVE PtyType'
      BY <1>4 DEF HandlePtyResize
<1>5. ASSUME NEW s \in Sessions, HandlePtyClose(s) PROVE PtyType'
      BY <1>5 DEF HandlePtyClose, CleanupPty
<1>6. ASSUME NEW s \in Sessions, ShellExits(s) PROVE PtyType'
      BY <1>6 DEF ShellExits
<1>7. ASSUME NEW s \in Sessions, Hangup(s) PROVE PtyType'
      BY <1>7 DEF Hangup, ShellExits
<1>8. ASSUME NEW s \in Sessions, OutputEnds(s) PROVE PtyType'
      BY <1>8 DEF OutputEnds
<1>9. ASSUME NEW s \in Sessions, SendPtyClose(s) PROVE PtyType'
      BY <1>9 DEF SendPtyClose
<1>10. ASSUME NEW s \in Sessions, ReaderCleansUp(s) PROVE PtyType'
      BY <1>10 DEF ReaderCleansUp, CleanupPty
<1>11. CASE UNCHANGED <<ptyVars>>
      BY <1>11
<1>12. QED
      BY <1>1, <1>2, <1>3, <1>4, <1>5, <1>6, <1>7, <1>8, <1>9, <1>10, <1>11
      DEF Next, HubStep, ProxyStep, RequestStep, ReaderStep, Register, Disconnect,
          ReadFails, EndLoop, ReadMessage, ForwardPty, WritePanics, DeliverResponse,
          OpenTerminal, StartTerminal, Resize, TypeKey, LeavePage, CloseTerminal,
          LeaveTerminal, Ask, SendRequest, ReceiveAnswer, Timeout, ReleaseRequest,
          PtyStartFails, ReadOutput, HandleComplete, Done, Send, CleanupPty, vars,
          linkVars, loopVars, pageVars, requestVars, workVars, ptyVars

\* Every step keeps the type invariant.
LEMMA StepType == ASSUME TypeOK, [Next]_vars PROVE TypeOK'
<1>1. (LinkType /\ UpType /\ PageType /\ RequestType /\ WorkType /\ PtyType)'
      BY StepLink, StepUp, StepPage, StepRequest, StepWork, StepPty
<1>2. QED BY <1>1 DEF TypeOK, LinkType, UpType, PageType, RequestType, WorkType, PtyType
-----------------------------------------------------------------------------
(***************************************************************************)
(* The parts of the invariant.                                             *)
(***************************************************************************)

\* A message that is sent keeps answers replies, if it is none or a reply itself.
LEMMA SentReplies ==
    ASSUME IInv, NEW m \in Messages, Send(m), box' = box, replied \subseteq replied',
           m[1] = "answer" => m[2] \in replied'
    PROVE  Replies'
<1>1. TypeOK /\ Replies
      BY DEF IInv
<1>2. ASSUME NEW c \in ConnIds, NEW i \in 1 .. Len(up'[c]), up'[c][i][1] = "answer"
      PROVE  up'[c][i][2] \in replied'
  <2>1. Len(up[c]) \in Nat /\ Len(up'[c]) \in Nat
        BY <1>1, SendType DEF TypeOK
  <2>2. CASE i <= Len(up[c])
    <3>1. up'[c][i] = up[c][i] /\ i \in 1 .. Len(up[c])
          BY <1>1, <2>1, <2>2, SendType
    <3>2. QED BY <1>1, <1>2, <3>1 DEF Replies
  <2>3. CASE i > Len(up[c])
    <3>1. up'[c][i] = m
          BY <1>1, <2>3, SendType
    <3>2. QED BY <1>2, <3>1
  <2>4. QED BY <2>1, <2>2, <2>3
<1>3. QED BY <1>1, <1>2 DEF Replies

\* A message that is sent is about no terminal that has been said to be closed.
LEMMA SentClose ==
    ASSUME IInv, NEW m \in Messages, Send(m),
           \A s \in Sessions : reader[s] \in {"cleanup", "done"} =>
               reader'[s] \in {"cleanup", "done"} /\ ~PtyMessage(m, s),
           \A s \in Sessions : m = <<"close", s>> => reader'[s] \in {"cleanup", "done"}
    PROVE  CloseLast'
<1>1. TypeOK /\ CloseLast
      BY DEF IInv
<1>2. ASSUME NEW c \in ConnIds, NEW s \in Sessions, NEW i \in 1 .. Len(up'[c]),
             up'[c][i] = <<"close", s>>
      PROVE  /\ reader'[s] \in {"cleanup", "done"}
             /\ \A j \in i + 1 .. Len(up'[c]) : ~PtyMessage(up'[c][j], s)
  <2>1. Len(up[c]) \in Nat /\ Len(up'[c]) \in Nat
    <3>1. up' \in [ConnIds -> Seq(Messages)]
          BY <1>1, SendType
    <3>2. up \in [ConnIds -> Seq(Messages)]
          BY <1>1 DEF TypeOK
    <3>3. QED BY <3>1, <3>2
  <2>2. CASE i <= Len(up[c])
    <3>1. up[c][i] = <<"close", s>> /\ i \in 1 .. Len(up[c])
          BY <1>1, <1>2, <2>1, <2>2, SendType
    <3>2. /\ reader[s] \in {"cleanup", "done"}
          /\ \A j \in i + 1 .. Len(up[c]) : ~PtyMessage(up[c][j], s)
          BY <1>1, <3>1 DEF CloseLast
    <3>3. ASSUME NEW j \in i + 1 .. Len(up'[c]) PROVE ~PtyMessage(up'[c][j], s)
      <4>1. CASE j <= Len(up[c])
            BY <1>1, <2>1, <3>2, <4>1, SendType
      <4>2. CASE j > Len(up[c])
        <5>1. up'[c][j] = m
              BY <1>1, <2>1, <4>2, SendType
        <5>2. QED BY <3>2, <5>1
      <4>3. QED BY <2>1, <4>1, <4>2
    <3>4. QED BY <3>2, <3>3
  <2>3. CASE i > Len(up[c])
    <3>1. up'[c][i] = m /\ i = Len(up[c]) + 1
          BY <1>1, <2>3, SendType
    <3>2. \A j \in i + 1 .. Len(up'[c]) : FALSE
          BY <1>1, <2>1, <3>1, SendType
    <3>3. QED BY <1>2, <3>1, <3>2
  <2>4. QED BY <2>1, <2>2, <2>3
<1>3. QED BY <1>2 DEF CloseLast

\* A page belongs to its handler.
LEMMA StepOpened ==
    ASSUME IInv, [Next]_vars
    PROVE  PageOpened'
<1> USE DEF IInv, TypeOK, PageOpened
<1>1. ASSUME NEW s \in Sessions, OpenTerminal(s) PROVE PageOpened'
      BY <1>1 DEF OpenTerminal
<1>2. ASSUME NEW s \in Sessions, StartTerminal(s) PROVE PageOpened'
      BY <1>2 DEF StartTerminal
<1>3. ASSUME NEW s \in Sessions, LeavePage(s) PROVE PageOpened'
      BY <1>3 DEF LeavePage
<1>4. ASSUME NEW s \in Sessions, CloseTerminal(s) PROVE PageOpened'
      BY <1>4 DEF CloseTerminal
<1>5. ASSUME NEW s \in Sessions, LeaveTerminal(s) PROVE PageOpened'
      BY <1>5 DEF LeaveTerminal
<1>6. CASE UNCHANGED <<proxy, page>>
      BY <1>6
<1>7. QED
      BY <1>1, <1>2, <1>3, <1>4, <1>5, <1>6
      DEF Next, HubStep, ProxyStep, RequestStep, ReaderStep, Register, Disconnect,
          ReadFails, EndLoop, ReadMessage, ForwardPty, WritePanics, DeliverResponse,
          Resize, TypeKey, Ask, SendRequest, ReceiveAnswer, Timeout, ReleaseRequest,
          PtyStartFails, PtyStart, KeepSession, HandlePtyInput, HandlePtyResize,
          HandlePtyClose, ShellExits, Hangup, ReadOutput, OutputEnds, SendPtyClose,
          ReaderCleansUp, HandleComplete, Done, Send, CleanupPty, vars, linkVars,
          loopVars, pageVars, requestVars, workVars, ptyVars

\* A shell is started once, and whoever takes its session out of the table closes the
\* terminal.
LEMMA StepReleased ==
    ASSUME IInv, [Next]_vars
    PROVE  (StartOnce /\ SessionsReleased)'
<1> USE DEF IInv, TypeOK, StartOnce, SessionsReleased, Started, ptyVars, pageVars, workVars
<1>1. CASE Disconnect
      BY <1>1 DEF Disconnect
<1>2. ASSUME NEW s \in Sessions, OpenTerminal(s) PROVE (StartOnce /\ SessionsReleased)'
      BY <1>2 DEF OpenTerminal
<1>3. ASSUME NEW s \in Sessions, StartTerminal(s) PROVE (StartOnce /\ SessionsReleased)'
  <2>0. \E next \in {"relay", "leave"} : proxy' = [proxy EXCEPT ![s] = next]
        BY <1>3 DEF StartTerminal
  <2>1. /\ proxy[s] = "start" /\ proxy' \in [Sessions -> {"none", "start", "relay", "leave", "done"}]
        /\ proxy'[s] \in Started /\ \A t \in Sessions \ {s} : proxy'[t] = proxy[t]
        BY <1>3, <2>0 DEF StartTerminal
  <2>2. orders' \subseteq orders \cup {<<"start", s>>} /\ UNCHANGED <<shell, tty, sessions, reader>>
        BY <1>3 DEF StartTerminal
  <2>3. shell[s] = "none"
        BY <2>1
  <2>4. QED BY <2>1, <2>2, <2>3
<1>4. ASSUME NEW s \in Sessions, Resize(s) PROVE (StartOnce /\ SessionsReleased)'
      BY <1>4 DEF Resize
<1>5. ASSUME NEW s \in Sessions, CloseTerminal(s) PROVE (StartOnce /\ SessionsReleased)'
      BY <1>5 DEF CloseTerminal
<1>6. ASSUME NEW s \in Sessions, LeaveTerminal(s) PROVE (StartOnce /\ SessionsReleased)'
      BY <1>6 DEF LeaveTerminal
<1>7. ASSUME NEW s \in Sessions, PtyStartFails(s) PROVE (StartOnce /\ SessionsReleased)'
      BY <1>7 DEF PtyStartFails, Done
<1>8. ASSUME NEW s \in Sessions, PtyStart(s) PROVE (StartOnce /\ SessionsReleased)'
  <2>1. /\ <<"start", s>> \in orders /\ orders' = orders \ {<<"start", s>>}
        /\ UNCHANGED <<proxy, sessions>>
        BY <1>8 DEF PtyStart, Done
  <2>2. proxy[s] \in Started /\ s \notin sessions
        BY <2>1
  <2>3. /\ shell'[s] = "running" /\ tty'[s] = "open" /\ reader'[s] = "new"
        /\ \A t \in Sessions \ {s} : shell'[t] = shell[t] /\ tty'[t] = tty[t] /\ reader'[t] = reader[t]
        BY <1>8 DEF PtyStart
  <2>4. ASSUME NEW t \in Sessions
        PROVE  /\ <<"start", t>> \in orders' => shell'[t] = "none" /\ proxy'[t] \in Started
               /\ shell'[t] # "none" => proxy'[t] \in Started
               /\ reader'[t] # "none" => shell'[t] # "none"
               /\ tty'[t] = "open" <=> t \in sessions' \/ reader'[t] = "new"
               /\ t \in sessions' => reader'[t] \in {"read", "close", "cleanup"}
    <3>1. CASE t = s
          BY <2>1, <2>2, <2>3, <3>1
    <3>2. CASE t # s
      <4>1. <<"start", t>> \in orders' => <<"start", t>> \in orders
            BY <2>1
      <4>2. shell'[t] = shell[t] /\ tty'[t] = tty[t] /\ reader'[t] = reader[t]
            BY <2>3, <3>2
      <4>3. QED BY <2>1, <4>1, <4>2
    <3>3. QED BY <3>1, <3>2
  <2>5. QED BY <2>4
<1>9. ASSUME NEW s \in Sessions, KeepSession(s) PROVE (StartOnce /\ SessionsReleased)'
      BY <1>9 DEF KeepSession
<1>10. ASSUME NEW s \in Sessions, HandlePtyResize(s) PROVE (StartOnce /\ SessionsReleased)'
      BY <1>10 DEF HandlePtyResize, Done
<1>11. ASSUME NEW s \in Sessions, HandlePtyClose(s) PROVE (StartOnce /\ SessionsReleased)'
      BY <1>11 DEF HandlePtyClose, Done, CleanupPty
<1>12. ASSUME NEW s \in Sessions, ShellExits(s) PROVE (StartOnce /\ SessionsReleased)'
      BY <1>12 DEF ShellExits
<1>13. ASSUME NEW s \in Sessions, Hangup(s) PROVE (StartOnce /\ SessionsReleased)'
      BY <1>13 DEF Hangup, ShellExits
<1>14. ASSUME NEW s \in Sessions, OutputEnds(s) PROVE (StartOnce /\ SessionsReleased)'
      BY <1>14 DEF OutputEnds
<1>15. ASSUME NEW s \in Sessions, SendPtyClose(s) PROVE (StartOnce /\ SessionsReleased)'
      BY <1>15 DEF SendPtyClose
<1>16. ASSUME NEW s \in Sessions, ReaderCleansUp(s) PROVE (StartOnce /\ SessionsReleased)'
      BY <1>16 DEF ReaderCleansUp, CleanupPty
<1>17. CASE UNCHANGED <<orders, proxy, shell, tty, sessions, reader>>
      BY <1>17
<1>18. QED
      BY <1>1, <1>2, <1>3, <1>4, <1>5, <1>6, <1>7, <1>8, <1>9, <1>10, <1>11, <1>12,
         <1>13, <1>14, <1>15, <1>16, <1>17
      DEF Next, HubStep, ProxyStep, RequestStep, ReaderStep, Register, ReadFails, EndLoop,
          ReadMessage, ForwardPty, WritePanics, DeliverResponse, TypeKey, LeavePage, Ask,
          SendRequest, ReceiveAnswer, Timeout, ReleaseRequest, HandlePtyInput, ReadOutput,
          HandleComplete, Done, Send, CleanupPty, vars, linkVars, loopVars, pageVars,
          requestVars, workVars, ptyVars

\* A key is heard once.
LEMMA StepKeys ==
    ASSUME IInv, [Next]_vars
    PROVE  KeysOnce'
<1> USE AgentLinkAssumption DEF IInv, TypeOK, KeysOnce
<1>1. CASE Disconnect
      BY <1>1 DEF Disconnect, pageVars, ptyVars
<1>2. ASSUME NEW s \in Sessions, TypeKey(s) PROVE KeysOnce'
      BY <1>2 DEF TypeKey, ptyVars
<1>3. ASSUME NEW s \in Sessions, NEW k \in 1 .. MaxKeys, HandlePtyInput(s, k) PROVE KeysOnce'
      BY <1>3 DEF HandlePtyInput, pageVars
<1>4. CASE UNCHANGED <<typed, keys, heard>>
      BY <1>4
<1>5. QED
      BY <1>1, <1>2, <1>3, <1>4
      DEF Next, HubStep, ProxyStep, RequestStep, ReaderStep, Register, ReadFails, EndLoop,
          ReadMessage, ForwardPty, WritePanics, DeliverResponse, OpenTerminal,
          StartTerminal, Resize, LeavePage, CloseTerminal, LeaveTerminal, Ask,
          SendRequest, ReceiveAnswer, Timeout, ReleaseRequest, PtyStartFails, PtyStart,
          KeepSession, HandlePtyResize, HandlePtyClose, ShellExits, Hangup, ReadOutput,
          OutputEnds, SendPtyClose, ReaderCleansUp, HandleComplete, Done, Send,
          CleanupPty, vars, linkVars, loopVars, pageVars, requestVars, workVars, ptyVars

\* A page shows what has been read.
LEMMA StepShown ==
    ASSUME IInv, [Next]_vars
    PROVE  ShownRead'
<1> USE DEF IInv, TypeOK, ShownRead, Positions, loopVars
<1>1. ASSUME NEW c \in ConnIds, ReadMessage(c) PROVE ShownRead'
      BY <1>1 DEF ReadMessage, pageVars
<1>2. ASSUME NEW c \in ConnIds, ForwardPty(c) PROVE ShownRead'
      BY <1>2 DEF ForwardPty
<1>3. ASSUME NEW c \in ConnIds, WritePanics(c) PROVE ShownRead'
      BY <1>3 DEF WritePanics, pageVars
<1>4. ASSUME NEW c \in ConnIds, DeliverResponse(c) PROVE ShownRead'
      BY <1>4 DEF DeliverResponse, pageVars
<1>5. CASE UNCHANGED <<shown, loopVars>>
      BY <1>5
<1>6. QED
      BY <1>1, <1>2, <1>3, <1>4, <1>5
      DEF Next, HubStep, ProxyStep, RequestStep, ReaderStep, Register, Disconnect,
          ReadFails, EndLoop, OpenTerminal, StartTerminal, Resize, TypeKey, LeavePage,
          CloseTerminal, LeaveTerminal, Ask, SendRequest, ReceiveAnswer, Timeout,
          ReleaseRequest, PtyStartFails, PtyStart, KeepSession, HandlePtyInput,
          HandlePtyResize, HandlePtyClose, ShellExits, Hangup, ReadOutput, OutputEnds,
          SendPtyClose, ReaderCleansUp, HandleComplete, Done, Send, CleanupPty, vars,
          linkVars, loopVars, pageVars, requestVars, workVars, ptyVars

\* An answer is a reply.
LEMMA StepReplies ==
    ASSUME IInv, [Next]_vars
    PROVE  Replies'
<1> USE DEF IInv, TypeOK, Replies
<1>1. ASSUME NEW c \in ConnIds, DeliverResponse(c) PROVE Replies'
  <2>1. busy[c] /\ Current(c)[1] = "answer"
        BY <1>1 DEF DeliverResponse
  <2>2. Current(c)[2] \in replied
        BY <2>1, CurrentMessage DEF Current
  <2>3. QED BY <1>1, <2>2 DEF DeliverResponse, workVars
<1>2. ASSUME NEW r \in Requests, ReceiveAnswer(r) PROVE Replies'
      BY <1>2 DEF ReceiveAnswer, workVars
<1>3. ASSUME NEW s \in Sessions, PtyStartFails(s) PROVE Replies'
      BY <1>3, SentReplies DEF PtyStartFails, Messages, requestVars
<1>4. ASSUME NEW s \in Sessions, ReadOutput(s) PROVE Replies'
      BY <1>4, SentReplies DEF ReadOutput, Messages, requestVars, workVars
<1>5. ASSUME NEW s \in Sessions, SendPtyClose(s) PROVE Replies'
      BY <1>5, SentReplies DEF SendPtyClose, Messages, requestVars, workVars
<1>6. ASSUME NEW r \in Requests, HandleComplete(r) PROVE Replies'
      BY <1>6, SentReplies DEF HandleComplete, Messages, requestVars
<1>7. CASE UNCHANGED <<up, box, replied>>
      BY <1>7
<1>8. QED
      BY <1>1, <1>2, <1>3, <1>4, <1>5, <1>6, <1>7
      DEF Next, HubStep, ProxyStep, RequestStep, ReaderStep, Register, Disconnect,
          ReadFails, EndLoop, ReadMessage, ForwardPty, WritePanics, OpenTerminal,
          StartTerminal, Resize, TypeKey, LeavePage, CloseTerminal, LeaveTerminal, Ask,
          SendRequest, Timeout, ReleaseRequest, PtyStart, KeepSession, HandlePtyInput,
          HandlePtyResize, HandlePtyClose, ShellExits, Hangup, OutputEnds, ReaderCleansUp,
          Done, Send, CleanupPty, vars, linkVars, loopVars, pageVars, requestVars,
          workVars, ptyVars

\* A question is replied to once.
LEMMA StepQuestions ==
    ASSUME IInv, [Next]_vars
    PROVE  Questions'
<1> USE DEF IInv, TypeOK, Questions
<1>1. CASE Disconnect
      BY <1>1 DEF Disconnect, requestVars
<1>2. ASSUME NEW r \in Requests, Ask(r) PROVE Questions'
      BY <1>2 DEF Ask, workVars
<1>3. ASSUME NEW r \in Requests, SendRequest(r) PROVE Questions'
  <2>1. /\ request[r] = "send" /\ request'[r] \in {"wait", "late"}
        /\ \A q \in Requests \ {r} : request'[q] = request[q]
        BY <1>3 DEF SendRequest
  <2>2. questions' \subseteq questions \cup {r} /\ UNCHANGED replied
        BY <1>3 DEF SendRequest
  <2>3. r \notin replied
        BY <2>1
  <2>4. QED BY <2>1, <2>2, <2>3
<1>4. ASSUME NEW r \in Requests, ReceiveAnswer(r) PROVE Questions'
      BY <1>4 DEF ReceiveAnswer, workVars
<1>5. ASSUME NEW r \in Requests, Timeout(r) PROVE Questions'
      BY <1>5 DEF Timeout, workVars
<1>6. ASSUME NEW r \in Requests, ReleaseRequest(r) PROVE Questions'
      BY <1>6 DEF ReleaseRequest, workVars
<1>7. ASSUME NEW r \in Requests, HandleComplete(r) PROVE Questions'
      BY <1>7 DEF HandleComplete, requestVars
<1>8. CASE UNCHANGED <<questions, replied, request>>
      BY <1>8
<1>9. QED
      BY <1>1, <1>2, <1>3, <1>4, <1>5, <1>6, <1>7, <1>8
      DEF Next, HubStep, ProxyStep, RequestStep, ReaderStep, Register, ReadFails, EndLoop,
          ReadMessage, ForwardPty, WritePanics, DeliverResponse, OpenTerminal,
          StartTerminal, Resize, TypeKey, LeavePage, CloseTerminal, LeaveTerminal,
          PtyStartFails, PtyStart, KeepSession, HandlePtyInput, HandlePtyResize,
          HandlePtyClose, ShellExits, Hangup, ReadOutput, OutputEnds, SendPtyClose,
          ReaderCleansUp, Done, Send, CleanupPty, vars, linkVars, loopVars, pageVars,
          requestVars, workVars, ptyVars

\* Nothing follows the note that a terminal is closed.
LEMMA StepClose ==
    ASSUME IInv, [Next]_vars
    PROVE  CloseLast'
<1> USE DEF IInv
<1>0. /\ \A s \in Sessions : <<"output", s>> \in Messages
      /\ \A s \in Sessions : <<"close", s>> \in Messages
      /\ \A s \in Sessions : <<"error", s>> \in Messages
      /\ \A r \in Requests : <<"answer", r>> \in Messages
      BY DEF Messages
<1>1. ASSUME NEW s \in Sessions, PtyStartFails(s) PROVE CloseLast'
  <2>1. reader[s] = "none" /\ UNCHANGED reader
        BY <1>1 DEF PtyStartFails, Done, StartOnce, ptyVars
  <2>2. Send(<<"error", s>>)
        BY <1>1 DEF PtyStartFails
  <2>3. <<"error", s>> \in Messages
        BY <1>0
  <2>4. /\ \A t \in Sessions : reader[t] \in {"cleanup", "done"} =>
              reader'[t] \in {"cleanup", "done"} /\ ~PtyMessage(<<"error", s>>, t)
        /\ \A t \in Sessions : <<"error", s>> = <<"close", t>> => reader'[t] \in {"cleanup", "done"}
        BY <2>1 DEF PtyMessage
  <2>5. QED BY <2>2, <2>3, <2>4, SentClose
<1>2. ASSUME NEW s \in Sessions, PtyStart(s) PROVE CloseLast'
  <2>1. reader[s] = "none" /\ UNCHANGED up
        BY <1>2 DEF PtyStart, Done, StartOnce
  <2>2. \A t \in Sessions : reader[t] \in {"cleanup", "done"} => reader'[t] = reader[t]
        BY <1>2, <2>1 DEF PtyStart, TypeOK
  <2>3. CloseLast
        OBVIOUS
  <2>4. QED BY <2>1, <2>2, <2>3 DEF CloseLast
<1>3. ASSUME NEW s \in Sessions, KeepSession(s) PROVE CloseLast'
  <2>1. \A t \in Sessions : reader[t] \in {"cleanup", "done"} => reader'[t] \in {"cleanup", "done"}
        BY <1>3 DEF KeepSession, TypeOK
  <2>2. CloseLast /\ UNCHANGED up
        BY <1>3 DEF KeepSession
  <2>3. QED BY <2>1, <2>2 DEF CloseLast
<1>4. ASSUME NEW s \in Sessions, ReadOutput(s) PROVE CloseLast'
  <2>1. reader[s] = "read" /\ UNCHANGED reader /\ Send(<<"output", s>>)
        BY <1>4 DEF ReadOutput, ptyVars
  <2>2. <<"output", s>> \in Messages
        BY <1>0
  <2>3. /\ \A t \in Sessions : reader[t] \in {"cleanup", "done"} =>
              reader'[t] \in {"cleanup", "done"} /\ ~PtyMessage(<<"output", s>>, t)
        /\ \A t \in Sessions : <<"output", s>> = <<"close", t>> => reader'[t] \in {"cleanup", "done"}
        BY <2>1 DEF PtyMessage
  <2>4. QED BY <2>1, <2>2, <2>3, SentClose
<1>5. ASSUME NEW s \in Sessions, OutputEnds(s) PROVE CloseLast'
  <2>1. \A t \in Sessions : reader[t] \in {"cleanup", "done"} => reader'[t] \in {"cleanup", "done"}
        BY <1>5 DEF OutputEnds, TypeOK
  <2>2. CloseLast /\ UNCHANGED up
        BY <1>5 DEF OutputEnds
  <2>3. QED BY <2>1, <2>2 DEF CloseLast
<1>6. ASSUME NEW s \in Sessions, SendPtyClose(s) PROVE CloseLast'
  <2>1. reader[s] = "close" /\ Send(<<"close", s>>)
        BY <1>6 DEF SendPtyClose
  <2>2. reader'[s] = "cleanup" /\ \A t \in Sessions \ {s} : reader'[t] = reader[t]
        BY <1>6 DEF SendPtyClose, TypeOK
  <2>3. <<"close", s>> \in Messages
        BY <1>0
  <2>4. /\ \A t \in Sessions : reader[t] \in {"cleanup", "done"} =>
              reader'[t] \in {"cleanup", "done"} /\ ~PtyMessage(<<"close", s>>, t)
        /\ \A t \in Sessions : <<"close", s>> = <<"close", t>> => reader'[t] \in {"cleanup", "done"}
        BY <2>1, <2>2 DEF PtyMessage
  <2>5. QED BY <2>1, <2>3, <2>4, SentClose
<1>7. ASSUME NEW s \in Sessions, ReaderCleansUp(s) PROVE CloseLast'
  <2>1. \A t \in Sessions : reader[t] \in {"cleanup", "done"} => reader'[t] \in {"cleanup", "done"}
        BY <1>7 DEF ReaderCleansUp, TypeOK
  <2>2. CloseLast /\ UNCHANGED up
        BY <1>7 DEF ReaderCleansUp
  <2>3. QED BY <2>1, <2>2 DEF CloseLast
<1>8. ASSUME NEW r \in Requests, HandleComplete(r) PROVE CloseLast'
  <2>1. UNCHANGED reader /\ Send(<<"answer", r>>)
        BY <1>8 DEF HandleComplete, ptyVars
  <2>2. <<"answer", r>> \in Messages
        BY <1>0
  <2>3. /\ \A t \in Sessions : reader[t] \in {"cleanup", "done"} =>
              reader'[t] \in {"cleanup", "done"} /\ ~PtyMessage(<<"answer", r>>, t)
        /\ \A t \in Sessions : <<"answer", r>> = <<"close", t>> => reader'[t] \in {"cleanup", "done"}
        BY <2>1 DEF PtyMessage
  <2>4. QED BY <2>1, <2>2, <2>3, SentClose
<1>9. CASE UNCHANGED <<up, reader>>
      BY <1>9 DEF CloseLast
<1>10. QED
      BY <1>1, <1>2, <1>3, <1>4, <1>5, <1>6, <1>7, <1>8, <1>9
      DEF Next, HubStep, ProxyStep, RequestStep, ReaderStep, Register, Disconnect,
          ReadFails, EndLoop, ReadMessage, ForwardPty, WritePanics, DeliverResponse,
          OpenTerminal, StartTerminal, Resize, TypeKey, LeavePage, CloseTerminal,
          LeaveTerminal, Ask, SendRequest, ReceiveAnswer, Timeout, ReleaseRequest,
          HandlePtyInput, HandlePtyResize, HandlePtyClose, ShellExits, Hangup, Done, Send,
          CleanupPty, vars, linkVars, loopVars, pageVars, requestVars, workVars, ptyVars

\* Every step keeps the invariant.
LEMMA StepIInv == IInv /\ [Next]_vars => IInv'
<1> SUFFICES ASSUME IInv, [Next]_vars PROVE IInv'
    OBVIOUS
<1>1. TypeOK'
      BY StepType DEF IInv
<1>2. (PageOpened /\ StartOnce /\ SessionsReleased /\ KeysOnce /\ ShownRead)'
      BY StepOpened, StepReleased, StepKeys, StepShown
<1>3. (CloseLast /\ Replies /\ Questions)'
      BY StepClose, StepReplies, StepQuestions
<1>4. QED BY <1>1, <1>2, <1>3 DEF IInv

\* The invariant of every behaviour.
LEMMA Invariance == Spec => []IInv
  BY InitIInv, StepIInv, PTL DEF Spec

\* The variables have their types.
THEOREM TypeCorrect == Spec => []TypeOK
<1>1. IInv => TypeOK BY DEF IInv
<1>2. QED BY <1>1, Invariance, PTL

\* Terminals are open exactly while their sessions are in the table or about to be put
\* there, and every session has a reader that will take it out.
THEOREM TerminalsAreReleased == Spec => []SessionsReleased
<1>1. IInv => SessionsReleased BY DEF IInv
<1>2. QED BY <1>1, Invariance, PTL
-----------------------------------------------------------------------------
(***************************************************************************)
(* What pages see.                                                         *)
(***************************************************************************)

InOrder ==
    \A s \in Sessions : \A new \in shown'[s] \ shown[s], old \in shown[s] :
        new[1] = old[1] => old[2] < new[2] /\ up[old[1]][old[2]] # <<"close", s>>

\* Only a read loop shows something, and what it shows comes after what it has shown.
LEMMA StepInOrder ==
    ASSUME IInv, [Next]_vars
    PROVE  InOrder
<1>1. ASSUME NEW c \in ConnIds, ForwardPty(c) PROVE InOrder
  <2>1. TypeOK /\ ShownRead /\ CloseLast /\ busy[c]
        BY <1>1 DEF IInv, ForwardPty
  <2>2. /\ read[c] \in 1 .. Len(up[c]) /\ Current(c)[2] \in Sessions /\ Len(up[c]) \in Nat
        /\ Current(c)[1] # "answer"
    <3>1. Current(c)[1] # "answer"
          BY <1>1 DEF ForwardPty
    <3>2. read[c] \in 1 .. Len(up[c]) /\ Current(c)[2] \in Sessions
          BY <2>1, <3>1, CurrentMessage
    <3>3. up[c] \in Seq(Messages)
          BY <2>1 DEF TypeOK
    <3>4. QED BY <3>1, <3>2, <3>3
  <2>3. \A s \in Sessions : \A new \in shown'[s] \ shown[s] :
            new = <<c, read[c]>> /\ s = Current(c)[2]
        BY <1>1, <2>1, <2>2 DEF ForwardPty, TypeOK
  <2>4. ASSUME NEW s \in Sessions, NEW new \in shown'[s] \ shown[s], NEW old \in shown[s],
               new[1] = old[1]
        PROVE  old[2] < new[2] /\ up[old[1]][old[2]] # <<"close", s>>
    <3>1. new = <<c, read[c]>> /\ s = Current(c)[2] /\ old[1] = c
          BY <2>3, <2>4
    <3>2. old[2] \in Nat
          BY <2>1 DEF TypeOK, Positions
    <3>3. 0 < old[2] /\ old[2] < read[c]
          BY <2>1, <2>2, <3>1, <3>2 DEF ShownRead
    <3>4. old[2] \in 1 .. Len(up[c]) /\ read[c] \in old[2] + 1 .. Len(up[c])
          BY <2>2, <3>2, <3>3
    <3>5. PtyMessage(up[c][read[c]], s)
          BY <2>2, <3>1 DEF PtyMessage, Current
    <3>6. up[c][old[2]] # <<"close", s>>
          BY <2>1, <3>4, <3>5 DEF CloseLast
    <3>7. QED BY <3>1, <3>3, <3>6
  <2>5. QED BY <2>4 DEF InOrder
<1>2. CASE UNCHANGED <<shown>>
      BY <1>2 DEF InOrder
<1>3. QED
      BY <1>1, <1>2
      DEF Next, HubStep, ProxyStep, RequestStep, ReaderStep, Register, Disconnect,
          ReadFails, EndLoop, ReadMessage, WritePanics, DeliverResponse, OpenTerminal,
          StartTerminal, Resize, TypeKey, LeavePage, CloseTerminal, LeaveTerminal, Ask,
          SendRequest, ReceiveAnswer, Timeout, ReleaseRequest, PtyStartFails, PtyStart,
          KeepSession, HandlePtyInput, HandlePtyResize, HandlePtyClose, ShellExits,
          Hangup, ReadOutput, OutputEnds, SendPtyClose, ReaderCleansUp, HandleComplete,
          Done, Send, CleanupPty, vars, linkVars, loopVars, pageVars, requestVars,
          workVars, ptyVars

\* A page sees what a connection carries in its order, and nothing after the note that
\* the terminal is closed.
THEOREM PagesSeeOrder == Spec => ShownInOrder
<1>1. IInv /\ [Next]_vars => [InOrder]_vars
      BY StepInOrder
<1>2. QED BY <1>1, Invariance, PTL DEF Spec, ShownInOrder, InOrder
-----------------------------------------------------------------------------
(***************************************************************************)
(* The refinement.                                                         *)
(***************************************************************************)

\* Nothing has been written, shown, typed or asked.
LEMMA InitPromise == Init => Promise!Init
  BY DEF Init, Promise!Init, Outputs, Pieces, ConnIds, Written, Displayed, Known

\* A message that is no output, and a message that is lost, leave what has been written.
LEMMA NothingWritten ==
    ASSUME TypeOK, NEW m \in Messages, Send(m), m[1] # "output" \/ conn = NoConn
    PROVE  Written' = Written
<1>1. CASE conn = NoConn
      BY <1>1 DEF Send, Written, Outputs
<1>2. CASE conn # NoConn
  <2>1. \A c \in ConnIds : Len(up[c]) \in Nat /\ Len(up'[c]) \in Nat
        BY SendType DEF TypeOK
  <2>2. ASSUME NEW s \in Sessions, NEW p \in Pieces
        PROVE  /\ p[2] <= Len(up[p[1]]) /\ up[p[1]][p[2]] = <<"output", s>>
               <=> p[2] <= Len(up'[p[1]]) /\ up'[p[1]][p[2]] = <<"output", s>>
    <3>1. p[1] \in ConnIds /\ p[2] \in Nat /\ 0 < p[2]
          BY AgentLinkAssumption DEF Pieces
    <3>2. CASE p[2] <= Len(up[p[1]])
      <4>1. p[2] \in 1 .. Len(up[p[1]])
            BY <2>1, <3>1, <3>2
      <4>2. up'[p[1]][p[2]] = up[p[1]][p[2]] /\ p[2] <= Len(up'[p[1]])
            BY <2>1, <3>1, <4>1, SendType
      <4>3. QED BY <3>2, <4>2
    <3>3. CASE ~(p[2] <= Len(up[p[1]]))
      <4>1. ASSUME p[2] <= Len(up'[p[1]]) PROVE up'[p[1]][p[2]] = m
            BY <2>1, <3>1, <3>3, <4>1, SendType
      <4>2. m # <<"output", s>>
            BY <1>2
      <4>3. QED BY <3>3, <4>1, <4>2
    <3>4. QED BY <3>2, <3>3
  <2>3. \A s \in Sessions : Outputs(s)' = Outputs(s)
        BY <2>2 DEF Outputs, Pieces, ConnIds
  <2>4. QED BY <2>3 DEF Written
<1>3. QED BY <1>1, <1>2

\* Where nothing is written or shown, the page displays what it did.
LEMMA SameDisplay ==
    ASSUME Written' = Written, UNCHANGED shown
    PROVE  Displayed' = Displayed
<1>1. \A s \in Sessions : Outputs(s)' = Outputs(s)
      BY Zenon DEF Written
<1>2. QED BY <1>1 DEF Displayed

\* Output that reaches the connection is written by a running shell.
LEMMA OutputIsWritten ==
    ASSUME IInv, NEW s \in Sessions, ReadOutput(s)
    PROVE  Promise!Write(s) \/ UNCHANGED Promise!vars
<1>1. /\ Send(<<"output", s>>) /\ <<"output", s>> \in Messages /\ shell[s] = "running"
      /\ UNCHANGED <<page, typed, shown, request, replied, shell, heard>>
      BY DEF ReadOutput, Messages, pageVars, requestVars, workVars, ptyVars
<1>2. TypeOK /\ ShownRead
      BY DEF IInv
<1>3. Known' = Known
      BY <1>1 DEF Known
<1>4. CASE conn = NoConn
  <2>1. Written' = Written
        BY <1>1, <1>2, <1>4, NothingWritten
  <2>2. Displayed' = Displayed
        BY <1>1, <2>1, SameDisplay
  <2>3. QED BY <1>1, <1>3, <2>1, <2>2 DEF Promise!vars
<1>5. CASE conn # NoConn
  <2> DEFINE p == <<conn, Len(up[conn]) + 1>>
  <2>1. conn \in ConnIds /\ Len(up[conn]) \in Nat /\ Len(up[conn]) < MaxMessages
        BY <1>2, <1>5, AgentLinkAssumption DEF TypeOK, NoConn, ConnIds, ReadOutput
  <2>2. p \in Pieces
        BY <2>1, AgentLinkAssumption DEF Pieces
  <2>3. \A t \in Sessions : p \notin Outputs(t)
        BY <2>1 DEF Outputs
  <2>4. \A c \in ConnIds : Len(up[c]) \in Nat /\ Len(up'[c]) \in Nat
    <3>1. up \in [ConnIds -> Seq(Messages)]
          BY <1>2 DEF TypeOK
    <3>2. up' \in [ConnIds -> Seq(Messages)]
          BY <1>1, <1>2, SendType
    <3>3. QED BY <3>1, <3>2
  <2>5. up' = [up EXCEPT ![conn] = Append(@, <<"output", s>>)]
        BY <1>1, <1>5 DEF Send
  <2>6. up'[conn] = Append(up[conn], <<"output", s>>) /\ up[conn] \in Seq(Messages)
        BY <1>2, <2>1, <2>5 DEF TypeOK
  <2>7. Len(up'[conn]) = Len(up[conn]) + 1 /\ up'[conn][Len(up[conn]) + 1] = <<"output", s>>
        BY <1>1, <2>6
  <2>8. \A t \in Sessions : \A q \in Pieces :
            q \in Outputs(t)' <=> q \in Outputs(t) \/ (q = p /\ t = s)
    <3> SUFFICES ASSUME NEW t \in Sessions, NEW q \in Pieces
                 PROVE  q \in Outputs(t)' <=> q \in Outputs(t) \/ (q = p /\ t = s)
        OBVIOUS
    <3>1. q[1] \in ConnIds /\ q[2] \in Nat /\ 0 < q[2] /\ q = <<q[1], q[2]>>
          BY AgentLinkAssumption DEF Pieces
    <3>2. CASE q[2] <= Len(up[q[1]])
      <4>1. q[2] \in 1 .. Len(up[q[1]])
            BY <2>4, <3>1, <3>2
      <4>2. up'[q[1]][q[2]] = up[q[1]][q[2]] /\ q[2] <= Len(up'[q[1]])
            BY <1>1, <1>2, <2>4, <3>1, <4>1, SendType
      <4>3. q # p
            BY <2>1, <3>2
      <4>4. QED BY <3>2, <4>2, <4>3 DEF Outputs, Pieces, ConnIds
    <3>3. CASE ~(q[2] <= Len(up[q[1]]))
      <4>1. ASSUME q[2] <= Len(up'[q[1]])
            PROVE  q = p /\ up'[q[1]][q[2]] = <<"output", s>>
            BY <1>1, <1>2, <2>4, <3>1, <3>3, <4>1, SendType
      <4>2. q = p => q[2] <= Len(up'[q[1]]) /\ up'[q[1]][q[2]] = <<"output", s>>
            BY <2>1, <2>4, <2>7
      <4>3. <<"output", s>> = <<"output", t>> <=> s = t
            OBVIOUS
      <4>4. QED BY <3>3, <4>1, <4>2, <4>3 DEF Outputs, Pieces, ConnIds
    <3>4. QED BY <3>2, <3>3
  <2>9. \A t \in Sessions : Outputs(t) \subseteq Pieces /\ Outputs(t)' \subseteq Pieces
        BY DEF Outputs, Pieces, ConnIds
  <2>10. Written' = [Written EXCEPT ![s] = @ \cup {p}]
        BY <2>2, <2>8, <2>9 DEF Written
  <2>11. \A t \in Sessions : p \notin shown[t]
        BY <1>2, <2>1 DEF ShownRead, TypeOK
  <2>12. Displayed' = Displayed
        BY <1>1, <2>8, <2>9, <2>11 DEF Displayed
  <2>13. \A t \in Sessions : p \notin Written[t]
        BY <2>3 DEF Written
  <2>14. QED BY <1>1, <1>3, <2>2, <2>10, <2>12, <2>13 DEF Promise!Write
<1>6. QED BY <1>4, <1>5

\* What a read loop passes on to an open page is shown once.
LEMMA OutputIsShown ==
    ASSUME IInv, NEW c \in ConnIds, ForwardPty(c)
    PROVE  (\E s \in Sessions : Promise!Show(s)) \/ UNCHANGED Promise!vars
<1> DEFINE s == Current(c)[2]
           p == <<c, read[c]>>
<1>1. TypeOK /\ ShownRead /\ busy[c] /\ s \in Sessions /\ read[c] \in 1 .. Len(up[c])
      BY CurrentMessage DEF IInv, ForwardPty
<1>2. /\ UNCHANGED <<up, page, typed, request, replied, shell, heard>>
      /\ shown' = IF page[s] = "open" THEN [shown EXCEPT ![s] = @ \cup {p}] ELSE shown
      BY DEF ForwardPty, requestVars, workVars, ptyVars
<1> HIDE DEF s
<1>3. Known' = Known /\ Written' = Written /\ \A t \in Sessions : Outputs(t)' = Outputs(t)
      BY <1>2 DEF Known, Written, Outputs
<1>4. \A t \in Sessions :
          shown'[t] = IF t = s /\ page[s] = "open" THEN shown[t] \cup {p} ELSE shown[t]
      BY <1>1, <1>2 DEF TypeOK
<1>5. CASE page[s] = "open" /\ p \in Outputs(s)
  <2>1. p \notin shown[s]
        BY <1>1 DEF ShownRead
  <2>2. p \in Written[s] \ Displayed[s]
        BY <1>1, <1>5, <2>1 DEF Written, Displayed
  <2>3. Displayed' = [Displayed EXCEPT ![s] = @ \cup {p}]
    <3>1. \A t \in Sessions : shown'[t] \cap Outputs(t) =
              IF t = s THEN (shown[t] \cap Outputs(t)) \cup {p} ELSE shown[t] \cap Outputs(t)
          BY <1>5, <1>4
    <3>2. QED BY <1>1, <1>3, <3>1 DEF Displayed
  <2>4. Promise!Show(s)
        BY <1>2, <1>3, <1>5, <2>2, <2>3 DEF Promise!Show
  <2>5. QED BY <1>1, <2>4
<1>6. CASE ~(page[s] = "open" /\ p \in Outputs(s))
  <2>1. Displayed' = Displayed
    <3>1. \A t \in Sessions : shown'[t] \cap Outputs(t) = shown[t] \cap Outputs(t)
          BY <1>6, <1>4
    <3>2. QED BY <1>3, <3>1 DEF Displayed
  <2>2. QED BY <1>2, <1>3, <2>1 DEF Promise!vars
<1>7. QED BY <1>5, <1>6

\* What a caller knows changes with what it does.
LEMMA KnownExcept ==
    ASSUME TypeOK, NEW r \in Requests, NEW q, request' = [request EXCEPT ![r] = q]
    PROVE  Known' = [Known EXCEPT ![r] = CASE q = "idle" -> "idle"
                                         [] q \in {"send", "wait"} -> "waiting"
                                         [] q \in {"got", "answered"} -> "answered"
                                         [] OTHER -> "failed"]
  BY DEF Known, TypeOK

\* A request is asked, replied to, and answered or given up.
LEMMA RequestPromise ==
    ASSUME IInv, NEW r \in Requests, Ask(r) \/ RequestStep(r) \/ HandleComplete(r)
    PROVE  Promise!Ask(r) \/ Promise!Reply(r) \/ Promise!Answer(r) \/ Promise!Fail(r)
               \/ UNCHANGED Promise!vars
<1>1. TypeOK /\ Replies /\ Questions
      BY DEF IInv
<1>2. CASE Ask(r) \/ RequestStep(r)
  <2>1. UNCHANGED <<page, shell, typed, heard, up, shown, replied>>
        BY <1>2 DEF Ask, RequestStep, SendRequest, ReceiveAnswer, Timeout, ReleaseRequest, pageVars,
                    workVars, ptyVars
  <2>2. Written' = Written /\ Displayed' = Displayed
        BY <2>1 DEF Written, Displayed, Outputs
  <2>3. CASE Ask(r)
    <3>1. Known[r] = "idle" /\ Known' = [Known EXCEPT ![r] = "waiting"]
          BY <1>1, <2>3, KnownExcept DEF Ask, Known
    <3>2. QED BY <2>1, <2>2, <3>1 DEF Promise!Ask
  <2>4. CASE SendRequest(r)
    <3>1. Known[r] = "waiting"
          BY <2>4 DEF SendRequest, Known
    <3>2. \/ request' = [request EXCEPT ![r] = "wait"]
          \/ request' = [request EXCEPT ![r] = "late"]
          BY <2>4 DEF SendRequest
    <3>3. Known' = [Known EXCEPT ![r] = "waiting"] \/ Known' = [Known EXCEPT ![r] = "failed"]
          BY <1>1, <3>2, KnownExcept
    <3>4. Known' = Known \/ Known' = [Known EXCEPT ![r] = "failed"]
          BY <3>1, <3>3 DEF Known
    <3>5. QED BY <2>1, <2>2, <3>1, <3>4 DEF Promise!Fail, Promise!vars
  <2>5. CASE ReceiveAnswer(r)
    <3>1. Known[r] = "waiting" /\ r \in replied /\ Known' = [Known EXCEPT ![r] = "answered"]
          BY <1>1, <2>5, KnownExcept DEF ReceiveAnswer, Known, Replies
    <3>2. QED BY <2>1, <2>2, <3>1 DEF Promise!Answer
  <2>6. CASE Timeout(r)
    <3>1. Known[r] = "waiting" /\ request' = [request EXCEPT ![r] = "late"]
          BY <2>6 DEF Timeout, Known
    <3>2. Known' = [Known EXCEPT ![r] = "failed"]
          BY <1>1, <3>1 DEF Known, TypeOK
    <3>3. QED BY <2>1, <2>2, <3>1, <3>2 DEF Promise!Fail
  <2>7. CASE ReleaseRequest(r)
    <3>1. Known' = Known
          BY <1>1, <2>7 DEF ReleaseRequest, Known, TypeOK
    <3>2. QED BY <2>1, <2>2, <3>1 DEF Promise!vars
  <2>8. QED BY <1>2, <2>3, <2>4, <2>5, <2>6, <2>7 DEF RequestStep
<1>3. CASE HandleComplete(r)
  <2>1. /\ UNCHANGED <<page, shell, typed, heard, shown, request>>
        /\ Send(<<"answer", r>>) /\ <<"answer", r>> \in Messages
        BY <1>3 DEF HandleComplete, pageVars, requestVars, ptyVars, Messages
  <2>2. Written' = Written /\ Known' = Known
        BY <1>1, <2>1, NothingWritten DEF Known
  <2>3. Displayed' = Displayed
        BY <2>1, <2>2, SameDisplay
  <2>4. r \notin replied /\ replied' = replied \cup {r} /\ Known[r] # "idle"
        BY <1>1, <1>3 DEF HandleComplete, Questions, Known
  <2>5. QED BY <2>1, <2>2, <2>3, <2>4 DEF Promise!Reply
<1>4. QED BY <1>2, <1>3

\* The shell and its terminal: it starts for a page, hears keys once, and ends.
LEMMA ShellPromise ==
    ASSUME IInv, NEW s \in Sessions,
           \/ PtyStart(s) \/ HandlePtyClose(s) \/ ShellExits(s) \/ Hangup(s) \/ ReaderCleansUp(s)
           \/ \E k \in 1 .. MaxKeys : HandlePtyInput(s, k)
    PROVE  Promise!Start(s) \/ Promise!End(s) \/ Promise!Hear(s) \/ UNCHANGED Promise!vars
<1> USE DEF PtyStart, HandlePtyClose, ShellExits, Hangup, ReaderCleansUp, HandlePtyInput, pageVars,
            requestVars, workVars
<1>1. TypeOK /\ PageOpened /\ StartOnce /\ SessionsReleased /\ KeysOnce
      BY DEF IInv
<1>2. UNCHANGED <<page, typed, up, shown, replied, request>>
      OBVIOUS
<1>3. Written' = Written /\ Displayed' = Displayed /\ Known' = Known
      BY <1>2 DEF Written, Displayed, Known, Outputs
<1>4. CASE PtyStart(s)
  <2>1. shell[s] = "none" /\ page[s] # "none" /\ shell' = [shell EXCEPT ![s] = "running"]
        BY <1>1, <1>4 DEF Done, StartOnce, PageOpened, Started
  <2>2. QED BY <1>2, <1>3, <1>4, <2>1 DEF Promise!Start
<1>5. CASE HandlePtyClose(s) \/ ReaderCleansUp(s)
  <2>1. heard' = heard
        BY <1>5
  <2>2. shell' = IF s \in sessions /\ ~unix THEN [shell EXCEPT ![s] = "gone"] ELSE shell
        BY <1>5 DEF CleanupPty
  <2>3. s \in sessions => shell[s] \in {"running", "gone"}
        BY <1>1 DEF TypeOK, StartOnce, SessionsReleased
  <2>4. shell' = shell \/ (shell[s] = "running" /\ shell' = [shell EXCEPT ![s] = "gone"])
        BY <1>1, <2>2, <2>3 DEF TypeOK
  <2>5. QED BY <1>2, <1>3, <2>1, <2>4 DEF Promise!End, Promise!vars
<1>6. CASE ShellExits(s) \/ Hangup(s)
  <2>1. heard' = heard /\ shell[s] = "running" /\ shell' = [shell EXCEPT ![s] = "gone"]
        BY <1>6
  <2>2. QED BY <1>2, <1>3, <2>1 DEF Promise!End
<1>7. ASSUME NEW k \in 1 .. MaxKeys, HandlePtyInput(s, k)
      PROVE  Promise!Hear(s) \/ UNCHANGED Promise!vars
  <2>1. UNCHANGED shell
        BY <1>7
  <2>2. CASE s \in sessions /\ shell[s] = "running"
    <3>1. k \in (1 .. typed[s]) \ heard[s]
          BY <1>1, <1>7 DEF KeysOnce
    <3>2. heard' = [heard EXCEPT ![s] = @ \cup {k}]
          BY <1>7, <2>2
    <3>3. QED BY <1>2, <1>3, <2>1, <2>2, <3>1, <3>2 DEF Promise!Hear
  <2>3. CASE ~(s \in sessions /\ shell[s] = "running")
    <3>1. heard' = heard
          BY <1>7, <2>3
    <3>2. QED BY <1>2, <1>3, <2>1, <3>1 DEF Promise!vars
  <2>4. QED BY <2>2, <2>3
<1>8. QED BY <1>4, <1>5, <1>6, <1>7

\* The page: it is opened, typed into and left.
LEMMA PagePromise ==
    ASSUME IInv, NEW s \in Sessions,
           \/ OpenTerminal(s) \/ TypeKey(s) \/ LeavePage(s) \/ LeaveTerminal(s)
    PROVE  Promise!Open(s) \/ Promise!Type(s) \/ Promise!Leave(s) \/ UNCHANGED Promise!vars
<1>1. TypeOK /\ PageOpened
      BY DEF IInv
<1>2. UNCHANGED <<shell, heard, up, shown, replied, request>>
      BY DEF OpenTerminal, TypeKey, LeavePage, LeaveTerminal, requestVars, workVars, ptyVars
<1>3. Written' = Written /\ Displayed' = Displayed /\ Known' = Known
      BY <1>2 DEF Written, Displayed, Known, Outputs
<1>4. CASE OpenTerminal(s)
  <2>1. page[s] = "none" /\ page' = [page EXCEPT ![s] = "open"] /\ UNCHANGED typed
        BY <1>1, <1>4 DEF OpenTerminal, PageOpened
  <2>2. QED BY <1>2, <1>3, <2>1 DEF Promise!Open
<1>5. CASE TypeKey(s)
  <2>1. page[s] = "open" /\ typed' = [typed EXCEPT ![s] = @ + 1] /\ UNCHANGED page
        BY <1>5 DEF TypeKey
  <2>2. QED BY <1>2, <1>3, <2>1 DEF Promise!Type
<1>6. CASE LeavePage(s)
  <2>1. page[s] = "open" /\ page' = [page EXCEPT ![s] = "gone"] /\ UNCHANGED typed
        BY <1>6 DEF LeavePage
  <2>2. QED BY <1>2, <1>3, <2>1 DEF Promise!Leave
<1>7. CASE LeaveTerminal(s)
  <2>1. page[s] \in {"open", "gone"} /\ page' = [page EXCEPT ![s] = "gone"] /\ UNCHANGED typed
        BY <1>1, <1>7 DEF LeaveTerminal, PageOpened, TypeOK
  <2>2. page' = page \/ page[s] = "open"
        BY <1>1, <2>1 DEF TypeOK
  <2>3. QED BY <1>2, <1>3, <2>1, <2>2 DEF Promise!Leave, Promise!vars
<1>8. QED BY <1>4, <1>5, <1>6, <1>7

\* Notes about a terminal are no output.
LEMMA NotePromise ==
    ASSUME IInv, NEW s \in Sessions, PtyStartFails(s) \/ SendPtyClose(s)
    PROVE  UNCHANGED Promise!vars
<1>1. /\ UNCHANGED <<page, shell, typed, heard, shown, replied, request>>
      /\ \E m \in Messages : m[1] # "output" /\ Send(m)
      BY DEF PtyStartFails, SendPtyClose, pageVars, requestVars, workVars, ptyVars, Messages
<1>2. Written' = Written /\ Known' = Known
      BY <1>1, NothingWritten DEF Known, IInv
<1>3. Displayed' = Displayed
      BY <1>1, <1>2, SameDisplay
<1>4. QED BY <1>1, <1>2, <1>3 DEF Promise!vars

\* Connections, read loops, orders and sizes are behind what is promised.
LEMMA Behind ==
    ASSUME UNCHANGED <<page, shell, typed, heard, up, shown, replied, request>>
    PROVE  UNCHANGED Promise!vars
  BY DEF Promise!vars, Written, Displayed, Known, Outputs

\* Every step is a step of the promise, or changes nothing of it.
LEMMA StepPromise == IInv /\ [Next]_vars => [Promise!Next]_(Promise!vars)
<1> SUFFICES ASSUME IInv, [Next]_vars PROVE Promise!Next \/ UNCHANGED Promise!vars
    OBVIOUS
<1>1. ASSUME NEW c \in ConnIds, ForwardPty(c) PROVE Promise!Next \/ UNCHANGED Promise!vars
      BY <1>1, OutputIsShown DEF Promise!Next
<1>2. ASSUME NEW s \in Sessions, ReadOutput(s) PROVE Promise!Next \/ UNCHANGED Promise!vars
      BY <1>2, OutputIsWritten DEF Promise!Next
<1>3. ASSUME NEW s \in Sessions,
             \/ PtyStart(s) \/ HandlePtyClose(s) \/ ShellExits(s) \/ Hangup(s) \/ ReaderCleansUp(s)
             \/ \E k \in 1 .. MaxKeys : HandlePtyInput(s, k)
      PROVE  Promise!Next \/ UNCHANGED Promise!vars
      BY <1>3, ShellPromise DEF Promise!Next
<1>4. ASSUME NEW s \in Sessions, OpenTerminal(s) \/ TypeKey(s) \/ LeavePage(s) \/ LeaveTerminal(s)
      PROVE  Promise!Next \/ UNCHANGED Promise!vars
      BY <1>4, PagePromise DEF Promise!Next
<1>5. ASSUME NEW s \in Sessions, PtyStartFails(s) \/ SendPtyClose(s)
      PROVE  Promise!Next \/ UNCHANGED Promise!vars
      BY <1>5, NotePromise
<1>6. ASSUME NEW r \in Requests, Ask(r) \/ RequestStep(r) \/ HandleComplete(r)
      PROVE  Promise!Next \/ UNCHANGED Promise!vars
      BY <1>6, RequestPromise DEF Promise!Next
<1>7. CASE UNCHANGED <<page, shell, typed, heard, up, shown, replied, request>>
      BY <1>7, Behind
<1>8. QED
      BY <1>1, <1>2, <1>3, <1>4, <1>5, <1>6, <1>7
      DEF Next, HubStep, ProxyStep, ReaderStep,
          Register, Disconnect, ReadFails, EndLoop, ReadMessage, WritePanics,
          DeliverResponse, StartTerminal, Resize, CloseTerminal, KeepSession,
          HandlePtyResize, OutputEnds, Done, vars, linkVars, loopVars, pageVars,
          requestVars, workVars, ptyVars

\* Keys are heard once and output is shown once, by the shell and the page they belong
\* to, and answers are replies of the agent: the link implements RemoteSession.
THEOREM LinkKeepsPromise == Spec => KeepsPromise
  BY InitPromise, StepPromise, Invariance, PTL DEF Spec, KeepsPromise, Promise!Spec
=============================================================================
