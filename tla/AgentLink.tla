----------------------------- MODULE AgentLink -----------------------------
(***************************************************************************)
(* One agent, the connections it makes to the hub, and what they carry     *)
(* both ways: the terminals of handlePtyProxy and requests that wait for   *)
(* an answer.  The agent handles every command in a goroutine of its own;  *)
(* the hub has one read loop per connection, which itself writes to the    *)
(* pages; a terminal keeps the connection it was opened over, while the    *)
(* agent sends over the one it has.                                        *)
(***************************************************************************)
EXTENDS Naturals, Sequences, FiniteSets

CONSTANTS
    Sessions,     \* the terminals, each with its own id
    Requests,     \* the requests that wait for an answer
    MaxConns,     \* a bound on the connections the agent makes
    MaxKeys,      \* a bound on the keys typed into a terminal
    Loads,        \* which of them are used together
    MaxMessages,  \* no more output over a connection that has carried so much
    Builds        \* which of the two implementations of terminals may be built: on Unix, or not

ASSUME AgentLinkAssumption ==
    /\ MaxConns \in Nat /\ MaxKeys \in Nat /\ MaxMessages \in Nat
    /\ Builds \subseteq BOOLEAN
    /\ Sessions \cap Requests = {}
    /\ Loads \subseteq SUBSET (Sessions \cup Requests)

VARIABLES
    load,      \* the terminals and requests that are used
    unix,      \* the agent is built for Unix
    \* the connections
    conn,      \* the connection that the agent has, or NoConn
    dialed,    \* how many it has made
    up,        \* up[c]: what the agent has sent over c
    \* the hub
    loop,      \* loop[c]: the read loop of c
    read,      \* read[c]: how many messages it has read
    busy,      \* busy[c]: it is passing on the last of them
    registry,  \* the connection that GetAgent returns
    ac,        \* ac[x]: the connection that the terminal or request x has got
    \* the handlers of the control plane, and the pages
    proxy,     \* proxy[s]: where handlePtyProxy is
    page,      \* page[s]: the page at the other end of its socket
    typed,     \* typed[s]: how many keys have been forwarded
    shown,     \* shown[s]: the messages that the page has got
    request,   \* request[r]: where SendRequest is
    box,       \* the requests whose channel holds an answer
    \* the agent
    orders,    \* commands to a terminal, on their way or in goroutines that have not begun
    keys,      \* keys, likewise
    questions, \* requests, likewise
    replied,   \* the requests that have been handled
    shell,     \* shell[s]: the process
    tty,       \* tty[s]: the terminal, or the pseudo console
    blocking,  \* the terminals that Fd has made blocking: Close no longer ends their reads
    sessions,  \* ptySessions
    reader,    \* reader[s]: where the goroutine that reads the output is
    heard      \* heard[s]: the keys that the shell has got

linkVars == <<load, unix, conn, dialed, registry, loop>>
loopVars == <<read, busy>>
pageVars == <<proxy, page, typed, shown>>
requestVars == <<request, box>>
workVars == <<orders, keys, questions, replied>>
ptyVars == <<shell, tty, blocking, sessions, reader, heard>>
vars == <<linkVars, up, loopVars, ac, pageVars, requestVars, workVars, ptyVars>>

NoConn == 0
ConnIds == 1 .. MaxConns
Orders == {"start", "resize", "close"} \X Sessions
Messages == ({"output", "close", "error"} \X Sessions) \cup ({"answer"} \X Requests)
Positions == ConnIds \X Nat

TypeOK ==
    /\ load \in Loads /\ unix \in Builds
    /\ conn \in 0 .. MaxConns /\ dialed \in 0 .. MaxConns /\ conn <= dialed
    /\ up \in [ConnIds -> Seq(Messages)]
    /\ loop \in [ConnIds -> {"none", "reading", "gone"}]
    /\ read \in [ConnIds -> Nat] /\ \A c \in ConnIds : read[c] <= Len(up[c])
    /\ busy \in [ConnIds -> BOOLEAN] /\ \A c \in ConnIds : busy[c] => read[c] > 0
    /\ registry \in 0 .. MaxConns
    /\ ac \in [Sessions \cup Requests -> 0 .. MaxConns]
    /\ proxy \in [Sessions -> {"none", "start", "relay", "leave", "done"}]
    /\ page \in [Sessions -> {"none", "open", "gone"}]
    /\ typed \in [Sessions -> 0 .. MaxKeys]
    /\ shown \in [Sessions -> SUBSET Positions]
    /\ request \in [Requests -> {"idle", "send", "wait", "got", "late", "answered", "failed"}]
    /\ box \subseteq Requests
    /\ orders \subseteq Orders /\ keys \subseteq Sessions \X (1 .. MaxKeys)
    /\ questions \subseteq Requests /\ replied \subseteq Requests
    /\ shell \in [Sessions -> {"none", "running", "gone"}]
    /\ tty \in [Sessions -> {"none", "open", "closed"}]
    /\ blocking \subseteq Sessions /\ sessions \subseteq Sessions
    /\ reader \in [Sessions -> {"none", "new", "read", "close", "cleanup", "done"}]
    /\ heard \in [Sessions -> SUBSET (1 .. MaxKeys)]

\* The agent has not connected yet.
Init ==
    /\ load \in Loads /\ unix \in Builds
    /\ conn = NoConn /\ dialed = 0 /\ registry = NoConn
    /\ up = [c \in ConnIds |-> <<>>]
    /\ loop = [c \in ConnIds |-> "none"]
    /\ read = [c \in ConnIds |-> 0]
    /\ busy = [c \in ConnIds |-> FALSE]
    /\ ac = [x \in Sessions \cup Requests |-> NoConn]
    /\ proxy = [s \in Sessions |-> "none"]
    /\ page = [s \in Sessions |-> "none"]
    /\ typed = [s \in Sessions |-> 0]
    /\ shown = [s \in Sessions |-> {}]
    /\ request = [r \in Requests |-> "idle"]
    /\ box = {}
    /\ orders = {} /\ keys = {} /\ questions = {} /\ replied = {}
    /\ shell = [s \in Sessions |-> "none"]
    /\ tty = [s \in Sessions |-> "none"]
    /\ blocking = {} /\ sessions = {}
    /\ reader = [s \in Sessions |-> "none"]
    /\ heard = [s \in Sessions |-> {}]
-----------------------------------------------------------------------------
(***************************************************************************)
(* Connections.                                                            *)
(***************************************************************************)

\* What is written to c gets to the agent.
Carries(c) == c # NoConn /\ conn = c /\ loop[c] = "reading"

\* sendMsg: over the connection that the agent has now; without one the message is lost.
Send(m) == up' = IF conn = NoConn THEN up ELSE [up EXCEPT ![conn] = Append(@, m)]

\* connect and HandleWebSocket up to the read loops.
Register ==
    /\ conn = NoConn /\ dialed < MaxConns
    /\ dialed' = dialed + 1
    /\ conn' = dialed' /\ registry' = dialed'
    /\ loop' = [loop EXCEPT ![dialed'] = "reading"]
    /\ UNCHANGED <<load, unix, up, loopVars, ac, pageVars, requestVars, workVars, ptyVars>>

\* The agent loses its connection, and with it what it has not yet read.
Disconnect ==
    /\ conn # NoConn /\ conn' = NoConn
    /\ orders' \in SUBSET orders /\ keys' \in SUBSET keys /\ questions' \in SUBSET questions
    /\ UNCHANGED <<load, unix, dialed, registry, loop, up, loopVars, ac, pageVars, requestVars,
                   replied, ptyVars>>

\* The handler of c ends: the entry in the registry may already be a later connection's.
EndLoop(c) ==
    /\ loop' = [loop EXCEPT ![c] = "gone"]
    /\ registry' = IF registry = c THEN NoConn ELSE registry
    /\ UNCHANGED <<load, unix, conn, dialed>>

\* The hub notices that c is lost; what it has not read by then is lost too.
ReadFails(c) ==
    /\ loop[c] = "reading" /\ conn # c /\ ~busy[c]
    /\ EndLoop(c)
    /\ UNCHANGED <<up, loopVars, ac, pageVars, requestVars, workVars, ptyVars>>
-----------------------------------------------------------------------------
(***************************************************************************)
(* The read loop: look up who waits for the message, then pass it on.      *)
(***************************************************************************)

Subscribed(s) == proxy[s] \in {"start", "relay", "leave"}
Pending(r, c) == request[r] \in {"send", "wait", "got", "late"} /\ ac[r] = c
Current(c) == up[c][read[c]]

\* Mutant: the message is looked at but not taken.
ReadMessageAgain(c) ==
    /\ loop[c] = "reading" /\ ~busy[c] /\ read[c] < Len(up[c])
    /\ busy' = [busy EXCEPT ![c] = TRUE]
    /\ UNCHANGED <<linkVars, up, read, ac, pageVars, requestVars, workVars, ptyVars>>

ReadMessage(c) ==
    /\ loop[c] = "reading" /\ ~busy[c] /\ read[c] < Len(up[c])
    /\ read' = [read EXCEPT ![c] = @ + 1]
    /\ LET m == up[c][read[c] + 1]
       IN  busy' = [busy EXCEPT ![c] = IF m[1] = "answer" THEN Pending(m[2], c) ELSE Subscribed(m[2])]
    /\ UNCHANGED <<linkVars, up, ac, pageVars, requestVars, workVars, ptyVars>>

\* forwardPtyToClient, forwardPtyLogToClient: an open page takes the message when it
\* likes; the write fails when the page has gone.
ForwardPty(c) ==
    /\ busy[c] /\ Current(c)[1] # "answer"
    /\ LET s == Current(c)[2]
       IN  shown' = IF page[s] = "open" THEN [shown EXCEPT ![s] = @ \cup {<<c, read[c]>>}] ELSE shown
    /\ busy' = [busy EXCEPT ![c] = FALSE]
    /\ UNCHANGED <<linkVars, up, read, ac, proxy, page, typed, requestVars, workVars, ptyVars>>

\* Two read loops that write to one page at the same time: the library panics, and the
\* handler ends.
WritePanics(c) ==
    /\ busy[c] /\ Current(c)[1] # "answer"
    /\ \E d \in ConnIds \ {c} : busy[d] /\ Current(d)[1] # "answer" /\ Current(d)[2] = Current(c)[2]
    /\ busy' = [busy EXCEPT ![c] = FALSE]
    /\ EndLoop(c)
    /\ UNCHANGED <<up, read, ac, pageVars, requestVars, workVars, ptyVars>>

\* Mutant: a channel without room, and a send that waits for its receiver.
DeliverResponseWaits(c) ==
    /\ busy[c] /\ Current(c)[1] = "answer"
    /\ request[Current(c)[2]] = "wait"
    /\ box' = box \cup {Current(c)[2]}
    /\ busy' = [busy EXCEPT ![c] = FALSE]
    /\ UNCHANGED <<linkVars, up, read, ac, pageVars, request, workVars, ptyVars>>

\* deliverResponse: the channel has room for one answer, and may have been given up.
DeliverResponse(c) ==
    /\ busy[c] /\ Current(c)[1] = "answer"
    /\ box' = box \cup {Current(c)[2]}
    /\ busy' = [busy EXCEPT ![c] = FALSE]
    /\ UNCHANGED <<linkVars, up, read, ac, pageVars, request, workVars, ptyVars>>
-----------------------------------------------------------------------------
(***************************************************************************)
(* Terminals, at the control plane.                                        *)
(***************************************************************************)

OpenTerminal(s) ==
    /\ s \in load /\ proxy[s] = "none" /\ registry # NoConn
    /\ ac' = [ac EXCEPT ![s] = registry]
    /\ proxy' = [proxy EXCEPT ![s] = "start"]
    /\ page' = [page EXCEPT ![s] = "open"]
    /\ UNCHANGED <<linkVars, up, loopVars, typed, shown, requestVars, workVars, ptyVars>>

\* A write to a lost connection fails, or seems to have worked.
StartTerminal(s) ==
    /\ proxy[s] = "start"
    /\ \/ /\ Carries(ac[s])
          /\ orders' = orders \cup {<<"start", s>>}
          /\ proxy' = [proxy EXCEPT ![s] = "relay"]
       \/ /\ ~Carries(ac[s])
          /\ proxy' \in {[proxy EXCEPT ![s] = next] : next \in {"relay", "leave"}}
          /\ UNCHANGED orders
    /\ UNCHANGED <<linkVars, up, loopVars, ac, page, typed, shown, requestVars,
                   keys, questions, replied, ptyVars>>

\* The initial size, and the page's own messages.
Resize(s) ==
    /\ proxy[s] = "relay" /\ Carries(ac[s])
    /\ orders' = orders \cup {<<"resize", s>>}
    /\ UNCHANGED <<linkVars, up, loopVars, ac, pageVars, requestVars, keys, questions, replied, ptyVars>>

TypeKey(s) ==
    /\ proxy[s] = "relay" /\ page[s] = "open" /\ typed[s] < MaxKeys
    /\ typed' = [typed EXCEPT ![s] = @ + 1]
    /\ keys' = IF Carries(ac[s]) THEN keys \cup {<<s, typed[s] + 1>>} ELSE keys
    /\ UNCHANGED <<linkVars, up, loopVars, ac, proxy, page, shown, requestVars,
                   orders, questions, replied, ptyVars>>

\* The page is closed, or its host lost.
LeavePage(s) ==
    /\ page[s] = "open"
    /\ page' = [page EXCEPT ![s] = "gone"]
    /\ UNCHANGED <<linkVars, up, loopVars, ac, proxy, typed, shown, requestVars, workVars, ptyVars>>

\* Mutant: the agent is not told that the page has gone.
CloseTerminalQuietly(s) ==
    /\ proxy[s] = "relay" /\ page[s] = "gone"
    /\ proxy' = [proxy EXCEPT ![s] = "leave"]
    /\ UNCHANGED <<linkVars, up, loopVars, ac, page, typed, shown, requestVars, workVars, ptyVars>>

\* The read fails: the agent is told.
CloseTerminal(s) ==
    /\ proxy[s] = "relay" /\ page[s] = "gone"
    /\ orders' = IF Carries(ac[s]) THEN orders \cup {<<"close", s>>} ELSE orders
    /\ proxy' = [proxy EXCEPT ![s] = "leave"]
    /\ UNCHANGED <<linkVars, up, loopVars, ac, page, typed, shown, requestVars,
                   keys, questions, replied, ptyVars>>

\* The deferred calls: unsubscribe, and close the socket.
LeaveTerminal(s) ==
    /\ proxy[s] = "leave"
    /\ proxy' = [proxy EXCEPT ![s] = "done"]
    /\ page' = [page EXCEPT ![s] = "gone"]
    /\ UNCHANGED <<linkVars, up, loopVars, ac, typed, shown, requestVars, workVars, ptyVars>>
-----------------------------------------------------------------------------
(***************************************************************************)
(* Requests with an answer.                                                *)
(***************************************************************************)

\* GetAgent and the entry in pendingRequests.
Ask(r) ==
    /\ r \in load /\ request[r] = "idle" /\ registry # NoConn
    /\ ac' = [ac EXCEPT ![r] = registry]
    /\ request' = [request EXCEPT ![r] = "send"]
    /\ UNCHANGED <<linkVars, up, loopVars, pageVars, box, workVars, ptyVars>>

SendRequest(r) ==
    /\ request[r] = "send"
    /\ \/ /\ Carries(ac[r])
          /\ questions' = questions \cup {r}
          /\ request' = [request EXCEPT ![r] = "wait"]
       \/ /\ ~Carries(ac[r])
          /\ request' \in {[request EXCEPT ![r] = next] : next \in {"wait", "late"}}
          /\ UNCHANGED questions
    /\ UNCHANGED <<linkVars, up, loopVars, ac, pageVars, box, orders, keys, replied, ptyVars>>

\* Mutant: the channels of a lost connection are closed, which ends the receive.
ReceiveAnyway(r) ==
    /\ request[r] = "wait" /\ (r \in box \/ loop[ac[r]] = "gone")
    /\ request' = [request EXCEPT ![r] = "got"]
    /\ box' = box \ {r}
    /\ UNCHANGED <<linkVars, up, loopVars, ac, pageVars, workVars, ptyVars>>

ReceiveAnswer(r) ==
    /\ request[r] = "wait" /\ r \in box
    /\ request' = [request EXCEPT ![r] = "got"]
    /\ box' = box \ {r}
    /\ UNCHANGED <<linkVars, up, loopVars, ac, pageVars, workVars, ptyVars>>

Timeout(r) ==
    /\ request[r] = "wait"
    /\ request' = [request EXCEPT ![r] = "late"]
    /\ UNCHANGED <<linkVars, up, loopVars, ac, pageVars, box, workVars, ptyVars>>

\* The deferred deletion, and the return.
ReleaseRequest(r) ==
    /\ request[r] \in {"got", "late"}
    /\ request' = [request EXCEPT ![r] = IF @ = "got" THEN "answered" ELSE "failed"]
    /\ UNCHANGED <<linkVars, up, loopVars, ac, pageVars, box, workVars, ptyVars>>
-----------------------------------------------------------------------------
(***************************************************************************)
(* The agent.                                                              *)
(***************************************************************************)

Done(o) == o \in orders /\ orders' = orders \ {o}

\* No shell, or no terminal for it: the page is told.
PtyStartFails(s) ==
    /\ Done(<<"start", s>>)
    /\ Send(<<"error", s>>)
    /\ UNCHANGED <<linkVars, loopVars, ac, pageVars, requestVars, keys, questions, replied, ptyVars>>

\* The shell runs; the session is not in the table yet.
PtyStart(s) ==
    /\ Done(<<"start", s>>)
    /\ shell' = [shell EXCEPT ![s] = "running"]
    /\ tty' = [tty EXCEPT ![s] = "open"]
    /\ reader' = [reader EXCEPT ![s] = "new"]
    /\ UNCHANGED <<linkVars, up, loopVars, ac, pageVars, requestVars, keys, questions, replied,
                   blocking, sessions, heard>>

KeepSession(s) ==
    /\ reader[s] = "new"
    /\ sessions' = sessions \cup {s}
    /\ reader' = [reader EXCEPT ![s] = "read"]
    /\ UNCHANGED <<linkVars, up, loopVars, ac, pageVars, requestVars, workVars,
                   shell, tty, blocking, heard>>

\* A key for a session that is not in the table, or whose shell has ended, is dropped.
HandlePtyInput(s, k) ==
    /\ <<s, k>> \in keys
    /\ keys' = keys \ {<<s, k>>}
    /\ heard' = IF s \in sessions /\ shell[s] = "running"
                THEN [heard EXCEPT ![s] = @ \cup {k}] ELSE heard
    /\ UNCHANGED <<linkVars, up, loopVars, ac, pageVars, requestVars, orders, questions, replied,
                   shell, tty, blocking, sessions, reader>>

\* On Unix the size is set through Fd.
HandlePtyResize(s) ==
    /\ Done(<<"resize", s>>)
    /\ blocking' = IF unix /\ s \in sessions THEN blocking \cup {s} ELSE blocking
    /\ UNCHANGED <<linkVars, up, loopVars, ac, pageVars, requestVars, keys, questions, replied,
                   shell, tty, sessions, reader, heard>>

\* Mutant: the terminal is closed, but the session stays in the table.
CleanupPtyOnly(s) ==
    /\ sessions' = sessions
    /\ tty' = IF s \in sessions THEN [tty EXCEPT ![s] = "closed"] ELSE tty
    /\ shell' = IF s \in sessions /\ ~unix THEN [shell EXCEPT ![s] = "gone"] ELSE shell

\* Whoever takes the session out of the table closes its terminal.  On Windows that
\* ends the process.
CleanupPty(s) ==
    /\ sessions' = sessions \ {s}
    /\ tty' = IF s \in sessions THEN [tty EXCEPT ![s] = "closed"] ELSE tty
    /\ shell' = IF s \in sessions /\ ~unix THEN [shell EXCEPT ![s] = "gone"] ELSE shell

HandlePtyClose(s) ==
    /\ Done(<<"close", s>>)
    /\ CleanupPty(s)
    /\ UNCHANGED <<linkVars, up, loopVars, ac, pageVars, requestVars, keys, questions, replied,
                   blocking, reader, heard>>

\* The user ends the shell, or it dies.
ShellExits(s) ==
    /\ shell[s] = "running"
    /\ shell' = [shell EXCEPT ![s] = "gone"]
    /\ UNCHANGED <<linkVars, up, loopVars, ac, pageVars, requestVars, workVars,
                   tty, blocking, sessions, reader, heard>>

\* The kernel hangs up when the last reference to the terminal is closed; a read of a
\* terminal that blocks keeps one.
Hangup(s) ==
    /\ tty[s] = "closed" /\ s \notin blocking
    /\ ShellExits(s)

\* Mutant: output is still sent after the session has been said to be closed.
ReadOutputLate(s) ==
    /\ reader[s] \in {"read", "cleanup"} /\ shell[s] # "none"
    /\ conn # NoConn => Len(up[conn]) < MaxMessages + 2
    /\ Send(<<"output", s>>)
    /\ UNCHANGED <<linkVars, loopVars, ac, pageVars, requestVars, workVars, ptyVars>>

ReadOutput(s) ==
    /\ reader[s] = "read" /\ shell[s] = "running"
    /\ conn # NoConn => Len(up[conn]) < MaxMessages
    /\ Send(<<"output", s>>)
    /\ UNCHANGED <<linkVars, loopVars, ac, pageVars, requestVars, workVars, ptyVars>>

OutputEnds(s) ==
    /\ reader[s] = "read"
    /\ shell[s] = "gone" \/ (tty[s] = "closed" /\ s \notin blocking)
    /\ reader' = [reader EXCEPT ![s] = "close"]
    /\ UNCHANGED <<linkVars, up, loopVars, ac, pageVars, requestVars, workVars,
                   shell, tty, blocking, sessions, heard>>

SendPtyClose(s) ==
    /\ reader[s] = "close"
    /\ Send(<<"close", s>>)
    /\ reader' = [reader EXCEPT ![s] = "cleanup"]
    /\ UNCHANGED <<linkVars, loopVars, ac, pageVars, requestVars, workVars,
                   shell, tty, blocking, sessions, heard>>

ReaderCleansUp(s) ==
    /\ reader[s] = "cleanup"
    /\ CleanupPty(s)
    /\ reader' = [reader EXCEPT ![s] = "done"]
    /\ UNCHANGED <<linkVars, up, loopVars, ac, pageVars, requestVars, workVars, blocking, heard>>

HandleComplete(r) ==
    /\ r \in questions
    /\ questions' = questions \ {r}
    /\ replied' = replied \cup {r}
    /\ Send(<<"answer", r>>)
    /\ UNCHANGED <<linkVars, loopVars, ac, pageVars, requestVars, orders, keys, ptyVars>>
-----------------------------------------------------------------------------
\* The read loop of c waits until an open page takes a message.
AtPage(c) == busy[c] /\ Current(c)[1] # "answer" /\ page[Current(c)[2]] = "open"

HubStep(c) == ReadMessage(c) \/ ForwardPty(c) \/ WritePanics(c) \/ DeliverResponse(c)

ProxyStep(s) ==
    \/ StartTerminal(s) \/ CloseTerminal(s) \/ LeaveTerminal(s)

RequestStep(r) == SendRequest(r) \/ ReceiveAnswer(r) \/ Timeout(r) \/ ReleaseRequest(r)

ReaderStep(s) == KeepSession(s) \/ OutputEnds(s) \/ SendPtyClose(s) \/ ReaderCleansUp(s)

Next ==
    \/ Register \/ Disconnect
    \/ \E c \in ConnIds : ReadFails(c) \/ HubStep(c)
    \/ \E s \in Sessions :
        \/ OpenTerminal(s) \/ Resize(s) \/ TypeKey(s) \/ LeavePage(s) \/ ProxyStep(s)
        \/ PtyStartFails(s) \/ PtyStart(s) \/ HandlePtyResize(s) \/ HandlePtyClose(s)
        \/ \E k \in 1 .. MaxKeys : HandlePtyInput(s, k)
        \/ ShellExits(s) \/ Hangup(s) \/ ReadOutput(s) \/ ReaderStep(s)
    \/ \E r \in Requests : Ask(r) \/ RequestStep(r) \/ HandleComplete(r)

\* Goroutines are scheduled and the kernel hangs up; nothing makes an agent connect, a
\* page leave or take its messages, or a shell say or end anything.
Fairness ==
    /\ \A c \in ConnIds : WF_vars(ReadMessage(c) \/ DeliverResponse(c) \/ (~AtPage(c) /\ ForwardPty(c)))
    /\ \A s \in Sessions : WF_vars(CloseTerminal(s) \/ HandlePtyClose(s)) /\ WF_vars(Hangup(s))

Spec == Init /\ [][Next]_vars /\ Fairness
-----------------------------------------------------------------------------
\* A terminal is open exactly while its session is in the table or about to be put
\* there, whoever of the page, the shell and the reader ends it first; and a session
\* in the table has a reader that will take it out.
SessionsReleased ==
    \A s \in Sessions :
        /\ tty[s] = "open" <=> s \in sessions \/ reader[s] = "new"
        /\ s \in sessions => reader[s] \in {"read", "close", "cleanup"}

\* What comes over one connection is shown in the order in which it was sent, and the
\* note that the session is closed comes last.
ShownInOrder ==
    [][\A s \in Sessions : \A new \in shown'[s] \ shown[s], old \in shown[s] :
            new[1] = old[1] => old[2] < new[2] /\ up[old[1]][old[2]] # <<"close", s>>]_vars

\* "Browser disconnected, close PTY": when a page leaves a session that is in the table,
\* its terminal is closed, whatever its reader, its shell and late resizes do, and unless
\* the connection that the page was opened over is lost. The shell ends with it if the
\* terminal is not in blocking mode; in blocking mode, where every resize on Unix puts it,
\* the shell outlives its page.
LeftTerminalsClose ==
    \A s \in Sessions :
        (page[s] = "gone" /\ proxy[s] = "relay" /\ s \in sessions /\ Carries(ac[s]))
            ~> \/ ~Carries(ac[s])
               \/ tty[s] = "closed" /\ (shell[s] # "running" \/ s \in blocking)

\* What an agent has sent is passed on, unless the connection is lost, or all of it waits
\* for one page to take a message.
MessagesPassedOn ==
    \A c \in ConnIds :
        (loop[c] = "reading" /\ read[c] < Len(up[c]))
            ~> (loop[c] = "gone" \/ read[c] = Len(up[c]) \/ AtPage(c))

\* The session and its requests behave as RemoteSession says.
Pieces == ConnIds \X (1 .. MaxMessages)
Outputs(s) == {p \in Pieces : p[2] <= Len(up[p[1]]) /\ up[p[1]][p[2]] = <<"output", s>>}

Written == [s \in Sessions |-> Outputs(s)]
Displayed == [s \in Sessions |-> shown[s] \cap Outputs(s)]
Known ==
    [r \in Requests |->
        CASE request[r] = "idle" -> "idle"
          [] request[r] \in {"send", "wait"} -> "waiting"
          [] request[r] \in {"got", "answered"} -> "answered"
          [] OTHER -> "failed"]

Promise == INSTANCE RemoteSession
           WITH written <- Written, shown <- Displayed, reply <- replied, request <- Known

KeepsPromise == Promise!Spec
=============================================================================
