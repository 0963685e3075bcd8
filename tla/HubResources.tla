---------------------------- MODULE HubResources ----------------------------
(***************************************************************************)
(* The resource figures of one service: dashboards subscribe at the hub,   *)
(* the hub tells the agents of the service to start and stop reporting,    *)
(* agents register, lose their connection and register again, and each     *)
(* report wakes the subscribers over a copy of the list of their channels. *)
(***************************************************************************)
EXTENDS Naturals, Sequences, FiniteSets

CONSTANTS
    Agents,
    MaxStreams,  \* a bound on the requests that apiResources serves, reconnecting EventSources included
    Conns,       \* the connections of one agent that may overlap
    Caps,        \* the capacities of the list of channels
    Growth,      \* the next capacity when there is no room: append is free to choose a larger one
    MaxLosses,   \* a bound on the connections that are lost without the hub's doing
    NoConn

ASSUME HubResourcesAssumption ==
    /\ NoConn \notin Conns /\ Conns # {}
    /\ MaxStreams \in Nat /\ MaxLosses \in Nat
    /\ Caps \subseteq Nat \ {0}
    /\ Growth \in [Caps \cup {0} -> Caps]
    /\ \A c \in Caps \cup {0} : c < MaxStreams => c < Growth[c]

VARIABLES
    \* the agents
    conn,     \* conn[a]: the connection that a reads, or NoConn
    cmds,     \* cmds[a]: commands on their way or in goroutines that have not begun
    active,   \* active[a]: resourceActive
    losses,   \* how many have been lost
    adrift,   \* adrift[a]: (history) when reporting was last turned on or off, a was not
              \* connected or a command to the contrary was on its way; or a has lost its
              \* connection since
    \* the hub
    server,   \* server[l]: where the handler of the connection l is
    agents,   \* agents[a]: the connection in the registry, or NoConn
    list,     \* resSubs: a slice of the array of a capacity
    array,    \* array[c]: what has been written to the array of capacity c
    resCount,
    note,     \* note[l]: how far l's handler is in notifyResourceSubs
    \* the streams
    at,       \* at[s]: where the handler of s is
    targets,  \* targets[s]: the connections it still sends its command to
    full,     \* full[s]: there is a notification in the channel of s
    news      \* news[s]: the agents with figures that s has not shown

agentVars == <<conn, cmds, active, losses, adrift>>
listVars == <<list, array, resCount>>
streamVars == <<at, targets, full, news>>
vars == <<agentVars, server, agents, listVars, note, streamVars>>

\* Streams are numbered in the order of their subscriptions.
Streams == 1 .. MaxStreams
Nobody == 0

Links == Agents \X Conns
Commands == {"start", "stop"} \X Streams

\* The channel of s is made as s subscribes, and closed as it unsubscribes.
Subscribed(s) == at[s] \in {"first", "start", "open"}
Closed(s) == at[s] \in {"last", "stop", "done"}

Resting == [busy |-> FALSE]
Notes == {Resting} \cup
    [busy : {TRUE}, cap : Caps, len : Nat \ {0}, i : Nat \ {0}, ch : Streams \cup {Nobody}]

TypeOK ==
    /\ conn \in [Agents -> Conns \cup {NoConn}]
    /\ cmds \in [Agents -> SUBSET Commands]
    /\ active \in [Agents -> BOOLEAN]
    /\ losses \in 0 .. MaxLosses
    /\ adrift \in [Agents -> BOOLEAN]
    /\ server \in [Links -> {"none", "reading", "ending"}]
    /\ agents \in [Agents -> Conns \cup {NoConn}]
    /\ list \in [cap : Caps \cup {0}, len : Nat] /\ list.len <= list.cap
    /\ array \in [Caps -> Seq(Streams)]
    /\ resCount \in Nat
    /\ note \in [Links -> Notes]
    /\ at \in [Streams -> {"idle", "first", "start", "open", "last", "stop", "done"}]
    /\ targets \in [Streams -> SUBSET Links]
    /\ full \in [Streams -> BOOLEAN]
    /\ news \in [Streams -> SUBSET Agents]
    /\ \A s \in Streams : targets[s] # {} => at[s] \in {"start", "stop"}

FirstConn == CHOOSE k \in Conns : TRUE

\* The agents have registered, and no dashboard is open.
Init ==
    /\ conn = [a \in Agents |-> FirstConn]
    /\ server = [l \in Links |-> IF l[2] = FirstConn THEN "reading" ELSE "none"]
    /\ agents = conn
    /\ losses = 0
    /\ adrift = [a \in Agents |-> FALSE]
    /\ cmds = [a \in Agents |-> {}]
    /\ active = [a \in Agents |-> FALSE]
    /\ list = [cap |-> 0, len |-> 0]
    /\ array = [c \in Caps |-> <<>>]
    /\ resCount = 0
    /\ note = [l \in Links |-> Resting]
    /\ at = [s \in Streams |-> "idle"]
    /\ targets = [s \in Streams |-> {}]
    /\ full = [s \in Streams |-> FALSE]
    /\ news = [s \in Streams |-> {}]
-----------------------------------------------------------------------------
(***************************************************************************)
(* Subscriptions.                                                          *)
(***************************************************************************)

\* Every command has been sent and handled.
Settled ==
    /\ \A a \in Agents : cmds[a] = {}
    /\ \A s \in Streams : at[s] \in {"idle", "open", "done"}

\* A command of this kind is on its way to a, or is going to be sent.
Pending(a, kind) ==
    \/ \E s \in Streams : <<kind, s>> \in cmds[a]
    \/ \E s \in Streams : at[s] = kind /\ \E k \in Conns : <<a, k>> \in targets[s]
    \/ \E s \in Streams : at[s] = IF kind = "start" THEN "first" ELSE "last"

\* The agent is connected, and the read loop of its connection runs.
Served(a) == conn[a] # NoConn /\ server[<<a, conn[a]>>] = "reading"

\* Reporting is turned on or off, and commands of the other kind may be on their way.
Turn(other) == adrift' = [a \in Agents |-> ~Served(a) \/ Pending(a, other)]

Put(q, i, x) == IF i <= Len(q) THEN [q EXCEPT ![i] = x] ELSE Append(q, x)

\* append(subs, ch): in place as long as there is room.
AppendToList(s) ==
    IF list.len < list.cap
    THEN /\ array' = [array EXCEPT ![list.cap] = Put(@, list.len + 1, s)]
         /\ list' = [list EXCEPT !.len = @ + 1]
    ELSE LET c == Growth[list.cap]
             old == IF list.cap = 0 THEN <<>> ELSE SubSeq(array[list.cap], 1, list.len)
         IN  /\ array' = [array EXCEPT ![c] = Append(old, s)]
             /\ list' = [cap |-> c, len |-> list.len + 1]

\* Mutant: append(subs[:i]), the ones that follow s are cut off.
CutList(s) ==
    \E i \in 1 .. list.len :
        /\ array[list.cap][i] = s
        /\ list' = [list EXCEPT !.len = i - 1]
        /\ UNCHANGED array

\* append(subs[:i], subs[i+1:]...): the others move up in the same array, whose last
\* cell stays as it is.
RemoveFromList(s) ==
    \E i \in 1 .. list.len :
        /\ array[list.cap][i] = s
        /\ array' = [array EXCEPT ![list.cap] =
                        [j \in DOMAIN @ |-> IF i <= j /\ j < list.len THEN @[j + 1] ELSE @[j]]]
        /\ list' = [list EXCEPT !.len = @ - 1]

SubscribeResources(s) ==
    /\ at[s] = "idle" /\ \A t \in 1 .. s - 1 : at[t] # "idle"
    /\ AppendToList(s)
    /\ resCount' = resCount + 1
    /\ at' = [at EXCEPT ![s] = IF resCount + 1 = 1 THEN "first" ELSE "open"]
    /\ IF resCount + 1 = 1 THEN Turn("stop") ELSE UNCHANGED adrift
    /\ UNCHANGED <<conn, cmds, active, losses, server, agents, note, targets, full, news>>

\* Nobody will look into the channel of s again.
Forget(s) == full' = [full EXCEPT ![s] = FALSE] /\ news' = [news EXCEPT ![s] = {}]

\* The dashboard has gone; the deferred call removes and closes the channel.
UnsubscribeResources(s) ==
    /\ at[s] = "open"
    /\ RemoveFromList(s)
    /\ resCount' = resCount - 1
    /\ at' = [at EXCEPT ![s] = IF resCount - 1 = 0 THEN "last" ELSE "done"]
    /\ IF resCount - 1 = 0 THEN Turn("start") ELSE UNCHANGED adrift
    /\ Forget(s)
    /\ UNCHANGED <<conn, cmds, active, losses, server, agents, note, targets>>

\* AgentsByService, after resMu has been released.
AgentsByService(s) ==
    /\ at[s] \in {"first", "last"}
    /\ targets' = [targets EXCEPT ![s] = {l \in Links : agents[l[1]] = l[2]}]
    /\ at' = [at EXCEPT ![s] = IF @ = "first" THEN "start" ELSE "stop"]
    /\ UNCHANGED <<agentVars, server, agents, listVars, note, full, news>>

\* One agent after the other, in any order; that a send fails is not looked at.
SendCommand(s, l) ==
    /\ l \in targets[s]
    /\ targets' = [targets EXCEPT ![s] = @ \ {l}]
    /\ IF conn[l[1]] = l[2] /\ server[l] # "none"
       THEN cmds' = [cmds EXCEPT ![l[1]] = @ \cup {<<at[s], s>>}]
       ELSE UNCHANGED cmds
    /\ UNCHANGED <<conn, active, losses, adrift, server, agents, listVars, note, at, full, news>>

\* Mutant: nobody waits for the commands to be sent.
ToldEarly(s) ==
    /\ at[s] \in {"start", "stop"}
    /\ at' = [at EXCEPT ![s] = IF @ = "start" THEN "open" ELSE "done"]
    /\ UNCHANGED <<agentVars, server, agents, listVars, note, targets, full, news>>

\* All have been told; a new stream sends its first snapshot.
Told(s) ==
    /\ at[s] \in {"start", "stop"} /\ targets[s] = {}
    /\ at' = [at EXCEPT ![s] = IF @ = "start" THEN "open" ELSE "done"]
    /\ UNCHANGED <<agentVars, server, agents, listVars, note, targets, full, news>>

Show(s) ==
    /\ at[s] = "open" /\ full[s]
    /\ full' = [full EXCEPT ![s] = FALSE]
    /\ news' = [news EXCEPT ![s] = {}]
    /\ UNCHANGED <<agentVars, server, agents, listVars, note, at, targets>>
-----------------------------------------------------------------------------
(***************************************************************************)
(* Agents and the read loops of their connections.                         *)
(***************************************************************************)

\* Mutant: a stop leaves resourceActive as it is.
HandleCommandOnce(a, c) ==
    /\ c \in cmds[a]
    /\ cmds' = [cmds EXCEPT ![a] = @ \ {c}]
    /\ active' = [active EXCEPT ![a] = TRUE]
    /\ UNCHANGED <<conn, losses, adrift, server, agents, listVars, note, streamVars>>

\* Every command is handled in a goroutine of its own, in any order.
HandleCommand(a, c) ==
    /\ c \in cmds[a]
    /\ cmds' = [cmds EXCEPT ![a] = @ \ {c}]
    /\ active' = [active EXCEPT ![a] = c[1] = "start"]
    /\ UNCHANGED <<conn, losses, adrift, server, agents, listVars, note, streamVars>>

\* The figures reach the hub and the list is copied: its header, not its array.
Report(l) ==
    /\ active[l[1]] /\ conn[l[1]] = l[2]
    /\ server[l] = "reading" /\ note[l] = Resting
    /\ news' = [s \in Streams |-> IF at[s] = "open" THEN news[s] \cup {l[1]} ELSE news[s]]
    /\ note' = [note EXCEPT ![l] =
                    IF list.len = 0 THEN Resting
                    ELSE [busy |-> TRUE, cap |-> list.cap, len |-> list.len, i |-> 1, ch |-> Nobody]]
    /\ UNCHANGED <<agentVars, server, agents, listVars, at, targets, full>>

\* The next element of the copy, as the array is now.
NextChannel(l) ==
    /\ note[l].busy /\ note[l].ch = Nobody
    /\ note' = [note EXCEPT ![l].ch = array[note[l].cap][note[l].i]]
    /\ UNCHANGED <<agentVars, server, agents, listVars, streamVars>>

Advanced(l) ==
    LET n == note[l] IN
    IF n.i = n.len THEN Resting
    ELSE [busy |-> TRUE, cap |-> n.cap, len |-> n.len, i |-> n.i + 1, ch |-> Nobody]

\* The send does not wait: when there is a notification already it is enough.
Notify(l) ==
    /\ note[l].busy /\ note[l].ch # Nobody
    /\ ~Closed(note[l].ch)
    /\ full' = [full EXCEPT ![note[l].ch] = TRUE]
    /\ note' = [note EXCEPT ![l] = Advanced(l)]
    /\ UNCHANGED <<agentVars, server, agents, listVars, at, targets, news>>

\* A send to a closed channel panics; the handler ends as after an error.
NotifyPanics(l) ==
    /\ note[l].busy /\ note[l].ch # Nobody
    /\ Closed(note[l].ch)
    /\ note' = [note EXCEPT ![l] = Resting]
    /\ server' = [server EXCEPT ![l] = "ending"]
    /\ adrift' = [adrift EXCEPT ![l[1]] = TRUE]
    /\ UNCHANGED <<conn, cmds, active, losses, agents, listVars, streamVars>>

\* The read loop notices that the agent has gone.
ReadFails(l) ==
    /\ server[l] = "reading" /\ note[l] = Resting
    /\ conn[l[1]] # l[2]
    /\ server' = [server EXCEPT ![l] = "ending"]
    /\ UNCHANGED <<agentVars, agents, listVars, note, streamVars>>

\* Mutant: the entry is deleted without asking whose it is.
DeregisterAny(l) ==
    /\ server[l] = "ending"
    /\ agents' = [agents EXCEPT ![l[1]] = NoConn]
    /\ server' = [server EXCEPT ![l] = "none"]
    /\ UNCHANGED <<agentVars, listVars, note, streamVars>>

\* The deferred function: the entry may be a later connection's.
Deregister(l) ==
    /\ server[l] = "ending"
    /\ agents' = [agents EXCEPT ![l[1]] = IF @ = l[2] THEN NoConn ELSE @]
    /\ server' = [server EXCEPT ![l] = "none"]
    /\ UNCHANGED <<agentVars, listVars, note, streamVars>>

\* The agent loses its connection, of itself or because the hub has closed it, and
\* with it the commands it has not read.
Disconnect(a) ==
    /\ conn[a] # NoConn
    /\ \/ server[<<a, conn[a]>>] = "none" /\ UNCHANGED losses
       \/ losses < MaxLosses /\ losses' = losses + 1
    /\ conn' = [conn EXCEPT ![a] = NoConn]
    /\ adrift' = [adrift EXCEPT ![a] = TRUE]
    /\ \E read \in SUBSET cmds[a] : cmds' = [cmds EXCEPT ![a] = read]
    /\ UNCHANGED <<active, server, agents, listVars, note, streamVars>>

\* k is not a connection of a that anybody still holds.
Free(a, k) == server[<<a, k>>] = "none" /\ \A s \in Streams : <<a, k>> \notin targets[s]

\* It dials again and registers under the same key. Connections are alike: which of the
\* free ones it is makes no difference.
Register(a, k) ==
    /\ conn[a] = NoConn
    /\ Free(a, k) /\ k = CHOOSE j \in Conns : Free(a, j)
    /\ conn' = [conn EXCEPT ![a] = k]
    /\ server' = [server EXCEPT ![<<a, k>>] = "reading"]
    /\ agents' = [agents EXCEPT ![a] = k]
    /\ UNCHANGED <<cmds, active, losses, adrift, listVars, note, streamVars>>
-----------------------------------------------------------------------------
StreamStep(s) ==
    \/ AgentsByService(s)
    \/ \E l \in Links : SendCommand(s, l)
    \/ Told(s)
    \/ Show(s)

NotifyStep(l) == NextChannel(l) \/ Notify(l) \/ NotifyPanics(l)

Next ==
    \/ \E s \in Streams : SubscribeResources(s) \/ UnsubscribeResources(s) \/ StreamStep(s)
    \/ \E a \in Agents : \/ \E c \in Commands : HandleCommand(a, c)
                         \/ Disconnect(a)
                         \/ \E k \in Conns : Register(a, k)
    \/ \E l \in Links : Report(l) \/ NotifyStep(l) \/ ReadFails(l) \/ Deregister(l)

\* A stream that has a notification is scheduled, and an active agent reports every three
\* seconds; nothing makes a dashboard leave, a command arrive or a lost agent return.
Fairness ==
    /\ \A s \in Streams : WF_vars(Show(s))
    /\ \A l \in Links : WF_vars(Report(l) \/ NotifyStep(l))

Spec == Init /\ [][Next]_vars /\ Fairness
-----------------------------------------------------------------------------
\* What notifications go to is exactly the open subscriptions, each once, although the
\* list shares its array with the copies that handlers are walking through.
ListExact ==
    /\ resCount = list.len
    /\ \A s \in Streams :
        Subscribed(s) <=> \E i \in 1 .. list.len : array[list.cap][i] = s
    /\ \A i, j \in 1 .. list.len : array[list.cap][i] = array[list.cap][j] => i = j

\* An agent that is served can be found under its key, whatever earlier connections of
\* it are about to end; and no entry outlives its handler.
RegistryCurrent ==
    \A a \in Agents :
        /\ conn[a] # NoConn /\ server[<<a, conn[a]>>] = "reading" => agents[a] = conn[a]
        /\ agents[a] # NoConn => server[<<a, agents[a]>>] # "none"

\* "When the first subscriber connects, tells agents to start reporting resources",
\* "when the last subscriber disconnects, tells agents to stop": when all is said and
\* done an agent reports if and only if somebody watches, however dashboards come and go
\* and connections are lost meanwhile, with one exception: an agent that was not connected
\* when reporting was last turned on or off, or has lost its connection since, or had a
\* command to the contrary on its way then, which may overtake the new one because commands
\* are sent after the lock is released and handled in goroutines of their own. The exception
\* ends as soon as reporting is turned on or off again.
WatchedReport == Settled => \A a \in Agents : ~adrift[a] => (active[a] <=> resCount > 0)

\* New figures of an agent that goes on reporting are shown by every stream that stays,
\* although notifications are dropped, copies of the list go stale and handlers panic.
Reporting(a) == active[a] /\ Served(a)
NewsShown ==
    \A s \in Streams, a \in Agents :
        []<>(at[s] = "open" /\ Reporting(a) => a \notin news[s])
=============================================================================
