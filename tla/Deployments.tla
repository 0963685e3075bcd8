----------------------------- MODULE Deployments -----------------------------
(***************************************************************************)
(* What the pipelines promise to those who click on "Deploy".  Of the runs *)
(* of one process and side one goes on at a time, and a click is refused   *)
(* only while one does.  A run comes to one verdict before it makes room   *)
(* for the next; the verdict is shown to one stream at most, of the same   *)
(* process and side, though not always to the click's own.  Stages, lines, *)
(* mutexes and channels are forgotten.                                     *)
(***************************************************************************)
CONSTANTS
    Clicks,
    Queues,   \* the processes with their sides
    Nobody    \* not a click

VARIABLES
    queue,    \* queue[c]: where the run of c goes on
    source,   \* source[c]: where the stream of c listens
    state,    \* state[c]: how far the run of c has come
    outcome,  \* outcome[c]: the verdict of the run of c
    author,   \* author[c]: the run whose verdict ended the stream of c
    shown     \* shown[c]: that verdict

vars == <<queue, source, state, outcome, author, shown>>

Init ==
    /\ queue \in [Clicks -> Queues]
    /\ source \in [Clicks -> Queues]
    /\ state = [c \in Clicks |-> "idle"]
    /\ outcome = [c \in Clicks |-> "none"]
    /\ author = [c \in Clicks |-> Nobody]
    /\ shown = [c \in Clicks |-> "none"]

Busy(q) == \E d \in Clicks : queue[d] = q /\ state[d] = "running"

Ask(c) ==
    /\ state[c] = "idle" /\ state' = [state EXCEPT ![c] = "asked"]
    /\ UNCHANGED <<queue, source, outcome, author, shown>>

Begin(c) ==
    /\ state[c] = "asked" /\ ~Busy(queue[c])
    /\ state' = [state EXCEPT ![c] = "running"]
    /\ UNCHANGED <<queue, source, outcome, author, shown>>

Refuse(c) ==
    /\ state[c] = "asked" /\ Busy(queue[c])
    /\ state' = [state EXCEPT ![c] = "refused"]
    /\ UNCHANGED <<queue, source, outcome, author, shown>>

Decide(c) ==
    /\ state[c] = "running" /\ outcome[c] = "none"
    /\ \E v \in {"ERR", "EOF"} : outcome' = [outcome EXCEPT ![c] = v]
    /\ UNCHANGED <<queue, source, state, author, shown>>

MakeRoom(c) ==
    /\ state[c] = "running" /\ outcome[c] # "none"
    /\ state' = [state EXCEPT ![c] = "over"]
    /\ UNCHANGED <<queue, source, outcome, author, shown>>

Tell(c) ==
    /\ state[c] # "idle" /\ author[c] = Nobody
    /\ \E d \in Clicks :
        /\ outcome[d] # "none" /\ queue[d] = source[c]
        /\ \A e \in Clicks : author[e] # d
        /\ author' = [author EXCEPT ![c] = d]
        /\ shown' = [shown EXCEPT ![c] = outcome[d]]
    /\ UNCHANGED <<queue, source, state, outcome>>

Next == \E c \in Clicks : Ask(c) \/ Begin(c) \/ Refuse(c) \/ Decide(c) \/ MakeRoom(c) \/ Tell(c)

Spec == Init /\ [][Next]_vars
=============================================================================
