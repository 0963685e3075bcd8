--------------------------- MODULE RemoteSession ---------------------------
(***************************************************************************)
(* What the hub and an agent promise to the pages that use them: a key is  *)
(* heard once, by the shell it was typed for, and only while the shell     *)
(* runs; a piece of output is shown once, to the page it was written for;  *)
(* a request is answered by the agent's reply to it, or fails.  Keys and   *)
(* output may be lost, and keys may overtake each other.                   *)
(***************************************************************************)
EXTENDS Naturals

CONSTANTS Sessions, Requests, Pieces

VARIABLES
    page,     \* page[s]: the terminal page of s
    shell,    \* shell[s]: the shell of s
    typed,    \* typed[s]: how many keys have been typed
    heard,    \* heard[s]: the numbers of the keys that the shell has read
    written,  \* written[s]: the pieces of output on their way or shown
    shown,    \* shown[s]: the pieces of output that the page has shown
    reply,    \* the requests that the agent has replied to
    request   \* request[r]: what the caller of r knows

vars == <<page, shell, typed, heard, written, shown, reply, request>>

Init ==
    /\ page = [s \in Sessions |-> "none"]
    /\ shell = [s \in Sessions |-> "none"]
    /\ typed = [s \in Sessions |-> 0]
    /\ heard = [s \in Sessions |-> {}]
    /\ written = [s \in Sessions |-> {}]
    /\ shown = [s \in Sessions |-> {}]
    /\ reply = {}
    /\ request = [r \in Requests |-> "idle"]

Open(s) ==
    /\ page[s] = "none" /\ page' = [page EXCEPT ![s] = "open"]
    /\ UNCHANGED <<shell, typed, heard, written, shown, reply, request>>

Leave(s) ==
    /\ page[s] = "open" /\ page' = [page EXCEPT ![s] = "gone"]
    /\ UNCHANGED <<shell, typed, heard, written, shown, reply, request>>

Start(s) ==
    /\ page[s] # "none"
    /\ shell[s] = "none" /\ shell' = [shell EXCEPT ![s] = "running"]
    /\ UNCHANGED <<page, typed, heard, written, shown, reply, request>>

End(s) ==
    /\ shell[s] = "running" /\ shell' = [shell EXCEPT ![s] = "gone"]
    /\ UNCHANGED <<page, typed, heard, written, shown, reply, request>>

Type(s) ==
    /\ page[s] = "open" /\ typed' = [typed EXCEPT ![s] = @ + 1]
    /\ UNCHANGED <<page, shell, heard, written, shown, reply, request>>

Hear(s) ==
    /\ shell[s] = "running"
    /\ \E k \in (1 .. typed[s]) \ heard[s] : heard' = [heard EXCEPT ![s] = @ \cup {k}]
    /\ UNCHANGED <<page, shell, typed, written, shown, reply, request>>

Write(s) ==
    /\ shell[s] = "running"
    /\ \E x \in Pieces :
        /\ \A t \in Sessions : x \notin written[t]
        /\ written' = [written EXCEPT ![s] = @ \cup {x}]
    /\ UNCHANGED <<page, shell, typed, heard, shown, reply, request>>

Show(s) ==
    /\ page[s] = "open"
    /\ \E x \in written[s] \ shown[s] : shown' = [shown EXCEPT ![s] = @ \cup {x}]
    /\ UNCHANGED <<page, shell, typed, heard, written, reply, request>>

Ask(r) ==
    /\ request[r] = "idle" /\ request' = [request EXCEPT ![r] = "waiting"]
    /\ UNCHANGED <<page, shell, typed, heard, written, shown, reply>>

Reply(r) ==
    /\ request[r] # "idle" /\ r \notin reply /\ reply' = reply \cup {r}
    /\ UNCHANGED <<page, shell, typed, heard, written, shown, request>>

Answer(r) ==
    /\ request[r] = "waiting" /\ r \in reply
    /\ request' = [request EXCEPT ![r] = "answered"]
    /\ UNCHANGED <<page, shell, typed, heard, written, shown, reply>>

Fail(r) ==
    /\ request[r] = "waiting" /\ request' = [request EXCEPT ![r] = "failed"]
    /\ UNCHANGED <<page, shell, typed, heard, written, shown, reply>>

Next ==
    \/ \E s \in Sessions : \/ Open(s) \/ Leave(s) \/ Start(s) \/ End(s)
                           \/ Type(s) \/ Hear(s) \/ Write(s) \/ Show(s)
    \/ \E r \in Requests : Ask(r) \/ Reply(r) \/ Answer(r) \/ Fail(r)

Spec == Init /\ [][Next]_vars
=============================================================================
