------------------------ MODULE HubResources_proofs ------------------------
(***************************************************************************)
(* Proofs about HubResources: what the hub notifies is exactly the open    *)
(* subscriptions although the list is moved about in an array that others  *)
(* read, the registry knows the connection that is served, and agents whose *)
(* commands do not cross report exactly if somebody watches.               *)
(***************************************************************************)
EXTENDS HubResources, TLAPS

\* Streams come in the order of their numbers, and so they stand in the list.
InOrder == \A s, t \in Streams : s < t /\ at[s] = "idle" => at[t] = "idle"

Room == list.cap # 0 => list.len <= Len(array[list.cap])

Sorted ==
    /\ \A i \in 1 .. list.len : i <= array[list.cap][i]
    /\ \A i, j \in 1 .. list.len : i < j => array[list.cap][i] < array[list.cap][j]

\* A copy of the list is of an array that is still written to or of an earlier one, and
\* what it says of its length has been written.
Copies ==
    \A l \in Links : note[l].busy =>
        /\ note[l].cap <= list.cap
        /\ note[l].len <= Len(array[note[l].cap])
        /\ note[l].i <= note[l].len

IInv == TypeOK /\ InOrder /\ Room /\ Sorted /\ Copies /\ ListExact /\ RegistryCurrent

\* What the agents should be doing, and the command to the contrary.
Wanted == IF resCount > 0 THEN "start" ELSE "stop"
Unwanted == IF resCount > 0 THEN "stop" ELSE "start"

\* A command of this kind will reach the connection that a has.
Coming(a, kind) ==
    \/ \E s \in Streams : <<kind, s>> \in cmds[a]
    \/ \E s \in Streams : at[s] = kind /\ <<a, conn[a]>> \in targets[s]
    \/ \E s \in Streams : at[s] = IF kind = "start" THEN "first" ELSE "last"

\* An agent that is not adrift is served, hears nothing to the contrary, and will be told
\* or does what it should.
WInv ==
    \A a \in Agents : ~adrift[a] =>
        /\ Served(a)
        /\ ~Pending(a, Unwanted)
        /\ Coming(a, Wanted) \/ (active[a] <=> resCount > 0)
-----------------------------------------------------------------------------
\* A link is a pair.
LEMMA LinkIsPair ==
    ASSUME NEW l \in Links
    PROVE  l[1] \in Agents /\ l[2] \in Conns /\ l = <<l[1], l[2]>>
  BY DEF Links

\* A pair is a link.
LEMMA PairIsLink ==
    ASSUME NEW a \in Agents, NEW k \in Conns
    PROVE  <<a, k>> \in Links
  BY DEF Links

\* Numbers are numbers, and the list lies in an array once it has a capacity.
LEMMA ListNumbers ==
    ASSUME IInv
    PROVE  /\ list.len \in Nat /\ list.cap \in Nat /\ list.len <= list.cap /\ resCount \in Nat
           /\ list.cap # 0 <=> list.cap \in Caps
           /\ \A c \in Caps : c \in Nat
           /\ \A t \in Streams : t \in Nat /\ 1 <= t
           /\ \A i \in 1 .. list.len : array[list.cap][i] \in Streams
<1>1. \A c \in Caps : c \in Nat /\ c # 0
      BY HubResourcesAssumption
<1>2. list.len \in Nat /\ (list.cap \in Caps \/ list.cap = 0) /\ list.len <= list.cap /\ resCount \in Nat
      BY DEF IInv, TypeOK
<1>3. list.cap \in Nat
  <2>1. CASE list.cap \in Caps
        BY <1>1, <2>1
  <2>2. CASE list.cap = 0
        BY <2>2, 0 \in Nat
  <2>3. QED BY <1>2, <2>1, <2>2
<1>4. list.cap # 0 <=> list.cap \in Caps
      BY <1>1, <1>2
<1>5. \A t \in Streams : t \in Nat /\ 1 <= t
      BY DEF Streams
<1>6. ASSUME NEW i \in 1 .. list.len PROVE array[list.cap][i] \in Streams
  <2>1. list.cap \in Caps
        BY <1>2, <1>3, <1>4
  <2>2. array[list.cap] \in Seq(Streams) /\ list.len <= Len(array[list.cap])
        BY <1>4, <2>1 DEF IInv, TypeOK, Room
  <2>3. QED BY <1>2, <2>2
<1>7. QED BY <1>1, <1>2, <1>3, <1>4, <1>5, <1>6

\* A handler that is not busy holds no copy.
LEMMA NoteOfLink ==
    ASSUME IInv, NEW l \in Links
    PROVE  \/ note[l] = Resting /\ ~note[l].busy
           \/ /\ note[l].busy = TRUE /\ note[l].cap \in Caps /\ note[l].len \in Nat \ {0}
              /\ note[l].i \in Nat \ {0} /\ note[l].ch \in Streams \cup {Nobody}
              /\ note[l] \in [busy : {TRUE}, cap : Caps, len : Nat \ {0}, i : Nat \ {0},
                             ch : Streams \cup {Nobody}]
<1>1. note[l] \in Notes
      BY DEF IInv, TypeOK
<1>2. CASE note[l] = Resting
      BY <1>2 DEF Resting
<1>3. CASE note[l] \in [busy : {TRUE}, cap : Caps, len : Nat \ {0}, i : Nat \ {0}, ch : Streams \cup {Nobody}]
      BY <1>3
<1>4. QED BY <1>1, <1>2, <1>3 DEF Notes

\* A busy handler that takes a channel stays where it is.
LEMMA ChannelTaken ==
    ASSUME NEW C, NEW N, NEW S, NEW y \in S, NEW r \in [busy : {TRUE}, cap : C, len : N, i : N, ch : S]
    PROVE  /\ [r EXCEPT !.ch = y] \in [busy : {TRUE}, cap : C, len : N, i : N, ch : S]
           /\ [r EXCEPT !.ch = y].cap = r.cap
           /\ [r EXCEPT !.ch = y].len = r.len
           /\ [r EXCEPT !.ch = y].i = r.i
  OBVIOUS

\* Whoever is in the list has come before s.
LEMMA EarlierSubscribers ==
    ASSUME IInv, NEW s \in Streams, at[s] = "idle", NEW i \in 1 .. list.len
    PROVE  array[list.cap][i] \in Streams /\ array[list.cap][i] < s
<1>1. list.cap \in Caps /\ i \in 1 .. Len(array[list.cap]) /\ array[list.cap] \in Seq(Streams)
      BY DEF IInv, TypeOK, Room
<1>2. array[list.cap][i] \in Streams
      BY <1>1
<1>3. Subscribed(array[list.cap][i])
      BY <1>2 DEF IInv, ListExact
<1>4. at[array[list.cap][i]] # "idle"
      BY <1>3 DEF Subscribed
<1>5. QED BY <1>2, <1>4 DEF IInv, InOrder, Streams

\* There is room for s, in the array of the list or in a new one that nobody has copied.
LEMMA ListGrows ==
    ASSUME IInv, NEW s \in Streams, at[s] = "idle", AppendToList(s)
    PROVE  /\ list' \in [cap : Caps, len : Nat \ {0}] /\ array' \in [Caps -> Seq(Streams)]
           /\ list'.len = list.len + 1 /\ list.cap <= list'.cap /\ list'.len <= list'.cap
           /\ list'.len <= Len(array'[list'.cap])
           /\ \A c \in Caps : c <= list.cap => Len(array[c]) <= Len(array'[c])
           /\ \A i \in 1 .. list.len : array'[list'.cap][i] = array[list.cap][i]
           /\ array'[list'.cap][list'.len] = s
<1> USE HubResourcesAssumption
<1>0. /\ list \in [cap : Caps \cup {0}, len : Nat] /\ list.len <= list.cap
      /\ array \in [Caps -> Seq(Streams)]
      /\ list.cap # 0 => list.len <= Len(array[list.cap])
      BY DEF IInv, TypeOK, Room
<1>a. /\ list.len \in Nat /\ list.cap \in Nat /\ \A c \in Caps : c \in Nat
      /\ list.cap # 0 <=> list.cap \in Caps
      BY ListNumbers
<1>1. CASE list.len < list.cap
  <2> DEFINE q == array[list.cap]
  <2>1. list.cap \in Caps /\ q \in Seq(Streams) /\ list.len <= Len(q) /\ Len(q) \in Nat
    <3>1. list.cap \in Caps
          BY <1>a, <1>1
    <3>2. QED BY <1>0, <1>a, <3>1
  <2>2. Put(q, list.len + 1, s) \in Seq(Streams)
        BY <1>0, <2>1 DEF Put
  <2>3. /\ Len(q) <= Len(Put(q, list.len + 1, s)) /\ list.len + 1 <= Len(Put(q, list.len + 1, s))
        /\ Put(q, list.len + 1, s)[list.len + 1] = s
        /\ \A i \in 1 .. list.len : Put(q, list.len + 1, s)[i] = q[i]
        BY <1>0, <2>1 DEF Put
  <2>4. /\ array' = [array EXCEPT ![list.cap] = Put(q, list.len + 1, s)]
        /\ list' = [list EXCEPT !.len = @ + 1]
        BY <1>1 DEF AppendToList
  <2>5. array'[list.cap] = Put(q, list.len + 1, s) /\ array' \in [Caps -> Seq(Streams)]
        /\ \A c \in Caps : c # list.cap => array'[c] = array[c]
        BY <1>0, <2>1, <2>2, <2>4
  <2>6. list'.cap = list.cap /\ list'.len = list.len + 1 /\ list' \in [cap : Caps, len : Nat \ {0}]
    <3>1. list.len + 1 \in Nat \ {0}
          BY <1>a
    <3>2. list' = [cap |-> list.cap, len |-> list.len + 1]
          BY <1>0, <2>4
    <3>3. QED BY <2>1, <3>1, <3>2
  <2> HIDE DEF q
  <2>7. /\ list'.len <= list'.cap /\ list'.len <= Len(array'[list'.cap]) /\ list.cap <= list'.cap
        BY <1>a, <1>1, <2>3, <2>5, <2>6
  <2>8. \A c \in Caps : c <= list.cap => Len(array[c]) <= Len(array'[c])
    <3>1. \A c \in Caps : Len(array[c]) \in Nat
          BY <1>0
    <3>2. QED BY <2>3, <2>5, <3>1 DEF q
  <2>9. QED BY <2>3, <2>5, <2>6, <2>7, <2>8 DEF q
<1>2. CASE ~(list.len < list.cap)
  <2> DEFINE c == Growth[list.cap]
             old == IF list.cap = 0 THEN <<>> ELSE SubSeq(array[list.cap], 1, list.len)
  <2>1. list.len = list.cap /\ c \in Caps
    <3>1. list.len = list.cap
          BY <1>0, <1>a, <1>2
    <3>2. QED BY <1>0, <3>1
  <2>2. list.cap < s
    <3>1. CASE list.cap = 0
          BY <3>1 DEF Streams
    <3>2. CASE list.cap # 0
      <4>1. list.len \in 1 .. list.len
            BY <1>0, <2>1, <3>2
      <4>2. list.len <= array[list.cap][list.len]
            BY <4>1 DEF IInv, Sorted
      <4>3. QED BY <1>0, <2>1, <4>1, <4>2, EarlierSubscribers DEF Streams
    <3>3. QED BY <3>1, <3>2
  <2>3. list.cap < c
        BY <1>0, <2>1, <2>2 DEF Streams
  <2>4. /\ old \in Seq(Streams) /\ Len(old) = list.len
        /\ \A i \in 1 .. list.len : old[i] = array[list.cap][i]
    <3>1. CASE list.cap = 0
          BY <2>1, <3>1
    <3>2. CASE list.cap # 0
      <4> DEFINE q == array[list.cap]
      <4>1. q \in Seq(Streams) /\ list.len \in 0 .. Len(q)
            BY <1>0, <1>a, <3>2
      <4>2. /\ SubSeq(q, 1, list.len) \in Seq(Streams) /\ Len(SubSeq(q, 1, list.len)) = list.len
            /\ \A i \in 1 .. list.len : SubSeq(q, 1, list.len)[i] = q[i]
            BY <4>1
      <4>3. QED BY <3>2, <4>2
    <3>3. QED BY <3>1, <3>2
  <2>5. /\ array' = [array EXCEPT ![c] = Append(old, s)]
        /\ list' = [cap |-> c, len |-> list.len + 1]
        BY <1>2 DEF AppendToList
  <2>6. /\ Append(old, s) \in Seq(Streams) /\ Len(Append(old, s)) = list.len + 1
        /\ Append(old, s)[list.len + 1] = s
        /\ \A i \in 1 .. list.len : Append(old, s)[i] = array[list.cap][i]
        BY <1>0, <2>4
  <2>7. /\ array'[c] = Append(old, s) /\ array' \in [Caps -> Seq(Streams)]
        /\ \A d \in Caps : d # c => array'[d] = array[d]
        BY <1>0, <2>1, <2>5, <2>6
  <2>8. list'.cap = c /\ list'.len = list.len + 1 /\ list' \in [cap : Caps, len : Nat \ {0}]
        BY <1>0, <2>1, <2>5
  <2> HIDE DEF c, old
  <2>9. \A d \in Caps : d <= list.cap => d # c /\ Len(array'[d]) = Len(array[d]) /\ Len(array[d]) \in Nat
        BY <1>0, <1>a, <2>1, <2>3, <2>7
  <2>10. list'.len <= list'.cap /\ list.cap <= list'.cap
        BY <1>a, <2>1, <2>3, <2>8
  <2>11. Len(array'[list'.cap]) = list'.len /\ array'[list'.cap][list'.len] = s
        BY <2>6, <2>7, <2>8
  <2>12. \A i \in 1 .. list.len : array'[list'.cap][i] = array[list.cap][i]
        BY <2>6, <2>7, <2>8
  <2>13. QED BY <1>a, <2>7, <2>8, <2>9, <2>10, <2>11, <2>12
<1>3. QED BY <1>1, <1>2

\* The ones that follow s move up; no array gets shorter.
LEMMA ListShrinks ==
    ASSUME IInv, NEW s \in Streams, RemoveFromList(s)
    PROVE  \E k \in 1 .. list.len :
              /\ array[list.cap][k] = s
              /\ list' \in [cap : Caps, len : Nat] /\ array' \in [Caps -> Seq(Streams)]
              /\ list'.cap = list.cap /\ list'.len = list.len - 1 /\ list.cap \in Caps
              /\ \A c \in Caps : Len(array'[c]) = Len(array[c])
              /\ \A i \in 1 .. k - 1 : array'[list.cap][i] = array[list.cap][i]
              /\ \A i \in k .. list.len - 1 : array'[list.cap][i] = array[list.cap][i + 1]
<1> USE HubResourcesAssumption
<1>0. /\ list \in [cap : Caps \cup {0}, len : Nat] /\ list.len <= list.cap
      /\ array \in [Caps -> Seq(Streams)]
      /\ list.cap # 0 => list.len <= Len(array[list.cap])
      BY DEF IInv, TypeOK, Room
<1>1. PICK k \in 1 .. list.len :
          /\ array[list.cap][k] = s
          /\ array' = [array EXCEPT ![list.cap] =
                          [j \in DOMAIN @ |-> IF k <= j /\ j < list.len THEN @[j + 1] ELSE @[j]]]
          /\ list' = [list EXCEPT !.len = @ - 1]
      BY DEF RemoveFromList
<1> DEFINE q == array[list.cap]
           moved == [j \in DOMAIN q |-> IF k <= j /\ j < list.len THEN q[j + 1] ELSE q[j]]
<1>2. list.cap \in Caps /\ q \in Seq(Streams) /\ list.len <= Len(q) /\ list.len \in Nat \ {0}
      BY <1>0, <1>1
<1>3. /\ DOMAIN q = 1 .. Len(q) /\ Len(q) \in Nat
      /\ \A j \in 1 .. Len(q) : moved[j] \in Streams
      BY <1>2
<1>4. moved \in [1 .. Len(q) -> Streams]
      BY <1>3
<1>5. moved \in Seq(Streams) /\ Len(moved) = Len(q)
      BY <1>3, <1>4
<1>6. /\ array'[list.cap] = moved /\ array' \in [Caps -> Seq(Streams)]
      /\ \A c \in Caps : c # list.cap => array'[c] = array[c]
      BY <1>0, <1>1, <1>2, <1>5
<1>7. list'.cap = list.cap /\ list'.len = list.len - 1 /\ list' \in [cap : Caps, len : Nat]
  <2>1. list' = [cap |-> list.cap, len |-> list.len - 1]
        BY <1>0, <1>1
  <2>2. list.len - 1 \in Nat
        BY <1>2
  <2>3. QED BY <1>2, <2>1, <2>2
<1>8. /\ \A i \in 1 .. k - 1 : moved[i] = q[i]
      /\ \A i \in k .. list.len - 1 : moved[i] = q[i + 1]
      BY <1>2, <1>3
<1> HIDE DEF moved
<1>9. QED BY <1>1, <1>2, <1>5, <1>6, <1>7, <1>8
-----------------------------------------------------------------------------
\* Who does not touch the list keeps it exact, unless a stream comes or goes.
LEMMA ListStays ==
    ASSUME IInv, UNCHANGED listVars,
           \A t \in Streams : /\ at'[t] = "idle" <=> at[t] = "idle"
                              /\ Subscribed(t)' <=> Subscribed(t)
    PROVE  (InOrder /\ Room /\ Sorted /\ ListExact)'
  BY DEF IInv, InOrder, Room, Sorted, ListExact, listVars

\* Whether reporting is turned on, off or neither, the history is well-formed.
LEMMA AdriftTyped ==
    ASSUME IInv, UNCHANGED adrift \/ \E kind \in {"start", "stop"} : Turn(kind)
    PROVE  adrift' \in [Agents -> BOOLEAN]
  BY DEF IInv, TypeOK, Turn

\* A stream that comes is the last in the list.
LEMMA StepSubscribe ==
    ASSUME IInv, NEW s \in Streams, SubscribeResources(s)
    PROVE  IInv'
<1>0. /\ at[s] = "idle" /\ \A t \in Streams : t < s => at[t] # "idle"
      /\ resCount' = resCount + 1 /\ AppendToList(s)
      /\ \E w \in {"first", "open"} : at' = [at EXCEPT ![s] = w]
      /\ adrift' \in [Agents -> BOOLEAN]
      /\ UNCHANGED <<conn, cmds, active, losses, server, agents, note, targets, full, news>>
  <2>1. /\ at[s] = "idle" /\ \A t \in 1 .. s - 1 : at[t] # "idle"
        /\ resCount' = resCount + 1 /\ AppendToList(s)
        /\ at' = [at EXCEPT ![s] = IF resCount + 1 = 1 THEN "first" ELSE "open"]
        /\ UNCHANGED <<conn, cmds, active, losses, server, agents, note, targets, full, news>>
        BY DEF SubscribeResources
  <2>2. \A t \in Streams : t < s => t \in 1 .. s - 1
        BY HubResourcesAssumption DEF Streams
  <2>3. adrift' \in [Agents -> BOOLEAN]
        BY AdriftTyped DEF SubscribeResources
  <2>4. QED BY <2>1, <2>2, <2>3
<1>a. /\ at \in [Streams -> {"idle", "first", "start", "open", "last", "stop", "done"}]
      /\ list.len \in Nat /\ list.cap \in Nat /\ resCount \in Nat /\ \A t \in Streams : t \in Nat
      BY ListNumbers DEF IInv, TypeOK
<1>b. /\ list' \in [cap : Caps, len : Nat \ {0}] /\ array' \in [Caps -> Seq(Streams)]
      /\ list'.len = list.len + 1 /\ list.cap <= list'.cap /\ list'.len <= list'.cap
      /\ list'.len <= Len(array'[list'.cap])
      /\ \A c \in Caps : c <= list.cap => Len(array[c]) <= Len(array'[c])
      /\ \A i \in 1 .. list.len : array'[list'.cap][i] = array[list.cap][i]
      /\ array'[list'.cap][list'.len] = s
      BY <1>0, ListGrows
<1> DEFINE new == array'[list'.cap]
           last == array[list.cap]
<1>c. /\ \A i \in 1 .. list.len : new[i] = last[i] /\ last[i] \in Streams /\ last[i] < s
      /\ new[list.len + 1] = s /\ list'.len = list.len + 1
      BY <1>0, <1>b, EarlierSubscribers
<1>1. TypeOK'
      BY <1>0, <1>a, <1>b DEF IInv, TypeOK, agentVars
<1>2. InOrder'
      BY <1>0, <1>a DEF IInv, InOrder
<1>3. Room' /\ Sorted'
  <2>1. /\ \A i \in 1 .. list.len : i <= last[i]
        /\ \A i, j \in 1 .. list.len : i < j => last[i] < last[j]
        BY DEF IInv, Sorted
  <2>2. list.len + 1 <= s
    <3>1. CASE list.len = 0
          BY <3>1 DEF Streams
    <3>2. CASE list.len # 0
      <4>1. list.len \in 1 .. list.len
            BY <1>a, <3>2
      <4>2. list.len <= last[list.len] /\ last[list.len] < s /\ last[list.len] \in Nat /\ s \in Nat
            BY <1>a, <1>c, <2>1, <4>1
      <4> HIDE DEF last
      <4>3. QED BY <1>a, <4>2
    <3>3. QED BY <3>1, <3>2
  <2>3. Room'
        BY <1>b DEF Room
  <2> HIDE DEF new, last
  <2>4. /\ \A i \in 1 .. list.len + 1 : i <= new[i]
        /\ \A i, j \in 1 .. list.len + 1 : i < j => new[i] < new[j]
        BY <1>a, <1>c, <2>1, <2>2
  <2>5. QED BY <1>c, <2>3, <2>4 DEF Sorted, new
<1>4. Copies'
  <2> SUFFICES ASSUME NEW l \in Links, note[l].busy
               PROVE  /\ note[l].cap <= list'.cap
                      /\ note[l].len <= Len(array'[note[l].cap])
                      /\ note[l].i <= note[l].len
      BY <1>0 DEF Copies
  <2>1. /\ note[l].cap \in Caps /\ note[l].len \in Nat /\ note[l].i \in Nat
        /\ note[l].cap <= list.cap /\ note[l].len <= Len(array[note[l].cap]) /\ note[l].i <= note[l].len
        BY NoteOfLink DEF IInv, Copies
  <2>2. Len(array[note[l].cap]) \in Nat /\ Len(array'[note[l].cap]) \in Nat /\ list'.cap \in Nat
    <3>1. array[note[l].cap] \in Seq(Streams) /\ array'[note[l].cap] \in Seq(Streams)
          BY <1>b, <2>1 DEF IInv, TypeOK
    <3>2. list'.cap \in Caps
          BY <1>b
    <3>3. QED BY <3>1, <3>2, ListNumbers
  <2>3. Len(array[note[l].cap]) <= Len(array'[note[l].cap]) /\ list.cap <= list'.cap
        BY <1>b, <2>1
  <2>4. note[l].cap \in Nat /\ list.cap \in Nat
        BY <2>1, ListNumbers
  <2> HIDE DEF new, last
  <2>5. QED BY <2>1, <2>2, <2>3, <2>4
<1>5. ListExact'
  <2>1. \A t \in Streams : Subscribed(t)' <=> Subscribed(t) \/ t = s
        BY <1>0, <1>a DEF Subscribed
  <2>2. /\ resCount = list.len
        /\ \A t \in Streams : Subscribed(t) <=> \E i \in 1 .. list.len : last[i] = t
        /\ \A i, j \in 1 .. list.len : last[i] = last[j] => i = j
        BY DEF IInv, ListExact
  <2> HIDE DEF new, last
  <2>3. 1 .. list.len + 1 = (1 .. list.len) \cup {list.len + 1} /\ list.len + 1 \notin 1 .. list.len
        BY <1>a
  <2>4. \A t \in Streams : Subscribed(t)' <=> \E i \in 1 .. list.len + 1 : new[i] = t
        BY <1>c, <2>1, <2>2, <2>3
  <2>5. \A i, j \in 1 .. list.len + 1 : new[i] = new[j] => i = j
        BY <1>a, <1>c, <2>2, <2>3
  <2>6. QED BY <1>0, <1>c, <2>2, <2>4, <2>5 DEF ListExact, new
<1>6. RegistryCurrent'
      BY <1>0 DEF IInv, RegistryCurrent, agentVars
<1>7. QED BY <1>1, <1>2, <1>3, <1>4, <1>5, <1>6 DEF IInv

\* A stream that goes leaves the others in their order.
LEMMA StepUnsubscribe ==
    ASSUME IInv, NEW s \in Streams, UnsubscribeResources(s)
    PROVE  IInv'
<1>0. /\ at[s] = "open" /\ resCount' = resCount - 1 /\ RemoveFromList(s) /\ Forget(s)
      /\ \E w \in {"last", "done"} : at' = [at EXCEPT ![s] = w]
      /\ adrift' \in [Agents -> BOOLEAN]
      /\ UNCHANGED <<conn, cmds, active, losses, server, agents, note, targets>>
      BY AdriftTyped DEF UnsubscribeResources
<1>a. /\ at \in [Streams -> {"idle", "first", "start", "open", "last", "stop", "done"}]
      /\ list.len \in Nat /\ list.cap \in Nat /\ resCount \in Nat /\ \A t \in Streams : t \in Nat
      /\ \A i \in 1 .. list.len : array[list.cap][i] \in Streams
      BY ListNumbers DEF IInv, TypeOK
<1>b. PICK k \in 1 .. list.len :
          /\ array[list.cap][k] = s
          /\ list' \in [cap : Caps, len : Nat] /\ array' \in [Caps -> Seq(Streams)]
          /\ list'.cap = list.cap /\ list'.len = list.len - 1 /\ list.cap \in Caps
          /\ \A c \in Caps : Len(array'[c]) = Len(array[c])
          /\ \A i \in 1 .. k - 1 : array'[list.cap][i] = array[list.cap][i]
          /\ \A i \in k .. list.len - 1 : array'[list.cap][i] = array[list.cap][i + 1]
      BY <1>0, ListShrinks
<1> DEFINE new == array'[list.cap]
           last == array[list.cap]
<1>c. /\ last[k] = s /\ k \in 1 .. list.len /\ list'.len = list.len - 1 /\ list'.cap = list.cap
      /\ \A i \in 1 .. k - 1 : new[i] = last[i]
      /\ \A i \in k .. list.len - 1 : new[i] = last[i + 1]
      BY <1>b
<1>d. /\ resCount = list.len
      /\ \A t \in Streams : Subscribed(t) <=> \E i \in 1 .. list.len : last[i] = t
      /\ \A i, j \in 1 .. list.len : last[i] = last[j] => i = j
      BY DEF IInv, ListExact
<1>1. TypeOK'
  <2>1. resCount' \in Nat /\ list'.len <= list'.cap /\ list' \in [cap : Caps \cup {0}, len : Nat]
        BY <1>0, <1>a, <1>b, <1>d DEF IInv, TypeOK
  <2>2. QED BY <1>0, <1>a, <1>b, <2>1 DEF IInv, TypeOK, agentVars, Forget
<1>2. InOrder'
      BY <1>0, <1>a DEF IInv, InOrder
<1>3. Room' /\ Sorted'
  <2>1. /\ \A i \in 1 .. list.len : i <= last[i]
        /\ \A i, j \in 1 .. list.len : i < j => last[i] < last[j]
        BY DEF IInv, Sorted
  <2>2. Room'
        BY <1>a, <1>b DEF IInv, Room
  <2> HIDE DEF new, last
  <2>3. \A i \in 1 .. list.len : last[i] \in Nat
        BY <1>a DEF last
  <2>4. /\ \A i \in 1 .. k - 1 : i <= new[i] /\ i \in 1 .. list.len /\ new[i] = last[i]
        /\ \A i \in k .. list.len - 1 : i <= new[i] /\ i + 1 \in 1 .. list.len /\ new[i] = last[i + 1]
        /\ \A i \in 1 .. list.len - 1 : i \in 1 .. k - 1 \/ i \in k .. list.len - 1
        BY <1>a, <1>c, <2>1, <2>3
  <2>5. ASSUME NEW i \in 1 .. list.len - 1, NEW j \in 1 .. list.len - 1, i < j PROVE new[i] < new[j]
    <3>0. k \in Nat /\ i \in Nat /\ j \in Nat
          BY <1>a
    <3>1. CASE j < k
      <4>1. i \in 1 .. k - 1 /\ j \in 1 .. k - 1
            BY <2>5, <3>0, <3>1
      <4>2. QED BY <2>1, <2>4, <2>5, <4>1
    <3>2. CASE i < k /\ k <= j
          BY <1>a, <1>c, <2>1, <2>4, <3>2
    <3>3. CASE k <= i
      <4>1. i \in k .. list.len - 1 /\ j \in k .. list.len - 1 /\ i + 1 < j + 1
            BY <1>a, <2>5, <3>0, <3>3
      <4>2. QED BY <2>1, <2>4, <4>1
    <3>4. QED BY <3>0, <3>1, <3>2, <3>3
  <2>6. \A i \in 1 .. list.len - 1 : i <= new[i]
        BY <2>4
  <2>7. QED BY <1>c, <2>2, <2>5, <2>6 DEF Sorted, new
<1>4. Copies'
  <2>1. \A l \in Links : note[l].busy => note[l].cap \in Caps
        BY NoteOfLink
  <2>2. QED BY <1>0, <1>b, <2>1 DEF IInv, Copies
<1>5. ListExact'
  <2>1. \A t \in Streams : Subscribed(t)' <=> Subscribed(t) /\ t # s
        BY <1>0, <1>a DEF Subscribed
  <2> HIDE DEF new, last
  <2>2. \A i \in 1 .. list.len - 1 : new[i] = last[IF i < k THEN i ELSE i + 1]
        BY <1>a, <1>c
  <2>3. \A i, j \in 1 .. list.len - 1 : new[i] = new[j] => i = j
        BY <1>a, <1>c, <1>d, <2>2
  <2>4. \A i \in 1 .. list.len - 1 : \E j \in 1 .. list.len : new[i] = last[j] /\ j # k
        BY <1>a, <1>c
  <2>5. \A j \in 1 .. list.len : j # k => \E i \in 1 .. list.len - 1 : new[i] = last[j]
    <3> SUFFICES ASSUME NEW j \in 1 .. list.len, j # k
                 PROVE  \E i \in 1 .. list.len - 1 : new[i] = last[j]
        OBVIOUS
    <3>1. CASE j < k
          BY <1>a, <1>c, <3>1
    <3>2. CASE j > k
      <4>1. j - 1 \in k .. list.len - 1 /\ j - 1 \in 1 .. list.len - 1 /\ (j - 1) + 1 = j
            BY <1>a, <3>2
      <4>2. new[j - 1] = last[j]
            BY <1>c, <4>1
      <4>3. QED BY <4>1, <4>2
    <3>3. QED BY <1>a, <3>1, <3>2
  <2>6. \A t \in Streams : Subscribed(t)' <=> \E i \in 1 .. list.len - 1 : new[i] = t
        BY <1>c, <1>d, <2>1, <2>4, <2>5
  <2>7. QED BY <1>0, <1>c, <1>d, <2>3, <2>6 DEF ListExact, new
<1>6. RegistryCurrent'
      BY <1>0 DEF IInv, RegistryCurrent, agentVars
<1>7. QED BY <1>1, <1>2, <1>3, <1>4, <1>5, <1>6 DEF IInv

\* A stream sends its commands, waits for them, and shows what there is.
LEMMA StepStream ==
    ASSUME IInv, NEW s \in Streams, StreamStep(s)
    PROVE  IInv'
<1>0. at \in [Streams -> {"idle", "first", "start", "open", "last", "stop", "done"}]
      BY DEF IInv, TypeOK
<1>1. /\ UNCHANGED <<server, agents, listVars, note, conn>>
      /\ \/ at[s] \in {"first", "start"} /\ \E w \in {"start", "open"} : at' = [at EXCEPT ![s] = w]
         \/ at[s] \in {"last", "stop"} /\ \E w \in {"stop", "done"} : at' = [at EXCEPT ![s] = w]
         \/ UNCHANGED at
      BY <1>0 DEF StreamStep, AgentsByService, SendCommand, Told, Show, agentVars
<1>2. TypeOK'
  <2> USE DEF IInv, TypeOK, agentVars, listVars
  <2>1. CASE AgentsByService(s)
        BY <2>1 DEF AgentsByService
  <2>2. ASSUME NEW l \in Links, SendCommand(s, l) PROVE TypeOK'
    <3>1. l[1] \in Agents /\ <<at[s], s>> \in Commands
          BY <2>2, LinkIsPair DEF SendCommand, Commands
    <3>2. cmds' \in [Agents -> SUBSET Commands]
      <4>1. CASE cmds' = [cmds EXCEPT ![l[1]] = @ \cup {<<at[s], s>>}]
            BY <3>1, <4>1
      <4>2. CASE UNCHANGED cmds
            BY <4>2
      <4>3. QED BY <2>2, <4>1, <4>2 DEF SendCommand
    <3>3. QED BY <2>2, <3>2 DEF SendCommand
  <2>3. CASE Told(s)
        BY <2>3 DEF Told
  <2>4. CASE Show(s)
        BY <2>4 DEF Show
  <2>5. QED BY <2>1, <2>2, <2>3, <2>4 DEF StreamStep
<1>3. (InOrder /\ Room /\ Sorted /\ ListExact)'
  <2>1. \A t \in Streams : (at'[t] = "idle" <=> at[t] = "idle") /\ (Subscribed(t)' <=> Subscribed(t))
        BY <1>0, <1>1 DEF Subscribed
  <2>2. QED BY <1>1, <2>1, ListStays
<1>4. Copies' /\ RegistryCurrent'
      BY <1>1 DEF IInv, Copies, RegistryCurrent, listVars
<1>5. QED BY <1>2, <1>3, <1>4 DEF IInv

\* Agents obey, lose their connection and come back.
LEMMA StepAgent ==
    ASSUME IInv, NEW a \in Agents,
           \/ \E c \in Commands : HandleCommand(a, c)
           \/ Disconnect(a)
           \/ \E k \in Conns : Register(a, k)
    PROVE  IInv'
<1>1. UNCHANGED <<listVars, note, streamVars>>
      BY DEF HandleCommand, Disconnect, Register
<1>2. TypeOK'
  <2> USE DEF IInv, TypeOK, agentVars, listVars, streamVars
  <2>1. ASSUME NEW c \in Commands, HandleCommand(a, c) PROVE TypeOK'
        BY <2>1 DEF HandleCommand
  <2>2. CASE Disconnect(a)
    <3>1. losses' \in 0 .. MaxLosses
          BY <2>2, HubResourcesAssumption DEF Disconnect
    <3>2. cmds' \in [Agents -> SUBSET Commands]
          BY <2>2 DEF Disconnect
    <3>3. QED BY <2>2, <3>1, <3>2 DEF Disconnect
  <2>3. ASSUME NEW k \in Conns, Register(a, k) PROVE TypeOK'
        BY <2>3 DEF Register
  <2>4. QED BY <2>1, <2>2, <2>3
<1>3. (InOrder /\ Room /\ Sorted /\ ListExact)'
      BY <1>1, ListStays DEF streamVars, Subscribed
<1>4. Copies'
      BY <1>1 DEF IInv, Copies, listVars
<1>5. RegistryCurrent'
  <2> USE DEF IInv, RegistryCurrent
  <2>1. ASSUME NEW c \in Commands, HandleCommand(a, c) PROVE RegistryCurrent'
        BY <2>1 DEF HandleCommand
  <2>2. CASE Disconnect(a)
        BY <2>2 DEF Disconnect, TypeOK
  <2>3. ASSUME NEW k \in Conns, Register(a, k) PROVE RegistryCurrent'
    <3>1. <<a, k>> \in Links /\ server'[<<a, k>>] = "reading" /\ conn'[a] = k /\ agents'[a] = k
          BY <2>3, PairIsLink DEF Register, TypeOK
    <3>2. /\ \A b \in Agents : b # a => conn'[b] = conn[b] /\ agents'[b] = agents[b]
          /\ \A b \in Agents, m \in Conns : b # a => server'[<<b, m>>] = server[<<b, m>>]
          BY <2>3, PairIsLink DEF Register, TypeOK
    <3>3. \A b \in Agents : /\ conn[b] # NoConn => conn[b] \in Conns
                            /\ agents[b] # NoConn => agents[b] \in Conns
          BY DEF TypeOK
    <3>4. QED BY <3>1, <3>2, <3>3
  <2>4. QED BY <2>1, <2>2, <2>3
<1>6. QED BY <1>2, <1>3, <1>4, <1>5 DEF IInv

\* Read loops notify, panic, end, and are deregistered late.
LEMMA StepLoop ==
    ASSUME IInv, NEW l \in Links, Report(l) \/ NotifyStep(l) \/ ReadFails(l) \/ Deregister(l)
    PROVE  IInv'
<1>1. UNCHANGED <<conn, listVars, at>>
      BY DEF Report, NotifyStep, NextChannel, Notify, NotifyPanics, ReadFails, Deregister, agentVars,
             streamVars
<1>a. l[1] \in Agents /\ l[2] \in Conns /\ l = <<l[1], l[2]>>
      BY LinkIsPair
<1>2. TypeOK' /\ Copies'
  <2> USE DEF IInv, TypeOK, Copies, agentVars, listVars, streamVars
  <2>1. CASE Report(l)
    <3>1. CASE list.len = 0
      <4>1. /\ note' = [note EXCEPT ![l] = Resting] /\ note[l] = Resting
            /\ UNCHANGED <<agentVars, server, agents, listVars, at, targets, full>>
            /\ news' \in [Streams -> SUBSET Agents]
            BY <2>1, <3>1, <1>a DEF Report
      <4>2. note' = note
            BY <4>1
      <4>3. QED BY <4>1, <4>2
    <3>2. CASE list.len # 0
      <4> DEFINE n == [busy |-> TRUE, cap |-> list.cap, len |-> list.len, i |-> 1, ch |-> Nobody]
      <4>1. note' = [note EXCEPT ![l] = n]
            BY <2>1, <3>2 DEF Report
      <4>2. list.cap \in Caps /\ list.len \in Nat \ {0} /\ list.len <= Len(array[list.cap])
            BY <3>2, ListNumbers DEF Room
      <4>3. n \in Notes /\ 1 <= list.len
            BY <4>2 DEF Notes
      <4>4. UNCHANGED <<agentVars, server, agents, listVars, at, targets, full>> /\ news' \in [Streams -> SUBSET Agents]
            BY <2>1, <1>a DEF Report
      <4>5. note' \in [Links -> Notes]
            BY <4>1, <4>3
      <4>6. \A m \in Links : note'[m] = IF m = l THEN n ELSE note[m]
            BY <4>1
      <4>7. TypeOK'
            BY <4>4, <4>5
      <4>8. Copies'
            BY <4>2, <4>3, <4>4, <4>6, ListNumbers
      <4>9. QED BY <4>7, <4>8
    <3>3. QED BY <3>1, <3>2
  <2>2. CASE NextChannel(l)
    <3>1. /\ note[l].busy = TRUE /\ note[l].cap \in Caps /\ note[l].len \in Nat \ {0}
          /\ note[l].i \in Nat \ {0}
          BY <2>2, NoteOfLink DEF NextChannel
    <3> DEFINE ch == array[note[l].cap][note[l].i]
               n == [note[l] EXCEPT !.ch = ch]
    <3>2. ch \in Streams
      <4>1. array[note[l].cap] \in Seq(Streams) /\ note[l].i <= Len(array[note[l].cap])
            BY <3>1
      <4>2. QED BY <3>1, <4>1
    <3>3. note' = [note EXCEPT ![l] = n]
          BY <2>2 DEF NextChannel
    <3> HIDE DEF ch
    <3>4. /\ n \in [busy : {TRUE}, cap : Caps, len : Nat \ {0}, i : Nat \ {0}, ch : Streams \cup {Nobody}]
          /\ n.cap = note[l].cap /\ n.len = note[l].len /\ n.i = note[l].i
      <4>1. note[l] \in [busy : {TRUE}, cap : Caps, len : Nat \ {0}, i : Nat \ {0}, ch : Streams \cup {Nobody}]
            BY <3>1, NoteOfLink
      <4>2. ch \in Streams \cup {Nobody}
            BY <3>2
      <4>3. QED BY <4>1, <4>2, ChannelTaken
    <3> HIDE DEF n
    <3>5. n \in Notes /\ \A m \in Links : note'[m] = IF m = l THEN n ELSE note[m]
          BY <3>3, <3>4 DEF Notes
    <3>6. TypeOK'
      <4>1. note' \in [Links -> Notes]
            BY <3>3, <3>5
      <4>2. QED BY <2>2, <4>1 DEF NextChannel
    <3>7. Copies'
          BY <2>2, <3>1, <3>4, <3>5 DEF NextChannel
    <3>8. QED BY <3>6, <3>7
  <2>3. CASE Notify(l)
    <3>1. /\ note[l].busy = TRUE /\ note[l].cap \in Caps /\ note[l].len \in Nat \ {0}
          /\ note[l].i \in Nat \ {0} /\ note[l].ch \in Streams
          BY <2>3, NoteOfLink DEF Notify
    <3> DEFINE n == [busy |-> TRUE, cap |-> note[l].cap, len |-> note[l].len, i |-> note[l].i + 1, ch |-> Nobody]
    <3>2. note' = [note EXCEPT ![l] = IF note[l].i = note[l].len THEN Resting ELSE n]
          BY <2>3 DEF Notify, Advanced
    <3>3. n \in Notes /\ Resting \in Notes
          BY <3>1 DEF Notes
    <3>4. \A m \in Links : note'[m] = IF m = l THEN IF note[l].i = note[l].len THEN Resting ELSE n ELSE note[m]
          BY <3>2
    <3>5. note' \in [Links -> Notes] /\ full' \in [Streams -> BOOLEAN]
      <4>1. full' \in [Streams -> BOOLEAN]
            BY <2>3 DEF Notify
      <4>2. \E m \in Notes : note' = [note EXCEPT ![l] = m]
            BY <3>2, <3>3
      <4>3. QED BY <4>1, <4>2
    <3>6. TypeOK'
          BY <2>3, <3>5 DEF Notify
    <3>7. Copies'
      <4>1. note[l].i # note[l].len => note[l].i + 1 <= note[l].len
            BY <3>1
      <4>2. QED BY <2>3, <3>1, <3>4, <4>1 DEF Notify, Resting
    <3>8. QED BY <3>6, <3>7
  <2>4. CASE NotifyPanics(l)
        BY <2>4, <1>a DEF NotifyPanics, Notes, Resting
  <2>5. CASE ReadFails(l)
        BY <2>5 DEF ReadFails
  <2>6. CASE Deregister(l)
        BY <2>6, <1>a DEF Deregister
  <2>7. QED BY <2>1, <2>2, <2>3, <2>4, <2>5, <2>6 DEF NotifyStep
<1>3. (InOrder /\ Room /\ Sorted /\ ListExact)'
      BY <1>1, ListStays DEF Subscribed
<1>4. RegistryCurrent'
  <2> USE DEF IInv, RegistryCurrent
  <2>1. CASE Report(l) \/ NextChannel(l) \/ Notify(l)
        BY <2>1 DEF Report, NextChannel, Notify, agentVars
  <2>2. CASE NotifyPanics(l) \/ ReadFails(l)
    <3>1. server' = [server EXCEPT ![l] = "ending"] /\ UNCHANGED <<conn, agents>>
          BY <2>2 DEF NotifyPanics, ReadFails, agentVars
    <3>2. \A m \in Links : server'[m] = IF m = l THEN "ending" ELSE server[m]
          BY <3>1 DEF TypeOK
    <3>3. \A b \in Agents : /\ conn[b] # NoConn => <<b, conn[b]>> \in Links
                            /\ agents[b] # NoConn => <<b, agents[b]>> \in Links
          BY PairIsLink DEF TypeOK
    <3>4. QED BY <3>1, <3>2, <3>3
  <2>3. CASE Deregister(l)
    <3>1. /\ server[l] = "ending" /\ server' = [server EXCEPT ![l] = "none"] /\ UNCHANGED conn
          /\ agents' = [agents EXCEPT ![l[1]] = IF @ = l[2] THEN NoConn ELSE @]
          BY <2>3 DEF Deregister, agentVars
    <3>2. \A m \in Links : server'[m] = IF m = l THEN "none" ELSE server[m]
          BY <3>1 DEF TypeOK
    <3>3. \A b \in Agents : agents'[b] = IF b = l[1] /\ agents[b] = l[2] THEN NoConn ELSE agents[b]
          BY <1>a, <3>1 DEF TypeOK
    <3>4. \A b \in Agents : /\ conn[b] # NoConn => <<b, conn[b]>> \in Links
                            /\ agents[b] # NoConn => <<b, agents[b]>> \in Links
          BY PairIsLink DEF TypeOK
    <3>5. ASSUME NEW b \in Agents, conn'[b] # NoConn, server'[<<b, conn'[b]>>] = "reading"
          PROVE  agents'[b] = conn'[b]
      <4>0. conn[b] # NoConn /\ <<b, conn[b]>> \in Links
            BY <3>1, <3>4, <3>5
      <4>1. <<b, conn[b]>> # l
        <5>1. server'[<<b, conn[b]>>] = "reading"
              BY <3>1, <3>5
        <5>2. QED BY <3>2, <4>0, <5>1
      <4>2. agents[b] = conn[b]
        <5>1. server[<<b, conn[b]>>] = "reading"
              BY <3>1, <3>2, <3>5, <4>0, <4>1
        <5>2. QED BY <4>0, <5>1
      <4>3. QED BY <1>a, <3>1, <3>3, <4>1, <4>2
    <3>6. ASSUME NEW b \in Agents, agents'[b] # NoConn
          PROVE  server'[<<b, agents'[b]>>] # "none"
      <4>1. agents'[b] = agents[b] /\ <<b, agents[b]>> # l
            BY <1>a, <3>3, <3>6
      <4>2. QED BY <3>2, <3>4, <3>6, <4>1
    <3>7. QED BY <3>5, <3>6
  <2>4. QED BY <2>1, <2>2, <2>3 DEF NotifyStep
<1>5. QED BY <1>2, <1>3, <1>4 DEF IInv

\* All agents have registered, and nobody has subscribed.
LEMMA InitIInv == Init => IInv
<1> SUFFICES ASSUME Init PROVE IInv
    OBVIOUS
<1>0. FirstConn \in Conns /\ FirstConn # NoConn
      BY HubResourcesAssumption DEF FirstConn
<1>1. TypeOK
  <2>1. list \in [cap : Caps \cup {0}, len : Nat] /\ list.len <= list.cap /\ resCount \in Nat
        BY DEF Init
  <2>2. losses \in 0 .. MaxLosses
        BY HubResourcesAssumption DEF Init
  <2>3. note \in [Links -> Notes]
        BY DEF Init, Notes
  <2>4. array \in [Caps -> Seq(Streams)]
        BY DEF Init
  <2>5. QED BY <1>0, <2>1, <2>2, <2>3, <2>4 DEF Init, TypeOK
<1>2. InOrder /\ Room /\ Sorted /\ ListExact
      BY DEF Init, InOrder, Room, Sorted, ListExact, Subscribed
<1>3. Copies
      BY DEF Init, Copies, Resting
<1>4. RegistryCurrent
      BY <1>0, PairIsLink DEF Init, RegistryCurrent
<1>5. QED BY <1>1, <1>2, <1>3, <1>4 DEF IInv

\* Every step keeps the invariant.
LEMMA StepIInv == IInv /\ [Next]_vars => IInv'
<1> SUFFICES ASSUME IInv, [Next]_vars PROVE IInv'
    OBVIOUS
<1>1. CASE UNCHANGED vars
  <2>1. (InOrder /\ Room /\ Sorted /\ ListExact)'
        BY <1>1, ListStays DEF vars, streamVars, Subscribed
  <2>2. TypeOK' /\ Copies' /\ RegistryCurrent'
        BY <1>1 DEF IInv, TypeOK, Copies, RegistryCurrent, vars, agentVars, listVars, streamVars
  <2>3. QED BY <2>1, <2>2 DEF IInv
<1>2. CASE Next
      BY <1>2, StepSubscribe, StepUnsubscribe, StepStream, StepAgent, StepLoop DEF Next
<1>3. QED BY <1>1, <1>2

\* The invariant of every behaviour.
LEMMA Invariance == Spec => []IInv
  BY InitIInv, StepIInv, PTL DEF Spec
-----------------------------------------------------------------------------
(***************************************************************************)
(* Who is told what.                                                       *)
(***************************************************************************)

\* Whoever is subscribed is counted.
LEMMA SubscribersCount ==
    ASSUME IInv, NEW s \in Streams, Subscribed(s)
    PROVE  resCount > 0
<1>1. \E i \in 1 .. list.len : array[list.cap][i] = s
      BY DEF IInv, ListExact
<1>2. QED BY <1>1, ListNumbers DEF IInv, ListExact

\* Somebody comes or goes. Who is not adrift after reporting was turned on or off has no
\* command to the contrary before it, and this stream will tell it; otherwise nothing changes.
LEMMA ComeAndGo ==
    ASSUME IInv, WInv, NEW s \in Streams, SubscribeResources(s) \/ UnsubscribeResources(s)
    PROVE  WInv'
<1>0. /\ at \in [Streams -> {"idle", "first", "start", "open", "last", "stop", "done"}]
      /\ resCount \in Nat /\ at[s] \in {"idle", "open"}
      /\ UNCHANGED <<conn, cmds, active, server, targets>>
      BY DEF IInv, TypeOK, SubscribeResources, UnsubscribeResources
<1>1. \/ /\ resCount = 0 /\ resCount' = 1 /\ at' = [at EXCEPT ![s] = "first"] /\ Turn("stop")
      \/ /\ resCount > 0 /\ resCount' = 0 /\ at' = [at EXCEPT ![s] = "last"] /\ Turn("start")
      \/ /\ resCount > 0 /\ resCount' > 0 /\ UNCHANGED adrift
         /\ \E w \in {"open", "done"} : at' = [at EXCEPT ![s] = w]
  <2>1. CASE SubscribeResources(s)
    <3>1. /\ resCount' = resCount + 1
          /\ at' = [at EXCEPT ![s] = IF resCount + 1 = 1 THEN "first" ELSE "open"]
          /\ IF resCount + 1 = 1 THEN Turn("stop") ELSE UNCHANGED adrift
          BY <2>1 DEF SubscribeResources
    <3>2. CASE resCount = 0
      <4>1. resCount + 1 = 1
            BY <3>2
      <4>2. QED BY <3>1, <3>2, <4>1
    <3>3. CASE resCount > 0
      <4>1. resCount + 1 # 1 /\ resCount + 1 > 0
            BY <1>0, <3>3
      <4>2. QED BY <3>1, <3>3, <4>1
    <3>4. QED BY <1>0, <3>2, <3>3
  <2>2. CASE UnsubscribeResources(s)
    <3>1. resCount > 0
          BY <2>2, SubscribersCount DEF UnsubscribeResources, Subscribed
    <3>2. /\ resCount' = resCount - 1
          /\ at' = [at EXCEPT ![s] = IF resCount - 1 = 0 THEN "last" ELSE "done"]
          /\ IF resCount - 1 = 0 THEN Turn("start") ELSE UNCHANGED adrift
          BY <2>2 DEF UnsubscribeResources
    <3>3. CASE resCount - 1 = 0
          BY <3>1, <3>2, <3>3
    <3>4. CASE resCount - 1 # 0
      <4>1. resCount - 1 > 0
            BY <1>0, <3>1, <3>4
      <4>2. QED BY <3>1, <3>2, <3>4, <4>1
    <3>5. QED BY <3>3, <3>4
  <2>3. QED BY <2>1, <2>2
<1>2. \A a \in Agents : Served(a)' <=> Served(a)
      BY <1>0 DEF Served
<1>3. \A t \in Streams : t # s => at'[t] = at[t]
      BY <1>0, <1>1
<1>4. CASE resCount = 0 /\ resCount' = 1
  <2>1. at'[s] = "first" /\ Turn("stop")
        BY <1>0, <1>1, <1>4
  <2>2. \A a \in Agents : Pending(a, "stop")' => Pending(a, "stop")
        BY <1>0, <1>3, <2>1 DEF Pending
  <2>3. \A a \in Agents : ~adrift'[a] => Served(a) /\ ~Pending(a, "stop")
        BY <2>1 DEF Turn
  <2>4. Wanted' = "start" /\ Unwanted' = "stop"
        BY <1>4 DEF Wanted, Unwanted
  <2>5. \A a \in Agents : Coming(a, "start")'
        BY <2>1 DEF Coming
  <2>6. QED BY <1>2, <2>2, <2>3, <2>4, <2>5 DEF WInv
<1>5. CASE resCount > 0 /\ resCount' = 0
  <2>1. at'[s] = "last" /\ Turn("start")
        BY <1>0, <1>1, <1>5
  <2>2. \A a \in Agents : Pending(a, "start")' => Pending(a, "start")
        BY <1>0, <1>3, <2>1 DEF Pending
  <2>3. \A a \in Agents : ~adrift'[a] => Served(a) /\ ~Pending(a, "start")
        BY <2>1 DEF Turn
  <2>4. Wanted' = "stop" /\ Unwanted' = "start"
        BY <1>5 DEF Wanted, Unwanted
  <2>5. \A a \in Agents : Coming(a, "stop")'
        BY <2>1 DEF Coming
  <2>6. QED BY <1>2, <2>2, <2>3, <2>4, <2>5 DEF WInv
<1>6. CASE resCount > 0 /\ resCount' > 0
  <2>1. /\ UNCHANGED adrift /\ at[s] \notin {"first", "start", "last", "stop"}
        /\ at'[s] \notin {"first", "start", "last", "stop"}
        BY <1>0, <1>1, <1>6
  <2>2. ASSUME NEW a \in Agents, NEW kind \in {"start", "stop"}
        PROVE  /\ Pending(a, kind)' <=> Pending(a, kind)
               /\ Coming(a, kind)' <=> Coming(a, kind)
        BY <1>0, <1>3, <2>1 DEF Pending, Coming
  <2>3. Wanted' = Wanted /\ Unwanted' = Unwanted /\ {Wanted, Unwanted} \subseteq {"start", "stop"}
        BY <1>6 DEF Wanted, Unwanted
  <2>4. \A a \in Agents : /\ Pending(a, Unwanted)' <=> Pending(a, Unwanted)
                          /\ Coming(a, Wanted)' <=> Coming(a, Wanted)
        BY <2>2, <2>3
  <2>5. QED BY <1>0, <1>2, <1>6, <2>1, <2>4 DEF WInv
<1>7. QED BY <1>1, <1>4, <1>5, <1>6

\* As long as nobody comes or goes, only what was pending is pending; and what an agent that
\* is served is told comes nearer.
LEMMA StreamTells ==
    ASSUME IInv, WInv, NEW s \in Streams, StreamStep(s)
    PROVE  WInv'
<1>0. /\ at \in [Streams -> {"idle", "first", "start", "open", "last", "stop", "done"}]
      /\ cmds \in [Agents -> SUBSET Commands] /\ targets \in [Streams -> SUBSET Links]
      /\ \A t \in Streams : targets[t] # {} => at[t] \in {"start", "stop"}
      BY DEF IInv, TypeOK
<1>1. UNCHANGED <<conn, server, active, adrift, resCount>>
      BY DEF StreamStep, AgentsByService, SendCommand, Told, Show, agentVars, listVars
<1>2. ASSUME NEW a \in Agents, NEW kind \in {"start", "stop"}
      PROVE  /\ Pending(a, kind)' => Pending(a, kind)
             /\ Served(a) /\ Coming(a, kind) => Coming(a, kind)'
  <2>1. CASE AgentsByService(s)
    <3>1. /\ at[s] \in {"first", "last"} /\ at' = [at EXCEPT ![s] = IF @ = "first" THEN "start" ELSE "stop"]
          /\ targets' = [targets EXCEPT ![s] = {l \in Links : agents[l[1]] = l[2]}]
          /\ UNCHANGED cmds
          BY <2>1 DEF AgentsByService, agentVars
    <3>2. at'[s] = kind => at[s] = IF kind = "start" THEN "first" ELSE "last"
          BY <1>0, <1>2, <3>1
    <3>3. \A t \in Streams : t # s => at'[t] = at[t] /\ targets'[t] = targets[t]
          BY <1>0, <3>1
    <3>4. at'[s] \notin {"first", "last"}
          BY <1>0, <3>1
    <3>5. Pending(a, kind)' => Pending(a, kind)
          BY <3>1, <3>2, <3>3, <3>4 DEF Pending
    <3>6. Served(a) => <<a, conn[a]>> \in targets'[s]
      <4>1. Served(a) => conn[a] \in Conns /\ agents[a] = conn[a]
            BY DEF IInv, TypeOK, RegistryCurrent, Served
      <4>2. QED BY <1>0, <3>1, <4>1, PairIsLink
    <3>7. (at[s] = IF kind = "start" THEN "first" ELSE "last") => at'[s] = kind
          BY <1>0, <1>2, <3>1
    <3>8. at[s] # kind
          BY <1>2, <3>1
    <3>9. Served(a) /\ Coming(a, kind) => Coming(a, kind)'
          BY <1>1, <3>1, <3>3, <3>6, <3>7, <3>8 DEF Coming
    <3>10. QED BY <3>5, <3>9
  <2>2. ASSUME NEW l \in Links, SendCommand(s, l)
        PROVE  /\ Pending(a, kind)' => Pending(a, kind)
               /\ Served(a) /\ Coming(a, kind) => Coming(a, kind)'
    <3>1. /\ l \in targets[s] /\ targets' = [targets EXCEPT ![s] = @ \ {l}] /\ UNCHANGED at
          BY <2>2 DEF SendCommand
    <3>2. l[1] \in Agents /\ l[2] \in Conns /\ l = <<l[1], l[2]>>
          BY LinkIsPair
    <3>3. \A t \in Streams : targets'[t] \subseteq targets[t] /\ targets[t] \ {l} \subseteq targets'[t]
                             /\ (t # s => targets'[t] = targets[t])
          BY <1>0, <3>1
    <3>4. cmds[a] \subseteq cmds'[a]
          BY <1>0, <2>2, <3>2 DEF SendCommand
    <3>5. cmds'[a] \subseteq cmds[a] \cup (IF l[1] = a THEN {<<at[s], s>>} ELSE {})
          BY <1>0, <2>2, <3>2 DEF SendCommand
    <3>6. \A t \in Streams : <<kind, t>> \in cmds'[a] => Pending(a, kind)
      <4> SUFFICES ASSUME NEW t \in Streams, <<kind, t>> \in cmds'[a], <<kind, t>> \notin cmds[a]
                   PROVE  Pending(a, kind)
          BY DEF Pending
      <4>1. l[1] = a /\ kind = at[s]
            BY <3>5
      <4>2. <<a, l[2]>> \in targets[s]
            BY <3>1, <3>2, <4>1
      <4>3. QED BY <3>2, <4>1, <4>2 DEF Pending
    <3>7. Pending(a, kind)' => Pending(a, kind)
          BY <3>1, <3>3, <3>6 DEF Pending
    <3>8. Served(a) /\ l = <<a, conn[a]>> => <<at[s], s>> \in cmds'[a]
      <4> SUFFICES ASSUME Served(a), l = <<a, conn[a]>> PROVE <<at[s], s>> \in cmds'[a]
          OBVIOUS
      <4>1. l[1] = a /\ l[2] = conn[a] /\ server[l] # "none"
            BY DEF Served
      <4>2. cmds' = [cmds EXCEPT ![l[1]] = @ \cup {<<at[s], s>>}]
            BY <2>2, <4>1 DEF SendCommand
      <4>3. QED BY <1>0, <4>1, <4>2
    <3>9. Served(a) /\ Coming(a, kind) => Coming(a, kind)'
      <4> SUFFICES ASSUME Served(a), Coming(a, kind) PROVE Coming(a, kind)'
          OBVIOUS
      <4>1. CASE \E t \in Streams : <<kind, t>> \in cmds[a]
            BY <3>4, <4>1 DEF Coming
      <4>2. CASE \E t \in Streams : at[t] = kind /\ <<a, conn[a]>> \in targets[t]
        <5>1. PICK t \in Streams : at[t] = kind /\ <<a, conn[a]>> \in targets[t]
              BY <4>2
        <5>2. CASE <<a, conn[a]>> \in targets'[t]
              BY <1>1, <3>1, <5>1, <5>2 DEF Coming
        <5>3. CASE <<a, conn[a]>> \notin targets'[t]
          <6>1. t = s /\ l = <<a, conn[a]>>
                BY <3>3, <5>1, <5>3
          <6>2. <<kind, s>> \in cmds'[a]
                BY <3>8, <5>1, <6>1
          <6>3. QED BY <6>2 DEF Coming
        <5>4. QED BY <5>2, <5>3
      <4>3. CASE \E t \in Streams : at[t] = IF kind = "start" THEN "first" ELSE "last"
            BY <3>1, <4>3 DEF Coming
      <4>4. QED BY <4>1, <4>2, <4>3 DEF Coming
    <3>10. QED BY <3>7, <3>9
  <2>3. CASE Told(s) \/ Show(s)
    <3>1. /\ UNCHANGED <<cmds, targets>>
          /\ \A t \in Streams : at'[t] = at[t] \/ (targets[t] = {} /\ at[t] \in {"start", "stop"}
                                                    /\ at'[t] \in {"open", "done"})
          BY <1>0, <2>3 DEF Told, Show, agentVars
    <3>2. Pending(a, kind)' => Pending(a, kind)
          BY <1>2, <3>1 DEF Pending
    <3>3. Coming(a, kind) => Coming(a, kind)'
          BY <1>1, <1>2, <3>1 DEF Coming
    <3>4. QED BY <3>2, <3>3
  <2>4. QED BY <2>1, <2>2, <2>3 DEF StreamStep
<1>3. Wanted' = Wanted /\ Unwanted' = Unwanted /\ {Wanted, Unwanted} \subseteq {"start", "stop"}
      BY <1>1 DEF Wanted, Unwanted
<1>4. \A a \in Agents : /\ Pending(a, Unwanted)' => Pending(a, Unwanted)
                        /\ Served(a) /\ Coming(a, Wanted) => Coming(a, Wanted)'
      BY <1>2, <1>3
<1>5. \A a \in Agents : Served(a)' <=> Served(a)
      BY <1>1 DEF Served
<1>6. QED BY <1>1, <1>4, <1>5 DEF WInv

\* A command that is handled is the one that counts; who loses its connection is adrift.
LEMMA AgentObeys ==
    ASSUME IInv, WInv, NEW a \in Agents,
           \/ \E c \in Commands : HandleCommand(a, c)
           \/ Disconnect(a)
           \/ \E k \in Conns : Register(a, k)
    PROVE  WInv'
<1>0. /\ UNCHANGED <<resCount, at, targets>>
      /\ conn \in [Agents -> Conns \cup {NoConn}] /\ adrift \in [Agents -> BOOLEAN]
      /\ cmds \in [Agents -> SUBSET Commands] /\ active \in [Agents -> BOOLEAN]
      /\ server \in [Links -> {"none", "reading", "ending"}]
      BY DEF HandleCommand, Disconnect, Register, listVars, streamVars, IInv, TypeOK
<1>1. Wanted' = Wanted /\ Unwanted' = Unwanted /\ {Wanted, Unwanted} = {"start", "stop"}
      BY <1>0 DEF Wanted, Unwanted
<1>2. ASSUME NEW c \in Commands, HandleCommand(a, c) PROVE WInv'
  <2>1. /\ c \in cmds[a] /\ UNCHANGED <<conn, adrift, server>>
        /\ cmds' = [cmds EXCEPT ![a] = @ \ {c}] /\ active' = [active EXCEPT ![a] = c[1] = "start"]
        BY <1>2 DEF HandleCommand
  <2>2. \A b \in Agents : cmds'[b] \subseteq cmds[b] /\ (b # a => cmds'[b] = cmds[b] /\ active'[b] = active[b])
        BY <1>0, <2>1
  <2>3. \A b \in Agents : Pending(b, Unwanted)' => Pending(b, Unwanted)
        BY <1>0, <1>1, <2>2 DEF Pending
  <2>4. c[1] \in {"start", "stop"} /\ c[2] \in Streams /\ c = <<c[1], c[2]>>
        BY DEF Commands
  <2>5. Pending(a, c[1])
        BY <2>1, <2>4 DEF Pending
  <2>6. ~adrift[a] => c[1] = Wanted
        BY <1>1, <2>4, <2>5 DEF WInv
  <2>7. active'[a] <=> c[1] = "start"
        BY <1>0, <2>1
  <2>8. ~adrift[a] => (active'[a] <=> resCount > 0)
        BY <2>6, <2>7 DEF Wanted
  <2>9. \A b \in Agents : b # a /\ Coming(b, Wanted) => Coming(b, Wanted)'
        BY <1>0, <1>1, <2>1, <2>2 DEF Coming
  <2>10. \A b \in Agents : Served(b)' <=> Served(b)
        BY <2>1 DEF Served
  <2>11. QED BY <1>0, <2>1, <2>2, <2>3, <2>8, <2>9, <2>10 DEF WInv
<1>3. ASSUME \A b \in Agents : ~adrift'[b] => /\ ~adrift[b] /\ b # a /\ Served(b)'
                                               /\ conn'[b] = conn[b] /\ cmds'[b] = cmds[b]
                                               /\ active'[b] = active[b]
      PROVE  WInv'
  <2>1. ASSUME NEW b \in Agents, ~adrift'[b], NEW kind \in {"start", "stop"}
        PROVE  /\ Pending(b, kind)' <=> Pending(b, kind)
               /\ Coming(b, kind)' <=> Coming(b, kind)
    <3>1. UNCHANGED <<at, targets>> /\ conn'[b] = conn[b] /\ cmds'[b] = cmds[b]
          BY <1>0, <1>3, <2>1
    <3>2. QED BY <3>1 DEF Pending, Coming
  <2>2. ASSUME NEW b \in Agents, ~adrift'[b]
        PROVE  /\ Served(b)' /\ ~Pending(b, Unwanted)'
               /\ Coming(b, Wanted)' \/ (active'[b] <=> resCount' > 0)
    <3>1. /\ ~adrift[b] /\ Served(b)' /\ active'[b] = active[b] /\ resCount' = resCount
          BY <1>0, <1>3, <2>2
    <3>2. ~Pending(b, Unwanted) /\ (Coming(b, Wanted) \/ (active[b] <=> resCount > 0))
          BY <3>1 DEF WInv
    <3>3. Wanted \in {"start", "stop"} /\ Unwanted \in {"start", "stop"}
          BY DEF Wanted, Unwanted
    <3>4. Pending(b, Unwanted)' <=> Pending(b, Unwanted)
          BY <1>1, <2>1, <2>2, <3>3
    <3>5. Coming(b, Wanted)' <=> Coming(b, Wanted)
          BY <1>1, <2>1, <2>2, <3>3
    <3>6. QED BY <3>1, <3>2, <3>4, <3>5
  <2>3. QED BY <2>2 DEF WInv
<1>4. CASE Disconnect(a)
  <2>1. /\ adrift'[a] /\ UNCHANGED <<active, server>>
        /\ \A b \in Agents : b # a => adrift'[b] = adrift[b] /\ conn'[b] = conn[b] /\ cmds'[b] = cmds[b]
        BY <1>0, <1>4 DEF Disconnect
  <2>2. \A b \in Agents : ~adrift[b] => Served(b)
        BY DEF WInv
  <2>3. QED BY <1>3, <2>1, <2>2 DEF Served
<1>5. ASSUME NEW k \in Conns, Register(a, k) PROVE WInv'
  <2>1. /\ conn[a] = NoConn /\ UNCHANGED <<adrift, cmds, active>>
        /\ conn' = [conn EXCEPT ![a] = k] /\ server' = [server EXCEPT ![<<a, k>>] = "reading"]
        BY <1>5 DEF Register
  <2>2. adrift[a]
        BY <2>1 DEF WInv, Served
  <2>3. \A b \in Agents : b # a => conn'[b] = conn[b]
        BY <1>0, <2>1
  <2>4. \A b \in Agents : b # a => server'[<<b, conn[b]>>] = server[<<b, conn[b]>>]
        BY <1>0, <2>1
  <2>5. \A b \in Agents : ~adrift[b] => Served(b)
        BY DEF WInv
  <2>6. \A b \in Agents : ~adrift[b] => b # a /\ Served(b)'
        BY <2>2, <2>3, <2>4, <2>5 DEF Served
  <2>7. QED BY <1>3, <2>1, <2>3, <2>6
<1>6. QED BY <1>2, <1>4, <1>5

\* A read loop that panics leaves its agent adrift; one that ends has lost it before.
LEMMA LoopEnds ==
    ASSUME IInv, WInv, NEW l \in Links, Report(l) \/ NotifyStep(l) \/ ReadFails(l) \/ Deregister(l)
    PROVE  WInv'
<1>0. /\ UNCHANGED <<conn, cmds, active, resCount, at, targets>>
      /\ adrift \in [Agents -> BOOLEAN] /\ server \in [Links -> {"none", "reading", "ending"}]
      BY DEF Report, NotifyStep, NextChannel, Notify, NotifyPanics, ReadFails, Deregister, agentVars,
             listVars, streamVars, IInv, TypeOK
<1>1. l[1] \in Agents /\ l[2] \in Conns /\ l = <<l[1], l[2]>>
      BY LinkIsPair
<1>2. \A a \in Agents : ~adrift'[a] => ~adrift[a]
      BY <1>0, <1>1 DEF Report, NotifyStep, NextChannel, Notify, NotifyPanics, ReadFails, Deregister,
                        agentVars
<1>3. ASSUME NEW a \in Agents, ~adrift'[a], server[<<a, conn[a]>>] = "reading"
      PROVE  server'[<<a, conn[a]>>] = "reading"
  <2>1. CASE UNCHANGED server
        BY <1>3, <2>1
  <2>2. CASE NotifyPanics(l)
    <3>1. a # l[1]
          BY <1>0, <1>1, <1>3, <2>2 DEF NotifyPanics
    <3>2. <<a, conn[a]>> # l
          BY <1>1, <3>1
    <3>3. QED BY <1>0, <1>3, <2>2, <3>2 DEF NotifyPanics
  <2>3. CASE ReadFails(l)
    <3>1. <<a, conn[a]>> # l
          BY <1>1, <2>3 DEF ReadFails
    <3>2. QED BY <1>0, <1>3, <2>3, <3>1 DEF ReadFails
  <2>4. CASE Deregister(l)
    <3>1. <<a, conn[a]>> # l
          BY <1>3, <2>4 DEF Deregister
    <3>2. QED BY <1>0, <1>3, <2>4, <3>1 DEF Deregister
  <2>5. QED BY <2>1, <2>2, <2>3, <2>4 DEF Report, NotifyStep, NextChannel, Notify
<1>4. \A a \in Agents : ~adrift'[a] /\ Served(a) => Served(a)'
      BY <1>0, <1>3 DEF Served
<1>5. \A a \in Agents : /\ Pending(a, Unwanted)' <=> Pending(a, Unwanted)
                        /\ Coming(a, Wanted)' <=> Coming(a, Wanted)
      BY <1>0 DEF Pending, Coming, Wanted, Unwanted
<1>6. QED BY <1>0, <1>2, <1>4, <1>5 DEF WInv

\* At first nobody watches, and nobody reports.
LEMMA InitWInv == Init => WInv
<1> SUFFICES ASSUME Init PROVE WInv
    OBVIOUS
<1>1. FirstConn \in Conns /\ FirstConn # NoConn
      BY HubResourcesAssumption DEF FirstConn
<1>2. \A a \in Agents : Served(a)
      BY <1>1, PairIsLink DEF Init, Served
<1>3. \A a \in Agents : ~Pending(a, "start")
      BY DEF Init, Pending
<1>4. Unwanted = "start" /\ ~(resCount > 0) /\ \A a \in Agents : ~active[a]
      BY DEF Init, Unwanted
<1>5. QED BY <1>2, <1>3, <1>4 DEF WInv

\* Every step keeps what is known of the agents.
LEMMA StepWInv == IInv /\ WInv /\ [Next]_vars => WInv'
<1> SUFFICES ASSUME IInv, WInv, [Next]_vars PROVE WInv'
    OBVIOUS
<1>1. CASE UNCHANGED vars
      BY <1>1 DEF WInv, Served, Pending, Coming, Wanted, Unwanted, vars, agentVars, listVars, streamVars
<1>2. CASE Next
      BY <1>2, ComeAndGo, StreamTells, AgentObeys, LoopEnds DEF Next
<1>3. QED BY <1>1, <1>2
-----------------------------------------------------------------------------
\* The variables have their types: no handler reads beyond what has been written to the
\* array it holds, and who sends commands has subscribed first or unsubscribed last.
THEOREM TypeCorrect == Spec => []TypeOK
<1>1. IInv => TypeOK BY DEF IInv
<1>2. QED BY <1>1, Invariance, PTL

\* The list holds the open subscriptions, each once, in whatever order they come and go
\* and however the array grows.
THEOREM ListIsExact == Spec => []ListExact
<1>1. IInv => ListExact BY DEF IInv
<1>2. QED BY <1>1, Invariance, PTL

\* An agent that is served is found under its key.
THEOREM RegistryIsCurrent == Spec => []RegistryCurrent
<1>1. IInv => RegistryCurrent BY DEF IInv
<1>2. QED BY <1>1, Invariance, PTL

\* However dashboards come and go, an agent that was connected and had no command to the
\* contrary on its way when reporting was last turned on or off, and has not lost its
\* connection since, reports exactly if somebody watches, when all is said and done.
THEOREM WatchedAgentsReport == Spec => []WatchedReport
<1>1. IInv /\ WInv => WatchedReport
  <2> SUFFICES ASSUME IInv, WInv, Settled, NEW a \in Agents, ~adrift[a]
               PROVE  active[a] <=> resCount > 0
      BY DEF WatchedReport
  <2>1. cmds[a] = {} /\ \A s \in Streams : at[s] \notin {"first", "start", "last", "stop"}
        BY DEF Settled
  <2>2. ~Coming(a, Wanted)
        BY <2>1 DEF Coming, Wanted
  <2>3. QED BY <2>2 DEF WInv
<1>2. QED BY <1>1, StepWInv, InitWInv, Invariance, StepIInv, InitIInv, PTL DEF Spec
=============================================================================
