----------------------------- MODULE Mqtt_proof -----------------------------
(***************************************************************************)
(* Proofs about Mqtt, for any number of clients and any number of faults.  *)
(*                                                                         *)
(* At most once is not inductive: it needs that a client that has written  *)
(* its message is leaving, so that on_connect() does not run again, and    *)
(* that a message is in one place only, with the network, with the broker  *)
(* or printed.  Two subscribers print in one order because what is printed *)
(* and what is on its way, taken together, has one (OneOrder).             *)
(***************************************************************************)
EXTENDS Mqtt, TLAPS

-----------------------------------------------------------------------------
(* Sequences.                                                              *)

In(x, q) == \E i \in 1 .. Len(q) : q[i] = x
Once(x, q) == \A i, j \in 1 .. Len(q) : q[i] = x /\ q[j] = x => i = j

LEMMA EmptyHasNone == \A x : ~In(x, <<>>) /\ Once(x, <<>>)
  BY DEF In, Once

LEMMA AppendHas ==
  ASSUME NEW S, NEW q \in Seq(S), NEW y \in S, NEW x
  PROVE  /\ Append(q, y) \in Seq(S)
         /\ In(x, Append(q, y)) => In(x, q) \/ x = y
         /\ Once(x, q) /\ (x = y => ~In(x, q)) => Once(x, Append(q, y))
<1>1. Append(q, y) \in Seq(S) /\ Len(Append(q, y)) = Len(q) + 1  OBVIOUS
<1>2. \A i \in 1 .. Len(Append(q, y)) :
        \/ i \in 1 .. Len(q) /\ Append(q, y)[i] = q[i]
        \/ i = Len(q) + 1 /\ Append(q, y)[i] = y
  <2> TAKE i \in 1 .. Len(Append(q, y))
  <2>1. CASE i = Len(q) + 1  BY <2>1
  <2>2. CASE i # Len(q) + 1
    <3>1. i \in 1 .. Len(q)  BY <1>1, <2>2
    <3> QED BY <3>1
  <2> QED BY <2>1, <2>2
<1> DEFINE r == Append(q, y)
<1>3. \A i \in 1 .. Len(r) : \/ i \in 1 .. Len(q) /\ r[i] = q[i]
                             \/ i = Len(q) + 1 /\ r[i] = y
  BY <1>2
<1> HIDE DEF r
<1>4. In(x, r) => In(x, q) \/ x = y  BY <1>3 DEF In
<1>5. ASSUME Once(x, q), x = y => ~In(x, q) PROVE Once(x, r)
  BY <1>3, <1>5 DEF Once, In
<1> QED BY <1>1, <1>4, <1>5 DEF r

LEMMA TailHas ==
  ASSUME NEW S, NEW q \in Seq(S), q # <<>>, NEW x
  PROVE  /\ Tail(q) \in Seq(S) /\ Head(q) \in S /\ In(Head(q), q)
         /\ In(x, Tail(q)) => In(x, q)
         /\ Once(x, q) => Once(x, Tail(q)) /\ (In(x, Tail(q)) => x # Head(q))
<1> DEFINE r == Tail(q)
<1>1. r \in Seq(S) /\ Len(r) = Len(q) - 1 /\ Len(q) \in Nat \ {0}  OBVIOUS
<1>2. \A i \in 1 .. Len(r) : r[i] = q[i + 1] /\ i + 1 \in 1 .. Len(q)  OBVIOUS
<1>3. Head(q) = q[1] /\ 1 \in 1 .. Len(q)  OBVIOUS
<1>4. q[1] \in S  OBVIOUS
<1> HIDE DEF r
<1>5. In(Head(q), q)  BY <1>3 DEF In
<1>6. In(x, r) => In(x, q)  BY <1>2 DEF In
<1>7. ASSUME Once(x, q) PROVE Once(x, r) /\ (In(x, r) => x # Head(q))
  <2>1. ASSUME NEW i \in 1 .. Len(r), NEW j \in 1 .. Len(r), r[i] = x, r[j] = x
        PROVE  i = j
    <3>1. i + 1 = j + 1  BY <1>2, <1>7, <2>1 DEF Once
    <3> QED BY <1>1, <3>1
  <2>2. ASSUME NEW i \in 1 .. Len(r), r[i] = x, x = Head(q) PROVE FALSE
    <3>1. i + 1 = 1  BY <1>2, <1>3, <1>7, <2>2 DEF Once
    <3> QED BY <1>1, <3>1
  <2> QED BY <2>1, <2>2 DEF Once, In
<1> QED BY <1>1, <1>3, <1>4, <1>5, <1>6, <1>7 DEF r

-----------------------------------------------------------------------------
(* The inductive invariant.                                                *)

Packets == Pubs \cup {"suback", "empty"}

Shapes ==
  /\ state = [c \in Clients |-> state[c]] /\ status = [c \in Clients |-> status[c]]
  /\ written \in [Pubs -> Nat]
  /\ down \in [Subs -> Seq(Packets)] /\ printed \in [Subs -> Seq(Pubs)]

\* Who has written its message leaves.
Writes ==
  \A p \in Pubs :
    \/ written[p] = 0 /\ state[p] # "leaving" /\ status[p] # "zero"
    \/ written[p] = 1 /\ state[p] \in {"leaving", "ended"}

\* The message of p is in one place on its way to s.
OnePlace(p, s) ==
  /\ p \in flight \/ In(p, down[s]) \/ In(p, printed[s]) => written[p] = 1
  /\ p \in flight => ~In(p, down[s]) /\ ~In(p, printed[s])
  /\ In(p, down[s]) => ~In(p, printed[s])
  /\ Once(p, down[s]) /\ Once(p, printed[s])
Places == \A p \in Pubs, s \in Subs : OnePlace(p, s)

IInv == Shapes /\ Writes /\ Places

LEMMA InitIInv == Init => IInv
<1> SUFFICES ASSUME Init PROVE IInv  OBVIOUS
<1>1. Shapes  BY DEF Init, Shapes, Packets
<1>2. Writes  BY DEF Init, Writes, Clients
<1>3. \A s \in Subs : down[s] = <<>> /\ printed[s] = <<>>  BY DEF Init
<1>4. Places  BY <1>3, EmptyHasNone DEF Init, Places, OnePlace
<1> QED BY <1>1, <1>2, <1>4 DEF IInv

\* A step of a client that writes nothing.
LEMMA WritesStep ==
  ASSUME Shapes, Writes, NEW c \in Clients, UNCHANGED written, NEW x, Goes(c, x),
         state[c] \notin {"leaving", "ended"}, x # "leaving"
  PROVE  Writes' /\ state' = [d \in Clients |-> state'[d]] /\ UNCHANGED status
<1>1. \A d \in Clients : state'[d] = IF d = c THEN x ELSE state[d]  BY DEF Shapes, Goes
<1>2. state' = [d \in Clients |-> state'[d]] /\ UNCHANGED status  BY DEF Shapes, Goes
<1>3. Writes'
  <2> SUFFICES ASSUME NEW p \in Pubs
               PROVE  \/ written[p] = 0 /\ state'[p] # "leaving" /\ status[p] # "zero"
                      \/ written[p] = 1 /\ state'[p] \in {"leaving", "ended"}
    BY <1>2 DEF Writes
  <2>1. p \in Clients  BY DEF Clients
  <2> QED BY <1>1, <2>1 DEF Writes
<1> QED BY <1>2, <1>3

LEMMA ExitWrites ==
  ASSUME Shapes, Writes, NEW c \in Clients, UNCHANGED written, NEW e, Exit(c, e),
         e = "zero" => state[c] = "leaving"
  PROVE  /\ Writes' /\ state' = [d \in Clients |-> state'[d]]
         /\ status' = [d \in Clients |-> status'[d]]
<1>1. \A d \in Clients : /\ state'[d] = IF d = c THEN "ended" ELSE state[d]
                         /\ status'[d] = IF d = c THEN e ELSE status[d]
  BY DEF Shapes, Exit
<1>2. Writes'
  <2> SUFFICES ASSUME NEW p \in Pubs
               PROVE  \/ written[p] = 0 /\ state'[p] # "leaving" /\ status'[p] # "zero"
                      \/ written[p] = 1 /\ state'[p] \in {"leaving", "ended"}
    BY DEF Writes
  <2>1. p \in Clients  BY DEF Clients
  <2>2. CASE p = c  BY <1>1, <2>1, <2>2 DEF Writes
  <2>3. CASE p # c  BY <1>1, <2>1, <2>3 DEF Writes
  <2> QED BY <2>2, <2>3
<1> QED BY <1>2 DEF Shapes, Exit

\* Packets only get lost.
LEMMA PlacesShrink ==
  ASSUME Shapes, Places, UNCHANGED <<written, printed>>, flight' \cap Pubs \subseteq flight,
         down' = [s \in Subs |-> down'[s]],
         \A s \in Subs : down'[s] = down[s] \/ down'[s] = <<>>
  PROVE  Places' /\ down' \in [Subs -> Seq(Packets)]
<1>1. down' \in [Subs -> Seq(Packets)]
  <2>1. ASSUME NEW s \in Subs PROVE down'[s] \in Seq(Packets)
    <3>1. down[s] \in Seq(Packets)  BY DEF Shapes
    <3>2. CASE down'[s] = <<>>  BY <3>2
    <3>3. CASE down'[s] = down[s]  BY <3>1, <3>3
    <3> QED BY <3>2, <3>3
  <2> QED BY <2>1
<1>2. ASSUME NEW p \in Pubs, NEW s \in Subs PROVE OnePlace(p, s)'
  <2>1. In(p, down'[s]) => In(p, down[s])  BY EmptyHasNone
  <2>2. Once(p, down[s]) => Once(p, down'[s])  BY EmptyHasNone
  <2> QED BY <2>1, <2>2 DEF Places, OnePlace
<1> QED BY <1>1, <1>2 DEF Places

LEMMA QuietStep ==
  ASSUME IInv, NEW c \in Clients, UNCHANGED <<written, printed>>,
         flight' \cap Pubs \subseteq flight, down' = [s \in Subs |-> down'[s]],
         \A s \in Subs : down'[s] = down[s] \/ down'[s] = <<>>,
         \/ UNCHANGED <<state, status>>
         \/ \E x : Goes(c, x) /\ state[c] \notin {"leaving", "ended"} /\ x # "leaving"
         \/ \E e : Exit(c, e) /\ (e = "zero" => state[c] = "leaving")
  PROVE  IInv'
<1>0. Shapes /\ Writes /\ Places  BY DEF IInv
<1>1. Places' /\ down' \in [Subs -> Seq(Packets)]  BY <1>0, PlacesShrink
<1>2. /\ Writes' /\ state' = [d \in Clients |-> state'[d]]
      /\ status' = [d \in Clients |-> status'[d]]
  <2>1. CASE UNCHANGED <<state, status>>  BY <1>0, <2>1 DEF Writes, Shapes
  <2>2. CASE \E x : Goes(c, x) /\ state[c] \notin {"leaving", "ended"} /\ x # "leaving"
    <3>1. PICK x : Goes(c, x) /\ state[c] \notin {"leaving", "ended"} /\ x # "leaving"
      BY <2>2
    <3>2. Writes' /\ state' = [d \in Clients |-> state'[d]] /\ UNCHANGED status
      BY <1>0, <3>1, WritesStep
    <3> QED BY <1>0, <3>2 DEF Shapes
  <2>3. CASE \E e : Exit(c, e) /\ (e = "zero" => state[c] = "leaving")
    BY <1>0, <2>3, ExitWrites
  <2> QED BY <2>1, <2>2, <2>3
<1>3. Shapes'  BY <1>0, <1>1, <1>2 DEF Shapes
<1> QED BY <1>1, <1>2, <1>3 DEF IInv

LEMMA CommonStep ==
  ASSUME IInv, NEW c \in Clients, Common(c)
  PROVE  IInv'
<1>0. down = [s \in Subs |-> down[s]]  BY DEF IInv, Shapes
<1>1. ASSUME UNCHANGED netVars
      PROVE  /\ flight' \cap Pubs \subseteq flight /\ down' = [s \in Subs |-> down'[s]]
             /\ \A s \in Subs : down'[s] = down[s] \/ down'[s] = <<>>
  BY <1>0, <1>1 DEF netVars
<1>2. ASSUME Cut(c)
      PROVE  /\ flight' \cap Pubs \subseteq flight /\ down' = [s \in Subs |-> down'[s]]
             /\ \A s \in Subs : down'[s] = down[s] \/ down'[s] = <<>>
  BY <1>2 DEF Cut
<1>3. CASE Connect(c)  BY <1>1, <1>3, QuietStep DEF Connect
<1>4. CASE Refused(c)  BY <1>1, <1>4, QuietStep DEF Refused
<1>5. CASE Lose(c)  BY <1>2, <1>5, QuietStep DEF Lose
<1>6. CASE Reconnect(c)  BY <1>1, <1>6, QuietStep DEF Reconnect
<1>7. CASE Fatal(c)  BY <1>2, <1>7, QuietStep DEF Fatal
<1>8. CASE Left(c)  BY <1>1, <1>8, QuietStep DEF Left
<1> QED BY <1>3, <1>4, <1>5, <1>6, <1>7, <1>8 DEF Common

\* The broker sends m to the clients in S; the message of a publisher leaves
\* the network for that.
LEMMA SendStep ==
  ASSUME Shapes, Places, UNCHANGED <<written, printed>>, NEW S, NEW m \in Packets,
         down' = Send(S, m), flight' \cap Pubs \subseteq flight,
         m \in Pubs => m \in flight /\ m \notin flight'
  PROVE  Places' /\ down' \in [Subs -> Seq(Packets)]
<1>1. \A s \in Subs : down[s] \in Seq(Packets)  BY DEF Shapes
<1>2. \A s \in Subs : down'[s] = Append(down[s], m) \/ down'[s] = down[s]  BY DEF Send
<1>3. down' \in [Subs -> Seq(Packets)]
  <2>1. ASSUME NEW s \in Subs PROVE down'[s] \in Seq(Packets)
    <3>1. CASE down'[s] = Append(down[s], m)  BY <1>1, <3>1, AppendHas
    <3>2. CASE down'[s] = down[s]  BY <1>1, <3>2
    <3> QED BY <1>2, <3>1, <3>2
  <2>2. down' = [s \in Subs |-> down'[s]]  BY DEF Send
  <2> QED BY <2>1, <2>2
<1>4. ASSUME NEW p \in Pubs, NEW s \in Subs PROVE OnePlace(p, s)'
  <2>0. OnePlace(p, s)  BY DEF Places
  <2>1. p = m => p \in flight /\ ~In(p, down[s])  BY <2>0 DEF OnePlace
  <2>2. /\ In(p, down'[s]) => In(p, down[s]) \/ p = m
        /\ Once(p, down'[s])
    <3>1. CASE down'[s] = Append(down[s], m)
      <4>1. /\ In(p, Append(down[s], m)) => In(p, down[s]) \/ p = m
            /\ Once(p, down[s]) /\ (p = m => ~In(p, down[s])) => Once(p, Append(down[s], m))
        BY <1>1, AppendHas
      <4> QED BY <2>0, <2>1, <3>1, <4>1 DEF OnePlace
    <3>2. CASE down'[s] = down[s]  BY <2>0, <3>2 DEF OnePlace
    <3> QED BY <1>2, <3>1, <3>2
  <2> QED BY <2>0, <2>1, <2>2 DEF OnePlace
<1> QED BY <1>3, <1>4 DEF Places

\* A subscriber takes a packet, and may print it when it is a message.
LEMMA ReceiveStep ==
  ASSUME IInv, NEW s \in Subs, NEW x, Receives(s, x), UNCHANGED <<state, status, written, flight>>,
         \/ UNCHANGED printed
         \/ x \in Pubs /\ printed' = [printed EXCEPT ![s] = Append(@, x)]
  PROVE  IInv'
<1>0. Shapes /\ Writes /\ Places  BY DEF IInv
<1> DEFINE q == down[s]
<1>1. q \in Seq(Packets) /\ q # <<>> /\ Head(q) = x  BY <1>0 DEF Receives, Shapes
<1>2. /\ down' = [t \in Subs |-> down'[t]] /\ down'[s] = Tail(q)
      /\ \A t \in Subs : t # s => down'[t] = down[t]
  BY <1>0 DEF Receives, Shapes
<1>3. /\ printed' = [t \in Subs |-> printed'[t]]
      /\ printed'[s] = printed[s] \/ (x \in Pubs /\ printed'[s] = Append(printed[s], x))
      /\ \A t \in Subs : t # s => printed'[t] = printed[t]
  BY <1>0 DEF Shapes
<1>4. printed[s] \in Seq(Pubs)  BY <1>0 DEF Shapes
<1> HIDE DEF q
<1>5. Tail(q) \in Seq(Packets) /\ In(x, q)  BY <1>1, TailHas
<1>6. printed'[s] \in Seq(Pubs)  BY <1>3, <1>4, AppendHas
<1>7. Shapes'
  <2>1. \A t \in Subs : down'[t] \in Seq(Packets)  BY <1>0, <1>2, <1>5 DEF Shapes
  <2>2. \A t \in Subs : printed'[t] \in Seq(Pubs)  BY <1>0, <1>3, <1>6 DEF Shapes
  <2>3. down' \in [Subs -> Seq(Packets)] /\ printed' \in [Subs -> Seq(Pubs)]
    BY <1>2, <1>3, <2>1, <2>2
  <2> QED BY <1>0, <2>3 DEF Shapes
<1>8. ASSUME NEW p \in Pubs, NEW t \in Subs PROVE OnePlace(p, t)'
  <2>0. OnePlace(p, t)  BY <1>0 DEF Places
  <2>1. CASE t # s  BY <1>2, <1>3, <2>0, <2>1 DEF OnePlace
  <2>2. CASE t = s
    <3>1. /\ In(p, down'[s]) => In(p, q)
          /\ Once(p, q) => Once(p, down'[s]) /\ (In(p, down'[s]) => p # x)
      BY <1>1, <1>2, TailHas
    <3>2. Once(p, q) /\ (p = x => In(p, q)) /\ (In(p, q) => ~In(p, printed[s]))
      BY <1>5, <2>0, <2>2 DEF OnePlace, q
    <3>3. /\ In(p, printed'[s]) => In(p, printed[s]) \/ p = x
          /\ Once(p, printed'[s])
      <4>1. Once(p, printed[s])  BY <2>0, <2>2 DEF OnePlace
      <4>2. CASE printed'[s] = printed[s]  BY <4>1, <4>2
      <4>3. CASE x \in Pubs /\ printed'[s] = Append(printed[s], x)
        <5>1. /\ In(p, Append(printed[s], x)) => In(p, printed[s]) \/ p = x
              /\ Once(p, printed[s]) /\ (p = x => ~In(p, printed[s]))
                   => Once(p, Append(printed[s], x))
          BY <1>4, <4>3, AppendHas
        <5>2. p = x => ~In(p, printed[s])  BY <3>2
        <5>3. Once(p, Append(printed[s], x))  BY <4>1, <5>1, <5>2
        <5> QED BY <4>3, <5>1, <5>3
      <4> QED BY <1>3, <4>2, <4>3
    <3> QED BY <2>0, <2>2, <3>1, <3>2, <3>3 DEF OnePlace, q
  <2> QED BY <2>1, <2>2
<1>9. Writes' /\ Places'  BY <1>0, <1>8 DEF Writes, Places
<1> QED BY <1>7, <1>9 DEF IInv

LEMMA PubStep ==
  ASSUME IInv, NEW p \in Pubs, Pub(p)
  PROVE  IInv'
<1>0. Shapes /\ Writes /\ Places /\ p \in Clients  BY DEF IInv, Clients
<1>1. down = [s \in Subs |-> down[s]]  BY <1>0 DEF Shapes
<1>2. CASE PubOnConnect(p)  BY <1>0, <1>1, <1>2, QuietStep DEF PubOnConnect, netVars
<1>3. CASE Vanish(p)
  BY <1>0, <1>1, <1>3, QuietStep DEF Vanish, progVars
<1>4. CASE Publish(p)
  <2>1. PICK S \in SUBSET {s \in Subs : granted[s]} : down' = Send(S, p)  BY <1>4 DEF Publish
  <2>2. UNCHANGED <<state, status, written, printed>>  BY <1>4 DEF Publish, progVars
  <2>3. p \in flight /\ flight' = flight \ {p} /\ p \in Packets  BY <1>4 DEF Publish, Packets
  <2>4. Places' /\ down' \in [Subs -> Seq(Packets)]  BY <1>0, <2>1, <2>2, <2>3, SendStep
  <2>5. Shapes' /\ Writes'  BY <1>0, <2>2, <2>4 DEF Shapes, Writes
  <2> QED BY <2>4, <2>5 DEF IInv
<1>5. CASE PubOnPublish(p)
  <2>1. /\ state[p] = "connected" /\ written' = [written EXCEPT ![p] = @ + 1]
        /\ flight' = flight \cup {p} /\ Goes(p, "leaving") /\ UNCHANGED <<down, printed>>
    BY <1>5 DEF PubOnPublish
  <2>2. written[p] = 0  BY <1>0, <2>1 DEF Writes
  <2>3. \A t \in Pubs : written'[t] = IF t = p THEN 1 ELSE written[t]
    BY <1>0, <2>1, <2>2 DEF Shapes
  <2>4. \A t \in Clients : state'[t] = IF t = p THEN "leaving" ELSE state[t]
    BY <1>0, <2>1 DEF Shapes, Goes
  <2>5. Shapes'
    <3>1. written' = [t \in Pubs |-> written'[t]]  BY <1>0, <2>1 DEF Shapes
    <3>2. \A t \in Pubs : written'[t] \in Nat  BY <1>0, <2>3 DEF Shapes
    <3>3. written' \in [Pubs -> Nat]  BY <3>1, <3>2
    <3>4. state' = [c \in Clients |-> state'[c]] /\ UNCHANGED status
      BY <1>0, <2>1 DEF Shapes, Goes
    <3> QED BY <1>0, <2>1, <3>3, <3>4 DEF Shapes
  <2>6. Writes'
    <3> SUFFICES ASSUME NEW t \in Pubs
                 PROVE  \/ written'[t] = 0 /\ state'[t] # "leaving" /\ status'[t] # "zero"
                        \/ written'[t] = 1 /\ state'[t] \in {"leaving", "ended"}
      BY DEF Writes
    <3>1. t \in Clients /\ UNCHANGED status  BY <2>1 DEF Clients, Goes
    <3> QED BY <1>0, <2>3, <2>4, <3>1 DEF Writes
  <2>7. ASSUME NEW t \in Pubs, NEW s \in Subs PROVE OnePlace(t, s)'
    <3>0. OnePlace(t, s)  BY <1>0 DEF Places
    <3>1. CASE t = p  BY <2>1, <2>2, <2>3, <3>0, <3>1 DEF OnePlace
    <3>2. CASE t # p  BY <2>1, <2>3, <3>0, <3>2 DEF OnePlace
    <3> QED BY <3>1, <3>2
  <2> QED BY <2>5, <2>6, <2>7 DEF IInv, Places
<1> QED BY <1>2, <1>3, <1>4, <1>5 DEF Pub

LEMMA SubStep ==
  ASSUME IInv, NEW s \in Subs, Sub(s)
  PROVE  IInv'
<1>0. Shapes /\ Writes /\ Places /\ s \in Clients /\ s \notin Pubs
  BY ClientsAssumption DEF IInv, Clients
<1>1. down = [t \in Subs |-> down[t]]  BY <1>0 DEF Shapes
<1>2. CASE SubOnConnect(s)  BY <1>0, <1>1, <1>2, QuietStep DEF SubOnConnect, netVars
<1>3. CASE SubWrite(s)  BY <1>0, <1>1, <1>3, QuietStep DEF SubWrite
<1>4. CASE SubOnSubscribe(s)  BY <1>4, ReceiveStep DEF SubOnSubscribe, progVars
<1>5. CASE SubOnMessage(s)  BY <1>5, ReceiveStep DEF SubOnMessage, progVars
<1>6. CASE Subscribe(s)
  <2>1. UNCHANGED <<state, status, written, printed>>  BY <1>6 DEF Subscribe
  <2>2. /\ down' = Send({s}, "suback") /\ flight' \cap Pubs \subseteq flight
        /\ "suback" \in Packets /\ "suback" \notin Pubs
    BY <1>6, ClientsAssumption DEF Subscribe, Packets
  <2>3. Places' /\ down' \in [Subs -> Seq(Packets)]  BY <1>0, <2>1, <2>2, SendStep
  <2>4. Shapes' /\ Writes'  BY <1>0, <2>1, <2>3 DEF Shapes, Writes
  <2> QED BY <2>3, <2>4 DEF IInv
<1> QED BY <1>2, <1>3, <1>4, <1>5, <1>6 DEF Sub

LEMMA EmptyStep ==
  ASSUME IInv, PublishEmpty
  PROVE  IInv'
<1>0. Shapes /\ Writes /\ Places  BY DEF IInv
<1>1. UNCHANGED <<state, status, flight, written, printed>>  BY DEF PublishEmpty, progVars
<1>2. PICK S : down' = Send(S, "empty")  BY DEF PublishEmpty
<1>3. "empty" \in Packets /\ "empty" \notin Pubs  BY ClientsAssumption DEF Packets
<1>4. Places' /\ down' \in [Subs -> Seq(Packets)]  BY <1>0, <1>1, <1>2, <1>3, SendStep
<1>5. Shapes' /\ Writes'  BY <1>0, <1>1, <1>4 DEF Shapes, Writes
<1> QED BY <1>4, <1>5 DEF IInv

LEMMA Invariance == Init /\ [][Next]_vars => []IInv
<1>1. Init => IInv  BY InitIInv
<1>2. IInv /\ [Next]_vars => IInv'
  <2> SUFFICES ASSUME IInv, [Next]_vars PROVE IInv'  OBVIOUS
  <2>1. CASE Next  BY <2>1, CommonStep, PubStep, SubStep, EmptyStep DEF Next
  <2>2. CASE UNCHANGED vars
    <3>1. UNCHANGED <<state, status, flight, down, written, printed>>
      BY <2>2 DEF vars, progVars, netVars
    <3>2. \A p \in Pubs, s \in Subs : OnePlace(p, s) => OnePlace(p, s)'
      BY <3>1 DEF OnePlace
    <3> QED BY <3>1, <3>2 DEF IInv, Shapes, Writes, Places
  <2> QED BY <2>1, <2>2
<1> QED BY <1>1, <1>2, PTL

\* Each run of client_pub publishes at most once and each client_sub prints
\* its message at most once, however often connections are lost.
THEOREM DeliversAtMostOnce == Spec => []AtMostOnce
<1>1. IInv => AtMostOnce
  <2> SUFFICES ASSUME IInv PROVE AtMostOnce  OBVIOUS
  <2>1. \A p \in Pubs : written[p] <= 1  BY DEF IInv, Writes
  <2>2. ASSUME NEW s \in Subs, NEW i \in 1 .. Len(printed[s]), NEW j \in 1 .. Len(printed[s]),
               i # j
        PROVE  printed[s][i] # printed[s][j]
    <3>1. printed[s] \in Seq(Pubs)  BY DEF IInv, Shapes
    <3>2. printed[s][i] \in Pubs  BY <3>1
    <3> QED BY <2>2, <3>2 DEF IInv, Places, OnePlace, Once
  <2> QED BY <2>1, <2>2 DEF AtMostOnce
<1> QED BY <1>1, Invariance, PTL DEF Spec

\* A client_pub that returns 0 has written its message.
THEOREM ZeroStatus == Spec => []ZeroMeansWritten
<1>1. IInv => ZeroMeansWritten  BY DEF IInv, Writes, ZeroMeansWritten
<1> QED BY <1>1, Invariance, PTL DEF Spec

-----------------------------------------------------------------------------
(* The order of messages.  Two subscribers print messages in one order     *)
(* because the broker passes each on to all of them at once: the order is  *)
(* already in what is printed and what is on the way together.             *)

Ord(p, q, z) == \E i, j \in 1 .. Len(z) : i < j /\ z[i] = p /\ z[j] = q

\* The message of p came, or will come, to s before that of q.
Before(p, q, s) ==
  \/ Ord(p, q, printed[s]) \/ Ord(p, q, down[s])
  \/ In(p, printed[s]) /\ In(q, down[s])

OneOrder == \A p, q \in Pubs, s, t \in Subs : ~(Before(p, q, s) /\ Before(q, p, t))

LEMMA AppendOrd ==
  ASSUME NEW S, NEW z \in Seq(S), NEW y \in S, NEW p, NEW q, Ord(p, q, Append(z, y))
  PROVE  Ord(p, q, z) \/ (In(p, z) /\ q = y)
<1> DEFINE r == Append(z, y)
<1>1. \A i \in 1 .. Len(r) : \/ i \in 1 .. Len(z) /\ r[i] = z[i]
                             \/ i = Len(z) + 1 /\ r[i] = y
  OBVIOUS
<1>2. PICK i \in 1 .. Len(r), j \in 1 .. Len(r) : i < j /\ r[i] = p /\ r[j] = q
  BY DEF Ord
<1>3. Len(r) = Len(z) + 1 /\ Len(z) \in Nat  OBVIOUS
<1> HIDE DEF r
<1>4. i \in 1 .. Len(z) /\ r[i] = z[i]  BY <1>1, <1>2, <1>3
<1>5. CASE j \in 1 .. Len(z) /\ r[j] = z[j]  BY <1>2, <1>4, <1>5 DEF Ord
<1>6. CASE j = Len(z) + 1 /\ r[j] = y  BY <1>2, <1>4, <1>6 DEF In
<1> QED BY <1>1, <1>5, <1>6

LEMMA TailOrd ==
  ASSUME NEW S, NEW z \in Seq(S), z # <<>>, NEW p, NEW q
  PROVE  /\ Ord(p, q, Tail(z)) => Ord(p, q, z)
         /\ In(q, Tail(z)) => Ord(Head(z), q, z)
<1> DEFINE r == Tail(z)
<1>1. \A i \in 1 .. Len(r) : r[i] = z[i + 1] /\ i + 1 \in 1 .. Len(z) /\ 1 < i + 1  OBVIOUS
<1>2. Head(z) = z[1] /\ 1 \in 1 .. Len(z)  OBVIOUS
<1>3. Len(r) \in Nat  OBVIOUS
<1> HIDE DEF r
<1>4. ASSUME NEW i \in 1 .. Len(r), NEW j \in 1 .. Len(r), i < j, r[i] = p, r[j] = q
      PROVE  Ord(p, q, z)
  <2>1. i + 1 \in 1 .. Len(z) /\ j + 1 \in 1 .. Len(z) /\ z[i + 1] = p /\ z[j + 1] = q
    BY <1>1, <1>4
  <2>2. i + 1 < j + 1  BY <1>3, <1>4
  <2> QED BY <2>1, <2>2 DEF Ord
<1>5. ASSUME NEW i \in 1 .. Len(r), r[i] = q PROVE Ord(Head(z), q, z)
  BY <1>1, <1>2, <1>5 DEF Ord
<1> QED BY <1>4, <1>5 DEF Ord, In, r

\* Nothing comes before or after what is not there.
LEMMA EmptyOrd == \A p, q : ~Ord(p, q, <<>>)
  BY DEF Ord

\* A step after which nothing comes before anything it did not before.
LEMMA OrderKept ==
  ASSUME OneOrder,
         \A p, q \in Pubs, s \in Subs : Before(p, q, s)' => Before(p, q, s)
  PROVE  OneOrder'
BY DEF OneOrder

LEMMA OrderQuiet ==
  ASSUME OneOrder, UNCHANGED printed, \A s \in Subs : down'[s] = down[s] \/ down'[s] = <<>>
  PROVE  OneOrder'
<1>1. ASSUME NEW p \in Pubs, NEW q \in Pubs, NEW s \in Subs, Before(p, q, s)'
      PROVE  Before(p, q, s)
  <2>1. CASE down'[s] = down[s]  BY <1>1, <2>1 DEF Before
  <2>2. CASE down'[s] = <<>>  BY <1>1, <2>2, EmptyOrd, EmptyHasNone DEF Before
  <2> QED BY <2>1, <2>2
<1> QED BY <1>1, OrderKept

\* The broker sends m, which is nowhere yet, to the clients in S.
LEMMA OrderSend ==
  ASSUME IInv, OneOrder, UNCHANGED printed, NEW S, NEW m \in Packets, down' = Send(S, m),
         m \in Pubs => m \in flight
  PROVE  OneOrder'
<1>1. \A s \in Subs : down[s] \in Seq(Packets)  BY DEF IInv, Shapes
<1>2. \A s \in Subs : down'[s] = Append(down[s], m) \/ down'[s] = down[s]  BY DEF Send
<1> DEFINE There(p, s) == In(p, printed[s]) \/ In(p, down[s])
<1>3. ASSUME NEW p \in Pubs, NEW q \in Pubs, NEW s \in Subs, Before(p, q, s)'
      PROVE  Before(p, q, s) \/ (q = m /\ There(p, s))
  <2>1. CASE down'[s] = down[s]  BY <1>3, <2>1 DEF Before
  <2>2. CASE down'[s] = Append(down[s], m)
    <3>1. /\ Ord(p, q, down'[s]) => Ord(p, q, down[s]) \/ (In(p, down[s]) /\ q = m)
          /\ In(q, down'[s]) => In(q, down[s]) \/ q = m
      BY <1>1, <2>2, AppendOrd, AppendHas
    <3> QED BY <1>3, <3>1 DEF Before
  <2> QED BY <1>2, <2>1, <2>2
<1>4. ASSUME NEW p \in Pubs, NEW s \in Subs, p = m PROVE ~There(p, s)
  BY <1>4 DEF IInv, Places, OnePlace
<1>5. ASSUME NEW p \in Pubs, NEW q \in Pubs, NEW s \in Subs, Before(p, q, s)
      PROVE  There(p, s)
  BY <1>5 DEF Before, Ord, In
<1> HIDE DEF There
<1> QED BY <1>3, <1>4, <1>5 DEF OneOrder

\* A subscriber takes a packet, and prints it if it is a message.
LEMMA OrderReceive ==
  ASSUME IInv, OneOrder, NEW s \in Subs, NEW x, Receives(s, x),
         \/ UNCHANGED printed
         \/ x \in Pubs /\ printed' = [printed EXCEPT ![s] = Append(@, x)]
  PROVE  OneOrder'
<1> DEFINE d == down[s]
           o == printed[s]
<1>1. d \in Seq(Packets) /\ d # <<>> /\ Head(d) = x /\ o \in Seq(Pubs)
  BY DEF Receives, IInv, Shapes
<1>2. down'[s] = Tail(d) /\ \A t \in Subs : t # s => down'[t] = down[t]
  BY DEF Receives, IInv, Shapes
<1>3. /\ printed'[s] = o \/ (x \in Pubs /\ printed'[s] = Append(o, x))
      /\ \A t \in Subs : t # s => printed'[t] = printed[t]
  BY DEF IInv, Shapes
<1>4. \A p, q, t : Before(p, q, t) <=> \/ Ord(p, q, printed[t]) \/ Ord(p, q, down[t])
                                       \/ In(p, printed[t]) /\ In(q, down[t])
  BY DEF Before
<1> HIDE DEF d, o
<1>5. ASSUME NEW p \in Pubs, NEW q \in Pubs, NEW t \in Subs, Before(p, q, t)'
      PROVE  Before(p, q, t)
  <2>1. CASE t # s  BY <1>2, <1>3, <1>5, <2>1 DEF Before
  <2>2. CASE t = s
    <3>1. /\ Ord(p, q, Tail(d)) => Ord(p, q, d)
          /\ In(q, Tail(d)) => In(q, d) /\ Ord(x, q, d)
          /\ In(x, d)
      BY <1>1, TailOrd, TailHas
    <3>2. /\ Ord(p, q, printed'[s]) => Ord(p, q, o) \/ (In(p, o) /\ q = x)
          /\ In(p, printed'[s]) => In(p, o) \/ p = x
      BY <1>1, <1>3, AppendOrd, AppendHas
    <3>3. Ord(p, q, o) \/ Ord(p, q, d) \/ (In(p, o) /\ In(q, d))
      BY <1>2, <1>5, <2>2, <3>1, <3>2 DEF Before
    <3> QED BY <2>2, <3>3 DEF Before, d, o
  <2> QED BY <2>1, <2>2
<1> QED BY <1>5, OrderKept

\* What Common() does to packets.
LEMMA CommonPackets ==
  ASSUME IInv, NEW c \in Clients, Common(c)
  PROVE  UNCHANGED printed /\ \A s \in Subs : down'[s] = down[s] \/ down'[s] = <<>>
BY DEF Common, Connect, Refused, Lose, Reconnect, Fatal, Left, Cut, netVars

LEMMA OneOrderInvariance == Spec => [](IInv /\ OneOrder)
<1>1. Init => OneOrder
  BY EmptyOrd, EmptyHasNone DEF Init, OneOrder, Before
<1>2. IInv /\ OneOrder /\ [Next]_vars => OneOrder'
  <2> SUFFICES ASSUME IInv, OneOrder, [Next]_vars PROVE OneOrder'  OBVIOUS
  <2>1. ASSUME NEW c \in Clients, Common(c) PROVE OneOrder'
    BY <2>1, CommonPackets, OrderQuiet
  <2>2. ASSUME NEW p \in Pubs, Pub(p) PROVE OneOrder'
    <3>1. CASE Publish(p)
      <4>1. p \in Packets /\ p \in flight /\ UNCHANGED printed
            /\ \E S : down' = Send(S, p)
        BY <3>1 DEF Publish, Packets
      <4> QED BY <4>1, OrderSend
    <3>2. CASE PubOnConnect(p) \/ PubOnPublish(p) \/ Vanish(p)
      BY <3>2, OrderQuiet DEF PubOnConnect, PubOnPublish, Vanish, netVars
    <3> QED BY <2>2, <3>1, <3>2 DEF Pub
  <2>3. ASSUME NEW s \in Subs, Sub(s) PROVE OneOrder'
    <3>1. CASE SubOnConnect(s) \/ SubWrite(s)
      BY <3>1, OrderQuiet DEF SubOnConnect, SubWrite, netVars
    <3>2. CASE SubOnSubscribe(s)  BY <3>2, OrderReceive DEF SubOnSubscribe
    <3>3. CASE SubOnMessage(s)  BY <3>3, OrderReceive DEF SubOnMessage
    <3>4. CASE Subscribe(s)
      <4>1. /\ "suback" \in Packets /\ "suback" \notin Pubs
            /\ UNCHANGED printed /\ \E S : down' = Send(S, "suback")
        BY <3>4, ClientsAssumption DEF Subscribe, Packets
      <4> QED BY <4>1, OrderSend
    <3> QED BY <2>3, <3>1, <3>2, <3>3, <3>4 DEF Sub
  <2>4. CASE PublishEmpty
    <3>1. /\ "empty" \in Packets /\ "empty" \notin Pubs
          /\ UNCHANGED printed /\ \E S : down' = Send(S, "empty")
      BY <2>4, ClientsAssumption DEF PublishEmpty, Packets
    <3> QED BY <3>1, OrderSend
  <2>5. CASE UNCHANGED vars  BY <2>5, OrderQuiet DEF vars, netVars
  <2> QED BY <2>1, <2>2, <2>3, <2>4, <2>5 DEF Next
<1> QED BY <1>1, <1>2, Invariance, PTL DEF Spec

\* Only messages that were written are printed, and any two subscribers print
\* those they both print in the same order.
THEOREM PrintsInOneOrder == Spec => []PrintsWhatWasWritten
<1>1. IInv /\ OneOrder => PrintsWhatWasWritten
  <2> SUFFICES ASSUME IInv, OneOrder PROVE PrintsWhatWasWritten  OBVIOUS
  <2>1. \A s \in Subs : \A i \in 1 .. Len(printed[s]) :
          printed[s][i] \in Pubs /\ In(printed[s][i], printed[s])
    BY DEF IInv, Shapes, In
  <2>2. \A s \in Subs : \A i \in 1 .. Len(printed[s]) : written[printed[s][i]] > 0
    BY <2>1 DEF IInv, Places, OnePlace
  <2>3. ASSUME NEW s \in Subs, NEW t \in Subs,
               NEW i \in 1 .. Len(printed[s]), NEW j \in 1 .. Len(printed[s]),
               NEW k \in 1 .. Len(printed[t]), NEW l \in 1 .. Len(printed[t]),
               printed[s][i] = printed[t][k], printed[s][j] = printed[t][l], i < j
        PROVE  k < l
    <3> DEFINE p == printed[s][i]
               q == printed[s][j]
    <3>1. p \in Pubs /\ q \in Pubs /\ Before(p, q, s)  BY <2>1, <2>3 DEF Before, Ord
    <3>2. k # l
      <4>1. Once(p, printed[s])  BY <3>1 DEF IInv, Places, OnePlace
      <4> QED BY <2>3, <4>1 DEF Once
    <3>3. l < k => Before(q, p, t)  BY <2>3 DEF Before, Ord
    <3> QED BY <3>1, <3>2, <3>3 DEF OneOrder
  <2>4. ASSUME NEW s \in Subs, NEW t \in Subs,
               NEW i \in 1 .. Len(printed[s]), NEW j \in 1 .. Len(printed[s]),
               NEW k \in 1 .. Len(printed[t]), NEW l \in 1 .. Len(printed[t]),
               printed[s][i] = printed[t][k], printed[s][j] = printed[t][l]
        PROVE  i < j <=> k < l
    BY <2>3, <2>4
  <2> QED BY <2>1, <2>2, <2>4 DEF PrintsWhatWasWritten
<1> QED BY <1>1, OneOrderInvariance, PTL

-----------------------------------------------------------------------------
(* Types.  That a packet waits only on a connection needs that the         *)
(* subscription of a client that is on its way is one of this connection.  *)

States == {"new", "connecting", "connected", "offline", "leaving", "ended"}

Typed ==
  /\ state \in [Clients -> States] /\ status \in [Clients -> {"none", "zero", "error"}]
  /\ queued \in [Clients -> BOOLEAN] /\ failed \in [Clients -> BOOLEAN]
  /\ \A c \in Clients : queued[c] => state[c] = "connected"
  /\ flight \subseteq Clients /\ granted \in [Subs -> BOOLEAN]
  /\ down = [s \in Subs |-> down[s]]
  /\ \A s \in Subs : /\ granted[s] \/ down[s] # <<>> \/ s \in flight => state[s] = "connected"
                     /\ state[s] # "leaving"
  /\ faults \in 0 .. MaxFaults

LEMMA CountTypes ==
  ASSUME Typed, Fault \/ UNCHANGED faults
  PROVE  faults' \in 0 .. MaxFaults
BY BoundsAssumption DEF Typed, Fault

LEMMA CommonTypes ==
  ASSUME Typed, NEW c \in Clients, Common(c)
  PROVE  Typed'
<1>1. CASE Connect(c)
  BY <1>1 DEF Connect, Goes, Exit, Typed, States, Clients, netVars
<1>2. CASE Refused(c)
  BY <1>2, CountTypes DEF Refused, Goes, Typed, States, Clients, netVars
<1>3. CASE Lose(c)
  BY <1>3, CountTypes DEF Lose, Goes, Cut, Typed, States, Clients
<1>4. CASE Reconnect(c)
  BY <1>4 DEF Reconnect, Goes, Typed, States, Clients, netVars
<1>5. CASE Fatal(c)
  BY <1>5 DEF Fatal, Exit, Cut, Typed, States, Clients
<1>6. CASE Left(c)
  BY <1>6 DEF Left, Exit, Typed, States, Clients, netVars
<1> QED BY <1>1, <1>2, <1>3, <1>4, <1>5, <1>6 DEF Common

LEMMA PubTypes ==
  ASSUME Typed, NEW p \in Pubs, Pub(p)
  PROVE  Typed'
<1>0. p \in Clients /\ p \notin Subs  BY ClientsAssumption DEF Clients
<1>1. CASE PubOnConnect(p)
  BY <1>0, <1>1 DEF PubOnConnect, Goes, Typed, States, Clients, netVars
<1>2. CASE PubOnPublish(p)
  BY <1>0, <1>2 DEF PubOnPublish, Goes, Typed, States, Clients
<1>3. CASE Publish(p)
  BY <1>0, <1>3 DEF Publish, Send, Typed, progVars
<1>4. CASE Vanish(p)
  BY <1>0, <1>4, CountTypes DEF Vanish, Typed, progVars
<1> QED BY <1>1, <1>2, <1>3, <1>4 DEF Pub

LEMMA SubTypes ==
  ASSUME Typed, NEW s \in Subs, Sub(s)
  PROVE  Typed'
<1>0. s \in Clients /\ s \notin Pubs  BY ClientsAssumption DEF Clients
<1>1. CASE SubOnConnect(s)
  BY <1>0, <1>1 DEF SubOnConnect, Goes, Typed, States, Clients, netVars
<1>2. CASE SubWrite(s)
  BY <1>0, <1>2 DEF SubWrite, Typed
<1>3. CASE SubOnSubscribe(s)
  BY <1>0, <1>3 DEF SubOnSubscribe, Receives, Typed, progVars
<1>4. CASE SubOnMessage(s)
  BY <1>0, <1>4 DEF SubOnMessage, Receives, Typed, progVars
<1>5. CASE Subscribe(s)
  BY <1>0, <1>5 DEF Subscribe, Send, Typed
<1> QED BY <1>1, <1>2, <1>3, <1>4, <1>5 DEF Sub

\* The state of clients, network and broker stays well typed; what waits or is
\* granted belongs to a connection there is, and a subscriber never leaves.
THEOREM TypeCorrect == Spec => []TypeOK
<1>1. Init => Typed
  <2> SUFFICES ASSUME Init PROVE Typed  OBVIOUS
  <2>1. \A c \in Clients : state[c] = "new" /\ ~queued[c]  BY DEF Init
  <2>2. \A s \in Subs : /\ ~granted[s] /\ down[s] = <<>> /\ s \notin flight
                        /\ state[s] = "new"
    BY DEF Init, Clients
  <2>3. faults \in 0 .. MaxFaults  BY BoundsAssumption DEF Init
  <2>4. /\ state \in [Clients -> States] /\ status \in [Clients -> {"none", "zero", "error"}]
        /\ queued \in [Clients -> BOOLEAN] /\ failed \in [Clients -> BOOLEAN]
        /\ flight \subseteq Clients /\ granted \in [Subs -> BOOLEAN]
        /\ down = [s \in Subs |-> down[s]]
    BY DEF Init, States
  <2> QED BY <2>1, <2>2, <2>3, <2>4 DEF Typed
<1>2. Typed /\ [Next]_vars => Typed'
  <2> SUFFICES ASSUME Typed, [Next]_vars PROVE Typed'  OBVIOUS
  <2>1. CASE PublishEmpty
    BY <2>1 DEF PublishEmpty, Send, Typed, progVars
  <2>2. CASE UNCHANGED vars  BY <2>2 DEF vars, progVars, netVars, Typed
  <2> QED BY <2>1, <2>2, CommonTypes, PubTypes, SubTypes DEF Next
<1>3. IInv /\ Typed => TypeOK  BY DEF IInv, Shapes, Typed, TypeOK, States
<1> QED BY <1>1, <1>2, <1>3, Invariance, PTL DEF Spec
=============================================================================
