-------------------------------- MODULE Mqtt --------------------------------
(***************************************************************************)
(* The MQTT clients, src/mosquitto/client_pub.c and client_sub.c, any      *)
(* number of each, at one broker.                                          *)
(*                                                                         *)
(* main() of both hands control to mosquitto_loop_forever(), which         *)
(* connects again after each loss of the connection and calls the program  *)
(* back: what a client does is in its callbacks, and a callback has no     *)
(* memory of the connections before.                                       *)
(*                                                                         *)
(* External: libmosquitto and the broker.  A packet that a callback queues *)
(* is written after the callback, in order, or never when the connection   *)
(* is lost first: a new connection starts with an empty queue and a clean  *)
(* session.  At QoS 0 the broker passes a message on at most once.         *)
(***************************************************************************)
EXTENDS Naturals, Sequences, FiniteSets

CONSTANTS
  Pubs,         \* runs of client_pub; a run stands for its message, too
  Subs,         \* runs of client_sub
  MaxFaults,    \* bound: connections lost or refused, packets lost
  MaxDown       \* bound: packets queued for a client when others publish

ASSUME ClientsAssumption == Pubs \cap Subs = {} /\ {"suback", "empty"} \cap Pubs = {}
ASSUME BoundsAssumption == MaxFaults \in Nat /\ MaxDown \in Nat

Clients == Pubs \cup Subs

VARIABLES
  state,        \* where a client is
  status,       \* what main() returned
  queued,       \* the packet of on_connect() waits to be written
  failed,       \* history: publish or subscribe came to nothing, this connection
  written,      \* how often a message was written
  flight,       \* clients with a packet on the way to the broker
  granted,      \* whether the broker has a subscription of the client
  down,         \* packets on the way from the broker
  printed,      \* messages a subscriber printed
  faults        \* how many faults there were

progVars == <<state, status, queued, failed>>
netVars == <<flight, granted, down>>
vars == <<progVars, netVars, written, printed, faults>>

Init ==
  /\ state = [c \in Clients |-> "new"]
  /\ status = [c \in Clients |-> "none"]
  /\ queued = [c \in Clients |-> FALSE]
  /\ failed = [c \in Clients |-> FALSE]
  /\ written = [p \in Pubs |-> 0]
  /\ flight = {}
  /\ granted = [s \in Subs |-> FALSE]
  /\ down = [s \in Subs |-> <<>>]
  /\ printed = [s \in Subs |-> <<>>]
  /\ faults = 0

Fault == faults < MaxFaults /\ faults' = faults + 1
Goes(c, x) == state' = [state EXCEPT ![c] = x] /\ UNCHANGED status
Exit(c, s) ==
  /\ state' = [state EXCEPT ![c] = "ended"]
  /\ status' = [status EXCEPT ![c] = s]

\* The connection of c is gone, and with it its subscription, what was queued
\* and what was on the way; only the message of a publisher that left may
\* still arrive.
Cut(c) ==
  /\ queued' = [queued EXCEPT ![c] = FALSE]
  /\ failed' = [failed EXCEPT ![c] = FALSE]
  /\ flight' = flight \ ({c} \cap Subs)
  /\ granted' = [s \in Subs |-> s # c /\ granted[s]]
  /\ down' = [s \in Subs |-> IF s = c THEN <<>> ELSE down[s]]

-----------------------------------------------------------------------------
(* main() and the loop, the same in both programs.                         *)

\* Up to mosquitto_connect(), which fails or waits for the broker's answer.
Connect(c) ==
  /\ state[c] = "new"
  /\ Goes(c, "connecting") \/ Exit(c, "error")
  /\ UNCHANGED <<queued, failed, netVars, written, printed, faults>>

\* on_connect() with an error, which it prints.
Refused(c) ==
  /\ state[c] = "connecting"
  /\ Goes(c, "offline")
  /\ Fault
  /\ UNCHANGED <<queued, failed, netVars, written, printed>>

\* The connection is lost; on_disconnect() prints so.
Lose(c) ==
  /\ state[c] \in {"connecting", "connected"}
  /\ Goes(c, "offline")
  /\ Cut(c)
  /\ Fault
  /\ UNCHANGED <<written, printed>>

\* mosquitto_loop_forever() connects again.
Reconnect(c) ==
  /\ state[c] = "offline"
  /\ Goes(c, "connecting")
  /\ UNCHANGED <<queued, failed, netVars, written, printed, faults>>

\* The loop ends with an error it does not try to mend; main() returns it.
Fatal(c) ==
  /\ state[c] \in {"connecting", "connected", "offline", "leaving"}
  /\ Exit(c, "error")
  /\ Cut(c)
  /\ UNCHANGED <<written, printed, faults>>

\* The loop ends because the program asked for it; main() returns 0.
Left(c) ==
  /\ state[c] = "leaving"
  /\ Exit(c, "zero")
  /\ UNCHANGED <<queued, failed, netVars, written, printed, faults>>

-----------------------------------------------------------------------------
(* client_pub.                                                             *)

\* Mutant of PubOnConnect: a client that cannot publish leaves.
PubOnConnectLeaves(p) ==
  /\ state[p] = "connecting"
  /\ \/ /\ Goes(p, "connected")
        /\ queued' = [queued EXCEPT ![p] = TRUE] /\ UNCHANGED failed
     \/ /\ Goes(p, "leaving")
        /\ failed' = [failed EXCEPT ![p] = TRUE] /\ UNCHANGED queued
  /\ UNCHANGED <<netVars, written, printed, faults>>

\* Mutant of PubOnConnect: it publishes on the first connection only (of all,
\* before there was a fault).
PubOnConnectOnce(p) ==
  /\ state[p] = "connecting"
  /\ Goes(p, "connected")
  /\ queued' = [queued EXCEPT ![p] = faults = 0]
  /\ UNCHANGED <<failed, netVars, written, printed, faults>>

\* on_connect(): publish, which may fail; that is printed and no more.
PubOnConnect(p) ==
  /\ state[p] = "connecting"
  /\ Goes(p, "connected")
  /\ \/ queued' = [queued EXCEPT ![p] = TRUE] /\ UNCHANGED failed
     \/ failed' = [failed EXCEPT ![p] = TRUE] /\ UNCHANGED queued
  /\ UNCHANGED <<netVars, written, printed, faults>>

\* Mutant of PubOnPublish: it does not disconnect.
PubOnPublishStays(p) ==
  /\ state[p] = "connected" /\ queued[p]
  /\ queued' = [queued EXCEPT ![p] = FALSE]
  /\ written' = [written EXCEPT ![p] = @ + 1]
  /\ flight' = flight \cup {p}
  /\ UNCHANGED <<state, status, failed, granted, down, printed, faults>>

\* The message is written and on_publish() called, which disconnects: from
\* now on a loss of the connection ends the loop.
PubOnPublish(p) ==
  /\ state[p] = "connected" /\ queued[p]
  /\ queued' = [queued EXCEPT ![p] = FALSE]
  /\ written' = [written EXCEPT ![p] = @ + 1]
  /\ flight' = flight \cup {p}
  /\ Goes(p, "leaving")
  /\ UNCHANGED <<failed, granted, down, printed, faults>>

-----------------------------------------------------------------------------
(* client_sub.                                                             *)

\* Mutant of SubOnConnect: it subscribes on the first connection only (of all,
\* before there was a fault).
SubOnConnectOnce(s) ==
  /\ state[s] = "connecting"
  /\ Goes(s, "connected")
  /\ queued' = [queued EXCEPT ![s] = faults = 0]
  /\ UNCHANGED <<failed, netVars, written, printed, faults>>

\* on_connect(): subscribe, which may fail; that is printed and no more.
SubOnConnect(s) ==
  /\ state[s] = "connecting"
  /\ Goes(s, "connected")
  /\ \/ queued' = [queued EXCEPT ![s] = TRUE] /\ UNCHANGED failed
     \/ failed' = [failed EXCEPT ![s] = TRUE] /\ UNCHANGED queued
  /\ UNCHANGED <<netVars, written, printed, faults>>

\* The loop writes the subscription.
SubWrite(s) ==
  /\ state[s] = "connected" /\ queued[s]
  /\ queued' = [queued EXCEPT ![s] = FALSE]
  /\ flight' = flight \cup {s}
  /\ UNCHANGED <<state, status, failed, granted, down, written, printed, faults>>

Receives(s, x) ==
  /\ state[s] = "connected" /\ down[s] # <<>> /\ Head(down[s]) = x
  /\ down' = [down EXCEPT ![s] = Tail(@)]

\* Mutant of SubOnSubscribe: it disconnects, as client_pub does.
SubOnSubscribeLeaves(s) ==
  /\ Receives(s, "suback")
  /\ Goes(s, "leaving")
  /\ UNCHANGED <<queued, failed, flight, granted, written, printed, faults>>

\* on_subscribe(): it does not look at what was granted.
SubOnSubscribe(s) ==
  /\ Receives(s, "suback")
  /\ UNCHANGED <<progVars, flight, granted, written, printed, faults>>

\* Mutant of SubOnMessage: empty messages are printed, too.
SubOnMessageAll(s) ==
  /\ \E m \in Pubs \cup {"empty"} :
       Receives(s, m) /\ printed' = [printed EXCEPT ![s] = Append(@, m)]
  /\ UNCHANGED <<progVars, flight, granted, written, faults>>

\* on_message(): empty messages are ignored.
SubOnMessage(s) ==
  /\ \/ \E p \in Pubs :
          Receives(s, p) /\ printed' = [printed EXCEPT ![s] = Append(@, p)]
     \/ Receives(s, "empty") /\ UNCHANGED printed
  /\ UNCHANGED <<progVars, flight, granted, written, faults>>

-----------------------------------------------------------------------------
(* The broker and the network.                                             *)

Send(S, m) == [s \in Subs |-> IF s \in S THEN Append(down[s], m) ELSE down[s]]

\* The broker takes the message of p and passes it on to subscribers; it may
\* drop it for one that is slow.
Publish(p) ==
  /\ p \in flight
  /\ flight' = flight \ {p}
  /\ \E S \in SUBSET {s \in Subs : granted[s]} : down' = Send(S, p)
  /\ UNCHANGED <<progVars, granted, written, printed, faults>>

\* The connection broke after the message was written.
Vanish(p) ==
  /\ p \in flight
  /\ flight' = flight \ {p}
  /\ Fault
  /\ UNCHANGED <<progVars, granted, down, written, printed>>

\* Another client publishes an empty message.
PublishEmpty ==
  /\ \E S \in SUBSET {s \in Subs : granted[s] /\ Len(down[s]) < MaxDown} :
       S # {} /\ down' = Send(S, "empty")
  /\ UNCHANGED <<progVars, flight, granted, written, printed, faults>>

\* The broker grants a subscription or refuses it.
Subscribe(s) ==
  /\ s \in flight
  /\ flight' = flight \ {s}
  /\ down' = Send({s}, "suback")
  /\ \/ granted' = [granted EXCEPT ![s] = TRUE] /\ UNCHANGED failed
     \/ failed' = [failed EXCEPT ![s] = TRUE] /\ UNCHANGED granted
  /\ UNCHANGED <<state, status, queued, written, printed, faults>>

-----------------------------------------------------------------------------
Common(c) == Connect(c) \/ Refused(c) \/ Lose(c) \/ Reconnect(c) \/ Fatal(c) \/ Left(c)
Pub(p) == PubOnConnect(p) \/ PubOnPublish(p) \/ Publish(p) \/ Vanish(p)
Sub(s) ==
  SubOnConnect(s) \/ SubWrite(s) \/ SubOnSubscribe(s) \/ SubOnMessage(s) \/ Subscribe(s)

Next ==
  \/ \E c \in Clients : Common(c)
  \/ \E p \in Pubs : Pub(p)
  \/ \E s \in Subs : Sub(s)
  \/ PublishEmpty

\* The programs run, the library's loop goes round, and the broker answers.
Fairness ==
  /\ \A c \in Clients : WF_vars(Connect(c)) /\ WF_vars(Reconnect(c)) /\ WF_vars(Left(c))
  /\ \A p \in Pubs : WF_vars(PubOnConnect(p)) /\ WF_vars(PubOnPublish(p))
  /\ \A s \in Subs : /\ WF_vars(SubOnConnect(s)) /\ WF_vars(SubWrite(s))
                     /\ WF_vars(Subscribe(s))

Spec == Init /\ [][Next]_vars /\ Fairness

-----------------------------------------------------------------------------
(* Properties.                                                             *)

\* Types.  A packet waits only on a connection or for the end of one, a
\* subscription is one of a connection, and a subscriber never leaves.
TypeOK ==
  /\ state \in [Clients -> {"new", "connecting", "connected", "offline", "leaving", "ended"}]
  /\ status \in [Clients -> {"none", "zero", "error"}]
  /\ queued \in [Clients -> BOOLEAN] /\ failed \in [Clients -> BOOLEAN]
  /\ \A c \in Clients : queued[c] => state[c] = "connected"
  /\ written \in [Pubs -> Nat]
  /\ flight \subseteq Clients
  /\ granted \in [Subs -> BOOLEAN]
  /\ \A s \in Subs : /\ granted[s] => state[s] = "connected"
                     /\ down[s] # <<>> => state[s] = "connected"
                     /\ state[s] # "leaving"
  /\ faults \in 0 .. MaxFaults

\* A run of client_pub publishes at most once, however often its connection
\* is lost and on_connect() runs again, and no run of client_sub prints a
\* message twice.
AtMostOnce ==
  /\ \A p \in Pubs : written[p] <= 1
  /\ \A s \in Subs : \A i, j \in 1 .. Len(printed[s]) :
       i # j => printed[s][i] # printed[s][j]

\* client_pub returns 0 only when its message was written.  (Whether the
\* broker has it, it does not know.)
ZeroMeansWritten == \A p \in Pubs : status[p] = "zero" => written[p] = 1

\* Only messages that were written are printed, empty ones of others are not,
\* and two subscribers do not disagree about the order of messages.
PrintsWhatWasWritten ==
  /\ \A s \in Subs : \A i \in 1 .. Len(printed[s]) :
       printed[s][i] \in Pubs /\ written[printed[s][i]] > 0
  /\ \A s, t \in Subs : \A i, j \in 1 .. Len(printed[s]), k, l \in 1 .. Len(printed[t]) :
       printed[s][i] = printed[t][k] /\ printed[s][j] = printed[t][l] => (i < j <=> k < l)

\* When connections are not lost for ever, client_pub comes to an end, unless
\* its publish failed: then it stays connected and does nothing.
PubEnds ==
  \A p \in Pubs :
    <>(state[p] = "ended") \/ <>[](state[p] = "connected" /\ failed[p])

\* When connections are not lost for ever, client_sub has a subscription in
\* the end, on the connection it has then, unless it ended, its subscribe
\* failed or the broker refused: then it stays connected and prints nothing.
SubStays ==
  \A s \in Subs :
    \/ <>(state[s] = "ended") \/ <>[]granted[s]
    \/ <>[](state[s] = "connected" /\ failed[s])
=============================================================================
