------------------------------ MODULE Delivery ------------------------------
(***************************************************************************)
(* What every receiving program of the repository promises: items are      *)
(* handed to the program in one order (sent) and the program outputs them  *)
(* (got) in that order, each once, unaltered and without a gap.  The AF_XDP *)
(* receiver and the netlink monitors are shown to implement it.            *)
(***************************************************************************)
EXTENDS Naturals, Sequences

CONSTANT Item           \* what is handed over: a packet, an event

VARIABLES
  sent,                 \* the items handed over so far, oldest first
  got                   \* the items output so far, oldest first

vars == <<sent, got>>

Init ==
  /\ sent = <<>>
  /\ got = <<>>

\* The environment hands over the next item.
Send ==
  /\ \E item \in Item : sent' = Append(sent, item)
  /\ UNCHANGED got

\* The program outputs the oldest item it has not output yet.
Deliver ==
  /\ Len(got) < Len(sent)
  /\ got' = Append(got, sent[Len(got) + 1])
  /\ UNCHANGED sent

Next == Send \/ Deliver

Spec == Init /\ [][Next]_vars
=============================================================================
