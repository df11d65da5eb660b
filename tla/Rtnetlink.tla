----------------------------- MODULE Rtnetlink ------------------------------
(***************************************************************************)
(* The kernel's side of the configuration programs (external): the links   *)
(* of the programs' network namespace and of another one, and what a       *)
(* request does to them.  Modelled from the requests that the programs     *)
(* below src/netlink and src/bpf send.                                     *)
(*                                                                         *)
(* L is the table of links: a function from the indices in use, which are  *)
(* never used again, to records.  A handler gives the table after the      *)
(* request, and whether the kernel acknowledged it; a request that is not  *)
(* acknowledged changes nothing.                                           *)
(***************************************************************************)
EXTENDS Naturals, Sequences, FiniteSets

NoName == "none"
Lo == 1                                 \* index of the loopback device
Flags == {"UP", "MULTICAST"}

\* Names the kernel gives to veth links that come without one, lowest first.
AutoNames == <<"veth0", "veth1", "veth2", "veth3", "veth4", "veth5", "veth6", "veth7">>

\* A new link; here: in the programs' namespace.
Link(name, flags, peer) ==
  [name |-> name, here |-> TRUE, flags |-> flags, mtu |-> "default", peer |-> peer,
   addr |-> FALSE, clsact |-> FALSE, filters |-> {}, xdp |-> FALSE]

Bearers(L, n) == {i \in DOMAIN L : L[i].here /\ L[i].name = n}

\* if_nametoindex(): 0 when no link has the name.
IndexOf(L, n) == IF Bearers(L, n) = {} THEN 0 ELSE CHOOSE i \in Bearers(L, n) : TRUE

Here(L, i) == i \in DOMAIN L /\ L[i].here

\* The names of the list that are free; the kernel's list is longer, and ends,
\* too.
FreeNames(L, but) ==
  {k \in DOMAIN AutoNames : Bearers(L, AutoNames[k]) = {} /\ AutoNames[k] \notin but}
AutoName(L, but) == AutoNames[CHOOSE k \in FreeNames(L, but) :
                               \A j \in FreeNames(L, but) : k <= j]

Done(L) == [links |-> L, ok |-> TRUE]
Refuse(L) == [links |-> L, ok |-> FALSE]

-----------------------------------------------------------------------------
(* Links.                                                                  *)

\* A request without an index means the link with the name in the request.
Target(L, q) ==
  IF q.index # 0 THEN q.index
  ELSE IF q.ifname # NoName THEN IndexOf(L, q.ifname) ELSE 0

\* Moving to the other namespace takes the addresses and qdiscs of the link.
Moved(l) == [l EXCEPT !.here = FALSE, !.addr = FALSE, !.clsact = FALSE, !.filters = {}]

\* A link found by its name is not renamed.
CanMove(L, i) ==
  i # Lo /\ \A j \in DOMAIN L : ~L[j].here => L[j].name # L[i].name
Renames(q) == q.index # 0 /\ q.ifname # NoName
CanRename(L, i, n) == Bearers(L, n) \subseteq {i}

\* ifi_change is a mask: all ones set every flag to what ifi_flags has.
Changed(l, q) ==
  LET moved == IF q.netns THEN Moved(l) ELSE l
  IN  [moved EXCEPT !.mtu = IF q.mtu THEN "set" ELSE @,
                    !.name = IF Renames(q) THEN q.ifname ELSE @,
                    !.flags = IF q.change THEN q.flags ELSE @]

RtmSetLink(L, q) ==
  LET i == Target(L, q)
  IN  IF /\ Here(L, i)
         /\ q.netns => CanMove(L, i)
         /\ Renames(q) => CanRename(L, i, q.ifname)
      THEN Done([L EXCEPT ![i] = Changed(@, q)])
      ELSE Refuse(L)

\* The peer is registered first; only a peer that is described in the
\* request gets the flags of the request.  Without a free name for a link that
\* needs one there is no pair.
Create(L, next, q) ==
  LET peerName == IF q.peer # NoName THEN q.peer ELSE AutoName(L, {q.ifname})
      name == IF q.ifname # NoName THEN q.ifname ELSE AutoName(L, {peerName})
      pair == [i \in {next, next + 1} |->
                 IF i = next THEN Link(peerName, IF q.peer # NoName THEN {} ELSE {"MULTICAST"}, next + 1)
                             ELSE Link(name, q.flags, next)]
  IN  IF /\ Bearers(L, peerName) = {}
         /\ q.peer = NoName => FreeNames(L, {q.ifname}) # {}
         /\ q.ifname = NoName => FreeNames(L, {peerName}) # {}
      THEN Done([i \in DOMAIN L \cup DOMAIN pair |-> IF i \in DOMAIN L THEN L[i] ELSE pair[i]])
      ELSE Refuse(L)

\* RTM_NEWLINK: an existing link is changed, unless the request describes a
\* peer, which an existing link cannot be given.
RtmNewLink(L, next, q) ==
  IF Here(L, Target(L, q))
  THEN IF q.peer # NoName THEN Refuse(L) ELSE RtmSetLink(L, q)
  ELSE IF q.create THEN Create(L, next, q) ELSE Refuse(L)

\* Both ends of a pair go, wherever they are; the loopback device stays.
RtmDelLink(L, q) ==
  LET i == Target(L, q)
  IN  IF Here(L, i) /\ i # Lo
      THEN Done([j \in DOMAIN L \ {i, L[i].peer} |-> L[j]])
      ELSE Refuse(L)

-----------------------------------------------------------------------------
(* Addresses, qdiscs, filters and XDP programs of a link.                  *)

SetIf(L, i, guard, l) == IF guard THEN Done([L EXCEPT ![i] = l]) ELSE Refuse(L)

RtmNewAddr(L, q) ==
  LET i == q.index
  IN  SetIf(L, i, Here(L, i) /\ ~L[i].addr, [L[i] EXCEPT !.addr = TRUE])
RtmDelAddr(L, q) ==
  LET i == q.index
  IN  SetIf(L, i, Here(L, i) /\ L[i].addr, [L[i] EXCEPT !.addr = FALSE])
RtmNewQdisc(L, q) ==
  LET i == q.index
  IN  SetIf(L, i, Here(L, i) /\ (q.excl => ~L[i].clsact), [L[i] EXCEPT !.clsact = TRUE])
RtmDelQdisc(L, q) ==
  LET i == q.index
  IN  SetIf(L, i, Here(L, i) /\ L[i].clsact, [L[i] EXCEPT !.clsact = FALSE, !.filters = {}])

\* Without a priority in the request each one adds another filter.
RtmNewFilter(L, q) ==
  LET i == q.index
  IN  SetIf(L, i, Here(L, i) /\ L[i].clsact /\ q.loaded,
            [L[i] EXCEPT !.filters = @ \cup {q.owner}])

\* Driver mode: the loopback device has none.
RtmSetXdp(L, q) ==
  LET i == q.index
  IN  SetIf(L, i, Here(L, i) /\ i # Lo, [L[i] EXCEPT !.xdp = q.attach])

Handle(L, next, q) ==
  CASE q.type = "NEWLINK" -> RtmNewLink(L, next, q)
    [] q.type = "SETLINK" -> RtmSetLink(L, q)
    [] q.type = "DELLINK" -> RtmDelLink(L, q)
    [] q.type = "NEWADDR" -> RtmNewAddr(L, q)
    [] q.type = "DELADDR" -> RtmDelAddr(L, q)
    [] q.type = "NEWQDISC" -> RtmNewQdisc(L, q)
    [] q.type = "DELQDISC" -> RtmDelQdisc(L, q)
    [] q.type = "NEWTFILTER" -> RtmNewFilter(L, q)
    [] q.type = "SETXDP" -> RtmSetXdp(L, q)
=============================================================================
