------------------------------ MODULE XdpCount ------------------------------
(***************************************************************************)
(* The counting XDP programs of src/bpf: xdp-count, xdp-bytes,             *)
(* xdp-udp4count and xdp-tcp6count.  The kernel runs the program once for  *)
(* each packet, on the CPU that received it; all CPUs share the one entry  *)
(* of an array map, and *value += n is a load and a store.                 *)
(***************************************************************************)
EXTENDS Naturals

CONSTANTS
  Cpus,         \* CPUs that receive packets
  Programs,     \* the programs checked, a subset of AllPrograms
  Lengths,      \* lengths of packets in bytes
  MaxPackets    \* bound of the model: packets received

AllPrograms == {"xdp-count", "xdp-bytes", "xdp-udp4count", "xdp-tcp6count"}

ASSUME CountAssumption ==
  /\ Programs \subseteq AllPrograms
  /\ Lengths \subseteq Nat /\ Lengths # {}
  /\ MaxPackets \in Nat

\* A packet: its length, the ethertype and the protocol in the next header (or
\* what would be there, were the packet not too short).
Packet == [len : Lengths, ethertype : {"ip", "ipv6", "vlan"}, proto : {"udp", "tcp"}]

SomePacket == CHOOSE p \in Packet : TRUE

EthHdrSize == 14
IpHdrSize == 20
Ipv6HdrSize == 40

VARIABLES
  prog,         \* the program attached to the interface
  pc,           \* where each CPU is in it
  pkt,          \* the packet of each CPU
  looked,       \* bytes of that packet the program looked at
  reg,          \* the counter as each CPU loaded it
  value,        \* the entry of the map
  received,     \* packets received so far
  total,        \* history: what the packets counted so far amount to
  overlap       \* history: a CPU entered the update while another was in it

vars == <<prog, pc, pkt, looked, reg, value, received, total, overlap>>

Init ==
  /\ prog \in Programs
  /\ pc = [c \in Cpus |-> "idle"]
  /\ pkt = [c \in Cpus |-> SomePacket]
  /\ looked = [c \in Cpus |-> 0]
  /\ reg = [c \in Cpus |-> 0]
  /\ value = 0 /\ received = 0 /\ total = 0 /\ overlap = FALSE

-----------------------------------------------------------------------------
\* Mutant of Look: the second check of the length is left out.
LookUnchecked(p, etherType, hdrSize, proto) ==
  IF EthHdrSize > p.len THEN [bytes |-> 0, match |-> FALSE]
  ELSE IF p.ethertype # etherType THEN [bytes |-> EthHdrSize, match |-> FALSE]
  ELSE [bytes |-> EthHdrSize + hdrSize, match |-> p.proto = proto]

\* What _accept_all() looks at before the map lookup, and
\* whether it goes on to count the packet.  xdp-count and xdp-bytes look at
\* nothing.
Look(p, etherType, hdrSize, proto) ==
  IF EthHdrSize > p.len THEN [bytes |-> 0, match |-> FALSE]
  ELSE IF p.ethertype # etherType THEN [bytes |-> EthHdrSize, match |-> FALSE]
  ELSE IF EthHdrSize + hdrSize > p.len THEN [bytes |-> EthHdrSize, match |-> FALSE]
  ELSE [bytes |-> EthHdrSize + hdrSize, match |-> p.proto = proto]

LookUdp4(p) == Look(p, "ip", IpHdrSize, "udp")
LookTcp6(p) == Look(p, "ipv6", Ipv6HdrSize, "tcp")

Filter(p) ==
  CASE prog = "xdp-udp4count" -> LookUdp4(p)
    [] prog = "xdp-tcp6count" -> LookTcp6(p)
    [] OTHER -> [bytes |-> 0, match |-> TRUE]

\* What the packet adds to the counter.
Amount(p) == IF prog = "xdp-bytes" THEN p.len ELSE 1

\* The kernel runs the program for a packet; one that is not to be counted
\* passes at once.
Receive(c, p) ==
  /\ pc[c] = "idle"
  /\ received < MaxPackets
  /\ received' = received + 1
  /\ pkt' = [pkt EXCEPT ![c] = p]
  /\ looked' = [looked EXCEPT ![c] = Filter(p).bytes]
  /\ IF Filter(p).match
     THEN /\ pc' = [pc EXCEPT ![c] = "load"]
          /\ overlap' = (overlap \/ \E d \in Cpus : pc[d] # "idle")
     ELSE UNCHANGED <<pc, overlap>>
  /\ UNCHANGED <<prog, reg, value, total>>

\* *value += n: load.
Load(c) ==
  /\ pc[c] = "load"
  /\ reg' = [reg EXCEPT ![c] = value]
  /\ pc' = [pc EXCEPT ![c] = "store"]
  /\ UNCHANGED <<prog, pkt, looked, value, received, total, overlap>>

\* Mutants of Store: the amount is assigned; it is subtracted; a packet is
\* taken for one longer than it is.
StoreAmount(c) ==
  /\ pc[c] = "store"
  /\ value' = Amount(pkt[c])
  /\ total' = total + Amount(pkt[c])
  /\ pc' = [pc EXCEPT ![c] = "idle"]
  /\ UNCHANGED <<prog, pkt, looked, reg, received, overlap>>

StoreMinus(c) ==
  /\ pc[c] = "store"
  /\ value' = reg[c] - Amount(pkt[c])
  /\ total' = total + Amount(pkt[c])
  /\ pc' = [pc EXCEPT ![c] = "idle"]
  /\ UNCHANGED <<prog, pkt, looked, reg, received, overlap>>

StoreOneMore(c) ==
  /\ pc[c] = "store"
  /\ value' = reg[c] + Amount(pkt[c]) + 1
  /\ total' = total + Amount(pkt[c])
  /\ pc' = [pc EXCEPT ![c] = "idle"]
  /\ UNCHANGED <<prog, pkt, looked, reg, received, overlap>>

\* *value += n: store.  The packet passes.
Store(c) ==
  /\ pc[c] = "store"
  /\ value' = reg[c] + Amount(pkt[c])
  /\ total' = total + Amount(pkt[c])
  /\ pc' = [pc EXCEPT ![c] = "idle"]
  /\ UNCHANGED <<prog, pkt, looked, reg, received, overlap>>

Next ==
  \E c \in Cpus :
    \/ \E p \in Packet : Receive(c, p)
    \/ Load(c)
    \/ Store(c)

Spec == Init /\ [][Next]_vars

-----------------------------------------------------------------------------
(* Properties                                                              *)

\* Type invariant of the map entry, the CPUs and the history.
TypeOK ==
  /\ prog \in Programs
  /\ pc \in [Cpus -> {"idle", "load", "store"}]
  /\ pkt \in [Cpus -> Packet]
  /\ looked \in [Cpus -> Nat]
  /\ reg \in [Cpus -> Nat]
  /\ value \in Nat
  /\ received \in 0 .. MaxPackets
  /\ total \in Nat
  /\ overlap \in BOOLEAN

\* The programs look at no byte behind the packet, whatever its length and
\* content: what the comments call "check packet length for verifier".
LooksInsidePacket == \A c \in Cpus : looked[c] <= pkt[c].len

\* However the updates of the CPUs interleave, the counter never runs ahead
\* of the packets: a lost update only makes it too small.
NeverOvercounts == value <= total

\* As long as no two CPUs were in the update at the same time, the counter
\* is right whenever none is in it.
ExactWithoutOverlap ==
  (~overlap /\ \A c \in Cpus : pc[c] = "idle") => value = total

\* What README.md says: the counter is the number of packets (or bytes)
\* received, when no CPU is at work.
CountsAllPackets == (\A c \in Cpus : pc[c] = "idle") => value = total
=============================================================================
