--------------------------- MODULE XdpCount_proof ---------------------------
(***************************************************************************)
(* The counter of the XDP programs never runs ahead of the packets, and    *)
(* the programs look at no byte behind a packet: for any number of CPUs,   *)
(* packets and lengths.                                                    *)
(***************************************************************************)
EXTENDS XdpCount, TLAPS

\* The filters look at the bytes they checked the length for.
LEMMA FilterInside ==
  ASSUME TypeOK, NEW p \in Packet
  PROVE  Filter(p).bytes \in Nat /\ Filter(p).bytes <= p.len
<1>1. p.len \in Nat
  BY CountAssumption DEF Packet
<1>2. ASSUME NEW etherType, NEW hdrSize \in Nat, NEW proto
      PROVE  /\ Look(p, etherType, hdrSize, proto).bytes \in Nat
             /\ Look(p, etherType, hdrSize, proto).bytes <= p.len
  BY <1>1 DEF Look, EthHdrSize
<1>3. LookUdp4(p).bytes \in Nat /\ LookUdp4(p).bytes <= p.len
  BY <1>2 DEF LookUdp4, IpHdrSize
<1>4. LookTcp6(p).bytes \in Nat /\ LookTcp6(p).bytes <= p.len
  BY <1>2 DEF LookTcp6, Ipv6HdrSize
<1>5. QED
  BY <1>1, <1>3, <1>4 DEF Filter

\* What a packet adds is a natural number.
LEMMA AmountNat == ASSUME NEW p \in Packet PROVE Amount(p) \in Nat
  BY CountAssumption DEF Amount, Packet

\* A loaded counter is no larger than what has been counted; total only grows,
\* so this is still so when the CPU stores.
LoadsCovered == \A c \in Cpus : pc[c] = "store" => reg[c] <= total

IInv == TypeOK /\ LooksInsidePacket /\ NeverOvercounts /\ LoadsCovered

\* The invariant holds at the start.
LEMMA IInvInit == Init => IInv
<1> SUFFICES ASSUME Init PROVE IInv
  OBVIOUS
<1>1. SomePacket \in Packet
  <2>1. PICK l \in Lengths : TRUE
    BY CountAssumption
  <2>2. [len |-> l, ethertype |-> "ip", proto |-> "udp"] \in Packet
    BY DEF Packet
  <2>3. QED
    BY <2>2 DEF SomePacket
<1>2. \A c \in Cpus : pkt[c] \in Packet /\ pkt[c].len \in Nat
  BY <1>1, CountAssumption DEF Init, Packet
<1>3. TypeOK
  <2>1. overlap \in BOOLEAN
    BY DEF Init
  <2>2. pkt \in [Cpus -> Packet]
    BY <1>1 DEF Init
  <2>3. QED
    BY <2>1, <2>2, CountAssumption DEF Init, TypeOK
<1>4. LooksInsidePacket /\ NeverOvercounts /\ LoadsCovered
  BY <1>2 DEF Init, LooksInsidePacket, NeverOvercounts, LoadsCovered
<1>5. QED
  BY <1>3, <1>4 DEF IInv

\* A CPU gets a packet: only what it looked at is new.
LEMMA ReceiveStep ==
  ASSUME IInv, NEW c \in Cpus, NEW p \in Packet, Receive(c, p)
  PROVE  IInv'
<1> USE DEF IInv
<1>1. Filter(p).bytes \in Nat /\ Filter(p).bytes <= p.len
  BY FilterInside
<1>2. /\ pkt' = [pkt EXCEPT ![c] = p] /\ looked' = [looked EXCEPT ![c] = Filter(p).bytes]
      /\ UNCHANGED <<prog, reg, value, total>>
      /\ received' = received + 1 /\ received < MaxPackets
  BY DEF Receive
<1>3. /\ pc' \in [Cpus -> {"idle", "load", "store"}]
      /\ \A d \in Cpus : pc'[d] = "store" => pc[d] = "store"
  BY DEF Receive, TypeOK
<1>4. overlap' \in BOOLEAN
  BY DEF Receive, TypeOK
<1>5. TypeOK'
  <2>1. pkt' \in [Cpus -> Packet]
    BY <1>2 DEF TypeOK
  <2>2. looked' \in [Cpus -> Nat]
    BY <1>1, <1>2 DEF TypeOK
  <2>3. /\ received' \in 0 .. MaxPackets
        /\ prog' \in Programs /\ reg' \in [Cpus -> Nat] /\ value' \in Nat /\ total' \in Nat
    BY <1>2, CountAssumption DEF TypeOK
  <2>4. QED
    BY <1>3, <1>4, <2>1, <2>2, <2>3 DEF TypeOK
<1>6. LooksInsidePacket'
  BY <1>1, <1>2 DEF LooksInsidePacket, TypeOK
<1>7. NeverOvercounts' /\ LoadsCovered'
  BY <1>2, <1>3 DEF NeverOvercounts, LoadsCovered
<1>8. QED
  BY <1>5, <1>6, <1>7

\* A CPU loads the counter, which is no larger than total.
LEMMA LoadStep ==
  ASSUME IInv, NEW c \in Cpus, Load(c)
  PROVE  IInv'
<1> USE DEF IInv
<1>1. TypeOK'
  BY DEF Load, TypeOK
<1>2. LooksInsidePacket' /\ NeverOvercounts'
  BY DEF Load, LooksInsidePacket, NeverOvercounts
<1>3. LoadsCovered'
  BY DEF Load, LoadsCovered, NeverOvercounts, TypeOK
<1>4. QED
  BY <1>1, <1>2, <1>3

\* A CPU stores: total grows by what the counter is larger than the load.
LEMMA StoreStep ==
  ASSUME IInv, NEW c \in Cpus, Store(c)
  PROVE  IInv'
<1> USE DEF IInv
<1>1. Amount(pkt[c]) \in Nat
  BY AmountNat DEF TypeOK
<1>2. /\ value' = reg[c] + Amount(pkt[c]) /\ total' = total + Amount(pkt[c])
      /\ pc[c] = "store" /\ pc' = [pc EXCEPT ![c] = "idle"]
      /\ UNCHANGED <<prog, pkt, looked, reg, received, overlap>>
  BY DEF Store
<1>3. TypeOK'
  BY <1>1, <1>2 DEF TypeOK
<1>4. LooksInsidePacket' /\ NeverOvercounts'
  BY <1>1, <1>2 DEF LooksInsidePacket, NeverOvercounts, LoadsCovered, TypeOK
<1>5. LoadsCovered'
  BY <1>1, <1>2 DEF LoadsCovered, TypeOK
<1>6. QED
  BY <1>3, <1>4, <1>5

\* The invariant holds in every state.
THEOREM Invariance == Spec => []IInv
<1>1. IInv /\ UNCHANGED vars => IInv'
  BY DEF IInv, vars, TypeOK, LooksInsidePacket, NeverOvercounts, LoadsCovered
<1>2. IInv /\ [Next]_vars => IInv'
  BY <1>1, ReceiveStep, LoadStep, StoreStep DEF Next
<1>3. QED
  BY <1>2, IInvInit, PTL DEF Spec

\* No interleaving of updates makes the counter too large.
THEOREM CounterNeverOvercounts == Spec => []NeverOvercounts
<1>1. IInv => NeverOvercounts
  BY DEF IInv
<1>2. QED
  BY <1>1, Invariance, PTL

\* The programs look at no byte behind the packet.
THEOREM ProgramsLookInside == Spec => []LooksInsidePacket
<1>1. IInv => LooksInsidePacket
  BY DEF IInv
<1>2. QED
  BY <1>1, Invariance, PTL

\* The state of the map entry and of the CPUs stays well typed.
THEOREM TypeCorrect == Spec => []TypeOK
<1>1. IInv => TypeOK
  BY DEF IInv
<1>2. QED
  BY <1>1, Invariance, PTL

-----------------------------------------------------------------------------
(* Without overlap the counter is exact.  That it is so when every CPU is  *)
(* idle is not inductive: it has to hold all the time, with one CPU at     *)
(* most in the update, and what that one has loaded is still the counter.  *)

OneCpuUpdates ==
  \A c, d \in Cpus : pc[c] # "idle" /\ pc[d] # "idle" => c = d
LoadIsCurrent == \A c \in Cpus : pc[c] = "store" => reg[c] = value
Exact == ~overlap => OneCpuUpdates /\ LoadIsCurrent /\ value = total

\* A CPU that enters the update while another is in it notes the overlap.
LEMMA ExactReceive ==
  ASSUME IInv, Exact, NEW c \in Cpus, NEW p \in Packet, Receive(c, p)
  PROVE  Exact'
<1> SUFFICES ASSUME ~overlap'
             PROVE  OneCpuUpdates' /\ LoadIsCurrent' /\ value' = total'
  BY DEF Exact
<1>1. pc \in [Cpus -> {"idle", "load", "store"}]
  BY DEF IInv, TypeOK
<1>2. UNCHANGED <<reg, value, total>> /\ pc[c] = "idle"
  BY DEF Receive
<1>3. CASE Filter(p).match
  <2>1. pc' = [pc EXCEPT ![c] = "load"] /\ \A d \in Cpus : pc[d] = "idle"
    BY <1>3 DEF Receive
  <2>2. ~overlap
    BY <1>3 DEF Receive
  <2>3. QED
    BY <1>1, <1>2, <2>1, <2>2 DEF Exact, OneCpuUpdates, LoadIsCurrent
<1>4. CASE ~Filter(p).match
  <2>1. UNCHANGED <<pc, overlap>>
    BY <1>4 DEF Receive
  <2>2. QED
    BY <1>2, <2>1 DEF Exact, OneCpuUpdates, LoadIsCurrent
<1>5. QED
  BY <1>3, <1>4

LEMMA ExactLoad ==
  ASSUME IInv, Exact, NEW c \in Cpus, Load(c)
  PROVE  Exact'
BY DEF IInv, TypeOK, Load, Exact, OneCpuUpdates, LoadIsCurrent

\* The CPU that stores is the only one in the update, so that no other has
\* loaded what is now too old.
LEMMA ExactStore ==
  ASSUME IInv, Exact, NEW c \in Cpus, Store(c)
  PROVE  Exact'
<1> SUFFICES ASSUME ~overlap
             PROVE  OneCpuUpdates' /\ LoadIsCurrent' /\ value' = total'
  BY DEF Exact, Store
<1>1. /\ value' = reg[c] + Amount(pkt[c]) /\ total' = total + Amount(pkt[c])
      /\ pc[c] = "store" /\ pc' = [pc EXCEPT ![c] = "idle"]
      /\ reg' = reg
  BY DEF Store
<1>2. pc \in [Cpus -> {"idle", "load", "store"}]
  BY DEF IInv, TypeOK
<1>3. \A d \in Cpus : pc'[d] = "idle"
  BY <1>1, <1>2 DEF Exact, OneCpuUpdates
<1>4. value' = total'
  BY <1>1 DEF Exact, LoadIsCurrent
<1>5. QED
  BY <1>3, <1>4 DEF OneCpuUpdates, LoadIsCurrent

\* While no two CPUs have been in the update at the same time, the counter is
\* exact: the loss of updates has no other cause.
THEOREM CounterIsExact == Spec => []ExactWithoutOverlap
<1>1. Init => Exact
  BY DEF Init, Exact, OneCpuUpdates, LoadIsCurrent
<1>2. IInv /\ Exact /\ [Next]_vars => Exact'
  <2> SUFFICES ASSUME IInv, Exact, [Next]_vars PROVE Exact'
    OBVIOUS
  <2>1. CASE UNCHANGED vars
    BY <2>1 DEF vars, Exact, OneCpuUpdates, LoadIsCurrent
  <2>2. QED
    BY <2>1, ExactReceive, ExactLoad, ExactStore DEF Next
<1>3. Exact => ExactWithoutOverlap
  BY DEF Exact, ExactWithoutOverlap
<1>4. QED
  BY <1>1, <1>2, <1>3, Invariance, PTL DEF Spec
=============================================================================
