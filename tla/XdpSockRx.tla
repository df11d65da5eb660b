----------------------------- MODULE XdpSockRx ------------------------------
(***************************************************************************)
(* The AF_XDP receiver, src/af_xdp/xdp-sock-rx.c: one user process and the *)
(* kernel share a memory of NumFrames frames (the umem) and two rings.     *)
(* The process puts free frames onto the fill ring; the kernel takes them, *)
(* writes packets into them and puts descriptors onto the rx ring; the     *)
(* process prints the packets and returns their frames.                    *)
(*                                                                         *)
(* The rings are modelled as queues: the slots between consumer and        *)
(* producer.  A ring is full when the entries not yet released by its      *)
(* consumer fill it.  The operations on them, the kernel and libbpf, are   *)
(* external: they are modelled from how xdp-sock-rx.c relies on them.      *)
(***************************************************************************)
EXTENDS Naturals, Sequences, FiniteSets

CONSTANTS
  NumFrames,    \* frames in the umem, NUM_FRAMES (4096)
  NumDescs,     \* slots of the fill ring and of the rx ring (2048 both)
  BatchSize,    \* most packets taken per receive(), BATCH_SIZE (64)
  MaxPackets    \* bound of the model: packets that reach the interface

ASSUME ConstantsAssumption ==
  /\ NumDescs \in Nat \ {0}
  /\ NumFrames \in Nat /\ NumFrames >= NumDescs
  /\ BatchSize \in Nat \ {0}
  /\ MaxPackets \in Nat

Frames == 0 .. (NumFrames - 1)
Packets == 1 .. MaxPackets
NoPacket == 0   \* content of a frame no packet has been written to

\* A umem address: the frame it lies in and its place in the frame, the
\* start (FALSE) or behind the headroom the kernel keeps (TRUE).
Addr == [frame : Frames, headroom : BOOLEAN]

VARIABLES
  pc,           \* where the process is
  fill,         \* fill ring: addresses submitted and not taken by the kernel
  unreleased,   \* fill entries taken whose slots the kernel has not released
  nic,          \* frames the kernel holds to receive into
  rx,           \* rx ring: addresses posted and not released by the process
  rxSeen,       \* rx entries peeked at earlier and left for later (cached)
  num,          \* num_rx: the packets this receive() handles
  staged,       \* addresses written to the reserved fill slots so far
  mem,          \* the packet in each frame
  asleep,       \* needs_wakeup: the kernel waits to be woken to refill
  arrived,      \* packets that reached the interface
  posted,       \* history: packets posted on the rx ring
  printed       \* history: packets printed on the console

vars == <<pc, fill, unreleased, nic, rx, rxSeen, num, staged, mem, asleep,
          arrived, posted, printed>>
kernelVars == <<unreleased, nic, mem, arrived, posted>>
ringVars == <<fill, rx>>

Startup == {"create_umem", "populate", "create_socket"}
Running == {"poll", "wait", "peek", "reserve", "handle", "release"}

Init ==
  /\ pc = "create_umem"
  /\ fill = <<>> /\ unreleased = 0 /\ nic = {}
  /\ rx = <<>> /\ rxSeen = 0
  /\ num = 0 /\ staged = <<>>
  /\ mem = [f \in Frames |-> NoPacket]
  /\ asleep = FALSE
  /\ arrived = 0 /\ posted = <<>> /\ printed = <<>>

-----------------------------------------------------------------------------
(* main(): set up the umem, the fill ring and the socket.                  *)

\* mmap() and xsk_umem__create(): either may fail and end the program.
CreateUmem ==
  /\ pc = "create_umem"
  /\ pc' \in {"populate", "exit"}
  /\ UNCHANGED <<ringVars, kernelVars, rxSeen, num, staged, asleep, printed>>

\* Mutant of Populate: i without the factor FRAME_SIZE, so that all addresses
\* lie in the first frame.
PopulateFirstFrame ==
  /\ pc = "populate"
  /\ pc' = "create_socket"
  /\ fill' = [i \in 1 .. NumDescs |-> [frame |-> 0, headroom |-> FALSE]]
  /\ UNCHANGED <<rx, kernelVars, rxSeen, num, staged, asleep, printed>>

\* All slots of the empty fill ring are reserved, filled with the first
\* NumDescs frames in order and submitted.
Populate ==
  /\ pc = "populate"
  /\ pc' = "create_socket"
  /\ fill' = [i \in 1 .. NumDescs |-> [frame |-> i - 1, headroom |-> FALSE]]
  /\ UNCHANGED <<rx, kernelVars, rxSeen, num, staged, asleep, printed>>

\* xsk_socket__create() binds the socket, or fails and ends the program.
CreateSocket ==
  /\ pc = "create_socket"
  /\ pc' \in {"poll", "exit"}
  /\ UNCHANGED <<ringVars, kernelVars, rxSeen, num, staged, asleep, printed>>

\* Mutant of Poll: a wait that does not wake the kernel.
PollWithoutWakeup ==
  /\ pc = "poll"
  /\ pc' = "wait"
  /\ UNCHANGED <<ringVars, kernelVars, rxSeen, num, staged, asleep, printed>>

\* poll() is called; entering it wakes the kernel.  An interrupted poll()
\* is called again (continue), which changes nothing.
Poll ==
  /\ pc = "poll"
  /\ pc' = "wait"
  /\ asleep' = FALSE
  /\ UNCHANGED <<ringVars, kernelVars, rxSeen, num, staged, printed>>

\* Mutant of PollReady: wait for a full batch.
PollFullBatch ==
  /\ pc = "wait"
  /\ Len(rx) >= BatchSize
  /\ pc' = "peek"
  /\ UNCHANGED <<ringVars, kernelVars, rxSeen, num, staged, asleep, printed>>

\* poll() returns: the rx ring is not empty.
PollReady ==
  /\ pc = "wait"
  /\ rx # <<>>
  /\ pc' = "peek"
  /\ UNCHANGED <<ringVars, kernelVars, rxSeen, num, staged, asleep, printed>>

\* poll() returns an error event of the socket: receive() runs all the same.
PollError ==
  /\ pc = "wait"
  /\ rx = <<>>
  /\ pc' = "peek"
  /\ UNCHANGED <<ringVars, kernelVars, rxSeen, num, staged, asleep, printed>>

-----------------------------------------------------------------------------
(* receive()                                                               *)

\* The entries a peek can take: those seen earlier, or, when there are none
\* left, all that are on the ring now.
Available == IF rxSeen > 0 THEN rxSeen ELSE Len(rx)

BatchOf(n) == IF n < BatchSize THEN n ELSE BatchSize

\* Mutant of Peek: the rest is computed from the largest batch.
PeekRestOfFullBatch ==
  /\ pc = "peek"
  /\ Available > 0
  /\ num' = BatchOf(Available)
  /\ rxSeen' = Available - BatchSize
  /\ pc' = "reserve"
  /\ UNCHANGED <<ringVars, kernelVars, staged, asleep, printed>>

\* There is a packet: remember how many are taken.
Peek ==
  /\ pc = "peek"
  /\ Available > 0
  /\ num' = BatchOf(Available)
  /\ rxSeen' = Available - num'
  /\ pc' = "reserve"
  /\ UNCHANGED <<ringVars, kernelVars, staged, asleep, printed>>

\* There is none: wake the kernel if it asks for it, and return.
PeekNothing ==
  /\ pc = "peek"
  /\ Available = 0
  /\ asleep' = FALSE
  /\ pc' = "poll"
  /\ UNCHANGED <<ringVars, kernelVars, rxSeen, num, staged, printed>>

\* xsk_ring_prod__reserve() gives all slots asked for or none; those of
\* submitted and of unreleased entries are taken.
CanReserve == Len(fill) + unreleased + num <= NumDescs

\* Mutant of Reserve: the result of the reservation is not looked at.
ReserveUnchecked ==
  /\ pc = "reserve"
  /\ pc' = "handle"
  /\ UNCHANGED <<ringVars, kernelVars, rxSeen, num, staged, asleep, printed>>

Reserve ==
  /\ pc = "reserve"
  /\ CanReserve
  /\ pc' = "handle"
  /\ UNCHANGED <<ringVars, kernelVars, rxSeen, num, staged, asleep, printed>>

\* No room yet: wake the kernel if it asks for it, and try again.
ReserveRetry ==
  /\ pc = "reserve"
  /\ ~CanReserve
  /\ asleep' = FALSE
  /\ UNCHANGED <<pc, ringVars, kernelVars, rxSeen, num, staged, printed>>

\* Mutant of Handle: rx_index is not incremented.
HandleFirstEntry ==
  /\ pc = "handle"
  /\ Len(staged) < num
  /\ LET desc == rx[1]
     IN  /\ printed' = Append(printed, mem[desc.frame])
         /\ staged' = Append(staged, desc)
  /\ UNCHANGED <<pc, ringVars, kernelVars, rxSeen, num, asleep>>

\* Print the next packet and write its address to the next reserved slot.
\* The address of an aligned umem has no offset in its upper bits:
\* xsk_umem__extract_addr() returns it with the headroom still in it.
Handle ==
  /\ pc = "handle"
  /\ Len(staged) < num
  /\ LET desc == rx[Len(staged) + 1]
     IN  /\ printed' = Append(printed, mem[desc.frame])
         /\ staged' = Append(staged, desc)
  /\ UNCHANGED <<pc, ringVars, kernelVars, rxSeen, num, asleep>>

\* xsk_ring_prod__submit(): from here on the kernel may reuse the frames.
Submit ==
  /\ pc = "handle"
  /\ Len(staged) = num
  /\ fill' = fill \o staged
  /\ staged' = <<>>
  /\ pc' = "release"
  /\ UNCHANGED <<rx, kernelVars, rxSeen, num, asleep, printed>>

\* Mutant of Release: the rx entries are not released.
ReleaseNothing ==
  /\ pc = "release"
  /\ num' = 0
  /\ pc' = "poll"
  /\ UNCHANGED <<ringVars, kernelVars, rxSeen, staged, asleep, printed>>

\* xsk_ring_cons__release(): the rx slots are free for new descriptors.
Release ==
  /\ pc = "release"
  /\ rx' = SubSeq(rx, num + 1, Len(rx))
  /\ num' = 0
  /\ pc' = "poll"
  /\ UNCHANGED <<fill, kernelVars, rxSeen, staged, asleep, printed>>

-----------------------------------------------------------------------------
(* The kernel, bound to the rings while the process runs.  External.       *)

\* Take the next fill entry; the address is masked to the frame it lies in.
KernelTake ==
  /\ pc \in Running
  /\ ~asleep
  /\ fill # <<>>
  /\ nic' = nic \union {Head(fill).frame}
  /\ fill' = Tail(fill)
  /\ unreleased' = unreleased + 1
  /\ UNCHANGED <<pc, rx, rxSeen, num, staged, mem, asleep, arrived, posted,
                 printed>>

\* Release the slots of all fill entries taken: after the descriptors of
\* the packets in them were posted, or before.
KernelRelease ==
  /\ pc \in Running
  /\ unreleased > 0
  /\ unreleased' = 0
  /\ UNCHANGED <<pc, ringVars, nic, rxSeen, num, staged, mem, asleep, arrived,
                 posted, printed>>

\* A packet arrives: it is written behind the headroom of a frame the kernel
\* holds and posted, unless the rx ring is full: then it is dropped and the
\* frame is kept.
KernelReceive ==
  /\ pc \in Running
  /\ arrived < MaxPackets
  /\ arrived' = arrived + 1
  /\ \E f \in nic :
       IF Len(rx) < NumDescs
       THEN /\ nic' = nic \ {f}
            /\ mem' = [mem EXCEPT ![f] = arrived']
            /\ rx' = Append(rx, [frame |-> f, headroom |-> TRUE])
            /\ posted' = Append(posted, arrived')
       ELSE UNCHANGED <<nic, mem, rx, posted>>
  /\ UNCHANGED <<pc, fill, unreleased, rxSeen, num, staged, asleep, printed>>

\* With nothing to take, the driver may stop refilling and ask for a wakeup.
KernelSleep ==
  /\ pc \in Running
  /\ fill = <<>>
  /\ ~asleep
  /\ asleep' = TRUE
  /\ UNCHANGED <<pc, ringVars, kernelVars, rxSeen, num, staged, printed>>

-----------------------------------------------------------------------------
\* The steps the process takes by itself, without an error of the socket.
ProcessStep ==
  \/ CreateUmem \/ Populate \/ CreateSocket
  \/ Poll \/ PollReady
  \/ Peek \/ PeekNothing \/ Reserve \/ ReserveRetry
  \/ Handle \/ Submit \/ Release

Kernel == KernelTake \/ KernelRelease \/ KernelReceive \/ KernelSleep

Next == ProcessStep \/ PollError \/ Kernel

\* The process is scheduled and the kernel releases what it took; no packet
\* need arrive, and poll() need not report an error.
Fairness ==
  /\ WF_vars(ProcessStep)
  /\ WF_vars(KernelRelease)

Spec == Init /\ [][Next]_vars /\ Fairness

-----------------------------------------------------------------------------
(* Properties                                                              *)

\* Type invariant: the state variables have the values main() and receive()
\* and the kernel give them.
TypeOK ==
  /\ pc \in Startup \union Running \union {"exit"}
  /\ fill \in Seq(Addr)
  /\ unreleased \in Nat
  /\ nic \in SUBSET Frames
  /\ rx \in Seq(Addr)
  /\ rxSeen \in Nat
  /\ num \in Nat
  /\ staged \in Seq(Addr)
  /\ mem \in [Frames -> Packets \union {NoPacket}]
  /\ asleep \in BOOLEAN
  /\ arrived \in 0 .. MaxPackets
  /\ posted \in Seq(Packets)
  /\ printed \in Seq(Packets \union {NoPacket})

\* The rx entries whose frames are not on the fill ring again.  Between
\* submit and release the first num entries of the ring are stale.
LiveRx == (IF pc = "release" THEN num + 1 ELSE 1) .. Len(rx)

\* No frame is in two places: on the fill ring, with the kernel, in a live rx
\* entry.
NoFrameTwice ==
  /\ \A i, j \in 1 .. Len(fill) : fill[i].frame = fill[j].frame => i = j
  /\ \A i, j \in LiveRx : rx[i].frame = rx[j].frame => i = j
  /\ \A i \in 1 .. Len(fill) : fill[i].frame \notin nic
  /\ \A i \in LiveRx : rx[i].frame \notin nic
  /\ \A i \in 1 .. Len(fill), j \in LiveRx : fill[i].frame # rx[j].frame

\* No frame that main() put onto the fill ring is in none of the three.
NoFrameLost ==
  pc \in Running =>
    \A f \in 0 .. (NumDescs - 1) :
      \/ \E i \in 1 .. Len(fill) : fill[i].frame = f
      \/ f \in nic
      \/ \E i \in LiveRx : rx[i].frame = f

\* At any time each of the first NumDescs frames has exactly one place.
\* receive() loses no frame and never gives the kernel a frame twice,
\* whatever the sizes of its batches and wherever the kernel is.
FramesOwnedOnce == NoFrameTwice /\ NoFrameLost

\* The slots receive() reserved on the fill ring stay free until it submits
\* them, so a submission never overwrites an entry the kernel still needs.
FillNeverOverflows ==
  Len(fill) + unreleased + (IF pc = "handle" THEN num ELSE 0) <= NumDescs

\* A packet meets a full rx ring only in the moment between submit and
\* release, when frames are with the kernel again whose rx slots are not.
\* (The code submits first; released first, the ring could not be full.)
RxFullOnlyBeforeRelease ==
  nic # {} /\ Len(rx) = NumDescs => pc = "release"

\* The receiver implements Delivery: what it prints is what the kernel
\* posted, in order, each packet once and with the content it was posted
\* with, although frames are reused and batches overlap with arrivals.
Posting == INSTANCE Delivery WITH
  Item <- Packets, sent <- posted, got <- printed

PrintsWhatWasPosted == Posting!Spec

\* Every packet posted on the rx ring is printed some time: no packet stays
\* behind in a cached count, and the busy loop around the reservation ends.
EveryPostedPacketPrinted ==
  \A n \in Packets : Len(posted) >= n ~> Len(printed) >= n

\* The kernel never sleeps forever next to frames it could take.
KernelIsWoken == (asleep /\ fill # <<>>) ~> ~asleep
=============================================================================
