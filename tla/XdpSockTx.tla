----------------------------- MODULE XdpSockTx ------------------------------
(***************************************************************************)
(* The AF_XDP sender, src/af_xdp/xdp-sock-tx.c: it writes one packet into  *)
(* each of the first BatchSize frames of a umem, puts their descriptors    *)
(* onto the tx ring, wakes the kernel if the kernel asks for it, looks at  *)
(* the completion ring once, and ends.                                     *)
(*                                                                         *)
(* The kernel and libbpf are external, modelled from how the code uses     *)
(* them.  Whether the kernel looks at the tx ring by itself depends on the *)
(* driver: it does, or it wants to be woken and says so, or it copies      *)
(* packets only when called and does not say so.                           *)
(***************************************************************************)
EXTENDS Naturals, Sequences, FiniteSets

CONSTANTS
  NumFrames,    \* frames in the umem, NUM_FRAMES (4096)
  NumDescs,     \* slots of the tx ring and of the completion ring (2048)
  BatchSize     \* packets sent, BATCH_SIZE (1)

ASSUME SizesAssumption ==
  /\ BatchSize \in Nat \ {0}
  /\ NumDescs \in Nat /\ BatchSize <= NumDescs
  /\ NumFrames \in Nat /\ BatchSize <= NumFrames

Frames == 0 .. (NumFrames - 1)

VARIABLES
  pc,           \* where the process is
  status,       \* what main() returned
  prepared,     \* frames that hold the packet
  staged,       \* descriptors written to reserved slots, not submitted
  submitted,    \* the batch is on the tx ring: complete_send() ends the program
  tx,           \* tx ring: frames submitted and not taken by the kernel
  flying,       \* frames the kernel has taken and not sent
  comp,         \* completion ring: frames the process can have back
  wire,         \* history: frames sent, oldest first
  flag,         \* needs_wakeup of the tx ring
  awake         \* the kernel looks at the tx ring

vars == <<pc, status, prepared, staged, submitted, tx, flying, comp, wire, flag, awake>>
kernelVars == <<flying, wire, flag>>

Init ==
  /\ pc = "create_umem" /\ status = "none"
  /\ prepared = {} /\ staged = <<>> /\ submitted = FALSE
  /\ tx = <<>> /\ flying = <<>> /\ comp = <<>> /\ wire = <<>>
  /\ flag = FALSE /\ awake = FALSE

-----------------------------------------------------------------------------
(* The process.                                                            *)

Return(rc) ==
  /\ pc' = "exit"
  /\ status' = rc

\* mmap() and xsk_umem__create(): either may fail and end the program.
CreateUmem ==
  /\ pc = "create_umem"
  /\ \/ pc' = "prepare" /\ UNCHANGED status
     \/ Return("error")
  /\ UNCHANGED <<prepared, staged, submitted, tx, comp, kernelVars, awake>>

\* Mutant of Prepare: the last frame of the batch is left out.
PrepareOneLess ==
  /\ pc = "prepare"
  /\ pc' = "create_socket"
  /\ prepared' = {i \in Frames : i + 1 < BatchSize}
  /\ UNCHANGED <<status, staged, submitted, tx, comp, kernelVars, awake>>

\* The packet is copied into the frames of the batch.
Prepare ==
  /\ pc = "prepare"
  /\ pc' = "create_socket"
  /\ prepared' = {i \in Frames : i < BatchSize}
  /\ UNCHANGED <<status, staged, submitted, tx, comp, kernelVars, awake>>

\* xsk_socket__create() fails, or binds the socket; then the kernel looks at
\* the ring by itself, or not, and in that case asks to be woken, or not.
CreateSocket ==
  /\ pc = "create_socket"
  /\ \/ /\ pc' = "poll"
        /\ \/ awake' = TRUE /\ flag' = FALSE
           \/ awake' = FALSE /\ flag' \in BOOLEAN
        /\ UNCHANGED status
     \/ /\ Return("error")
        /\ UNCHANGED <<flag, awake>>
  /\ UNCHANGED <<prepared, staged, submitted, tx, comp, flying, wire>>

\* poll() waits for room on the tx ring, or fails and ends the program.
Poll ==
  /\ pc = "poll"
  /\ \/ /\ Len(tx) < NumDescs
        /\ pc' = "reserve"
        /\ UNCHANGED status
     \/ Return("error")
  /\ UNCHANGED <<prepared, staged, submitted, tx, comp, kernelVars, awake>>

\* xsk_ring_prod__reserve() gives slots for the whole batch or none; without
\* them complete_send() is called and they are asked for again.
Reserve ==
  /\ pc = "reserve"
  /\ pc' = IF Len(tx) + BatchSize <= NumDescs THEN "put" ELSE "wakeup"
  /\ UNCHANGED <<status, prepared, staged, submitted, tx, comp, kernelVars, awake>>

\* Mutants of Put: the address counts from the end of the umem; it does not
\* follow the loop variable.
PutBehindUmem ==
  /\ pc = "put"
  /\ Len(staged) < BatchSize
  /\ staged' = Append(staged, NumFrames + Len(staged))
  /\ UNCHANGED <<pc, status, prepared, submitted, tx, comp, kernelVars, awake>>

PutFirstFrame ==
  /\ pc = "put"
  /\ Len(staged) < BatchSize
  /\ staged' = Append(staged, 0)
  /\ UNCHANGED <<pc, status, prepared, submitted, tx, comp, kernelVars, awake>>

\* Write the next descriptor: frame i for slot i of the batch.
Put ==
  /\ pc = "put"
  /\ Len(staged) < BatchSize
  /\ staged' = Append(staged, Len(staged))
  /\ UNCHANGED <<pc, status, prepared, submitted, tx, comp, kernelVars, awake>>

\* xsk_ring_prod__submit().
Submit ==
  /\ pc = "put"
  /\ Len(staged) = BatchSize
  /\ tx' = tx \o staged
  /\ staged' = <<>>
  /\ submitted' = TRUE
  /\ pc' = "wakeup"
  /\ UNCHANGED <<status, prepared, comp, kernelVars, awake>>

\* complete_send(): sendto() wakes the kernel when it asks for it; a failure
\* of sendto() is not noticed.
Wakeup ==
  /\ pc = "wakeup"
  /\ awake' \in IF flag THEN {TRUE, awake} ELSE {awake}
  /\ pc' = "complete"
  /\ UNCHANGED <<status, prepared, staged, submitted, tx, comp, kernelVars>>

\* Mutant of Complete: wait until the batch has been completed.
CompleteWaits ==
  /\ pc = "complete"
  /\ Len(comp) >= BatchSize
  /\ comp' = SubSeq(comp, BatchSize + 1, Len(comp))
  /\ IF submitted THEN Return("ok") ELSE pc' = "reserve" /\ UNCHANGED status
  /\ UNCHANGED <<prepared, staged, submitted, tx, kernelVars, awake>>

\* complete_send(): up to a batch of completed frames is released; whether
\* there were any does not matter.
Complete ==
  /\ pc = "complete"
  /\ comp' = IF Len(comp) < BatchSize THEN <<>>
             ELSE SubSeq(comp, BatchSize + 1, Len(comp))
  /\ IF submitted THEN Return("ok") ELSE pc' = "reserve" /\ UNCHANGED status
  /\ UNCHANGED <<prepared, staged, submitted, tx, kernelVars, awake>>

-----------------------------------------------------------------------------
(* The kernel.  External.                                                  *)

\* Take the next descriptor of the tx ring of a socket that is open.
KernelTake ==
  /\ pc # "exit" /\ awake /\ tx # <<>>
  /\ flying' = Append(flying, Head(tx))
  /\ tx' = Tail(tx)
  /\ UNCHANGED <<pc, status, prepared, staged, submitted, comp, wire, flag, awake>>

\* Send the oldest frame taken, and tell so on the completion ring.
KernelSend ==
  /\ flying # <<>>
  /\ wire' = Append(wire, Head(flying))
  /\ comp' = Append(comp, Head(flying))
  /\ flying' = Tail(flying)
  /\ UNCHANGED <<pc, status, prepared, staged, submitted, tx, flag, awake>>

-----------------------------------------------------------------------------
Process ==
  \/ CreateUmem \/ Prepare \/ CreateSocket \/ Poll
  \/ Reserve \/ Put \/ Submit \/ Wakeup \/ Complete

Next == Process \/ KernelTake \/ KernelSend

\* The process runs.  The kernel need not do anything.
Spec == Init /\ [][Next]_vars /\ WF_vars(Process)

-----------------------------------------------------------------------------
(* Properties                                                              *)

\* Type invariant of the process, the rings and the kernel.
TypeOK ==
  /\ pc \in {"create_umem", "prepare", "create_socket", "poll", "reserve", "put",
             "wakeup", "complete", "exit"}
  /\ status \in {"none", "ok", "error"}
  /\ prepared \subseteq Frames
  /\ {staged, tx, flying, comp, wire} \subseteq Seq(Frames)
  /\ submitted \in BOOLEAN /\ flag \in BOOLEAN /\ awake \in BOOLEAN

\* Whatever the kernel does and whenever the program ends, the frames it was
\* given are those of the batch, in order, each once: on the wire, with the
\* kernel or still on the ring.
BatchIsSubmittedOnce ==
  wire \o flying \o tx = IF submitted THEN [i \in 1 .. BatchSize |-> i - 1] ELSE <<>>

\* The kernel never reads a frame main() did not write the packet to.
OnlyPreparedFramesSent ==
  \A i \in 1 .. Len(wire \o flying \o tx) : (wire \o flying \o tx)[i] \in prepared

\* The program ends although the kernel may be idle for ever: neither loop
\* waits for it.
Terminates == <>(pc = "exit")

\* What README.md says the program does, "send packets on xdp socket": when
\* it ends without an error no packet is left on the ring of the socket,
\* which is closed then.
SendsPackets == status = "ok" => tx = <<>>
=============================================================================
