-------------------------- MODULE XdpSockTx_proof ---------------------------
(***************************************************************************)
(* Safety of the AF_XDP sender, for every batch and ring size.  Before the *)
(* submission nothing is with the kernel; after it the frames on the wire, *)
(* with the kernel and on the ring are the batch, and moving a frame from  *)
(* one to the next does not change their concatenation.                    *)
(***************************************************************************)
EXTENDS XdpSockTx, TLAPS

Batch == [i \in 1 .. BatchSize |-> i - 1]
BatchFrames == {i \in Frames : i < BatchSize}
BeforeSubmit == {"create_umem", "prepare", "create_socket", "poll", "reserve", "put"}

Types ==
  /\ pc \in {"create_umem", "prepare", "create_socket", "poll", "reserve", "put",
             "wakeup", "complete", "exit"}
  /\ status \in {"none", "ok", "error"}
  /\ prepared \subseteq Frames
  /\ staged \in Seq(Frames) /\ tx \in Seq(Frames) /\ flying \in Seq(Frames)
  /\ comp \in Seq(Frames) /\ wire \in Seq(Frames)
  /\ submitted \in BOOLEAN /\ flag \in BOOLEAN /\ awake \in BOOLEAN

Control ==
  /\ pc \in BeforeSubmit => ~submitted
  /\ pc \in {"wakeup", "complete"} => submitted
  /\ pc # "put" => staged = <<>>
  /\ Len(staged) <= BatchSize
  /\ \A i \in 1 .. Len(staged) : staged[i] = i - 1
  /\ ~submitted => wire = <<>> /\ flying = <<>> /\ tx = <<>>
  /\ submitted \/ pc \in {"create_socket", "poll", "reserve", "put"}
       => prepared = BatchFrames

IInv == Types /\ Control /\ BatchIsSubmittedOnce

-----------------------------------------------------------------------------
LEMMA AppendHead ==
  ASSUME NEW S, NEW g \in Seq(S), NEW t \in Seq(S), t # <<>>
  PROVE  /\ Head(t) \in S /\ Tail(t) \in Seq(S)
         /\ Append(g, Head(t)) \o Tail(t) = g \o t
<1>1. Head(t) \in S /\ Tail(t) \in Seq(S) /\ Len(t) > 0  OBVIOUS
<1>2. Len(Append(g, Head(t)) \o Tail(t)) = Len(g \o t)  BY <1>1
<1>3. ASSUME NEW i \in 1 .. Len(g \o t)
      PROVE  (Append(g, Head(t)) \o Tail(t))[i] = (g \o t)[i]
  BY <1>1
<1>4. Append(g, Head(t)) \o Tail(t) \in Seq(S) /\ g \o t \in Seq(S)  BY <1>1
<1> QED BY <1>1, <1>2, <1>3, <1>4

LEMMA ConcatMoveMiddle ==
  ASSUME NEW S, NEW w \in Seq(S), NEW f \in Seq(S), NEW t \in Seq(S), t # <<>>
  PROVE  /\ Head(t) \in S /\ Tail(t) \in Seq(S)
         /\ w \o Append(f, Head(t)) \o Tail(t) = w \o f \o t
<1>1. w \o Append(f, Head(t)) = Append(w \o f, Head(t))  BY AppendHead
<1>2. w \o f \in Seq(S)  OBVIOUS
<1> QED BY <1>1, <1>2, AppendHead, ZenonT(30)

LEMMA ConcatMoveFirst ==
  ASSUME NEW S, NEW w \in Seq(S), NEW f \in Seq(S), NEW t \in Seq(S), f # <<>>
  PROVE  /\ Head(f) \in S /\ Tail(f) \in Seq(S)
         /\ Append(w, Head(f)) \o Tail(f) \o t = w \o f \o t
BY AppendHead

LEMMA IInvInit == Init => IInv
<1> SUFFICES ASSUME Init PROVE IInv  OBVIOUS
<1>1. Types
  <2>1. <<>> \in Seq(Frames)  OBVIOUS
  <2>2. {} \subseteq Frames  OBVIOUS
  <2> QED BY <2>1, <2>2, Zenon DEF Init, Types
<1>2. Control  BY SizesAssumption DEF Init, Control, BeforeSubmit
<1>3. BatchIsSubmittedOnce  BY <1>1 DEF Init, BatchIsSubmittedOnce
<1> QED BY <1>1, <1>2, <1>3 DEF IInv

\* The steps of the process that leave the rings, the kernel and the batch
\* alone.
LEMMA SetupStep ==
  ASSUME IInv, CreateUmem \/ Prepare \/ CreateSocket \/ Poll \/ Reserve
  PROVE  IInv'
<1> USE DEF IInv, Types, Control, BatchIsSubmittedOnce, BeforeSubmit, kernelVars, Return
<1>1. CASE CreateUmem  BY <1>1 DEF CreateUmem
<1>2. CASE Prepare  BY <1>2 DEF Prepare, BatchFrames
<1>3. CASE CreateSocket  BY <1>3 DEF CreateSocket
<1>4. CASE Poll  BY <1>4 DEF Poll
<1>5. CASE Reserve
  <2>1. ~submitted /\ tx = <<>>  BY <1>5 DEF Reserve
  <2>2. pc' = "put"  BY <1>5, <2>1, SizesAssumption DEF Reserve
  <2> QED BY <1>5, <2>1, <2>2 DEF Reserve
<1> QED BY <1>1, <1>2, <1>3, <1>4, <1>5

\* Each descriptor written is the next of the batch.
LEMMA PutStep == ASSUME IInv, Put PROVE IInv'
<1> USE DEF Put, kernelVars
<1>1. Types' /\ Len(staged') = Len(staged) + 1
  BY SizesAssumption DEF IInv, Types, Frames
<1>2. \A i \in 1 .. Len(staged') : staged'[i] = i - 1
  <2>1. staged \in Seq(Frames) /\ Len(staged) \in Nat  BY DEF IInv, Types
  <2>2. \A i \in 1 .. Len(staged) : staged[i] = i - 1  BY DEF IInv, Control
  <2> SUFFICES ASSUME NEW i \in 1 .. Len(staged') PROVE staged'[i] = i - 1  OBVIOUS
  <2>3. CASE i = Len(staged) + 1  BY <2>1, <2>3
  <2>4. CASE i # Len(staged) + 1
    <3>1. i \in 1 .. Len(staged)  BY <1>1, <2>1, <2>4
    <3>2. staged'[i] = staged[i]  BY <2>1, <3>1
    <3> QED BY <2>2, <3>1, <3>2
  <2> QED BY <2>3, <2>4
<1>3. Control'
  BY <1>1, <1>2, SizesAssumption DEF IInv, Types, Control, BeforeSubmit
<1>4. BatchIsSubmittedOnce'  BY DEF IInv, BatchIsSubmittedOnce
<1> QED BY <1>1, <1>3, <1>4 DEF IInv

\* The submission puts the whole batch onto the empty ring.
LEMMA SubmitStep == ASSUME IInv, Submit PROVE IInv'
<1> USE DEF Submit, kernelVars
<1>1. ~submitted /\ wire = <<>> /\ flying = <<>> /\ tx = <<>>
  BY DEF IInv, Control, BeforeSubmit
<1>2. staged \in Seq(Frames) /\ Len(staged) = BatchSize  BY DEF IInv, Types
<1>3. staged = Batch
  BY <1>2 DEF IInv, Control, Batch
<1>4. tx' = Batch /\ tx' \in Seq(Frames)  BY <1>1, <1>2, <1>3
<1>5. Types'  BY <1>4 DEF IInv, Types
<1>6. Control'  BY <1>1, SizesAssumption DEF IInv, Types, Control, BeforeSubmit
<1>7. wire' \o flying' \o tx' = Batch  BY <1>1, <1>4
<1>8. BatchIsSubmittedOnce'  BY <1>7 DEF BatchIsSubmittedOnce, Batch
<1> QED BY <1>5, <1>6, <1>8 DEF IInv

\* complete_send() does not touch what was submitted.
LEMMA CompleteSendStep == ASSUME IInv, Wakeup \/ Complete PROVE IInv'
<1> USE DEF IInv, Types, Control, BatchIsSubmittedOnce, BeforeSubmit, kernelVars
<1>1. CASE Wakeup  BY <1>1 DEF Wakeup
<1>2. CASE Complete
  <2>1. comp' \in Seq(Frames)
    BY <1>2, SizesAssumption DEF Complete
  <2>2. submitted /\ pc' = "exit" /\ status' = "ok"  BY <1>2 DEF Complete, Return
  <2> QED BY <1>2, <2>1, <2>2 DEF Complete
<1> QED BY <1>1, <1>2

\* The kernel moves the first frame of the ring, or of those it holds, on.
LEMMA KernelStep == ASSUME IInv, KernelTake \/ KernelSend PROVE IInv'
<1>1. CASE KernelTake
  <2> USE <1>1 DEF KernelTake
  <2>1. /\ Head(tx) \in Frames /\ Tail(tx) \in Seq(Frames)
        /\ wire \o Append(flying, Head(tx)) \o Tail(tx) = wire \o flying \o tx
    <3>1. /\ wire \in Seq(Frames) /\ flying \in Seq(Frames)
          /\ tx \in Seq(Frames) /\ tx # <<>>
      BY DEF IInv, Types
    <3>2. wire \o Append(flying, Head(tx)) \o Tail(tx) = wire \o flying \o tx
      BY ONLY <3>1, ConcatMoveMiddle, SMTT(30)
    <3> QED BY ONLY <3>1, <3>2, AppendHead
  <2>2. submitted  BY DEF IInv, Types, Control
  <2>3. Types'  BY <2>1 DEF IInv, Types
  <2>4. Control'  BY <2>2 DEF IInv, Control
  <2>5. BatchIsSubmittedOnce'
    BY <2>1 DEF IInv, BatchIsSubmittedOnce
  <2> QED BY <2>3, <2>4, <2>5 DEF IInv
<1>2. CASE KernelSend
  <2> USE <1>2 DEF KernelSend
  <2>1. /\ Head(flying) \in Frames /\ Tail(flying) \in Seq(Frames)
        /\ Append(wire, Head(flying)) \o Tail(flying) \o tx = wire \o flying \o tx
    <3>1. /\ wire \in Seq(Frames) /\ flying \in Seq(Frames)
          /\ tx \in Seq(Frames) /\ flying # <<>>
      BY DEF IInv, Types
    <3> QED BY ONLY <3>1, ConcatMoveFirst
  <2>2. submitted  BY DEF IInv, Types, Control
  <2>3. Types'  BY <2>1 DEF IInv, Types
  <2>4. Control'  BY <2>2 DEF IInv, Control
  <2>5. BatchIsSubmittedOnce'
    BY <2>1 DEF IInv, BatchIsSubmittedOnce
  <2> QED BY <2>3, <2>4, <2>5 DEF IInv
<1> QED BY <1>1, <1>2

\* Before the submission the kernel has nothing; afterwards the rings and the
\* wire hold the batch, of frames that are prepared.
THEOREM Invariance == Spec => []IInv
<1>1. IInv /\ [Next]_vars => IInv'
  <2> SUFFICES ASSUME IInv, [Next]_vars PROVE IInv'  OBVIOUS
  <2>1. CASE Process
    BY <2>1, SetupStep, PutStep, SubmitStep, CompleteSendStep DEF Process
  <2>2. CASE KernelTake \/ KernelSend  BY <2>2, KernelStep
  <2>3. CASE UNCHANGED vars
    BY <2>3 DEF vars, IInv, Types, Control, BatchIsSubmittedOnce
  <2> QED BY <2>1, <2>2, <2>3 DEF Next
<1> QED BY IInvInit, <1>1, PTL DEF Spec

\* The batch is with the kernel once and in order, whatever the kernel does.
THEOREM BatchSubmittedOnce == Spec => []BatchIsSubmittedOnce
<1>1. IInv => BatchIsSubmittedOnce  BY DEF IInv
<1> QED BY Invariance, <1>1, PTL

\* Only frames main() wrote the packet to are given to the kernel.
THEOREM KernelReadsPreparedFrames == Spec => []OnlyPreparedFramesSent
<1>1. IInv => OnlyPreparedFramesSent
  <2> SUFFICES ASSUME IInv, NEW i \in 1 .. Len(wire \o flying \o tx)
               PROVE  (wire \o flying \o tx)[i] \in prepared
    BY DEF OnlyPreparedFramesSent
  <2>1. CASE submitted
    <3>1. wire \o flying \o tx = Batch  BY <2>1 DEF IInv, BatchIsSubmittedOnce, Batch
    <3>2. i \in 1 .. BatchSize
      BY <3>1, SizesAssumption DEF Batch
    <3>3. (wire \o flying \o tx)[i] = i - 1  BY <3>1, <3>2 DEF Batch
    <3>4. i - 1 \in BatchFrames  BY <3>2, SizesAssumption DEF BatchFrames, Frames
    <3> QED BY <2>1, <3>3, <3>4 DEF IInv, Control
  <2>2. CASE ~submitted
    <3>1. wire \o flying \o tx = <<>>  BY <2>2 DEF IInv, BatchIsSubmittedOnce
    <3> QED BY <3>1
  <2> QED BY <2>1, <2>2
<1> QED BY Invariance, <1>1, PTL

\* The process, the rings and the kernel stay well typed.
THEOREM TypeCorrect == Spec => []TypeOK
<1>1. Types => TypeOK  BY DEF Types, TypeOK
<1> QED BY Invariance, <1>1, PTL DEF IInv
=============================================================================
