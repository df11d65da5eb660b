-------------------------- MODULE XdpSockRx_proof ---------------------------
(***************************************************************************)
(* Proofs about the AF_XDP receiver, for every size of the umem, the rings *)
(* and the batch.  The invariant is built in three layers, each using the  *)
(* ones before it: where the process is and what it holds (Control), who   *)
(* owns which frame (FramesOwnedOnce) and what the frames and the history  *)
(* contain (Content).  Beside them, the frames that go around are those    *)
(* main() put onto the fill ring, which the rx ring has room for           *)
(* (FirstFrames).                                                          *)
(***************************************************************************)
EXTENDS XdpSockRx, SequenceTheorems, FiniteSetTheorems, TLAPS

-----------------------------------------------------------------------------
(* Layer 1: types, and what the local variables of receive() say.          *)

\* The batch in num lies at the front of the rx ring, followed by the entries
\* seen and left for later; staged is a prefix of the batch; nothing is on
\* the rings before main() has put it there.
Control ==
  /\ pc \notin {"reserve", "handle", "release"} => num = 0
  /\ pc # "handle" => staged = <<>>
  /\ Len(staged) <= num
  /\ rxSeen + num <= Len(rx)
  /\ \A i \in 1 .. Len(staged) : staged[i] = rx[i]
  /\ pc \in Startup => nic = {} /\ rx = <<>> /\ unreleased = 0
  /\ pc \in {"create_umem", "populate"} => fill = <<>>
  /\ pc = "create_socket" =>
       /\ Len(fill) = NumDescs
       /\ \A i \in 1 .. NumDescs : fill[i].frame = i - 1

\* The initial state satisfies the first layer.
LEMMA ControlInit == Init => TypeOK /\ Control /\ FillNeverOverflows
<1> SUFFICES ASSUME Init PROVE TypeOK /\ Control /\ FillNeverOverflows
  OBVIOUS
<1>1. /\ <<>> \in Seq(Addr) /\ <<>> \in Seq(Packets)
      /\ <<>> \in Seq(Packets \union {NoPacket}) /\ Len(<<>>) = 0
  BY EmptySeq
<1>2. TypeOK
  <2>1. mem \in [Frames -> Packets \union {NoPacket}]
    BY DEF Init
  <2>2. asleep \in BOOLEAN
    BY DEF Init
  <2>3. QED
    BY <1>1, <2>1, <2>2, ConstantsAssumption DEF Init, TypeOK, Startup
<1>3. Control
  BY <1>1 DEF Init, Control
<1>4. FillNeverOverflows
  BY <1>1, ConstantsAssumption DEF Init, FillNeverOverflows
<1>5. QED
  BY <1>2, <1>3, <1>4

\* Every step keeps the first layer.
LEMMA ControlStep ==
  TypeOK /\ Control /\ FillNeverOverflows /\ [Next]_vars
    => (TypeOK /\ Control /\ FillNeverOverflows)'
<1> SUFFICES ASSUME TypeOK, Control, FillNeverOverflows, [Next]_vars
             PROVE  (TypeOK /\ Control /\ FillNeverOverflows)'
  OBVIOUS
<1> USE ConstantsAssumption DEF kernelVars, ringVars
<1>0. /\ Len(fill) \in Nat /\ Len(rx) \in Nat /\ Len(staged) \in Nat
      /\ \A i \in 1 .. Len(rx) : rx[i] \in Addr
      /\ \A i \in 1 .. Len(fill) : fill[i] \in Addr
      /\ <<>> \in Seq(Addr) /\ Len(<<>>) = 0
  BY LenProperties, ElementOfSeq, EmptySeq DEF TypeOK
<1>1. CASE CreateUmem
  BY <1>1, <1>0 DEF CreateUmem, TypeOK, Control, FillNeverOverflows, Startup, Running
<1>2. CASE Populate
  <2>1. /\ fill' \in Seq(Addr) /\ Len(fill') = NumDescs
        /\ \A i \in 1 .. NumDescs : fill'[i].frame = i - 1
    BY <1>2 DEF Populate, Addr, Frames
  <2>2. QED
    BY <1>2, <1>0, <2>1 DEF Populate, TypeOK, Control, FillNeverOverflows, Startup, Running
<1>3. CASE CreateSocket
  BY <1>3, <1>0 DEF CreateSocket, TypeOK, Control, FillNeverOverflows, Startup, Running
<1>4. CASE Poll
  BY <1>4, <1>0 DEF Poll, TypeOK, Control, FillNeverOverflows, Startup, Running
<1>5. CASE PollReady \/ PollError
  BY <1>5, <1>0 DEF PollReady, PollError, TypeOK, Control, FillNeverOverflows, Startup, Running
<1>6. CASE Peek
  <2>1. /\ num' \in Nat /\ rxSeen' \in Nat
        /\ rxSeen' + num' <= Len(rx)
    BY <1>6, <1>0 DEF Peek, Available, BatchOf, TypeOK, Control
  <2>2. QED
    BY <1>6, <1>0, <2>1 DEF Peek, TypeOK, Control, FillNeverOverflows, Startup, Running
<1>7. CASE PeekNothing
  BY <1>7, <1>0 DEF PeekNothing, TypeOK, Control, FillNeverOverflows, Startup, Running
<1>8. CASE Reserve
  BY <1>8, <1>0 DEF Reserve, CanReserve, TypeOK, Control, FillNeverOverflows, Startup, Running
<1>9. CASE ReserveRetry
  BY <1>9, <1>0 DEF ReserveRetry, TypeOK, Control, FillNeverOverflows, Startup, Running
<1>10. CASE Handle
  <2>1. rx[Len(staged) + 1] \in Addr
    BY <1>10, <1>0 DEF Handle, Control, TypeOK
  <2>2. mem[rx[Len(staged) + 1].frame] \in Packets \union {NoPacket}
    BY <2>1 DEF TypeOK, Addr
  <2>3. /\ staged' \in Seq(Addr) /\ Len(staged') = Len(staged) + 1
        /\ \A i \in 1 .. Len(staged) : staged'[i] = staged[i]
        /\ staged'[Len(staged) + 1] = rx[Len(staged) + 1]
    BY <1>10, <2>1, AppendProperties DEF Handle, TypeOK
  <2>4. printed' \in Seq(Packets \union {NoPacket})
    BY <1>10, <2>2, AppendProperties DEF Handle, TypeOK
  <2>5. TypeOK'
    BY <1>10, <2>3, <2>4 DEF Handle, TypeOK
  <2>6. Control' /\ FillNeverOverflows'
    BY <1>10, <1>0, <2>3 DEF Handle, Control, FillNeverOverflows, TypeOK, Startup
  <2>7. QED
    BY <2>5, <2>6
<1>11. CASE Submit
  <2>1. fill' \in Seq(Addr) /\ Len(fill') = Len(fill) + Len(staged)
    BY <1>11, ConcatProperties DEF Submit, TypeOK
  <2>2. QED
    BY <1>11, <1>0, <2>1 DEF Submit, TypeOK, Control, FillNeverOverflows, Startup, Running
<1>12. CASE Release
  <2>1. rx' \in Seq(Addr) /\ Len(rx') = Len(rx) - num
    <3>1. num + 1 \in Int /\ Len(rx) \in Int
          /\ \A i \in num + 1 .. Len(rx) : rx[i] \in Addr
      BY <1>0 DEF TypeOK
    <3>2. rx' = SubSeq(rx, num + 1, Len(rx))
      BY <1>12 DEF Release
    <3>3. QED
      BY <3>1, <3>2, <1>0, SubSeqProperties DEF TypeOK, Control
  <2>2. QED
    BY <1>12, <1>0, <2>1 DEF Release, TypeOK, Control, FillNeverOverflows, Startup, Running
<1>13. CASE KernelTake
  <2>1. /\ Head(fill) \in Addr /\ Tail(fill) \in Seq(Addr)
        /\ Len(Tail(fill)) = Len(fill) - 1
    BY <1>13, HeadTailProperties DEF KernelTake, TypeOK
  <2>2. QED
    <3>1. Head(fill).frame \in Frames
      BY <2>1 DEF Addr
    <3>2. TypeOK'
      BY <1>13, <2>1, <3>1, SMTT(30) DEF KernelTake, TypeOK
    <3>3. Control'
      BY <1>13, <1>0, <2>1 DEF KernelTake, TypeOK, Control, Startup, Running
    <3>4. FillNeverOverflows'
      BY <1>13, <1>0, <2>1 DEF KernelTake, TypeOK, FillNeverOverflows
    <3>5. QED
      BY <3>2, <3>3, <3>4
<1>14. CASE KernelRelease
  BY <1>14, <1>0 DEF KernelRelease, TypeOK, Control, FillNeverOverflows, Startup, Running
<1>15. CASE KernelReceive
  <2>1. PICK f \in nic :
          IF Len(rx) < NumDescs
          THEN /\ nic' = nic \ {f}
               /\ mem' = [mem EXCEPT ![f] = arrived']
               /\ rx' = Append(rx, [frame |-> f, headroom |-> TRUE])
               /\ posted' = Append(posted, arrived')
          ELSE UNCHANGED <<nic, mem, rx, posted>>
    BY <1>15 DEF KernelReceive
  <2>2. f \in Frames /\ [frame |-> f, headroom |-> TRUE] \in Addr
    BY <2>1 DEF TypeOK, Addr
  <2>3. arrived' \in Packets /\ arrived' \in 0 .. MaxPackets
    BY <1>15 DEF KernelReceive, TypeOK, Packets
  <2>4. CASE Len(rx) < NumDescs
    <3>1. /\ rx' \in Seq(Addr) /\ Len(rx') = Len(rx) + 1
          /\ \A i \in 1 .. Len(rx) : rx'[i] = rx[i]
      <4>1. rx \in Seq(Addr)
        BY DEF TypeOK
      <4> DEFINE desc == [frame |-> f, headroom |-> TRUE]
      <4>2. rx' = Append(rx, desc) /\ desc \in Addr
        BY <2>1, <2>2, <2>4
      <4> HIDE DEF desc
      <4>3. QED
        BY <4>1, <4>2, AppendProperties
    <3>2. posted' \in Seq(Packets)
      <4>1. posted \in Seq(Packets)
        BY DEF TypeOK
      <4>2. QED
        BY <2>1, <2>3, <2>4, <4>1, AppendProperties
    <3>3. mem' \in [Frames -> Packets \union {NoPacket}] /\ nic' \in SUBSET Frames
      BY <2>1, <2>2, <2>3, <2>4 DEF TypeOK
    <3>4. TypeOK'
      BY <1>15, <2>3, <3>1, <3>2, <3>3 DEF KernelReceive, TypeOK
    <3>5. Control' /\ FillNeverOverflows'
      BY <1>15, <1>0, <3>1
      DEF KernelReceive, TypeOK, Control, FillNeverOverflows, Startup, Running
    <3>6. QED
      BY <3>4, <3>5
  <2>5. CASE ~(Len(rx) < NumDescs)
    BY <1>15, <1>0, <2>1, <2>3, <2>5
    DEF KernelReceive, TypeOK, Control, FillNeverOverflows, Startup, Running
  <2>6. QED
    BY <2>4, <2>5
<1>16. CASE KernelSleep
  BY <1>16, <1>0 DEF KernelSleep, TypeOK, Control, FillNeverOverflows, Startup, Running
<1>17. CASE UNCHANGED vars
  BY <1>17 DEF vars, TypeOK, Control, FillNeverOverflows
<1>18. QED
  BY <1>1, <1>2, <1>3, <1>4, <1>5, <1>6, <1>7, <1>8, <1>9, <1>10, <1>11,
     <1>12, <1>13, <1>14, <1>15, <1>16, <1>17
  DEF Next, ProcessStep, Kernel
-----------------------------------------------------------------------------
(* Layer 2: who owns which frame.                                          *)

\* A step that moves nothing between the rings and the kernel, neither
\* enters nor leaves the moment before release, and does not start the
\* process, keeps every frame where it is.
LEMMA QuietStep ==
  ASSUME FramesOwnedOnce,
         UNCHANGED <<fill, nic, rx>>,
         pc' = "release" <=> pc = "release",
         pc = "release" => num' = num,
         pc' \in Running => pc \in Running
  PROVE  FramesOwnedOnce'
<1>1. LiveRx' = LiveRx
  BY DEF LiveRx
<1>2. NoFrameTwice'
  BY <1>1 DEF FramesOwnedOnce, NoFrameTwice
<1>3. NoFrameLost'
  BY <1>1 DEF FramesOwnedOnce, NoFrameLost
<1>4. QED
  BY <1>2, <1>3 DEF FramesOwnedOnce

\* Populate puts the first NumDescs frames onto the empty fill ring.
LEMMA PopulateOwned ==
  TypeOK /\ Control /\ FramesOwnedOnce /\ Populate => FramesOwnedOnce'
<1> SUFFICES ASSUME TypeOK, Control, FramesOwnedOnce, Populate
             PROVE  FramesOwnedOnce'
  OBVIOUS
<1>1. /\ Len(fill') = NumDescs
      /\ \A i \in 1 .. NumDescs : fill'[i].frame = i - 1
      /\ rx' = <<>> /\ nic' = {} /\ pc' = "create_socket"
  BY ConstantsAssumption DEF Populate, Control, Startup, kernelVars
<1>2. LiveRx' = {}
  BY <1>1 DEF LiveRx
<1>3. NoFrameTwice'
  BY <1>1, <1>2, ConstantsAssumption DEF NoFrameTwice
<1>4. NoFrameLost'
  BY <1>1 DEF NoFrameLost, Running
<1>5. QED
  BY <1>3, <1>4 DEF FramesOwnedOnce

\* When the socket is bound, all those frames are on the fill ring.
LEMMA CreateSocketOwned ==
  TypeOK /\ Control /\ FramesOwnedOnce /\ CreateSocket => FramesOwnedOnce'
<1> SUFFICES ASSUME TypeOK, Control, FramesOwnedOnce, CreateSocket
             PROVE  FramesOwnedOnce'
  OBVIOUS
<1>1. /\ Len(fill) = NumDescs
      /\ \A i \in 1 .. NumDescs : fill[i].frame = i - 1
      /\ UNCHANGED <<fill, nic, rx, num>> /\ pc # "release" /\ pc' # "release"
  BY DEF CreateSocket, Control, ringVars, kernelVars
<1>2. LiveRx' = LiveRx
  BY <1>1 DEF LiveRx
<1>3. NoFrameTwice'
  BY <1>1, <1>2 DEF FramesOwnedOnce, NoFrameTwice
<1>4. \A f \in 0 .. (NumDescs - 1) : \E i \in 1 .. Len(fill') : fill'[i].frame = f
  <2> TAKE f \in 0 .. (NumDescs - 1)
  <2>1. f + 1 \in 1 .. Len(fill') /\ fill'[f + 1].frame = f
    BY <1>1, ConstantsAssumption
  <2>2. QED
    BY <2>1
<1>5. NoFrameLost'
  BY <1>4 DEF NoFrameLost
<1>6. QED
  BY <1>3, <1>5 DEF FramesOwnedOnce

\* Submit moves the frames of the batch from rx entries to the fill ring.
LEMMA SubmitOwned ==
  TypeOK /\ Control /\ FramesOwnedOnce /\ Submit => FramesOwnedOnce'
<1> SUFFICES ASSUME TypeOK, Control, FramesOwnedOnce, Submit
             PROVE  FramesOwnedOnce'
  OBVIOUS
<1> DEFINE m == Len(fill)
<1>1. /\ m \in Nat /\ num \in Nat /\ Len(rx) \in Nat /\ num <= Len(rx)
      /\ Len(staged) = num /\ \A k \in 1 .. num : staged[k] = rx[k]
  BY LenProperties DEF TypeOK, Control, Submit
<1>2. /\ Len(fill') = m + num
      /\ \A i \in 1 .. m + num : fill'[i] = IF i <= m THEN fill[i] ELSE staged[i - m]
  BY <1>1, ConcatProperties DEF Submit, TypeOK
<1>3. /\ \A i \in 1 .. m : i \in 1 .. Len(fill') /\ fill'[i] = fill[i]
      /\ \A k \in 1 .. num : m + k \in 1 .. Len(fill') /\ fill'[m + k] = rx[k]
      /\ \A i \in 1 .. Len(fill') :
            i \in 1 .. m \/ (i - m \in 1 .. num /\ fill'[i] = rx[i - m])
  BY <1>1, <1>2
<1>4. /\ rx' = rx /\ nic' = nic /\ pc = "handle" /\ pc' = "release" /\ num' = num
  BY DEF Submit, kernelVars
<1>5. LiveRx = 1 .. Len(rx) /\ LiveRx' = num + 1 .. Len(rx)
  BY <1>4 DEF LiveRx
<1> HIDE DEF m
<1>6. NoFrameTwice'
  <2>0. /\ \A i, j \in 1 .. m : fill[i].frame = fill[j].frame => i = j
        /\ \A i, j \in 1 .. Len(rx) : rx[i].frame = rx[j].frame => i = j
        /\ \A i \in 1 .. m, j \in 1 .. Len(rx) : fill[i].frame # rx[j].frame
    BY <1>5 DEF FramesOwnedOnce, NoFrameTwice, m
  <2>1. \A i, j \in 1 .. Len(fill') : fill'[i].frame = fill'[j].frame => i = j
    <3> SUFFICES ASSUME NEW i \in 1 .. Len(fill'), NEW j \in 1 .. Len(fill'),
                        fill'[i].frame = fill'[j].frame
                 PROVE  i = j
      OBVIOUS
    <3>1. CASE i \in 1 .. m /\ j \in 1 .. m
      BY <3>1, <2>0, <1>3
    <3>2. CASE i \in 1 .. m /\ j \notin 1 .. m
      <4>1. /\ j - m \in 1 .. num /\ fill'[j] = rx[j - m] /\ fill'[i] = fill[i]
            /\ j - m \in 1 .. Len(rx)
        BY <3>2, <1>1, <1>3, SMTT(30)
      <4>2. QED
        BY <4>1, <3>2, <2>0
    <3>3. CASE i \notin 1 .. m /\ j \in 1 .. m
      <4>1. /\ i - m \in 1 .. num /\ fill'[i] = rx[i - m] /\ fill'[j] = fill[j]
            /\ i - m \in 1 .. Len(rx)
        BY <3>3, <1>1, <1>3
      <4>2. QED
        BY <4>1, <3>3, <2>0
    <3>4. CASE i \notin 1 .. m /\ j \notin 1 .. m
      <4>1. /\ i - m \in 1 .. Len(rx) /\ fill'[i] = rx[i - m]
            /\ j - m \in 1 .. Len(rx) /\ fill'[j] = rx[j - m]
        BY <3>4, <1>1, <1>3
      <4>2. i - m = j - m
        BY <4>1, <2>0
      <4>3. QED
        BY <4>2, <1>1, <1>2
    <3>5. QED
      BY <3>1, <3>2, <3>3, <3>4
  <2>2. \A i \in 1 .. Len(fill'), j \in LiveRx' : fill'[i].frame # rx'[j].frame
    <3> SUFFICES ASSUME NEW i \in 1 .. Len(fill'), NEW j \in num + 1 .. Len(rx)
                 PROVE  fill'[i].frame # rx[j].frame
      BY <1>4, <1>5
    <3>1. j \in 1 .. Len(rx)
      BY <1>1
    <3>2. CASE i \in 1 .. m
      BY <3>1, <3>2, <2>0, <1>3
    <3>3. CASE i \notin 1 .. m
      <4>1. /\ i - m \in 1 .. Len(rx) /\ fill'[i] = rx[i - m]
            /\ i - m <= num
        BY <3>3, <1>1, <1>3
      <4>2. i - m # j
        BY <4>1, <1>1
      <4>3. QED
        BY <4>1, <4>2, <3>1, <2>0
    <3>4. QED
      BY <3>2, <3>3
  <2>3. \A i \in 1 .. Len(fill') : fill'[i].frame \notin nic'
    BY <1>1, <1>3, <1>4, <1>5, SMTT(30) DEF FramesOwnedOnce, NoFrameTwice, m
  <2>4. /\ \A i, j \in LiveRx' : rx'[i].frame = rx'[j].frame => i = j
        /\ \A i \in LiveRx' : rx'[i].frame \notin nic'
    BY <1>1, <1>4, <1>5 DEF FramesOwnedOnce, NoFrameTwice
  <2>5. QED
    BY <2>1, <2>2, <2>3, <2>4 DEF NoFrameTwice
<1>7. NoFrameLost'
  <2> SUFFICES ASSUME NEW f \in 0 .. (NumDescs - 1)
               PROVE  \/ \E i \in 1 .. Len(fill') : fill'[i].frame = f
                      \/ f \in nic'
                      \/ \E i \in LiveRx' : rx'[i].frame = f
    BY DEF NoFrameLost
  <2>1. \/ \E i \in 1 .. m : fill[i].frame = f
        \/ f \in nic
        \/ \E i \in 1 .. Len(rx) : rx[i].frame = f
    BY <1>4, <1>5 DEF FramesOwnedOnce, NoFrameLost, Running, m
  <2>2. CASE \E i \in 1 .. m : fill[i].frame = f
    BY <2>2, <1>3
  <2>3. CASE \E i \in 1 .. Len(rx) : rx[i].frame = f
    <3>1. PICK i \in 1 .. Len(rx) : rx[i].frame = f
      BY <2>3
    <3>2. CASE i \in 1 .. num
      BY <3>1, <3>2, <1>3
    <3>3. CASE i \notin 1 .. num
      <4>1. i \in LiveRx' /\ rx'[i].frame = f
        BY <3>1, <3>3, <1>1, <1>4, <1>5
      <4>2. QED
        BY <4>1
    <3>4. QED
      BY <3>2, <3>3
  <2>4. QED
    BY <2>1, <2>2, <2>3, <1>4
<1>8. QED
  BY <1>6, <1>7 DEF FramesOwnedOnce

\* Release drops the stale entries and keeps the live ones.
LEMMA ReleaseOwned ==
  TypeOK /\ Control /\ FramesOwnedOnce /\ Release => FramesOwnedOnce'
<1> SUFFICES ASSUME TypeOK, Control, FramesOwnedOnce, Release
             PROVE  FramesOwnedOnce'
  OBVIOUS
<1>1. /\ num \in Nat /\ Len(rx) \in Nat /\ num <= Len(rx)
      /\ \A i \in 1 .. Len(rx) : rx[i] \in Addr
  BY LenProperties, ElementOfSeq DEF TypeOK, Control
<1>2. /\ Len(rx') = Len(rx) - num
      /\ \A i \in 1 .. Len(rx) - num : rx'[i] = rx[num + i]
  <2>1. /\ num + 1 \in Int /\ Len(rx) \in Int
        /\ \A i \in num + 1 .. Len(rx) : rx[i] \in Addr
        /\ rx' = SubSeq(rx, num + 1, Len(rx))
    BY <1>1 DEF Release
  <2>2. /\ Len(rx') = IF num + 1 <= Len(rx) THEN Len(rx) - (num + 1) + 1 ELSE 0
        /\ \A i \in 1 .. Len(rx) - (num + 1) + 1 : rx'[i] = rx[num + 1 + i - 1]
    BY <2>1, SubSeqProperties
  <2>3. \A i \in 1 .. Len(rx) - num : num + 1 + i - 1 = num + i
    BY <1>1
  <2>4. /\ Len(rx) - (num + 1) + 1 = Len(rx) - num
        /\ num + 1 <= Len(rx) \/ Len(rx) - num = 0
    BY <1>1
  <2>5. QED
    BY <1>1, <2>2, <2>3, <2>4
<1>3. fill' = fill /\ nic' = nic /\ pc = "release" /\ pc' = "poll"
  BY DEF Release, kernelVars
<1>4. LiveRx = num + 1 .. Len(rx) /\ LiveRx' = 1 .. Len(rx) - num
  BY <1>2, <1>3 DEF LiveRx
<1>5. \A i \in LiveRx' : num + i \in LiveRx /\ rx'[i] = rx[num + i]
  BY <1>1, <1>2, <1>4
<1>6. NoFrameTwice'
  <2>1. \A i, j \in LiveRx' : rx'[i].frame = rx'[j].frame => i = j
    <3> SUFFICES ASSUME NEW i \in LiveRx', NEW j \in LiveRx',
                        rx'[i].frame = rx'[j].frame
                 PROVE  i = j
      OBVIOUS
    <3>1. num + i = num + j
      BY <1>5 DEF FramesOwnedOnce, NoFrameTwice
    <3>2. QED
      BY <3>1, <1>1, <1>4
  <2>2. /\ \A i \in LiveRx' : rx'[i].frame \notin nic'
        /\ \A i \in 1 .. Len(fill'), j \in LiveRx' : fill'[i].frame # rx'[j].frame
    BY <1>3, <1>5 DEF FramesOwnedOnce, NoFrameTwice
  <2>3. QED
    BY <2>1, <2>2, <1>3 DEF FramesOwnedOnce, NoFrameTwice
<1>7. NoFrameLost'
  <2>1. \A i \in LiveRx : i - num \in LiveRx' /\ rx'[i - num] = rx[i]
    BY <1>1, <1>2, <1>4
  <2>2. QED
    BY <1>3, <2>1 DEF FramesOwnedOnce, NoFrameLost, Running
<1>8. QED
  BY <1>6, <1>7 DEF FramesOwnedOnce

\* The kernel moves a frame from the fill ring to itself.
LEMMA KernelTakeOwned ==
  TypeOK /\ Control /\ FramesOwnedOnce /\ KernelTake => FramesOwnedOnce'
<1> SUFFICES ASSUME TypeOK, Control, FramesOwnedOnce, KernelTake
             PROVE  FramesOwnedOnce'
  OBVIOUS
<1>1. /\ Len(fill) \in Nat /\ Len(fill) > 0
      /\ Head(fill) = fill[1] /\ Len(fill') = Len(fill) - 1
      /\ \A i \in 1 .. Len(fill') : fill'[i] = fill[i + 1]
  <2>1. fill \in Seq(Addr) /\ fill # <<>> /\ fill' = Tail(fill)
    BY DEF KernelTake, TypeOK
  <2>2. Len(fill) \in Nat /\ Len(fill) > 0 /\ Head(fill) = fill[1]
    BY <2>1, EmptySeq, LenProperties
  <2>3. QED
    BY <2>1, <2>2, HeadTailProperties
<1>2. /\ nic' = nic \union {fill[1].frame}
      /\ UNCHANGED <<rx, num, pc>> /\ LiveRx' = LiveRx /\ pc \in Running
  BY <1>1 DEF KernelTake, LiveRx
<1>3. \A i \in 1 .. Len(fill') : i + 1 \in 1 .. Len(fill) /\ i + 1 # 1
  BY <1>1
<1>4. NoFrameTwice'
  <2>1. \A i, j \in 1 .. Len(fill') : fill'[i].frame = fill'[j].frame => i = j
    <3> SUFFICES ASSUME NEW i \in 1 .. Len(fill'), NEW j \in 1 .. Len(fill'),
                        fill'[i].frame = fill'[j].frame
                 PROVE  i = j
      OBVIOUS
    <3>1. i + 1 = j + 1
      BY <1>1, <1>3 DEF FramesOwnedOnce, NoFrameTwice
    <3>2. QED
      BY <3>1
  <2>2. \A i \in 1 .. Len(fill') : fill'[i].frame \notin nic'
    BY <1>1, <1>2, <1>3 DEF FramesOwnedOnce, NoFrameTwice
  <2>3. \A i \in LiveRx' : rx'[i].frame \notin nic'
    BY <1>1, <1>2 DEF FramesOwnedOnce, NoFrameTwice
  <2>4. \A i \in 1 .. Len(fill'), j \in LiveRx' : fill'[i].frame # rx'[j].frame
    BY <1>1, <1>2, <1>3 DEF FramesOwnedOnce, NoFrameTwice
  <2>5. QED
    BY <2>1, <2>2, <2>3, <2>4, <1>2 DEF FramesOwnedOnce, NoFrameTwice
<1>5. NoFrameLost'
  <2>1. \A i \in 1 .. Len(fill) :
          i = 1 \/ (i - 1 \in 1 .. Len(fill') /\ fill'[i - 1] = fill[i])
    BY <1>1
  <2>2. QED
    BY <1>2, <2>1 DEF FramesOwnedOnce, NoFrameLost
<1>6. QED
  BY <1>4, <1>5 DEF FramesOwnedOnce

\* A packet that is posted adds one live rx entry at the end: f is its frame.
Post(f) ==
  /\ f \in nic
  /\ nic' = nic \ {f}
  /\ mem' = [mem EXCEPT ![f] = arrived']
  /\ rx' = Append(rx, [frame |-> f, headroom |-> TRUE])
  /\ posted' = Append(posted, arrived')

\* KernelReceive posts a packet or drops it, and changes nothing else.
LEMMA ReceiveCases ==
  KernelReceive =>
    /\ UNCHANGED <<pc, fill, num, staged, printed>>
    /\ pc \in Running /\ arrived' = arrived + 1 /\ arrived < MaxPackets
    /\ (\E f \in nic : Post(f)) \/ UNCHANGED <<nic, mem, rx, posted>>
  BY DEF KernelReceive, Post

\* What Post does to the rx ring.
LEMMA PostFacts ==
  ASSUME TypeOK, NEW f, Post(f)
  PROVE  /\ f \in Frames
         /\ Len(rx) \in Nat
         /\ Len(rx') = Len(rx) + 1
         /\ \A i \in 1 .. Len(rx) : rx'[i] = rx[i]
         /\ rx'[Len(rx) + 1].frame = f
<1> DEFINE desc == [frame |-> f, headroom |-> TRUE]
<1>1. f \in Frames
  BY DEF Post, TypeOK
<1>2. rx \in Seq(Addr) /\ desc \in Addr /\ desc.frame = f /\ rx' = Append(rx, desc)
  BY <1>1 DEF Post, TypeOK, Addr
<1> HIDE DEF desc
<1>3. QED
  BY <1>1, <1>2, AppendProperties, LenProperties

\* The kernel moves a frame from itself to the rx ring.
LEMMA KernelReceiveOwned ==
  TypeOK /\ Control /\ FramesOwnedOnce /\ KernelReceive => FramesOwnedOnce'
<1> SUFFICES ASSUME TypeOK, Control, FramesOwnedOnce, KernelReceive
             PROVE  FramesOwnedOnce'
  OBVIOUS
<1>1. CASE UNCHANGED <<nic, mem, rx, posted>>
  BY <1>1, ReceiveCases, QuietStep
<1>2. CASE \E f \in nic : Post(f)
  <2>1. PICK f \in nic : Post(f)
    BY <1>2
  <2>2. /\ Len(rx) \in Nat /\ Len(rx') = Len(rx) + 1
        /\ \A i \in 1 .. Len(rx) : rx'[i] = rx[i]
        /\ rx'[Len(rx) + 1].frame = f
    BY <2>1, PostFacts
  <2>3. /\ UNCHANGED <<pc, fill, num>> /\ nic' = nic \ {f}
        /\ num \in Nat /\ num <= Len(rx)
    BY <2>1, <2>2, ReceiveCases DEF Post, TypeOK, Control
  <2>4. /\ LiveRx' = LiveRx \union {Len(rx) + 1}
        /\ LiveRx \subseteq 1 .. Len(rx)
    BY <2>2, <2>3 DEF LiveRx
  <2>5. NoFrameTwice'
    <3>1. \A i \in LiveRx : rx'[i] = rx[i] /\ rx[i].frame # f
      BY <2>1, <2>2, <2>4 DEF FramesOwnedOnce, NoFrameTwice
    <3>2. \A i, j \in LiveRx' : rx'[i].frame = rx'[j].frame => i = j
      BY <2>2, <2>4, <3>1 DEF FramesOwnedOnce, NoFrameTwice
    <3>3. \A i \in LiveRx' : rx'[i].frame \notin nic'
      BY <2>2, <2>3, <2>4, <3>1 DEF FramesOwnedOnce, NoFrameTwice
    <3>4. \A i \in 1 .. Len(fill'), j \in LiveRx' : fill'[i].frame # rx'[j].frame
      BY <2>1, <2>2, <2>3, <2>4, <3>1 DEF FramesOwnedOnce, NoFrameTwice
    <3>5. QED
      BY <2>3, <3>2, <3>3, <3>4 DEF FramesOwnedOnce, NoFrameTwice
  <2>6. NoFrameLost'
    <3>1. \A i \in LiveRx : i \in LiveRx' /\ rx'[i] = rx[i]
      BY <2>2, <2>4
    <3>2. Len(rx) + 1 \in LiveRx'
      BY <2>4
    <3>3. QED
      BY <2>2, <2>3, <3>1, <3>2 DEF FramesOwnedOnce, NoFrameLost
  <2>7. QED
    BY <2>5, <2>6 DEF FramesOwnedOnce
<1>3. QED
  BY <1>1, <1>2, ReceiveCases

\* Every step keeps the second layer.
LEMMA OwnedStep ==
  TypeOK /\ Control /\ FramesOwnedOnce /\ [Next]_vars => FramesOwnedOnce'
<1> SUFFICES ASSUME TypeOK, Control, FramesOwnedOnce, [Next]_vars
             PROVE  FramesOwnedOnce'
  OBVIOUS
<1>1. CASE CreateUmem \/ Poll \/ PollReady \/ PollError \/ Peek
           \/ PeekNothing \/ Reserve \/ ReserveRetry \/ Handle
  <2>1. /\ UNCHANGED <<fill, nic, rx>>
        /\ pc # "release" /\ pc' # "release"
        /\ pc' \in Running => pc \in Running
    BY <1>1 DEF CreateUmem, Poll, PollReady, PollError, Peek, PeekNothing,
      Reserve, ReserveRetry, Handle, ringVars, kernelVars, Running
  <2>2. QED
    BY <2>1, QuietStep
<1>2. CASE KernelRelease \/ KernelSleep \/ UNCHANGED vars
  <2>1. UNCHANGED <<fill, nic, rx, pc, num>>
    BY <1>2 DEF KernelRelease, KernelSleep, ringVars, kernelVars, vars
  <2>2. QED
    BY <2>1, QuietStep
<1>3. CASE Populate
  BY <1>3, PopulateOwned
<1>4. CASE CreateSocket
  BY <1>4, CreateSocketOwned
<1>5. CASE Submit
  BY <1>5, SubmitOwned
<1>6. CASE Release
  BY <1>6, ReleaseOwned
<1>7. CASE KernelTake
  BY <1>7, KernelTakeOwned
<1>8. CASE KernelReceive
  BY <1>8, KernelReceiveOwned
<1>9. QED
  BY <1>1, <1>2, <1>3, <1>4, <1>5, <1>6, <1>7, <1>8
  DEF Next, ProcessStep, Kernel

-----------------------------------------------------------------------------
(* Layer 3: what the frames contain.                                       *)

\* The entries of the rx ring this receive() has printed already.
Handled == IF pc = "release" THEN num ELSE Len(staged)

\* The rx entries not printed yet hold the packets posted last, in order: the
\* frame of each still has the content it was posted with.
Content ==
  /\ Len(posted) = Len(printed) + (Len(rx) - Handled)
  /\ \A i \in Handled + 1 .. Len(rx) :
       mem[rx[i].frame] = posted[Len(printed) + (i - Handled)]

\* The types the third layer needs, as plain facts.
LEMMA ContentTypes ==
  ASSUME TypeOK, Control
  PROVE  /\ Handled \in Nat /\ Handled <= Len(rx) /\ Len(rx) \in Nat
         /\ Len(printed) \in Nat /\ Len(posted) \in Nat
         /\ Len(staged) \in Nat /\ num \in Nat
<1>1. /\ Len(rx) \in Nat /\ Len(printed) \in Nat /\ Len(posted) \in Nat
      /\ Len(staged) \in Nat /\ num \in Nat
  BY LenProperties DEF TypeOK
<1>2. QED
  BY <1>1 DEF Handled, Control, TypeOK

\* What is printed next is the oldest packet not printed yet.
LEMMA HandleDelivers ==
  ASSUME TypeOK, Control, Content, Handle
  PROVE  /\ Len(printed) < Len(posted)
         /\ printed' = Append(printed, posted[Len(printed) + 1])
         /\ posted' = posted
<1>1. Handled = Len(staged) /\ Len(staged) + 1 <= Len(rx)
  BY ContentTypes DEF Handle, Handled, Control, TypeOK
<1>2. Len(staged) + 1 \in Handled + 1 .. Len(rx)
  BY <1>1, ContentTypes
<1>3. \A i \in Handled + 1 .. Len(rx) :
        mem[rx[i].frame] = posted[Len(printed) + (i - Handled)]
  BY DEF Content
<1>4. Len(staged) + 1 - Handled = 1
  BY <1>1, ContentTypes
<1>5. printed' = Append(printed, mem[rx[Len(staged) + 1].frame]) /\ posted' = posted
  BY DEF Handle, kernelVars
<1>6. Len(printed) < Len(posted)
  BY <1>1, ContentTypes DEF Content
<1> DEFINE k == Len(staged) + 1
           packet == mem[rx[k].frame]
<1>7. k \in Handled + 1 .. Len(rx) /\ k - Handled = 1
  BY <1>1, ContentTypes
<1>8. printed' = Append(printed, packet)
  BY DEF Handle
<1> HIDE DEF k
<1>9. packet = posted[Len(printed) + (k - Handled)]
  BY <1>3, <1>7
<1> HIDE DEF packet
<1>10. packet = posted[Len(printed) + 1]
  BY <1>7, <1>9
<1>11. QED
  BY <1>5, <1>6, <1>8, <1>10, Zenon

\* Handle keeps the third layer: one entry less is to be printed.
LEMMA HandleContent ==
  TypeOK /\ Control /\ Content /\ Handle => Content'
<1> SUFFICES ASSUME TypeOK, Control, Content, Handle PROVE Content'
  OBVIOUS
<1>1. /\ Len(printed') = Len(printed) + 1 /\ Len(staged') = Len(staged) + 1
      /\ UNCHANGED <<rx, mem, posted, pc>> /\ pc = "handle"
      /\ Len(staged) < num /\ num <= Len(rx)
  <2>1. UNCHANGED <<rx, mem, posted, pc>> /\ pc = "handle" /\ Len(staged) < num
    BY DEF Handle, ringVars, kernelVars
  <2>2. num <= Len(rx)
    BY ContentTypes DEF Control, TypeOK
  <2>3. rx[Len(staged) + 1] \in Addr
    BY <2>1, <2>2, ContentTypes, ElementOfSeq DEF TypeOK
  <2>4. mem[rx[Len(staged) + 1].frame] \in Packets \union {NoPacket}
    BY <2>3 DEF TypeOK, Addr
  <2>5. printed \in Seq(Packets \union {NoPacket}) /\ staged \in Seq(Addr)
    BY DEF TypeOK
  <2>6. Len(printed') = Len(printed) + 1
    BY <2>4, <2>5, AppendProperties DEF Handle
  <2>7. Len(staged') = Len(staged) + 1
    BY <2>3, <2>5, AppendProperties DEF Handle
  <2>8. QED
    BY <2>1, <2>2, <2>6, <2>7
<1>2. Handled = Len(staged) /\ Handled' = Handled + 1
  BY <1>1 DEF Handled
<1>3. \A i \in Handled' + 1 .. Len(rx) :
        /\ i \in Handled + 1 .. Len(rx)
        /\ Len(printed') + (i - Handled') = Len(printed) + (i - Handled)
  BY <1>1, <1>2, ContentTypes
<1>4. Len(posted') = Len(printed') + (Len(rx') - Handled')
  <2>1. Len(posted) = Len(printed) + (Len(rx) - Handled)
    BY DEF Content
  <2>2. QED
    BY <1>1, <1>2, <2>1, ContentTypes
<1>5. \A i \in Handled' + 1 .. Len(rx') :
        mem'[rx'[i].frame] = posted'[Len(printed') + (i - Handled')]
  BY <1>1, <1>3 DEF Content
<1>6. QED
  BY <1>4, <1>5 DEF Content

\* Release drops printed entries only.
LEMMA ReleaseContent ==
  TypeOK /\ Control /\ Content /\ Release => Content'
<1> SUFFICES ASSUME TypeOK, Control, Content, Release PROVE Content'
  OBVIOUS
<1>1. /\ num \in Nat /\ Len(rx) \in Nat /\ num <= Len(rx)
      /\ Len(rx') = Len(rx) - num
      /\ \A i \in 1 .. Len(rx) - num : rx'[i] = rx[num + i]
  <2>1. num \in Nat /\ Len(rx) \in Nat /\ num <= Len(rx)
    BY ContentTypes DEF Control, TypeOK
  <2>2. /\ num + 1 \in Int /\ Len(rx) \in Int
        /\ \A i \in num + 1 .. Len(rx) : rx[i] \in Addr
        /\ rx' = SubSeq(rx, num + 1, Len(rx))
    BY <2>1, ElementOfSeq DEF Release, TypeOK
  <2>3. /\ Len(rx') = IF num + 1 <= Len(rx) THEN Len(rx) - (num + 1) + 1 ELSE 0
        /\ \A i \in 1 .. Len(rx) - (num + 1) + 1 : rx'[i] = rx[num + 1 + i - 1]
    BY <2>2, SubSeqProperties
  <2>4. \A i \in 1 .. Len(rx) - num : num + 1 + i - 1 = num + i
    BY <2>1
  <2>5. /\ Len(rx) - (num + 1) + 1 = Len(rx) - num
        /\ num + 1 <= Len(rx) \/ Len(rx) - num = 0
    BY <2>1
  <2>6. QED
    BY <2>1, <2>3, <2>4, <2>5
<1>2. /\ UNCHANGED <<mem, posted, printed>> /\ staged' = <<>>
      /\ pc = "release" /\ pc' = "poll"
  BY DEF Release, kernelVars, Control
<1>3. Handled = num /\ Handled' = 0
  BY <1>2, EmptySeq DEF Handled
<1>4. \A i \in 1 .. Len(rx') : \E k \in Handled + 1 .. Len(rx) :
        /\ rx'[i] = rx[k]
        /\ Len(printed) + (k - Handled) = Len(printed) + (i - Handled')
  <2> TAKE i \in 1 .. Len(rx')
  <2> DEFINE k == num + i
  <2>1. k \in Handled + 1 .. Len(rx) /\ rx'[i] = rx[k] /\ k - Handled = i - Handled'
    BY <1>1, <1>3, ContentTypes
  <2> HIDE DEF k
  <2>2. QED
    BY <2>1
<1>5. Len(posted') = Len(printed') + (Len(rx') - Handled')
  BY <1>1, <1>2, <1>3, ContentTypes DEF Content
<1>6. \A i \in Handled' + 1 .. Len(rx') :
        mem'[rx'[i].frame] = posted'[Len(printed') + (i - Handled')]
  <2> SUFFICES ASSUME NEW i \in 1 .. Len(rx')
               PROVE  mem[rx'[i].frame] = posted[Len(printed) + (i - Handled')]
    BY <1>2, <1>3
  <2>1. PICK k \in Handled + 1 .. Len(rx) :
          /\ rx'[i] = rx[k]
          /\ Len(printed) + (k - Handled) = Len(printed) + (i - Handled')
    BY <1>4
  <2>2. mem[rx[k].frame] = posted[Len(printed) + (k - Handled)]
    BY <2>1 DEF Content
  <2>3. QED
    BY <2>1, <2>2
<1>7. QED
  BY <1>5, <1>6 DEF Content

\* A packet goes to a frame no entry that is still to be printed uses.
LEMMA ReceiveContent ==
  TypeOK /\ Control /\ FramesOwnedOnce /\ Content /\ KernelReceive => Content'
<1> SUFFICES ASSUME TypeOK, Control, FramesOwnedOnce, Content, KernelReceive
             PROVE  Content'
  OBVIOUS
<1>1. UNCHANGED <<pc, num, staged, printed>> /\ Handled' = Handled
  BY ReceiveCases DEF Handled
<1>2. CASE UNCHANGED <<nic, mem, rx, posted>>
  BY <1>1, <1>2 DEF Content
<1>3. CASE \E f \in nic : Post(f)
  <2>1. PICK f \in nic : Post(f)
    BY <1>3
  <2>2. /\ f \in Frames /\ Len(rx') = Len(rx) + 1
        /\ \A i \in 1 .. Len(rx) : rx'[i] = rx[i]
        /\ rx'[Len(rx) + 1].frame = f
    BY <2>1, PostFacts
  <2>3. arrived' \in Packets
    <3>1. arrived \in 0 .. MaxPackets
      BY DEF TypeOK
    <3>2. QED
      BY <3>1, ReceiveCases, ConstantsAssumption DEF Packets
  <2>4. /\ Len(posted') = Len(posted) + 1
        /\ \A n \in 1 .. Len(posted) : posted'[n] = posted[n]
        /\ posted'[Len(posted) + 1] = arrived'
    <3>1. posted \in Seq(Packets) /\ posted' = Append(posted, arrived')
      BY <2>1 DEF Post, TypeOK
    <3>2. QED
      BY <3>1, <2>3, AppendProperties
  <2>5. mem'[f] = arrived' /\ \A g \in Frames : g # f => mem'[g] = mem[g]
    BY <2>1, <2>2 DEF Post, TypeOK
  <2>6. \A i \in Handled + 1 .. Len(rx) : rx[i].frame \in Frames /\ rx[i].frame # f
    <3>1. \A i \in Handled + 1 .. Len(rx) : i \in LiveRx /\ rx[i] \in Addr
      <4>1. rx \in Seq(Addr) /\ \A i \in 1 .. Len(rx) : rx[i] \in Addr
        BY ElementOfSeq DEF TypeOK
      <4>2. QED
        BY <4>1, ContentTypes DEF LiveRx, Handled
    <3>2. QED
      BY <3>1, <2>1 DEF FramesOwnedOnce, NoFrameTwice, Addr
  <2>7. Len(posted') = Len(printed') + (Len(rx') - Handled')
    BY <1>1, <2>2, <2>4, ContentTypes DEF Content
  <2>8. \A i \in Handled' + 1 .. Len(rx') :
          mem'[rx'[i].frame] = posted'[Len(printed') + (i - Handled')]
    <3> SUFFICES ASSUME NEW i \in Handled + 1 .. Len(rx) + 1
                 PROVE  mem'[rx'[i].frame] = posted'[Len(printed) + (i - Handled)]
      BY <1>1, <2>2
    <3>1. CASE i = Len(rx) + 1
      <4>1. Len(printed) + (i - Handled) = Len(posted) + 1
        BY <3>1, ContentTypes DEF Content
      <4>2. QED
        BY <4>1, <3>1, <2>2, <2>4, <2>5
    <3>2. CASE i # Len(rx) + 1
      <4>1. i \in Handled + 1 .. Len(rx) /\ i \in 1 .. Len(rx)
        BY <3>2, ContentTypes
      <4>2. Len(printed) + (i - Handled) \in 1 .. Len(posted)
        BY <4>1, ContentTypes DEF Content
      <4>3. mem[rx[i].frame] = posted[Len(printed) + (i - Handled)]
        BY <4>1 DEF Content
      <4>4. mem'[rx'[i].frame] = mem[rx[i].frame]
        BY <4>1, <2>2, <2>5, <2>6
      <4>5. QED
        BY <4>2, <4>3, <4>4, <2>4
    <3>3. QED
      BY <3>1, <3>2
  <2>9. QED
    BY <2>7, <2>8 DEF Content
<1>4. QED
  BY <1>2, <1>3, ReceiveCases

\* Every step keeps the third layer.
LEMMA ContentStep ==
  TypeOK /\ Control /\ FramesOwnedOnce /\ Content /\ [Next]_vars => Content'
<1> SUFFICES ASSUME TypeOK, Control, FramesOwnedOnce, Content, [Next]_vars
             PROVE  Content'
  OBVIOUS
<1>1. CASE CreateUmem \/ Populate \/ CreateSocket \/ Poll \/ PollReady \/ PollError
           \/ Peek \/ PeekNothing \/ Reserve \/ ReserveRetry
  <2>1. UNCHANGED <<rx, mem, posted, printed, staged>> /\ pc # "release" /\ pc' # "release"
    BY <1>1 DEF CreateUmem, Populate, CreateSocket, Poll, PollReady, PollError, Peek,
      PeekNothing, Reserve, ReserveRetry, ringVars, kernelVars
  <2>2. QED
    BY <2>1 DEF Content, Handled
<1>2. CASE KernelTake \/ KernelRelease \/ KernelSleep \/ UNCHANGED vars
  <2>1. UNCHANGED <<rx, mem, posted, printed, staged, pc, num>>
    BY <1>2 DEF KernelTake, KernelRelease, KernelSleep, ringVars, kernelVars, vars
  <2>2. QED
    BY <2>1 DEF Content, Handled
<1>3. CASE Submit
  <2>1. /\ UNCHANGED <<rx, mem, posted, printed, num>> /\ Len(staged) = num
        /\ pc = "handle" /\ pc' = "release"
    BY <1>3 DEF Submit, kernelVars
  <2>2. Handled' = Handled
    BY <2>1 DEF Handled
  <2>3. QED
    BY <2>1, <2>2 DEF Content
<1>4. CASE Handle
  BY <1>4, HandleContent
<1>5. CASE Release
  BY <1>5, ReleaseContent
<1>6. CASE KernelReceive
  BY <1>6, ReceiveContent
<1>7. QED
  BY <1>1, <1>2, <1>3, <1>4, <1>5, <1>6 DEF Next, ProcessStep, Kernel

-----------------------------------------------------------------------------
(* The theorems.                                                           *)

\* The inductive invariant.
IInv == TypeOK /\ Control /\ FillNeverOverflows /\ FramesOwnedOnce /\ Content

\* The invariant holds at the start.
LEMMA IInvInit == Init => IInv
<1> SUFFICES ASSUME Init PROVE IInv
  OBVIOUS
<1>1. FramesOwnedOnce
  BY EmptySeq DEF Init, FramesOwnedOnce, NoFrameTwice, NoFrameLost, LiveRx, Running
<1>2. Content
  BY EmptySeq DEF Init, Content, Handled
<1>3. QED
  BY <1>1, <1>2, ControlInit DEF IInv

\* The invariant holds in every state of every behaviour of the receiver.
THEOREM Invariance == Spec => []IInv
<1>1. IInv /\ [Next]_vars => IInv'
  BY ControlStep, OwnedStep, ContentStep DEF IInv
<1>2. QED
  BY <1>1, IInvInit, PTL DEF Spec

\* Type correctness, for every umem, ring and batch size.
THEOREM TypeCorrect == Spec => []TypeOK
<1>1. IInv => TypeOK
  BY DEF IInv
<1>2. QED
  BY <1>1, Invariance, PTL

\* receive() and the kernel together lose no frame and never hold one twice.
THEOREM FramesAreOwnedOnce == Spec => []FramesOwnedOnce
<1>1. IInv => FramesOwnedOnce
  BY DEF IInv
<1>2. QED
  BY <1>1, Invariance, PTL

\* A submission never overwrites a fill entry the kernel has not released.
THEOREM FillIsNeverOverrun == Spec => []FillNeverOverflows
<1>1. IInv => FillNeverOverflows
  BY DEF IInv
<1>2. QED
  BY <1>1, Invariance, PTL

\* A step of the receiver and the kernel is a step of the abstract delivery or
\* leaves it alone: Handle delivers, KernelReceive sends.
LEMMA StepRefines == IInv /\ [Next]_vars => [Posting!Next]_(Posting!vars)
<1> SUFFICES ASSUME IInv, [Next]_vars PROVE [Posting!Next]_(Posting!vars)
  OBVIOUS
<1> USE DEF Posting!Next, Posting!Send, Posting!Deliver, Posting!vars
<1>1. CASE Handle
  BY <1>1, HandleDelivers DEF IInv
<1>2. CASE KernelReceive
  <2>1. CASE UNCHANGED posted
    BY <1>2, <2>1, ReceiveCases
  <2>2. CASE \E f \in nic : Post(f)
    <3>1. arrived \in 0 .. MaxPackets
      BY DEF IInv, TypeOK
    <3>2. arrived' \in Packets
      BY <1>2, <3>1, ReceiveCases, ConstantsAssumption DEF Packets
    <3>3. posted' = Append(posted, arrived') /\ printed' = printed
      BY <1>2, <2>2, ReceiveCases DEF Post
    <3>4. QED
      BY <3>2, <3>3
  <2>3. QED
    BY <1>2, <2>1, <2>2, ReceiveCases
<1>3. CASE UNCHANGED <<posted, printed>>
  BY <1>3
<1>4. ~Handle /\ ~KernelReceive => UNCHANGED <<posted, printed>>
  BY DEF Next, ProcessStep, Kernel, CreateUmem, Populate, CreateSocket, Poll,
    PollReady, PollError, Peek, PeekNothing, Reserve, ReserveRetry, Submit,
    Release, KernelTake, KernelRelease, KernelSleep, ringVars, kernelVars, vars
<1>5. QED
  BY <1>1, <1>2, <1>3, <1>4

\* The receiver implements Delivery: whatever the interleaving of the process
\* and the kernel, it prints the packets that were posted, in order and intact.
THEOREM ReceiverDelivers == Spec => PrintsWhatWasPosted
<1>1. Init => Posting!Init
  BY DEF Init, Posting!Init
<1>2. QED
  BY <1>1, StepRefines, Invariance, PTL DEF Spec, PrintsWhatWasPosted, Posting!Spec

-----------------------------------------------------------------------------
(* A full rx ring.  The frames that go around are the first NumDescs, and  *)
(* an rx ring of that length has room for all of them: with one of them at *)
(* the kernel the ring is full only as long as an entry is stale.          *)

\* Only the frames main() has put onto the fill ring go around.
FirstFrames ==
  /\ \A i \in 1 .. Len(fill) : fill[i].frame < NumDescs
  /\ \A f \in nic : f < NumDescs
  /\ \A i \in 1 .. Len(rx) : rx[i].frame < NumDescs

\* No step brings another frame.
LEMMA FirstFramesStep ==
  TypeOK /\ Control /\ FirstFrames /\ [Next]_vars => FirstFrames'
<1> SUFFICES ASSUME TypeOK, Control, FirstFrames, [Next]_vars PROVE FirstFrames'
  OBVIOUS
<1>0. /\ Len(fill) \in Nat /\ Len(rx) \in Nat /\ num \in Nat /\ NumDescs \in Nat
      /\ fill \in Seq(Addr) /\ rx \in Seq(Addr) /\ staged \in Seq(Addr)
  BY LenProperties, ConstantsAssumption DEF TypeOK
<1>1. CASE UNCHANGED <<fill, nic, rx>>
  BY <1>1 DEF FirstFrames
<1>2. CASE Populate
  <2>1. /\ fill' = [i \in 1 .. NumDescs |-> [frame |-> i - 1, headroom |-> FALSE]]
        /\ UNCHANGED <<rx, nic>>
    BY <1>2 DEF Populate, kernelVars
  <2>2. Len(fill') = NumDescs /\ \A i \in 1 .. NumDescs : fill'[i].frame = i - 1
    BY <1>0, <2>1
  <2>3. QED
    BY <1>0, <2>1, <2>2 DEF FirstFrames
<1>3. CASE Submit
  <2>1. /\ UNCHANGED <<nic, rx>> /\ fill' = fill \o staged
        /\ \A k \in 1 .. Len(staged) : k \in 1 .. Len(rx) /\ staged[k] = rx[k]
    BY <1>0, <1>3, LenProperties DEF Submit, kernelVars, Control, TypeOK
  <2>2. /\ Len(fill') = Len(fill) + Len(staged) /\ Len(staged) \in Nat
        /\ \A i \in 1 .. Len(fill) + Len(staged) :
             fill'[i] = IF i <= Len(fill) THEN fill[i] ELSE staged[i - Len(fill)]
    BY <1>0, <2>1, ConcatProperties, LenProperties
  <2>3. ASSUME NEW i \in 1 .. Len(fill') PROVE fill'[i].frame < NumDescs
    <3>1. CASE i <= Len(fill)
      BY <1>0, <2>2, <2>3, <3>1 DEF FirstFrames
    <3>2. CASE ~(i <= Len(fill))
      <4>1. i - Len(fill) \in 1 .. Len(staged) /\ fill'[i] = staged[i - Len(fill)]
        BY <1>0, <2>2, <2>3, <3>2
      <4>2. QED
        BY <2>1, <4>1 DEF FirstFrames
    <3>3. QED
      BY <3>1, <3>2
  <2>4. QED
    BY <2>1, <2>3 DEF FirstFrames
<1>4. CASE Release
  <2>1. /\ UNCHANGED <<fill, nic>> /\ rx' = SubSeq(rx, num + 1, Len(rx))
        /\ num <= Len(rx)
    BY <1>0, <1>4 DEF Release, kernelVars, Control, TypeOK
  <2>2. \A i \in num + 1 .. Len(rx) : rx[i] \in Addr
    BY <1>0, ElementOfSeq
  <2>3. /\ Len(rx') = IF num + 1 <= Len(rx) THEN Len(rx) - (num + 1) + 1 ELSE 0
        /\ \A i \in 1 .. Len(rx) - (num + 1) + 1 : rx'[i] = rx[num + 1 + i - 1]
    BY <1>0, <2>1, <2>2, SubSeqProperties, SMTT(30)
  <2>4. Len(rx') = Len(rx) - num
    BY <1>0, <2>1, <2>3
  <2>5. ASSUME NEW i \in 1 .. Len(rx') PROVE rx'[i].frame < NumDescs
    <3>1. rx'[i] = rx[num + i] /\ num + i \in 1 .. Len(rx)
      BY <1>0, <2>1, <2>3, <2>4
    <3>2. QED
      BY <3>1 DEF FirstFrames
  <2>6. QED
    BY <2>1, <2>5 DEF FirstFrames
<1>5. CASE KernelTake
  <2>1. fill # <<>> /\ UNCHANGED rx /\ nic' = nic \union {Head(fill).frame}
        /\ fill' = Tail(fill)
    BY <1>5 DEF KernelTake
  <2>2. /\ Head(fill) = fill[1] /\ 1 \in 1 .. Len(fill)
        /\ Len(fill') = Len(fill) - 1
        /\ \A i \in 1 .. Len(fill') : fill'[i] = fill[i + 1] /\ i + 1 \in 1 .. Len(fill)
    BY <1>0, <2>1, HeadTailProperties, EmptySeq
  <2>3. QED
    BY <2>1, <2>2 DEF FirstFrames
<1>6. CASE KernelReceive
  <2>1. UNCHANGED fill
    BY <1>6 DEF KernelReceive
  <2>2. CASE \E f \in nic : Post(f)
    <3>1. PICK f \in nic : Post(f)
      BY <2>2
    <3>2. /\ nic' = nic \ {f} /\ Len(rx') = Len(rx) + 1
          /\ \A i \in 1 .. Len(rx) : rx'[i] = rx[i]
          /\ rx'[Len(rx) + 1].frame = f
      BY <3>1, PostFacts DEF Post
    <3>3. \A i \in 1 .. Len(rx') : i \in 1 .. Len(rx) \/ i = Len(rx) + 1
      BY <1>0, <3>2
    <3>4. QED
      BY <2>1, <3>2, <3>3 DEF FirstFrames
  <2>3. QED
    BY <1>1, <1>6, <2>1, <2>2, ReceiveCases
<1>7. QED
  BY <1>1, <1>2, <1>3, <1>4, <1>5, <1>6
  DEF Next, ProcessStep, Kernel, CreateUmem, CreateSocket, Poll, PollReady, PollError,
    Peek, PeekNothing, Reserve, ReserveRetry, Handle, KernelRelease, KernelSleep,
    ringVars, kernelVars, vars

\* There are too few frames for a full ring of live entries and one more.
LEMMA FullRing ==
  TypeOK /\ FramesOwnedOnce /\ FirstFrames => RxFullOnlyBeforeRelease
<1> SUFFICES ASSUME TypeOK, FramesOwnedOnce, FirstFrames, NEW f \in nic,
                    Len(rx) = NumDescs, pc # "release"
             PROVE  FALSE
  BY DEF RxFullOnlyBeforeRelease
<1> DEFINE S == 1 .. NumDescs
           T == (0 .. NumDescs - 1) \ {f}
           g == [i \in S |-> rx[i].frame]
<1>1. NumDescs \in Nat \ {0}
  BY ConstantsAssumption
<1>2. LiveRx = S
  BY DEF LiveRx
<1>3. \A i \in S : rx[i] \in Addr
  BY ElementOfSeq DEF TypeOK
<1>4. g \in [S -> T]
  <2>1. \A i \in S : rx[i].frame \in Nat /\ rx[i].frame < NumDescs /\ rx[i].frame # f
    BY <1>2, <1>3 DEF FirstFrames, FramesOwnedOnce, NoFrameTwice, Addr, Frames
  <2>2. QED
    BY <1>1, <2>1
<1>5. f \in 0 .. NumDescs - 1
  BY <1>1 DEF FirstFrames, TypeOK, Frames
<1>6. IsFiniteSet(S) /\ Cardinality(S) = NumDescs
  BY <1>1, FS_Interval
<1>7. IsFiniteSet(0 .. NumDescs - 1) /\ Cardinality(0 .. NumDescs - 1) = NumDescs
  BY <1>1, FS_Interval
<1>8. IsFiniteSet(T) /\ Cardinality(T) = NumDescs - 1
  BY <1>5, <1>7, FS_RemoveElement
<1>9. Cardinality(T) < Cardinality(S)
  BY <1>1, <1>6, <1>8
<1> HIDE DEF S, T, g
<1>10. \E i, j \in S : i # j /\ g[i] = g[j]
  BY <1>4, <1>6, <1>8, <1>9, FS_PigeonHole
<1>11. QED
  BY <1>2, <1>10 DEF FramesOwnedOnce, NoFrameTwice, g

\* A packet is dropped for a full rx ring only between submit and release,
\* however large the umem, the rings and the batch are.
THEOREM RxRingHasRoom == Spec => []RxFullOnlyBeforeRelease
<1>1. Init => FirstFrames
  BY EmptySeq DEF Init, FirstFrames
<1>2. IInv /\ FirstFrames /\ [Next]_vars => FirstFrames'
  BY FirstFramesStep DEF IInv
<1>3. IInv /\ FirstFrames => RxFullOnlyBeforeRelease
  BY FullRing DEF IInv
<1>4. QED
  BY <1>1, <1>2, <1>3, Invariance, PTL DEF Spec
=============================================================================
