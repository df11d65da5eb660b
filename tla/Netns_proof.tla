---------------------------- MODULE Netns_proof -----------------------------
(***************************************************************************)
(* Proofs about Netns, for any number of runs and any names.               *)
(*                                                                         *)
(* That a name has one namespace is not inductive.  O_EXCL makes a run the *)
(* creator of the file at its path, and it stays that until the file is    *)
(* unlinked; a file with a mount cannot be, so that no mount outlives its  *)
(* file.  Where a link goes needs that a run has a descriptor exactly      *)
(* while it waits to send (Typed).                                         *)
(***************************************************************************)
EXTENDS Netns, TLAPS

\* r has the file at p, or somebody removed it.
Owns(r, p) == file[p] = r \/ r \in unlinked

Files ==
  /\ file = [p \in Paths |-> file[p]] /\ mounts \in [Paths -> Seq(Runs)]
  /\ \A p \in Paths : file[p] = None => mounts[p] = <<>>
Runners ==
  /\ pc = [r \in Runs |-> pc[r]] /\ path = [r \in Runs |-> path[r]]
  /\ \A r \in Runs : pc[r] \in {"unshare", "mount", "unlink"} => path[r] \in Paths
  /\ \A r \in Runs : pc[r] \in {"unshare", "mount"} => Owns(r, path[r])
Mounts ==
  \A p \in Paths : \A i \in 1 .. Len(mounts[p]) :
    pc[mounts[p][i]] = "done" /\ Owns(mounts[p][i], p)

IInv == Files /\ Runners /\ Mounts /\ OneNamespacePerName

LEMMA InitIInv == Init => IInv
<1> SUFFICES ASSUME Init PROVE IInv  OBVIOUS
<1>1. \A p \in Paths : file[p] = None /\ mounts[p] = <<>>  BY DEF Init
<1>2. Files  BY DEF Init, Files
<1>3. Runners  BY DEF Init, Runners
<1>4. Mounts /\ OneNamespacePerName  BY <1>1 DEF Mounts, OneNamespacePerName
<1> QED BY <1>2, <1>3, <1>4 DEF IInv

\* What Pop() leaves of a sequence was in it, at the same place.
LEMMA PopKeeps ==
  ASSUME NEW s \in Seq(Runs)
  PROVE  /\ Pop(s) \in Seq(Runs) /\ Len(Pop(s)) <= Len(s)
         /\ \A i \in 1 .. Len(Pop(s)) : Pop(s)[i] = s[i]
         /\ s = <<>> => Pop(s) = <<>>
BY DEF Pop

\* A run that goes on or ends keeps what is said of the runs.
LEMMA RunnersStep ==
  ASSUME IInv, NEW r \in Runs, NEW p, pc' = [pc EXCEPT ![r] = p], UNCHANGED <<path, file, unlinked>>,
         p \in {"unshare", "mount"} => pc[r] \in {"unshare", "mount"},
         p = "unlink" => path[r] \in Paths
  PROVE  Runners'
<1>1. \A t \in Runs : pc'[t] = IF t = r THEN p ELSE pc[t]  BY DEF IInv, Runners
<1>2. pc' = [t \in Runs |-> pc'[t]]  BY DEF IInv, Runners
<1> QED BY <1>1, <1>2 DEF IInv, Runners, Owns

LEMMA AddOpenStep ==
  ASSUME IInv, NEW r \in Runs, AddOpen(r)
  PROVE  IInv'
<1>0. Files /\ Runners /\ Mounts /\ OneNamespacePerName  BY DEF IInv
<1>1. PICK n \in Names :
        /\ path' = [path EXCEPT ![r] = Path(n)]
        /\ \/ /\ file[Path(n)] = None
              /\ file' = [file EXCEPT ![Path(n)] = r]
              /\ Goes(r, "unshare")
           \/ Exit(r, "error") /\ UNCHANGED file
  BY DEF AddOpen
<1>2. Path(n) \in Paths  BY DEF Paths
<1>3. UNCHANGED <<mounts, unlinked>> /\ pc[r] = "start"  BY DEF AddOpen
<1>4. \A t \in Runs : path'[t] = IF t = r THEN Path(n) ELSE path[t]
  BY <1>0, <1>1 DEF Runners
<1>5. OneNamespacePerName'  BY <1>0, <1>3 DEF OneNamespacePerName
<1>6. path' = [t \in Runs |-> path'[t]] /\ pc' = [t \in Runs |-> pc'[t]]
  BY <1>0, <1>1 DEF Runners, Goes, Exit
<1>7. CASE file[Path(n)] = None /\ file' = [file EXCEPT ![Path(n)] = r] /\ Goes(r, "unshare")
  <2>1. \A p \in Paths : file'[p] = IF p = Path(n) THEN r ELSE file[p]
    BY <1>0, <1>7 DEF Files
  <2>2. \A t \in Runs : pc'[t] = IF t = r THEN "unshare" ELSE pc[t]
    BY <1>0, <1>7 DEF Runners, Goes
  <2>3. mounts[Path(n)] = <<>>  BY <1>0, <1>2, <1>7 DEF Files
  <2>4. None \notin Runs  BY RunsAssumption
  <2>5. Files'
    <3>1. file' = [p \in Paths |-> file'[p]]  BY <1>0, <1>7 DEF Files
    <3> QED BY <1>0, <1>3, <2>1, <2>3, <3>1 DEF Files
  <2>6. \A t \in Runs, p \in Paths : Owns(t, p) => Owns(t, p)'
    BY <1>3, <1>7, <2>1, <2>4 DEF Owns
  <2>7. Owns(r, Path(n))'  BY <1>2, <2>1 DEF Owns
  <2>8. Runners'
    <3>1. \A t \in Runs : pc'[t] \in {"unshare", "mount", "unlink"} => path'[t] \in Paths
      BY <1>0, <1>2, <1>4, <2>2 DEF Runners
    <3>2. ASSUME NEW t \in Runs, pc'[t] \in {"unshare", "mount"}
          PROVE  Owns(t, path[t])' 
      <4>1. CASE t = r  BY <1>4, <2>7, <4>1 DEF Owns
      <4>2. CASE t # r
        <5>1. pc[t] \in {"unshare", "mount"} /\ path'[t] = path[t] /\ path[t] \in Paths
          BY <1>0, <1>4, <2>2, <3>2, <4>2 DEF Runners
        <5> QED BY <1>0, <2>6, <5>1 DEF Runners, Owns
      <4> QED BY <4>1, <4>2
    <3> QED BY <1>6, <3>1, <3>2 DEF Runners
  <2>9. Mounts'
    <3> SUFFICES ASSUME NEW p \in Paths, NEW i \in 1 .. Len(mounts[p])
                 PROVE  pc'[mounts[p][i]] = "done" /\ Owns(mounts[p][i], p)'
      BY <1>3 DEF Mounts, Owns
    <3>1. mounts[p][i] \in Runs  BY <1>0 DEF Files
    <3>2. pc[mounts[p][i]] = "done" /\ Owns(mounts[p][i], p)  BY <1>0 DEF Mounts
    <3>3. pc'[mounts[p][i]] = "done"  BY <1>3, <2>2, <3>1, <3>2
    <3>4. file'[p] = mounts[p][i] \/ mounts[p][i] \in unlinked'
      BY <1>3, <1>7, <2>1, <2>3, <3>2 DEF Owns
    <3> QED BY <1>3, <3>3, <3>4 DEF Owns
  <2> QED BY <1>5, <2>5, <2>8, <2>9 DEF IInv
<1>8. CASE Exit(r, "error") /\ UNCHANGED file
  <2>1. \A t \in Runs : pc'[t] = IF t = r THEN "done" ELSE pc[t]
    BY <1>0, <1>8 DEF Runners, Exit
  <2>2. Files'  BY <1>0, <1>3, <1>8 DEF Files
  <2>3. Runners'  BY <1>0, <1>3, <1>4, <1>6, <1>8, <2>1 DEF Runners, Owns
  <2>4. Mounts'  BY <1>0, <1>3, <1>8, <2>1 DEF Mounts, Owns, Files
  <2> QED BY <1>5, <2>2, <2>3, <2>4 DEF IInv
<1> QED BY <1>1, <1>7, <1>8

\* Steps that change neither files nor mounts nor paths.
LEMMA QuietStep ==
  ASSUME IInv, NEW r \in Runs, NEW p, pc' = [pc EXCEPT ![r] = p],
         UNCHANGED <<file, mounts, path, unlinked>>, pc[r] # "done",
         p \in {"unshare", "mount"} => pc[r] \in {"unshare", "mount"},
         p = "unlink" => path[r] \in Paths
  PROVE  IInv'
<1>0. Files /\ Runners /\ Mounts /\ OneNamespacePerName  BY DEF IInv
<1>1. Runners'  BY RunnersStep
<1>2. \A t \in Runs : pc[t] = "done" => pc'[t] = "done"  BY <1>0 DEF Runners
<1>3. Files' /\ OneNamespacePerName'  BY <1>0 DEF Files, OneNamespacePerName
<1>4. Mounts'  BY <1>0, <1>2 DEF Mounts, Owns, Files
<1> QED BY <1>1, <1>3, <1>4 DEF IInv

LEMMA AddUnshareStep ==
  ASSUME IInv, NEW r \in Runs, AddUnshare(r)
  PROVE  IInv'
BY QuietStep DEF AddUnshare, Goes, Exit

\* mount(): the new mount may be of a run whose file is gone.
LEMMA AddMountStep ==
  ASSUME IInv, NEW r \in Runs, AddMount(r)
  PROVE  IInv'
<1>0. Files /\ Runners /\ Mounts /\ OneNamespacePerName  BY DEF IInv
<1> DEFINE q == path[r]
<1>1. q \in Paths /\ Owns(r, q) /\ pc[r] = "mount"  BY <1>0 DEF AddMount, Runners
<1>2. UNCHANGED <<file, path, unlinked>>  BY DEF AddMount
<1>3. CASE UNCHANGED mounts /\ Exit(r, "error")
  BY <1>1, <1>2, <1>3, QuietStep DEF Exit
<1>4. CASE file[q] # None /\ mounts' = [mounts EXCEPT ![q] = Append(@, r)] /\ Exit(r, "zero")
  <2>1. Runners'  BY <1>1, <1>2, <1>4, RunnersStep DEF Exit
  <2>2. \A t \in Runs : pc'[t] = IF t = r THEN "done" ELSE pc[t]
    BY <1>0, <1>4 DEF Runners, Exit
  <2>3. \A p \in Paths : mounts[p] \in Seq(Runs)  BY <1>0 DEF Files
  <2>4. \A p \in Paths : mounts'[p] = IF p = q THEN Append(mounts[p], r) ELSE mounts[p]
    BY <1>0, <1>4 DEF Files
  <2>5. Files'
    <3>1. Append(mounts[q], r) \in Seq(Runs)  BY <1>1, <2>3
    <3>2. mounts' \in [Paths -> Seq(Runs)]  BY <1>0, <1>4, <3>1 DEF Files
    <3> QED BY <1>0, <1>2, <1>4, <2>4, <3>2 DEF Files
  \* A place in the new stack is an old place or the new one.
  <2>6. ASSUME NEW p \in Paths, NEW i \in 1 .. Len(mounts'[p])
        PROVE  \/ i \in 1 .. Len(mounts[p]) /\ mounts'[p][i] = mounts[p][i]
               \/ p = q /\ i = Len(mounts[p]) + 1 /\ mounts'[p][i] = r
    <3>1. mounts[p] \in Seq(Runs)  BY <2>3
    <3>2. CASE p # q  BY <2>4, <2>6, <3>2
    <3>3. CASE p = q
      <4>1. mounts'[p] = Append(mounts[p], r)  BY <2>4, <3>3
      <4> DEFINE s == mounts[p]
      <4>2. s \in Seq(Runs) /\ i \in 1 .. Len(Append(s, r)) /\ mounts'[p] = Append(s, r)
        BY <2>6, <3>1, <4>1
      <4> HIDE DEF s
      <4>3. \/ i \in 1 .. Len(s) /\ Append(s, r)[i] = s[i]
            \/ i = Len(s) + 1 /\ Append(s, r)[i] = r
        BY <4>2
      <4> QED BY <3>3, <4>2, <4>3 DEF s
    <3> QED BY <3>2, <3>3
  <2>7. ASSUME NEW p \in Paths, NEW i \in 1 .. Len(mounts[p])
        PROVE  mounts[p][i] \in Runs /\ mounts[p][i] # r
    <3>1. pc[mounts[p][i]] = "done" /\ mounts[p][i] \in Runs  BY <1>0 DEF Mounts, Files
    <3> QED BY <1>1, <3>1
  <2>8. Mounts'
    <3> SUFFICES ASSUME NEW p \in Paths, NEW i \in 1 .. Len(mounts'[p])
                 PROVE  pc'[mounts'[p][i]] = "done" /\ Owns(mounts[p][i], p)'
      BY DEF Mounts, Owns
    <3>1. CASE i \in 1 .. Len(mounts[p]) /\ mounts'[p][i] = mounts[p][i]
      <4>1. pc[mounts[p][i]] = "done" /\ Owns(mounts[p][i], p)  BY <1>0, <3>1 DEF Mounts
      <4> QED BY <1>2, <2>2, <2>7, <3>1, <4>1 DEF Owns
    <3>2. CASE p = q /\ mounts'[p][i] = r
      BY <1>1, <1>2, <2>2, <3>2 DEF Owns
    <3> QED BY <2>6, <3>1, <3>2
  <2>9. OneNamespacePerName'
    <3> SUFFICES ASSUME NEW p \in Paths, NEW i \in 1 .. Len(mounts'[p]),
                        NEW j \in 1 .. Len(mounts'[p]), i # j,
                        mounts'[p][i] \notin unlinked, mounts'[p][j] \notin unlinked
                 PROVE  FALSE
      BY <1>2 DEF OneNamespacePerName
    <3>1. file[p] = mounts'[p][i] /\ file[p] = mounts'[p][j]
      <4>1. Owns(mounts[p][i], p)' /\ Owns(mounts[p][j], p)'  BY <2>8 DEF Mounts
      <4> QED BY <1>2, <4>1 DEF Owns
    <3>2. CASE i \in 1 .. Len(mounts[p]) /\ j \in 1 .. Len(mounts[p])
      <4>1. mounts'[p][i] = mounts[p][i] /\ mounts'[p][j] = mounts[p][j]
        BY <2>3, <2>6, <3>2
      <4> QED BY <1>0, <3>2, <4>1 DEF OneNamespacePerName
    <3>3. CASE i = Len(mounts[p]) + 1 /\ j \in 1 .. Len(mounts[p])
      <4>1. mounts'[p][i] = r /\ mounts'[p][j] = mounts[p][j]  BY <2>3, <2>6, <3>3
      <4> QED BY <2>7, <3>1, <3>3, <4>1
    <3>4. CASE j = Len(mounts[p]) + 1 /\ i \in 1 .. Len(mounts[p])
      <4>1. mounts'[p][j] = r /\ mounts'[p][i] = mounts[p][i]  BY <2>3, <2>6, <3>4
      <4> QED BY <2>7, <3>1, <3>4, <4>1
    <3> QED BY <2>6, <3>2, <3>3, <3>4
  <2> QED BY <2>1, <2>5, <2>8, <2>9 DEF IInv
<1> QED BY <1>3, <1>4 DEF AddMount

LEMMA DelUmountStep ==
  ASSUME IInv, NEW r \in Runs, DelUmount(r)
  PROVE  IInv'
<1>0. Files /\ Runners /\ Mounts /\ OneNamespacePerName  BY DEF IInv
<1>1. PICK n \in Names :
        /\ path' = [path EXCEPT ![r] = Path(n)]
        /\ mounts' = [mounts EXCEPT ![Path(n)] = Pop(@)] \/ UNCHANGED mounts
  BY DEF DelUmount
<1>2. Path(n) \in Paths /\ UNCHANGED <<file, unlinked>> /\ pc[r] = "start" /\ Goes(r, "unlink")
  BY DEF DelUmount, Paths
<1>3. \A t \in Runs : /\ path'[t] = IF t = r THEN Path(n) ELSE path[t]
                      /\ pc'[t] = IF t = r THEN "unlink" ELSE pc[t]
  BY <1>0, <1>1, <1>2 DEF Runners, Goes
<1>4. path' = [t \in Runs |-> path'[t]] /\ pc' = [t \in Runs |-> pc'[t]]
  BY <1>0, <1>1, <1>2 DEF Runners, Goes
<1>5. Runners'  BY <1>0, <1>2, <1>3, <1>4 DEF Runners, Owns
<1>6. \A p \in Paths : mounts'[p] = mounts[p] \/ mounts'[p] = Pop(mounts[p])
  BY <1>0, <1>1 DEF Files
<1>7. ASSUME NEW p \in Paths
      PROVE  /\ mounts'[p] \in Seq(Runs) /\ Len(mounts'[p]) <= Len(mounts[p])
             /\ \A i \in 1 .. Len(mounts'[p]) : mounts'[p][i] = mounts[p][i]
             /\ mounts[p] = <<>> => mounts'[p] = <<>>
  <2>1. mounts[p] \in Seq(Runs)  BY <1>0 DEF Files
  <2>2. CASE mounts'[p] = mounts[p]  BY <2>1, <2>2
  <2>3. CASE mounts'[p] = Pop(mounts[p])  BY <2>1, <2>3, PopKeeps
  <2> QED BY <1>6, <2>2, <2>3
<1>8. Files'
  <2>1. mounts' = [p \in Paths |-> mounts'[p]]  BY <1>0, <1>1 DEF Files
  <2>2. mounts' \in [Paths -> Seq(Runs)]  BY <1>7, <2>1
  <2> QED BY <1>0, <1>2, <1>7, <2>2 DEF Files
\* The places that are left are among those there were.
<1>9. \A p \in Paths : \A i \in 1 .. Len(mounts'[p]) :
        i \in 1 .. Len(mounts[p]) /\ mounts'[p][i] = mounts[p][i] /\ mounts[p][i] \in Runs
  <2> SUFFICES ASSUME NEW p \in Paths, NEW i \in 1 .. Len(mounts'[p])
               PROVE  i \in 1 .. Len(mounts[p]) /\ mounts'[p][i] = mounts[p][i]
                      /\ mounts[p][i] \in Runs
    OBVIOUS
  <2>1. mounts[p] \in Seq(Runs)  BY <1>0 DEF Files
  <2>2. i \in 1 .. Len(mounts[p])  BY <1>7, <2>1
  <2> QED BY <1>7, <2>1, <2>2
<1>10. Mounts'
  <2> SUFFICES ASSUME NEW p \in Paths, NEW i \in 1 .. Len(mounts'[p])
               PROVE  pc'[mounts'[p][i]] = "done" /\ Owns(mounts[p][i], p)'
    BY DEF Mounts, Owns
  <2>1. pc[mounts[p][i]] = "done" /\ Owns(mounts[p][i], p)  BY <1>0, <1>9 DEF Mounts
  <2> QED BY <1>2, <1>3, <1>9, <2>1 DEF Owns
<1>11. OneNamespacePerName'  BY <1>0, <1>2, <1>9 DEF OneNamespacePerName
<1> QED BY <1>5, <1>8, <1>10, <1>11 DEF IInv

\* unlink(): who loses the file is noted.
LEMMA DelUnlinkStep ==
  ASSUME IInv, NEW r \in Runs, DelUnlink(r)
  PROVE  IInv'
<1>0. Files /\ Runners /\ Mounts /\ OneNamespacePerName  BY DEF IInv
<1> DEFINE q == path[r]
<1>1. q \in Paths /\ pc[r] = "unlink"  BY <1>0 DEF DelUnlink, Runners
<1>2. UNCHANGED <<mounts, path>>  BY DEF DelUnlink
<1>3. CASE Exit(r, "error") /\ UNCHANGED <<file, unlinked>>
  BY <1>1, <1>2, <1>3, QuietStep DEF Exit
<1>4. CASE /\ mounts[q] = <<>> /\ file' = [file EXCEPT ![q] = None]
           /\ unlinked' = unlinked \cup {file[q]} /\ Exit(r, "zero")
  <2>1. \A p \in Paths : file'[p] = IF p = q THEN None ELSE file[p]  BY <1>0, <1>4 DEF Files
  <2>2. \A t \in Runs : pc'[t] = IF t = r THEN "done" ELSE pc[t]
    BY <1>0, <1>4 DEF Runners, Exit
  <2>3. \A t \in Runs, p \in Paths : Owns(t, p) => file'[p] = t \/ t \in unlinked'
    BY <1>4, <2>1 DEF Owns
  <2>4. Files'
    <3>1. file' = [p \in Paths |-> file'[p]]  BY <1>0, <1>4 DEF Files
    <3> QED BY <1>0, <1>2, <1>4, <2>1, <3>1 DEF Files
  <2>5. Runners'
    <3>1. pc' = [t \in Runs |-> pc'[t]]  BY <1>0, <1>4 DEF Runners, Exit
    <3>2. \A t \in Runs : pc'[t] \in {"unshare", "mount"} => Owns(t, path[t])'
      BY <1>0, <1>2, <2>2, <2>3 DEF Runners, Owns
    <3> QED BY <1>0, <1>2, <2>2, <3>1, <3>2 DEF Runners
  <2>6. Mounts'
    <3> SUFFICES ASSUME NEW p \in Paths, NEW i \in 1 .. Len(mounts[p])
                 PROVE  pc'[mounts[p][i]] = "done" /\ Owns(mounts[p][i], p)'
      BY <1>2 DEF Mounts, Owns
    <3>1. mounts[p][i] \in Runs  BY <1>0 DEF Files
    <3>2. pc[mounts[p][i]] = "done" /\ Owns(mounts[p][i], p)  BY <1>0 DEF Mounts
    <3> QED BY <1>2, <2>2, <2>3, <3>1, <3>2 DEF Owns
  <2>7. OneNamespacePerName'  BY <1>0, <1>2, <1>4 DEF OneNamespacePerName
  <2> QED BY <2>4, <2>5, <2>6, <2>7 DEF IInv
<1> QED BY <1>3, <1>4 DEF DelUnlink

LEMMA SetNetnsStep ==
  ASSUME IInv, NEW r \in Runs, SetNetns(r)
  PROVE  IInv'
<1>0. Files /\ Runners /\ Mounts /\ OneNamespacePerName  BY DEF IInv
<1>1. CASE SetNetnsOpen(r)
  <2>1. PICK p \in Paths : /\ path' = [path EXCEPT ![r] = p]
                           /\ Goes(r, "send") \/ Exit(r, "error")
    BY <1>1 DEF SetNetnsOpen
  <2>2. UNCHANGED <<file, mounts, unlinked>> /\ pc[r] = "start"  BY <1>1 DEF SetNetnsOpen
  <2>3. \A t \in Runs : t # r => path'[t] = path[t] /\ pc'[t] = pc[t]
    BY <1>0, <2>1 DEF Runners, Goes, Exit
  <2>4. pc'[r] \in {"send", "done"}  BY <1>0, <2>1 DEF Runners, Goes, Exit
  <2>5. path' = [t \in Runs |-> path'[t]] /\ pc' = [t \in Runs |-> pc'[t]]
    BY <1>0, <2>1 DEF Runners, Goes, Exit
  <2>6. Runners'
    <3>1. \A t \in Runs : pc'[t] \in {"unshare", "mount", "unlink"} => t # r
      BY <2>4
    <3> QED BY <1>0, <2>2, <2>3, <2>5, <3>1 DEF Runners, Owns
  <2>7. Files' /\ OneNamespacePerName'  BY <1>0, <2>2 DEF Files, OneNamespacePerName
  <2>8. Mounts'  BY <1>0, <2>2, <2>3 DEF Mounts, Owns, Files
  <2> QED BY <2>6, <2>7, <2>8 DEF IInv
<1>2. CASE SetNetnsSend(r)
  BY <1>2, QuietStep DEF SetNetnsSend, Exit
<1> QED BY <1>1, <1>2 DEF SetNetns

\* The invariant holds in every state.
LEMMA Invariance == Spec => []IInv
<1>1. Init => IInv  BY InitIInv
<1>2. IInv /\ [Next]_vars => IInv'
  <2> SUFFICES ASSUME IInv, [Next]_vars PROVE IInv'  OBVIOUS
  <2>1. ASSUME NEW r \in Runs, Add(r) \/ Del(r) \/ SetNetns(r) PROVE IInv'
    BY <2>1, AddOpenStep, AddUnshareStep, AddMountStep, DelUmountStep, DelUnlinkStep,
       SetNetnsStep DEF Add, Del
  <2>2. CASE UNCHANGED vars
    BY <2>2 DEF vars, progVars, IInv, Files, Runners, Mounts, Owns, OneNamespacePerName
  <2> QED BY <2>1, <2>2 DEF Next
<1> QED BY <1>1, <1>2, PTL DEF Spec

\* A name has two namespaces only when a del-netns removed the file of one
\* of them while its add-netns was between open() and mount().
THEOREM OneNamespace == Spec => []OneNamespacePerName
<1>1. IInv => OneNamespacePerName  BY DEF IInv
<1> QED BY <1>1, Invariance, PTL

-----------------------------------------------------------------------------
(* A file without a namespace has a cause.                                 *)

\* The creator of a file works on its path, or has ended.
Creators ==
  \A p \in Paths : file[p] # None =>
    file[p] \in Runs /\ path[file[p]] = p /\ pc[file[p]] \in {"unshare", "mount", "done"}
Ended ==
  /\ status = [r \in Runs |-> status[r]] /\ left = [r \in Runs |-> left[r]]
  /\ \A r \in Runs : status[r] # None => pc[r] = "done"

BInv == IInv /\ Creators /\ Ended /\ BareFileHasCause

\* What a step of r leaves alone, and what makes that enough.
LEMMA BareStep ==
  ASSUME BInv, IInv', NEW r \in Runs, pc[r] # "done", pc' = [pc EXCEPT ![r] = pc'[r]],
         \/ UNCHANGED status
         \/ pc'[r] = "done" /\ status' = [status EXCEPT ![r] = status'[r]],
         UNCHANGED left \/ left' = [left EXCEPT ![r] = left'[r]],
         \A t \in Runs : t # r => path'[t] = path[t],
         \* files are the old ones, but for one that r creates
         \A p \in Paths : file'[p] # None =>
           \/ file'[p] = file[p] /\ (pc[r] = "start" \/ path'[r] = path[r])
           \/ file'[p] = r /\ path'[r] = p /\ pc'[r] = "unshare",
         \* and do not lose their creator
         pc[r] = "unshare" => pc'[r] \in {"mount", "done"},
         pc[r] = "mount" => pc'[r] = "done",
         \* a file is bare for a reason
         \A p \in Paths : file'[p] # None /\ mounts'[p] = <<>> /\ file'[p] = file[p] =>
           \/ pc'[r] = "unlink" /\ path'[r] = p
           \/ left'[r] = file[p] /\ status'[r] = "error"
           \/ /\ mounts[p] = <<>>
              /\ pc[r] = "unlink" => path[r] # p
              /\ pc[r] = "unshare" => pc'[r] = "mount" \/ status'[r] = "error"
              /\ pc[r] = "mount" => path[r] # p \/ status'[r] = "error"
  PROVE  BInv'
<1>0. IInv /\ Creators /\ Ended /\ BareFileHasCause /\ Runners  BY DEF BInv, IInv
<1>1. \A t \in Runs : t # r => pc'[t] = pc[t] /\ status'[t] = status[t] /\ left'[t] = left[t]
  BY <1>0 DEF Ended, Runners
<1>2. Creators'
  <2> SUFFICES ASSUME NEW p \in Paths, file'[p] # None
               PROVE  /\ file'[p] \in Runs /\ path'[file'[p]] = p
                      /\ pc'[file'[p]] \in {"unshare", "mount", "done"}
    BY DEF Creators
  <2>1. CASE file'[p] = r /\ path'[r] = p /\ pc'[r] = "unshare"  BY <2>1
  <2>2. CASE file'[p] = file[p] /\ (pc[r] = "start" \/ path'[r] = path[r])
    <3>1. /\ file[p] \in Runs /\ path[file[p]] = p
          /\ pc[file[p]] \in {"unshare", "mount", "done"}
      BY <1>0, <2>2 DEF Creators
    <3>2. CASE file[p] # r  BY <1>1, <2>2, <3>1, <3>2
    <3>3. CASE file[p] = r  BY <2>2, <3>1, <3>3
    <3> QED BY <3>2, <3>3
  <2> QED BY <2>1, <2>2
<1>3. Ended'
  <2>1. status[r] = None  BY <1>0 DEF Ended
  <2>2. status' = [t \in Runs |-> status'[t]] /\ left' = [t \in Runs |-> left'[t]]  BY <1>0 DEF Ended
  <2>3. status'[r] # None => pc'[r] = "done"  BY <2>1
  <2> QED BY <1>0, <1>1, <2>2, <2>3 DEF Ended
<1>4. BareFileHasCause'
  <2> SUFFICES ASSUME NEW p \in Paths, file'[p] # None, mounts'[p] = <<>>
               PROVE  \/ pc'[file'[p]] \in {"unshare", "mount"} \/ status'[file'[p]] = "error"
                      \/ \E d \in Runs : pc'[d] = "unlink" /\ path'[d] = p
                      \/ \E d \in Runs : left'[d] = file'[p] /\ status'[d] = "error"
    BY DEF BareFileHasCause
  <2>1. CASE file'[p] = r /\ pc'[r] = "unshare"  BY <2>1
  <2>2. CASE pc'[r] = "unlink" /\ path'[r] = p  BY <2>2
  <2>3. CASE file'[p] = file[p] /\ left'[r] = file[p] /\ status'[r] = "error"  BY <2>3
  <2>4. CASE /\ file'[p] = file[p] /\ mounts[p] = <<>>
             /\ pc[r] = "unlink" => path[r] # p
             /\ pc[r] = "unshare" => pc'[r] = "mount" \/ status'[r] = "error"
             /\ pc[r] = "mount" => path[r] # p \/ status'[r] = "error"
    <3>1. /\ file[p] \in Runs /\ path[file[p]] = p
          /\ pc[file[p]] \in {"unshare", "mount", "done"}
      BY <1>0, <2>4 DEF Creators
    <3>2. CASE \E d \in Runs : pc[d] = "unlink" /\ path[d] = p
      <4>1. PICK d \in Runs : pc[d] = "unlink" /\ path[d] = p  BY <3>2
      <4>2. d # r  BY <2>4, <4>1
      <4> QED BY <1>1, <4>1, <4>2
    <3>3. CASE pc[file[p]] \in {"unshare", "mount"}
      <4>1. CASE file[p] = r  BY <2>4, <3>1, <3>3, <4>1
      <4>2. CASE file[p] # r  BY <1>1, <2>4, <3>1, <3>3, <4>2
      <4> QED BY <4>1, <4>2
    <3>4. CASE status[file[p]] = "error"
      <4>1. file[p] # r  BY <1>0, <3>1, <3>4 DEF Ended, None
      <4> QED BY <1>1, <2>4, <3>1, <3>4, <4>1
    <3>5. CASE \E d \in Runs : left[d] = file[p] /\ status[d] = "error"
      <4>1. PICK d \in Runs : left[d] = file[p] /\ status[d] = "error"  BY <3>5
      <4>2. d # r  BY <1>0, <4>1 DEF Ended, None
      <4> QED BY <1>1, <2>4, <4>1, <4>2
    <3> QED BY <1>0, <2>4, <3>2, <3>3, <3>4, <3>5 DEF BareFileHasCause
  <2> QED BY <2>1, <2>2, <2>3, <2>4
<1> QED BY <1>2, <1>3, <1>4 DEF BInv

LEMMA BareAdd ==
  ASSUME BInv, IInv', NEW r \in Runs, Add(r)
  PROVE  BInv'
<1>0. IInv /\ Files /\ Runners /\ Ended /\ Files'  BY DEF BInv, IInv
<1>1. CASE AddOpen(r)
  <2>1. PICK n \in Names :
          /\ path' = [path EXCEPT ![r] = Path(n)]
          /\ \/ /\ file[Path(n)] = None
                /\ file' = [file EXCEPT ![Path(n)] = r]
                /\ Goes(r, "unshare")
             \/ Exit(r, "error") /\ UNCHANGED file
    BY <1>1 DEF AddOpen
  <2>2. Path(n) \in Paths /\ UNCHANGED <<mounts, left>> /\ pc[r] = "start"
    BY <1>1 DEF AddOpen, Paths
  <2>3. \A t \in Runs : path'[t] = IF t = r THEN Path(n) ELSE path[t]
    BY <1>0, <2>1 DEF Runners
  <2>4. CASE /\ file[Path(n)] = None /\ file' = [file EXCEPT ![Path(n)] = r]
             /\ Goes(r, "unshare")
    <3>1. \A p \in Paths : file'[p] = IF p = Path(n) THEN r ELSE file[p]
      BY <1>0, <2>4 DEF Files
    <3>2. pc' = [pc EXCEPT ![r] = "unshare"] /\ pc'[r] = "unshare" /\ UNCHANGED status
      BY <1>0, <2>4 DEF Goes, Runners
    <3>3. \A p \in Paths : file'[p] # None =>
            \/ file'[p] = file[p] /\ (pc[r] = "start" \/ path'[r] = path[r])
            \/ file'[p] = r /\ path'[r] = p /\ pc'[r] = "unshare"
      BY <2>2, <2>3, <3>1, <3>2
    <3>4. \A p \in Paths : file'[p] # None /\ mounts'[p] = <<>> /\ file'[p] = file[p] =>
            mounts[p] = <<>>
      BY <2>2
    <3> QED BY <2>2, <2>3, <3>2, <3>3, <3>4, BareStep
  <2>5. CASE Exit(r, "error") /\ UNCHANGED file
    <3>1. pc' = [pc EXCEPT ![r] = "done"] /\ pc'[r] = "done"
      BY <1>0, <2>5 DEF Exit, Runners
    <3>2. status' = [status EXCEPT ![r] = "error"] /\ status'[r] = "error"
      BY <1>0, <2>5 DEF Exit, Ended
    <3> QED BY <2>2, <2>3, <2>5, <3>1, <3>2, BareStep
  <2> QED BY <2>1, <2>4, <2>5
<1>2. CASE AddUnshare(r)
  <2>1. UNCHANGED <<file, mounts, path, left>> /\ pc[r] = "unshare"  BY <1>2 DEF AddUnshare
  <2>2. \/ pc' = [pc EXCEPT ![r] = "mount"] /\ pc'[r] = "mount" /\ UNCHANGED status
        \/ /\ pc' = [pc EXCEPT ![r] = "done"] /\ pc'[r] = "done"
           /\ status' = [status EXCEPT ![r] = "error"] /\ status'[r] = "error"
    BY <1>0, <1>2 DEF AddUnshare, Goes, Exit, Runners, Ended
  <2> QED BY <2>1, <2>2, BareStep
<1>3. CASE AddMount(r)
  <2>1. UNCHANGED <<file, path, left>> /\ pc[r] = "mount"  BY <1>3 DEF AddMount
  <2>2. path[r] \in Paths  BY <1>0, <2>1 DEF Runners
  <2>3. pc' = [pc EXCEPT ![r] = "done"] /\ pc'[r] = "done"
    BY <1>0, <1>3 DEF AddMount, Exit, Runners
  <2>4. status' = [status EXCEPT ![r] = status'[r]]
    BY <1>0, <1>3 DEF AddMount, Exit, Ended
  <2>5. CASE mounts' = [mounts EXCEPT ![path[r]] = Append(@, r)]
    <3>1. mounts[path[r]] \in Seq(Runs)  BY <1>0, <2>2 DEF Files
    <3>2. mounts'[path[r]] = Append(mounts[path[r]], r)  BY <1>0, <2>2, <2>5 DEF Files
    <3>3. mounts'[path[r]] # <<>>
      <4> DEFINE s == mounts[path[r]]
      <4>1. s \in Seq(Runs) /\ mounts'[path[r]] = Append(s, r)  BY <3>1, <3>2
      <4> HIDE DEF s
      <4>2. Append(s, r) # <<>>  BY <4>1
      <4> QED BY <4>1, <4>2
    <3>4. \A p \in Paths : p # path[r] => mounts'[p] = mounts[p]  BY <1>0, <2>5 DEF Files
    <3> QED BY <2>1, <2>3, <2>4, <3>3, <3>4, BareStep
  <2>6. CASE UNCHANGED mounts /\ Exit(r, "error")
    <3>1. status'[r] = "error"  BY <1>0, <2>6 DEF Exit, Ended
    <3> QED BY <2>1, <2>3, <2>4, <2>6, <3>1, BareStep
  <2> QED BY <1>3, <2>5, <2>6 DEF AddMount
<1> QED BY <1>1, <1>2, <1>3 DEF Add

LEMMA BareDel ==
  ASSUME BInv, IInv', NEW r \in Runs, Del(r)
  PROVE  BInv'
<1>0. IInv /\ Files /\ Runners /\ Ended /\ Files'  BY DEF BInv, IInv
<1>1. CASE DelUmount(r)
  <2>1. PICK n \in Names :
          /\ path' = [path EXCEPT ![r] = Path(n)]
          /\ mounts' = [mounts EXCEPT ![Path(n)] = Pop(@)] \/ UNCHANGED mounts
    BY <1>1 DEF DelUmount
  <2>2. UNCHANGED <<file, left>> /\ pc[r] = "start" /\ Goes(r, "unlink")  BY <1>1 DEF DelUmount
  <2>3. \A t \in Runs : path'[t] = IF t = r THEN Path(n) ELSE path[t]
    BY <1>0, <2>1 DEF Runners
  <2>4. \A p \in Paths : p # Path(n) => mounts'[p] = mounts[p]  BY <1>0, <2>1 DEF Files
  <2>5. pc' = [pc EXCEPT ![r] = "unlink"] /\ pc'[r] = "unlink" /\ UNCHANGED status
    BY <1>0, <2>2 DEF Goes, Runners
  <2> QED BY <2>2, <2>3, <2>4, <2>5, BareStep
<1>2. CASE DelUnlink(r)
  <2>1. UNCHANGED <<mounts, path>> /\ pc[r] = "unlink" /\ path[r] \in Paths
    BY <1>0, <1>2 DEF DelUnlink, Runners
  <2>2. pc' = [pc EXCEPT ![r] = "done"] /\ pc'[r] = "done"
    BY <1>0, <1>2 DEF DelUnlink, Exit, Runners
  <2>3. status' = [status EXCEPT ![r] = status'[r]]
    BY <1>0, <1>2 DEF DelUnlink, Exit, Ended
  <2>4. CASE file' = [file EXCEPT ![path[r]] = None] /\ UNCHANGED left
    <3>1. \A p \in Paths : file'[p] = IF p = path[r] THEN None ELSE file[p]
      BY <1>0, <2>4 DEF Files
    <3>2. \A p \in Paths : file'[p] # None => p # path[r] /\ file'[p] = file[p]
      BY <3>1
    <3>3. UNCHANGED left  BY <2>4
    <3> QED BY <2>1, <2>2, <2>3, <3>2, <3>3, BareStep
  \* unlink() fails: if the file is bare that is noted, and reported.
  <2>5. CASE /\ Exit(r, "error") /\ UNCHANGED file
             /\ left' = IF file[path[r]] # None /\ mounts[path[r]] = <<>>
                        THEN [left EXCEPT ![r] = file[path[r]]] ELSE left
    <3>1. status'[r] = "error"  BY <1>0, <2>5 DEF Exit, Ended
    <3>2. UNCHANGED left \/ left' = [left EXCEPT ![r] = left'[r]]  BY <1>0, <2>5 DEF Ended
    <3>3. \A p \in Paths : file[p] # None /\ mounts[p] = <<>> =>
            path[r] # p \/ left'[r] = file[p]
      BY <1>0, <2>5 DEF Ended
    <3> QED BY <2>1, <2>2, <2>3, <2>5, <3>1, <3>2, <3>3, BareStep
  <2> QED BY <1>2, <2>4, <2>5 DEF DelUnlink
<1> QED BY <1>1, <1>2 DEF Del

LEMMA BareSetNetns ==
  ASSUME BInv, IInv', NEW r \in Runs, SetNetns(r)
  PROVE  BInv'
<1>0. Runners /\ Ended  BY DEF BInv, IInv
<1>1. UNCHANGED <<file, mounts, left>> /\ pc[r] \in {"start", "send"}
  BY DEF SetNetns, SetNetnsOpen, SetNetnsSend
<1>2. pc[r] = "send" => UNCHANGED path  BY DEF SetNetns, SetNetnsOpen, SetNetnsSend
<1>3. \A t \in Runs : t # r => path'[t] = path[t]
  BY <1>0 DEF SetNetns, SetNetnsOpen, SetNetnsSend, Runners
<1>4. \/ pc' = [pc EXCEPT ![r] = "send"] /\ pc'[r] = "send" /\ UNCHANGED status
      \/ /\ pc' = [pc EXCEPT ![r] = "done"] /\ pc'[r] = "done"
         /\ status' = [status EXCEPT ![r] = status'[r]]
  BY <1>0 DEF SetNetns, SetNetnsOpen, SetNetnsSend, Goes, Exit, Runners, Ended
<1> QED BY <1>1, <1>2, <1>3, <1>4, BareStep

\* A file below /var/run/netns without a namespace is one of an add-netns
\* that is still at work or failed, or is about to be removed, or a del-netns
\* could not remove it and ended with an error.
THEOREM BareFile == Spec => []BareFileHasCause
<1>1. Init => BInv
  <2> SUFFICES ASSUME Init PROVE BInv  OBVIOUS
  <2>1. \A p \in Paths : file[p] = None  BY DEF Init
  <2> QED BY <2>1, InitIInv DEF Init, BInv, Creators, Ended, BareFileHasCause
<1>2. BInv /\ [Next]_vars => BInv'
  <2> SUFFICES ASSUME BInv, [Next]_vars PROVE BInv'  OBVIOUS
  <2>1. ASSUME NEW r \in Runs, Add(r) \/ Del(r) \/ SetNetns(r) PROVE BInv'
    <3>1. IInv'
      BY <2>1, AddOpenStep, AddUnshareStep, AddMountStep, DelUmountStep, DelUnlinkStep,
         SetNetnsStep DEF Add, Del, BInv
    <3> QED BY <2>1, <3>1, BareAdd, BareDel, BareSetNetns
  <2>2. CASE UNCHANGED vars
    <3>1. IInv'
      BY <2>2 DEF vars, progVars, BInv, IInv, Files, Runners, Mounts, Owns, OneNamespacePerName
    <3>2. Creators' /\ Ended'  BY <2>2 DEF vars, progVars, BInv, Creators, Ended
    <3>3. BareFileHasCause'  BY <2>2 DEF vars, progVars, BInv, BareFileHasCause
    <3> QED BY <3>1, <3>2, <3>3 DEF BInv
  <2> QED BY <2>1, <2>2 DEF Next
<1>3. BInv => BareFileHasCause  BY DEF BInv
<1> QED BY <1>1, <1>2, <1>3, PTL DEF Spec

-----------------------------------------------------------------------------
(* Types, and where the link goes.                                         *)

Pcs == {"start", "unshare", "mount", "unlink", "send", "done"}

\* Everything of TypeOK but the mounts, which the invariant has already.
Typed ==
  /\ file \in [Paths -> Runs \cup {None}]
  /\ pc \in [Runs -> Pcs] /\ path \in [Runs -> Paths \cup {None}]
  /\ status \in [Runs -> {None, "zero", "error"}]
  /\ fd \in [Runs -> Runs \cup {None, "file"}]
  /\ \A r \in Runs : pc[r] = "send" <=> fd[r] # None
  /\ at \in Runs \cup {Home, Lost}
  /\ unlinked \subseteq Runs
  /\ left \in [Runs -> Runs \cup {None}]

LEMMA TypedIsTypeOK == IInv /\ Typed => TypeOK
<1> SUFFICES ASSUME IInv, Typed PROVE TypeOK  OBVIOUS
<1>1. ASSUME NEW p \in Paths
      PROVE  Members(mounts[p]) \subseteq Runs /\ (file[p] = None => mounts[p] = <<>>)
  <2>1. mounts[p] \in Seq(Runs)  BY DEF IInv, Files
  <2>2. \A i \in 1 .. Len(mounts[p]) : mounts[p][i] \in Runs  BY <2>1
  <2> QED BY <2>2 DEF Members, IInv, Files
<1> QED BY <1>1 DEF Typed, TypeOK, Pcs

\* The run that steps keeps pc and status well typed.
LEMMA ProgTypes ==
  ASSUME Typed, NEW r \in Runs, NEW p \in Pcs \ {"start"},
         Goes(r, p) \/ Exit(r, "zero") \/ Exit(r, "error")
  PROVE  /\ pc' \in [Runs -> Pcs] /\ status' \in [Runs -> {None, "zero", "error"}]
         /\ pc'[r] \in {p, "done"} /\ \A t \in Runs : t # r => pc'[t] = pc[t]
BY DEF Typed, Goes, Exit, Pcs

\* A step that neither opens nor closes a descriptor.
LEMMA TypedStep ==
  ASSUME Typed, NEW r \in Runs, NEW p \in {"unshare", "mount", "unlink"}, pc[r] # "send",
         Goes(r, p) \/ Exit(r, "zero") \/ Exit(r, "error"),
         path' \in [Runs -> Paths \cup {None}], file' \in [Paths -> Runs \cup {None}],
         unlinked' \subseteq Runs, left' \in [Runs -> Runs \cup {None}],
         at' \in Runs \cup {Home, Lost}, UNCHANGED fd
  PROVE  Typed'
<1>1. /\ pc' \in [Runs -> Pcs] /\ status' \in [Runs -> {None, "zero", "error"}]
      /\ pc'[r] # "send" /\ \A t \in Runs : t # r => pc'[t] = pc[t]
  <2>1. p \in Pcs \ {"start"}  BY DEF Pcs
  <2> QED BY <2>1, ProgTypes
<1>2. \A t \in Runs : pc'[t] = "send" <=> fd'[t] # None  BY <1>1 DEF Typed
<1> QED BY <1>1, <1>2 DEF Typed

LEMMA TypedAdd ==
  ASSUME Typed, NEW r \in Runs, Add(r)
  PROVE  Typed'
<1>1. CASE AddOpen(r)
  <2>1. PICK n \in Names :
          /\ path' = [path EXCEPT ![r] = Path(n)]
          /\ \/ file' = [file EXCEPT ![Path(n)] = r] /\ Goes(r, "unshare")
             \/ Exit(r, "error") /\ UNCHANGED file
    BY <1>1 DEF AddOpen
  <2>2. Path(n) \in Paths  BY DEF Paths
  <2>3. path' \in [Runs -> Paths \cup {None}] /\ file' \in [Paths -> Runs \cup {None}]
    BY <2>1, <2>2 DEF Typed
  <2> QED BY <1>1, <2>1, <2>3, TypedStep DEF AddOpen, Typed
<1>2. CASE AddUnshare(r)  BY <1>2, TypedStep DEF AddUnshare, Typed
<1>3. CASE AddMount(r)  BY <1>3, TypedStep DEF AddMount, Typed
<1> QED BY <1>1, <1>2, <1>3 DEF Add

LEMMA TypedDel ==
  ASSUME IInv, Typed, NEW r \in Runs, Del(r)
  PROVE  Typed'
<1>1. CASE DelUmount(r)
  <2>1. PICK n \in Names :
          path' = [path EXCEPT ![r] = Path(n)]
    BY <1>1 DEF DelUmount
  <2>2. Path(n) \in Paths  BY DEF Paths
  <2>3. path' \in [Runs -> Paths \cup {None}]  BY <2>1, <2>2 DEF Typed
  <2>4. at' \in Runs \cup {Home, Lost}  BY <1>1 DEF DelUmount, LinkGoes, Typed
  <2> QED BY <1>1, <2>1, <2>3, <2>4, TypedStep DEF DelUmount, Typed
<1>2. CASE DelUnlink(r)
  <2>1. path[r] \in Paths /\ pc[r] = "unlink" /\ UNCHANGED <<path, fd, at>>
        /\ (Exit(r, "zero") \/ Exit(r, "error"))
    BY <1>2 DEF DelUnlink, IInv, Runners
  <2>2. /\ file' \in [Paths -> Runs \cup {None}] /\ unlinked' \subseteq Runs
        /\ left' \in [Runs -> Runs \cup {None}]
    <3>1. CASE /\ UNCHANGED <<file, unlinked>>
               /\ left' = IF file[path[r]] # None /\ mounts[path[r]] = <<>>
                          THEN [left EXCEPT ![r] = file[path[r]]] ELSE left
      BY <2>1, <3>1 DEF Typed
    <3>2. CASE /\ file[path[r]] # None /\ file' = [file EXCEPT ![path[r]] = None]
               /\ unlinked' = unlinked \cup {file[path[r]]} /\ UNCHANGED left
      BY <2>1, <3>2 DEF Typed
    <3> QED BY <1>2, <3>1, <3>2 DEF DelUnlink
  <2> QED BY <2>1, <2>2, TypedStep DEF Typed
<1> QED BY <1>1, <1>2 DEF Del

LEMMA TypedSetNetns ==
  ASSUME IInv, Typed, NEW r \in Runs, SetNetns(r)
  PROVE  Typed'
<1>1. CASE SetNetnsOpen(r)
  <2>1. PICK p \in Paths :
          /\ path' = [path EXCEPT ![r] = p]
          /\ \/ /\ fd' = [fd EXCEPT ![r] = IF mounts[p] # <<>> THEN Top(p) ELSE "file"]
                /\ Goes(r, "send")
             \/ Exit(r, "error") /\ UNCHANGED fd
    BY <1>1 DEF SetNetnsOpen
  <2>2. UNCHANGED <<file, at, unlinked, left>> /\ pc[r] = "start"  BY <1>1 DEF SetNetnsOpen
  <2>3. path' \in [Runs -> Paths \cup {None}]  BY <2>1 DEF Typed
  <2>4. mounts[p] # <<>> => Top(p) \in Runs
    <3>1. mounts[p] \in Seq(Runs)  BY DEF IInv, Files
    <3> DEFINE m == mounts[p]
    <3>2. m \in Seq(Runs) /\ Top(p) = m[Len(m)]  BY <3>1 DEF Top
    <3> HIDE DEF m
    <3>3. m # <<>> => m[Len(m)] \in Runs  BY <3>2
    <3> QED BY <3>2, <3>3 DEF m
  <2>5. /\ pc' \in [Runs -> Pcs] /\ status' \in [Runs -> {None, "zero", "error"}]
        /\ \A t \in Runs : t # r => pc'[t] = pc[t]
    BY <2>1, ProgTypes DEF Pcs
  <2>6. /\ fd' \in [Runs -> Runs \cup {None, "file"}]
        /\ \A t \in Runs : t # r => fd'[t] = fd[t]
        /\ pc'[r] = "send" <=> fd'[r] # None
    <3>1. CASE /\ fd' = [fd EXCEPT ![r] = IF mounts[p] # <<>> THEN Top(p) ELSE "file"]
               /\ Goes(r, "send")
      <4>1. (IF mounts[p] # <<>> THEN Top(p) ELSE "file") \in (Runs \cup {"file"}) \ {None}
        BY <2>4, RunsAssumption DEF None
      <4>2. pc'[r] = "send"  BY <3>1 DEF Goes, Typed
      <4> QED BY <3>1, <4>1, <4>2 DEF Typed
    <3>2. CASE Exit(r, "error") /\ UNCHANGED fd
      BY <2>2, <3>2 DEF Exit, Typed
    <3> QED BY <2>1, <3>1, <3>2
  <2> QED BY <2>2, <2>3, <2>5, <2>6 DEF Typed
<1>2. CASE SetNetnsSend(r)
  <2>1. /\ pc[r] = "send" /\ fd' = [fd EXCEPT ![r] = None] /\ Exit(r, "zero")
        /\ UNCHANGED <<file, path, unlinked, left>>
    BY <1>2 DEF SetNetnsSend
  <2>2. at' \in Runs \cup {Home, Lost}
    BY <1>2 DEF SetNetnsSend, LinkGoes, Typed
  <2>3. /\ pc' = [pc EXCEPT ![r] = "done"] /\ status' = [status EXCEPT ![r] = "zero"]
    BY <2>1 DEF Exit
  <2> QED BY <2>1, <2>2, <2>3 DEF Typed, Pcs
<1> QED BY <1>1, <1>2 DEF SetNetns

LEMMA TypedInvariance == Spec => [](IInv /\ Typed)
<1>1. Init => Typed  BY DEF Init, Typed, Pcs
<1>2. IInv /\ Typed /\ [Next]_vars => Typed'
  <2> SUFFICES ASSUME IInv, Typed, [Next]_vars PROVE Typed'  OBVIOUS
  <2>1. CASE UNCHANGED vars  BY <2>1 DEF vars, progVars, Typed
  <2> QED BY <2>1, TypedAdd, TypedDel, TypedSetNetns DEF Next
<1> QED BY <1>1, <1>2, Invariance, PTL DEF Spec

\* The files, the mounts, the runs and the link stay well typed, and a run
\* has a descriptor exactly while its set-netns-fd waits to send.
THEOREM TypeCorrect == Spec => []TypeOK
BY TypedInvariance, TypedIsTypeOK, PTL

\* The link moves only by the request of a set-netns-fd, to what that has
\* open, or is lost with the last reference to its namespace.
THEOREM LinkGoesWhereOpened == Spec => LinkGoesWhereNameLed
<1> DEFINE Led ==
      at' # at =>
        \/ /\ at = Home
           /\ \E s \in Runs :
                /\ pc[s] = "send" /\ pc'[s] = "done"
                /\ at' = fd[s] \/ (at' = Lost /\ ~NamedIn(mounts', fd[s]))
        \/ at \in Runs /\ at' = Lost /\ ~NamedIn(mounts', at)
<1>1. Typed /\ [Next]_vars => Led
  <2> SUFFICES ASSUME Typed, [Next]_vars, at' # at PROVE Led  OBVIOUS
  <2>1. CASE UNCHANGED vars  BY <2>1 DEF vars
  <2>2. ASSUME LinkGoes(at) PROVE Led  BY <2>2 DEF LinkGoes
  <2>3. ASSUME NEW r \in Runs, SetNetnsSend(r) PROVE Led
    <3>1. pc[r] = "send" /\ pc'[r] = "done"  BY <2>3 DEF SetNetnsSend, Exit, Typed
    <3>2. CASE at = Home /\ fd[r] \in Runs /\ LinkGoes(fd[r])
      BY <3>1, <3>2 DEF LinkGoes
    <3> QED BY <2>2, <2>3, <3>2 DEF SetNetnsSend
  <2>4. ASSUME NEW r \in Runs, Add(r) PROVE FALSE
    BY <2>4 DEF Add, AddOpen, AddUnshare, AddMount
  <2>5. ASSUME NEW r \in Runs, Del(r) PROVE Led
    BY <2>2, <2>5 DEF Del, DelUmount, DelUnlink
  <2>6. ASSUME NEW r \in Runs, SetNetnsOpen(r) PROVE FALSE
    BY <2>6 DEF SetNetnsOpen
  <2> QED BY <2>1, <2>3, <2>4, <2>5, <2>6 DEF Next, SetNetns
<1> QED BY <1>1, TypedInvariance, PTL DEF Spec, LinkGoesWhereNameLed
=============================================================================
