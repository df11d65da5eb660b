------------------------------- MODULE Netns --------------------------------
(***************************************************************************)
(* The programs that give network namespaces names, src/netns/add-netns.c  *)
(* and del-netns.c, and the one that uses the names,                       *)
(* src/netlink/set-netns-fd.c.  A namespace has a name as long as it is    *)
(* mounted on a file below /var/run/netns.  Each program takes several     *)
(* system calls, several programs run at the same time, and no call of one *)
(* knows what another program did to the file since the last one.          *)
(*                                                                         *)
(* External: mounts stack, a mount or an unlink finds its file by path, a  *)
(* file with a mount cannot be unlinked, and a namespace lives as long as  *)
(* a mount, a descriptor or a process refers to it; its links (veth) die   *)
(* with it.                                                                *)
(***************************************************************************)
EXTENDS Naturals, Sequences, FiniteSets

CONSTANTS
  Runs,         \* runs of programs
  Names         \* names in arguments, each a pair: the bytes that fit, the rest

VARIABLES
  file,         \* the run that created the file at a path, if there is one
  mounts,       \* namespaces mounted on it, the last one on top; a namespace
                \* is the run that created it
  pc,           \* where a run is
  path,         \* the path it works on
  status,       \* what it returned
  fd,           \* what set-netns-fd has open
  at,           \* where the link is that set-netns-fd moves
  unlinked,     \* history: runs whose file was unlinked
  left          \* history: the run whose file a del-netns found without a
                \* mount and could not unlink

progVars == <<pc, path, status>>
vars == <<file, mounts, progVars, fd, at, unlinked, left>>

None == "none"
Home == "home"          \* the namespace the programs are started in
Lost == "lost"

ASSUME RunsAssumption == {None, Home, Lost, "file"} \cap Runs = {}

\* snprintf() into 100 bytes cuts off what does not fit.
Path(n) == n[1]
Paths == {Path(n) : n \in Names}

Init ==
  /\ file = [p \in Paths |-> None]
  /\ mounts = [p \in Paths |-> <<>>]
  /\ pc = [r \in Runs |-> "start"]
  /\ path = [r \in Runs |-> None]
  /\ status = [r \in Runs |-> None]
  /\ fd = [r \in Runs |-> None]
  /\ at = Home
  /\ unlinked = {}
  /\ left = [r \in Runs |-> None]

-----------------------------------------------------------------------------
(* The kernel.                                                             *)

Members(s) == {s[i] : i \in 1 .. Len(s)}
NamedIn(m, n) == \E p \in Paths : n \in Members(m[p])
Top(p) == mounts[p][Len(mounts[p])]
Pop(s) == IF s = <<>> THEN s ELSE SubSeq(s, 1, Len(s) - 1)

\* The link goes where it goes, and with its namespace when nobody refers to
\* that any more.
LinkGoes(where) ==
  at' = IF where \in Runs /\ ~NamedIn(mounts', where) /\ (\A r \in Runs : fd'[r] # where)
        THEN Lost ELSE where

-----------------------------------------------------------------------------
(* Programs.                                                               *)

Exit(r, s) ==
  /\ pc' = [pc EXCEPT ![r] = "done"]
  /\ status' = [status EXCEPT ![r] = s]

Goes(r, p) == pc' = [pc EXCEPT ![r] = p] /\ UNCHANGED status

\* Mutant of AddOpen: no O_EXCL.
AddOpenAny(r) ==
  /\ pc[r] = "start"
  /\ \E n \in Names :
       /\ path' = [path EXCEPT ![r] = Path(n)]
       /\ file' = [file EXCEPT ![Path(n)] = IF @ = None THEN r ELSE @]
       /\ Goes(r, "unshare")
  /\ UNCHANGED <<mounts, fd, at, unlinked, left>>

\* add-netns, open() with O_CREAT and O_EXCL: fails when the file is there,
\* or for another reason (there is no directory, no permission).
AddOpen(r) ==
  /\ pc[r] = "start"
  /\ \E n \in Names :
       /\ path' = [path EXCEPT ![r] = Path(n)]
       /\ \/ /\ file[Path(n)] = None
             /\ file' = [file EXCEPT ![Path(n)] = r]
             /\ Goes(r, "unshare")
          \/ Exit(r, "error") /\ UNCHANGED file
  /\ UNCHANGED <<mounts, fd, at, unlinked, left>>

\* unshare(): when it fails the file stays.
AddUnshare(r) ==
  /\ pc[r] = "unshare"
  /\ Goes(r, "mount") \/ Exit(r, "error")
  /\ UNCHANGED <<file, mounts, path, fd, at, unlinked, left>>

\* Mutant of AddMount: the result of mount() is not looked at.
AddMountUnchecked(r) ==
  /\ pc[r] = "mount"
  /\ \/ /\ file[path[r]] # None
        /\ mounts' = [mounts EXCEPT ![path[r]] = Append(@, r)]
     \/ UNCHANGED mounts
  /\ Exit(r, "zero")
  /\ UNCHANGED <<file, path, fd, at, unlinked, left>>

\* mount() on the file that is at the path now; when it fails the file stays.
AddMount(r) ==
  /\ pc[r] = "mount"
  /\ \/ /\ file[path[r]] # None
        /\ mounts' = [mounts EXCEPT ![path[r]] = Append(@, r)]
        /\ Exit(r, "zero")
     \/ Exit(r, "error") /\ UNCHANGED mounts
  /\ UNCHANGED <<file, path, fd, at, unlinked, left>>

\* del-netns, umount2(): takes the mount on top away if there is one.  It may
\* fail for any reason; whether it did is not looked at.
DelUmount(r) ==
  /\ pc[r] = "start"
  /\ \E n \in Names :
       /\ path' = [path EXCEPT ![r] = Path(n)]
       /\ mounts' = [mounts EXCEPT ![Path(n)] = Pop(@)] \/ UNCHANGED mounts
  /\ Goes(r, "unlink")
  /\ UNCHANGED <<file, fd, unlinked, left>>
  /\ LinkGoes(at)

\* unlink() of the file that is at the path now.  It fails when there is none
\* or something is mounted on it, and may fail for another reason (a read-only
\* file system, no permission in the directory): the file then stays.
DelUnlink(r) ==
  LET p == path[r]
      bare == file[p] # None /\ mounts[p] = <<>>
  IN  /\ pc[r] = "unlink"
      /\ \/ /\ bare
            /\ file' = [file EXCEPT ![p] = None]
            /\ unlinked' = unlinked \cup {file[p]}
            /\ Exit(r, "zero")
            /\ UNCHANGED left
         \/ /\ Exit(r, "error")
            /\ left' = IF bare THEN [left EXCEPT ![r] = file[p]] ELSE left
            /\ UNCHANGED <<file, unlinked>>
      /\ UNCHANGED <<mounts, path, fd, at>>

\* Mutant of SetNetnsOpen: the result of open() is not looked at.
SetNetnsOpenUnchecked(r) ==
  /\ pc[r] = "start"
  /\ \E p \in Paths :
       /\ path' = [path EXCEPT ![r] = p]
       /\ fd' = [fd EXCEPT ![r] = IF mounts[p] # <<>> THEN Top(p) ELSE file[p]]
       /\ Goes(r, "send")
  /\ UNCHANGED <<file, mounts, at, unlinked, left>>

\* set-netns-fd, open() of a whole path: the namespace on top, or the plain
\* file when none is mounted.
SetNetnsOpen(r) ==
  /\ pc[r] = "start"
  /\ \E p \in Paths :
       /\ path' = [path EXCEPT ![r] = p]
       /\ \/ /\ file[p] # None
             /\ fd' = [fd EXCEPT ![r] = IF mounts[p] # <<>> THEN Top(p) ELSE "file"]
             /\ Goes(r, "send")
          \/ Exit(r, "error") /\ UNCHANGED fd
  /\ UNCHANGED <<file, mounts, at, unlinked, left>>

\* Mutant of SetNetnsSend: the path is opened only now.
SetNetnsSendLate(r) ==
  /\ pc[r] = "send"
  /\ fd' = [fd EXCEPT ![r] = None]
  /\ Exit(r, "zero")
  /\ UNCHANGED <<file, mounts, path, unlinked, left>>
  /\ LinkGoes(IF at = Home /\ mounts[path[r]] # <<>> THEN Top(path[r]) ELSE at)

\* The request, which the kernel may refuse and does refuse when the link is
\* gone or the descriptor is of no namespace, and the end of the program,
\* which closes the descriptor.
SetNetnsSend(r) ==
  /\ pc[r] = "send"
  /\ fd' = [fd EXCEPT ![r] = None]
  /\ Exit(r, "zero")
  /\ UNCHANGED <<file, mounts, path, unlinked, left>>
  /\ \/ at = Home /\ fd[r] \in Runs /\ LinkGoes(fd[r])
     \/ LinkGoes(at)

-----------------------------------------------------------------------------
Add(r) == AddOpen(r) \/ AddUnshare(r) \/ AddMount(r)
Del(r) == DelUmount(r) \/ DelUnlink(r)
SetNetns(r) == SetNetnsOpen(r) \/ SetNetnsSend(r)

Next == \E r \in Runs : Add(r) \/ Del(r) \/ SetNetns(r)

Spec == Init /\ [][Next]_vars

-----------------------------------------------------------------------------
(* Properties.                                                             *)

\* Types.  Only a file has mounts, and only set-netns-fd before its request
\* has a descriptor, which is valid.
TypeOK ==
  /\ file \in [Paths -> Runs \cup {None}]
  /\ \A p \in Paths : Members(mounts[p]) \subseteq Runs /\ (file[p] = None => mounts[p] = <<>>)
  /\ pc \in [Runs -> {"start", "unshare", "mount", "unlink", "send", "done"}]
  /\ path \in [Runs -> Paths \cup {None}]
  /\ status \in [Runs -> {None, "zero", "error"}]
  /\ fd \in [Runs -> Runs \cup {None, "file"}]
  /\ \A r \in Runs : pc[r] = "send" <=> fd[r] # None
  /\ at \in Runs \cup {Home, Lost}
  /\ unlinked \subseteq Runs
  /\ left \in [Runs -> Runs \cup {None}]

\* Two namespaces have one name, and hide each other, only after a del-netns
\* removed the file of one of them between its open() and its mount(): of
\* those mounted on a file at most one is of a run that still has its file.
OneNamespacePerName ==
  \A p \in Paths : \A i, j \in 1 .. Len(mounts[p]) :
    i # j => mounts[p][i] \in unlinked \/ mounts[p][j] \in unlinked

\* A file without a namespace, which blocks its name for add-netns and which
\* set-netns-fd opens in vain, has a cause: the add-netns that created it is
\* still at work, or a del-netns is about to remove it, or one of the two
\* ended with an error: the add-netns, or a del-netns that could not remove
\* the file once nothing was mounted on it.
BareFileHasCause ==
  \A p \in Paths :
    file[p] # None /\ mounts[p] = <<>> =>
      \/ pc[file[p]] \in {"unshare", "mount"} \/ status[file[p]] = "error"
      \/ \E d \in Runs : pc[d] = "unlink" /\ path[d] = p
      \/ \E d \in Runs : left[d] = file[p] /\ status[d] = "error"

\* set-netns-fd moves the link to the namespace its path led to when it
\* opened it, whatever became of the name since.  If the name was deleted and
\* the program had the last reference, the link is lost as the program ends;
\* a link moved before is lost only with the last name of its namespace gone.
LinkGoesWhereNameLed ==
  [][at' # at =>
       \/ /\ at = Home
          /\ \E s \in Runs :
               /\ pc[s] = "send" /\ pc'[s] = "done"
               /\ at' = fd[s] \/ (at' = Lost /\ ~NamedIn(mounts', fd[s]))
       \/ at \in Runs /\ at' = Lost /\ ~NamedIn(mounts', at)]_vars
=============================================================================
