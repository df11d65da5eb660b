-------------------------- MODULE LinkConfig_proof --------------------------
(***************************************************************************)
(* Proofs about LinkConfig, for any number of runs and any names.          *)
(*                                                                         *)
(* One hook per link is not inductive: it needs that the hook a run has    *)
(* created is still there as long as no qdisc was deleted, which no other  *)
(* request takes away from a link of this namespace, and that indices are  *)
(* not used again (IInv).                                                  *)
(*                                                                         *)
(* What a step changes is decided by a request that was filled at an       *)
(* earlier step.  The second part of the invariant (Known) says of every   *)
(* request that waits what its program put into it and which links it      *)
(* found, and that the ends of a pair are each other's peer; with the      *)
(* effect of a request on the table (Effect) it gives the type invariant   *)
(* and the three action properties.                                        *)
(***************************************************************************)
EXTENDS LinkConfig, TLAPS

Fields == {"name", "here", "flags", "mtu", "peer", "addr", "clsact", "filters", "xdp"}
IsLink(l) == l = [f \in Fields |-> l[f]]

\* A table of links below index n.
IsTable(L, n) ==
  /\ L = [i \in DOMAIN L |-> L[i]]
  /\ \A i \in DOMAIN L : i \in Nat /\ i # 0 /\ i < n /\ IsLink(L[i])

\* What is here in M was here in L, with its qdisc, or is new.
KeepsHooks(L, M) ==
  \A i \in DOMAIN L \cap DOMAIN M :
    M[i].here => L[i].here /\ (L[i].clsact => M[i].clsact)

NextOf(L, n, M) == IF DOMAIN M \subseteq DOMAIN L THEN n ELSE n + 2
\* M comes from L without a link below n that was not there.
Grows(L, n, M) ==
  /\ IsTable(M, NextOf(L, n, M))
  /\ \A i \in DOMAIN M : i < n => i \in DOMAIN L

LEMMA LinkIsLink == \A name, flags, peer : IsLink(Link(name, flags, peer))
  BY DEF Link, IsLink, Fields

LEMMA ChangedIsLink ==
  ASSUME NEW l, IsLink(l), NEW q
  PROVE  /\ IsLink(Changed(l, q))
         /\ Changed(l, q).here => l.here /\ Changed(l, q).clsact = l.clsact
  BY DEF IsLink, Fields, Changed, Moved

\* Replacing a link keeps the table; what is said of hooks is said of it.
LEMMA Replace ==
  ASSUME NEW L, NEW n \in Nat, IsTable(L, n), NEW i \in DOMAIN L, NEW l, IsLink(l),
         l.here => L[i].here /\ (L[i].clsact => l.clsact)
  PROVE  LET M == [L EXCEPT ![i] = l] IN KeepsHooks(L, M) /\ Grows(L, n, M)
<1> DEFINE M == [L EXCEPT ![i] = l]
<1>1. DOMAIN M = DOMAIN L /\ M = [j \in DOMAIN M |-> M[j]]  BY DEF IsTable
<1>2. NextOf(L, n, M) = n  BY <1>1 DEF NextOf
<1>3. \A j \in DOMAIN L : M[j] = IF j = i THEN l ELSE L[j]  BY DEF IsTable
<1>4. IsTable(M, n)  BY <1>1, <1>3 DEF IsTable
<1>5. KeepsHooks(L, M)  BY <1>1, <1>3 DEF KeepsHooks
<1> QED BY <1>1, <1>2, <1>4, <1>5 DEF Grows

LEMMA Same ==
  ASSUME NEW L, NEW n \in Nat, IsTable(L, n)
  PROVE  KeepsHooks(L, L) /\ Grows(L, n, L)
BY DEF KeepsHooks, Grows, NextOf, IsTable

\* The answers that matter: nothing changed, or hooks are kept.
Fair(L, n, a) ==
  /\ a.ok \in BOOLEAN
  /\ ~a.ok => a.links = L
  /\ Grows(L, n, a.links)

LEMMA RefuseIsFair ==
  ASSUME NEW L, NEW n \in Nat, IsTable(L, n)
  PROVE  Fair(L, n, Refuse(L)) /\ KeepsHooks(L, Refuse(L).links) /\ ~Refuse(L).ok
BY Same DEF Fair, Refuse

LEMMA DoneIsFair ==
  ASSUME NEW L, NEW n \in Nat, NEW M, Grows(L, n, M)
  PROVE  Fair(L, n, Done(M)) /\ Done(M).links = M /\ Done(M).ok
BY DEF Fair, Done

LEMMA SetLinkKeeps ==
  ASSUME NEW L, NEW n \in Nat, IsTable(L, n), NEW q
  PROVE  Fair(L, n, RtmSetLink(L, q)) /\ KeepsHooks(L, RtmSetLink(L, q).links)
<1> DEFINE i == Target(L, q)
<1>1. CASE /\ Here(L, i)
           /\ q.netns => CanMove(L, i)
           /\ Renames(q) => CanRename(L, i, q.ifname)
  <2>1. i \in DOMAIN L /\ IsLink(L[i])  BY <1>1 DEF Here, IsTable
  <2> DEFINE M == [L EXCEPT ![i] = Changed(L[i], q)]
  <2>2. KeepsHooks(L, M) /\ Grows(L, n, M)
    <3> HIDE DEF i
    <3>1. IsLink(Changed(L[i], q))  BY <2>1, ChangedIsLink
    <3>2. Changed(L[i], q).here => L[i].here /\ Changed(L[i], q).clsact = L[i].clsact
      BY <2>1, ChangedIsLink
    <3> QED BY <2>1, <3>1, <3>2, Replace
  <2>3. RtmSetLink(L, q) = Done(M)  BY <1>1 DEF RtmSetLink
  <2> HIDE DEF M
  <2> QED BY <2>2, <2>3, DoneIsFair
<1>2. CASE ~(/\ Here(L, i)
             /\ q.netns => CanMove(L, i)
             /\ Renames(q) => CanRename(L, i, q.ifname))
  <2>1. RtmSetLink(L, q) = Refuse(L)  BY <1>2 DEF RtmSetLink
  <2> QED BY <2>1, RefuseIsFair
<1> QED BY <1>1, <1>2

LEMMA CreateKeeps ==
  ASSUME NEW L, NEW n \in Nat \ {0}, IsTable(L, n), NEW q
  PROVE  Fair(L, n, Create(L, n, q)) /\ KeepsHooks(L, Create(L, n, q).links)
<1> DEFINE peerName == IF q.peer # NoName THEN q.peer ELSE AutoName(L, {q.ifname})
           name == IF q.ifname # NoName THEN q.ifname ELSE AutoName(L, {peerName})
           pair == [i \in {n, n + 1} |->
                      IF i = n THEN Link(peerName, IF q.peer # NoName THEN {} ELSE {"MULTICAST"}, n + 1)
                               ELSE Link(name, q.flags, n)]
           M == [i \in DOMAIN L \cup DOMAIN pair |-> IF i \in DOMAIN L THEN L[i] ELSE pair[i]]
<1>1. \A i \in {n, n + 1} : IsLink(pair[i])
  <2> HIDE DEF peerName, name
  <2> QED BY LinkIsLink
<1>2. Create(L, n, q) \in {Done(M), Refuse(L)}
  BY DEF Create
<1>3. DOMAIN pair = {n, n + 1}  OBVIOUS
<1> HIDE DEF peerName, name, pair
<1>4. DOMAIN M = DOMAIN L \cup {n, n + 1} /\ M = [i \in DOMAIN M |-> M[i]]  BY <1>3
<1>5. \A i \in DOMAIN L : i \in Nat /\ i < n /\ i # 0 /\ IsLink(L[i])  BY DEF IsTable
<1>6. NextOf(L, n, M) = n + 2  BY <1>4, <1>5 DEF NextOf
<1>7. \A i \in DOMAIN M : M[i] = IF i \in DOMAIN L THEN L[i] ELSE pair[i]  OBVIOUS
<1> HIDE DEF M
<1>8. \A i \in DOMAIN M : i \in Nat /\ i # 0 /\ i < n + 2 /\ IsLink(M[i])
  BY <1>1, <1>4, <1>5, <1>7
<1>9. IsTable(M, n + 2)  BY <1>4, <1>8 DEF IsTable
<1>10. \A i \in DOMAIN M : i < n => i \in DOMAIN L  BY <1>4, <1>5
<1>11. Grows(L, n, M)  BY <1>6, <1>9, <1>10 DEF Grows
<1>12. KeepsHooks(L, M)  BY <1>4, <1>7 DEF KeepsHooks
<1> QED BY <1>2, <1>11, <1>12, DoneIsFair, RefuseIsFair

LEMMA NewLinkKeeps ==
  ASSUME NEW L, NEW n \in Nat \ {0}, IsTable(L, n), NEW q
  PROVE  Fair(L, n, RtmNewLink(L, n, q)) /\ KeepsHooks(L, RtmNewLink(L, n, q).links)
BY CreateKeeps, SetLinkKeeps, RefuseIsFair DEF RtmNewLink

LEMMA DelLinkKeeps ==
  ASSUME NEW L, NEW n \in Nat, IsTable(L, n), NEW q
  PROVE  Fair(L, n, RtmDelLink(L, q)) /\ KeepsHooks(L, RtmDelLink(L, q).links)
<1> DEFINE i == Target(L, q)
           M == [j \in DOMAIN L \ {i, L[i].peer} |-> L[j]]
<1>1. RtmDelLink(L, q) = IF Here(L, i) /\ i # Lo THEN Done(M) ELSE Refuse(L)
  BY DEF RtmDelLink
<1> HIDE DEF i
<1>2. DOMAIN M \subseteq DOMAIN L /\ M = [j \in DOMAIN M |-> M[j]]  OBVIOUS
<1>3. \A j \in DOMAIN M : M[j] = L[j]  OBVIOUS
<1> HIDE DEF M
<1>4. NextOf(L, n, M) = n  BY <1>2 DEF NextOf
<1>5. Grows(L, n, M)  BY <1>2, <1>3, <1>4 DEF Grows, IsTable
<1>6. KeepsHooks(L, M)  BY <1>2, <1>3 DEF KeepsHooks
<1> QED BY <1>1, <1>5, <1>6, DoneIsFair, RefuseIsFair

\* A request that sets fields of one link.
LEMMA SetIfKeeps ==
  ASSUME NEW L, NEW n \in Nat, IsTable(L, n), NEW i, NEW guard, NEW l,
         guard => i \in DOMAIN L /\ IsLink(l)
  PROVE  /\ Fair(L, n, SetIf(L, i, guard, l))
         /\ (guard => (l.here => L[i].here /\ (L[i].clsact => l.clsact)))
              => KeepsHooks(L, SetIf(L, i, guard, l).links)
<1>1. CASE guard
  <2> DEFINE M == [L EXCEPT ![i] = l]
  <2>1. SetIf(L, i, guard, l) = Done(M)  BY <1>1 DEF SetIf
  <2>2. DOMAIN M = DOMAIN L /\ M = [j \in DOMAIN M |-> M[j]]  BY DEF IsTable
  <2>3. \A j \in DOMAIN L : M[j] = IF j = i THEN l ELSE L[j]  BY DEF IsTable
  <2>4. NextOf(L, n, M) = n  BY <2>2 DEF NextOf
  <2>5. IsTable(M, n)  BY <1>1, <2>2, <2>3 DEF IsTable
  <2>6. Grows(L, n, M)  BY <2>2, <2>4, <2>5 DEF Grows
  <2>7. (l.here => L[i].here /\ (L[i].clsact => l.clsact)) => KeepsHooks(L, M)
    BY <2>2, <2>3 DEF KeepsHooks
  <2> HIDE DEF M
  <2> QED BY <1>1, <2>1, <2>6, <2>7, DoneIsFair
<1>2. CASE ~guard
  BY <1>2, RefuseIsFair DEF SetIf
<1> QED BY <1>1, <1>2

LEMMA SetQdisc ==
  ASSUME NEW l, IsLink(l), NEW v, NEW w
  PROVE  IsLink([l EXCEPT !.clsact = v, !.filters = w])
BY DEF IsLink, Fields

LEMMA SetIfKeepsHooks ==
  ASSUME NEW L, NEW n \in Nat, IsTable(L, n), NEW i, NEW guard, NEW l,
         guard => i \in DOMAIN L /\ IsLink(l) /\ (l.here => L[i].here /\ (L[i].clsact => l.clsact))
  PROVE  Fair(L, n, SetIf(L, i, guard, l)) /\ KeepsHooks(L, SetIf(L, i, guard, l).links)
BY SetIfKeeps

\* The fields the handlers set are not the name or the place of a link.
LEMMA SetFields ==
  ASSUME NEW l, IsLink(l), NEW v, NEW w
  PROVE  /\ IsLink([l EXCEPT !.addr = v]) /\ [l EXCEPT !.addr = v].here = l.here
         /\ [l EXCEPT !.addr = v].clsact = l.clsact
         /\ IsLink([l EXCEPT !.xdp = v]) /\ [l EXCEPT !.xdp = v].here = l.here
         /\ [l EXCEPT !.xdp = v].clsact = l.clsact
         /\ IsLink([l EXCEPT !.filters = v]) /\ [l EXCEPT !.filters = v].here = l.here
         /\ [l EXCEPT !.filters = v].clsact = l.clsact
         /\ IsLink([l EXCEPT !.clsact = v]) /\ [l EXCEPT !.clsact = v].here = l.here
         /\ [l EXCEPT !.clsact = v].clsact = v
BY DEF IsLink, Fields

AllTypes == {"NEWLINK", "SETLINK", "DELLINK", "NEWADDR", "DELADDR", "NEWQDISC", "DELQDISC",
             "NEWTFILTER", "SETXDP"}

\* Whatever the request, the table stays one, and only the deletion of a
\* qdisc takes a hook away.
LEMMA HandleKeeps ==
  ASSUME NEW L, NEW n \in Nat \ {0}, IsTable(L, n), NEW q, q.type \in AllTypes
  PROVE  /\ Fair(L, n, Handle(L, n, q))
         /\ q.type # "DELQDISC" => KeepsHooks(L, Handle(L, n, q).links)
<1> DEFINE i == q.index
<1>0. \A j : Here(L, j) => j \in DOMAIN L /\ IsLink(L[j])  BY DEF Here, IsTable
<1>1. CASE q.type = "NEWLINK"  BY <1>1, NewLinkKeeps DEF Handle
<1>2. CASE q.type = "SETLINK"  BY <1>2, SetLinkKeeps DEF Handle
<1>3. CASE q.type = "DELLINK"  BY <1>3, DelLinkKeeps DEF Handle
<1>4. CASE q.type = "NEWADDR"
  <2> DEFINE g == Here(L, i) /\ ~L[i].addr
             l == [L[i] EXCEPT !.addr = TRUE]
  <2>1. Handle(L, n, q) = SetIf(L, i, g, l)  BY <1>4 DEF Handle, RtmNewAddr
  <2>2. g => i \in DOMAIN L /\ IsLink(l) /\ (l.here => L[i].here /\ (L[i].clsact => l.clsact))
    <3>1. g => i \in DOMAIN L /\ IsLink(L[i])  BY <1>0
    <3>2. IsLink(L[i]) => IsLink(l) /\ l.here = L[i].here /\ l.clsact = L[i].clsact
      BY SetFields
    <3> QED BY <3>1, <3>2
  <2> HIDE DEF g, l, i
  <2> QED BY <1>4, <2>1, <2>2, SetIfKeepsHooks
<1>5. CASE q.type = "DELADDR"
  <2> DEFINE g == Here(L, i) /\ L[i].addr
             l == [L[i] EXCEPT !.addr = FALSE]
  <2>1. Handle(L, n, q) = SetIf(L, i, g, l)  BY <1>5 DEF Handle, RtmDelAddr
  <2>2. g => i \in DOMAIN L /\ IsLink(l) /\ (l.here => L[i].here /\ (L[i].clsact => l.clsact))
    <3>1. g => i \in DOMAIN L /\ IsLink(L[i])  BY <1>0
    <3>2. IsLink(L[i]) => IsLink(l) /\ l.here = L[i].here /\ l.clsact = L[i].clsact
      BY SetFields
    <3> QED BY <3>1, <3>2
  <2> HIDE DEF g, l, i
  <2> QED BY <1>5, <2>1, <2>2, SetIfKeepsHooks
<1>6. CASE q.type = "NEWQDISC"
  <2> DEFINE g == Here(L, i) /\ (q.excl => ~L[i].clsact)
             l == [L[i] EXCEPT !.clsact = TRUE]
  <2>1. Handle(L, n, q) = SetIf(L, i, g, l)  BY <1>6 DEF Handle, RtmNewQdisc
  <2>2. g => i \in DOMAIN L /\ IsLink(l) /\ (l.here => L[i].here /\ (L[i].clsact => l.clsact))
    <3>1. g => i \in DOMAIN L /\ IsLink(L[i])  BY <1>0
    <3>2. IsLink(L[i]) => IsLink(l) /\ l.here = L[i].here /\ l.clsact = TRUE
      BY SetFields
    <3> QED BY <3>1, <3>2
  <2> HIDE DEF g, l, i
  <2> QED BY <1>6, <2>1, <2>2, SetIfKeepsHooks
<1>7. CASE q.type = "DELQDISC"
  <2> DEFINE g == Here(L, i) /\ L[i].clsact
             l == [L[i] EXCEPT !.clsact = FALSE, !.filters = {}]
  <2>1. Handle(L, n, q) = SetIf(L, i, g, l)  BY <1>7 DEF Handle, RtmDelQdisc
  <2>2. g => i \in DOMAIN L /\ IsLink(l)
    <3>1. g => i \in DOMAIN L /\ IsLink(L[i])  BY <1>0
    <3>2. IsLink(L[i]) => IsLink(l)
      BY SetQdisc
    <3> QED BY <3>1, <3>2
  <2> HIDE DEF g, l, i
  <2> QED BY <1>7, <2>1, <2>2, SetIfKeeps
<1>8. CASE q.type = "NEWTFILTER"
  <2> DEFINE g == Here(L, i) /\ L[i].clsact /\ q.loaded
             l == [L[i] EXCEPT !.filters = @ \cup {q.owner}]
  <2>1. Handle(L, n, q) = SetIf(L, i, g, l)  BY <1>8 DEF Handle, RtmNewFilter
  <2>2. g => i \in DOMAIN L /\ IsLink(l) /\ (l.here => L[i].here /\ (L[i].clsact => l.clsact))
    <3>1. g => i \in DOMAIN L /\ IsLink(L[i])  BY <1>0
    <3>2. IsLink(L[i]) => IsLink(l) /\ l.here = L[i].here /\ l.clsact = L[i].clsact
      BY SetFields
    <3> QED BY <3>1, <3>2
  <2> HIDE DEF g, l, i
  <2> QED BY <1>8, <2>1, <2>2, SetIfKeepsHooks
<1>9. CASE q.type = "SETXDP"
  <2> DEFINE g == Here(L, i) /\ i # Lo
             l == [L[i] EXCEPT !.xdp = q.attach]
  <2>1. Handle(L, n, q) = SetIf(L, i, g, l)  BY <1>9 DEF Handle, RtmSetXdp
  <2>2. g => i \in DOMAIN L /\ IsLink(l) /\ (l.here => L[i].here /\ (L[i].clsact => l.clsact))
    <3>1. g => i \in DOMAIN L /\ IsLink(L[i])  BY <1>0
    <3>2. IsLink(L[i]) => IsLink(l) /\ l.here = L[i].here /\ l.clsact = L[i].clsact
      BY SetFields
    <3> QED BY <3>1, <3>2
  <2> HIDE DEF g, l, i
  <2> QED BY <1>9, <2>1, <2>2, SetIfKeepsHooks
<1> QED
  BY <1>1, <1>2, <1>3, <1>4, <1>5, <1>6, <1>7, <1>8, <1>9 DEF AllTypes

\* A hook that is created exclusively was not there before.
LEMMA HookIsNew ==
  ASSUME NEW L, NEW n \in Nat \ {0}, IsTable(L, n), NEW q, q.type = "NEWQDISC",
         q.excl = TRUE, Handle(L, n, q).ok
  PROVE  LET M == Handle(L, n, q).links
         IN  /\ Here(L, q.index) /\ ~L[q.index].clsact
             /\ Here(M, q.index) /\ M[q.index].clsact
<1> DEFINE i == q.index
           guard == Here(L, i) /\ (q.excl => ~L[i].clsact)
           l == [L[i] EXCEPT !.clsact = TRUE]
<1>1. Handle(L, n, q) = SetIf(L, i, guard, l)  BY DEF Handle, RtmNewQdisc
<1>2. guard  BY <1>1 DEF SetIf, Refuse, Done
<1>3. Handle(L, n, q).links = [L EXCEPT ![i] = l]  BY <1>1, <1>2 DEF SetIf, Done
<1>4. i \in DOMAIN L /\ IsLink(L[i]) /\ L[i].here  BY <1>2 DEF Here, IsTable
<1>5. l.here /\ l.clsact  BY <1>4, SetFields
<1>6. [L EXCEPT ![i] = l][i] = l  BY <1>4 DEF IsTable
<1>7. DOMAIN [L EXCEPT ![i] = l] = DOMAIN L  OBVIOUS
<1> HIDE DEF l
<1> QED BY <1>2, <1>3, <1>4, <1>5, <1>6, <1>7 DEF Here

-----------------------------------------------------------------------------
(* The inductive invariant.                                                *)

Kernel == next \in Nat \ {0} /\ IsTable(links, next) /\ detached \in BOOLEAN

Sending == {"send", "qdisc", "filter", "hook", "attach", "checked"}
Requests ==
  /\ pc = [r \in Runs |-> pc[r]] /\ req = [r \in Runs |-> req[r]]
  /\ \A r \in Runs : pc[r] \in Sending => req[r].type \in AllTypes
  /\ \A r \in Runs : pc[r] = "hook" => req[r].type = "NEWQDISC" /\ req[r].excl = TRUE

HookStays(r) ==
  hooked[r] # 0 /\ Here(links, hooked[r]) => links[hooked[r]].clsact
Hooks ==
  /\ hooked \in [Runs -> Nat]
  /\ \A r \in Runs : hooked[r] < next
  /\ ~detached => \A r \in Runs : HookStays(r)

IInv == Kernel /\ Requests /\ Hooks /\ OneHookPerLink

LEMMA InitIInv == Init => IInv
<1> SUFFICES ASSUME Init PROVE IInv  OBVIOUS
<1>1. Kernel
  <2>1. PICK pair \in BOOLEAN :
          /\ links = [i \in IF pair THEN 1 .. 3 ELSE {1} |->
                     CASE i = 1 -> Link("lo", {"UP"}, 0)
                       [] i = 2 -> Link("veth0", Flags, 3)
                       [] i = 3 -> Link("veth1", Flags, 2)]
          /\ next = IF pair THEN 4 ELSE 2
    BY DEF Init
  <2>2. next \in Nat \ {0}  BY <2>1
  <2>7. detached \in BOOLEAN  BY Zenon DEF Init
  <2>3. \A i \in DOMAIN links : i \in Nat /\ i # 0 /\ i < next  BY <2>1
  <2>4. \A i \in DOMAIN links : i \in {1, 2, 3}  BY <2>1
  <2>5. \A i \in DOMAIN links : IsLink(links[i])
    <3>1. IsLink(Link("lo", {"UP"}, 0))  BY LinkIsLink
    <3>2. IsLink(Link("veth0", Flags, 3)) /\ IsLink(Link("veth1", Flags, 2))  BY LinkIsLink
    <3> QED BY <2>1, <2>4, <3>1, <3>2
  <2>6. links = [i \in DOMAIN links |-> links[i]]  BY <2>1
  <2> QED BY <2>2, <2>3, <2>5, <2>6, <2>7 DEF Kernel, IsTable
<1>2. Requests  BY DEF Init, Requests, Sending
<1>3. Hooks  BY <1>1 DEF Init, Hooks, Kernel, HookStays
<1>4. OneHookPerLink  BY DEF Init, OneHookPerLink
<1> QED BY <1>1, <1>2, <1>3, <1>4 DEF IInv

\* What an answer of the kernel does to the table.
LEMMA TakeKernel ==
  ASSUME Kernel, NEW q, q.type \in AllTypes, NEW a \in Answer(q), Take(q, a)
  PROVE  /\ Kernel' /\ next' \in Nat /\ next <= next'
         /\ \A i \in DOMAIN links' : i < next => i \in DOMAIN links
         /\ ~detached' => ~detached /\ KeepsHooks(links, links')
<1>1. /\ next \in Nat \ {0} /\ IsTable(links, next) /\ detached \in BOOLEAN
  BY DEF Kernel
<1>2. /\ Fair(links, next, a)
      /\ q.type # "DELQDISC" \/ ~a.ok => KeepsHooks(links, a.links)
  <2>1. CASE a = Handle(links, next, q)
    <3>1. Fair(links, next, a)  BY <1>1, <2>1, HandleKeeps
    <3>2. q.type # "DELQDISC" => KeepsHooks(links, a.links)  BY <1>1, <2>1, HandleKeeps
    <3>3. ~a.ok => KeepsHooks(links, a.links)  BY <1>1, <3>1, Same DEF Fair
    <3> QED BY <3>1, <3>2, <3>3
  <2>2. CASE a = Refuse(links)
    BY <1>1, <2>2, RefuseIsFair
  <2> QED BY <2>1, <2>2 DEF Answer
<1>3. links' = a.links /\ next' = NextOf(links, next, links')  BY DEF Take, NextOf
<1>4. Grows(links, next, links')  BY <1>2, <1>3 DEF Fair
<1>5. next' \in Nat \ {0} /\ next <= next'  BY <1>1, <1>3 DEF NextOf
<1>6. IsTable(links', next')  BY <1>3, <1>4 DEF Grows
<1>7. detached' = (detached \/ (q.type = "DELQDISC" /\ a.ok))  BY DEF Take
<1>8. a.ok \in BOOLEAN  BY <1>2 DEF Fair
<1>9. detached' \in BOOLEAN  BY <1>1, <1>7, <1>8
<1>10. ~detached' => ~detached /\ (q.type # "DELQDISC" \/ ~a.ok)  BY <1>7
<1>11. \A i \in DOMAIN links' : i < next => i \in DOMAIN links  BY <1>4 DEF Grows
<1>12. ~detached' => ~detached /\ KeepsHooks(links, links')  BY <1>2, <1>3, <1>10
<1>13. Kernel'  BY <1>5, <1>6, <1>9 DEF Kernel
<1> QED BY <1>5, <1>11, <1>12, <1>13

\* A hook of an earlier step is still there.
LEMMA TakeHooks ==
  ASSUME Kernel, Hooks, NEW q, q.type \in AllTypes, NEW a \in Answer(q), Take(q, a),
         NEW r \in Runs, hooked'[r] = hooked[r]
  PROVE  /\ hooked'[r] \in Nat /\ hooked'[r] < next'
         /\ ~detached' => HookStays(r)'
<1>1. hooked[r] \in Nat /\ hooked[r] < next /\ next \in Nat  BY DEF Hooks, Kernel
<1>2. /\ next' \in Nat /\ next <= next'
      /\ \A i \in DOMAIN links' : i < next => i \in DOMAIN links
      /\ ~detached' => ~detached /\ KeepsHooks(links, links')
  BY TakeKernel
<1>3. hooked'[r] \in Nat /\ hooked'[r] < next'  BY <1>1, <1>2
<1>4. ASSUME ~detached', hooked[r] # 0, Here(links', hooked[r])
      PROVE  links'[hooked[r]].clsact
  <2>1. hooked[r] \in DOMAIN links' /\ links'[hooked[r]].here  BY <1>4 DEF Here
  <2>2. hooked[r] \in DOMAIN links  BY <1>1, <1>2, <2>1
  <2>3. /\ links[hooked[r]].here
        /\ links[hooked[r]].clsact => links'[hooked[r]].clsact
    BY <1>2, <1>4, <2>1, <2>2 DEF KeepsHooks
  <2>4. links[hooked[r]].clsact  BY <1>2, <1>4, <2>2, <2>3 DEF Hooks, HookStays, Here
  <2> QED BY <2>3, <2>4
<1> QED BY <1>3, <1>4 DEF HookStays

LEMMA TakeInv ==
  ASSUME Kernel, Hooks, OneHookPerLink, NEW q, q.type \in AllTypes, NEW a \in Answer(q),
         Take(q, a), UNCHANGED hooked
  PROVE  Kernel' /\ Hooks' /\ OneHookPerLink'
<1>1. Kernel' /\ (~detached' => ~detached)  BY TakeKernel
<1>2. \A r \in Runs : /\ hooked'[r] < next'
                      /\ ~detached' => HookStays(r)'
  BY TakeHooks
<1>3. hooked' \in [Runs -> Nat]  BY DEF Hooks
<1>4. Hooks'  BY <1>2, <1>3 DEF Hooks
<1>5. OneHookPerLink'  BY <1>1 DEF OneHookPerLink
<1> QED BY <1>1, <1>4, <1>5

-----------------------------------------------------------------------------
(* The steps.                                                              *)

\* A run goes on at p with request q.
LEMMA RequestsStep ==
  ASSUME Requests, NEW r \in Runs, NEW p, NEW q,
         pc' = [pc EXCEPT ![r] = p], req' = [req EXCEPT ![r] = q],
         p \in Sending => q.type \in AllTypes,
         p = "hook" => q.type = "NEWQDISC" /\ q.excl = TRUE
  PROVE  Requests'
<1>1. pc' = [t \in Runs |-> pc'[t]] /\ req' = [t \in Runs |-> req'[t]]  BY DEF Requests
<1>2. \A t \in Runs : /\ pc'[t] = IF t = r THEN p ELSE pc[t]
                      /\ req'[t] = IF t = r THEN q ELSE req[t]
  BY DEF Requests
<1>3. \A t \in Runs : pc'[t] \in Sending => req'[t].type \in AllTypes
  <2> TAKE t \in Runs
  <2>1. CASE t = r  BY <1>2, <2>1
  <2>2. CASE t # r
    <3>1. pc'[t] = pc[t] /\ req'[t] = req[t]  BY <1>2, <2>2
    <3> QED BY <3>1 DEF Requests
  <2> QED BY <2>1, <2>2
<1>4. \A t \in Runs : pc'[t] = "hook" => req'[t].type = "NEWQDISC" /\ req'[t].excl = TRUE
  BY <1>2 DEF Requests
<1> QED BY <1>1, <1>3, <1>4 DEF Requests

LEMMA LookupStep ==
  ASSUME IInv, NEW r \in Runs, NEW n, NEW q, NEW p, Lookup(r, n, q, p),
         q.type \in AllTypes, p = "hook" => q.type = "NEWQDISC" /\ q.excl = TRUE
  PROVE  IInv'
<1>1. Requests'  BY RequestsStep DEF IInv, Lookup
<1>2. UNCHANGED <<links, next, took, detached, hooked>>  BY DEF Lookup, kernelVars
<1>3. Kernel'  BY <1>2 DEF IInv, Kernel
<1>4. Hooks' /\ OneHookPerLink'  BY <1>2 DEF IInv, Hooks, HookStays, OneHookPerLink
<1> QED BY <1>1, <1>3, <1>4 DEF IInv

LEMMA ExitRequests ==
  ASSUME IInv, NEW r \in Runs, NEW s, Exit(r, s)
  PROVE  Requests' /\ UNCHANGED hooked
BY RequestsStep DEF IInv, Exit, Sending

LEMMA ExitStep ==
  ASSUME IInv, NEW r \in Runs, NEW s, Exit(r, s), UNCHANGED kernelVars
  PROVE  IInv'
<1>1. Requests' /\ UNCHANGED hooked  BY ExitRequests
<1>2. UNCHANGED <<links, next, took, detached>>  BY DEF kernelVars
<1>3. Kernel'  BY <1>2 DEF IInv, Kernel
<1>4. Hooks' /\ OneHookPerLink'  BY <1>1, <1>2 DEF IInv, Hooks, HookStays, OneHookPerLink
<1> QED BY <1>1, <1>3, <1>4 DEF IInv

LEMMA TakeExit ==
  ASSUME IInv, NEW r \in Runs, NEW s, Exit(r, s), NEW q, q.type \in AllTypes,
         NEW a \in Answer(q), Take(q, a)
  PROVE  IInv'
<1>1. Requests' /\ UNCHANGED hooked  BY ExitRequests
<1> QED BY <1>1, TakeInv DEF IInv

\* The requests the programs send have types the kernel knows.
LEMMA MessageTypes ==
  /\ AddVethMsg.type \in AllTypes /\ AddVethIfname1Msg.type \in AllTypes
  /\ AddVethIfname2Msg.type \in AllTypes /\ SetMtuMsg.type \in AllTypes
  /\ \A i, x, y :
       /\ DelLinkMsg(i).type \in AllTypes /\ SetLinkUpMsg(i).type \in AllTypes
       /\ SetIfnameMsg(i, x).type \in AllTypes
       /\ SetNetnsFdMsg(i).type \in AllTypes /\ SetNetnsPidMsg(i).type \in AllTypes
       /\ AddAddrMsg(i).type \in AllTypes /\ DelAddrMsg(i).type \in AllTypes
       /\ AddQdiscMsg(i).type \in AllTypes /\ DelQdiscMsg(i).type \in AllTypes
       /\ TcDetachMsg(i).type \in AllTypes /\ AddTcfilterMsg(i, x, y).type \in AllTypes
       /\ TcAttachQdiscMsg(i).type \in AllTypes /\ TcAttachFilterMsg(i, x).type \in AllTypes
       /\ HookCreateMsg(i).type = "NEWQDISC" /\ HookCreateMsg(i).excl = TRUE
       /\ HookAttachMsg(i, x).type \in AllTypes /\ HookDestroyMsg(i).type \in AllTypes
       /\ XdpMsg(i, x).type \in AllTypes
BY DEF AllTypes, LinkMsg, AddVethMsg, AddVethIfname1Msg, AddVethIfname2Msg, SetMtuMsg,
       DelLinkMsg, SetLinkUpMsg, SetIfnameMsg, SetNetnsFdMsg, SetNetnsPidMsg, AddAddrMsg,
       DelAddrMsg, AddQdiscMsg, DelQdiscMsg, TcDetachMsg, AddTcfilterMsg, TcAttachQdiscMsg,
       TcAttachFilterMsg, HookCreateMsg, HookAttachMsg, HookDestroyMsg, XdpMsg

\* A program that looks a name up and sends one request.
LEMMA OneRequestStep ==
  ASSUME IInv, NEW r \in Runs, NEW n, NEW q, OneRequest(r, n, q), q.type \in AllTypes
  PROVE  IInv'
BY LookupStep DEF OneRequest

\* bpf_tc_hook_create(): the one step that makes a hook.
LEMMA HookCreateStep ==
  ASSUME IInv, NEW r \in Runs, HookCreate(r)
  PROVE  IInv'
<1> DEFINE q == req[r]
<1>1. q.type = "NEWQDISC" /\ q.excl = TRUE /\ q.type \in AllTypes
  BY DEF IInv, Requests, HookCreate, AllTypes
<1>2. PICK a \in Answer(q) :
        /\ Take(q, a)
        /\ IF a.ok
           THEN /\ pc' = [pc EXCEPT ![r] = "attach"]
                /\ req' = [req EXCEPT ![r] = HookAttachMsg(q.index, r)]
                /\ hooked' = [hooked EXCEPT ![r] = q.index]
                /\ UNCHANGED <<arg, status, bore>>
           ELSE Exit(r, "error")
  BY DEF HookCreate
<1> HIDE DEF q
<1>3. CASE ~a.ok  BY <1>1, <1>2, <1>3, TakeExit
<1>4. CASE a.ok
  <2>0. Kernel /\ Hooks /\ OneHookPerLink /\ Requests  BY DEF IInv
  <2>1. /\ Kernel' /\ next' \in Nat
        /\ ~detached' => ~detached /\ KeepsHooks(links, links')
    BY <1>1, <1>2, <2>0, TakeKernel
  <2>2. Requests'
    <3>1. HookAttachMsg(q.index, r).type \in AllTypes  BY MessageTypes
    <3>2. pc' = [pc EXCEPT ![r] = "attach"] /\ req' = [req EXCEPT ![r] = HookAttachMsg(q.index, r)]
      BY <1>2, <1>4
    <3> QED BY <2>0, <3>1, <3>2, RequestsStep
  <2>3. next \in Nat \ {0} /\ IsTable(links, next)  BY <2>0 DEF Kernel
  <2>4. a = Handle(links, next, q)  BY <1>4, <2>3, RefuseIsFair DEF Answer
  <2>5. links' = Handle(links, next, q).links  BY <1>2, <2>4 DEF Take
  <2>6. /\ Here(links, q.index) /\ ~links[q.index].clsact
        /\ Here(links', q.index) /\ links'[q.index].clsact
    BY <1>1, <1>4, <2>3, <2>4, <2>5, HookIsNew
  <2>7. q.index \in Nat /\ q.index # 0 /\ q.index < next'
    <3>1. IsTable(links', next')  BY <2>1 DEF Kernel
    <3> QED BY <2>6, <3>1 DEF Here, IsTable
  <2>8. hooked' = [hooked EXCEPT ![r] = q.index]  BY <1>2, <1>4
  <2>9. \A t \in Runs : hooked'[t] = IF t = r THEN q.index ELSE hooked[t]
    BY <2>0, <2>8 DEF Hooks
  <2>10. hooked' \in [Runs -> Nat]  BY <2>0, <2>7, <2>8 DEF Hooks
  <2>11. ASSUME NEW t \in Runs, t # r
         PROVE  hooked'[t] < next' /\ (~detached' => HookStays(t)')
    BY <1>1, <1>2, <2>0, <2>9, <2>11, TakeHooks
  <2>12. hooked'[r] < next' /\ HookStays(r)'  BY <2>6, <2>7, <2>9 DEF HookStays
  <2>13. Hooks'  BY <2>10, <2>11, <2>12 DEF Hooks
  <2>14. OneHookPerLink'
    <3> SUFFICES ASSUME ~detached', NEW t \in Runs, NEW u \in Runs, t # u, hooked'[t] # 0
                 PROVE  hooked'[t] # hooked'[u]
      BY DEF OneHookPerLink
    <3>1. ~detached  BY <2>1
    <3>2. \A v \in Runs : v # r => hooked[v] # q.index
      BY <2>0, <2>6, <2>7, <3>1 DEF Hooks, HookStays
    <3>3. CASE t # r /\ u # r  BY <2>0, <2>9, <3>1, <3>3 DEF OneHookPerLink
    <3>4. CASE t = r  BY <2>9, <3>2, <3>4
    <3>5. CASE u = r  BY <2>9, <3>2, <3>5
    <3> QED BY <3>3, <3>4, <3>5
  <2> QED BY <2>1, <2>2, <2>13, <2>14 DEF IInv
<1>5. a.ok \in BOOLEAN
  <2>1. next \in Nat \ {0} /\ IsTable(links, next)  BY DEF IInv, Kernel
  <2>2. Fair(links, next, Handle(links, next, q))  BY <1>1, <2>1, HandleKeeps
  <2>3. Fair(links, next, Refuse(links))  BY <2>1, RefuseIsFair
  <2> QED BY <2>2, <2>3 DEF Answer, Fair
<1> QED BY <1>3, <1>4

LEMMA NetlinkStep ==
  ASSUME IInv, NEW r \in Runs, Netlink(r)
  PROVE  IInv'
<1>1. CASE AddVeth(r)  BY <1>1, MessageTypes, TakeExit DEF AddVeth
<1>2. CASE AddVethIfname1(r)  BY <1>2, MessageTypes, TakeExit DEF AddVethIfname1
<1>3. CASE AddVethIfname2(r)  BY <1>3, MessageTypes, TakeExit DEF AddVethIfname2
<1>4. CASE SetMtu(r)  BY <1>4, MessageTypes, TakeExit DEF SetMtu
<1>5. CASE DelLink(r)  BY <1>5, MessageTypes, OneRequestStep DEF DelLink
<1>6. CASE SetLinkUp(r)  BY <1>6, MessageTypes, OneRequestStep DEF SetLinkUp
<1>7. CASE SetIfname(r)  BY <1>7, MessageTypes, OneRequestStep DEF SetIfname
<1>8. CASE SetNetnsFd(r)  BY <1>8, MessageTypes, OneRequestStep, ExitStep DEF SetNetnsFd
<1>9. CASE SetNetnsPid(r)  BY <1>9, MessageTypes, OneRequestStep, ExitStep DEF SetNetnsPid
<1>10. CASE AddAddr(r)  BY <1>10, MessageTypes, OneRequestStep DEF AddAddr
<1>11. CASE DelAddr(r)  BY <1>11, MessageTypes, OneRequestStep DEF DelAddr
<1>12. CASE AddQdisc(r)  BY <1>12, MessageTypes, OneRequestStep DEF AddQdisc
<1>13. CASE DelQdisc(r)  BY <1>13, MessageTypes, OneRequestStep DEF DelQdisc
<1>14. CASE AddTcfilter(r)  BY <1>14, MessageTypes, OneRequestStep DEF AddTcfilter
<1>15. CASE TcDetach(r)  BY <1>15, MessageTypes, OneRequestStep DEF TcDetach
<1>16. CASE Send(r)
  <2>1. req[r].type \in AllTypes  BY <1>16 DEF Send, IInv, Requests, Sending
  <2> QED BY <1>16, <2>1, TakeExit DEF Send
<1> QED
  BY <1>1, <1>2, <1>3, <1>4, <1>5, <1>6, <1>7, <1>8, <1>9, <1>10, <1>11, <1>12, <1>13,
     <1>14, <1>15, <1>16 DEF Netlink

LEMMA LoaderStep ==
  ASSUME IInv, NEW r \in Runs, Loader(r)
  PROVE  IInv'
<1>0. Requests  BY DEF IInv
<1>1. CASE TcAttach(r)  BY <1>1, MessageTypes, LookupStep, ExitStep DEF TcAttach
<1>2. CASE TcAttachQdisc(r)
  <2>1. req[r].type \in AllTypes  BY <1>0, <1>2 DEF TcAttachQdisc, Requests, Sending
  <2>2. PICK a \in Answer(req[r]) : Take(req[r], a)  BY <1>2 DEF TcAttachQdisc
  <2>3. UNCHANGED hooked  BY <1>2 DEF TcAttachQdisc
  <2>4. Kernel' /\ Hooks' /\ OneHookPerLink'  BY <2>1, <2>2, <2>3, TakeInv DEF IInv
  <2>5. Requests'
    <3>1. pc' = [pc EXCEPT ![r] = "lookup"] /\ req' = [req EXCEPT ![r] = NoReq]
      BY <1>2 DEF TcAttachQdisc
    <3> QED BY <1>0, <3>1, RequestsStep DEF Sending
  <2> QED BY <2>4, <2>5 DEF IInv
<1>3. CASE TcAttachLookup(r)  BY <1>3, MessageTypes, LookupStep DEF TcAttachLookup
<1>4. CASE TcAttachFilter(r)
  <2>1. req[r].type \in AllTypes  BY <1>0, <1>4 DEF TcAttachFilter, Requests, Sending
  <2> QED BY <1>4, <2>1, TakeExit DEF TcAttachFilter
<1>5. CASE TcAttach2(r)
  <2>1. \A i : HookCreateMsg(i).type \in AllTypes  BY MessageTypes DEF AllTypes
  <2> QED BY <1>5, <2>1, MessageTypes, LookupStep, ExitStep DEF TcAttach2
<1>6. CASE HookCreate(r)  BY <1>6, HookCreateStep
<1>7. CASE HookAttach(r)
  <2>1. req[r].type \in AllTypes  BY <1>0, <1>7 DEF HookAttach, Requests, Sending
  <2> QED BY <1>7, <2>1, TakeExit DEF HookAttach
<1>8. CASE TcDetach2(r)  BY <1>8, MessageTypes, LookupStep DEF TcDetach2
<1>9. CASE XdpAttach(r)  BY <1>9, MessageTypes, LookupStep, ExitStep DEF XdpAttach
<1>10. CASE XdpDetach(r)  BY <1>10, MessageTypes, LookupStep DEF XdpDetach
<1>11. CASE Checked(r)
  <2>1. req[r].type \in AllTypes  BY <1>0, <1>11 DEF Checked, Requests, Sending
  <2> QED BY <1>11, <2>1, TakeExit DEF Checked
<1> QED
  BY <1>1, <1>2, <1>3, <1>4, <1>5, <1>6, <1>7, <1>8, <1>9, <1>10, <1>11 DEF Loader

\* As long as no qdisc is deleted, no two runs of tc-attach2 create the hook
\* of one link: bpf_tc_hook_create() is refused for all but the first.
THEOREM OneHook == Spec => []OneHookPerLink
<1>1. Init => IInv  BY InitIInv
<1>2. IInv /\ [Next]_vars => IInv'
  <2> SUFFICES ASSUME IInv, [Next]_vars PROVE IInv'  OBVIOUS
  <2>1. CASE Next  BY <2>1, NetlinkStep, LoaderStep DEF Next
  <2>2. CASE UNCHANGED vars
    BY <2>2 DEF vars, runVars, IInv, Kernel, Requests, Hooks, HookStays, OneHookPerLink
  <2> QED BY <2>1, <2>2
<1>3. IInv => OneHookPerLink  BY DEF IInv
<1> QED BY <1>1, <1>2, <1>3, PTL DEF Spec
-----------------------------------------------------------------------------
(* What the requests ask for.  What a step does to the links depends on    *)
(* the request, which was filled at an earlier step: the invariant says of *)
(* each request that waits what its program has put into it.               *)

LinkTypes == {"NEWLINK", "SETLINK"}
Asked(q) == q.netns \/ q.mtu \/ Renames(q)

\* A link request: what it changes besides the flags it changes with the link
\* down, and without an index it can change the flags only.
AsksLink(q) ==
  /\ q.ifname \in LinkNames \cup {NoName} /\ q.peer \in LinkNames \cup {NoName}
  /\ q.flags \subseteq Flags /\ q.change = TRUE
  /\ Asked(q) => "UP" \notin q.flags
  /\ q.index = 0 /\ q.ifname # NoName =>
       q.flags = {} /\ ~q.mtu /\ ~q.netns /\ q.ifname \in NewNames \cup {"vethA"}

\* What run r puts into a request.
Asks(q, r) ==
  /\ q.type \in AllTypes
  /\ q.type \in LinkTypes => AsksLink(q)
  /\ q.type = "DELLINK" => q.ifname = NoName
  /\ q.type = "NEWTFILTER" => q.owner = r
  /\ q.type = "SETXDP" => q.attach \in BOOLEAN

\* The request that waits has the index of a link the run found, or none.
Found(q, B) == q.index = 0 \/ q.index \in B

Places == {"start", "send", "qdisc", "lookup", "filter", "hook", "attach", "checked", "done"}
Waiting(r) ==
  /\ pc[r] \in Sending => Asks(req[r], r) /\ Found(req[r], bore[r])
  /\ pc[r] \notin Sending => req[r] = NoReq
  /\ pc[r] = "start" => bore[r] = {}
  /\ pc[r] = "send" /\ req[r].index = 0 => bore[r] = {}
  /\ pc[r] \in Sending \ {"send"} => req[r].type \notin LinkTypes \cup {"DELLINK"}
  /\ pc[r] = "attach" => req[r].type = "NEWTFILTER"
  /\ pc[r] = "qdisc" => req[r].type = "NEWQDISC"
  /\ pc[r] # "done" => r \notin took /\ status[r] = "none"
Programs ==
  /\ pc \in [Runs -> Places] /\ req = [r \in Runs |-> req[r]]
  /\ status \in [Runs -> {"none", "zero", "error"}]
  /\ bore = [r \in Runs |-> bore[r]]
  /\ took \subseteq Runs
  /\ \A r \in Runs : bore[r] \subseteq 1 .. (next - 1)
  /\ \A r \in Runs : Waiting(r)

\* The links are what the type invariant says, and peers are each other's.
LinksOK(L) == \A i \in DOMAIN L : LinkOK(L[i])
Paired(L) ==
  \A i \in DOMAIN L : L[i].peer # 0 =>
    L[i].peer \in DOMAIN L /\ L[L[i].peer].peer = i

Known == LinksOK(links) /\ Paired(links) /\ Programs


-----------------------------------------------------------------------------
(* What a request does to the table, handler by handler.                   *)

\* A link keeps what only link requests change.
KeepsLink(l, m) ==
  /\ m.name = l.name /\ m.here = l.here /\ m.flags = l.flags /\ m.mtu = l.mtu
  /\ m.peer = l.peer
  /\ LinkOK(l) => LinkOK(m)

OnlyAt(L, M, i) ==
  /\ i \in DOMAIN L /\ DOMAIN M = DOMAIN L
  /\ \A j \in DOMAIN L : j # i => M[j] = L[j]

EditsLink(L, q, M) ==
  LET i == Target(L, q)
  IN  q.type \in LinkTypes /\ Here(L, i) /\ OnlyAt(L, M, i) /\ M[i] = Changed(L[i], q)
EditsOther(L, q, M) ==
  LET i == q.index
  IN  q.type \notin LinkTypes /\ Here(L, i) /\ OnlyAt(L, M, i) /\ KeepsLink(L[i], M[i])
Removes(L, q, M) ==
  LET i == Target(L, q)
  IN  /\ q.type = "DELLINK" /\ Here(L, i)
      /\ DOMAIN M = DOMAIN L \ {i, L[i].peer}
      /\ \A j \in DOMAIN M : M[j] = L[j]
Adds(L, n, q, M) ==
  /\ q.type = "NEWLINK"
  /\ DOMAIN M = DOMAIN L \cup {n, n + 1}
  /\ \A j \in DOMAIN L : M[j] = L[j]
  /\ M[n].peer = n + 1 /\ M[n + 1].peer = n
  /\ AsksLink(q) => LinkOK(M[n]) /\ LinkOK(M[n + 1])

Effect(L, n, q, a) ==
  \/ a = Refuse(L)
  \/ a = Done(a.links) /\ \/ EditsLink(L, q, a.links) \/ EditsOther(L, q, a.links)
                          \/ Removes(L, q, a.links) \/ Adds(L, n, q, a.links)

LEMMA DoneLinks == \A M : Done(M).links = M
  BY DEF Done

LEMMA SetLinkEffect ==
  ASSUME NEW L, NEW n \in Nat, IsTable(L, n), NEW q, q.type \in LinkTypes
  PROVE  Effect(L, n, q, RtmSetLink(L, q))
<1> DEFINE i == Target(L, q)
           M == [L EXCEPT ![i] = Changed(L[i], q)]
<1>1. RtmSetLink(L, q) = Refuse(L) \/ (Here(L, i) /\ RtmSetLink(L, q) = Done(M))
  BY DEF RtmSetLink
<1>2. ASSUME Here(L, i)  PROVE  OnlyAt(L, M, i) /\ M[i] = Changed(L[i], q)
  <2> HIDE DEF i
  <2> QED BY <1>2 DEF OnlyAt, Here, IsTable
<1>3. Here(L, i) => EditsLink(L, q, M)  BY <1>2 DEF EditsLink
<1> HIDE DEF M
<1> QED BY <1>1, <1>3, DoneLinks DEF Effect

\* A free name is a name of the list.
LEMMA AutoNameIsName ==
  ASSUME NEW L, NEW but, FreeNames(L, but) # {}
  PROVE  AutoName(L, but) \in LinkNames
<1>1. FreeNames(L, but) \subseteq 1 .. 8  BY DEF FreeNames, AutoNames
<1>2. \E k \in FreeNames(L, but) : \A j \in FreeNames(L, but) : k <= j
  <2> DEFINE F == FreeNames(L, but)
  <2>1. F \subseteq 1 .. 8 /\ F # {}  BY <1>1
  <2> HIDE DEF F
  <2>2. \E k \in F : \A j \in F : k <= j
    <3>1. CASE 1 \in F  BY <2>1, <3>1
    <3>2. CASE 1 \notin F /\ 2 \in F  BY <2>1, <3>2
    <3>3. CASE F \cap (1 .. 2) = {} /\ 3 \in F  BY <2>1, <3>3
    <3>4. CASE F \cap (1 .. 3) = {} /\ 4 \in F  BY <2>1, <3>4
    <3>5. CASE F \cap (1 .. 4) = {} /\ 5 \in F  BY <2>1, <3>5
    <3>6. CASE F \cap (1 .. 5) = {} /\ 6 \in F  BY <2>1, <3>6
    <3>7. CASE F \cap (1 .. 6) = {} /\ 7 \in F  BY <2>1, <3>7
    <3>8. CASE F \cap (1 .. 7) = {}
      <4>1. \A j \in F : j \in 1 .. 8 /\ j \notin 1 .. 7  BY <2>1, <3>8
      <4>2. \A j \in F : j = 8  BY <4>1
      <4>3. 8 \in F  BY <2>1, <4>2
      <4> QED BY <4>2, <4>3
    <3> QED BY <3>1, <3>2, <3>3, <3>4, <3>5, <3>6, <3>7, <3>8
  <2> QED BY <2>2 DEF F
<1>3. (CHOOSE k \in FreeNames(L, but) : \A j \in FreeNames(L, but) : k <= j) \in 1 .. 8
  BY <1>1, <1>2
<1>4. DOMAIN AutoNames = 1 .. 8  BY DEF AutoNames
<1> QED BY <1>3, <1>4 DEF AutoName, LinkNames

LEMMA NewLinkOK ==
  ASSUME NEW name \in LinkNames, NEW flags \in SUBSET Flags, NEW peer \in Nat
  PROVE  LinkOK(Link(name, flags, peer)) /\ Link(name, flags, peer).peer = peer
BY DEF LinkOK, Link

LEMMA CreateEffect ==
  ASSUME NEW L, NEW n \in Nat \ {0}, IsTable(L, n), NEW q, q.type = "NEWLINK"
  PROVE  Effect(L, n, q, Create(L, n, q))
<1> DEFINE peerName == IF q.peer # NoName THEN q.peer ELSE AutoName(L, {q.ifname})
           name == IF q.ifname # NoName THEN q.ifname ELSE AutoName(L, {peerName})
           peerFlags == IF q.peer # NoName THEN {} ELSE {"MULTICAST"}
           pair == [i \in {n, n + 1} |-> IF i = n THEN Link(peerName, peerFlags, n + 1)
                                                  ELSE Link(name, q.flags, n)]
           M == [i \in DOMAIN L \cup DOMAIN pair |-> IF i \in DOMAIN L THEN L[i] ELSE pair[i]]
           named == /\ q.peer = NoName => FreeNames(L, {q.ifname}) # {}
                    /\ q.ifname = NoName => FreeNames(L, {peerName}) # {}
<1>1. Create(L, n, q) = Refuse(L) \/ (named /\ Create(L, n, q) = Done(M))
  BY DEF Create
<1>2. CASE Create(L, n, q) = Refuse(L)  BY <1>2 DEF Effect
<1>3. CASE named /\ Create(L, n, q) = Done(M)
  <2>1. AsksLink(q) => peerName \in LinkNames /\ name \in LinkNames
    <3>1. AsksLink(q) => peerName \in LinkNames  BY <1>3, AutoNameIsName DEF AsksLink
    <3> HIDE DEF peerName
    <3>2. AsksLink(q) => name \in LinkNames  BY <1>3, AutoNameIsName DEF AsksLink
    <3> QED BY <3>1, <3>2
  <2>2. peerFlags \subseteq Flags  BY DEF Flags
  <2> HIDE DEF peerName, name, peerFlags, named
  <2>3. pair[n] = Link(peerName, peerFlags, n + 1) /\ pair[n + 1] = Link(name, q.flags, n)
        /\ DOMAIN pair = {n, n + 1}
    OBVIOUS
  <2>4. n \notin DOMAIN L /\ n + 1 \notin DOMAIN L  BY DEF IsTable
  <2> HIDE DEF pair
  <2>5. /\ DOMAIN M = DOMAIN L \cup {n, n + 1}
        /\ \A j \in DOMAIN L : M[j] = L[j]
        /\ M[n] = Link(peerName, peerFlags, n + 1) /\ M[n + 1] = Link(name, q.flags, n)
    BY <2>3, <2>4
  <2> HIDE DEF M
  <2>6. M[n].peer = n + 1 /\ M[n + 1].peer = n  BY <2>5 DEF Link
  <2>7. AsksLink(q) => LinkOK(M[n]) /\ LinkOK(M[n + 1])
    <3> SUFFICES ASSUME AsksLink(q)  PROVE  LinkOK(M[n]) /\ LinkOK(M[n + 1])
      OBVIOUS
    <3>1. n \in Nat /\ n + 1 \in Nat /\ peerFlags \in SUBSET Flags  BY <2>2
    <3>2. peerName \in LinkNames /\ name \in LinkNames /\ q.flags \in SUBSET Flags
      BY <2>1 DEF AsksLink
    <3>3. LinkOK(Link(peerName, peerFlags, n + 1))  BY <3>1, <3>2, NewLinkOK
    <3>4. LinkOK(Link(name, q.flags, n))  BY <3>1, <3>2, NewLinkOK
    <3> QED BY <2>5, <3>3, <3>4
  <2>8. Adds(L, n, q, M)  BY <2>5, <2>6, <2>7 DEF Adds
  <2> QED BY <1>3, <2>8, DoneLinks DEF Effect
<1> QED BY <1>1, <1>2, <1>3

LEMMA DelLinkEffect ==
  ASSUME NEW L, NEW n \in Nat, IsTable(L, n), NEW q, q.type = "DELLINK"
  PROVE  Effect(L, n, q, RtmDelLink(L, q))
<1> DEFINE i == Target(L, q)
           M == [j \in DOMAIN L \ {i, L[i].peer} |-> L[j]]
<1>1. RtmDelLink(L, q) = Refuse(L) \/ (Here(L, i) /\ RtmDelLink(L, q) = Done(M))
  BY DEF RtmDelLink
<1>2. Here(L, i) => Removes(L, q, M)  BY DEF Removes
<1> HIDE DEF M
<1> QED BY <1>1, <1>2, DoneLinks DEF Effect

LEMMA SetIfEffect ==
  ASSUME NEW L, NEW n \in Nat, IsTable(L, n), NEW q, q.type \notin LinkTypes,
         NEW guard, NEW l, guard => Here(L, q.index) /\ KeepsLink(L[q.index], l)
  PROVE  Effect(L, n, q, SetIf(L, q.index, guard, l))
<1> DEFINE i == q.index
           M == [L EXCEPT ![i] = l]
<1>1. CASE ~guard  BY <1>1 DEF SetIf, Effect
<1>2. CASE guard
  <2>1. SetIf(L, i, guard, l) = Done(M)  BY <1>2 DEF SetIf
  <2>2. OnlyAt(L, M, i) /\ M[i] = l
    <3> HIDE DEF i
    <3> QED BY <1>2 DEF OnlyAt, Here, IsTable, i
  <2>3. EditsOther(L, q, M)  BY <1>2, <2>2 DEF EditsOther
  <2> HIDE DEF M
  <2> QED BY <2>1, <2>3, DoneLinks DEF Effect
<1> QED BY <1>1, <1>2

\* The fields that requests other than link requests set.
LEMMA SetKeepsLink ==
  ASSUME NEW l, IsLink(l), NEW v \in BOOLEAN, NEW w \in Runs
  PROVE  /\ KeepsLink(l, [l EXCEPT !.addr = v])
         /\ KeepsLink(l, [l EXCEPT !.clsact = v])
         /\ KeepsLink(l, [l EXCEPT !.xdp = v])
         /\ KeepsLink(l, [l EXCEPT !.clsact = v, !.filters = {}])
         /\ KeepsLink(l, [l EXCEPT !.filters = @ \cup {w}])
<1>1. KeepsLink(l, [l EXCEPT !.addr = v])  BY DEF KeepsLink, LinkOK, IsLink, Fields
<1>2. KeepsLink(l, [l EXCEPT !.clsact = v])  BY DEF KeepsLink, LinkOK, IsLink, Fields
<1>3. KeepsLink(l, [l EXCEPT !.xdp = v])  BY DEF KeepsLink, LinkOK, IsLink, Fields
<1>4. KeepsLink(l, [l EXCEPT !.clsact = v, !.filters = {}])
  BY DEF KeepsLink, LinkOK, IsLink, Fields
<1>5. KeepsLink(l, [l EXCEPT !.filters = @ \cup {w}])  BY DEF KeepsLink, LinkOK, IsLink, Fields
<1> QED BY <1>1, <1>2, <1>3, <1>4, <1>5

LEMMA HandleEffect ==
  ASSUME NEW L, NEW n \in Nat \ {0}, IsTable(L, n), NEW r \in Runs, NEW q, Asks(q, r)
  PROVE  Effect(L, n, q, Handle(L, n, q))
<1> DEFINE i == q.index
<1>0. \A j : Here(L, j) => IsLink(L[j])  BY DEF Here, IsTable
<1>1. CASE q.type = "NEWLINK"
  <2>1. Handle(L, n, q) \in {Refuse(L), RtmSetLink(L, q), Create(L, n, q)}
    BY <1>1 DEF Handle, RtmNewLink
  <2>2. Effect(L, n, q, Refuse(L))  BY DEF Effect
  <2> QED BY <1>1, <2>1, <2>2, SetLinkEffect, CreateEffect DEF LinkTypes
<1>2. CASE q.type = "SETLINK"  BY <1>2, SetLinkEffect DEF Handle, LinkTypes
<1>3. CASE q.type = "DELLINK"  BY <1>3, DelLinkEffect DEF Handle
<1>4. CASE q.type = "NEWADDR"
  <2>1. Here(L, i) => KeepsLink(L[i], [L[i] EXCEPT !.addr = TRUE])  BY <1>0, SetKeepsLink
  <2> QED BY <1>4, <2>1, SetIfEffect DEF Handle, RtmNewAddr, LinkTypes
<1>5. CASE q.type = "DELADDR"
  <2>1. Here(L, i) => KeepsLink(L[i], [L[i] EXCEPT !.addr = FALSE])  BY <1>0, SetKeepsLink
  <2> QED BY <1>5, <2>1, SetIfEffect DEF Handle, RtmDelAddr, LinkTypes
<1>6. CASE q.type = "NEWQDISC"
  <2>1. Here(L, i) => KeepsLink(L[i], [L[i] EXCEPT !.clsact = TRUE])  BY <1>0, SetKeepsLink
  <2> QED BY <1>6, <2>1, SetIfEffect DEF Handle, RtmNewQdisc, LinkTypes
<1>7. CASE q.type = "DELQDISC"
  <2>1. Here(L, i) => KeepsLink(L[i], [L[i] EXCEPT !.clsact = FALSE, !.filters = {}])
    BY <1>0, SetKeepsLink
  <2> QED BY <1>7, <2>1, SetIfEffect DEF Handle, RtmDelQdisc, LinkTypes
<1>8. CASE q.type = "NEWTFILTER"
  <2>1. Here(L, i) => KeepsLink(L[i], [L[i] EXCEPT !.filters = @ \cup {q.owner}])
    BY <1>0, <1>8, SetKeepsLink DEF Asks
  <2> QED BY <1>8, <2>1, SetIfEffect DEF Handle, RtmNewFilter, LinkTypes
<1>9. CASE q.type = "SETXDP"
  <2>1. Here(L, i) => KeepsLink(L[i], [L[i] EXCEPT !.xdp = q.attach])
    BY <1>0, <1>9, SetKeepsLink DEF Asks
  <2> QED BY <1>9, <2>1, SetIfEffect DEF Handle, RtmSetXdp, LinkTypes
<1> QED
  BY <1>1, <1>2, <1>3, <1>4, <1>5, <1>6, <1>7, <1>8, <1>9 DEF Asks, AllTypes

LEMMA ChangedIsOK ==
  ASSUME NEW l, IsLink(l), NEW q, AsksLink(q)
  PROVE  /\ LinkOK(l) => LinkOK(Changed(l, q))
         /\ Changed(l, q).peer = l.peer
         /\ ~Asked(q) => /\ Changed(l, q).name = l.name /\ Changed(l, q).mtu = l.mtu
                         /\ Changed(l, q).here = l.here
         /\ Asked(q) => "UP" \notin Changed(l, q).flags
<1> DEFINE moved == IF q.netns THEN Moved(l) ELSE l
           m == Changed(l, q)
<1>1. IsLink(moved)  BY DEF Moved, IsLink, Fields
<1>2. /\ LinkOK(l) => LinkOK(moved)
      /\ moved.peer = l.peer /\ moved.name = l.name /\ moved.mtu = l.mtu
      /\ ~q.netns => moved.here = l.here
  BY DEF Moved, IsLink, Fields, LinkOK
<1>3. m = [moved EXCEPT !.mtu = IF q.mtu THEN "set" ELSE @,
                        !.name = IF Renames(q) THEN q.ifname ELSE @,
                        !.flags = IF q.change THEN q.flags ELSE @]
  BY DEF Changed
<1> HIDE DEF moved, m
<1>4. /\ m.mtu = IF q.mtu THEN "set" ELSE moved.mtu
      /\ m.name = IF Renames(q) THEN q.ifname ELSE moved.name
      /\ m.flags = q.flags
      /\ m.here = moved.here /\ m.peer = moved.peer /\ m.addr = moved.addr
      /\ m.clsact = moved.clsact /\ m.filters = moved.filters /\ m.xdp = moved.xdp
  BY <1>1, <1>3 DEF IsLink, Fields, AsksLink
<1>5. Renames(q) => q.ifname \in LinkNames  BY DEF Renames, AsksLink
<1>6. LinkOK(l) => LinkOK(m)
  <2> SUFFICES ASSUME LinkOK(moved)  PROVE  LinkOK(m)  BY <1>2
  <2>1. m.name \in LinkNames  BY <1>4, <1>5 DEF LinkOK
  <2>2. m.flags \subseteq Flags  BY <1>4 DEF AsksLink
  <2>3. m.mtu \in {"default", "set"}  BY <1>4 DEF LinkOK
  <2>4. /\ m.here \in BOOLEAN /\ m.peer \in Nat /\ m.addr \in BOOLEAN /\ m.clsact \in BOOLEAN
        /\ m.xdp \in BOOLEAN /\ m.filters \subseteq Runs
    BY <1>4 DEF LinkOK
  <2> QED BY <2>1, <2>2, <2>3, <2>4 DEF LinkOK
<1>7. ~Asked(q) => m.name = l.name /\ m.mtu = l.mtu /\ m.here = l.here
  BY <1>2, <1>4 DEF Asked
<1>8. Asked(q) => "UP" \notin m.flags  BY <1>4 DEF AsksLink
<1> QED BY <1>2, <1>4, <1>6, <1>7, <1>8 DEF m

LEMMA EffectIsOK ==
  ASSUME NEW L, NEW n \in Nat \ {0}, IsTable(L, n), NEW r \in Runs, NEW q, Asks(q, r),
         NEW a, Effect(L, n, q, a), LinksOK(L), Paired(L)
  PROVE  LinksOK(a.links) /\ Paired(a.links)
<1> DEFINE M == a.links
<1>0. /\ \A j \in DOMAIN L : j \in Nat /\ j # 0 /\ j < n /\ IsLink(L[j])
      /\ \A j \in DOMAIN L : LinkOK(L[j])
      /\ \A j \in DOMAIN L : L[j].peer # 0 =>
           L[j].peer \in DOMAIN L /\ L[L[j].peer].peer = j
  BY DEF IsTable, LinksOK, Paired
<1>1. CASE a = Refuse(L)  BY <1>1 DEF Refuse
<1> HIDE DEF M
<1>2. CASE EditsLink(L, q, M)
  <2> DEFINE i == Target(L, q)
  <2>1. /\ i \in DOMAIN L /\ DOMAIN M = DOMAIN L /\ M[i] = Changed(L[i], q)
        /\ \A j \in DOMAIN L : j # i => M[j] = L[j]
    BY <1>2 DEF EditsLink, OnlyAt
  <2>2. AsksLink(q)  BY <1>2 DEF EditsLink, Asks
  <2> HIDE DEF i
  <2>3. LinkOK(M[i]) /\ M[i].peer = L[i].peer  BY <1>0, <2>1, <2>2, ChangedIsOK
  <2>4. \A j \in DOMAIN L : LinkOK(M[j]) /\ M[j].peer = L[j].peer  BY <1>0, <2>1, <2>3
  <2> QED BY <1>0, <2>1, <2>4 DEF LinksOK, Paired, M
<1>3. CASE EditsOther(L, q, M)
  <2> DEFINE i == q.index
  <2>1. /\ i \in DOMAIN L /\ DOMAIN M = DOMAIN L /\ KeepsLink(L[i], M[i])
        /\ \A j \in DOMAIN L : j # i => M[j] = L[j]
    BY <1>3 DEF EditsOther, OnlyAt
  <2> HIDE DEF i
  <2>2. \A j \in DOMAIN L : LinkOK(M[j]) /\ M[j].peer = L[j].peer
    BY <1>0, <2>1 DEF KeepsLink
  <2> QED BY <1>0, <2>1, <2>2 DEF LinksOK, Paired, M
<1>4. CASE Removes(L, q, M)
  <2> DEFINE i == Target(L, q)
  <2>1. /\ i \in DOMAIN L /\ DOMAIN M = DOMAIN L \ {i, L[i].peer}
        /\ \A j \in DOMAIN M : M[j] = L[j]
    BY <1>4 DEF Removes, Here
  <2> HIDE DEF i
  <2>2. LinksOK(M)  BY <1>0, <2>1 DEF LinksOK
  <2>3. ASSUME NEW j \in DOMAIN M, M[j].peer # 0
        PROVE  M[j].peer \in DOMAIN M /\ M[M[j].peer].peer = j
    <3> DEFINE p == L[j].peer
    <3>1. j \in DOMAIN L /\ M[j].peer = p /\ p \in DOMAIN L /\ L[p].peer = j
      BY <1>0, <2>1, <2>3
    <3>2. p # i  BY <2>1, <3>1
    <3>3. p # L[i].peer
      <4>1. SUFFICES ASSUME p = L[i].peer  PROVE FALSE  OBVIOUS
      <4>2. L[i].peer # 0 /\ L[p].peer = i  BY <1>0, <2>1, <3>1, <4>1
      <4> QED BY <2>1, <3>1, <4>2
    <3> QED BY <2>1, <3>1, <3>2, <3>3
  <2> QED BY <2>2, <2>3 DEF Paired, M
<1>5. CASE Adds(L, n, q, M)
  <2>1. /\ DOMAIN M = DOMAIN L \cup {n, n + 1}
        /\ \A j \in DOMAIN L : M[j] = L[j]
        /\ M[n].peer = n + 1 /\ M[n + 1].peer = n
        /\ LinkOK(M[n]) /\ LinkOK(M[n + 1])
    BY <1>5 DEF Adds, Asks, LinkTypes
  <2>2. LinksOK(M)  BY <1>0, <2>1 DEF LinksOK
  <2>3. ASSUME NEW j \in DOMAIN M, M[j].peer # 0
        PROVE  M[j].peer \in DOMAIN M /\ M[M[j].peer].peer = j
    <3>1. CASE j \in DOMAIN L  BY <1>0, <2>1, <2>3, <3>1
    <3>2. CASE j = n \/ j = n + 1  BY <2>1, <3>2
    <3> QED BY <2>1, <3>1, <3>2
  <2> QED BY <2>2, <2>3 DEF Paired, M
<1> QED BY <1>1, <1>2, <1>3, <1>4, <1>5 DEF Effect, M

-----------------------------------------------------------------------------
(* The programs: what they put into requests, and where that leads.        *)

LEMMA MessagesAsk ==
  ASSUME NEW r \in Runs
  PROVE  /\ Asks(AddVethMsg, r) /\ Asks(AddVethIfname1Msg, r)
         /\ Asks(AddVethIfname2Msg, r) /\ Asks(SetMtuMsg, r)
         /\ \A i :
              /\ Asks(DelLinkMsg(i), r) /\ Asks(SetLinkUpMsg(i), r)
              /\ Asks(SetNetnsFdMsg(i), r) /\ Asks(SetNetnsPidMsg(i), r)
              /\ Asks(AddAddrMsg(i), r) /\ Asks(DelAddrMsg(i), r)
              /\ Asks(AddQdiscMsg(i), r) /\ Asks(DelQdiscMsg(i), r)
              /\ Asks(TcDetachMsg(i), r)
              /\ Asks(TcAttachQdiscMsg(i), r) /\ Asks(TcAttachFilterMsg(i, r), r)
              /\ Asks(HookCreateMsg(i), r) /\ Asks(HookAttachMsg(i, r), r)
              /\ Asks(HookDestroyMsg(i), r)
         /\ \A i : \A new \in NewNames : Asks(SetIfnameMsg(i, new), r)
         /\ \A i : \A x \in BOOLEAN :
              Asks(AddTcfilterMsg(i, r, x), r) /\ Asks(XdpMsg(i, x), r)
<1> USE DEF Asks, AllTypes, LinkTypes, AsksLink, Asked, Renames, LinkMsg, NoName, Flags,
            LinkNames
<1>1. Asks(AddVethMsg, r)  BY DEF AddVethMsg
<1>2. Asks(AddVethIfname1Msg, r)  BY DEF AddVethIfname1Msg
<1>3. Asks(AddVethIfname2Msg, r)  BY DEF AddVethIfname2Msg
<1>4. Asks(SetMtuMsg, r)  BY DEF SetMtuMsg, Lo
<1>5. ASSUME NEW i
      PROVE  /\ Asks(DelLinkMsg(i), r) /\ Asks(SetLinkUpMsg(i), r)
             /\ Asks(SetNetnsFdMsg(i), r) /\ Asks(SetNetnsPidMsg(i), r)
  BY DEF DelLinkMsg, SetLinkUpMsg, SetNetnsFdMsg, SetNetnsPidMsg
<1>6. ASSUME NEW i
      PROVE  /\ Asks(AddAddrMsg(i), r) /\ Asks(DelAddrMsg(i), r)
             /\ Asks(AddQdiscMsg(i), r) /\ Asks(DelQdiscMsg(i), r)
             /\ Asks(TcDetachMsg(i), r)
             /\ Asks(TcAttachQdiscMsg(i), r) /\ Asks(TcAttachFilterMsg(i, r), r)
             /\ Asks(HookCreateMsg(i), r) /\ Asks(HookAttachMsg(i, r), r)
             /\ Asks(HookDestroyMsg(i), r)
  BY DEF AddAddrMsg, DelAddrMsg, AddQdiscMsg, DelQdiscMsg, TcDetachMsg, TcAttachQdiscMsg,
         TcAttachFilterMsg, HookCreateMsg, HookAttachMsg, HookDestroyMsg
<1>7. ASSUME NEW i, NEW new \in NewNames  PROVE  Asks(SetIfnameMsg(i, new), r)
  <2> DEFINE m == SetIfnameMsg(i, new)
  <2>1. /\ m.type = "NEWLINK" /\ m.ifname = new /\ m.peer = NoName /\ m.flags = {}
        /\ m.change = TRUE /\ ~m.mtu /\ ~m.netns
    BY DEF SetIfnameMsg
  <2> HIDE DEF m
  <2>2. new \in LinkNames  OBVIOUS
  <2>3. m.ifname \in LinkNames /\ m.peer \in {NoName}  BY <2>1, <2>2
  <2>4. "UP" \notin m.flags /\ m.flags \subseteq Flags  BY <2>1
  <2>5. m.flags = {} /\ ~m.mtu /\ ~m.netns /\ m.ifname \in NewNames  BY <2>1
  <2> HIDE DEF LinkNames, Asked
  <2>6. AsksLink(m)  BY <2>1, <2>3, <2>4, <2>5 DEF AsksLink
  <2> QED BY <2>1, <2>6 DEF m
<1>8. ASSUME NEW i, NEW x \in BOOLEAN
      PROVE  Asks(AddTcfilterMsg(i, r, x), r) /\ Asks(XdpMsg(i, x), r)
  BY DEF AddTcfilterMsg, XdpMsg
<1> HIDE DEF Asks
<1> QED BY <1>1, <1>2, <1>3, <1>4, <1>5, <1>6, <1>7, <1>8

LEMMA Widen == \A m, n \in Nat : m <= n => 1 .. (m - 1) \subseteq 1 .. (n - 1)
  OBVIOUS

LEMMA ProgramsMove ==
  ASSUME Programs, next \in Nat, next' \in Nat, next <= next', NEW r \in Runs,
         NEW p \in Places, NEW q, pc' = [pc EXCEPT ![r] = p], req' = [req EXCEPT ![r] = q],
         NEW B \in SUBSET (1 .. (next' - 1)), bore' = [bore EXCEPT ![r] = B],
         NEW s \in {"none", "zero", "error"}, status' = [status EXCEPT ![r] = s],
         took' \subseteq took \cup {r}, Waiting(r)'
  PROVE  Programs'
<1>1. /\ pc' \in [Runs -> Places] /\ req' = [t \in Runs |-> req'[t]]
      /\ status' \in [Runs -> {"none", "zero", "error"}]
      /\ bore' = [t \in Runs |-> bore'[t]]
      /\ took' \subseteq Runs
  BY DEF Programs
<1>2. \A t \in Runs : t # r => /\ pc'[t] = pc[t] /\ req'[t] = req[t] /\ bore'[t] = bore[t]
                               /\ status'[t] = status[t]
                               /\ t \in took' => t \in took
  BY DEF Programs
<1>3. bore'[r] = B  BY DEF Programs
<1>4. \A t \in Runs : bore'[t] \subseteq 1 .. (next' - 1)
  <2> TAKE t \in Runs
  <2>1. CASE t = r  BY <1>3, <2>1
  <2>2. CASE t # r
    <3>1. bore'[t] = bore[t] /\ bore[t] \subseteq 1 .. (next - 1)
      BY <1>2, <2>2 DEF Programs
    <3>2. 1 .. (next - 1) \subseteq 1 .. (next' - 1)  BY Widen
    <3> QED BY <3>1, <3>2
  <2> QED BY <2>1, <2>2
<1>5. \A t \in Runs : Waiting(t)'
  <2> TAKE t \in Runs
  <2>1. CASE t = r  BY <2>1
  <2>2. CASE t # r
    <3>1. Waiting(t)  BY DEF Programs
    <3>2. /\ pc'[t] = pc[t] /\ req'[t] = req[t] /\ bore'[t] = bore[t]
          /\ status'[t] = status[t]
          /\ t \in took' => t \in took
      BY <1>2, <2>2
    <3> HIDE DEF Programs
    <3> QED BY <3>1, <3>2 DEF Waiting
  <2> QED BY <2>1, <2>2
<1> QED BY <1>1, <1>4, <1>5 DEF Programs

LEMMA TakeKnown ==
  ASSUME IInv, Known, NEW r \in Runs, NEW q, Asks(q, r), NEW a \in Answer(q), Take(q, a)
  PROVE  /\ Effect(links, next, q, a) /\ links' = a.links
         /\ LinksOK(links') /\ Paired(links')
         /\ next \in Nat /\ next' \in Nat /\ next <= next'
         /\ took' \subseteq took \cup {r}
         /\ q.type # "NEWTFILTER" => took' = took
<1>1. next \in Nat \ {0} /\ IsTable(links, next)  BY DEF IInv, Kernel
<1>2. Effect(links, next, q, a)
  <2>1. CASE a = Handle(links, next, q)  BY <1>1, <2>1, HandleEffect
  <2>2. CASE a = Refuse(links)  BY <2>2 DEF Effect
  <2> QED BY <2>1, <2>2 DEF Answer
<1>3. links' = a.links  BY DEF Take
<1>4. LinksOK(links') /\ Paired(links')  BY <1>1, <1>2, <1>3, EffectIsOK DEF Known
<1>5. q.type \in AllTypes  BY DEF Asks
<1>6. next' \in Nat /\ next <= next'  BY <1>5, TakeKernel DEF IInv
<1>7. q.type = "NEWTFILTER" => q.owner = r  BY DEF Asks
<1>8. /\ took' \subseteq took \cup {r}
      /\ q.type # "NEWTFILTER" => took' = took
  BY <1>7 DEF Take
<1> QED BY <1>1, <1>2, <1>3, <1>4, <1>6, <1>8

LEMMA IndexIsBearer ==
  ASSUME NEW L, NEW n
  PROVE  \/ IndexOf(L, n) = 0 /\ Bearers(L, n) = {}
         \/ IndexOf(L, n) \in Bearers(L, n)
BY DEF IndexOf

LEMMA LookupKnown ==
  ASSUME IInv, Known, NEW r \in Runs, NEW n, NEW q, NEW p \in Sending \ {"attach"},
         Lookup(r, n, q, p), Asks(q, r), q.index = IndexOf(links, n), pc[r] # "done",
         \/ p = "send" /\ pc[r] = "start"
         \/ p # "send" /\ q.type \notin LinkTypes \cup {"DELLINK"},
         p = "qdisc" => q.type = "NEWQDISC"
  PROVE  Known'
<1> DEFINE B == bore[r] \cup Bearers(links, n)
<1>1. UNCHANGED <<links, next, took, status>>  BY DEF Lookup, kernelVars
<1>2. Programs /\ Waiting(r) /\ next \in Nat /\ IsTable(links, next)
  BY DEF Known, Programs, IInv, Kernel
<1>3. /\ pc' = [pc EXCEPT ![r] = p] /\ req' = [req EXCEPT ![r] = q]
      /\ bore' = [bore EXCEPT ![r] = B]
  BY DEF Lookup
<1>4. B \in SUBSET (1 .. (next - 1))
  <2>1. \A i \in Bearers(links, n) : i \in 1 .. (next - 1)  BY <1>2 DEF Bearers, IsTable
  <2>2. bore[r] \subseteq 1 .. (next - 1)  BY <1>2 DEF Programs
  <2> QED BY <2>1, <2>2
<1>5. Found(q, B)  BY IndexIsBearer DEF Found
<1>6. p = "send" /\ q.index = 0 => B = {}
  <2> SUFFICES ASSUME p = "send", q.index = 0  PROVE B = {}  OBVIOUS
  <2>1. bore[r] = {}  BY <1>2 DEF Waiting
  <2>2. 0 \notin Bearers(links, n)  BY <1>2 DEF Bearers, IsTable
  <2> QED BY <2>1, <2>2, IndexIsBearer
<1>7. pc'[r] = p /\ req'[r] = q /\ bore'[r] = B  BY <1>2, <1>3 DEF Programs
<1>8. r \notin took' /\ status'[r] = "none"  BY <1>1, <1>2 DEF Waiting
<1>9. p \in Places /\ p # "start" /\ p \in Sending  BY DEF Sending, Places
<1> HIDE DEF B
<1>10. Waiting(r)'  BY <1>5, <1>6, <1>7, <1>8, <1>9 DEF Waiting
<1>11. status' = [status EXCEPT ![r] = status[r]] /\ status[r] \in {"none", "zero", "error"}
  BY <1>1, <1>2 DEF Programs
<1>12. next' \in Nat /\ next <= next' /\ took' \subseteq took \cup {r}
      /\ B \in SUBSET (1 .. (next' - 1))
  BY <1>1, <1>2, <1>4
<1>13. Programs'
  <2> DEFINE st == status[r]
  <2>1. status' = [status EXCEPT ![r] = st] /\ st \in {"none", "zero", "error"}  BY <1>11
  <2> HIDE DEF st
  <2> QED BY <1>2, <1>3, <1>9, <1>10, <1>12, <2>1, ProgramsMove
<1> QED BY <1>1, <1>13 DEF Known

LEMMA ExitKnown ==
  ASSUME IInv, Known, NEW r \in Runs, NEW s \in {"zero", "error"}, Exit(r, s),
         LinksOK(links'), Paired(links'), next' \in Nat, next <= next',
         took' \subseteq took \cup {r}
  PROVE  Known'
<1>1. Programs /\ next \in Nat  BY DEF Known, IInv, Kernel
<1>2. /\ pc' = [pc EXCEPT ![r] = "done"] /\ req' = [req EXCEPT ![r] = NoReq]
      /\ status' = [status EXCEPT ![r] = s] /\ bore' = [bore EXCEPT ![r] = bore[r]]
  BY <1>1 DEF Exit, Programs
<1>3. bore[r] \in SUBSET (1 .. (next' - 1))
  <2>1. bore[r] \subseteq 1 .. (next - 1)  BY <1>1 DEF Programs
  <2>2. 1 .. (next - 1) \subseteq 1 .. (next' - 1)  BY <1>1, Widen
  <2> QED BY <2>1, <2>2
<1>4. pc'[r] = "done" /\ req'[r] = NoReq  BY <1>1, <1>2 DEF Programs
<1>5. Waiting(r)'  BY <1>4 DEF Waiting, Sending
<1>6. "done" \in Places  BY DEF Places
<1>7. Programs'  BY <1>1, <1>2, <1>3, <1>5, <1>6, ProgramsMove
<1> QED BY <1>7 DEF Known

LEMMA TakeExitKnown ==
  ASSUME IInv, Known, NEW r \in Runs, NEW s \in {"zero", "error"}, Exit(r, s),
         NEW q, Asks(q, r), NEW a \in Answer(q), Take(q, a)
  PROVE  Known'
BY TakeKnown, ExitKnown

LEMMA OnlyExitKnown ==
  ASSUME IInv, Known, NEW r \in Runs, NEW s \in {"zero", "error"}, Exit(r, s),
         UNCHANGED kernelVars
  PROVE  Known'
<1>1. UNCHANGED <<links, next, took>>  BY DEF kernelVars
<1>2. next \in Nat /\ LinksOK(links) /\ Paired(links)  BY DEF IInv, Kernel, Known
<1> QED BY <1>1, <1>2, ExitKnown

LEMMA OneRequestKnown ==
  ASSUME IInv, Known, NEW r \in Runs, NEW n, NEW q, OneRequest(r, n, q), Asks(q, r),
         q.index = IndexOf(links, n)
  PROVE  Known'
<1>1. "send" \in Sending \ {"attach"}  BY DEF Sending
<1> QED BY <1>1, LookupKnown DEF OneRequest

LEMMA MessageIndex ==
  \A i, x, y :
    /\ DelLinkMsg(i).index = i /\ SetLinkUpMsg(i).index = i /\ SetIfnameMsg(i, x).index = i
    /\ SetNetnsFdMsg(i).index = i /\ SetNetnsPidMsg(i).index = i
    /\ AddAddrMsg(i).index = i /\ DelAddrMsg(i).index = i
    /\ AddQdiscMsg(i).index = i /\ DelQdiscMsg(i).index = i
    /\ TcDetachMsg(i).index = i /\ AddTcfilterMsg(i, x, y).index = i
    /\ TcAttachQdiscMsg(i).index = i /\ TcAttachFilterMsg(i, x).index = i
    /\ HookCreateMsg(i).index = i /\ HookAttachMsg(i, x).index = i
    /\ HookDestroyMsg(i).index = i /\ XdpMsg(i, x).index = i
BY DEF LinkMsg, DelLinkMsg, SetLinkUpMsg, SetIfnameMsg, SetNetnsFdMsg, SetNetnsPidMsg,
       AddAddrMsg, DelAddrMsg, AddQdiscMsg, DelQdiscMsg, TcDetachMsg, AddTcfilterMsg,
       TcAttachQdiscMsg, TcAttachFilterMsg, HookCreateMsg, HookAttachMsg, HookDestroyMsg,
       XdpMsg

LEMMA MessageType ==
  \A i, x :
    /\ TcAttachQdiscMsg(i).type = "NEWQDISC" /\ HookCreateMsg(i).type = "NEWQDISC"
    /\ TcAttachFilterMsg(i, x).type = "NEWTFILTER" /\ HookAttachMsg(i, x).type = "NEWTFILTER"
    /\ HookDestroyMsg(i).type = "DELQDISC" /\ XdpMsg(i, x).type = "SETXDP"
BY DEF TcAttachQdiscMsg, TcAttachFilterMsg, HookCreateMsg, HookAttachMsg, HookDestroyMsg,
       XdpMsg

\* A request that a run has looked a name up for asks for what it may.
LEMMA WaitingAsks ==
  ASSUME Known, NEW r \in Runs, pc[r] \in Sending
  PROVE  Asks(req[r], r) /\ Found(req[r], bore[r])
BY DEF Known, Programs, Waiting

LEMMA NetlinkKnown ==
  ASSUME IInv, Known, NEW r \in Runs, Netlink(r)
  PROVE  Known'
<1>1. CASE AddVeth(r)  BY <1>1, MessagesAsk, TakeExitKnown DEF AddVeth
<1>2. CASE AddVethIfname1(r)  BY <1>2, MessagesAsk, TakeExitKnown DEF AddVethIfname1
<1>3. CASE AddVethIfname2(r)  BY <1>3, MessagesAsk, TakeExitKnown DEF AddVethIfname2
<1>4. CASE SetMtu(r)  BY <1>4, MessagesAsk, TakeExitKnown DEF SetMtu
<1>5. CASE DelLink(r)  BY <1>5, MessagesAsk, MessageIndex, OneRequestKnown DEF DelLink
<1>6. CASE SetLinkUp(r)  BY <1>6, MessagesAsk, MessageIndex, OneRequestKnown DEF SetLinkUp
<1>7. CASE SetIfname(r)  BY <1>7, MessagesAsk, MessageIndex, OneRequestKnown DEF SetIfname
<1>8. CASE SetNetnsFd(r)
  BY <1>8, MessagesAsk, MessageIndex, OneRequestKnown, OnlyExitKnown DEF SetNetnsFd
<1>9. CASE SetNetnsPid(r)
  BY <1>9, MessagesAsk, MessageIndex, OneRequestKnown, OnlyExitKnown DEF SetNetnsPid
<1>10. CASE AddAddr(r)  BY <1>10, MessagesAsk, MessageIndex, OneRequestKnown DEF AddAddr
<1>11. CASE DelAddr(r)  BY <1>11, MessagesAsk, MessageIndex, OneRequestKnown DEF DelAddr
<1>12. CASE AddQdisc(r)  BY <1>12, MessagesAsk, MessageIndex, OneRequestKnown DEF AddQdisc
<1>13. CASE DelQdisc(r)  BY <1>13, MessagesAsk, MessageIndex, OneRequestKnown DEF DelQdisc
<1>14. CASE AddTcfilter(r)
  BY <1>14, MessagesAsk, MessageIndex, OneRequestKnown DEF AddTcfilter
<1>15. CASE TcDetach(r)  BY <1>15, MessagesAsk, MessageIndex, OneRequestKnown DEF TcDetach
<1>16. CASE Send(r)
  <2>1. Asks(req[r], r)  BY <1>16, WaitingAsks DEF Send, Sending
  <2> QED BY <1>16, <2>1, TakeExitKnown DEF Send
<1> QED
  BY <1>1, <1>2, <1>3, <1>4, <1>5, <1>6, <1>7, <1>8, <1>9, <1>10, <1>11, <1>12, <1>13,
     <1>14, <1>15, <1>16 DEF Netlink

\* A step that sends and goes on: the filter is not sent yet.
LEMMA TakeGoOnKnown ==
  ASSUME IInv, Known, NEW r \in Runs, Asks(req[r], r), req[r].type = "NEWQDISC",
         NEW a \in Answer(req[r]), Take(req[r], a), pc[r] \in Sending,
         NEW p \in {"lookup", "attach"}, NEW q,
         pc' = [pc EXCEPT ![r] = p], req' = [req EXCEPT ![r] = q],
         UNCHANGED <<status, bore>>,
         p = "lookup" => q = NoReq,
         p = "attach" => Asks(q, r) /\ q.type = "NEWTFILTER" /\ q.index = req[r].index
  PROVE  Known'
<1>1. /\ LinksOK(links') /\ Paired(links') /\ took' = took
      /\ next \in Nat /\ next' \in Nat /\ next <= next'
  BY TakeKnown
<1>2. Programs /\ Waiting(r)  BY DEF Known, Programs
<1>3. pc'[r] = p /\ req'[r] = q /\ bore'[r] = bore[r]  BY <1>2 DEF Programs
<1>4. r \notin took' /\ status'[r] = "none" /\ Found(req[r], bore[r])
  BY <1>1, <1>2 DEF Waiting, Sending
<1>5. p = "attach" => q.type \notin LinkTypes \cup {"DELLINK"}  BY DEF LinkTypes
<1>6. Waiting(r)'  BY <1>3, <1>4, <1>5 DEF Waiting, Sending, Found
<1>7. p \in Places  BY DEF Places
<1> DEFINE st == status[r]
           B == bore[r]
<1>8. /\ status' = [status EXCEPT ![r] = st] /\ st \in {"none", "zero", "error"}
      /\ bore' = [bore EXCEPT ![r] = B]
  BY <1>2 DEF Programs
<1>9. B \in SUBSET (1 .. (next' - 1))
  <2>1. B \subseteq 1 .. (next - 1)  BY <1>2 DEF Programs
  <2>2. 1 .. (next - 1) \subseteq 1 .. (next' - 1)  BY <1>1, Widen
  <2> QED BY <2>1, <2>2
<1>10. took' \subseteq took \cup {r}  BY <1>1
<1> HIDE DEF st, B
<1>11. Programs'  BY <1>1, <1>2, <1>6, <1>7, <1>8, <1>9, <1>10, ProgramsMove
<1> QED BY <1>1, <1>11 DEF Known

LEMMA LoaderKnown ==
  ASSUME IInv, Known, NEW r \in Runs, Loader(r)
  PROVE  Known'
<1>0. /\ {"qdisc", "filter", "hook", "checked"} \subseteq Sending \ {"attach", "send"}
      /\ "NEWQDISC" \notin LinkTypes \cup {"DELLINK"}
      /\ "NEWTFILTER" \notin LinkTypes \cup {"DELLINK"}
      /\ "DELQDISC" \notin LinkTypes \cup {"DELLINK"}
      /\ "SETXDP" \notin LinkTypes \cup {"DELLINK"}
  BY DEF Sending, LinkTypes
<1>1. CASE TcAttach(r)
  <2>1. CASE Exit(r, "error") /\ UNCHANGED kernelVars  BY <2>1, OnlyExitKnown
  <2>2. ASSUME NEW n \in Names, Lookup(r, n, TcAttachQdiscMsg(IndexOf(links, n)), "qdisc")
        PROVE  Known'
    <3>1. pc[r] # "done"  BY <1>1 DEF TcAttach
    <3> QED BY <1>0, <2>2, <3>1, MessagesAsk, MessageIndex, MessageType, LookupKnown
  <2> QED BY <1>1, <2>1, <2>2 DEF TcAttach
<1>2. CASE TcAttachQdisc(r)
  <2>1. pc[r] = "qdisc"  BY <1>2 DEF TcAttachQdisc
  <2>2. pc[r] \in Sending /\ Asks(req[r], r)  BY <2>1, WaitingAsks DEF Sending
  <2>3. req[r].type = "NEWQDISC"  BY <2>1 DEF Known, Programs, Waiting
  <2> QED BY <1>2, <2>2, <2>3, TakeGoOnKnown DEF TcAttachQdisc
<1>3. CASE TcAttachLookup(r)
  <2>1. pc[r] # "done"  BY <1>3 DEF TcAttachLookup
  <2> QED BY <1>0, <1>3, <2>1, MessagesAsk, MessageIndex, MessageType, LookupKnown
          DEF TcAttachLookup
<1>4. CASE TcAttachFilter(r)
  <2>1. Asks(req[r], r)  BY <1>4, WaitingAsks DEF TcAttachFilter, Sending
  <2> QED BY <1>4, <2>1, TakeExitKnown DEF TcAttachFilter
<1>5. CASE TcAttach2(r)
  <2>1. CASE Exit(r, "error") /\ UNCHANGED kernelVars  BY <2>1, OnlyExitKnown
  <2>2. ASSUME NEW n \in Names, Lookup(r, n, HookCreateMsg(IndexOf(links, n)), "hook")
        PROVE  Known'
    <3>1. pc[r] # "done"  BY <1>5 DEF TcAttach2
    <3> QED BY <1>0, <2>2, <3>1, MessagesAsk, MessageIndex, MessageType, LookupKnown
  <2> QED BY <1>5, <2>1, <2>2 DEF TcAttach2
<1>6. CASE HookCreate(r)
  <2>1. pc[r] = "hook"  BY <1>6 DEF HookCreate
  <2>2. pc[r] \in Sending /\ Asks(req[r], r)  BY <2>1, WaitingAsks DEF Sending
  <2>3. req[r].type = "NEWQDISC"  BY <2>1 DEF IInv, Requests
  <2>4. PICK a \in Answer(req[r]) :
          /\ Take(req[r], a)
          /\ \/ /\ pc' = [pc EXCEPT ![r] = "attach"]
                /\ req' = [req EXCEPT ![r] = HookAttachMsg(req[r].index, r)]
                /\ UNCHANGED <<status, bore>>
             \/ Exit(r, "error")
    BY <1>6 DEF HookCreate
  <2>5. CASE Exit(r, "error")  BY <2>2, <2>4, <2>5, TakeExitKnown
  <2>6. CASE /\ pc' = [pc EXCEPT ![r] = "attach"]
             /\ req' = [req EXCEPT ![r] = HookAttachMsg(req[r].index, r)]
             /\ UNCHANGED <<status, bore>>
    <3> DEFINE q == HookAttachMsg(req[r].index, r)
    <3>1. Asks(q, r) /\ q.type = "NEWTFILTER" /\ q.index = req[r].index
      BY MessagesAsk, MessageType, MessageIndex
    <3> HIDE DEF q
    <3>2. req' = [req EXCEPT ![r] = q]  BY <2>6 DEF q
    <3> QED BY <2>2, <2>3, <2>4, <2>6, <3>1, <3>2, TakeGoOnKnown
  <2> QED BY <2>4, <2>5, <2>6
<1>7. CASE HookAttach(r)
  <2>1. Asks(req[r], r)  BY <1>7, WaitingAsks DEF HookAttach, Sending
  <2>2. PICK a \in Answer(req[r]) : Take(req[r], a) /\ Exit(r, Status(a))
    BY <1>7 DEF HookAttach
  <2>3. Status(a) \in {"zero", "error"}  BY DEF Status
  <2> QED BY <2>1, <2>2, <2>3, TakeExitKnown
<1>8. CASE TcDetach2(r)
  <2>1. pc[r] # "done"  BY <1>8 DEF TcDetach2
  <2> QED BY <1>0, <1>8, <2>1, MessagesAsk, MessageIndex, MessageType, LookupKnown
          DEF TcDetach2
<1>9. CASE XdpAttach(r)
  <2>1. CASE Exit(r, "error") /\ UNCHANGED kernelVars  BY <2>1, OnlyExitKnown
  <2>2. ASSUME NEW n \in Names, Lookup(r, n, XdpMsg(IndexOf(links, n), TRUE), "checked")
        PROVE  Known'
    <3>1. pc[r] # "done"  BY <1>9 DEF XdpAttach
    <3>2. \A i : LET q == XdpMsg(i, TRUE) IN Asks(q, r) /\ q.index = i /\ q.type = "SETXDP"
      BY MessagesAsk DEF XdpMsg
    <3> QED BY <1>0, <2>2, <3>1, <3>2, LookupKnown
  <2> QED BY <1>9, <2>1, <2>2 DEF XdpAttach
<1>10. CASE XdpDetach(r)
  <2>1. pc[r] # "done"  BY <1>10 DEF XdpDetach
  <2>2. \A i : LET q == XdpMsg(i, FALSE) IN Asks(q, r) /\ q.index = i /\ q.type = "SETXDP"
    BY MessagesAsk DEF XdpMsg
  <2> QED BY <1>0, <1>10, <2>1, <2>2, LookupKnown
          DEF XdpDetach
<1>11. CASE Checked(r)
  <2>1. Asks(req[r], r)  BY <1>11, WaitingAsks DEF Checked, Sending
  <2>2. PICK a \in Answer(req[r]) : Take(req[r], a) /\ Exit(r, Status(a))
    BY <1>11 DEF Checked
  <2>3. Status(a) \in {"zero", "error"}  BY DEF Status
  <2> QED BY <2>1, <2>2, <2>3, TakeExitKnown
<1> QED
  BY <1>1, <1>2, <1>3, <1>4, <1>5, <1>6, <1>7, <1>8, <1>9, <1>10, <1>11 DEF Loader

LEMMA InitKnown == Init => Known
<1> SUFFICES ASSUME Init PROVE Known  OBVIOUS
<1>1. PICK pair \in BOOLEAN :
        /\ links = [i \in IF pair THEN 1 .. 3 ELSE {1} |->
                     CASE i = 1 -> Link("lo", {"UP"}, 0)
                       [] i = 2 -> Link("veth0", Flags, 3)
                       [] i = 3 -> Link("veth1", Flags, 2)]
        /\ next = IF pair THEN 4 ELSE 2
  BY DEF Init
<1>2. /\ LinkOK(Link("lo", {"UP"}, 0)) /\ Link("lo", {"UP"}, 0).peer = 0
      /\ LinkOK(Link("veth0", Flags, 3)) /\ Link("veth0", Flags, 3).peer = 3
      /\ LinkOK(Link("veth1", Flags, 2)) /\ Link("veth1", Flags, 2).peer = 2
  <2>1. {"lo", "veth0", "veth1"} \subseteq LinkNames
    <3>1. AutoNames[1] = "veth0" /\ AutoNames[2] = "veth1" /\ 1 \in DOMAIN AutoNames
          /\ 2 \in DOMAIN AutoNames
      BY DEF AutoNames
    <3> QED BY <3>1 DEF LinkNames
  <2>2. {"UP"} \in SUBSET Flags  BY DEF Flags
  <2> QED BY <2>1, <2>2, NewLinkOK
<1>3. /\ DOMAIN links = IF pair THEN 1 .. 3 ELSE {1}
      /\ links[1] = Link("lo", {"UP"}, 0)
      /\ pair => links[2] = Link("veth0", Flags, 3) /\ links[3] = Link("veth1", Flags, 2)
  BY <1>1
<1>4. \A i \in DOMAIN links : i = 1 \/ (pair /\ (i = 2 \/ i = 3))  BY <1>3
<1>5. LinksOK(links)  BY <1>2, <1>3, <1>4 DEF LinksOK
<1>6. Paired(links)  BY <1>2, <1>3, <1>4 DEF Paired
<1>7. Programs
  <2>1. \A r \in Runs : pc[r] = "start" /\ req[r] = NoReq /\ bore[r] = {} /\ r \notin took
                      /\ status[r] = "none"
    BY DEF Init
  <2>2. \A r \in Runs : Waiting(r)  BY <2>1 DEF Waiting, Sending
  <2> QED BY <2>1, <2>2 DEF Init, Programs, Places
<1> QED BY <1>5, <1>6, <1>7 DEF Known

LEMMA Invariance == Spec => [](IInv /\ Known)
<1>1. Init => IInv /\ Known  BY InitIInv, InitKnown
<1>2. IInv /\ Known /\ [Next]_vars => (IInv /\ Known)'
  <2> SUFFICES ASSUME IInv, Known, [Next]_vars PROVE (IInv /\ Known)'  OBVIOUS
  <2>1. CASE Next  BY <2>1, NetlinkStep, LoaderStep, NetlinkKnown, LoaderKnown DEF Next
  <2>2. CASE UNCHANGED vars
    <3>1. UNCHANGED <<links, next, pc, req, status, bore, hooked, took, detached>>
      BY <2>2 DEF vars, runVars
    <3>2. IInv'
      BY <3>1 DEF IInv, Kernel, Requests, Hooks, HookStays, OneHookPerLink
    <3>3. Known'
      BY <3>1 DEF Known, LinksOK, Paired, Programs, Waiting
    <3> QED BY <3>2, <3>3
  <2> QED BY <2>1, <2>2
<1> QED BY <1>1, <1>2, PTL DEF Spec

\* The type invariant of the links and the programs.
THEOREM TypeCorrect == Spec => []TypeOK
<1>1. IInv /\ Known => TypeOK
  <2> SUFFICES ASSUME IInv, Known PROVE TypeOK  OBVIOUS
  <2>1. next \in Nat \ {0} /\ IsTable(links, next) /\ detached \in BOOLEAN
    BY Zenon DEF IInv, Kernel
  <2>2. \A i \in DOMAIN links : i \in 1 .. (next - 1) /\ LinkOK(links[i])
    BY <2>1 DEF IsTable, Known, LinksOK
  <2>3. Programs  BY DEF Known
  <2>4. \A r \in Runs : hooked[r] \in 0 .. (next - 1)  BY <2>1 DEF IInv, Hooks
  <2>5. ASSUME NEW r \in Runs  PROVE req[r].index \in 0 .. (next - 1)
    <3>1. bore[r] \subseteq 1 .. (next - 1) /\ Waiting(r)  BY <2>3 DEF Programs
    <3>2. CASE pc[r] \in Sending  BY <2>1, <3>1, <3>2 DEF Waiting, Found
    <3>3. CASE pc[r] \notin Sending  BY <2>1, <3>1, <3>3 DEF Waiting, NoReq
    <3> QED BY <3>2, <3>3
  <2>6. \A r \in Runs : bore[r] \subseteq 1 .. (next - 1)  BY <2>3 DEF Programs
  <2>7. /\ pc \in [Runs -> Places] /\ status \in [Runs -> {"none", "zero", "error"}]
        /\ took \subseteq Runs
    BY <2>3 DEF Programs
  <2>8. next \in Nat /\ detached \in BOOLEAN  BY <2>1
  <2> QED BY <2>2, <2>4, <2>5, <2>6, <2>7, <2>8 DEF TypeOK, Places
<1> QED BY <1>1, Invariance, PTL

-----------------------------------------------------------------------------
(* What a step may do to a link.                                           *)

Sends(r, q) ==
  /\ Asks(q, r)
  /\ \E a \in Answer(q) : Take(q, a)
  /\ pc'[r] # pc[r]
  /\ \/ Found(q, bore[r]) /\ (q.type \in LinkTypes /\ q.index = 0 => bore[r] = {})
     \/ q = SetMtuMsg /\ bore[r] = {}

LEMMA PcMoves ==
  ASSUME IInv, NEW r \in Runs, NEW p, pc' = [pc EXCEPT ![r] = p]
  PROVE  pc'[r] = p
BY DEF IInv, Requests

LEMMA ExitMoves ==
  ASSUME IInv, NEW r \in Runs, NEW s, Exit(r, s)
  PROVE  pc'[r] = "done"
BY PcMoves DEF Exit

\* The request that waits is sent.
LEMMA SendsWaiting ==
  ASSUME IInv, Known, NEW r \in Runs, pc[r] \in Sending, NEW a \in Answer(req[r]),
         Take(req[r], a), pc'[r] \notin Sending \/ (pc'[r] = "attach" /\ pc[r] = "hook")
  PROVE  Sends(r, req[r])
<1>1. Asks(req[r], r) /\ Found(req[r], bore[r])  BY WaitingAsks
<1>2. pc'[r] # pc[r]  OBVIOUS
<1>3. Waiting(r)  BY DEF Known, Programs
<1>4. req[r].type \in LinkTypes /\ req[r].index = 0 => bore[r] = {}  BY <1>3 DEF Waiting
<1> QED BY <1>1, <1>2, <1>4 DEF Sends

LEMMA NetlinkSends ==
  ASSUME IInv, Known, NEW r \in Runs, Netlink(r)
  PROVE  \/ UNCHANGED links
         \/ \E q \in {req[r], AddVethMsg, AddVethIfname1Msg, AddVethIfname2Msg, SetMtuMsg} :
              Sends(r, q)
<1>1. pc[r] = "start" => bore[r] = {}  BY DEF Known, Programs, Waiting
<1>2. \A q : Asks(q, r) /\ (\E a \in Answer(q) : Take(q, a)) /\ pc[r] = "start"
             /\ Exit(r, "zero") /\ (q.index = 0 \/ q = SetMtuMsg) => Sends(r, q)
  BY <1>1, ExitMoves DEF Sends, Found
<1>3. AddVethMsg.index = 0 /\ AddVethIfname1Msg.index = 0 /\ AddVethIfname2Msg.index = 0
  BY DEF AddVethMsg, AddVethIfname1Msg, AddVethIfname2Msg, LinkMsg
<1>4. CASE AddVeth(r)  BY <1>2, <1>3, <1>4, MessagesAsk DEF AddVeth
<1>5. CASE AddVethIfname1(r)  BY <1>2, <1>3, <1>5, MessagesAsk DEF AddVethIfname1
<1>6. CASE AddVethIfname2(r)  BY <1>2, <1>3, <1>6, MessagesAsk DEF AddVethIfname2
<1>7. CASE SetMtu(r)  BY <1>2, <1>7, MessagesAsk DEF SetMtu
<1>8. CASE Send(r)
  <2>1. pc[r] \in Sending /\ pc'[r] \notin Sending  BY <1>8, ExitMoves DEF Send, Sending
  <2> QED BY <1>8, <2>1, SendsWaiting DEF Send
<1>9. CASE DelLink(r) \/ SetLinkUp(r) \/ SetIfname(r) \/ SetNetnsFd(r) \/ SetNetnsPid(r)
           \/ AddAddr(r) \/ DelAddr(r) \/ AddQdisc(r) \/ DelQdisc(r) \/ AddTcfilter(r)
           \/ TcDetach(r)
  <2>1. UNCHANGED kernelVars
    BY <1>9 DEF DelLink, SetLinkUp, SetIfname, SetNetnsFd, SetNetnsPid, AddAddr, DelAddr,
                AddQdisc, DelQdisc, AddTcfilter, TcDetach, OneRequest, Lookup
  <2> QED BY <2>1 DEF kernelVars
<1> QED BY <1>4, <1>5, <1>6, <1>7, <1>8, <1>9 DEF Netlink

LEMMA LoaderSends ==
  ASSUME IInv, Known, NEW r \in Runs, Loader(r)
  PROVE  UNCHANGED links \/ Sends(r, req[r])
<1>1. CASE TcAttachQdisc(r)
  <2>1. pc[r] \in Sending /\ pc'[r] \notin Sending
    BY <1>1, PcMoves DEF TcAttachQdisc, Sending
  <2> QED BY <1>1, <2>1, SendsWaiting DEF TcAttachQdisc
<1>2. CASE TcAttachFilter(r)
  <2>1. pc[r] \in Sending /\ pc'[r] \notin Sending
    BY <1>2, ExitMoves DEF TcAttachFilter, Sending
  <2> QED BY <1>2, <2>1, SendsWaiting DEF TcAttachFilter
<1>3. CASE HookCreate(r)
  <2>1. pc[r] = "hook" /\ pc[r] \in Sending  BY <1>3 DEF HookCreate, Sending
  <2>2. pc'[r] = "attach" \/ pc'[r] = "done"  BY <1>3, PcMoves, ExitMoves DEF HookCreate
  <2>3. "done" \notin Sending  BY DEF Sending
  <2> QED BY <1>3, <2>1, <2>2, <2>3, SendsWaiting DEF HookCreate
<1>4. CASE HookAttach(r)
  <2>1. pc[r] \in Sending /\ pc'[r] \notin Sending
    BY <1>4, ExitMoves DEF HookAttach, Sending
  <2> QED BY <1>4, <2>1, SendsWaiting DEF HookAttach
<1>5. CASE Checked(r)
  <2>1. pc[r] \in Sending /\ pc'[r] \notin Sending  BY <1>5, ExitMoves DEF Checked, Sending
  <2> QED BY <1>5, <2>1, SendsWaiting DEF Checked
<1>6. CASE TcAttach(r) \/ TcAttachLookup(r) \/ TcAttach2(r) \/ TcDetach2(r) \/ XdpAttach(r)
           \/ XdpDetach(r)
  <2>1. UNCHANGED kernelVars
    BY <1>6 DEF TcAttach, TcAttachLookup, TcAttach2, TcDetach2, XdpAttach, XdpDetach, Lookup
  <2> QED BY <2>1 DEF kernelVars
<1> QED BY <1>1, <1>2, <1>3, <1>4, <1>5, <1>6 DEF Loader

StepSends ==
  \/ UNCHANGED links
  \/ \E r \in Runs :
       \E q \in {req[r], AddVethMsg, AddVethIfname1Msg, AddVethIfname2Msg, SetMtuMsg} :
         Sends(r, q)

LEMMA NextSends ==
  ASSUME IInv, Known, [Next]_vars
  PROVE  StepSends
<1>1. CASE Next  BY <1>1, NetlinkSends, LoaderSends DEF Next, StepSends
<1>2. CASE UNCHANGED vars  BY <1>2 DEF vars, StepSends
<1> QED BY <1>1, <1>2

\* What sending a request does to the links.
LEMMA SendsEffect ==
  ASSUME IInv, Known, NEW r \in Runs, NEW q, Sends(r, q)
  PROVE  \/ UNCHANGED links
         \/ EditsLink(links, q, links') \/ EditsOther(links, q, links')
         \/ Removes(links, q, links') \/ Adds(links, next, q, links')
<1>1. PICK a \in Answer(q) : Take(q, a)  BY DEF Sends
<1>2. Effect(links, next, q, a) /\ links' = a.links  BY <1>1, TakeKnown DEF Sends
<1> QED BY <1>2 DEF Effect, Refuse

\* What is up is not renamed, moved, or given another MTU: the request also
\* takes the link down.
THEOREM ChangesTakeDown == Spec => ChangedLinksAreDown
<1> DEFINE Good == \A i \in DOMAIN links \cap DOMAIN links' :
                     \/ <<links'[i].name, links'[i].mtu, links'[i].here>>
                          = <<links[i].name, links[i].mtu, links[i].here>>
                     \/ "UP" \notin links'[i].flags
<1>1. IInv /\ Known /\ [Next]_vars => [Good]_vars
  <2> SUFFICES ASSUME IInv, Known, [Next]_vars, NEW i \in DOMAIN links \cap DOMAIN links'
               PROVE  \/ <<links'[i].name, links'[i].mtu, links'[i].here>>
                           = <<links[i].name, links[i].mtu, links[i].here>>
                      \/ "UP" \notin links'[i].flags
    OBVIOUS
  <2>1. StepSends  BY NextSends
  <2>2. CASE links'[i] = links[i]  BY <2>2
  <2>3. CASE ~UNCHANGED links /\ links'[i] # links[i]
    <3>1. PICK r \in Runs :
            \E q \in {req[r], AddVethMsg, AddVethIfname1Msg, AddVethIfname2Msg, SetMtuMsg} :
              Sends(r, q)
      BY <2>1, <2>3 DEF StepSends
    <3>2. PICK q : Sends(r, q)  BY <3>1
    <3>3. CASE EditsLink(links, q, links')
      <4>1. i = Target(links, q) /\ links'[i] = Changed(links[i], q) /\ q.type \in LinkTypes
        BY <2>3, <3>3 DEF EditsLink, OnlyAt
      <4>2. AsksLink(q)  BY <3>2, <4>1 DEF Sends, Asks
      <4>3. IsLink(links[i])  BY DEF IInv, Kernel, IsTable
      <4>4. CASE Asked(q)  BY <4>1, <4>2, <4>3, <4>4, ChangedIsOK
      <4>5. CASE ~Asked(q)
        <5>1. /\ links'[i].name = links[i].name /\ links'[i].mtu = links[i].mtu
              /\ links'[i].here = links[i].here
          BY <4>1, <4>2, <4>3, <4>5, ChangedIsOK
        <5> QED BY <5>1
      <4> QED BY <4>4, <4>5
    <3>4. CASE EditsOther(links, q, links')
      <4>1. KeepsLink(links[i], links'[i])  BY <2>3, <3>4 DEF EditsOther, OnlyAt
      <4> QED BY <4>1 DEF KeepsLink
    <3>5. CASE Removes(links, q, links') \/ Adds(links, next, q, links')
      BY <2>3, <3>5 DEF Removes, Adds
    <3> QED BY <2>3, <3>2, <3>3, <3>4, <3>5, SendsEffect
  <2> QED BY <2>2, <2>3
<1> QED BY <1>1, Invariance, PTL DEF Spec, ChangedLinksAreDown

\* A link request without an index, and the one of set-mtu.
LEMMA ChangedFlags ==
  ASSUME NEW l, IsLink(l), NEW q, AsksLink(q), q.index = 0, q.ifname # NoName
  PROVE  Changed(l, q) = [l EXCEPT !.flags = {}]
<1>1. ~q.mtu /\ ~q.netns /\ q.flags = {} /\ ~Renames(q) /\ q.change
  BY DEF AsksLink, Renames
<1> QED BY <1>1 DEF Changed, IsLink, Fields

LEMMA ChangedMtu ==
  ASSUME NEW l, IsLink(l)
  PROVE  Changed(l, SetMtuMsg) = [l EXCEPT !.mtu = "set", !.flags = {}]
<1>1. /\ SetMtuMsg.mtu /\ ~SetMtuMsg.netns /\ SetMtuMsg.flags = {} /\ SetMtuMsg.change
      /\ ~Renames(SetMtuMsg)
  BY DEF SetMtuMsg, LinkMsg, Renames
<1> QED BY <1>1 DEF Changed, IsLink, Fields

Named(r, i) ==
  \/ i \in bore[r]
  \/ i \notin DOMAIN links' /\ links[i].peer \in bore[r]
  \/ /\ i = Lo /\ i \in DOMAIN links' /\ bore[r] = {}
     /\ links'[i] = [links[i] EXCEPT !.mtu = "set", !.flags = {}]
  \/ /\ links[i].name \in NewNames \cup {"vethA"}
     /\ i \in DOMAIN links' /\ bore[r] = {}
     /\ links'[i] = [links[i] EXCEPT !.flags = {}]

LEMMA SendsNamed ==
  ASSUME IInv, Known, NEW r \in Runs, NEW q, Sends(r, q), NEW i \in DOMAIN links, Hit(i)
  PROVE  Named(r, i)
<1>1. ~UNCHANGED links  BY DEF Hit
<1>2. /\ IsLink(links[i]) /\ i # 0 /\ 0 \notin DOMAIN links
      /\ Paired(links)
  BY DEF IInv, Kernel, IsTable, Known
<1>3. Asks(q, r)  BY DEF Sends
<1>4. ~Adds(links, next, q, links')  BY DEF Adds, Hit
<1>5. CASE q = SetMtuMsg /\ bore[r] = {}
  <2>1. q.type = "NEWLINK" /\ Target(links, q) = Lo
    BY <1>5 DEF SetMtuMsg, LinkMsg, Target, Lo
  <2>2. EditsLink(links, q, links')
    BY <1>1, <1>4, <2>1, SendsEffect DEF EditsOther, Removes, LinkTypes
  <2>3. i = Lo /\ links'[i] = Changed(links[i], q) /\ i \in DOMAIN links'
    BY <2>1, <2>2 DEF EditsLink, OnlyAt, Hit
  <2> QED BY <1>2, <1>5, <2>3, ChangedMtu DEF Named
<1>6. CASE Found(q, bore[r]) /\ (q.type \in LinkTypes /\ q.index = 0 => bore[r] = {})
  <2>1. CASE EditsLink(links, q, links')
    <3>1. /\ q.type \in LinkTypes /\ i = Target(links, q) /\ links'[i] = Changed(links[i], q)
          /\ i \in DOMAIN links'
      BY <2>1 DEF EditsLink, OnlyAt, Hit
    <3>2. CASE q.index # 0  BY <1>6, <3>1, <3>2 DEF Target, Found, Named
    <3>3. CASE q.index = 0
      <4>1. q.ifname # NoName /\ i = IndexOf(links, q.ifname)
        BY <1>2, <3>1, <3>3 DEF Target
      <4>2. links[i].name = q.ifname  BY <1>2, <4>1, IndexIsBearer DEF Bearers
      <4>3. AsksLink(q)  BY <1>3, <3>1 DEF Asks
      <4>4. q.ifname \in NewNames \cup {"vethA"}  BY <3>3, <4>1, <4>3 DEF AsksLink
      <4>5. links'[i] = [links[i] EXCEPT !.flags = {}]
        BY <1>2, <3>1, <3>3, <4>1, <4>3, ChangedFlags
      <4>6. bore[r] = {}  BY <1>6, <3>1, <3>3
      <4> QED BY <3>1, <4>2, <4>4, <4>5, <4>6 DEF Named
    <3> QED BY <3>2, <3>3
  <2>2. CASE EditsOther(links, q, links')
    <3>1. i = q.index  BY <2>2 DEF EditsOther, OnlyAt, Hit
    <3> QED BY <1>2, <1>6, <3>1 DEF Found, Named
  <2>3. CASE Removes(links, q, links')
    <3> DEFINE t == Target(links, q)
    <3>1. /\ q.type = "DELLINK" /\ t \in DOMAIN links
          /\ DOMAIN links' = DOMAIN links \ {t, links[t].peer}
          /\ \A j \in DOMAIN links' : links'[j] = links[j]
      BY <2>3 DEF Removes, Here
    <3>2. i \in {t, links[t].peer} /\ i \notin DOMAIN links'  BY <3>1 DEF Hit
    <3>3. q.ifname = NoName  BY <1>3, <3>1 DEF Asks
    <3>4. t = q.index /\ q.index # 0  BY <1>2, <3>1, <3>3 DEF Target
    <3>5. t \in bore[r]  BY <1>6, <3>4 DEF Found
    <3> HIDE DEF t
    <3>6. i # t => links[i].peer = t  BY <1>2, <3>1, <3>2 DEF Paired
    <3> QED BY <3>2, <3>5, <3>6 DEF Named
  <2> QED BY <1>1, <1>4, <2>1, <2>2, <2>3, SendsEffect
<1> QED BY <1>5, <1>6 DEF Sends

\* Whatever the others do in between, a program changes the link that bore
\* the name it was given when it looked the name up, or one of the three that
\* the property names.
THEOREM ChangesWhatWasNamed == Spec => OnlyNamedLinkChanges
<1> DEFINE Good ==
      \A i \in DOMAIN links : Hit(i) =>
        \E r \in Runs :
          /\ pc'[r] # pc[r]
          /\ \/ i \in bore[r]
             \/ i \notin DOMAIN links' /\ links[i].peer \in bore[r]
             \/ /\ i = Lo /\ i \in DOMAIN links' /\ bore[r] = {}
                /\ links'[i] = [links[i] EXCEPT !.mtu = "set", !.flags = {}]
             \/ /\ links[i].name \in NewNames \cup {"vethA"}
                /\ i \in DOMAIN links' /\ bore[r] = {}
                /\ links'[i] = [links[i] EXCEPT !.flags = {}]
<1>1. IInv /\ Known /\ [Next]_vars => [Good]_vars
  <2> SUFFICES ASSUME IInv, Known, [Next]_vars PROVE Good  OBVIOUS
  <2>1. ASSUME NEW i \in DOMAIN links, Hit(i)
        PROVE  \E r \in Runs : pc'[r] # pc[r] /\ Named(r, i)
    <3>1. ~UNCHANGED links  BY <2>1 DEF Hit
    <3>2. PICK r \in Runs : \E q : Sends(r, q)  BY <3>1, NextSends DEF StepSends
    <3>3. PICK q : Sends(r, q)  BY <3>2
    <3>4. Named(r, i)  BY <2>1, <3>3, SendsNamed
    <3> QED BY <3>3, <3>4 DEF Sends
  <2> QED BY <2>1 DEF Named
<1> QED BY <1>1, Invariance, PTL DEF Spec, OnlyNamedLinkChanges

-----------------------------------------------------------------------------
(* What the loaders return.                                                *)

\* Only the run that steps moves, and where it is says which step it is.
LEMMA NetlinkMoves ==
  ASSUME NEW r \in Runs, Netlink(r)
  PROVE  /\ \E p \in Places : pc' = [pc EXCEPT ![r] = p]
         /\ status' = status \/ \E s \in {"zero", "error"} : status' = [status EXCEPT ![r] = s]
         /\ pc[r] \in {"start", "send"}
BY DEF Netlink, AddVeth, AddVethIfname1, AddVethIfname2, SetMtu, DelLink, SetLinkUp,
       SetIfname, SetNetnsFd, SetNetnsPid, AddAddr, DelAddr, AddQdisc, DelQdisc, AddTcfilter,
       TcDetach, Send, OneRequest, Lookup, Exit, Places

LEMMA LoaderMoves ==
  ASSUME NEW r \in Runs, Loader(r)
  PROVE  /\ \E p \in Places : pc' = [pc EXCEPT ![r] = p]
         /\ status' = status \/ \E s \in {"zero", "error"} : status' = [status EXCEPT ![r] = s]
         /\ pc[r] = "attach" => HookAttach(r)
         /\ pc[r] = "checked" => Checked(r)
<1> USE DEF Lookup, Exit, Places
<1>0. \A a : Status(a) \in {"zero", "error"}  BY DEF Status
<1>1. CASE TcAttach(r) \/ TcAttachQdisc(r) \/ TcAttachLookup(r) \/ TcAttachFilter(r)
  BY <1>1 DEF TcAttach, TcAttachQdisc, TcAttachLookup, TcAttachFilter
<1>2. CASE TcAttach2(r) \/ HookCreate(r) \/ HookAttach(r)
  BY <1>0, <1>2 DEF TcAttach2, HookCreate, HookAttach
<1>3. CASE TcDetach2(r) \/ XdpAttach(r) \/ XdpDetach(r) \/ Checked(r)
  BY <1>0, <1>3 DEF TcDetach2, XdpAttach, XdpDetach, Checked
<1> QED BY <1>1, <1>2, <1>3 DEF Loader

\* What tc-attach2, tc-detach2, xdp-attach and xdp-detach return is what the
\* kernel did.
THEOREM LoadersTellTheTruth == Spec => LoaderStatusIsTrue
<1> DEFINE Good ==
      \A r \in Runs :
        /\ pc[r] = "attach" /\ pc'[r] = "done" => (status'[r] = "zero" <=> r \in took')
        /\ pc[r] = "checked" /\ status'[r] = "error" => UNCHANGED links
<1>1. IInv /\ Known /\ [Next]_vars => [Good]_vars
  <2> SUFFICES ASSUME IInv, Known, Next, NEW t \in Runs
               PROVE  /\ pc[t] = "attach" /\ pc'[t] = "done"
                           => (status'[t] = "zero" <=> t \in took')
                      /\ pc[t] = "checked" /\ status'[t] = "error" => UNCHANGED links
    OBVIOUS
  <2>1. PICK r \in Runs : Netlink(r) \/ Loader(r)  BY DEF Next
  <2>2. t # r => pc'[t] = pc[t]
    <3>1. PICK p : pc' = [pc EXCEPT ![r] = p]  BY <2>1, NetlinkMoves, LoaderMoves
    <3> QED BY <3>1 DEF IInv, Requests
  <2>3. Waiting(t) /\ status[t] \in {"none", "zero", "error"}
        /\ status \in [Runs -> {"none", "zero", "error"}]
    BY DEF Known, Programs
  <2>4. ASSUME pc[t] = "attach", pc'[t] = "done"
        PROVE  status'[t] = "zero" <=> t \in took'
    <3>1. t = r /\ HookAttach(t)  BY <2>1, <2>2, <2>4, NetlinkMoves, LoaderMoves
    <3>2. PICK a \in Answer(req[t]) : Take(req[t], a) /\ Exit(t, Status(a))
      BY <3>1 DEF HookAttach
    <3>3. status'[t] = Status(a)  BY <2>3, <3>2 DEF Exit
    <3>4. req[t].type = "NEWTFILTER" /\ Asks(req[t], t) /\ t \notin took
      BY <2>3, <2>4 DEF Waiting, Sending
    <3>5. req[t].owner = t  BY <3>4 DEF Asks
    <3>6. took' = IF a.ok THEN took \cup {t} ELSE took  BY <3>2, <3>4, <3>5 DEF Take
    <3> QED BY <3>3, <3>4, <3>6 DEF Status
  <2>5. ASSUME pc[t] = "checked", status'[t] = "error"  PROVE UNCHANGED links
    <3>1. CASE t = r
      <4>1. Checked(t)  BY <2>1, <2>5, <3>1, NetlinkMoves, LoaderMoves
      <4>2. PICK a \in Answer(req[t]) : Take(req[t], a) /\ Exit(t, Status(a))
        BY <4>1 DEF Checked
      <4>3. status'[t] = Status(a)  BY <2>3, <4>2 DEF Exit
      <4>4. ~a.ok  BY <2>5, <4>3 DEF Status
      <4>5. Asks(req[t], t)  BY <2>3, <2>5 DEF Waiting, Sending
      <4>6. Effect(links, next, req[t], a) /\ links' = a.links  BY <4>2, <4>5, TakeKnown
      <4> QED BY <4>4, <4>6 DEF Effect, Refuse, Done
    <3>2. CASE t # r
      <4>1. \/ status' = status
            \/ \E s \in {"zero", "error"} : status' = [status EXCEPT ![r] = s]
        BY <2>1, NetlinkMoves, LoaderMoves
      <4>2. status'[t] = status[t]  BY <2>3, <3>2, <4>1
      <4>3. status[t] = "none"  BY <2>3, <2>5 DEF Waiting
      <4> QED BY <2>5, <4>2, <4>3
    <3> QED BY <3>1, <3>2
  <2> QED BY <2>4, <2>5
<1> QED BY <1>1, Invariance, PTL DEF Spec, LoaderStatusIsTrue

=============================================================================
