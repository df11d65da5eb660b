----------------------------- MODULE LinkConfig -----------------------------
(***************************************************************************)
(* The programs that configure links: src/netlink/add-*.c, del-*.c,        *)
(* set-*.c, and the loaders src/bpf/tc-*.c and xdp-*.c.  A run of one      *)
(* resolves the name it was given to an index, sends a request with that   *)
(* index, and ends; the netlink programs do not look at the answer, those  *)
(* that use libbpf do.  Several run at the same time, so that between the  *)
(* lookup and the request of one the others may rename, move, delete or    *)
(* create links.                                                           *)
(*                                                                         *)
(* The kernel's side is Rtnetlink.                                         *)
(***************************************************************************)
EXTENDS Rtnetlink

CONSTANTS
  Runs,         \* runs of programs
  Names,        \* names they are given for a link
  NewNames      \* names set-ifname is given for a new name

\* NoName stands for no name.
ASSUME NamesAssumption == NoName \notin Names \cup NewNames

VARIABLES
  links,        \* the kernel's links
  next,         \* the next index the kernel gives
  pc,           \* where a run is
  req,          \* the request it sends next
  arg,          \* the name tc-attach was given, which it looks up twice
  status,       \* what it returned
  bore,         \* history: links that bore its name when it looked it up
  hooked,       \* history: the link whose hook it created, for tc-attach2
  took,         \* history: runs whose filter the kernel took
  detached      \* history: a clsact qdisc was deleted

runVars == <<pc, req, arg, status, bore, hooked>>
vars == <<links, next, runVars, took, detached>>
kernelVars == <<links, next, took, detached>>

NoReq == [type |-> "none", index |-> 0]

\* The loopback device, and possibly a pair that is up.
Init ==
  /\ \E pair \in BOOLEAN :
       /\ links = [i \in IF pair THEN 1 .. 3 ELSE {1} |->
                     CASE i = 1 -> Link("lo", {"UP"}, 0)
                       [] i = 2 -> Link("veth0", Flags, 3)
                       [] i = 3 -> Link("veth1", Flags, 2)]
       /\ next = IF pair THEN 4 ELSE 2
  /\ pc = [r \in Runs |-> "start"]
  /\ req = [r \in Runs |-> NoReq]
  /\ arg = [r \in Runs |-> NoName]
  /\ status = [r \in Runs |-> "none"]
  /\ bore = [r \in Runs |-> {}]
  /\ hooked = [r \in Runs |-> 0]
  /\ took = {}
  /\ detached = FALSE

-----------------------------------------------------------------------------
(* The requests, as each program's send_request() fills them.              *)

\* A link message, ifi_change all ones and no flags as far as not said.
LinkMsg(type, i) ==
  [type |-> type, index |-> i, create |-> FALSE, ifname |-> NoName, peer |-> NoName,
   change |-> TRUE, flags |-> {}, mtu |-> FALSE, netns |-> FALSE]

AddVethMsg == [LinkMsg("NEWLINK", 0) EXCEPT !.create = TRUE]
AddVethIfname1Msg == [LinkMsg("NEWLINK", 0) EXCEPT !.create = TRUE, !.ifname = "vethA"]
AddVethIfname2Msg ==
  [LinkMsg("NEWLINK", 0) EXCEPT !.create = TRUE, !.ifname = "vethA", !.peer = "vethB"]
DelLinkMsg(i) == LinkMsg("DELLINK", i)
\* Mutant of SetLinkUpMsg: a flag that cannot be set is asked for, too.
SetLinkUpMsgRunning(i) == [LinkMsg("SETLINK", i) EXCEPT !.flags = {"UP", "RUNNING"}]
SetLinkUpMsg(i) == [LinkMsg("SETLINK", i) EXCEPT !.flags = {"UP"}]
\* Mutant of SetMtuMsg: the mask of flags to change is empty.
SetMtuMsgOnly == [LinkMsg("NEWLINK", Lo) EXCEPT !.mtu = TRUE, !.change = FALSE]
SetMtuMsg == [LinkMsg("NEWLINK", Lo) EXCEPT !.mtu = TRUE]
SetIfnameMsg(i, new) == [LinkMsg("NEWLINK", i) EXCEPT !.ifname = new]
SetNetnsFdMsg(i) == [LinkMsg("SETLINK", i) EXCEPT !.netns = TRUE]
SetNetnsPidMsg(i) == [LinkMsg("SETLINK", i) EXCEPT !.netns = TRUE]
AddAddrMsg(i) == [type |-> "NEWADDR", index |-> i]
DelAddrMsg(i) == [type |-> "DELADDR", index |-> i]
AddQdiscMsg(i) == [type |-> "NEWQDISC", index |-> i, excl |-> FALSE]
DelQdiscMsg(i) == [type |-> "DELQDISC", index |-> i]
TcDetachMsg(i) == [type |-> "DELQDISC", index |-> i]
AddTcfilterMsg(i, r, loaded) ==
  [type |-> "NEWTFILTER", index |-> i, owner |-> r, loaded |-> loaded]
TcAttachQdiscMsg(i) == [type |-> "NEWQDISC", index |-> i, excl |-> FALSE]
TcAttachFilterMsg(i, r) ==
  [type |-> "NEWTFILTER", index |-> i, owner |-> r, loaded |-> TRUE]
\* The messages libbpf sends for its calls.
\* Mutant of HookCreateMsg: the hook may be there already.
HookCreateMsgAny(i) == [type |-> "NEWQDISC", index |-> i, excl |-> FALSE]
HookCreateMsg(i) == [type |-> "NEWQDISC", index |-> i, excl |-> TRUE]
HookAttachMsg(i, r) == [type |-> "NEWTFILTER", index |-> i, owner |-> r, loaded |-> TRUE]
HookDestroyMsg(i) == [type |-> "DELQDISC", index |-> i]
XdpMsg(i, attach) == [type |-> "SETXDP", index |-> i, attach |-> attach]

-----------------------------------------------------------------------------
(* The kernel answers a request; it may also refuse it for a reason of its *)
(* own (permission, memory), or sendmsg() may fail (no socket).            *)

Answer(q) == {Handle(links, next, q), Refuse(links)}

\* The answer is a: apply it and note what it was.
Take(q, a) ==
  /\ links' = a.links
  /\ next' = IF DOMAIN a.links \subseteq DOMAIN links THEN next ELSE next + 2
  /\ took' = IF a.ok /\ q.type = "NEWTFILTER" THEN took \cup {q.owner} ELSE took
  /\ detached' = (detached \/ (q.type = "DELQDISC" /\ a.ok))

\* The program ends with status s.
Exit(r, s) ==
  /\ pc' = [pc EXCEPT ![r] = "done"]
  /\ status' = [status EXCEPT ![r] = s]
  /\ req' = [req EXCEPT ![r] = NoReq]
  /\ UNCHANGED <<arg, bore, hooked>>

\* Look name n up and go on at p with the request q that has its index.
Lookup(r, n, q, p) ==
  /\ pc' = [pc EXCEPT ![r] = p]
  /\ req' = [req EXCEPT ![r] = q]
  /\ bore' = [bore EXCEPT ![r] = @ \cup Bearers(links, n)]
  /\ UNCHANGED <<kernelVars, status, hooked>>

-----------------------------------------------------------------------------
(* Programs that send one request and return 0 whatever becomes of it.     *)

\* Without a lookup.
AddVeth(r) ==
  /\ pc[r] = "start"
  /\ \E a \in Answer(AddVethMsg) : Take(AddVethMsg, a)
  /\ Exit(r, "zero")
AddVethIfname1(r) ==
  /\ pc[r] = "start"
  /\ \E a \in Answer(AddVethIfname1Msg) : Take(AddVethIfname1Msg, a)
  /\ Exit(r, "zero")
AddVethIfname2(r) ==
  /\ pc[r] = "start"
  /\ \E a \in Answer(AddVethIfname2Msg) : Take(AddVethIfname2Msg, a)
  /\ Exit(r, "zero")
SetMtu(r) ==
  /\ pc[r] = "start"
  /\ \E a \in Answer(SetMtuMsg) : Take(SetMtuMsg, a)
  /\ Exit(r, "zero")

\* With a lookup, then Send.
OneRequest(r, n, q) ==
  /\ pc[r] = "start"
  /\ Lookup(r, n, q, "send")
  /\ UNCHANGED arg

\* Mutant of DelLink: the name goes into the request.
DelLinkByName(r) ==
  \E n \in Names : OneRequest(r, n, [DelLinkMsg(0) EXCEPT !.ifname = n])
DelLink(r) == \E n \in Names : OneRequest(r, n, DelLinkMsg(IndexOf(links, n)))
SetLinkUp(r) == \E n \in Names : OneRequest(r, n, SetLinkUpMsg(IndexOf(links, n)))
SetIfname(r) ==
  \E n \in Names, new \in NewNames : OneRequest(r, n, SetIfnameMsg(IndexOf(links, n), new))
AddAddr(r) == OneRequest(r, "veth0", AddAddrMsg(IndexOf(links, "veth0")))
DelAddr(r) == OneRequest(r, "veth0", DelAddrMsg(IndexOf(links, "veth0")))
AddQdisc(r) == \E n \in Names : OneRequest(r, n, AddQdiscMsg(IndexOf(links, n)))
DelQdisc(r) == \E n \in Names : OneRequest(r, n, DelQdiscMsg(IndexOf(links, n)))
TcDetach(r) == \E n \in Names : OneRequest(r, n, TcDetachMsg(IndexOf(links, n)))

\* The result of loading the filter is not looked at.
AddTcfilter(r) ==
  \E n \in Names, loaded \in BOOLEAN :
    OneRequest(r, n, AddTcfilterMsg(IndexOf(links, n), r, loaded))

\* The file of the namespace cannot be opened, or no process id is given.
SetNetnsFd(r) ==
  \/ \E n \in Names : OneRequest(r, n, SetNetnsFdMsg(IndexOf(links, n)))
  \/ pc[r] = "start" /\ Exit(r, "error") /\ UNCHANGED kernelVars
SetNetnsPid(r) ==
  \/ \E n \in Names : OneRequest(r, n, SetNetnsPidMsg(IndexOf(links, n)))
  \/ pc[r] = "start" /\ Exit(r, "error") /\ UNCHANGED kernelVars

\* sendmsg(), whose result is not looked at, and the end of main().
Send(r) ==
  /\ pc[r] = "send"
  /\ \E a \in Answer(req[r]) : Take(req[r], a)
  /\ Exit(r, "zero")

-----------------------------------------------------------------------------
(* tc-attach: load the program, then two requests, each with a lookup.     *)

\* Loading or creating the socket may fail.
TcAttach(r) ==
  /\ pc[r] = "start"
  /\ \/ \E n \in Names :
          /\ Lookup(r, n, TcAttachQdiscMsg(IndexOf(links, n)), "qdisc")
          /\ arg' = [arg EXCEPT ![r] = n]
     \/ Exit(r, "error") /\ UNCHANGED kernelVars

TcAttachQdisc(r) ==
  /\ pc[r] = "qdisc"
  /\ \E a \in Answer(req[r]) : Take(req[r], a)
  /\ pc' = [pc EXCEPT ![r] = "lookup"]
  /\ req' = [req EXCEPT ![r] = NoReq]
  /\ UNCHANGED <<arg, status, bore, hooked>>

TcAttachLookup(r) ==
  /\ pc[r] = "lookup"
  /\ Lookup(r, arg[r], TcAttachFilterMsg(IndexOf(links, arg[r]), r), "filter")
  /\ UNCHANGED arg

TcAttachFilter(r) ==
  /\ pc[r] = "filter"
  /\ \E a \in Answer(req[r]) : Take(req[r], a)
  /\ Exit(r, "zero")

-----------------------------------------------------------------------------
(* The loaders that use libbpf and look at what it returns.                *)

Status(a) == IF a.ok THEN "zero" ELSE "error"

TcAttach2(r) ==
  /\ pc[r] = "start"
  /\ \/ \E n \in Names :
          /\ Lookup(r, n, HookCreateMsg(IndexOf(links, n)), "hook")
          /\ UNCHANGED arg
     \/ Exit(r, "error") /\ UNCHANGED kernelVars

\* bpf_tc_hook_create(): the qdisc must not be there yet.
HookCreate(r) ==
  /\ pc[r] = "hook"
  /\ \E a \in Answer(req[r]) :
       /\ Take(req[r], a)
       /\ IF a.ok
          THEN /\ pc' = [pc EXCEPT ![r] = "attach"]
               /\ req' = [req EXCEPT ![r] = HookAttachMsg(req[r].index, r)]
               /\ hooked' = [hooked EXCEPT ![r] = req[r].index]
               /\ UNCHANGED <<arg, status, bore>>
          ELSE Exit(r, "error")

\* Mutant of HookAttach: the result of bpf_tc_attach() is not looked at.
HookAttachUnchecked(r) ==
  /\ pc[r] = "attach"
  /\ \E a \in Answer(req[r]) : Take(req[r], a) /\ Exit(r, "zero")

\* bpf_tc_attach(): when it fails the qdisc stays.
HookAttach(r) ==
  /\ pc[r] = "attach"
  /\ \E a \in Answer(req[r]) : Take(req[r], a) /\ Exit(r, Status(a))

TcDetach2(r) ==
  /\ pc[r] = "start"
  /\ \E n \in Names : Lookup(r, n, HookDestroyMsg(IndexOf(links, n)), "checked")
  /\ UNCHANGED arg

XdpAttach(r) ==
  /\ pc[r] = "start"
  /\ \/ \E n \in Names :
          /\ Lookup(r, n, XdpMsg(IndexOf(links, n), TRUE), "checked")
          /\ UNCHANGED arg
     \/ Exit(r, "error") /\ UNCHANGED kernelVars

XdpDetach(r) ==
  /\ pc[r] = "start"
  /\ \E n \in Names : Lookup(r, n, XdpMsg(IndexOf(links, n), FALSE), "checked")
  /\ UNCHANGED arg

\* bpf_tc_hook_destroy() or bpf_set_link_xdp_fd().
Checked(r) ==
  /\ pc[r] = "checked"
  /\ \E a \in Answer(req[r]) : Take(req[r], a) /\ Exit(r, Status(a))

-----------------------------------------------------------------------------
Netlink(r) ==
  \/ AddVeth(r) \/ AddVethIfname1(r) \/ AddVethIfname2(r) \/ SetMtu(r)
  \/ DelLink(r) \/ SetLinkUp(r) \/ SetIfname(r) \/ SetNetnsFd(r) \/ SetNetnsPid(r)
  \/ AddAddr(r) \/ DelAddr(r) \/ AddQdisc(r) \/ DelQdisc(r) \/ AddTcfilter(r)
  \/ TcDetach(r) \/ Send(r)
Loader(r) ==
  \/ TcAttach(r) \/ TcAttachQdisc(r) \/ TcAttachLookup(r) \/ TcAttachFilter(r)
  \/ TcAttach2(r) \/ HookCreate(r) \/ HookAttach(r) \/ TcDetach2(r)
  \/ XdpAttach(r) \/ XdpDetach(r) \/ Checked(r)

Next == \E r \in Runs : Netlink(r) \/ Loader(r)

Spec == Init /\ [][Next]_vars

-----------------------------------------------------------------------------
(* Properties.                                                             *)

\* The names a link can get: from the kernel, or from a program.
LinkNames ==
  {AutoNames[k] : k \in DOMAIN AutoNames} \cup {"lo", "vethA", "vethB"} \cup NewNames

LinkOK(l) ==
  /\ l.name \in LinkNames /\ l.here \in BOOLEAN /\ l.flags \subseteq Flags
  /\ l.mtu \in {"default", "set"} /\ l.peer \in Nat
  /\ l.addr \in BOOLEAN /\ l.clsact \in BOOLEAN /\ l.xdp \in BOOLEAN
  /\ l.filters \subseteq Runs

\* Types; indices are below the next one, and a run waiting to send has a
\* request for a link the kernel knows or knew, or for none.
TypeOK ==
  /\ next \in Nat
  /\ \A i \in DOMAIN links : i \in 1 .. (next - 1) /\ LinkOK(links[i])
  /\ pc \in [Runs -> {"start", "send", "qdisc", "lookup", "filter", "hook", "attach",
                      "checked", "done"}]
  /\ status \in [Runs -> {"none", "zero", "error"}]
  /\ \A r \in Runs : /\ req[r].index \in 0 .. (next - 1)
                     /\ bore[r] \subseteq 1 .. (next - 1)
                     /\ hooked[r] \in 0 .. (next - 1)
  /\ took \subseteq Runs /\ detached \in BOOLEAN

\* What a program changes: i is changed or removed in this step.
Hit(i) == i \notin DOMAIN links' \/ links'[i] # links[i]

\* A program changes the link that bore the name it was given when it looked
\* the name up, even if the link has another name by now and another link
\* has that one.  The exceptions are three: the peer of a link that is
\* removed; the loopback device, for set-mtu, which has no name; and, for a
\* request without an index (set-ifname of a name that does not exist,
\* add-veth-ifname1 of one that does), the link with the name in the request,
\* of which it clears the flags and nothing else.
OnlyNamedLinkChanges ==
  [][\A i \in DOMAIN links : Hit(i) =>
       \E r \in Runs :
         /\ pc'[r] # pc[r]
         /\ \/ i \in bore[r]
            \/ i \notin DOMAIN links' /\ links[i].peer \in bore[r]
            \/ /\ i = Lo /\ i \in DOMAIN links' /\ bore[r] = {}
               /\ links'[i] = [links[i] EXCEPT !.mtu = "set", !.flags = {}]
            \/ /\ links[i].name \in NewNames \cup {"vethA"}
               /\ i \in DOMAIN links' /\ bore[r] = {}
               /\ links'[i] = [links[i] EXCEPT !.flags = {}]]_vars

\* A request that renames a link, moves it, or sets its MTU also takes the
\* link down: nothing that is up goes through it.
ChangedLinksAreDown ==
  [][\A i \in DOMAIN links \cap DOMAIN links' :
       \/ <<links'[i].name, links'[i].mtu, links'[i].here>>
            = <<links[i].name, links[i].mtu, links[i].here>>
       \/ "UP" \notin links'[i].flags]_vars

\* The loaders that look at results tell the truth: tc-attach2 returns 0 if
\* and only if the kernel took its filter, and tc-detach2, xdp-attach and
\* xdp-detach return an error only when they changed nothing.
LoaderStatusIsTrue ==
  [][\A r \in Runs :
       /\ pc[r] = "attach" /\ pc'[r] = "done" => (status'[r] = "zero" <=> r \in took')
       /\ pc[r] = "checked" /\ status'[r] = "error" => UNCHANGED links]_vars

\* As long as nobody removed a qdisc, one run of tc-attach2 creates the hook
\* of a link: a second one is refused, also after the first failed to attach.
OneHookPerLink ==
  ~detached => \A r, s \in Runs : r # s /\ hooked[r] # 0 => hooked[r] # hooked[s]
=============================================================================
