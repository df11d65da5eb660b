-------------------------- MODULE NetlinkListener ---------------------------
(***************************************************************************)
(* The programs of src/netlink that read from a netlink socket: the five   *)
(* monitors if-addrs, if-events, if-flags, if-rtas and if-stats, which     *)
(* wait for events, and get-links, which asks for a dump of all links.     *)
(* They are one program with different parameters: create_socket(),        *)
(* read_messages(), read_message(), parse_message(), a parse function per  *)
(* kind of message and parse_rta() are the same text in each.              *)
(*                                                                         *)
(* The kernel is external: it queues one datagram per event, reports       *)
(* ENOBUFS when the queue was full, and answers a dump request with        *)
(* datagrams of several messages while links come and go.  Between two     *)
(* datagrams of a dump it has to remember where it was.  In Spec it keeps  *)
(* the index of the next link, as newer kernels do.  Older ones keep       *)
(* the position in a hash chain of links: that is PositionSpec.            *)
(*                                                                         *)
(* The receive buffer is modelled in words of four bytes, because the      *)
(* attribute loops run past the end of the message: they take the length   *)
(* of the message without its family header as the length of the           *)
(* attributes, and forget the 16 bytes of the netlink header.  What they   *)
(* read there is the rest of an earlier datagram, or the uninitialised     *)
(* stack.                                                                  *)
(***************************************************************************)
EXTENDS Integers, Sequences, FiniteSets, SequencesExt

CONSTANTS
  Programs,     \* the programs checked, a subset of the DOMAIN of Parameters
  BufWords,     \* words of the receive buffer (8192 bytes in the code)
  QueueSize,    \* datagrams the receive queue of the socket holds
  MaxEvents,    \* bound of the model: events that happen
  MaxLinks,     \* bound of the model: links there can be
  MaxChanges,   \* bound of the model: links that come or go during a dump
  Contents,     \* what a message can hold: the rta_len of its attributes, the
                \* words at which they begin, and what the other words read
                \* as, taken for an rta_len
  Junk          \* what the uninitialised stack can read as, taken for one

ASSUME SizesAssumption ==
  /\ BufWords \in Nat /\ QueueSize \in Nat \ {0}
  /\ MaxEvents \in Nat /\ MaxLinks \in Nat /\ MaxChanges \in Nat
  /\ Junk \subseteq Nat

-----------------------------------------------------------------------------
(* The programs.  events: the types of event of the groups create_socket() *)
(* subscribes to; walks: the types whose attributes are parsed; stop:      *)
(* whether read_message() ends the program at the end of a dump.           *)

LinkEvents == {"newlink", "dellink"}
AddrEvents == {"newaddr", "deladdr"}

IfAddrs  == [events |-> AddrEvents, walks |-> AddrEvents, stop |-> FALSE]
IfEvents == [events |-> LinkEvents \union AddrEvents, walks |-> LinkEvents,
             stop |-> FALSE]
IfFlags  == [events |-> LinkEvents, walks |-> {}, stop |-> FALSE]
IfRtas   == [events |-> LinkEvents, walks |-> LinkEvents, stop |-> FALSE]
IfStats  == [events |-> LinkEvents, walks |-> {"newlink"}, stop |-> FALSE]
GetLinks == [events |-> {}, walks |-> {"newlink"}, stop |-> TRUE]

Parameters ==
  [ifaddrs |-> IfAddrs, ifevents |-> IfEvents, ifflags |-> IfFlags,
   ifrtas |-> IfRtas, ifstats |-> IfStats, getlinks |-> GetLinks]

ASSUME ProgramsAssumption == Programs \subseteq DOMAIN Parameters

-----------------------------------------------------------------------------
(* Messages and how they lie in memory.                                    *)

WordSize == 4
NlmsgHdrSize == 16
AttrHdrSize == 4

\* RTA_ALIGN and NLMSG_ALIGN: lengths in bytes to whole words.
WordsOf(bytes) == (bytes + WordSize - 1) \div WordSize
Align(bytes) == WordsOf(bytes) * WordSize

\* sizeof(struct ifinfomsg) and sizeof(struct ifaddrmsg); DONE carries an
\* int and ERROR a struct nlmsgerr.
FamilyHdrSize(type) ==
  CASE type \in LinkEvents -> 16
    [] type \in AddrEvents -> 8
    [] type = "done" -> 4
    [] type = "error" -> 20

\* The attributes of a message lie behind each other, each with its header and
\* aligned: attribute nr begins at[nr - 1] words behind the family header.
LaidOut(content) ==
  LET n == Len(content.attrs)
  IN  /\ content.attrs \in Seq(Nat) /\ content.data \in Nat
      /\ content.at \in [0 .. n -> Nat] /\ content.at[0] = 0
      /\ \A nr \in 1 .. n :
           /\ content.attrs[nr] >= AttrHdrSize
           /\ content.at[nr] = content.at[nr - 1] + WordsOf(content.attrs[nr])

ASSUME ContentsAssumption == \A content \in Contents : LaidOut(content)

NoContent == [attrs |-> <<>>, at |-> [nr \in {0} |-> 0], data |-> 0]

\* A message: its type, the link it tells of (in a dump; else 0), its content,
\* its nlmsg_len and the word of its datagram at which it begins.
Message(type, link, content, at) ==
  [type |-> type, link |-> link, content |-> content, at |-> at,
   nlmsg_len |-> NlmsgHdrSize + FamilyHdrSize(type)
                   + WordSize * content.at[Len(content.attrs)]]

\* RTM_NEWLINK and the others.
TypeNumber ==
  [newlink |-> 16, dellink |-> 17, newaddr |-> 20, deladdr |-> 21,
   error |-> 2, done |-> 3]

\* A word of memory: what its low 16 bits are as an rta_len, the message it
\* belongs to (0: none) and the attribute that begins with it (0: none).
Word(len, of, nr) == [len |-> len, of |-> of, nr |-> nr]

\* The words in front of the attributes: the netlink and the family header.
HdrWords(m) == WordsOf(NlmsgHdrSize + FamilyHdrSize(m.type))

\* Message m, the id-th sent, as it lies in memory: its length, its type, the
\* rest of the netlink header and the family header, the attributes.
AttrsAt(m, w) ==
  {nr \in 1 .. Len(m.content.attrs) : HdrWords(m) + m.content.at[nr - 1] = w}

WordAt(m, id, w) ==
  CASE w = 0 -> Word(m.nlmsg_len, id, 0)
    [] w = 1 -> Word(TypeNumber[m.type], id, 0)
    [] w > 1 /\ AttrsAt(m, w) = {} -> Word(m.content.data, id, 0)
    [] w > 1 /\ AttrsAt(m, w) # {} ->
         LET nr == CHOOSE nr \in AttrsAt(m, w) : TRUE
         IN  Word(m.content.attrs[nr], id, nr)

Layout(m, id) == [w \in 0 .. WordsOf(m.nlmsg_len) - 1 |-> WordAt(m, id, w)]

\* The last word behind the receive buffer that matters.
Top == BufWords + WordsOf(NlmsgHdrSize) - 1

-----------------------------------------------------------------------------
VARIABLES
  prog,         \* which program runs
  pc,           \* where it is
  fdOk,         \* create_socket() has returned a socket
  ret,          \* what read_message() returned last
  buf,          \* the receive buffer and the words of the stack behind it
  len,          \* bytes of the datagram from message nh on
  nh,           \* word at which the current message begins
  rta,          \* word at which the current attribute begins
  alen,         \* len of the attribute loop: bytes left to parse
  sent,         \* history: all messages the kernel had for the program
  due,          \* history: ids of the messages the program should see
  queue,        \* receive queue: datagrams, each the first and the last id of
                \* the messages in it
  overrun,      \* the kernel dropped an event: ENOBUFS is pending
  skb,          \* dump: id of the first message in the datagram the kernel is
                \* filling, which holds all sent since; 0: it is empty
  next,         \* dump: the first link not looked at; 0: no dump runs
  links,        \* the links of the system
  changes,      \* links that came or went since the dump began
  stable,       \* history: links that were there all the time of the dump
  handled,      \* history: ids of the messages given to parse_message()
  printed       \* history: for each of these, the attributes given to
                \* parse_rta() while it was the current message

programVars == <<prog, fdOk>>
kernelVars == <<sent, due, queue, overrun, skb, next, links, changes, stable>>
vars == <<programVars, pc, ret, buf, len, nh, rta, alen, kernelVars, handled,
          printed>>

P == Parameters[prog]

Init ==
  /\ prog \in Programs
  /\ pc = "create" /\ fdOk = FALSE /\ ret = 0
  /\ \E junk \in Junk : buf = [i \in 0 .. Top |-> Word(junk, 0, 0)]
  /\ len = 0 /\ nh = 0 /\ rta = 0 /\ alen = 0
  /\ sent = <<>> /\ due = <<>> /\ queue = <<>> /\ overrun = FALSE
  /\ skb = 0 /\ next = 0
  /\ links \in SUBSET (1 .. MaxLinks)
  /\ changes = 0 /\ stable = {}
  /\ handled = <<>> /\ printed = <<>>

-----------------------------------------------------------------------------
(* What the kernel sends.                                                  *)

\* The messages the program should see: those that fit into the buffer and
\* carry an event or a link.  One that does not fit is cut by recvmsg(), and
\* NLMSG_OK() drops it without a word.
Deliverable(m) ==
  /\ m.type \notin {"done", "error"}
  /\ m.nlmsg_len <= BufWords * WordSize

\* Message m is the next one sent.
Emit(m) ==
  /\ sent' = Append(sent, m)
  /\ due' = IF Deliverable(m) THEN Append(due, Len(sent) + 1) ELSE due

\* The datagram that holds the messages first to last.
Messages(first, last) == [first |-> first, last |-> last]

\* The word behind message id, in its datagram.
End(id) == sent[id].at + WordsOf(sent[id].nlmsg_len)

\* Datagram d as it lies in memory.
DatagramWords(d) ==
  [w \in 0 .. End(d.last) - 1 |->
     LET id == CHOOSE id \in d.first .. d.last : sent[id].at <= w /\ w < End(id)
     IN  Layout(sent[id], id)[w - sent[id].at]]

-----------------------------------------------------------------------------
(* The program.                                                            *)

\* create_socket() succeeds or fails; main() goes on in both cases.
CreateSocket ==
  /\ pc = "create"
  /\ fdOk' \in BOOLEAN
  /\ pc' = IF prog = "getlinks" THEN "request" ELSE "recv"
  /\ UNCHANGED <<prog, ret, buf, len, nh, rta, alen, kernelVars, handled, printed>>

\* send_request(): the kernel starts a dump, answers with an error, or does
\* not get the request: the result of sendmsg() is not looked at.
SendRequest ==
  /\ pc = "request"
  /\ pc' = "recv"
  /\ \/ /\ fdOk
        /\ next' = 1
        /\ stable' = links
        /\ UNCHANGED <<sent, due, queue>>
     \/ /\ fdOk
        /\ Emit(Message("error", 0, NoContent, 0))
        /\ queue' = Append(queue, Messages(Len(sent'), Len(sent')))
        /\ UNCHANGED <<next, stable>>
     \/ UNCHANGED <<sent, due, queue, next, stable>>
  /\ UNCHANGED <<programVars, ret, buf, len, nh, rta, alen, overrun, skb, links,
                 changes, handled, printed>>

\* read_message() returns r; read_messages() calls it again when r is 0.
Return(r) ==
  /\ ret' = r
  /\ pc' = IF r = 0 THEN "recv" ELSE "exit"

\* Mutant of ReceiveFails: a failed recvmsg() is tried again, which clears
\* the ENOBUFS.
ReceiveRetries ==
  /\ pc = "recv"
  /\ ~fdOk \/ overrun
  /\ Return(0)
  /\ overrun' = FALSE
  /\ UNCHANGED <<programVars, buf, len, nh, rta, alen, sent, due, queue, skb, next,
                 links, changes, stable, handled, printed>>

\* recvmsg() fails: no socket, or the pending ENOBUFS, which the kernel
\* reports before it hands out what is queued.
ReceiveFails ==
  /\ pc = "recv"
  /\ ~fdOk \/ overrun
  /\ Return(-1)
  /\ UNCHANGED <<programVars, buf, len, nh, rta, alen, kernelVars, handled, printed>>

\* recvmsg() returns the oldest datagram, cut to the size of the buffer.
\* Behind it the buffer keeps what it held before.
Receive ==
  /\ pc = "recv"
  /\ fdOk /\ ~overrun
  /\ queue # <<>>
  /\ LET d == Head(queue)
         n == IF End(d.last) < BufWords THEN End(d.last) ELSE BufWords
     IN  /\ buf' = [i \in 0 .. Top |-> IF i < n THEN DatagramWords(d)[i] ELSE buf[i]]
         /\ len' = n * WordSize
  /\ queue' = Tail(queue)
  /\ nh' = 0
  /\ pc' = "msg"
  /\ UNCHANGED <<programVars, ret, rta, alen, sent, due, overrun, skb, next,
                 links, changes, stable, handled, printed>>

\* The current message.
Current == buf[nh].of

\* Mutant of NlmsgOk: a message must be shorter than the rest of the datagram.
NlmsgOkShorter ==
  /\ len >= NlmsgHdrSize
  /\ buf[nh].len >= NlmsgHdrSize
  /\ buf[nh].len < len

NlmsgOk ==
  /\ len >= NlmsgHdrSize
  /\ buf[nh].len >= NlmsgHdrSize
  /\ buf[nh].len <= len

\* NLMSG_NEXT: go behind the current message.
Advance ==
  /\ nh' = nh + WordsOf(buf[nh].len)
  /\ len' = len - Align(buf[nh].len)

\* Mutant of EndOfDatagram: what is left of len is returned.
EndOfDatagramReturnsLen ==
  /\ pc = "msg"
  /\ ~NlmsgOk
  /\ Return(len)
  /\ UNCHANGED <<programVars, buf, len, nh, rta, alen, kernelVars, handled, printed>>

\* Mutant of EndOfDatagram: get-links stops after the first datagram.
EndOfDatagramStops ==
  /\ pc = "msg"
  /\ ~NlmsgOk
  /\ Return(IF P.stop THEN 1 ELSE 0)
  /\ UNCHANGED <<programVars, buf, len, nh, rta, alen, kernelVars, handled, printed>>

\* No message is left in the datagram: read_message() returns 0.
EndOfDatagram ==
  /\ pc = "msg"
  /\ ~NlmsgOk
  /\ Return(0)
  /\ UNCHANGED <<programVars, buf, len, nh, rta, alen, kernelVars, handled, printed>>

\* Mutant of Done: get-links goes on as the monitors do.
DoneGoesOn ==
  /\ pc = "msg"
  /\ NlmsgOk
  /\ sent[Current].type = "done"
  /\ Return(0)
  /\ UNCHANGED <<programVars, buf, len, nh, rta, alen, kernelVars, handled, printed>>

\* The end of a dump ends get-links; a monitor would go on.
Done ==
  /\ pc = "msg"
  /\ NlmsgOk
  /\ sent[Current].type = "done"
  /\ Return(IF P.stop THEN 1 ELSE 0)
  /\ UNCHANGED <<programVars, buf, len, nh, rta, alen, kernelVars, handled, printed>>

\* An error message ends the program.
Error ==
  /\ pc = "msg"
  /\ NlmsgOk
  /\ sent[Current].type = "error"
  /\ Return(-1)
  /\ UNCHANGED <<programVars, buf, len, nh, rta, alen, kernelVars, handled, printed>>

\* Mutant of AttrLen: nothing is subtracted.
AttrLenWhole == buf[nh].len

\* The len the attribute loop starts with.
AttrLen == buf[nh].len - FamilyHdrSize(sent[Current].type)

\* Mutant of ParseMessage: attributes are parsed to the end of the datagram.
ParseToEndOfDatagram ==
  /\ pc = "msg"
  /\ NlmsgOk
  /\ sent[Current].type \in P.walks
  /\ handled' = Append(handled, Current)
  /\ printed' = Append(printed, <<>>)
  /\ rta' = nh + HdrWords(sent[Current])
  /\ alen' = len - NlmsgHdrSize - FamilyHdrSize(sent[Current].type)
  /\ pc' = "attr"
  /\ UNCHANGED <<programVars, ret, buf, len, nh, kernelVars>>

\* parse_message() of a message whose attributes are parsed: they begin
\* behind the family header.
ParseMessage ==
  /\ pc = "msg"
  /\ NlmsgOk
  /\ sent[Current].type \in P.walks
  /\ handled' = Append(handled, Current)
  /\ printed' = Append(printed, <<>>)
  /\ rta' = nh + HdrWords(sent[Current])
  /\ alen' = AttrLen
  /\ pc' = "attr"
  /\ UNCHANGED <<programVars, ret, buf, len, nh, kernelVars>>

\* parse_message() of a message that is reported as a whole or ignored.
ReportMessage ==
  /\ pc = "msg"
  /\ NlmsgOk
  /\ sent[Current].type \notin P.walks \union {"done", "error"}
  /\ handled' = Append(handled, Current)
  /\ printed' = Append(printed, <<>>)
  /\ Advance
  /\ UNCHANGED <<programVars, pc, ret, buf, rta, alen, kernelVars>>

RtaOk ==
  /\ alen >= AttrHdrSize
  /\ buf[rta].len >= AttrHdrSize
  /\ buf[rta].len <= alen

\* What parse_rta() is given: where it lies, and which attribute it really is.
PrintAttribute ==
  printed' = [printed EXCEPT ![Len(handled)] =
                Append(@, [of |-> buf[rta].of, nr |-> buf[rta].nr])]

\* Mutant of ParseRta: the pointer is not aligned up.
ParseRtaUnaligned ==
  /\ pc = "attr"
  /\ RtaOk
  /\ PrintAttribute
  /\ rta' = rta + buf[rta].len \div WordSize
  /\ alen' = alen - Align(buf[rta].len)
  /\ UNCHANGED <<programVars, pc, ret, buf, len, nh, kernelVars, handled>>

\* parse_rta() of the current attribute, and RTA_NEXT.
ParseRta ==
  /\ pc = "attr"
  /\ RtaOk
  /\ PrintAttribute
  /\ rta' = rta + WordsOf(buf[rta].len)
  /\ alen' = alen - Align(buf[rta].len)
  /\ UNCHANGED <<programVars, pc, ret, buf, len, nh, kernelVars, handled>>

\* Mutant of EndOfAttributes: read_message() returns after its first message.
EndOfAttributesReturns ==
  /\ pc = "attr"
  /\ ~RtaOk
  /\ Return(0)
  /\ UNCHANGED <<programVars, buf, len, nh, rta, alen, kernelVars, handled, printed>>

\* The attribute loop ends; the message loop goes on.
EndOfAttributes ==
  /\ pc = "attr"
  /\ ~RtaOk
  /\ Advance
  /\ pc' = "msg"
  /\ UNCHANGED <<programVars, ret, buf, rta, alen, kernelVars, handled, printed>>

-----------------------------------------------------------------------------
(* The kernel.  External.                                                  *)

\* Something happens to a link or an address the monitor subscribed to.
Notify ==
  /\ fdOk /\ pc # "exit"
  /\ Len(sent) < MaxEvents
  /\ Len(queue) < QueueSize /\ ~overrun
  /\ \E type \in P.events, content \in Contents : Emit(Message(type, 0, content, 0))
  /\ queue' = Append(queue, Messages(Len(sent'), Len(sent')))
  /\ UNCHANGED <<programVars, pc, ret, buf, len, nh, rta, alen, overrun, skb, next,
                 links, changes, stable, handled, printed>>

\* The same with the queue full: the event is lost, and so are those after it
\* until the program has been told.  What it held does not matter any more.
NotifyLost ==
  /\ fdOk /\ pc # "exit"
  /\ Len(sent) < MaxEvents
  /\ Len(queue) = QueueSize \/ overrun
  /\ \E type \in P.events : Emit(Message(type, 0, NoContent, 0))
  /\ overrun' = TRUE
  /\ UNCHANGED <<programVars, pc, ret, buf, len, nh, rta, alen, queue, skb, next,
                 links, changes, stable, handled, printed>>

\* The datagram being filled: the first message it will hold, and its size.
SkbFirst == IF skb = 0 THEN Len(sent) + 1 ELSE skb
SkbWords == IF skb = 0 THEN 0 ELSE End(Len(sent))

\* There is room in the datagram being filled, and for it in the queue.
FitsSkb(m) ==
  /\ Len(queue) < QueueSize
  /\ m.nlmsg_len + SkbWords * WordSize <= BufWords * WordSize

\* The dump looks at the links in order and adds those that are there.
DumpLink ==
  /\ fdOk /\ pc # "exit"
  /\ next \in 1 .. MaxLinks
  /\ next' = next + 1
  /\ \/ /\ next \in links
        /\ \E content \in Contents :
             LET m == Message("newlink", next, content, SkbWords)
             IN  FitsSkb(m) /\ Emit(m)
        /\ skb' = SkbFirst
     \/ /\ next \notin links
        /\ UNCHANGED <<sent, due, skb>>
  /\ UNCHANGED <<programVars, pc, ret, buf, len, nh, rta, alen, queue, overrun,
                 links, changes, stable, handled, printed>>

\* The datagram is sent and another one begun.
DumpFlush ==
  /\ fdOk /\ pc # "exit"
  /\ skb # 0
  /\ Len(queue) < QueueSize
  /\ queue' = Append(queue, Messages(skb, Len(sent)))
  /\ skb' = 0
  /\ UNCHANGED <<programVars, pc, ret, buf, len, nh, rta, alen, sent, due, overrun,
                 next, links, changes, stable, handled, printed>>

\* The last datagram ends with a DONE message.
DumpDone ==
  /\ fdOk /\ pc # "exit"
  /\ next = MaxLinks + 1
  /\ LET m == Message("done", 0, NoContent, SkbWords)
     IN  FitsSkb(m) /\ Emit(m)
  /\ queue' = Append(queue, Messages(SkbFirst, Len(sent')))
  /\ skb' = 0
  /\ next' = 0
  /\ UNCHANGED <<programVars, pc, ret, buf, len, nh, rta, alen, overrun, links,
                 changes, stable, handled, printed>>

\* A link comes or goes while the dump runs.
ChangeLinks ==
  /\ next # 0
  /\ changes < MaxChanges
  /\ changes' = changes + 1
  /\ \E l \in 1 .. MaxLinks :
       /\ links' = IF l \in links THEN links \ {l} ELSE links \union {l}
       /\ stable' = stable \ {l}
  /\ UNCHANGED <<programVars, pc, ret, buf, len, nh, rta, alen, sent, due,
                 queue, overrun, skb, next, handled, printed>>

-----------------------------------------------------------------------------
Program ==
  \/ CreateSocket \/ SendRequest
  \/ ReceiveFails \/ Receive
  \/ EndOfDatagram \/ Done \/ Error \/ ParseMessage \/ ReportMessage
  \/ ParseRta \/ EndOfAttributes

Dump == DumpLink \/ DumpFlush \/ DumpDone

Next == Program \/ Notify \/ NotifyLost \/ Dump \/ ChangeLinks

\* The program runs whenever it can, and the kernel ends a dump it began.
\* Events need not happen.
Spec == Init /\ [][Next]_vars /\ WF_vars(Program) /\ WF_vars(Dump)

-----------------------------------------------------------------------------
(* An older kernel.  The links are those of one chain, in its order: their *)
(* indices agree in the lowest eight bits, and a new one is put in front.  *)
(* What changes between two datagrams shifts what comes next.  The kernel  *)
(* sets NLM_F_DUMP_INTR in the header of the messages after that, which no *)
(* program looks at, so that the flag is not modelled.                     *)

Before(chain, n) == Cardinality({l \in chain : l < n})

\* Where a dump that was at n goes on when the chain has become another one:
\* behind as many links as before, if there are so many.
Resumes(n, chain) ==
  IF Cardinality(chain) < Before(links, n) THEN {MaxLinks + 1}
  ELSE {k \in 1 .. MaxLinks + 1 : Before(chain, k) = Before(links, n)}

ChangeChain ==
  /\ next # 0 /\ skb = 0
  /\ changes < MaxChanges
  /\ changes' = changes + 1
  /\ \E l \in 1 .. MaxLinks :
       /\ \/ l \in links /\ links' = links \ {l}
          \/ (\A k \in links : l < k) /\ links' = links \union {l}
       /\ stable' = stable \ {l}
  /\ next' \in Resumes(next, links')
  /\ UNCHANGED <<programVars, pc, ret, buf, len, nh, rta, alen, sent, due,
                 queue, overrun, skb, handled, printed>>

PositionSpec ==
  Init /\ [][Program \/ Dump \/ ChangeChain]_vars /\ WF_vars(Program) /\ WF_vars(Dump)

-----------------------------------------------------------------------------
(* Properties                                                              *)

\* Type invariant of the variables of the program and of the kernel.
TypeOK ==
  /\ prog \in Programs
  /\ pc \in {"create", "request", "recv", "msg", "attr", "exit"}
  /\ fdOk \in BOOLEAN /\ overrun \in BOOLEAN
  /\ ret \in {-1, 0, 1}
  /\ DOMAIN buf = 0 .. Top
  /\ len \in Nat /\ alen \in Int
  /\ nh \in 0 .. BufWords /\ rta \in 0 .. Top + 1
  /\ Len(queue) <= QueueSize
  /\ next \in 0 .. MaxLinks + 1
  /\ \A i \in 1 .. Len(handled) : handled[i] \in 1 .. Len(sent)

Delivering == INSTANCE Delivery WITH
  Item <- 1 .. (MaxEvents + MaxLinks),
  sent <- due,
  got <- handled

\* Every program implements Delivery: it handles the messages in order, each
\* once and without a gap.  A monitor that lost an event to a full queue
\* handles none after it, since the next recvmsg() ends it.
HandlesWhatWasSent == Delivering!Spec

\* Of a message whose attributes are parsed all are, in order; and no more
\* than four things behind the message are taken for attributes after them.
AllAttributesPrinted ==
  \A i \in 1 .. Len(handled) :
    LET id == handled[i]
        n == Len(sent[id].content.attrs)
        ps == printed[i]
        parsing == pc = "attr" /\ i = Len(handled)
    IN  sent[id].type \in P.walks =>
          /\ Len(ps) >= n \/ parsing
          /\ Len(ps) <= n + NlmsgHdrSize \div AttrHdrSize
          /\ \A nr \in 1 .. Len(ps) :
               IF nr <= n THEN ps[nr] = [of |-> id, nr |-> nr] ELSE ps[nr].of # id

\* The attribute loop runs 16 bytes past the message and never farther, so
\* that it stays within the stack frame behind the buffer.
OverreadIsOneHeader ==
  pc = "attr" =>
    WordSize * rta + alen = WordSize * nh + sent[Current].nlmsg_len + NlmsgHdrSize

\* What is taken for an attribute by mistake is what an earlier datagram or
\* the stack left behind: the header of the next message of the same datagram
\* is as long as what is read of it, and its length does not fit.
PhantomsAreStale ==
  \A i \in 1 .. Len(handled) :
    \A nr \in 1 .. Len(printed[i]) : printed[i][nr].of <= handled[i]

\* What README.md says the programs print: attributes of the event at hand.
PrintsAttributesOfEvent ==
  \A i \in 1 .. Len(handled) :
    \A nr \in 1 .. Len(printed[i]) : printed[i][nr].of = handled[i]

\* When get-links ends because the dump is done, it has shown every link that
\* was there all the time, as README.md says ("get list of interfaces").  It
\* is not so on a kernel that resumes by position.
ListsEveryLink ==
  ret = 1 =>
    \A l \in stable : \E i \in 1 .. Len(handled) : sent[handled[i]].link = l

\* The same on a kernel that resumes by index; and it has shown none twice.
DumpIsComplete ==
  LET shown == {i \in 1 .. Len(handled) : sent[handled[i]].link # 0}
  IN  /\ ListsEveryLink
      /\ \A i, j \in shown : sent[handled[i]].link = sent[handled[j]].link => i = j

\* A monitor handles every event that fits into its buffer, or ends.
EventsAreHandled ==
  \A id \in 1 .. MaxEvents :
    (prog # "getlinks" /\ id <= Len(sent) /\ Deliverable(sent[id]))
      ~> (pc = "exit" \/ id \in Range(handled))

\* A program whose create_socket() failed goes on with the result, and ends
\* at the first recvmsg() instead of calling it again and again.
FailedSocketEnds == (pc = "recv" /\ ~fdOk) ~> pc = "exit"

\* get-links ends once its request was answered: at the end of the dump, or
\* with an error.
AnswerEndsGetLinks == (prog = "getlinks" /\ (next # 0 \/ queue # <<>>)) ~> pc = "exit"
=============================================================================
