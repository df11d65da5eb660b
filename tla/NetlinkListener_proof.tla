------------------------ MODULE NetlinkListener_proof ------------------------
(***************************************************************************)
(* Proofs about the netlink programs: NetlinkListener keeps its types, the *)
(* list of links is complete, what is printed is what the messages hold,   *)
(* and every program implements Delivery.                                  *)
(*                                                                         *)
(* The inductive invariant follows a message from the kernel to the        *)
(* program.  It speaks of two messages: e is the last one of the datagram  *)
(* that was received last, and p is the last one the program is done with  *)
(* or is parsing.  Behind e come the messages in the receive queue and     *)
(* those of the datagram the kernel is filling (InFlight); those from p to *)
(* e lie in the buffer as the kernel laid them out, and the words behind   *)
(* them are older (Reading); those up to p that the program should see are *)
(* the ones it has handled (InOrder).                                      *)
(***************************************************************************)
EXTENDS NetlinkListener, TLAPS, SequenceTheorems, WellFoundedInduction

Types == LinkEvents \union AddrEvents \union {"done", "error"}

\* Every message as the kernel makes it.
Sendable ==
  [type : Types, link : 0 .. MaxLinks, content : Contents \union {NoContent},
   at : Nat, nlmsg_len : Nat]
Made(m) ==
  m.nlmsg_len = NlmsgHdrSize + FamilyHdrSize(m.type)
                  + WordSize * m.content.at[Len(m.content.attrs)]

Words == [len : Nat, of : Nat, nr : Nat]

Typed ==
  /\ prog \in Programs
  /\ pc \in {"create", "request", "recv", "msg", "attr", "exit"}
  /\ fdOk \in BOOLEAN /\ overrun \in BOOLEAN
  /\ ret \in {-1, 0, 1}
  /\ buf \in [0 .. Top -> Words]
  /\ len \in Nat /\ alen \in Int
  /\ nh \in 0 .. BufWords /\ rta \in 0 .. Top + 1
  /\ sent \in Seq(Sendable)
  /\ \A i \in 1 .. Len(sent) : Made(sent[i])
  /\ due \in Seq(Nat) /\ handled \in Seq(Nat)
  /\ queue \in Seq([first : Nat, last : Nat]) /\ Len(queue) <= QueueSize
  /\ skb \in Nat /\ next \in 0 .. MaxLinks + 1
  /\ links \subseteq 1 .. MaxLinks /\ stable \subseteq 1 .. MaxLinks
  /\ printed \in Seq(Seq([of : Nat, nr : Nat])) /\ Len(printed) = Len(handled)

\* What the kernel sends to which program.
ByProgram ==
  /\ pc = "request" => prog = "getlinks"
  /\ prog = "getlinks" =>
       /\ ~overrun
       /\ \A i \in 1 .. Len(sent) : sent[i].type \in {"newlink", "done", "error"}
  /\ prog # "getlinks" =>
       /\ skb = 0 /\ next = 0 /\ Len(sent) <= MaxEvents
       /\ \A i \in 1 .. Len(sent) : sent[i].type \in P.events /\ sent[i].link = 0

\* Before there is a socket and a request nothing is sent.
NotYet ==
  /\ pc = "create" => ~fdOk
  /\ pc \in {"create", "request"} =>
       sent = <<>> /\ queue = <<>> /\ skb = 0 /\ next = 0 /\ stable = {} /\ ~overrun

\* Messages first to last lie behind each other from the beginning of a
\* datagram on; several fit into the buffer.
InDatagram(first, last) ==
  /\ first \in 1 .. Len(sent) /\ last \in first .. Len(sent)
  /\ sent[first].at = 0
  /\ \A i \in first .. last - 1 : sent[i + 1].at = End(i)
  /\ \A i, j \in first .. last : i < j => End(i) <= sent[j].at
  /\ \A w \in 0 .. End(last) - 1 :
       \E i \in first .. last : sent[i].at <= w /\ w < End(i)
  /\ first < last => End(last) <= BufWords

\* The datagrams on their way: those queued, and the one being filled.
OnTheWay(first, last) ==
  \/ \E j \in 1 .. Len(queue) : queue[j] = Messages(first, last)
  \/ skb # 0 /\ first = skb /\ last = Len(sent)

LastQueued(e) == IF queue = <<>> THEN e ELSE queue[Len(queue)].last

\* The messages behind e are in the queue and in the datagram being filled, in
\* order; only those that found the queue full are not.
InFlight(e) ==
  /\ \A first, last \in Nat : OnTheWay(first, last) => InDatagram(first, last)
  /\ queue # <<>> => queue[1].first = e + 1
  /\ \A j \in 1 .. Len(queue) - 1 : queue[j + 1].first = queue[j].last + 1
  /\ skb # 0 => skb = LastQueued(e) + 1
  /\ skb = 0 => overrun \/ Len(sent) = LastQueued(e)

\* Messages c to e lie in the buffer from the current message on; the words
\* behind them are left from earlier ones.
InBuffer(c, e) ==
  /\ \A i \in c .. e - 1 : sent[i + 1].at = End(i)
  /\ \A i, j \in c .. e : i < j => End(i) <= sent[j].at
  /\ End(e) <= BufWords
  /\ nh = sent[c].at
  /\ WordSize * nh + len = WordSize * End(e)
  /\ \A i \in c .. e : \A w \in 0 .. WordsOf(sent[i].nlmsg_len) - 1 :
       buf[sent[i].at + w] = Layout(sent[i], i)[w]
  /\ \A w \in End(e) .. Top : buf[w].of < c

Reading(p, e) ==
  /\ p <= e /\ e <= Len(sent)
  /\ \A w \in 0 .. Top : buf[w].of <= e
  /\ pc \in {"create", "request", "recv"} => p = e
  /\ pc = "msg" => IF p = e THEN ~NlmsgOk ELSE InBuffer(p + 1, e)
  /\ pc = "attr" => p > 0 /\ InBuffer(p, e)

\* The program has handled what it should see of the messages up to p.
InOrder(p) ==
  /\ \A k, l \in 1 .. Len(due) : k < l => due[k] < due[l]
  /\ \A k \in 1 .. Len(due) : due[k] \in 1 .. Len(sent) /\ Deliverable(sent[due[k]])
  /\ \A i \in 1 .. Len(sent) :
       Deliverable(sent[i]) => \E k \in 1 .. Len(due) : due[k] = i
  /\ Len(handled) <= Len(due)
  /\ \A k \in 1 .. Len(handled) : handled[k] = due[k]
  /\ \A k \in 1 .. Len(due) : due[k] <= p <=> k <= Len(handled)

\* Where the attribute loop is: at the attribute behind the last one it
\* printed, or behind the message with as many words as things printed there.
InLoop(p, e) ==
  pc = "attr" =>
    LET m == sent[p]
        n == Len(m.content.attrs)
        k == Len(printed[Len(handled)])
    IN  /\ Len(handled) > 0 /\ handled[Len(handled)] = p
        /\ m.type \in P.walks
        /\ alen >= 0
        /\ WordSize * rta + alen = WordSize * nh + m.nlmsg_len + NlmsgHdrSize
        /\ k <= n => rta = nh + HdrWords(m) + m.content.at[k]
        /\ k > n => p = e /\ End(p) + (k - n) <= rta

\* What was printed of message i-th handled.
PrintedOf(i) ==
  LET id == handled[i]
      n == Len(sent[id].content.attrs)
      ps == printed[i]
  IN  /\ sent[id].type \in P.walks =>
           /\ Len(ps) >= n \/ (pc = "attr" /\ i = Len(handled))
           /\ Len(ps) <= n + NlmsgHdrSize \div AttrHdrSize
           /\ \A nr \in 1 .. Len(ps) :
                IF nr <= n THEN ps[nr] = [of |-> id, nr |-> nr] ELSE ps[nr].of < id
      /\ sent[id].type \notin P.walks => ps = <<>>

Printing == \A i \in 1 .. Len(handled) : PrintedOf(i)

Sent(l) == \E i \in 1 .. Len(sent) : sent[i].link = l

\* How far the dump is.
Dumping ==
  /\ \A i, j \in 1 .. Len(sent) :
       i < j /\ sent[i].link # 0 /\ sent[j].link # 0 => sent[i].link < sent[j].link
  /\ \A i \in 1 .. Len(sent) : sent[i].link # 0 => Deliverable(sent[i])
  /\ next # 0 =>
       /\ stable \subseteq links
       /\ Len(sent) < next
       /\ \A i \in 1 .. Len(sent) : sent[i].link < next /\ sent[i].type # "done"
       /\ \A l \in stable : l < next => Sent(l)
  /\ \A i \in 1 .. Len(sent) : sent[i].type = "done" =>
       i = Len(sent) /\ next = 0 /\ skb = 0 /\ \A l \in stable : Sent(l)
  /\ ret = 1 =>
       /\ pc = "exit" /\ next = 0 /\ skb = 0
       /\ \A l \in stable : \E i \in 1 .. Len(handled) : sent[handled[i]].link = l

At(p, e) ==
  InFlight(e) /\ Reading(p, e) /\ InOrder(p) /\ InLoop(p, e)

Inv ==
  /\ Typed /\ ByProgram /\ NotYet /\ Dumping /\ Printing
  /\ \E p, e \in 0 .. Len(sent) : At(p, e)

-----------------------------------------------------------------------------
(* Lengths, messages and how they lie in memory.                           *)

\* Lengths rounded up to words.
LEMMA WordsOfFacts ==
  ASSUME NEW b \in Nat
  PROVE  /\ WordsOf(b) \in Nat
         /\ b <= WordSize * WordsOf(b) /\ WordSize * WordsOf(b) < b + WordSize
         /\ Align(b) = WordSize * WordsOf(b)
BY DEF WordsOf, Align, WordSize

\* What is known of a message's content: it is one of the constant's, or none.
LEMMA ContentFacts ==
  ASSUME NEW content \in Contents \union {NoContent}
  PROVE  LaidOut(content)
<1>1. CASE content = NoContent
  <2>1. /\ NoContent.attrs = <<>> /\ NoContent.data = 0 /\ NoContent.at[0] = 0
        /\ NoContent.at \in [0 .. 0 -> Nat]
    <3>1. 0 .. 0 = {0}
      OBVIOUS
    <3> QED BY <3>1 DEF NoContent
  <2>2. <<>> \in Seq(Nat) /\ Len(<<>>) = 0
    BY EmptySeq
  <2> QED BY <1>1, <2>1, <2>2 DEF LaidOut
<1>2. CASE content \in Contents
  BY <1>2, ContentsAssumption
<1> QED BY <1>1, <1>2

\* Attributes begin at increasing words.  By the least number of attributes
\* after which one begins where an earlier one does, or before.
LEMMA OffsetsIncrease ==
  ASSUME NEW content, LaidOut(content),
         NEW i \in 0 .. Len(content.attrs), NEW j \in 0 .. Len(content.attrs), i < j
  PROVE  content.at[i] < content.at[j]
<1> DEFINE n == Len(content.attrs)
           T == {k \in Nat : i < k /\ k <= n /\ ~(content.at[i] < content.at[k])}
<1> SUFFICES ASSUME j \in T PROVE FALSE
  BY LenProperties DEF LaidOut
<1>1. PICK k \in T : \A l \in T : ~(<<l, k>> \in OpToRel(<, Nat))
  <2>1. T \subseteq Nat /\ T # {}
    OBVIOUS
  <2> QED BY <2>1, WFMin, NatLessThanWellFounded
<1>2. \A l \in T : ~(l < k)
  BY <1>1 DEF OpToRel
<1>3. /\ n \in Nat /\ content.at \in [0 .. n -> Nat] /\ content.attrs \in Seq(Nat)
      /\ k \in Nat /\ i < k /\ k <= n /\ ~(content.at[i] < content.at[k])
      /\ i < k - 1 => content.at[i] < content.at[k - 1]
  <2>1. n \in Nat
    BY LenProperties DEF LaidOut
  <2>2. k - 1 \notin T
    BY <1>2, <2>1
  <2> QED BY <2>1, <2>2 DEF LaidOut
<1>4. i \in 0 .. n
  OBVIOUS
<1>5. /\ content.attrs[k] >= AttrHdrSize
      /\ content.at[k] = content.at[k - 1] + WordsOf(content.attrs[k])
  BY <1>3, <1>4 DEF LaidOut
<1> HIDE DEF T
<1>6. content.attrs[k] \in Nat
  BY <1>3, <1>4, ElementOfSeq
<1> HIDE DEF n
<1>7. content.at[k - 1] \in Nat /\ content.at[k] \in Nat /\ content.at[i] \in Nat
  <2>1. k - 1 \in 0 .. n /\ k \in 0 .. n
    BY <1>3, <1>4
  <2> QED BY <1>3, <1>4, <2>1
<1>8. WordsOf(content.attrs[k]) \in Nat /\ WordsOf(content.attrs[k]) > 0
  <2>1. \A b \in Nat : b >= 4 => WordsOf(b) \in Nat /\ WordsOf(b) > 0
    BY DEF WordsOf, WordSize
  <2>2. content.attrs[k] >= 4
    BY <1>5 DEF AttrHdrSize
  <2> QED BY <1>6, <2>1, <2>2
<1>9. content.at[i] <= content.at[k - 1]
  <2>1. CASE i = k - 1
    <3>1. content.at[i] = content.at[k - 1]
      BY <2>1
    <3>2. \A x, y \in Nat : x = y => x <= y
      OBVIOUS
    <3> QED BY <1>7, <3>1, <3>2
  <2>2. CASE i < k - 1
    <3>1. content.at[i] < content.at[k - 1]
      BY <1>3, <2>2
    <3>2. \A x, y \in Nat : x < y => x <= y
      OBVIOUS
    <3> QED BY <1>7, <3>1, <3>2
  <2>3. i = k - 1 \/ i < k - 1
    BY <1>3, <1>4
  <2> QED BY <2>1, <2>2, <2>3
<1> DEFINE x == content.at[i]
           y == content.at[k - 1]
           z == content.at[k]
           d == WordsOf(content.attrs[k])
<1>10. x \in Nat /\ y \in Nat /\ z \in Nat /\ d \in Nat /\ d > 0
       /\ x <= y /\ z = y + d /\ ~(x < z)
  BY <1>3, <1>5, <1>7, <1>8, <1>9
<1> HIDE DEF x, y, z, d
<1> QED BY <1>10

\* The sizes of a message.
LEMMA MessageFacts ==
  ASSUME NEW m \in Sendable, Made(m)
  PROVE  /\ LaidOut(m.content)
         /\ m.at \in Nat /\ m.nlmsg_len \in Nat /\ HdrWords(m) \in Nat
         /\ FamilyHdrSize(m.type) \in {4, 8, 16, 20}
         /\ m.content.at[Len(m.content.attrs)] \in Nat
         /\ HdrWords(m) >= 5
         /\ NlmsgHdrSize + FamilyHdrSize(m.type) = WordSize * HdrWords(m)
         /\ m.nlmsg_len = WordSize * WordsOf(m.nlmsg_len)
         /\ WordsOf(m.nlmsg_len) \in Nat /\ WordsOf(m.nlmsg_len) >= 5
         /\ WordsOf(m.nlmsg_len) = HdrWords(m) + m.content.at[Len(m.content.attrs)]
<1>1. LaidOut(m.content)
  BY ContentFacts DEF Sendable
<1>2. FamilyHdrSize(m.type) \in {4, 8, 16, 20}
  BY DEF Sendable, Types, FamilyHdrSize, LinkEvents, AddrEvents
<1>3. m.content.at[Len(m.content.attrs)] \in Nat
  <2>1. Len(m.content.attrs) \in Nat
    BY <1>1, LenProperties DEF LaidOut
  <2> QED BY <1>1, <2>1 DEF LaidOut
<1>4. m.at \in Nat /\ m.nlmsg_len \in Nat
  BY DEF Sendable
<1> DEFINE f == FamilyHdrSize(m.type)
           a == m.content.at[Len(m.content.attrs)]
<1>5. WordsOf(NlmsgHdrSize + f) \in Nat
      /\ NlmsgHdrSize + f = WordSize * WordsOf(NlmsgHdrSize + f)
  BY <1>2 DEF WordsOf, NlmsgHdrSize, WordSize
<1>6. m.nlmsg_len = WordSize * (WordsOf(NlmsgHdrSize + f) + a)
  <2> HIDE DEF f, a
  <2>1. m.nlmsg_len = NlmsgHdrSize + f + WordSize * a
    BY DEF Made, f, a
  <2>2. m.nlmsg_len = WordSize * WordsOf(NlmsgHdrSize + f) + WordSize * a
    BY <1>5, <2>1
  <2> QED BY <1>3, <1>5, <2>2 DEF a, WordSize
<1>7. HdrWords(m) = WordsOf(NlmsgHdrSize + f)
  BY DEF HdrWords
<1>8. WordsOf(m.nlmsg_len) = WordsOf(NlmsgHdrSize + f) + a
  <2> DEFINE x == WordsOf(NlmsgHdrSize + f) + a
  <2>1. x \in Nat
    BY <1>3, <1>5
  <2> HIDE DEF x
  <2>2. WordsOf(WordSize * x) = x
    BY <2>1 DEF WordsOf, WordSize
  <2> QED BY <1>6, <2>2 DEF x
<1>9. WordsOf(NlmsgHdrSize + f) >= 5
  BY <1>2, <1>5 DEF NlmsgHdrSize, WordSize
<1>10. WordsOf(NlmsgHdrSize + f) + a >= 5
  <2> HIDE DEF f, a
  <2> QED BY <1>3, <1>5, <1>9 DEF f, a
<1> HIDE DEF f, a
<1> QED BY <1>1, <1>2, <1>3, <1>4, <1>5, <1>6, <1>7, <1>8, <1>9, <1>10 DEF f, a

\* A message in memory: its first word holds its length, attribute nr begins
\* where its offset says with its own length, and all words belong to it.
LEMMA LayoutFacts ==
  ASSUME NEW m \in Sendable, Made(m), NEW id \in Nat
  PROVE  /\ \A w \in 0 .. WordsOf(m.nlmsg_len) - 1 :
              Layout(m, id)[w] \in Words /\ Layout(m, id)[w].of = id
         /\ Layout(m, id)[0].len = m.nlmsg_len
         /\ \A nr \in 1 .. Len(m.content.attrs) :
              LET w == HdrWords(m) + m.content.at[nr - 1]
              IN  /\ w \in 0 .. WordsOf(m.nlmsg_len) - 1
                  /\ Layout(m, id)[w] = Word(m.content.attrs[nr], id, nr)
<1> DEFINE c == m.content
           n == Len(c.attrs)
           Size == WordsOf(m.nlmsg_len)
<1>1. /\ n \in Nat /\ c.attrs \in Seq(Nat) /\ c.data \in Nat
      /\ c.at \in [0 .. n -> Nat]
  BY MessageFacts, LenProperties DEF LaidOut
<1>2. /\ m.nlmsg_len \in Nat /\ HdrWords(m) \in Nat /\ HdrWords(m) >= 5
      /\ Size \in Nat /\ Size = HdrWords(m) + c.at[n]
  BY MessageFacts
<1>3. \A nr \in 1 .. n : c.attrs[nr] \in Nat
  BY <1>1, ElementOfSeq
<1>4. TypeNumber[m.type] \in Nat
  BY DEF Sendable, Types, TypeNumber, LinkEvents, AddrEvents
<1>5. ASSUME NEW w \in 0 .. Size - 1
      PROVE  Layout(m, id)[w] \in Words /\ Layout(m, id)[w].of = id
  <2>0. Layout(m, id)[w] = WordAt(m, id, w)
    BY DEF Layout
  <2>1. CASE w = 0
    <3>1. WordAt(m, id, w) = Word(m.nlmsg_len, id, 0)
      BY <2>1 DEF WordAt
    <3> QED BY <1>2, <2>0, <3>1 DEF Word, Words
  <2>2. CASE w = 1
    <3>1. WordAt(m, id, w) = Word(TypeNumber[m.type], id, 0)
      BY <2>2 DEF WordAt
    <3> QED BY <1>4, <2>0, <3>1 DEF Word, Words
  <2>3. CASE w > 1 /\ AttrsAt(m, w) = {}
    <3>1. WordAt(m, id, w) = Word(c.data, id, 0)
      BY <2>3 DEF WordAt
    <3> QED BY <1>1, <2>0, <3>1 DEF Word, Words
  <2>4. CASE w > 1 /\ AttrsAt(m, w) # {}
    <3> DEFINE nr == CHOOSE k \in AttrsAt(m, w) : TRUE
    <3>1. nr \in AttrsAt(m, w)
      BY <2>4
    <3>2. nr \in 1 .. n
      BY <3>1 DEF AttrsAt
    <3>3. WordAt(m, id, w) = Word(c.attrs[nr], id, nr)
      BY <2>4 DEF WordAt
    <3> QED BY <1>1, <1>3, <2>0, <3>2, <3>3 DEF Word, Words
  <2> QED BY <1>2, <2>1, <2>2, <2>3, <2>4
<1>6. Layout(m, id)[0].len = m.nlmsg_len
  <2>1. c.at[n] \in Nat
    BY <1>1
  <2>2. 0 \in 0 .. Size - 1
    BY <1>2, <2>1
  <2>3. Layout(m, id)[0] = Word(m.nlmsg_len, id, 0)
    BY <2>2 DEF Layout, WordAt
  <2> QED BY <2>3 DEF Word
<1>7. ASSUME NEW nr \in 1 .. n
      PROVE  LET w == HdrWords(m) + c.at[nr - 1]
             IN  w \in 0 .. Size - 1 /\ Layout(m, id)[w] = Word(c.attrs[nr], id, nr)
  <2> DEFINE w == HdrWords(m) + c.at[nr - 1]
  <2>1. nr - 1 \in 0 .. n /\ n \in 0 .. n /\ nr - 1 < n
    BY <1>1
  <2>2. LaidOut(c)
    BY MessageFacts
  <2>3. c.at[nr - 1] \in Nat /\ c.at[n] \in Nat /\ c.at[nr - 1] < c.at[n]
    BY <1>1, <2>1, <2>2, OffsetsIncrease
  <2>4. w \in 0 .. Size - 1 /\ w > 1 /\ w \in Nat
    <3> DEFINE h == HdrWords(m)
               x == c.at[nr - 1]
               y == c.at[n]
    <3> HIDE DEF h, x, y
    <3>1. h \in Nat /\ h >= 5 /\ x \in Nat /\ y \in Nat /\ x < y
      BY <1>2, <2>3 DEF h, x, y
    <3>2. h + x \in 0 .. h + y - 1 /\ h + x > 1 /\ h + x \in Nat
      BY <3>1
    <3>3. w = h + x /\ Size = h + y
      BY <1>2 DEF h, x, y
    <3> HIDE DEF w, Size
    <3> QED BY <3>1, <3>2, <3>3
  <2>5. nr \in AttrsAt(m, w)
    BY DEF AttrsAt
  <2>6. ASSUME NEW k \in AttrsAt(m, w) PROVE k = nr
    <3>1. k \in 1 .. n /\ c.at[k - 1] = c.at[nr - 1]
      <4>1. k \in 1 .. n /\ HdrWords(m) + c.at[k - 1] = HdrWords(m) + c.at[nr - 1]
        BY DEF AttrsAt
      <4>2. k - 1 \in 0 .. n
        BY <4>1, <1>1
      <4>3. c.at[k - 1] \in Nat
        BY <4>2, <1>1
      <4>4. \A h, x, y \in Nat : h + x = h + y => x = y
        OBVIOUS
      <4> QED BY <1>2, <2>3, <4>1, <4>3, <4>4
    <3>2. k - 1 \in 0 .. n
      BY <3>1, <1>1
    <3>3. ~(k - 1 < nr - 1)
      <4>1. k - 1 < nr - 1 => c.at[k - 1] < c.at[nr - 1]
        BY <2>1, <2>2, <3>2, OffsetsIncrease
      <4>2. \A x \in Nat : ~(x < x)
        OBVIOUS
      <4> QED BY <2>3, <3>1, <4>1, <4>2
    <3>4. ~(nr - 1 < k - 1)
      <4>1. nr - 1 < k - 1 => c.at[nr - 1] < c.at[k - 1]
        BY <2>1, <2>2, <3>2, OffsetsIncrease
      <4>2. \A x \in Nat : ~(x < x)
        OBVIOUS
      <4> QED BY <2>3, <3>1, <4>1, <4>2
    <3> QED BY <3>1, <3>3, <3>4
  <2>7. (CHOOSE k \in AttrsAt(m, w) : TRUE) = nr
    BY <2>5, <2>6
  <2>8. Layout(m, id)[w] = Word(c.attrs[nr], id, nr)
    <3> HIDE DEF w
    <3>1. AttrsAt(m, w) # {}
      BY <2>5
    <3>2. Layout(m, id)[w] = WordAt(m, id, w)
      BY <2>4 DEF Layout
    <3>3. ~(w = 0) /\ ~(w = 1) /\ w > 1
      BY <2>4
    <3>4. WordAt(m, id, w) = Word(c.attrs[nr], id, nr)
      BY <2>7, <3>1, <3>3 DEF WordAt
    <3> QED BY <3>2, <3>4
  <2> QED BY <2>4, <2>8
<1> QED BY <1>5, <1>6, <1>7

-----------------------------------------------------------------------------
(* The parameters of the programs, and what sending a message does.        *)

\* What the proofs use of the programs' parameters.
LEMMA ParameterFacts ==
  ASSUME prog \in Programs
  PROVE  /\ P.events \subseteq LinkEvents \union AddrEvents
         /\ P.walks \subseteq LinkEvents \union AddrEvents
         /\ P.stop \in BOOLEAN
         /\ P.stop <=> prog = "getlinks"
         /\ prog = "getlinks" => P.events = {}
<1>1. DOMAIN Parameters =
        {"ifaddrs", "ifevents", "ifflags", "ifrtas", "ifstats", "getlinks"}
  BY DEF Parameters
<1>2. prog \in {"ifaddrs", "ifevents", "ifflags", "ifrtas", "ifstats", "getlinks"}
  BY <1>1, ProgramsAssumption
<1>3. CASE prog = "ifaddrs"
  BY <1>3 DEF P, Parameters, IfAddrs, AddrEvents
<1>4. CASE prog = "ifevents"
  BY <1>4 DEF P, Parameters, IfEvents
<1>5. CASE prog = "ifflags"
  BY <1>5 DEF P, Parameters, IfFlags
<1>6. CASE prog = "ifrtas"
  BY <1>6 DEF P, Parameters, IfRtas
<1>7. CASE prog = "ifstats"
  BY <1>7 DEF P, Parameters, IfStats, LinkEvents
<1>8. CASE prog = "getlinks"
  BY <1>8 DEF P, Parameters, GetLinks, LinkEvents
<1> QED BY <1>2, <1>3, <1>4, <1>5, <1>6, <1>7, <1>8

\* Message() makes messages.
LEMMA MessageIsMade ==
  ASSUME NEW type \in Types, NEW link \in 0 .. MaxLinks,
         NEW content \in Contents \union {NoContent}, NEW at \in Nat
  PROVE  /\ Message(type, link, content, at) \in Sendable
         /\ Made(Message(type, link, content, at))
<1> DEFINE m == Message(type, link, content, at)
           a == content.at[Len(content.attrs)]
<1>1. LaidOut(content)
  BY ContentFacts
<1>2. a \in Nat
  <2>1. Len(content.attrs) \in Nat
    BY <1>1, LenProperties DEF LaidOut
  <2>2. Len(content.attrs) \in 0 .. Len(content.attrs)
    BY <2>1
  <2>3. content.at \in [0 .. Len(content.attrs) -> Nat]
    BY <1>1 DEF LaidOut
  <2> QED BY <2>2, <2>3
<1>3. FamilyHdrSize(type) \in Nat
  BY DEF Types, FamilyHdrSize, LinkEvents, AddrEvents
<1>4. NlmsgHdrSize + FamilyHdrSize(type) + WordSize * a \in Nat
  <2> HIDE DEF a
  <2> QED BY <1>2, <1>3 DEF NlmsgHdrSize, WordSize
<1> QED BY <1>4 DEF Message, Sendable, Made

\* The messages sent so far are still there.
Grows ==
  /\ Len(sent') \in Nat /\ Len(sent) <= Len(sent')
  /\ \A i \in 1 .. Len(sent) : sent'[i] = sent[i]

\* Sending appends a message, and notes it if the program should see it.
LEMMA EmitFacts ==
  ASSUME Typed, NEW m \in Sendable, Made(m), Emit(m)
  PROVE  /\ Grows
         /\ sent' \in Seq(Sendable) /\ Len(sent') = Len(sent) + 1
         /\ sent'[Len(sent) + 1] = m
         /\ \A i \in 1 .. Len(sent') : Made(sent'[i])
         /\ due' \in Seq(Nat)
<1>1. sent \in Seq(Sendable) /\ due \in Seq(Nat) /\ Len(sent) \in Nat
  BY LenProperties DEF Typed
<1>2. sent' = Append(sent, m)
  BY DEF Emit
<1>3. /\ sent' \in Seq(Sendable) /\ Len(sent') = Len(sent) + 1
      /\ sent'[Len(sent) + 1] = m
      /\ \A i \in 1 .. Len(sent) : sent'[i] = sent[i]
  BY <1>1, <1>2, AppendProperties
<1>4. due' \in Seq(Nat)
  <2>1. Append(due, Len(sent) + 1) \in Seq(Nat)
    BY <1>1, AppendProperties
  <2> QED BY <1>1, <2>1 DEF Emit
<1>5. ASSUME NEW i \in 1 .. Len(sent') PROVE Made(sent'[i])
  <2>1. CASE i = Len(sent) + 1
    BY <1>3, <2>1
  <2>2. CASE i \in 1 .. Len(sent)
    BY <1>3, <2>2 DEF Typed
  <2> QED BY <1>1, <1>3, <2>1, <2>2
<1> QED BY <1>1, <1>3, <1>4, <1>5 DEF Grows

\* The order of what should be seen and what was is kept when a message comes.
LEMMA EmitInOrder ==
  ASSUME Typed, NEW m \in Sendable, Made(m), Emit(m),
         NEW p \in 0 .. Len(sent), InOrder(p), handled' = handled
  PROVE  InOrder(p)'
<1> DEFINE n == Len(sent)
<1>1. /\ n \in Nat /\ Len(due) \in Nat /\ due \in Seq(Nat) /\ Len(handled) \in Nat
      /\ Len(sent') = n + 1 /\ sent'[n + 1] = m
      /\ \A i \in 1 .. n : sent'[i] = sent[i]
  BY EmitFacts, LenProperties DEF Typed, Grows
<1>2. CASE Deliverable(m)
  <2>1. due' = Append(due, n + 1)
    BY <1>2 DEF Emit
  <2>2. /\ Len(due') = Len(due) + 1 /\ due'[Len(due) + 1] = n + 1
        /\ \A k \in 1 .. Len(due) : due'[k] = due[k]
    BY <1>1, <2>1, AppendProperties
  <2>3. \A k \in 1 .. Len(due') : k \in 1 .. Len(due) \/ k = Len(due) + 1
    BY <1>1, <2>2
  <2>4. \A k \in 1 .. Len(due) : due[k] \in 1 .. n /\ Deliverable(sent[due[k]])
    BY DEF InOrder
  <2>5. ASSUME NEW k \in 1 .. Len(due'), NEW l \in 1 .. Len(due'), k < l
        PROVE  due'[k] < due'[l]
    <3>1. k \in 1 .. Len(due)
      BY <1>1, <2>2, <2>5
    <3>2. CASE l = Len(due) + 1
      <4>1. due'[l] = n + 1 /\ due'[k] = due[k] /\ due[k] \in 1 .. n
        BY <2>2, <2>4, <3>1, <3>2
      <4> QED BY <1>1, <4>1
    <3>3. CASE l \in 1 .. Len(due)
      BY <2>2, <2>5, <3>1, <3>3 DEF InOrder
    <3> QED BY <2>3, <3>2, <3>3
  <2>6. ASSUME NEW k \in 1 .. Len(due')
        PROVE  due'[k] \in 1 .. Len(sent') /\ Deliverable(sent'[due'[k]])
    <3>1. CASE k = Len(due) + 1
      BY <1>1, <1>2, <2>2, <3>1
    <3>2. CASE k \in 1 .. Len(due)
      <4>1. due'[k] = due[k] /\ due[k] \in 1 .. n
        BY <2>2, <2>4, <3>2
      <4>2. sent'[due[k]] = sent[due[k]] /\ Deliverable(sent[due[k]])
        BY <1>1, <2>4, <3>2, <4>1
      <4> QED BY <1>1, <4>1, <4>2
    <3> QED BY <2>3, <3>1, <3>2
  <2>7. ASSUME NEW i \in 1 .. Len(sent'), Deliverable(sent'[i])
        PROVE  \E k \in 1 .. Len(due') : due'[k] = i
    <3>1. CASE i = n + 1
      <4>1. Len(due) + 1 \in 1 .. Len(due')
        BY <1>1, <2>2
      <4> QED BY <2>2, <3>1, <4>1
    <3>2. CASE i \in 1 .. n
      <4>1. PICK k \in 1 .. Len(due) : due[k] = i
        BY <1>1, <2>7, <3>2 DEF InOrder
      <4>2. k \in 1 .. Len(due')
        BY <1>1, <2>2
      <4> QED BY <2>2, <4>1, <4>2
    <3> QED BY <1>1, <3>1, <3>2
  <2>8. ASSUME NEW k \in 1 .. Len(due')
        PROVE  due'[k] <= p <=> k <= Len(handled)
    <3>1. CASE k = Len(due) + 1
      BY <1>1, <2>2, <3>1 DEF InOrder
    <3>2. CASE k \in 1 .. Len(due)
      BY <2>2, <3>2 DEF InOrder
    <3> QED BY <2>3, <3>1, <3>2
  <2>9. Len(handled) <= Len(due') /\ \A k \in 1 .. Len(handled) : handled[k] = due'[k]
    <3>1. Len(handled) <= Len(due) /\ \A k \in 1 .. Len(handled) : handled[k] = due[k]
      BY DEF InOrder
    <3>2. \A k \in 1 .. Len(handled) : k \in 1 .. Len(due)
      BY <1>1, <3>1
    <3>3. Len(handled) <= Len(due')
      BY <1>1, <2>2, <3>1
    <3> QED BY <2>2, <3>1, <3>2, <3>3
  <2> QED BY <2>5, <2>6, <2>7, <2>8, <2>9 DEF InOrder, Deliverable
<1>3. CASE ~Deliverable(m)
  <2>1. due' = due
    BY <1>3 DEF Emit
  <2>2. \A k \in 1 .. Len(due) : due[k] \in 1 .. Len(sent') /\ Deliverable(sent'[due[k]])
    BY <1>1 DEF InOrder
  <2>3. \A i \in 1 .. Len(sent') :
          Deliverable(sent'[i]) => \E k \in 1 .. Len(due) : due[k] = i
    BY <1>1, <1>3 DEF InOrder
  <2> QED BY <2>1, <2>2, <2>3 DEF InOrder, Deliverable
<1> QED BY <1>2, <1>3

\* A datagram stays as it is when messages are sent.
LEMMA DatagramsStay ==
  ASSUME Typed, Grows, NEW first, NEW last, InDatagram(first, last)
  PROVE  InDatagram(first, last)'
<1>1. \A i \in 1 .. Len(sent) : End(i)' = End(i)
  BY DEF Grows, End
<1>2. Len(sent) \in Nat
  BY LenProperties DEF Typed
<1>3. first \in 1 .. Len(sent) /\ last \in first .. Len(sent)
  BY DEF InDatagram
<1>4. \A i \in first .. last : i \in 1 .. Len(sent) /\ sent'[i] = sent[i] /\ End(i)' = End(i)
  BY <1>1, <1>2, <1>3 DEF Grows
<1>5. first \in 1 .. Len(sent') /\ last \in first .. Len(sent') /\ last \in first .. last
  BY <1>2, <1>3 DEF Grows
<1>6. sent'[first].at = 0
  BY <1>3, <1>4 DEF InDatagram
<1>7. \A i \in first .. last - 1 : sent'[i + 1].at = End(i)'
  <2>1. \A i \in first .. last - 1 : i \in first .. last /\ i + 1 \in first .. last
    BY <1>2, <1>3
  <2> QED BY <1>4, <2>1 DEF InDatagram
<1>8. \A i, j \in first .. last : i < j => End(i)' <= sent'[j].at
  BY <1>4 DEF InDatagram
<1>9. \A w \in 0 .. End(last)' - 1 :
        \E i \in first .. last : sent'[i].at <= w /\ w < End(i)'
  BY <1>4, <1>5 DEF InDatagram
<1>10. first < last => End(last)' <= BufWords
  BY <1>4, <1>5 DEF InDatagram
<1> QED BY <1>5, <1>6, <1>7, <1>8, <1>9, <1>10 DEF InDatagram

\* What the program has handled are messages up to p that it should see.
LEMMA HandledFacts ==
  ASSUME Typed, NEW p \in 0 .. Len(sent), InOrder(p)
  PROVE  /\ \A i \in 1 .. Len(handled) :
              /\ handled[i] \in 1 .. Len(sent) /\ handled[i] <= p
              /\ Deliverable(sent[handled[i]])
         /\ \A i, j \in 1 .. Len(handled) : handled[i] = handled[j] => i = j
<1>1. Len(handled) \in Nat /\ Len(due) \in Nat /\ Len(sent) \in Nat
  BY LenProperties DEF Typed
<1>2. \A i \in 1 .. Len(handled) : i \in 1 .. Len(due) /\ handled[i] = due[i]
  BY <1>1 DEF InOrder
<1>3. \A i \in 1 .. Len(handled) :
        /\ handled[i] \in 1 .. Len(sent) /\ handled[i] <= p
        /\ Deliverable(sent[handled[i]])
  BY <1>1, <1>2 DEF InOrder
<1>4. ASSUME NEW i \in 1 .. Len(handled), NEW j \in 1 .. Len(handled),
             handled[i] = handled[j]
      PROVE  i = j
  <2>1. due[i] = due[j] /\ due[i] \in Nat /\ i \in 1 .. Len(due) /\ j \in 1 .. Len(due)
    BY <1>1, <1>2, <1>3, <1>4
  <2>2. (i < j => due[i] < due[j]) /\ (j < i => due[j] < due[i])
    BY <2>1 DEF InOrder
  <2> QED BY <2>1, <2>2
<1> QED BY <1>3, <1>4

\* A step that leaves the program alone and only adds to what was sent leaves
\* alone what is known of the buffer, the loops and what was printed.
LEMMA ProgramStays ==
  ASSUME Typed, Grows,
         UNCHANGED <<prog, pc, buf, len, nh, rta, alen, handled, printed>>,
         NEW p \in 0 .. Len(sent), NEW e \in 0 .. Len(sent),
         Reading(p, e), InOrder(p), InLoop(p, e), Printing
  PROVE  Reading(p, e)' /\ InLoop(p, e)' /\ Printing'
<1>1. Len(sent) \in Nat /\ Len(sent') \in Nat /\ Len(sent) <= Len(sent')
  BY LenProperties DEF Typed, Grows
<1>2. \A i \in 1 .. Len(sent) : sent'[i] = sent[i] /\ End(i)' = End(i)
  BY DEF Grows, End
<1>3. ASSUME NEW c \in 1 .. e, InBuffer(c, e) PROVE InBuffer(c, e)'
  <2>1. \A i \in c .. e : i \in 1 .. Len(sent) /\ sent'[i] = sent[i] /\ End(i)' = End(i)
    BY <1>1, <1>2
  <2>2. c \in c .. e /\ e \in c .. e /\ \A i \in c .. e - 1 : i \in c .. e /\ i + 1 \in c .. e
    OBVIOUS
  <2>3. \A i \in c .. e - 1 : sent'[i + 1].at = End(i)'
    BY <1>3, <2>1, <2>2 DEF InBuffer
  <2>4. \A i, j \in c .. e : i < j => End(i)' <= sent'[j].at
    BY <1>3, <2>1 DEF InBuffer
  <2>5. End(e)' <= BufWords /\ nh' = sent'[c].at /\ WordSize * nh' + len' = WordSize * End(e)'
    BY <1>3, <2>1, <2>2 DEF InBuffer
  <2>6. \A i \in c .. e : \A w \in 0 .. WordsOf(sent'[i].nlmsg_len) - 1 :
          buf'[sent'[i].at + w] = Layout(sent'[i], i)[w]
    BY <1>3, <2>1 DEF InBuffer
  <2>7. \A w \in End(e)' .. Top : buf'[w].of < c
    BY <1>3, <2>1, <2>2 DEF InBuffer
  <2> QED BY <2>3, <2>4, <2>5, <2>6, <2>7 DEF InBuffer
<1>4. Reading(p, e)'
  <2>1. NlmsgOk' <=> NlmsgOk
    BY DEF NlmsgOk
  <2>2. pc = "msg" /\ p # e => p + 1 \in 1 .. e /\ InBuffer(p + 1, e)
    BY <1>1 DEF Reading
  <2>3. pc = "attr" => p \in 1 .. e /\ InBuffer(p, e)
    BY <1>1 DEF Reading
  <2> QED BY <1>1, <1>3, <2>1, <2>2, <2>3 DEF Reading
<1>5. InLoop(p, e)'
  <2> SUFFICES ASSUME pc = "attr" PROVE InLoop(p, e)'
    BY DEF InLoop
  <2>1. p \in 1 .. Len(sent)
    BY DEF Reading
  <2>2. sent'[p] = sent[p] /\ End(p)' = End(p) /\ P' = P
    BY <1>2, <2>1 DEF P
  <2> QED BY <2>2 DEF InLoop
<1>6. ASSUME NEW i \in 1 .. Len(handled) PROVE PrintedOf(i)'
  <2>1. handled[i] \in 1 .. Len(sent) /\ P' = P
    BY HandledFacts DEF P
  <2>2. sent'[handled[i]] = sent[handled[i]]
    BY <1>2, <2>1
  <2>3. PrintedOf(i)
    BY DEF Printing
  <2> QED BY <2>1, <2>2, <2>3 DEF PrintedOf
<1> QED BY <1>4, <1>5, <1>6 DEF Printing

-----------------------------------------------------------------------------
(* The datagrams on their way.                                             *)

\* A message sent alone is a datagram.
LEMMA AloneInDatagram ==
  ASSUME Typed, NEW m \in Sendable, Made(m), Emit(m), m.at = 0,
         NEW last, last = Len(sent) + 1
  PROVE  InDatagram(last, last)'
<1> DEFINE s == WordsOf(m.nlmsg_len)
<1>1. last \in Nat /\ last >= 1 /\ Len(sent') = last /\ sent'[last] = m
  BY EmitFacts, LenProperties DEF Typed
<1>2. s \in Nat /\ s >= 5
  BY MessageFacts
<1>3. End(last)' = 0 + s
  BY <1>1 DEF End
<1> HIDE DEF s
<1>4. last \in 1 .. last /\ last \in last .. last /\ \A i \in last .. last : i = last
  BY <1>1
<1>5. \A w \in 0 .. End(last)' - 1 :
        \E i \in last .. last : sent'[i].at <= w /\ w < End(i)'
  BY <1>1, <1>2, <1>3, <1>4
<1>6. last .. last - 1 = {}
  BY <1>1
<1>7. ~(last < last)
  BY <1>1
<1> QED BY <1>1, <1>4, <1>5, <1>6, <1>7 DEF InDatagram

\* A message put behind the datagram being filled belongs to it; the datagram
\* begins with the message when it was empty.
LEMMA SkbGrows ==
  ASSUME Typed, NEW m \in Sendable, Made(m), Emit(m),
         m.at = SkbWords, FitsSkb(m),
         skb # 0 => InDatagram(skb, Len(sent)),
         NEW first, first = SkbFirst, NEW last, last = Len(sent) + 1
  PROVE  InDatagram(first, last)'
<1> DEFINE n == Len(sent)
           f == first
           s == WordsOf(m.nlmsg_len)
<1>1. /\ n \in Nat /\ last = n + 1 /\ Len(sent') = n + 1 /\ sent'[last] = m
      /\ \A i \in 1 .. n : sent'[i] = sent[i] /\ End(i)' = End(i)
  BY EmitFacts, LenProperties DEF Typed, Grows, End
<1>2. s \in Nat /\ m.at \in Nat /\ m.nlmsg_len = 4 * s /\ s >= 5
  BY MessageFacts DEF WordSize
<1>3. End(last)' = m.at + s
  BY <1>1 DEF End
<1> HIDE DEF s
<1>4. CASE skb = 0
  <2>1. f = last /\ m.at = 0
    BY <1>1, <1>4 DEF SkbFirst, SkbWords
  <2> QED BY <2>1, AloneInDatagram
<1>5. CASE skb # 0
  <2>1. f = skb /\ m.at = End(n) /\ InDatagram(f, n)
    BY <1>5 DEF SkbFirst, SkbWords
  <2>2. f \in 1 .. n /\ n \in f .. n /\ n \in 1 .. n
    BY <1>1, <2>1 DEF InDatagram
  <2>3. /\ \A i \in f .. n : i \in 1 .. n /\ sent'[i] = sent[i] /\ End(i)' = End(i)
        /\ \A i \in f .. last : i \in f .. n \/ i = last
    BY <1>1, <2>2
  <2>4. \A i \in f .. n : sent[i] \in Sendable /\ Made(sent[i])
    <3>1. sent \in Seq(Sendable)
      BY DEF Typed
    <3> QED BY <2>3, <3>1, ElementOfSeq DEF Typed
  <2>5. \A i \in f .. n : sent[i].at \in Nat /\ End(i) \in Nat /\ sent[i].at <= End(i)
    <3> TAKE i \in f .. n
    <3>1. sent[i] \in Sendable /\ Made(sent[i])
      BY <2>4
    <3>2. sent[i].at \in Nat /\ WordsOf(sent[i].nlmsg_len) \in Nat
      BY <3>1, MessageFacts
    <3> QED BY <3>2 DEF End
  <2>6. sent'[f].at = 0
    BY <2>1, <2>2, <2>3 DEF InDatagram
  <2>7. \A i \in f .. n : sent'[i + 1].at = End(i)'
    <3>1. \A i \in f .. n : i = n \/ (i \in f .. n - 1 /\ i + 1 \in f .. n)
      BY <1>1, <2>2
    <3>2. \A i \in f .. n - 1 : sent[i + 1].at = End(i)
      BY <2>1 DEF InDatagram
    <3> QED BY <1>1, <2>1, <2>3, <3>1, <3>2
  <2>8. ASSUME NEW i \in f .. last, NEW j \in f .. last, i < j
        PROVE  End(i)' <= sent'[j].at
    <3>1. i \in f .. n
      BY <1>1, <2>2, <2>8
    <3>2. CASE j = last
      <4>1. End(i) <= End(n)
        <5>1. CASE i = n
          BY <2>2, <2>5, <5>1
        <5>2. CASE i < n
          <6>1. End(i) <= sent[n].at
            BY <2>1, <2>2, <3>1, <5>2 DEF InDatagram
          <6> QED BY <2>2, <2>5, <3>1, <6>1
        <5> QED BY <1>1, <2>2, <3>1, <5>1, <5>2
      <4> QED BY <1>1, <2>1, <2>3, <3>1, <3>2, <4>1
    <3>3. CASE j \in f .. n
      <4>1. End(i) <= sent[j].at
        BY <2>1, <2>8, <3>1, <3>3 DEF InDatagram
      <4> QED BY <2>3, <3>1, <3>3, <4>1
    <3> QED BY <2>3, <3>2, <3>3
  <2>9. ASSUME NEW w \in 0 .. End(last)' - 1
        PROVE  \E i \in f .. last : sent'[i].at <= w /\ w < End(i)'
    <3>1. End(n) \in Nat
      BY <2>2, <2>5
    <3>2. CASE w < End(n)
      <4>1. w \in 0 .. End(n) - 1
        BY <3>1, <3>2
      <4>2. PICK i \in f .. n : sent[i].at <= w /\ w < End(i)
        BY <2>1, <4>1 DEF InDatagram
      <4>3. i \in f .. last
        BY <1>1, <2>2
      <4> QED BY <2>3, <4>2, <4>3
    <3>3. CASE ~(w < End(n))
      <4>1. last \in f .. last
        BY <1>1, <2>2
      <4>2. m.at <= w /\ w < End(last)'
        BY <1>2, <1>3, <2>1, <3>1, <3>3
      <4> QED BY <1>1, <4>1, <4>2
    <3> QED BY <3>2, <3>3
  <2>10. End(last)' <= BufWords
    <3>1. m.nlmsg_len + SkbWords * 4 <= BufWords * 4
      BY DEF FitsSkb, WordSize
    <3>2. SkbWords = m.at
      OBVIOUS
    <3> DEFINE a == m.at
               l == m.nlmsg_len
    <3>3. l + a * 4 <= BufWords * 4 /\ l = 4 * s /\ a \in Nat /\ s \in Nat /\ BufWords \in Nat
      BY <1>2, <3>1, <3>2, SizesAssumption
    <3> HIDE DEF a, l
    <3>4. a + s <= BufWords
      BY <3>3
    <3> QED BY <1>3, <3>4 DEF a
  <2>11. f \in 1 .. n + 1 /\ last \in f .. last /\ last - 1 = n
    BY <1>1, <2>2
  <2> QED BY <1>1, <2>6, <2>7, <2>8, <2>9, <2>10, <2>11 DEF InDatagram
<1> QED BY <1>4, <1>5

\* What is on its way is a datagram, and the last message queued is one of
\* those sent.
LEMMA QueueFacts ==
  ASSUME Typed, NEW e \in 0 .. Len(sent), InFlight(e)
  PROVE  /\ \A j \in 1 .. Len(queue) :
              /\ queue[j] = Messages(queue[j].first, queue[j].last)
              /\ queue[j].first \in Nat /\ queue[j].last \in Nat
              /\ InDatagram(queue[j].first, queue[j].last)
         /\ skb # 0 => InDatagram(skb, Len(sent))
         /\ LastQueued(e) \in 0 .. Len(sent)
         /\ Len(queue) \in Nat /\ (queue = <<>> <=> Len(queue) = 0)
<1>1. /\ Len(queue) \in Nat /\ (queue = <<>> <=> Len(queue) = 0) /\ Len(sent) \in Nat
      /\ queue \in Seq([first : Nat, last : Nat]) /\ skb \in Nat
  BY EmptySeq, LenProperties DEF Typed
<1>2. ASSUME NEW j \in 1 .. Len(queue)
      PROVE  /\ queue[j] = Messages(queue[j].first, queue[j].last)
             /\ queue[j].first \in Nat /\ queue[j].last \in Nat
             /\ InDatagram(queue[j].first, queue[j].last)
  <2>1. queue[j] \in [first : Nat, last : Nat]
    BY <1>1, ElementOfSeq
  <2>2. /\ queue[j] = Messages(queue[j].first, queue[j].last)
        /\ queue[j].first \in Nat /\ queue[j].last \in Nat
    BY <2>1 DEF Messages
  <2>3. OnTheWay(queue[j].first, queue[j].last)
    BY <2>2 DEF OnTheWay
  <2> QED BY <2>2, <2>3 DEF InFlight
<1>3. skb # 0 => InDatagram(skb, Len(sent))
  BY <1>1 DEF InFlight, OnTheWay
<1>4. LastQueued(e) \in 0 .. Len(sent)
  <2>1. CASE queue = <<>>
    BY <1>1, <2>1 DEF LastQueued
  <2>2. CASE queue # <<>>
    <3>1. Len(queue) \in 1 .. Len(queue)
      BY <1>1, <2>2
    <3> DEFINE f == queue[Len(queue)].first
               l == queue[Len(queue)].last
    <3>2. InDatagram(f, l)
      BY <1>2, <3>1
    <3>3. f \in 1 .. Len(sent) /\ l \in f .. Len(sent)
      BY <3>2, Zenon DEF InDatagram
    <3>4. l \in 0 .. Len(sent)
      <4> HIDE DEF f, l
      <4> QED BY <1>1, <3>3
    <3> QED BY <2>2, <3>4 DEF LastQueued
  <2> QED BY <2>1, <2>2
<1> QED BY <1>1, <1>2, <1>3, <1>4

\* A datagram put behind the others continues their order.
LEMMA Enqueued ==
  ASSUME Typed, Grows, NEW e \in 0 .. Len(sent), InFlight(e),
         NEW first \in Nat, first = LastQueued(e) + 1,
         NEW last \in Nat, last = Len(sent'), InDatagram(first, last)',
         queue' = Append(queue, Messages(first, last)), skb' = 0
  PROVE  /\ InFlight(e)'
         /\ queue' \in Seq([first : Nat, last : Nat]) /\ Len(queue') = Len(queue) + 1
<1> DEFINE d == Messages(first, last)
           n == Len(queue)
<1>1. d \in [first : Nat, last : Nat] /\ d.first = first /\ d.last = last
  BY DEF Messages
<1>2. n \in Nat /\ (queue = <<>> <=> n = 0) /\ queue \in Seq([first : Nat, last : Nat])
  BY QueueFacts DEF Typed
<1>3. /\ queue' \in Seq([first : Nat, last : Nat]) /\ Len(queue') = n + 1
      /\ queue'[n + 1] = d /\ \A j \in 1 .. n : queue'[j] = queue[j]
  BY <1>1, <1>2, AppendProperties
<1>4. \A j \in 1 .. Len(queue') : j \in 1 .. n \/ j = n + 1
  BY <1>2, <1>3
<1>5. ASSUME NEW f \in Nat, NEW l \in Nat, OnTheWay(f, l)' PROVE InDatagram(f, l)'
  <2>1. PICK j \in 1 .. Len(queue') : queue'[j] = Messages(f, l)
    BY <1>5 DEF OnTheWay, Messages
  <2>2. CASE j = n + 1
    <3>1. f = first /\ l = last
      BY <1>1, <1>3, <2>1, <2>2 DEF Messages
    <3> QED BY <3>1
  <2>3. CASE j \in 1 .. n
    <3>1. OnTheWay(f, l)
      BY <1>3, <2>1, <2>3 DEF OnTheWay
    <3>2. InDatagram(f, l)
      BY <3>1 DEF InFlight
    <3> QED BY <3>2, DatagramsStay
  <2> QED BY <1>4, <2>2, <2>3
<1>6. queue' # <<>> /\ queue'[1].first = e + 1
  <2>0. queue' # <<>>
    <3>1. Len(queue') # 0
      BY <1>2, <1>3
    <3> QED BY <1>3, <3>1, EmptySeq
  <2>1. CASE n = 0
    <3>1. queue'[1] = d
      <4>1. n + 1 = 1
        BY <2>1
      <4> QED BY <1>3, <4>1
    <3>2. first = e + 1
      BY <1>2, <2>1 DEF LastQueued
    <3> QED BY <1>1, <2>0, <3>1, <3>2
  <2>2. CASE n # 0
    <3>1. 1 \in 1 .. n /\ queue # <<>>
      BY <1>2, <2>2
    <3> QED BY <1>3, <2>0, <3>1 DEF InFlight
  <2> QED BY <2>1, <2>2
<1>7. ASSUME NEW j \in 1 .. Len(queue') - 1
      PROVE  queue'[j + 1].first = queue'[j].last + 1
  <2>1. j \in 1 .. n /\ queue'[j] = queue[j]
    BY <1>2, <1>3
  <2>2. CASE j = n
    BY <1>1, <1>2, <1>3, <2>1, <2>2 DEF LastQueued
  <2>3. CASE j # n
    <3>1. j \in 1 .. n - 1 /\ j + 1 \in 1 .. n
      BY <1>2, <2>1, <2>3
    <3> QED BY <1>3, <2>1, <3>1 DEF InFlight
  <2> QED BY <2>2, <2>3
<1>8. LastQueued(e)' = last
  BY <1>1, <1>3, <1>6 DEF LastQueued
<1> QED BY <1>3, <1>5, <1>6, <1>7, <1>8 DEF InFlight

\* Nothing on its way is disturbed by a step that leaves the queue and the
\* datagram being filled alone, or loses a message.
LEMMA InFlightStays ==
  ASSUME Typed, Grows, UNCHANGED <<queue, skb>>,
         sent' = sent \/ skb = 0,
         overrun' \/ (sent' = sent /\ overrun' = overrun),
         NEW e \in 0 .. Len(sent), InFlight(e)
  PROVE  InFlight(e)'
<1>1. ASSUME NEW f \in Nat, NEW l \in Nat, OnTheWay(f, l)' PROVE InDatagram(f, l)'
  <2>1. OnTheWay(f, l)
    BY <1>1 DEF OnTheWay
  <2>2. InDatagram(f, l)
    BY <2>1 DEF InFlight
  <2> QED BY <2>2, DatagramsStay
<1>2. LastQueued(e)' = LastQueued(e)
  BY DEF LastQueued
<1>3. skb' = 0 => overrun' \/ Len(sent') = LastQueued(e)'
  BY <1>2 DEF InFlight
<1> QED BY <1>1, <1>2, <1>3 DEF InFlight

\* A step of the program that neither receives nor handles anything keeps what
\* is known of the messages.
LEMMA MessagesStay ==
  ASSUME Typed, UNCHANGED <<kernelVars, handled>>,
         NEW p \in 0 .. Len(sent), NEW e \in 0 .. Len(sent), InFlight(e), InOrder(p)
  PROVE  InFlight(e)' /\ InOrder(p)'
<1>1. Grows /\ sent' = sent
  BY LenProperties DEF Typed, Grows, kernelVars
<1>2. InFlight(e)'
  BY <1>1, InFlightStays DEF kernelVars
<1>3. InOrder(p)'
  BY DEF InOrder, Deliverable, kernelVars
<1> QED BY <1>2, <1>3

-----------------------------------------------------------------------------
(* What the program reads, and what it has handled.                        *)

\* The messages sent, as MessageFacts and LayoutFacts have it.
LEMMA SentFacts ==
  ASSUME Typed, NEW i \in 1 .. Len(sent)
  PROVE  /\ sent[i] \in Sendable /\ Made(sent[i]) /\ i \in Nat
         /\ sent[i].at \in Nat /\ sent[i].nlmsg_len \in Nat
         /\ WordsOf(sent[i].nlmsg_len) \in Nat /\ WordsOf(sent[i].nlmsg_len) >= 5
         /\ sent[i].nlmsg_len = 4 * WordsOf(sent[i].nlmsg_len)
         /\ End(i) = sent[i].at + WordsOf(sent[i].nlmsg_len) /\ End(i) \in Nat
<1>1. sent[i] \in Sendable
  BY ElementOfSeq DEF Typed
<1>2. Made(sent[i]) /\ i \in Nat
  BY LenProperties DEF Typed
<1>3. /\ sent[i].at \in Nat /\ sent[i].nlmsg_len \in Nat
      /\ WordsOf(sent[i].nlmsg_len) \in Nat /\ WordsOf(sent[i].nlmsg_len) >= 5
      /\ sent[i].nlmsg_len = 4 * WordsOf(sent[i].nlmsg_len)
  BY <1>1, <1>2, MessageFacts DEF WordSize
<1> QED BY <1>1, <1>2, <1>3 DEF End

\* The memory behind the buffer that matters is as long as a netlink header.
LEMMA TopFacts == Top \in Nat /\ Top = BufWords + 3 /\ BufWords \in Nat
BY SizesAssumption DEF Top, WordsOf, NlmsgHdrSize, WordSize

\* A message in the buffer is the current one, whole, and NLMSG_OK() says so.
LEMMA BufferFacts ==
  ASSUME Typed, NEW c \in 1 .. Len(sent), NEW e \in c .. Len(sent), InBuffer(c, e)
  PROVE  /\ NlmsgOk /\ Current = c
         /\ buf[nh].len = sent[c].nlmsg_len
         /\ nh \in Nat /\ nh = sent[c].at
         /\ End(c) \in Nat /\ End(e) \in Nat /\ End(c) <= End(e) /\ End(e) <= BufWords
         /\ End(c) = nh + WordsOf(sent[c].nlmsg_len)
         /\ len = 4 * (End(e) - nh)
<1> DEFINE s == WordsOf(sent[c].nlmsg_len)
<1>1. c \in c .. e /\ e \in c .. e /\ e \in 1 .. Len(sent) /\ Len(sent) \in Nat
  BY LenProperties DEF Typed
<1>2. /\ sent[c].at \in Nat /\ s \in Nat /\ s >= 5 /\ sent[c].nlmsg_len = 4 * s
      /\ End(c) = sent[c].at + s /\ End(c) \in Nat
      /\ sent[c] \in Sendable /\ Made(sent[c]) /\ c \in Nat
  BY SentFacts
<1>3. End(e) \in Nat /\ sent[e].at \in Nat /\ sent[e].at <= End(e)
  BY <1>1, SentFacts, SMTT(20)
<1>4. nh = sent[c].at /\ 4 * nh + len = 4 * End(e) /\ End(e) <= BufWords
  BY DEF InBuffer, WordSize
<1> HIDE DEF s
<1>5. End(c) <= End(e)
  <2>1. CASE c = e
    BY <1>2, <2>1
  <2>2. CASE c < e
    <3>1. End(c) <= sent[e].at
      BY <1>1, <2>2 DEF InBuffer
    <3> QED BY <1>2, <1>3, <3>1
  <2>3. c = e \/ c < e
    BY <1>1
  <2> QED BY <2>1, <2>2, <2>3
<1>6. buf[nh] = Layout(sent[c], c)[0]
  <2>1. 0 \in 0 .. s - 1
    BY <1>2
  <2>2. buf[sent[c].at + 0] = Layout(sent[c], c)[0]
    BY <1>1, <2>1 DEF InBuffer, s
  <2> QED BY <1>2, <1>4, <2>2
<1>7. /\ Layout(sent[c], c)[0].len = sent[c].nlmsg_len
      /\ Layout(sent[c], c)[0].of = c
  <2>1. 0 \in 0 .. WordsOf(sent[c].nlmsg_len) - 1
    BY <1>2 DEF s
  <2> QED BY <1>2, <2>1, LayoutFacts
<1>8. buf[nh].len = sent[c].nlmsg_len /\ Current = c
  BY <1>6, <1>7 DEF Current
<1>9. len \in Nat
  BY DEF Typed
<1>10. len >= 4 * s /\ 4 * s >= 16 /\ len = 4 * (End(e) - nh)
  <2> DEFINE x == End(e)
             y == End(c)
  <2>1. /\ nh \in Nat /\ x \in Nat /\ y \in Nat /\ 4 * nh + len = 4 * x /\ y = nh + s
        /\ y <= x /\ s \in Nat /\ s >= 5
    BY <1>2, <1>3, <1>4, <1>5
  <2> HIDE DEF x, y
  <2>2. len >= 4 * s /\ 4 * s >= 16 /\ len = 4 * (x - nh)
    BY <1>9, <2>1
  <2> QED BY <2>2 DEF x
<1>11. NlmsgOk
  BY <1>2, <1>8, <1>9, <1>10 DEF NlmsgOk, NlmsgHdrSize
<1> QED BY <1>2, <1>3, <1>4, <1>5, <1>8, <1>10, <1>11 DEF s

\* The message loop goes on as long as the datagram holds messages, and looks
\* at the one behind those passed.
LEMMA LoopFacts ==
  ASSUME Typed, NEW p \in 0 .. Len(sent), NEW e \in 0 .. Len(sent),
         Reading(p, e), pc = "msg"
  PROVE  /\ ~NlmsgOk => p = e
         /\ NlmsgOk => /\ p < e /\ p + 1 \in 1 .. Len(sent)
                       /\ e \in p + 1 .. Len(sent)
                       /\ InBuffer(p + 1, e) /\ Current = p + 1
<1>1. Len(sent) \in Nat
  BY LenProperties DEF Typed
<1>2. p <= e /\ IF p = e THEN ~NlmsgOk ELSE InBuffer(p + 1, e)
  BY DEF Reading
<1>3. ASSUME p # e
      PROVE  /\ p < e /\ p + 1 \in 1 .. Len(sent) /\ e \in p + 1 .. Len(sent)
             /\ InBuffer(p + 1, e) /\ NlmsgOk /\ Current = p + 1
  <2>1. p < e /\ p + 1 \in 1 .. Len(sent) /\ e \in p + 1 .. Len(sent)
    BY <1>1, <1>2, <1>3
  <2> QED BY <1>2, <1>3, <2>1, BufferFacts
<1> QED BY <1>2, <1>3

\* Passing a message that should be seen by handling it keeps the order.
LEMMA HandlesNext ==
  ASSUME Typed, NEW p \in 0 .. Len(sent), InOrder(p),
         p + 1 \in 1 .. Len(sent), Deliverable(sent[p + 1]),
         handled' = Append(handled, p + 1), UNCHANGED <<sent, due>>
  PROVE  /\ InOrder(p + 1)'
         /\ Len(handled) < Len(due) /\ due[Len(handled) + 1] = p + 1
         /\ handled' \in Seq(Nat) /\ Len(handled') = Len(handled) + 1
         /\ handled'[Len(handled) + 1] = p + 1
         /\ \A i \in 1 .. Len(handled) : handled'[i] = handled[i]
<1> DEFINE h == Len(handled)
<1>1. /\ h \in Nat /\ Len(due) \in Nat /\ Len(sent) \in Nat /\ p \in Nat
      /\ handled \in Seq(Nat) /\ p + 1 \in Nat
  BY LenProperties DEF Typed
<1>2. /\ handled' \in Seq(Nat) /\ Len(handled') = h + 1 /\ handled'[h + 1] = p + 1
      /\ \A i \in 1 .. h : handled'[i] = handled[i]
  BY <1>1, AppendProperties
<1>3. PICK k \in 1 .. Len(due) : due[k] = p + 1
  BY DEF InOrder
<1>4. /\ h <= Len(due)
      /\ \A l \in 1 .. Len(due) : due[l] \in 1 .. Len(sent) /\ (due[l] <= p <=> l <= h)
      /\ \A i, l \in 1 .. Len(due) : i < l => due[i] < due[l]
      /\ \A i \in 1 .. h : handled[i] = due[i]
  BY DEF InOrder
<1>5. k > h
  BY <1>1, <1>3, <1>4
<1>6. h + 1 \in 1 .. Len(due) /\ h < Len(due)
  BY <1>1, <1>5
<1>7. k = h + 1
  <2>1. ASSUME h + 1 < k PROVE FALSE
    <3>1. due[h + 1] < p + 1
      BY <1>3, <1>4, <1>6, <2>1
    <3>2. due[h + 1] <= p
      BY <1>1, <1>4, <1>6, <3>1
    <3> QED BY <1>1, <1>4, <1>6, <3>2
  <2> QED BY <1>1, <1>5, <2>1
<1>8. due[h + 1] = p + 1
  BY <1>3, <1>7
<1>9. ASSUME NEW l \in 1 .. Len(due) PROVE due[l] <= p + 1 <=> l <= h + 1
  <2>1. CASE l <= h
    BY <1>1, <1>4, <2>1
  <2>2. CASE l = h + 1
    BY <1>1, <1>8, <2>2
  <2>3. CASE l > h + 1
    <3>1. due[h + 1] < due[l]
      BY <1>4, <1>6, <2>3
    <3> QED BY <1>1, <1>4, <1>8, <2>3, <3>1
  <2> QED BY <1>1, <2>1, <2>2, <2>3
<1>10. \A i \in 1 .. h + 1 : handled'[i] = due[i]
  <2>1. \A i \in 1 .. h + 1 : i \in 1 .. h \/ i = h + 1
    BY <1>1
  <2> QED BY <1>2, <1>4, <1>8, <2>1
<1>11. InOrder(p + 1)'
  <2>1. /\ \A i, l \in 1 .. Len(due') : i < l => due'[i] < due'[l]
        /\ \A l \in 1 .. Len(due') : due'[l] \in 1 .. Len(sent') /\ Deliverable(sent'[due'[l]])
        /\ \A i \in 1 .. Len(sent') :
             Deliverable(sent'[i]) => \E l \in 1 .. Len(due') : due'[l] = i
    BY DEF InOrder
  <2>2. Len(handled') <= Len(due')
    BY <1>1, <1>2, <1>6
  <2> QED BY <1>2, <1>9, <1>10, <2>1, <2>2, SMTT(20) DEF InOrder, Deliverable
<1> QED BY <1>2, <1>6, <1>8, <1>11

\* So does passing one that should not be seen.
LEMMA PassesNext ==
  ASSUME Typed, NEW p \in 0 .. Len(sent), InOrder(p), ~Deliverable(sent[p + 1]),
         p + 1 \in 1 .. Len(sent), UNCHANGED <<sent, due, handled>>
  PROVE  InOrder(p + 1)'
<1>1. Len(due) \in Nat /\ p \in Nat
  BY LenProperties DEF Typed
<1>2. \A l \in 1 .. Len(due) : due[l] \in Nat /\ due[l] # p + 1
  BY DEF InOrder
<1>3. \A l \in 1 .. Len(due) : due[l] <= p + 1 <=> due[l] <= p
  BY <1>1, <1>2
<1> QED BY <1>3 DEF InOrder, Deliverable

-----------------------------------------------------------------------------
(* The initial states and the steps.                                       *)

\* The invariant holds at the start.
LEMMA InvInit == Init => Inv
<1> SUFFICES ASSUME Init PROVE Inv
  OBVIOUS
<1>1. \A S : <<>> \in Seq(S) /\ Len(<<>>) = 0
  BY EmptySeq
<1>2. Typed
  <2>1. \A junk \in Junk : Word(junk, 0, 0) \in Words
    BY SizesAssumption DEF Word, Words
  <2>2. buf \in [0 .. Top -> Words]
    BY <2>1 DEF Init
  <2>3. 0 \in 0 .. BufWords /\ 0 \in 0 .. Top + 1 /\ 0 \in 0 .. MaxLinks + 1
    BY SizesAssumption DEF Top, WordsOf, NlmsgHdrSize, WordSize
  <2>4. Len(queue) <= QueueSize /\ \A i \in 1 .. Len(sent) : Made(sent[i])
    BY <1>1, SizesAssumption DEF Init
  <2>5. /\ prog \in Programs /\ pc = "create" /\ fdOk = FALSE /\ overrun = FALSE
        /\ ret = 0 /\ len = 0 /\ nh = 0 /\ rta = 0 /\ alen = 0 /\ skb = 0 /\ next = 0
        /\ sent = <<>> /\ due = <<>> /\ queue = <<>> /\ handled = <<>> /\ printed = <<>>
        /\ links \subseteq 1 .. MaxLinks /\ stable = {}
    BY DEF Init
  <2>6. ret \in {-1, 0, 1} /\ len \in Nat /\ alen \in Int /\ skb \in Nat
    BY <2>5
  <2> QED BY <1>1, <2>2, <2>3, <2>4, <2>5, <2>6 DEF Typed
<1>3. ByProgram
  BY <1>1, SizesAssumption DEF Init, ByProgram
<1>4. NotYet /\ Printing
  BY <1>1 DEF Init, NotYet, Printing
<1>5. Dumping
  BY <1>1 DEF Init, Dumping
<1>6. At(0, 0)
  <2>1. InFlight(0)
    BY <1>1 DEF Init, InFlight, OnTheWay, LastQueued
  <2>2. Reading(0, 0)
    BY <1>1 DEF Init, Reading, Word
  <2>3. InOrder(0)
    BY <1>1 DEF Init, InOrder
  <2>4. InLoop(0, 0)
    BY DEF Init, InLoop
  <2> QED BY <2>1, <2>2, <2>3, <2>4 DEF At
<1>7. 0 \in 0 .. Len(sent)
  BY <1>1 DEF Init
<1> QED BY <1>2, <1>3, <1>4, <1>5, <1>6, <1>7 DEF Inv

\* A step that only moves the program out of the message loop, or on before
\* it, keeps where the messages are.
LEMMA IdleStep ==
  ASSUME Typed, Printing, NEW p \in 0 .. Len(sent), NEW e \in 0 .. Len(sent), At(p, e),
         UNCHANGED <<prog, buf, len, nh, rta, alen, kernelVars, handled, printed>>,
         pc # "attr", pc' \in {"request", "recv", "exit"}, pc' # "exit" => p = e
  PROVE  At(p, e)' /\ Printing'
<1>1. InFlight(e)' /\ InOrder(p)'
  BY MessagesStay DEF At
<1>2. Reading(p, e)'
  BY DEF At, Reading, kernelVars
<1>3. InLoop(p, e)'
  BY DEF InLoop
<1>4. ASSUME NEW i \in 1 .. Len(handled) PROVE PrintedOf(i)'
  <2>1. PrintedOf(i) /\ P' = P
    BY DEF Printing, P
  <2> QED BY <2>1 DEF PrintedOf, kernelVars
<1> QED BY <1>1, <1>2, <1>3, <1>4 DEF At, Printing

\* Such a step keeps the rest of the invariant, if it does not end a dump.
LEMMA InvIdle ==
  ASSUME Inv, NEW p \in 0 .. Len(sent), NEW e \in 0 .. Len(sent), At(p, e),
         UNCHANGED <<prog, buf, len, nh, rta, alen, kernelVars, handled, printed>>,
         fdOk' \in BOOLEAN, pc # "attr", pc # "exit",
         pc' \in {"request", "recv", "exit"}, pc' # "exit" => p = e,
         pc' = "request" => pc = "create" /\ prog = "getlinks",
         ret' \in {-1, 0, 1}, ret' # 1 \/ (ret = ret')
  PROVE  Inv'
<1>1. At(p, e)' /\ Printing'
  BY IdleStep DEF Inv
<1>2. Typed'
  BY DEF Inv, Typed, kernelVars
<1>3. ByProgram'
  <2>1. P' = P
    BY DEF P
  <2> QED BY <2>1 DEF Inv, ByProgram, kernelVars
<1>4. NotYet'
  BY DEF Inv, NotYet, kernelVars
<1>5. Dumping'
  <2>1. ret # 1
    BY DEF Inv, Dumping
  <2> QED BY <2>1 DEF Inv, Dumping, kernelVars, Sent, Deliverable
<1>6. p \in 0 .. Len(sent)' /\ e \in 0 .. Len(sent)'
  BY DEF kernelVars
<1> QED BY <1>1, <1>2, <1>3, <1>4, <1>5, <1>6 DEF Inv

\* CreateSocket preserves the invariant.
LEMMA InvCreateSocket == Inv /\ CreateSocket => Inv'
<1> SUFFICES ASSUME Inv, CreateSocket PROVE Inv'
  OBVIOUS
<1>1. PICK p, e \in 0 .. Len(sent) : At(p, e)
  BY DEF Inv
<1>2. p = e
  BY <1>1 DEF CreateSocket, At, Reading
<1>3. ret' \in {-1, 0, 1} /\ ret' = ret
  BY DEF CreateSocket, Inv, Typed
<1> QED BY <1>1, <1>2, <1>3, InvIdle DEF CreateSocket

\* ReceiveFails preserves the invariant.
LEMMA InvReceiveFails == Inv /\ ReceiveFails => Inv'
<1> SUFFICES ASSUME Inv, ReceiveFails PROVE Inv'
  OBVIOUS
<1>1. PICK p, e \in 0 .. Len(sent) : At(p, e)
  BY DEF Inv
<1>2. ret' = -1 /\ pc' = "exit" /\ fdOk' \in BOOLEAN
  BY DEF ReceiveFails, Return, programVars, Inv, Typed
<1> QED BY <1>1, <1>2, InvIdle DEF ReceiveFails, programVars

\* EndOfDatagram preserves the invariant: all messages received are passed.
LEMMA InvEndOfDatagram == Inv /\ EndOfDatagram => Inv'
<1> SUFFICES ASSUME Inv, EndOfDatagram PROVE Inv'
  OBVIOUS
<1>1. PICK p, e \in 0 .. Len(sent) : At(p, e)
  BY DEF Inv
<1>2. p = e
  BY <1>1, LoopFacts DEF EndOfDatagram, At, Inv
<1>3. ret' = 0 /\ pc' = "recv" /\ fdOk' \in BOOLEAN
  BY DEF EndOfDatagram, Return, programVars, Inv, Typed
<1> QED BY <1>1, <1>2, <1>3, InvIdle DEF EndOfDatagram, programVars

\* Error preserves the invariant.
LEMMA InvError == Inv /\ Error => Inv'
<1> SUFFICES ASSUME Inv, Error PROVE Inv'
  OBVIOUS
<1>1. PICK p, e \in 0 .. Len(sent) : At(p, e)
  BY DEF Inv
<1>2. ret' = -1 /\ pc' = "exit" /\ fdOk' \in BOOLEAN
  BY DEF Error, Return, programVars, Inv, Typed
<1> QED BY <1>1, <1>2, InvIdle DEF Error, programVars

\* Done preserves the invariant: a monitor never sees the end of a dump, and
\* get-links has handled all messages before it.
LEMMA InvDone == Inv /\ Done => Inv'
<1> SUFFICES ASSUME Inv, Done PROVE Inv'
  OBVIOUS
<1>1. PICK p, e \in 0 .. Len(sent) : At(p, e)
  BY DEF Inv
<1>2. /\ p + 1 \in 1 .. Len(sent) /\ sent[p + 1].type = "done"
  BY <1>1, LoopFacts DEF Done, At, Inv
<1>3. prog = "getlinks" /\ P.stop
  <2>1. prog \in Programs
    BY DEF Inv, Typed
  <2>2. prog # "getlinks" => sent[p + 1].type \in P.events
    BY <1>2 DEF Inv, ByProgram
  <2>3. "done" \notin LinkEvents \union AddrEvents
    BY DEF LinkEvents, AddrEvents
  <2> QED BY <1>2, <2>1, <2>2, <2>3, ParameterFacts
<1>4. ret' = 1 /\ pc' = "exit"
  BY <1>3 DEF Done, Return
<1>5. p + 1 = Len(sent) /\ next = 0 /\ skb = 0 /\ \A l \in stable : Sent(l)
  BY <1>2 DEF Inv, Dumping
<1>6. At(p, e)' /\ Printing'
  BY <1>1, <1>4, IdleStep DEF Done, programVars, Inv
<1>7. ASSUME NEW l \in stable
      PROVE  \E i \in 1 .. Len(handled) : sent[handled[i]].link = l
  <2>1. PICK i \in 1 .. Len(sent) : sent[i].link = l
    BY <1>5 DEF Sent
  <2>2. l # 0
    BY DEF Inv, Typed
  <2>3. Deliverable(sent[i])
    BY <2>1, <2>2 DEF Inv, Dumping
  <2>4. PICK k \in 1 .. Len(due) : due[k] = i
    BY <1>1, <2>3 DEF At, InOrder
  <2>5. i # p + 1
    BY <1>2, <2>3 DEF Deliverable
  <2>6. i <= p /\ Len(due) \in Nat /\ Len(handled) \in Nat
    BY <1>1, <1>5, <2>5, LenProperties DEF Inv, Typed
  <2>7. k <= Len(handled) /\ handled[k] = due[k]
    BY <1>1, <2>4, <2>6 DEF At, InOrder
  <2> QED BY <2>1, <2>4, <2>6, <2>7
<1>8. Dumping'
  BY <1>4, <1>5, <1>7 DEF Inv, Dumping, Done, kernelVars, Sent, Deliverable
<1>9. Typed'
  BY <1>4 DEF Inv, Typed, Done, kernelVars, programVars
<1>10. ByProgram'
  <2>1. P' = P
    BY DEF P, Done, programVars
  <2> QED BY <1>4, <2>1 DEF Inv, ByProgram, Done, kernelVars, programVars
<1>11. NotYet'
  BY <1>4 DEF Inv, NotYet, Done, kernelVars
<1>12. p \in 0 .. Len(sent)' /\ e \in 0 .. Len(sent)'
  BY DEF Done, kernelVars
<1> QED BY <1>6, <1>8, <1>9, <1>10, <1>11, <1>12 DEF Inv

\* A datagram in memory: each message lies where it begins, and every word
\* belongs to one of its messages.
LEMMA DatagramFacts ==
  ASSUME Typed, NEW first \in Nat, NEW last \in Nat, InDatagram(first, last),
         NEW d, d = Messages(first, last)
  PROVE  /\ \A i \in first .. last : \A w \in 0 .. WordsOf(sent[i].nlmsg_len) - 1 :
              /\ sent[i].at + w \in 0 .. End(last) - 1
              /\ DatagramWords(d)[sent[i].at + w] = Layout(sent[i], i)[w]
         /\ \A w \in 0 .. End(last) - 1 :
              /\ DatagramWords(d)[w] \in Words
              /\ DatagramWords(d)[w].of \in first .. last
<1>1. d.first = first /\ d.last = last /\ Len(sent) \in Nat
  BY LenProperties DEF Messages, Typed
<1>2. first \in 1 .. Len(sent) /\ last \in first .. Len(sent)
  BY Zenon DEF InDatagram
<1>3. \A i \in first .. last : i \in 1 .. Len(sent)
  BY <1>1, <1>2
<1>4. \A i \in first .. last :
        /\ sent[i] \in Sendable /\ Made(sent[i]) /\ i \in Nat
        /\ sent[i].at \in Nat /\ WordsOf(sent[i].nlmsg_len) \in Nat
        /\ End(i) = sent[i].at + WordsOf(sent[i].nlmsg_len) /\ End(i) \in Nat
  BY <1>3, SentFacts
<1>5. /\ \A i, j \in first .. last : i < j => End(i) <= sent[j].at
      /\ \A w \in 0 .. End(last) - 1 :
           \E i \in first .. last : sent[i].at <= w /\ w < End(i)
  BY DEF InDatagram
<1> DEFINE Here(i, w) == sent[i].at <= w /\ w < End(i)
           Of(w) == CHOOSE i \in first .. last : Here(i, w)
<1>6. \A w \in 0 .. End(last) - 1 :
        DatagramWords(d)[w] = Layout(sent[Of(w)], Of(w))[w - sent[Of(w)].at]
  BY <1>1 DEF DatagramWords
<1>7. ASSUME NEW i \in first .. last, NEW j \in first .. last, NEW w \in Nat,
             Here(i, w), Here(j, w)
      PROVE  i = j
  <2>1. i < j => FALSE
    BY <1>4, <1>5, <1>7
  <2>2. j < i => FALSE
    BY <1>4, <1>5, <1>7
  <2> QED BY <1>4, <2>1, <2>2
<1>8. last \in first .. last
  BY <1>2
<1>9. \A i \in first .. last : End(i) <= End(last)
  <2> TAKE i \in first .. last
  <2>1. CASE i = last
    BY <1>4, <1>8, <2>1
  <2>2. CASE i < last
    BY <1>4, <1>5, <1>8, <2>2
  <2> QED BY <1>2, <1>4, <2>1, <2>2
<1>10. ASSUME NEW w \in 0 .. End(last) - 1
       PROVE  Of(w) \in first .. last /\ Here(Of(w), w)
  BY <1>5
<1>11. ASSUME NEW i \in first .. last, NEW w \in 0 .. WordsOf(sent[i].nlmsg_len) - 1
       PROVE  /\ sent[i].at + w \in 0 .. End(last) - 1
              /\ DatagramWords(d)[sent[i].at + w] = Layout(sent[i], i)[w]
  <2> DEFINE a == sent[i].at
             s == WordsOf(sent[i].nlmsg_len)
             v == a + w
             z == End(last)
  <2>1. a \in Nat /\ s \in Nat /\ z \in Nat /\ End(i) = a + s /\ a + s <= z
    BY <1>4, <1>8, <1>9
  <2>2. w \in 0 .. s - 1
    OBVIOUS
  <2>3. v \in 0 .. z - 1 /\ v \in Nat /\ v - a = w /\ a <= v /\ v < a + s
    <3> HIDE DEF a, s, z
    <3> QED BY <2>1, <2>2
  <2>4. Here(i, v)
    BY <2>1, <2>3
  <2> HIDE DEF v, z
  <2>5. Of(v) = i
    BY <1>7, <1>10, <2>3, <2>4 DEF z
  <2> HIDE DEF Of, Here
  <2>6. DatagramWords(d)[v] = Layout(sent[i], i)[v - a]
    BY <1>6, <2>3, <2>5 DEF z
  <2> QED BY <2>3, <2>6 DEF v, z
<1>12. ASSUME NEW w \in 0 .. End(last) - 1
       PROVE  DatagramWords(d)[w] \in Words /\ DatagramWords(d)[w].of \in first .. last
  <2>1. PICK i : i = Of(w)
    OBVIOUS
  <2>2. i \in first .. last /\ sent[i].at <= w /\ w < End(i)
    BY <1>10, <2>1
  <2>3. DatagramWords(d)[w] = Layout(sent[i], i)[w - sent[i].at]
    BY <1>6, <2>1
  <2>4. w - sent[i].at \in 0 .. WordsOf(sent[i].nlmsg_len) - 1
    <3> DEFINE a == sent[i].at
               s == WordsOf(sent[i].nlmsg_len)
    <3>1. a \in Nat /\ s \in Nat /\ a <= w /\ w < a + s
      BY <1>4, <2>2
    <3> HIDE DEF a, s
    <3>2. w - a \in 0 .. s - 1
      BY <1>4, <1>8, <3>1
    <3> QED BY <3>2 DEF a, s
  <2>5. sent[i] \in Sendable /\ Made(sent[i]) /\ i \in Nat
    BY <1>4, <2>2
  <2>6. /\ Layout(sent[i], i)[w - sent[i].at] \in Words
        /\ Layout(sent[i], i)[w - sent[i].at].of = i
    BY <2>4, <2>5, LayoutFacts
  <2> QED BY <2>2, <2>3, <2>6
<1> QED BY <1>11, <1>12

LEMMA LastIndex ==
  ASSUME NEW n \in Nat, n # 0, n # 1
  PROVE  n > 0 /\ n - 1 \in 1 .. n - 1 /\ (n - 1) + 1 = n /\ n - 1 # 0
OBVIOUS

\* A sequence without its first element.
LEMMA TailFacts ==
  ASSUME NEW S, NEW q \in Seq(S), q # <<>>
  PROVE  LET r == Tail(q) IN
         /\ Len(q) \in Nat /\ Len(q) > 0 /\ r \in Seq(S) /\ Len(r) = Len(q) - 1
         /\ \A j \in 1 .. Len(q) - 1 : r[j] = q[j + 1]
         /\ Len(q) = 1 => r = <<>>
         /\ Len(q) # 1 => r # <<>> /\ r[Len(r)] = q[Len(q)]
<1> DEFINE r == Tail(q)
<1>1. Len(q) \in Nat /\ Len(q) # 0
  BY EmptySeq
<1>2. r \in Seq(S) /\ Len(r) = Len(q) - 1
  BY HeadTailProperties
<1>3. \A j \in 1 .. Len(q) - 1 : r[j] = q[j + 1]
  BY HeadTailProperties
<1>4. Len(r) = 0 <=> r = <<>>
  BY <1>2, EmptySeq
<1>5. ASSUME Len(q) # 1 PROVE r # <<>> /\ r[Len(r)] = q[Len(q)]
  <2>1. Len(q) - 1 \in 1 .. Len(q) - 1 /\ (Len(q) - 1) + 1 = Len(q) /\ Len(q) - 1 # 0
    BY <1>1, <1>5, LastIndex, Zenon
  <2> QED BY <1>2, <1>3, <1>4, <2>1
<1> QED BY <1>1, <1>2, <1>3, <1>4, <1>5

\* Taking the oldest datagram leaves the others in order behind it.
LEMMA Dequeued ==
  ASSUME Typed, NEW e \in 0 .. Len(sent), InFlight(e), queue # <<>>,
         queue' = Tail(queue), UNCHANGED <<sent, skb, overrun>>,
         NEW last, last = queue[1].last
  PROVE  /\ InFlight(last)'
         /\ queue' \in Seq([first : Nat, last : Nat]) /\ Len(queue') <= Len(queue)
<1> DEFINE n == Len(queue)
<1>0. queue \in Seq([first : Nat, last : Nat])
  BY DEF Typed
<1>1. PICK r : r = queue'
  OBVIOUS
<1>e. /\ n \in Nat /\ n > 0 /\ r \in Seq([first : Nat, last : Nat]) /\ Len(r) = n - 1
      /\ \A j \in 1 .. n - 1 : r[j] = queue[j + 1]
      /\ n = 1 => r = <<>>
      /\ n # 1 => r # <<>> /\ r[Len(r)] = queue[n]
  <2> HIDE DEF n
  <2>1. r = Tail(queue) /\ queue # <<>>
    BY <1>1
  <2>2. /\ Len(queue) \in Nat /\ Len(queue) > 0 /\ Tail(queue) \in Seq([first : Nat, last : Nat])
        /\ Len(Tail(queue)) = Len(queue) - 1
        /\ \A j \in 1 .. Len(queue) - 1 : Tail(queue)[j] = queue[j + 1]
        /\ Len(queue) = 1 => Tail(queue) = <<>>
        /\ Len(queue) # 1 => /\ Tail(queue) # <<>>
                             /\ Tail(queue)[Len(Tail(queue))] = queue[Len(queue)]
    BY <1>0, <2>1, TailFacts, Zenon
  <2> QED BY <2>1, <2>2, Zenon DEF n
<1>2. /\ queue' \in Seq([first : Nat, last : Nat]) /\ Len(queue') = n - 1
      /\ \A j \in 1 .. n - 1 : queue'[j] = queue[j + 1]
      /\ n \in Nat /\ n > 0
  BY <1>1, <1>e
<1>3. ASSUME NEW f \in Nat, NEW l \in Nat, OnTheWay(f, l)' PROVE InDatagram(f, l)'
  <2>1. OnTheWay(f, l)
    <3>1. CASE skb # 0 /\ f = skb /\ l = Len(sent)
      BY <3>1 DEF OnTheWay
    <3>2. CASE \E j \in 1 .. Len(queue') : queue'[j] = Messages(f, l)
      <4>1. PICK j \in 1 .. n - 1 : queue'[j] = Messages(f, l)
        BY <1>2, <3>2
      <4>2. j + 1 \in 1 .. n /\ queue[j + 1] = Messages(f, l)
        BY <1>2, <4>1
      <4> QED BY <4>2 DEF OnTheWay
    <3> QED BY <1>3, <3>1, <3>2 DEF OnTheWay, Messages
  <2>2. InDatagram(f, l)
    BY <2>1 DEF InFlight
  <2>3. Grows
    BY LenProperties DEF Typed, Grows
  <2> QED BY <2>2, <2>3, DatagramsStay
<1>4. LastQueued(last)' = LastQueued(e)
  <2>1. CASE n = 1
    <3>1. queue' = <<>>
      BY <1>1, <1>e, <2>1
    <3>2. queue # <<>> /\ queue[Len(queue)].last = last
      BY <2>1
    <3> QED BY <3>1, <3>2, Zenon DEF LastQueued
  <2>2. CASE n # 1
    <3>1. queue' # <<>> /\ queue'[Len(queue')] = queue[Len(queue)] /\ queue # <<>>
      BY <1>1, <1>e, <2>2
    <3> QED BY <3>1, Zenon DEF LastQueued
  <2> QED BY <2>1, <2>2
<1>5. queue' # <<>> => queue'[1].first = last + 1
  <2> SUFFICES ASSUME queue' # <<>> PROVE queue'[1].first = last + 1
    OBVIOUS
  <2>1. n # 1
    BY <1>1, <1>e
  <2>2. 1 \in 1 .. n - 1
    <3> HIDE DEF n
    <3> QED BY <1>2, <2>1
  <2>3. queue'[1] = queue[1 + 1]
    BY <1>2, <2>2
  <2> QED BY <2>2, <2>3 DEF InFlight
<1>6. ASSUME NEW j \in 1 .. Len(queue') - 1
      PROVE  queue'[j + 1].first = queue'[j].last + 1
  <2>1. j \in 1 .. n - 1 /\ j + 1 \in 1 .. n - 1
    BY <1>2
  <2>2. queue'[j] = queue[j + 1] /\ queue'[j + 1] = queue[(j + 1) + 1]
    BY <1>2, <2>1
  <2> QED BY <2>1, <2>2 DEF InFlight
<1>7. /\ skb' # 0 => skb' = LastQueued(last)' + 1
      /\ skb' = 0 => overrun' \/ Len(sent') = LastQueued(last)'
  BY <1>4 DEF InFlight
<1>8. Len(queue') <= n
  BY <1>2
<1> QED BY <1>2, <1>3, <1>5, <1>6, <1>7, <1>8 DEF InFlight

\* Receive preserves the invariant: a datagram that fits lies in the buffer as
\* the kernel sent it; of one that does not the only message is passed.
LEMMA InvReceive == Inv /\ Receive => Inv'
<1> SUFFICES ASSUME Inv, Receive PROVE Inv'
  OBVIOUS
<1>1. PICK p, e \in 0 .. Len(sent) : At(p, e)
  BY DEF Inv
<1>2. /\ Typed /\ InFlight(e) /\ Reading(p, e) /\ InOrder(p) /\ p = e
      /\ pc = "recv" /\ queue # <<>> /\ Len(sent) \in Nat
  BY <1>1, LenProperties DEF Inv, At, Reading, Receive, Typed
<1>3. PICK f, l : f = queue[1].first /\ l = queue[1].last
  OBVIOUS
<1>d. PICK d : d = Messages(f, l)
  OBVIOUS
<1> DEFINE z == End(l)
           n == IF z < BufWords THEN z ELSE BufWords
<1>4. Head(queue) = d /\ f \in Nat /\ l \in Nat /\ InDatagram(f, l) /\ f = e + 1
  <2>1. 1 \in 1 .. Len(queue)
    BY <1>2, QueueFacts
  <2>2. Head(queue) = queue[1]
    OBVIOUS
  <2>3. queue[1].first = e + 1
    BY <1>2 DEF InFlight
  <2> QED BY <1>2, <1>3, <1>d, <2>1, <2>2, <2>3, QueueFacts
<1>5. d.last = l /\ d.first = f
  BY <1>d DEF Messages
<1>6. /\ buf' = [i \in 0 .. Top |-> IF i < n THEN DatagramWords(d)[i] ELSE buf[i]]
      /\ len' = n * 4 /\ queue' = Tail(queue) /\ nh' = 0 /\ pc' = "msg"
      /\ UNCHANGED <<prog, fdOk, ret, rta, alen, sent, due, overrun, skb, next, links,
                     changes, stable, handled, printed>>
  BY <1>4, <1>5 DEF Receive, programVars, WordSize
<1>7. f \in 1 .. Len(sent) /\ l \in f .. Len(sent) /\ l \in 1 .. Len(sent) /\ l \in f .. l
      /\ f \in f .. l
  <2>1. f \in 1 .. Len(sent) /\ l \in f .. Len(sent)
    BY <1>4, Zenon DEF InDatagram
  <2> QED BY <1>2, <2>1
<1>8. z \in Nat /\ BufWords \in Nat /\ Top = BufWords + 3 /\ Top \in Nat /\ n \in Nat
      /\ n <= BufWords /\ n <= z
  BY <1>2, <1>7, SentFacts, TopFacts, SMTT(20)
<1>9. /\ \A i \in f .. l : \A w \in 0 .. WordsOf(sent[i].nlmsg_len) - 1 :
           /\ sent[i].at + w \in 0 .. z - 1
           /\ DatagramWords(d)[sent[i].at + w] = Layout(sent[i], i)[w]
      /\ \A w \in 0 .. z - 1 :
           /\ DatagramWords(d)[w] \in Words
           /\ DatagramWords(d)[w].of \in f .. l
  BY <1>2, <1>4, <1>d, DatagramFacts
<1> HIDE DEF z, n
<1>10. \A w \in 0 .. Top : w < n => buf'[w] = DatagramWords(d)[w] /\ w \in 0 .. z - 1
  BY <1>6, <1>8
<1>11. \A w \in 0 .. Top : ~(w < n) => buf'[w] = buf[w]
  BY <1>6
<1>12. buf' \in [0 .. Top -> Words] /\ \A w \in 0 .. Top : buf'[w].of <= l
  <2>1. \A w \in 0 .. Top : buf[w] \in Words /\ buf[w].of \in Nat /\ buf[w].of <= e
    BY <1>2 DEF Typed, Words, Reading
  <2>2. ASSUME NEW w \in 0 .. Top PROVE buf'[w] \in Words /\ buf'[w].of <= l
    <3>1. CASE w < n
      <4>1. buf'[w] = DatagramWords(d)[w] /\ w \in 0 .. z - 1
        BY <1>10, <3>1
      <4>2. buf'[w] \in Words /\ buf'[w].of \in f .. l
        BY <1>9, <4>1
      <4> QED BY <1>4, <4>2
    <3>2. CASE ~(w < n)
      BY <1>4, <1>7, <1>11, <2>1, <3>2
    <3> QED BY <3>1, <3>2
  <2>3. buf' = [w \in 0 .. Top |-> buf'[w]]
    BY <1>6
  <2> QED BY <2>2, <2>3
<1>13. InFlight(l)' /\ queue' \in Seq([first : Nat, last : Nat]) /\ Len(queue') <= Len(queue)
  BY <1>2, <1>3, <1>6, Dequeued
<1>14. ASSUME z <= BufWords PROVE \E a, b \in 0 .. Len(sent') : At(a, b)'
  <2>1. n = z
    BY <1>8, <1>14 DEF n
  <2>2. InBuffer(f, l)'
    <3>1. \A i : End(i)' = End(i)
      BY <1>6 DEF End
    <3>2. \A i \in f .. l - 1 : sent'[i + 1].at = End(i)'
      BY <1>4, <1>6, <3>1 DEF InDatagram
    <3>3. \A i, j \in f .. l : i < j => End(i)' <= sent'[j].at
      BY <1>4, <1>6, <3>1 DEF InDatagram
    <3>4. End(l)' <= BufWords
      BY <1>14, <3>1 DEF z
    <3>5. nh' = sent'[f].at
      BY <1>4, <1>6 DEF InDatagram
    <3>6. WordSize * nh' + len' = WordSize * End(l)'
      BY <1>6, <1>8, <2>1, <3>1 DEF WordSize, z
    <3>7. ASSUME NEW i \in f .. l, NEW w \in 0 .. WordsOf(sent[i].nlmsg_len) - 1
          PROVE  buf'[sent[i].at + w] = Layout(sent[i], i)[w]
      <4> DEFINE v == sent[i].at + w
      <4>1. v \in 0 .. z - 1 /\ DatagramWords(d)[v] = Layout(sent[i], i)[w]
        BY <1>9
      <4> HIDE DEF v
      <4>2. v \in 0 .. Top /\ v < n
        BY <1>8, <1>14, <2>1, <4>1
      <4>3. buf'[v] = DatagramWords(d)[v]
        BY <1>10, <4>2
      <4> QED BY <4>1, <4>3 DEF v
    <3>8. ASSUME NEW w \in End(l) .. Top PROVE buf'[w].of < f
      <4>1. w \in 0 .. Top /\ ~(w < n)
        BY <1>8, <2>1 DEF z
      <4>2. buf'[w] = buf[w] /\ buf[w].of <= e /\ buf[w].of \in Nat
        BY <1>2, <1>11, <4>1 DEF Reading, Typed, Words
      <4> QED BY <1>2, <1>4, <4>2
    <3>9. \A i \in f .. l : \A w \in 0 .. WordsOf(sent'[i].nlmsg_len) - 1 :
            buf'[sent'[i].at + w] = Layout(sent'[i], i)[w]
      BY <1>6, <3>7
    <3>10. \A w \in End(l)' .. Top : buf'[w].of < f
      BY <3>1, <3>8
    <3> QED BY <3>2, <3>3, <3>4, <3>5, <3>6, <3>9, <3>10 DEF InBuffer
  <2>3. Reading(p, l)'
    <3>1. p # l /\ p <= l /\ l <= Len(sent')
      BY <1>2, <1>4, <1>6, <1>7
    <3>2. InBuffer(p + 1, l)'
      BY <1>2, <1>4, <2>2
    <3> QED BY <1>6, <1>12, <3>1, <3>2 DEF Reading
  <2>4. InOrder(p)'
    BY <1>2, <1>6 DEF InOrder, Deliverable
  <2>5. InLoop(p, l)'
    BY <1>6 DEF InLoop
  <2>6. p \in 0 .. Len(sent') /\ l \in 0 .. Len(sent')
    BY <1>2, <1>6, <1>7
  <2>7. At(p, l)'
    BY <1>13, <2>3, <2>4, <2>5 DEF At
  <2> QED BY <2>6, <2>7
<1>15. ASSUME ~(z <= BufWords) PROVE \E a, b \in 0 .. Len(sent') : At(a, b)'
  <2>1. n = BufWords /\ z > BufWords
    BY <1>8, <1>15 DEF n
  <2>2. f = l
    <3>1. f < l => z <= BufWords
      BY <1>4 DEF InDatagram, z
    <3> QED BY <1>7, <1>15, <3>1
  <2>3. /\ sent[l].at = 0 /\ sent[l] \in Sendable /\ Made(sent[l]) /\ l \in Nat
        /\ sent[l].nlmsg_len = 4 * z /\ z >= 5
        /\ WordsOf(sent[l].nlmsg_len) = z
    <3>1. sent[l].at = 0
      BY <1>4, <2>2 DEF InDatagram
    <3>2. /\ sent[l] \in Sendable /\ Made(sent[l]) /\ l \in Nat
          /\ WordsOf(sent[l].nlmsg_len) \in Nat
          /\ sent[l].nlmsg_len = 4 * WordsOf(sent[l].nlmsg_len)
          /\ WordsOf(sent[l].nlmsg_len) >= 5
          /\ End(l) = sent[l].at + WordsOf(sent[l].nlmsg_len)
      BY <1>2, <1>7, SentFacts
    <3>3. z = WordsOf(sent[l].nlmsg_len)
      <4>1. End(l) = WordsOf(sent[l].nlmsg_len)
        BY <3>1, <3>2
      <4> QED BY <4>1 DEF z
    <3> QED BY <3>1, <3>2, <3>3
  <2>4. ~NlmsgOk'
    <3>1. CASE BufWords = 0
      <4>1. len' = 0
        BY <1>6, <2>1, <3>1
      <4> QED BY <4>1 DEF NlmsgOk, NlmsgHdrSize
    <3>2. CASE BufWords > 0
      <4>1. 0 \in 0 .. Top /\ 0 < n /\ 0 \in 0 .. z - 1
        BY <1>8, <2>1, <3>2
      <4>2. buf'[0] = DatagramWords(d)[0]
        BY <1>10, <4>1
      <4>3. DatagramWords(d)[0] = Layout(sent[l], l)[0]
        <5>1. DatagramWords(d)[sent[l].at + 0] = Layout(sent[l], l)[0]
          BY <1>7, <1>9, <2>3, <4>1
        <5> QED BY <2>3, <5>1
      <4>4. buf'[nh'].len = 4 * z
        BY <1>6, <2>3, <4>2, <4>3, LayoutFacts
      <4>5. len' = 4 * BufWords
        BY <1>6, <1>8, <2>1
      <4>6. ~(4 * z <= 4 * BufWords)
        BY <1>8, <2>1
      <4> QED BY <4>4, <4>5, <4>6 DEF NlmsgOk
    <3> QED BY <1>8, <3>1, <3>2
  <2>5. Reading(l, l)'
    <3>1. l <= Len(sent') /\ l <= l
      BY <1>2, <1>6, <1>7
    <3> QED BY <1>6, <1>12, <2>4, <3>1 DEF Reading
  <2>6. p + 1 = l /\ p + 1 \in 1 .. Len(sent)
    BY <1>2, <1>4, <1>7, <2>2
  <2>7. ~Deliverable(sent[p + 1])
    <3>1. ~(4 * z <= BufWords * 4)
      BY <1>8, <2>1
    <3> QED BY <2>3, <2>6, <3>1 DEF Deliverable, WordSize
  <2>8. InOrder(l)'
    BY <1>2, <1>6, <2>6, <2>7, PassesNext
  <2>9. InLoop(l, l)'
    BY <1>6 DEF InLoop
  <2>10. l \in 0 .. Len(sent')
    BY <1>2, <1>6, <1>7
  <2>11. At(l, l)'
    BY <1>13, <2>5, <2>8, <2>9 DEF At
  <2> QED BY <2>10, <2>11
<1>16. Typed'
  <2>1. len' \in Nat /\ nh' \in 0 .. BufWords
    BY <1>6, <1>8
  <2>2. Len(queue') <= QueueSize
    <3>1. Len(queue) \in Nat /\ Len(queue') \in Nat /\ Len(queue) <= QueueSize
      BY <1>13, LenProperties DEF Inv, Typed
    <3> QED BY <1>13, <3>1, SizesAssumption
  <2> QED BY <1>6, <1>12, <1>13, <2>1, <2>2 DEF Inv, Typed
<1>17. P' = P
  BY <1>6 DEF P
<1>18. ByProgram'
  BY <1>6, <1>17 DEF Inv, ByProgram
<1>19. NotYet'
  BY <1>6 DEF Inv, NotYet
<1>20. Dumping'
  BY <1>2, <1>6 DEF Inv, Dumping, Sent, Deliverable
<1>21. ASSUME NEW i \in 1 .. Len(handled) PROVE PrintedOf(i)'
  BY <1>2, <1>6, <1>17 DEF Inv, Printing, PrintedOf
<1>22. Printing'
  BY <1>6, <1>21 DEF Printing
<1> QED BY <1>14, <1>15, <1>16, <1>18, <1>19, <1>20, <1>22 DEF Inv

\* As many of the smallest attributes as the netlink header is long.
LEMMA HeaderAttrs == NlmsgHdrSize \div AttrHdrSize = 4
BY DEF NlmsgHdrSize, AttrHdrSize

\* NLMSG_NEXT goes to the next message of the datagram, or to its end.
LEMMA AdvanceFacts ==
  ASSUME Typed, NEW c \in 1 .. Len(sent), NEW e \in c .. Len(sent), InBuffer(c, e),
         Advance, UNCHANGED <<sent, buf>>
  PROVE  /\ c = e => ~NlmsgOk'
         /\ c < e => InBuffer(c + 1, e)'
         /\ nh' \in 0 .. BufWords /\ len' \in Nat
<1> DEFINE s == WordsOf(sent[c].nlmsg_len)
           x == End(c)
           y == End(e)
<1>1. /\ buf[nh].len = sent[c].nlmsg_len /\ nh = sent[c].at /\ nh \in Nat
      /\ x \in Nat /\ y \in Nat /\ x <= y /\ y <= BufWords /\ x = nh + s
      /\ len = 4 * (y - nh)
  BY BufferFacts
<1>2. s \in Nat /\ sent[c].nlmsg_len \in Nat /\ c \in Nat /\ e \in Nat
  <2>1. s \in Nat /\ sent[c].nlmsg_len \in Nat /\ c \in Nat
    BY SentFacts
  <2> QED BY <2>1
<1>3. nh' = nh + s /\ len' = len - 4 * s
  BY <1>1, <1>2, WordsOfFacts DEF Advance, WordSize
<1> HIDE DEF s
<1>4. \A i : End(i)' = End(i)
  BY DEF End
<1>5. nh' = x /\ len' = 4 * (y - x) /\ len' \in Nat /\ nh' \in 0 .. BufWords
  <2>1. x = nh + s /\ nh \in Nat /\ s \in Nat /\ x \in Nat /\ y \in Nat /\ x <= y
        /\ y <= BufWords /\ len = 4 * (y - nh) /\ nh' = nh + s /\ len' = len - 4 * s
        /\ BufWords \in Nat
    BY <1>1, <1>2, <1>3, SizesAssumption
  <2> HIDE DEF x, y
  <2> QED BY <2>1
<1>6. ASSUME c = e PROVE ~NlmsgOk'
  <2>1. len' = 0
    <3>1. x = y
      BY <1>6
    <3> HIDE DEF x, y
    <3>2. len' = 4 * (y - x) /\ x \in Nat
      BY <1>1, <1>5
    <3> QED BY <3>1, <3>2
  <2> QED BY <2>1 DEF NlmsgOk, NlmsgHdrSize
<1>7. ASSUME c < e PROVE InBuffer(c + 1, e)'
  <2>1. /\ \A i \in c + 1 .. e : i \in c .. e
        /\ \A i \in c + 1 .. e - 1 : i \in c .. e - 1
        /\ c \in c .. e - 1
    BY <1>2, <1>7
  <2>2. \A i \in c + 1 .. e - 1 : sent'[i + 1].at = End(i)'
    BY <1>4, <2>1 DEF InBuffer
  <2>3. \A i, j \in c + 1 .. e : i < j => End(i)' <= sent'[j].at
    BY <1>4, <2>1 DEF InBuffer
  <2>4. End(e)' <= BufWords
    BY <1>1, <1>4
  <2>5. nh' = sent'[c + 1].at
    BY <1>5, <2>1 DEF InBuffer
  <2>6. WordSize * nh' + len' = WordSize * End(e)'
    <3>1. 4 * x + 4 * (y - x) = 4 * y
      <4>1. x \in Nat /\ y \in Nat
        BY <1>1
      <4> HIDE DEF x, y
      <4> QED BY <4>1
    <3> QED BY <1>4, <1>5, <3>1 DEF WordSize
  <2>7. \A i \in c + 1 .. e : \A w \in 0 .. WordsOf(sent'[i].nlmsg_len) - 1 :
          buf'[sent'[i].at + w] = Layout(sent'[i], i)[w]
    BY <2>1 DEF InBuffer
  <2>8. \A w \in End(e)' .. Top : buf'[w].of < c + 1
    <3>1. ASSUME NEW w \in End(e) .. Top PROVE buf[w].of < c + 1
      <4>1. w \in 0 .. Top
        BY <1>1, TopFacts
      <4>2. buf[w].of \in Nat
        BY <4>1 DEF Typed, Words
      <4> QED BY <1>2, <4>2 DEF InBuffer
    <3> QED BY <1>4, <3>1
  <2> QED BY <2>2, <2>3, <2>4, <2>5, <2>6, <2>7, <2>8 DEF InBuffer
<1> QED BY <1>5, <1>6, <1>7

\* A message handled is one that should be seen, and the next of them.
LEMMA HandleStep ==
  ASSUME Typed, Printing, NEW p \in 0 .. Len(sent), NEW e \in 0 .. Len(sent), At(p, e),
         pc = "msg", NlmsgOk, sent[Current].type \notin {"done", "error"},
         handled' = Append(handled, Current), printed' = Append(printed, <<>>),
         UNCHANGED <<prog, kernelVars>>,
         sent[Current].type \in P.walks => pc' = "attr"
  PROVE  /\ p < e /\ p + 1 \in 1 .. Len(sent) /\ e \in p + 1 .. Len(sent)
         /\ Current = p + 1 /\ InBuffer(p + 1, e)
         /\ Len(handled) < Len(due) /\ due[Len(handled) + 1] = Current
         /\ InFlight(e)' /\ InOrder(p + 1)' /\ Printing'
         /\ handled' \in Seq(Nat) /\ Len(handled') = Len(handled) + 1
         /\ handled'[Len(handled')] = p + 1
         /\ printed' \in Seq(Seq([of : Nat, nr : Nat])) /\ Len(printed') = Len(handled')
         /\ printed'[Len(handled')] = <<>>
<1> DEFINE h == Len(handled)
<1>1. /\ p < e /\ p + 1 \in 1 .. Len(sent) /\ e \in p + 1 .. Len(sent)
      /\ InBuffer(p + 1, e) /\ Current = p + 1
  BY LoopFacts DEF At
<1>2. Deliverable(sent[p + 1])
  <2>1. buf[nh].len = sent[p + 1].nlmsg_len /\ buf[nh].len <= len
    BY <1>1, BufferFacts DEF NlmsgOk
  <2>2. /\ nh \in Nat /\ End(e) \in Nat /\ End(e) <= BufWords /\ len = 4 * (End(e) - nh)
        /\ sent[p + 1].nlmsg_len \in Nat /\ BufWords \in Nat
    BY <1>1, BufferFacts, SentFacts, TopFacts
  <2> DEFINE x == sent[p + 1].nlmsg_len
             y == End(e)
  <2>3. x <= BufWords * 4
    <3>1. x <= len /\ len = 4 * (y - nh) /\ y <= BufWords /\ x \in Nat /\ y \in Nat
      BY <2>1, <2>2
    <3> HIDE DEF x, y
    <3> QED BY <2>2, <3>1
  <2> QED BY <1>1, <2>3 DEF Deliverable, WordSize
<1>3. /\ InOrder(p + 1)' /\ handled' \in Seq(Nat) /\ Len(handled') = h + 1
      /\ handled'[h + 1] = p + 1 /\ \A i \in 1 .. h : handled'[i] = handled[i]
      /\ h < Len(due) /\ due[h + 1] = Current
  BY <1>1, <1>2, HandlesNext DEF At, kernelVars
<1>4. /\ h \in Nat /\ Len(printed) = h
      /\ printed \in Seq(Seq([of : Nat, nr : Nat]))
  BY LenProperties DEF Typed
<1>5. /\ printed' \in Seq(Seq([of : Nat, nr : Nat])) /\ Len(printed') = h + 1
      /\ printed'[h + 1] = <<>> /\ \A i \in 1 .. h : printed'[i] = printed[i]
  <2>1. <<>> \in Seq([of : Nat, nr : Nat])
    BY EmptySeq
  <2> QED BY <1>4, <2>1, AppendProperties
<1>6. InFlight(e)'
  <2>1. Grows
    BY LenProperties DEF Typed, Grows, kernelVars
  <2> QED BY <2>1, InFlightStays DEF At, kernelVars
<1>7. P' = P /\ sent' = sent
  BY DEF P, kernelVars
<1>8. ASSUME NEW i \in 1 .. h PROVE PrintedOf(i)'
  <2>1. PrintedOf(i)
    BY DEF Printing
  <2>2. handled'[i] = handled[i] /\ printed'[i] = printed[i]
    BY <1>3, <1>5
  <2> QED BY <1>7, <2>1, <2>2 DEF PrintedOf
<1>g. PICK g : g = h + 1
  OBVIOUS
<1>9. PrintedOf(g)'
  <2>0. g = Len(handled') /\ handled'[g] = p + 1 /\ printed'[g] = <<>>
    BY <1>3, <1>5, <1>g
  <2>1. pc' = "attr" \/ sent'[p + 1].type \notin P'.walks
    BY <1>1, <1>7
  <2>2. Len(<<>>) = 0 /\ Len(sent[p + 1].content.attrs) \in Nat
    <3>1. LaidOut(sent[p + 1].content)
      BY <1>1, SentFacts, MessageFacts
    <3> QED BY <3>1, EmptySeq, LenProperties DEF LaidOut
  <2> DEFINE n == Len(sent[p + 1].content.attrs)
  <2>3. n \in Nat /\ n = Len(sent'[handled'[g]].content.attrs) /\ Len(printed'[g]) = 0
    BY <1>7, <2>0, <2>2
  <2> HIDE DEF n
  <2>4. Len(printed'[g]) <= n + NlmsgHdrSize \div AttrHdrSize
    <3>1. 0 <= n + NlmsgHdrSize \div AttrHdrSize
      <4>1. n \in Nat
        BY <2>3
      <4> QED BY <4>1, HeaderAttrs
    <3> QED BY <2>3, <3>1
  <2>5. \A nr \in 1 .. Len(printed'[g]) : FALSE
    <3>1. \A nr \in 1 .. 0 : FALSE
      OBVIOUS
    <3> QED BY <2>3, <3>1, Zenon
  <2>6. Len(printed'[g]) >= n \/ (pc' = "attr" /\ g = Len(handled'))
        \/ sent'[handled'[g]].type \notin P'.walks
    BY <2>0, <2>1
  <2> QED BY <2>0, <2>3, <2>4, <2>5, <2>6 DEF PrintedOf
<1>10. Printing'
  <2>1. \A i \in 1 .. Len(handled') : i \in 1 .. h \/ i = g
    BY <1>3, <1>4, <1>g
  <2> QED BY <1>8, <1>9, <2>1 DEF Printing
<1> QED BY <1>1, <1>3, <1>5, <1>6, <1>10

\* Handling a message leaves the dump alone.
LEMMA DumpingStays ==
  ASSUME Typed, Dumping, UNCHANGED <<ret, kernelVars>>, pc # "exit"
  PROVE  Dumping'
<1>1. ret # 1
  BY DEF Dumping
<1> QED BY <1>1 DEF Dumping, kernelVars, Sent, Deliverable

\* ParseMessage preserves the invariant: the attribute loop begins at the first
\* attribute.
LEMMA InvParseMessage == Inv /\ ParseMessage => Inv'
<1> SUFFICES ASSUME Inv, ParseMessage PROVE Inv'
  OBVIOUS
<1>1. PICK p, e \in 0 .. Len(sent) : At(p, e)
  BY DEF Inv
<1>2. /\ Typed /\ Printing /\ pc = "msg" /\ NlmsgOk
      /\ sent[Current].type \in P.walks
      /\ handled' = Append(handled, Current) /\ printed' = Append(printed, <<>>)
      /\ rta' = nh + HdrWords(sent[Current]) /\ alen' = AttrLen /\ pc' = "attr"
      /\ UNCHANGED <<prog, fdOk, ret, buf, len, nh, kernelVars>>
  BY DEF Inv, ParseMessage, programVars
<1>3. sent[Current].type \notin {"done", "error"}
  <2>1. P.walks \subseteq LinkEvents \union AddrEvents
    BY <1>2, ParameterFacts DEF Typed
  <2> QED BY <1>2, <2>1 DEF LinkEvents, AddrEvents
<1>4. PICK c : c = p + 1
  OBVIOUS
<1>5. /\ c \in 1 .. Len(sent) /\ e \in c .. Len(sent) /\ Current = c /\ InBuffer(c, e)
      /\ InFlight(e)' /\ InOrder(c)' /\ Printing'
      /\ handled' \in Seq(Nat) /\ Len(handled') = Len(handled) + 1
      /\ handled'[Len(handled')] = c
      /\ printed' \in Seq(Seq([of : Nat, nr : Nat])) /\ Len(printed') = Len(handled')
      /\ printed'[Len(handled')] = <<>>
  BY <1>1, <1>2, <1>3, <1>4, HandleStep
<1> DEFINE m == sent[c]
           hw == HdrWords(m)
           n == Len(m.content.attrs)
           s == WordsOf(m.nlmsg_len)
           fs == FamilyHdrSize(m.type)
<1>6. /\ sent' = sent /\ prog' = prog /\ P' = P /\ \A i : End(i)' = End(i)
  BY <1>2 DEF kernelVars, P, End
<1>7. /\ buf[nh].len = m.nlmsg_len /\ nh \in Nat /\ End(c) = nh + s
      /\ End(c) <= End(e) /\ End(e) <= BufWords /\ End(c) \in Nat /\ End(e) \in Nat
  BY <1>2, <1>5, BufferFacts
<1>8. /\ m \in Sendable /\ Made(m) /\ LaidOut(m.content) /\ hw \in Nat
      /\ fs \in {4, 8, 16, 20} /\ NlmsgHdrSize + fs = WordSize * hw
      /\ m.nlmsg_len = WordSize * s /\ s \in Nat
      /\ s = hw + m.content.at[n] /\ m.content.at[n] \in Nat
  BY <1>2, <1>5, SentFacts, MessageFacts
<1>9. n \in Nat /\ m.content.at[0] = 0
  BY <1>8, LenProperties DEF LaidOut
<1>10. /\ rta' = nh + hw /\ alen' = 4 * s - fs /\ 16 + fs = 4 * hw /\ hw <= s
  <2>1. alen' = m.nlmsg_len - fs
    BY <1>2, <1>5, <1>7 DEF AttrLen
  <2>2. hw <= s
    <3> DEFINE a == m.content.at[n]
    <3>1. a \in Nat /\ s = hw + a /\ hw \in Nat
      BY <1>8
    <3> HIDE DEF a, s, hw
    <3> QED BY <3>1
  <2> QED BY <1>2, <1>5, <1>8, <2>1, <2>2 DEF WordSize, NlmsgHdrSize
<1> HIDE DEF hw, s, fs
<1>11. /\ alen' \in Int /\ alen' >= 0 /\ 4 * rta' + alen' = 4 * nh + 4 * s + 16
       /\ rta' \in 0 .. Top + 1
  <2> DEFINE x == End(c)
             y == End(e)
  <2>1. /\ x \in Nat /\ y \in Nat /\ x <= y /\ y <= BufWords /\ x = nh + s /\ nh \in Nat
        /\ s \in Nat /\ hw \in Nat /\ fs \in {4, 8, 16, 20} /\ 16 + fs = 4 * hw
        /\ hw <= s /\ rta' = nh + hw /\ alen' = 4 * s - fs
        /\ Top = BufWords + 3 /\ BufWords \in Nat
    BY <1>7, <1>8, <1>10, TopFacts
  <2> HIDE DEF x, y
  <2> QED BY <2>1
<1>12. Reading(c, e)'
  <2>1. InBuffer(c, e)'
    BY <1>2, <1>5, <1>6 DEF InBuffer
  <2>2. /\ \A w \in 0 .. Top : buf'[w].of <= e
        /\ c <= e /\ e <= Len(sent') /\ c > 0
    BY <1>1, <1>2, <1>5, <1>6 DEF At, Reading
  <2> QED BY <1>2, <2>1, <2>2 DEF Reading
<1>13. InLoop(c, e)'
  <2>1. Len(printed'[Len(handled')]) = 0
    BY <1>5, EmptySeq
  <2>2. /\ Len(handled') > 0 /\ handled'[Len(handled')] = c
    BY <1>2, <1>5, LenProperties DEF Typed
  <2>3. sent'[c] = m /\ m.type \in P'.walks
    BY <1>2, <1>5, <1>6
  <2>4. WordSize * rta' + alen' = WordSize * nh' + m.nlmsg_len + NlmsgHdrSize
    <3>1. m.nlmsg_len = 4 * s /\ nh' = nh
      BY <1>2, <1>8 DEF WordSize
    <3>2. 4 * rta' + alen' = 4 * nh' + m.nlmsg_len + 16
      BY <1>11, <3>1
    <3> QED BY <3>2 DEF WordSize, NlmsgHdrSize
  <2>5. rta' = nh' + HdrWords(m) + m.content.at[0]
    <3>1. rta' = nh' + hw /\ hw \in Nat /\ nh' \in Nat /\ m.content.at[0] = 0
      BY <1>2, <1>7, <1>8, <1>9, <1>10
    <3>2. rta' = nh' + hw + m.content.at[0]
      BY <3>1
    <3> QED BY <3>2 DEF hw
  <2> HIDE DEF m
  <2>6. ~(0 > n)
    BY <1>9
  <2>7. \A k : k = 0 => (k <= n => rta' = nh' + HdrWords(m) + m.content.at[k]) /\ ~(k > n)
    BY <2>5, <2>6
  <2> QED BY <1>11, <2>1, <2>2, <2>3, <2>4, <2>7 DEF InLoop
<1>14. At(c, e)' /\ c \in 0 .. Len(sent)' /\ e \in 0 .. Len(sent)'
  <2>1. At(c, e)'
    BY <1>5, <1>12, <1>13 DEF At
  <2>2. c \in 0 .. Len(sent) /\ e \in 0 .. Len(sent)
    BY <1>5
  <2> QED BY <1>6, <2>1, <2>2
<1>15. Typed'
  BY <1>2, <1>5, <1>11 DEF Typed, kernelVars
<1>16. ByProgram' /\ NotYet'
  BY <1>2, <1>6 DEF Inv, ByProgram, NotYet, kernelVars
<1>17. Dumping'
  BY <1>2, DumpingStays DEF Inv
<1> QED BY <1>5, <1>14, <1>15, <1>16, <1>17 DEF Inv

\* ReportMessage preserves the invariant.
LEMMA InvReportMessage == Inv /\ ReportMessage => Inv'
<1> SUFFICES ASSUME Inv, ReportMessage PROVE Inv'
  OBVIOUS
<1>1. PICK p, e \in 0 .. Len(sent) : At(p, e)
  BY DEF Inv
<1>2. /\ Typed /\ Printing /\ pc = "msg" /\ NlmsgOk
      /\ sent[Current].type \notin P.walks
      /\ sent[Current].type \notin {"done", "error"}
      /\ handled' = Append(handled, Current) /\ printed' = Append(printed, <<>>)
      /\ Advance
      /\ UNCHANGED <<prog, fdOk, pc, ret, buf, rta, alen, kernelVars>>
  BY DEF Inv, ReportMessage, programVars
<1>3. PICK c : c = p + 1
  OBVIOUS
<1>4. /\ c \in 1 .. Len(sent) /\ e \in c .. Len(sent) /\ Current = c /\ InBuffer(c, e)
      /\ InFlight(e)' /\ InOrder(c)' /\ Printing'
      /\ handled' \in Seq(Nat) /\ Len(handled') = Len(handled) + 1
      /\ printed' \in Seq(Seq([of : Nat, nr : Nat])) /\ Len(printed') = Len(handled')
  BY <1>1, <1>2, <1>3, HandleStep
<1>5. sent' = sent /\ buf' = buf /\ P' = P
  BY <1>2 DEF kernelVars, P
<1>6. /\ c = e => ~NlmsgOk'
      /\ c < e => InBuffer(c + 1, e)'
      /\ nh' \in 0 .. BufWords /\ len' \in Nat
  BY <1>2, <1>4, <1>5, AdvanceFacts
<1>7. Reading(c, e)'
  <2>1. /\ \A w \in 0 .. Top : buf'[w].of <= e
        /\ c <= e /\ e <= Len(sent') /\ (c = e \/ c < e)
    BY <1>1, <1>4, <1>5 DEF At, Reading
  <2> QED BY <1>2, <1>6, <2>1 DEF Reading
<1>8. InLoop(c, e)'
  BY <1>2 DEF InLoop
<1>9. At(c, e)' /\ c \in 0 .. Len(sent)' /\ e \in 0 .. Len(sent)'
  <2>1. At(c, e)'
    BY <1>4, <1>7, <1>8 DEF At
  <2>2. c \in 0 .. Len(sent) /\ e \in 0 .. Len(sent)
    BY <1>4
  <2> QED BY <1>5, <2>1, <2>2
<1>10. Typed'
  BY <1>2, <1>4, <1>6 DEF Typed, kernelVars
<1>11. ByProgram' /\ NotYet'
  BY <1>2, <1>5 DEF Inv, ByProgram, NotYet, kernelVars
<1>12. Dumping'
  BY <1>2, DumpingStays DEF Inv
<1> QED BY <1>4, <1>9, <1>10, <1>11, <1>12 DEF Inv

\* The loop has printed k things of message p, which has n attributes, and is
\* at a word that reads as the beginning of d words.
AtAttr(p, k, n, d) ==
  /\ k = Len(printed[Len(handled)])
  /\ n = Len(sent[p].content.attrs)
  /\ d = WordsOf(buf[rta].len)

\* The attribute loop: it finds the attributes of the message where they lie;
\* behind the last it finds at most what earlier messages left, and stays in
\* the 16 bytes behind the message.
LEMMA AttrFacts ==
  ASSUME Typed, NEW p \in 0 .. Len(sent), NEW e \in 0 .. Len(sent),
         Reading(p, e), InLoop(p, e), pc = "attr",
         NEW k, NEW n, NEW d, AtAttr(p, k, n, d)
  PROVE  /\ p \in 1 .. Len(sent) /\ e \in p .. Len(sent) /\ InBuffer(p, e)
         /\ k \in Nat /\ n \in Nat /\ Len(handled) \in 1 .. Len(handled)
         /\ rta \in Nat /\ End(p) \in Nat /\ alen = 4 * (End(p) + 4 - rta)
         /\ rta <= End(p) + 4 /\ End(p) <= BufWords
         /\ k < n => /\ RtaOk /\ d \in Nat
                     /\ buf[rta] = Word(sent[p].content.attrs[k + 1], p, k + 1)
                     /\ rta + d = nh + HdrWords(sent[p]) + sent[p].content.at[k + 1]
                     /\ rta + d <= End(p)
         /\ k >= n /\ RtaOk => /\ d \in Nat /\ d > 0
                               /\ p = e /\ buf[rta].of < p
                               /\ End(p) + (k - n) <= rta /\ rta + d <= End(p) + 4
<1> DEFINE m == sent[p]
           c == m.content
           hw == HdrWords(m)
           s == WordsOf(m.nlmsg_len)
           x == End(p)
<1>1. p \in 1 .. Len(sent) /\ e \in p .. Len(sent) /\ InBuffer(p, e) /\ p \in Nat
  BY LenProperties DEF Reading, Typed
<1>2. /\ Len(handled) > 0 /\ alen >= 0
      /\ WordSize * rta + alen = WordSize * nh + m.nlmsg_len + NlmsgHdrSize
      /\ k <= n => rta = nh + hw + c.at[k]
      /\ k > n => p = e /\ x + (k - n) <= rta
  BY DEF InLoop, AtAttr
<1>3. Len(handled) \in 1 .. Len(handled)
  BY <1>2, LenProperties DEF Typed
<1>4. k \in Nat
  <2>1. printed[Len(handled)] \in Seq([of : Nat, nr : Nat])
    BY <1>3, ElementOfSeq DEF Typed
  <2> QED BY <2>1, LenProperties DEF AtAttr
<1>5. /\ m \in Sendable /\ Made(m) /\ LaidOut(c) /\ hw \in Nat /\ s \in Nat
      /\ m.nlmsg_len = 4 * s /\ s = hw + c.at[n]
  BY <1>1, SentFacts, MessageFacts DEF AtAttr
<1>6. n \in Nat /\ c.attrs \in Seq(Nat) /\ c.at \in [0 .. n -> Nat]
      /\ \A nr \in 1 .. n : /\ c.attrs[nr] >= 4
                            /\ c.at[nr] = c.at[nr - 1] + WordsOf(c.attrs[nr])
  BY <1>5, LenProperties DEF LaidOut, AttrHdrSize, AtAttr
<1>7. nh = m.at /\ nh \in Nat /\ x \in Nat /\ x = nh + s /\ x <= BufWords
      /\ BufWords \in Nat
  BY <1>1, BufferFacts, TopFacts
<1>8. rta \in Nat /\ alen \in Int /\ Top = BufWords + 3
  BY TopFacts DEF Typed
<1> HIDE DEF s, x, hw
<1>9. alen = 4 * (x + 4 - rta) /\ rta <= x + 4
  <2> DEFINE l == m.nlmsg_len
  <2>1. /\ 4 * rta + alen = 4 * nh + l + 16 /\ l = 4 * s /\ alen >= 0
        /\ l \in Nat /\ s \in Nat /\ nh \in Nat /\ x \in Nat /\ x = nh + s
        /\ rta \in Nat /\ alen \in Int
    BY <1>1, <1>2, <1>5, <1>7, <1>8, SentFacts DEF WordSize, NlmsgHdrSize
  <2> HIDE DEF l
  <2> QED BY <2>1
<1>10. \A b, y \in Nat : b >= 4 /\ b <= 4 * y =>
         WordsOf(b) \in Nat /\ WordsOf(b) > 0 /\ WordsOf(b) <= y
  BY DEF WordsOf, WordSize
<1>11. ASSUME k < n
       PROVE  /\ RtaOk /\ d \in Nat
              /\ buf[rta] = Word(c.attrs[k + 1], p, k + 1)
              /\ rta + d = nh + hw + c.at[k + 1] /\ rta + d <= x
  <2> DEFINE b == c.attrs[k + 1]
  <2>1. /\ k + 1 \in 1 .. n /\ k \in 0 .. n /\ k + 1 \in 0 .. n /\ n \in 0 .. n
        /\ (k + 1) - 1 = k
    <3>1. k \in Nat /\ n \in Nat /\ k < n
      BY <1>4, <1>6, <1>11
    <3> QED BY <3>1
  <2>2. b \in Nat /\ b >= 4 /\ c.at[k + 1] = c.at[k] + WordsOf(b)
    <3>1. c.attrs[k + 1] \in Nat
      BY <1>6, <2>1, ElementOfSeq DEF AtAttr
    <3> QED BY <1>6, <2>1, <3>1
  <2>3. c.at[k] \in Nat /\ c.at[k + 1] \in Nat /\ c.at[n] \in Nat
    BY <1>6, <2>1
  <2>4. c.at[k + 1] <= c.at[n]
    <3>1. CASE k + 1 = n
      <4>1. c.at[k + 1] = c.at[n]
        BY <3>1
      <4>2. \A u, v \in Nat : u = v => u <= v
        OBVIOUS
      <4> QED BY <2>3, <4>1, <4>2
    <3>2. CASE k + 1 < n
      <4>1. c.at[k + 1] < c.at[n]
        BY <1>5, <2>1, <3>2, OffsetsIncrease DEF AtAttr
      <4>2. \A u, v \in Nat : u < v => u <= v
        OBVIOUS
      <4> QED BY <2>3, <4>1, <4>2
    <3> QED BY <1>6, <2>1, <3>1, <3>2
  <2>5. /\ hw + c.at[k] \in 0 .. s - 1
        /\ Layout(m, p)[hw + c.at[k]] = Word(b, p, k + 1)
    <3>1. /\ HdrWords(m) + c.at[(k + 1) - 1] \in 0 .. WordsOf(m.nlmsg_len) - 1
          /\ Layout(m, p)[HdrWords(m) + c.at[(k + 1) - 1]] = Word(c.attrs[k + 1], p, k + 1)
      BY <1>1, <1>5, <2>1, LayoutFacts DEF AtAttr
    <3> QED BY <2>1, <3>1 DEF hw, s
  <2>6. buf[m.at + (hw + c.at[k])] = Layout(m, p)[hw + c.at[k]]
    <3>1. p \in p .. e
      BY <1>1
    <3> QED BY <1>1, <2>5, <3>1 DEF InBuffer, s
  <2>7. rta = nh + (hw + c.at[k])
    <3>1. rta = nh + hw + c.at[k]
      BY <1>2, <1>4, <1>6, <1>11
    <3> DEFINE u == c.at[k]
    <3>2. rta = nh + hw + u /\ nh \in Nat /\ hw \in Nat /\ u \in Nat
      BY <1>5, <1>7, <2>3, <3>1
    <3> HIDE DEF u
    <3>3. rta = nh + (hw + u)
      BY <3>2
    <3> QED BY <3>3 DEF u
  <2>8. buf[rta] = Word(b, p, k + 1)
    BY <1>7, <2>5, <2>6, <2>7
  <2>9. buf[rta].len = b /\ d = WordsOf(b)
    BY <2>8 DEF Word, AtAttr
  <2> DEFINE u == c.at[k]
             v == c.at[k + 1]
             z == c.at[n]
  <2>10. WordsOf(b) \in Nat /\ b <= 4 * WordsOf(b)
    BY <2>2, WordsOfFacts DEF WordSize
  <2>11. /\ u \in Nat /\ v \in Nat /\ z \in Nat /\ v = u + d /\ v <= z /\ d \in Nat
         /\ b \in Nat /\ b >= 4 /\ b <= 4 * d /\ s = hw + z /\ rta = nh + (hw + u)
         /\ hw \in Nat /\ s \in Nat /\ nh \in Nat /\ x \in Nat /\ x = nh + s
         /\ rta \in Nat /\ alen = 4 * (x + 4 - rta)
    BY <1>5, <1>7, <1>8, <1>9, <2>2, <2>3, <2>4, <2>7, <2>9, <2>10
  <2> HIDE DEF b, u, v, z
  <2>12. /\ rta + d = nh + hw + v /\ rta + d <= x /\ b <= alen /\ 4 <= alen
    BY <2>11
  <2>13. RtaOk
    BY <2>9, <2>11, <2>12 DEF RtaOk, AttrHdrSize
  <2> QED BY <2>8, <2>11, <2>12, <2>13 DEF b, v
<1>12. ASSUME k >= n, RtaOk
       PROVE  /\ d \in Nat /\ d > 0 /\ p = e /\ buf[rta].of < p
              /\ x + (k - n) <= rta /\ rta + d <= x + 4
  <2> DEFINE b == buf[rta].len
  <2>1. alen >= 4 /\ b >= 4 /\ b <= alen
    BY <1>12 DEF RtaOk, AttrHdrSize
  <2>2. x + (k - n) <= rta
    <3>1. CASE k > n
      BY <1>2, <3>1
    <3>2. CASE k = n
      <4>1. rta = nh + hw + c.at[n]
        BY <1>2, <1>6, <3>2
      <4> DEFINE z == c.at[n]
      <4>2. z \in Nat /\ rta = nh + hw + z /\ s = hw + z
        BY <1>5, <1>6, <4>1
      <4> HIDE DEF z
      <4>3. x + 0 <= rta
        <5>1. hw \in Nat /\ s \in Nat
          BY <1>5
        <5> QED BY <1>7, <4>2, <5>1
      <4>4. k - n = 0
        BY <1>4, <3>2
      <4> QED BY <4>3, <4>4
    <3> QED BY <1>4, <1>6, <1>12, <3>1, <3>2
  <2>3. x <= rta
    <3>1. k \in Nat /\ n \in Nat /\ x \in Nat /\ rta \in Nat
      BY <1>4, <1>6, <1>7, <1>8
    <3> HIDE DEF x
    <3> QED BY <1>12, <2>2, <3>1
  <2>4. rta \in 0 .. Top /\ alen <= 16 /\ x + 4 - rta \in Nat
    <3>1. /\ x \in Nat /\ rta \in Nat /\ alen = 4 * (x + 4 - rta) /\ rta <= x + 4
          /\ alen >= 4 /\ x <= rta /\ x <= BufWords /\ BufWords \in Nat
          /\ Top = BufWords + 3
      BY <1>7, <1>8, <1>9, <2>1, <2>3
    <3> QED BY <3>1
  <2>5. b \in Nat
    BY <2>4 DEF Typed, Words
  <2>6. d \in Nat /\ d > 0 /\ d <= x + 4 - rta
    BY <1>9, <1>10, <2>1, <2>4, <2>5 DEF AtAttr
  <2>7. rta + d <= x + 4
    <3>1. x \in Nat /\ rta \in Nat
      BY <1>7, <1>8
    <3> HIDE DEF x
    <3> QED BY <2>6, <3>1
  <2>8. p = e
    <3> SUFFICES ASSUME p < e PROVE FALSE
      BY <1>1
    <3>1. p + 1 \in 1 .. Len(sent) /\ p + 1 \in p .. e /\ p \in p .. e - 1
      BY <1>1
    <3>2. k = n
      BY <1>2, <1>4, <1>6, <1>12
    <3>3. rta = x
      <4>1. rta = nh + hw + c.at[n]
        BY <1>2, <1>6, <3>2
      <4> DEFINE z == c.at[n]
      <4>2. z \in Nat /\ rta = nh + hw + z /\ s = hw + z
        BY <1>5, <1>6, <4>1
      <4> HIDE DEF z
      <4>3. hw \in Nat /\ s \in Nat
        BY <1>5
      <4> QED BY <1>7, <4>2, <4>3
    <3>4. sent[p + 1].at = x
      BY <1>1, <3>1 DEF InBuffer, x
    <3>5. /\ sent[p + 1] \in Sendable /\ Made(sent[p + 1]) /\ p + 1 \in Nat
          /\ sent[p + 1].nlmsg_len >= 20
          /\ 0 \in 0 .. WordsOf(sent[p + 1].nlmsg_len) - 1
      <4> DEFINE q == sent[p + 1]
                 y == WordsOf(q.nlmsg_len)
                 l == q.nlmsg_len
      <4>1. q \in Sendable /\ Made(q) /\ y \in Nat /\ y >= 5 /\ l = 4 * y
        BY <3>1, SentFacts
      <4>2. l >= 20 /\ 0 \in 0 .. y - 1
        <5>1. y \in Nat /\ y >= 5 /\ l = 4 * y
          BY <4>1
        <5> HIDE DEF y, l
        <5> QED BY <5>1
      <4> QED BY <1>1, <4>1, <4>2
    <3>6. buf[sent[p + 1].at + 0] = Layout(sent[p + 1], p + 1)[0]
      BY <1>1, <3>1, <3>5 DEF InBuffer
    <3>7. Layout(sent[p + 1], p + 1)[0].len = sent[p + 1].nlmsg_len
      BY <3>5, LayoutFacts
    <3>8. b >= 20
      <4>1. sent[p + 1].at + 0 = rta
        BY <1>7, <3>3, <3>4
      <4> QED BY <3>5, <3>6, <3>7, <4>1
    <3>9. alen \in Int /\ alen <= 16 /\ b <= alen /\ b \in Nat
      BY <1>8, <2>1, <2>4, <2>5
    <3> HIDE DEF b
    <3> QED BY <3>8, <3>9
  <2>9. buf[rta].of < p
    <3>1. rta \in x .. Top
      BY <1>7, <2>3, <2>4
    <3> QED BY <1>1, <2>8, <3>1 DEF InBuffer, x
  <2> QED BY <2>2, <2>6, <2>7, <2>8, <2>9
<1> QED BY <1>1, <1>3, <1>4, <1>6, <1>7, <1>8, <1>9, <1>11, <1>12 DEF x, hw

\* EndOfAttributes preserves the invariant: the loop does not end before all
\* attributes of the message are printed.
LEMMA InvEndOfAttributes == Inv /\ EndOfAttributes => Inv'
<1> SUFFICES ASSUME Inv, EndOfAttributes PROVE Inv'
  OBVIOUS
<1>1. PICK p, e \in 0 .. Len(sent) : At(p, e)
  BY DEF Inv
<1>2. /\ Typed /\ Printing /\ pc = "attr" /\ ~RtaOk /\ Advance /\ pc' = "msg"
      /\ UNCHANGED <<prog, fdOk, ret, buf, rta, alen, kernelVars, handled, printed>>
  BY DEF Inv, EndOfAttributes, programVars
<1>3. PICK k, n, d : AtAttr(p, k, n, d)
  BY DEF AtAttr
<1>4. /\ p \in 1 .. Len(sent) /\ e \in p .. Len(sent) /\ InBuffer(p, e)
      /\ k \in Nat /\ n \in Nat /\ k >= n
  BY <1>1, <1>2, <1>3, AttrFacts DEF At
<1>5. sent' = sent /\ buf' = buf /\ P' = P
  BY <1>2 DEF kernelVars, P
<1>6. /\ p = e => ~NlmsgOk'
      /\ p < e => InBuffer(p + 1, e)'
      /\ nh' \in 0 .. BufWords /\ len' \in Nat
  BY <1>2, <1>4, <1>5, AdvanceFacts
<1>7. Reading(p, e)'
  <2>1. /\ \A w \in 0 .. Top : buf'[w].of <= e
        /\ p <= e /\ e <= Len(sent') /\ (p = e \/ p < e)
    BY <1>1, <1>4, <1>5 DEF At, Reading
  <2> QED BY <1>2, <1>6, <2>1 DEF Reading
<1>8. At(p, e)' /\ p \in 0 .. Len(sent)' /\ e \in 0 .. Len(sent)'
  <2>1. InFlight(e)' /\ InOrder(p)'
    BY <1>1, <1>2, MessagesStay DEF At
  <2>2. InLoop(p, e)'
    BY <1>2 DEF InLoop
  <2> QED BY <1>5, <1>7, <2>1, <2>2 DEF At
<1>9. ASSUME NEW i \in 1 .. Len(handled) PROVE PrintedOf(i)'
  <2>1. PrintedOf(i) /\ handled' = handled /\ printed' = printed
    BY <1>2 DEF Printing
  <2>2. i = Len(handled) => Len(printed[i]) >= Len(sent[handled[i]].content.attrs)
    <3>1. handled[Len(handled)] = p
      BY <1>1, <1>2 DEF At, InLoop
    <3> QED BY <1>3, <1>4, <3>1 DEF AtAttr
  <2> QED BY <1>5, <2>1, <2>2 DEF PrintedOf
<1>10. Printing'
  BY <1>2, <1>9 DEF Printing
<1>11. Typed'
  BY <1>2, <1>6 DEF Typed, kernelVars
<1>12. ByProgram' /\ NotYet'
  BY <1>2, <1>5 DEF Inv, ByProgram, NotYet, kernelVars
<1>13. Dumping'
  BY <1>2, DumpingStays DEF Inv
<1> QED BY <1>8, <1>10, <1>11, <1>12, <1>13 DEF Inv

\* What is printed of a message and one thing more.
LEMMA PrintOne ==
  ASSUME NEW ps \in Seq([of : Nat, nr : Nat]), NEW item \in [of : Nat, nr : Nat]
  PROVE  /\ Append(ps, item) \in Seq([of : Nat, nr : Nat])
         /\ Len(Append(ps, item)) = Len(ps) + 1
         /\ Append(ps, item)[Len(ps) + 1] = item
         /\ \A nr \in 1 .. Len(ps) : Append(ps, item)[nr] = ps[nr]
BY AppendProperties

\* ParseRta preserves the invariant: it prints the next attribute of the
\* message, or behind the last one something older.
LEMMA InvParseRta == Inv /\ ParseRta => Inv'
<1> SUFFICES ASSUME Inv, ParseRta PROVE Inv'
  OBVIOUS
<1>1. PICK p, e \in 0 .. Len(sent) : At(p, e)
  BY DEF Inv
<1>2. PICK k, n, d : AtAttr(p, k, n, d)
  BY DEF AtAttr
<1> DEFINE h == Len(handled)
           m == sent[p]
           x == End(p)
           item == [of |-> buf[rta].of, nr |-> buf[rta].nr]
<1>3. /\ Typed /\ Printing /\ pc = "attr" /\ RtaOk
      /\ printed' = [printed EXCEPT ![h] = Append(@, item)]
      /\ rta' = rta + d /\ alen' = alen - Align(buf[rta].len)
      /\ UNCHANGED <<prog, fdOk, pc, ret, buf, len, nh, kernelVars, handled>>
  BY <1>2 DEF Inv, ParseRta, programVars, PrintAttribute, AtAttr
<1>4. /\ p \in 1 .. Len(sent) /\ e \in p .. Len(sent) /\ InBuffer(p, e)
      /\ k \in Nat /\ n \in Nat /\ h \in 1 .. h
      /\ rta \in Nat /\ x \in Nat /\ alen = 4 * (x + 4 - rta) /\ x <= BufWords
      /\ k < n => /\ d \in Nat /\ buf[rta] = Word(m.content.attrs[k + 1], p, k + 1)
                  /\ rta + d = nh + HdrWords(m) + m.content.at[k + 1]
                  /\ rta + d <= x
      /\ k >= n => /\ d \in Nat /\ d > 0 /\ p = e /\ buf[rta].of < p
                   /\ x + (k - n) <= rta /\ rta + d <= x + 4
  BY <1>1, <1>2, <1>3, AttrFacts, SMTT(20) DEF At
<1>5. sent' = sent /\ buf' = buf /\ P' = P /\ \A i : End(i)' = End(i)
  BY <1>3 DEF kernelVars, P, End
<1>6. /\ d \in Nat /\ rta \in 0 .. Top /\ buf[rta] \in Words
      /\ alen' = alen - 4 * d
  <2>1. d \in Nat /\ rta <= x + 4 /\ (k < n \/ k >= n)
    <3>1. rta <= x + 4 /\ k \in Nat /\ n \in Nat
      BY <1>1, <1>2, <1>3, AttrFacts DEF At
    <3>2. k < n \/ k >= n
      BY <3>1
    <3> QED BY <1>4, <3>1, <3>2
  <2>2. alen >= 4 /\ Top = BufWords + 3 /\ BufWords \in Nat
    BY <1>3, TopFacts DEF RtaOk, AttrHdrSize
  <2>3. rta \in 0 .. Top
    <3>1. /\ rta \in Nat /\ x \in Nat /\ alen = 4 * (x + 4 - rta) /\ x <= BufWords
          /\ alen >= 4 /\ Top = BufWords + 3 /\ BufWords \in Nat
      BY <1>4, <2>2
    <3> HIDE DEF x
    <3> QED BY <3>1
  <2>4. buf[rta] \in Words
    BY <1>3, <2>3 DEF Typed
  <2>5. Align(buf[rta].len) = 4 * d
    <3>1. buf[rta].len \in Nat
      BY <2>4 DEF Words
    <3> QED BY <1>2, <3>1, WordsOfFacts DEF AtAttr, WordSize
  <2> QED BY <1>3, <2>1, <2>3, <2>4, <2>5
<1>7. /\ rta' \in 0 .. Top + 1 /\ alen' \in Int /\ alen' >= 0
      /\ 4 * rta' + alen' = 4 * x + 16
  <2>1. rta + d <= x + 4
    <3> HIDE DEF x
    <3> QED BY <1>4, <1>6
  <2>2. /\ rta \in Nat /\ x \in Nat /\ d \in Nat /\ alen = 4 * (x + 4 - rta)
        /\ alen' = alen - 4 * d /\ rta' = rta + d /\ x <= BufWords
        /\ Top = BufWords + 3 /\ BufWords \in Nat
    BY <1>3, <1>4, <1>6, TopFacts
  <2> HIDE DEF x
  <2> QED BY <2>1, <2>2
<1>8. printed[h] \in Seq([of : Nat, nr : Nat]) /\ k = Len(printed[h])
      /\ h \in 1 .. Len(printed) /\ item \in [of : Nat, nr : Nat]
      /\ DOMAIN printed = 1 .. Len(printed) /\ Len(printed) = h
  <2>1. h \in 1 .. Len(printed) /\ printed \in Seq(Seq([of : Nat, nr : Nat]))
    BY <1>3, <1>4 DEF Typed
  <2>2. Len(printed) = h
    BY <1>3 DEF Typed
  <2> QED BY <1>2, <1>6, <2>1, <2>2, ElementOfSeq, LenProperties DEF AtAttr, Words
<1> DEFINE ps == Append(printed[h], item)
<1>9. /\ ps \in Seq([of : Nat, nr : Nat]) /\ Len(ps) = k + 1 /\ ps[k + 1] = item
      /\ \A nr \in 1 .. k : ps[nr] = printed[h][nr]
  <2>1. printed[h] \in Seq([of : Nat, nr : Nat]) /\ item \in [of : Nat, nr : Nat]
    BY <1>8
  <2> HIDE DEF item
  <2>2. /\ ps \in Seq([of : Nat, nr : Nat]) /\ Len(ps) = Len(printed[h]) + 1
        /\ ps[Len(printed[h]) + 1] = item
        /\ \A nr \in 1 .. Len(printed[h]) : ps[nr] = printed[h][nr]
    BY <2>1, PrintOne, ZenonT(40)
  <2> QED BY <1>8, <2>2
<1>10. /\ printed' \in Seq(Seq([of : Nat, nr : Nat])) /\ Len(printed') = Len(printed)
       /\ printed'[h] = ps /\ \A i \in 1 .. h : i # h => printed'[i] = printed[i]
  <2>1. printed' = [printed EXCEPT ![h] = ps]
    BY <1>3
  <2>2. printed \in Seq(Seq([of : Nat, nr : Nat]))
    BY <1>3 DEF Typed
  <2> HIDE DEF ps
  <2>3. printed' \in Seq(Seq([of : Nat, nr : Nat])) /\ Len(printed') = Len(printed)
    BY <1>8, <1>9, <2>1, <2>2, ExceptSeq
  <2> QED BY <1>8, <2>1, <2>3
<1> HIDE DEF ps
<1>11. handled[h] = p /\ m.type \in P.walks
  BY <1>1, <1>3 DEF At, InLoop
<1>12. InLoop(p, e)'
  <2>1. Len(printed'[Len(handled')]) = k + 1 /\ handled' = handled
    BY <1>3, <1>9, <1>10
  <2>2. WordSize * rta' + alen' = WordSize * nh' + m.nlmsg_len + NlmsgHdrSize
    <3> DEFINE s == WordsOf(m.nlmsg_len)
               l == m.nlmsg_len
    <3>1. /\ nh \in Nat /\ s \in Nat /\ l = 4 * s /\ l \in Nat /\ x = nh + s /\ nh' = nh
          /\ 4 * rta' + alen' = 4 * x + 16
      <4>1. s \in Nat /\ l = 4 * s /\ l \in Nat
        BY <1>3, <1>4, SentFacts
      <4>2. nh \in Nat /\ x = nh + s
        BY <1>3, <1>4, BufferFacts
      <4> QED BY <1>3, <1>7, <4>1, <4>2
    <3> DEFINE y == 4 * rta' + alen'
    <3> HIDE DEF s, l, x, y
    <3>2. y = 4 * nh' + l + 16
      BY <3>1 DEF y
    <3> USE DEF y
    <3> QED BY <3>2 DEF l, WordSize, NlmsgHdrSize
  <2>3. k + 1 <= n => rta' = nh' + HdrWords(m) + m.content.at[k + 1]
    BY <1>3, <1>4
  <2>4. k + 1 > n => p = e /\ End(p)' + ((k + 1) - n) <= rta'
    <3> SUFFICES ASSUME k + 1 > n PROVE p = e /\ x + ((k + 1) - n) <= rta'
      BY <1>5
    <3>1. /\ k \in Nat /\ n \in Nat /\ k >= n /\ x \in Nat /\ rta \in Nat
          /\ d \in Nat /\ d > 0 /\ p = e /\ x + (k - n) <= rta /\ rta' = rta + d
      BY <1>3, <1>4
    <3> HIDE DEF x
    <3> QED BY <3>1
  <2>5. h > 0
    BY <1>4
  <2>6. n = Len(m.content.attrs)
    BY <1>2 DEF AtAttr
  <2>7. sent'[p] = m /\ m.type \in P'.walks /\ alen' >= 0 /\ handled'[Len(handled')] = p
        /\ Len(handled') > 0
    BY <1>5, <1>7, <1>11, <2>1, <2>5
  <2> HIDE DEF m, h
  <2> QED BY <2>1, <2>2, <2>3, <2>4, <2>6, <2>7 DEF InLoop
<1>13. Reading(p, e)'
  <2>1. InBuffer(p, e)'
    BY <1>3, <1>4, <1>5 DEF InBuffer
  <2>2. /\ \A w \in 0 .. Top : buf'[w].of <= e
        /\ p <= e /\ e <= Len(sent') /\ p > 0
    BY <1>1, <1>4, <1>5 DEF At, Reading
  <2> QED BY <1>3, <2>1, <2>2 DEF Reading
<1>14. At(p, e)' /\ p \in 0 .. Len(sent)' /\ e \in 0 .. Len(sent)'
  <2>1. InFlight(e)' /\ InOrder(p)'
    BY <1>1, <1>3, MessagesStay DEF At
  <2> QED BY <1>5, <1>12, <1>13, <2>1 DEF At
<1>15. ASSUME NEW i \in 1 .. h, i # h PROVE PrintedOf(i)'
  <2>1. PrintedOf(i)
    BY <1>3 DEF Printing
  <2>2. handled'[i] = handled[i] /\ printed'[i] = printed[i] /\ pc' = pc /\ handled' = handled
    BY <1>3, <1>10, <1>15
  <2> QED BY <1>5, <2>1, <2>2 DEF PrintedOf
<1>16. PrintedOf(h)
  BY <1>3, <1>4 DEF Printing
<1>g. PICK g : g = h
  OBVIOUS
<1>17. PrintedOf(g)'
  <2>1. /\ n = Len(m.content.attrs) /\ k = Len(printed[h])
        /\ \A nr \in 1 .. k :
             IF nr <= n THEN printed[h][nr] = [of |-> p, nr |-> nr] ELSE printed[h][nr].of < p
    BY <1>2, <1>8, <1>11, <1>16 DEF PrintedOf, AtAttr
  <2>2. ASSUME NEW nr \in 1 .. k + 1
        PROVE  IF nr <= n THEN ps[nr] = [of |-> p, nr |-> nr] ELSE ps[nr].of < p
    <3>1. CASE nr \in 1 .. k
      BY <1>9, <2>1, <3>1
    <3>2. CASE nr = k + 1
      <4>1. CASE k < n
        <5>1. item = [of |-> p, nr |-> k + 1] /\ nr <= n
          BY <1>4, <3>2, <4>1, SMTT(20) DEF Word
        <5> QED BY <1>9, <3>2, <5>1
      <4>2. CASE k >= n
        <5>1. item.of < p /\ ~(nr <= n)
          BY <1>4, <3>2, <4>2
        <5> QED BY <1>9, <3>2, <5>1
      <4> QED BY <1>4, <4>1, <4>2
    <3> QED BY <1>4, <3>1, <3>2
  <2>3. k + 1 <= n + 4
    <3>1. CASE k < n
      BY <1>4, <3>1
    <3>2. CASE k >= n
      <4>1. /\ k \in Nat /\ n \in Nat /\ x \in Nat /\ rta \in Nat /\ d \in Nat /\ d > 0
            /\ x + (k - n) <= rta /\ rta + d <= x + 4
        BY <1>4, <3>2
      <4> HIDE DEF x
      <4> QED BY <4>1
    <3> QED BY <1>4, <3>1, <3>2
  <2>4. /\ handled'[g] = p /\ printed'[g] = ps /\ sent'[p] = m /\ P' = P
        /\ m.type \in P.walks /\ pc' = "attr" /\ g = Len(handled')
    BY <1>3, <1>5, <1>10, <1>11, <1>g
  <2>5. Len(printed'[g]) = k + 1 /\ Len(sent'[handled'[g]].content.attrs) = n
    BY <1>9, <2>1, <2>4
  <2> HIDE DEF m, h
  <2>6. \A nr \in 1 .. Len(printed'[g]) :
          IF nr <= n THEN printed'[g][nr] = [of |-> p, nr |-> nr] ELSE printed'[g][nr].of < p
    BY <2>2, <2>4, <2>5, Zenon
  <2>7. Len(printed'[g]) <= n + NlmsgHdrSize \div AttrHdrSize
    BY <2>3, <2>5, HeaderAttrs
  <2>8. sent'[handled'[g]].type \in P'.walks
    BY <2>4
  <2> HIDE DEF ps
  <2> QED BY <2>4, <2>5, <2>6, <2>7, <2>8, Zenon DEF PrintedOf
<1>18. Printing'
  BY <1>3, <1>15, <1>17, <1>g DEF Printing
<1>19. Typed'
  BY <1>3, <1>7, <1>10 DEF Typed, kernelVars
<1>20. ByProgram' /\ NotYet'
  BY <1>3, <1>5 DEF Inv, ByProgram, NotYet, kernelVars
<1>21. Dumping'
  BY <1>3, DumpingStays DEF Inv
<1> QED BY <1>14, <1>18, <1>19, <1>20, <1>21 DEF Inv

-----------------------------------------------------------------------------
(* The steps of the kernel.                                                *)

\* What is left to show of a step of the kernel: where the messages are.
LEMMA KernelStep ==
  ASSUME Inv, Grows,
         UNCHANGED <<prog, pc, buf, len, nh, rta, alen, handled, printed>>,
         NEW p \in 0 .. Len(sent), NEW e \in 0 .. Len(sent), At(p, e),
         InFlight(e)', InOrder(p)'
  PROVE  Printing' /\ \E q, f \in 0 .. Len(sent)' : At(q, f)'
<1>1. Printing' /\ At(p, e)'
  BY ProgramStays DEF Inv, At
<1>2. p \in 0 .. Len(sent)' /\ e \in 0 .. Len(sent)'
  <2>1. Len(sent) \in Nat /\ Len(sent') \in Nat /\ Len(sent) <= Len(sent')
    BY LenProperties DEF Grows, Inv, Typed
  <2> QED BY <2>1
<1> QED BY <1>1, <1>2

\* A monitor asks for no dump.
LEMMA NoDump ==
  ASSUME Typed, ByProgram', P' = P, prog' # "getlinks", prog' = prog, ret' # 1
  PROVE  Dumping'
<1>1. P.events \subseteq LinkEvents \union AddrEvents
  BY ParameterFacts DEF Typed
<1>2. \A i \in 1 .. Len(sent') : sent'[i].link = 0 /\ sent'[i].type # "done"
  BY <1>1 DEF ByProgram, LinkEvents, AddrEvents
<1>3. next' = 0
  BY DEF ByProgram
<1> QED BY <1>2, <1>3 DEF Dumping

\* An event is one a monitor asked for.
LEMMA EventFacts ==
  ASSUME Inv, NEW type \in P.events, fdOk, pc # "exit",
         NEW content \in Contents \union {NoContent},
         NEW m, m = Message(type, 0, content, 0)
  PROVE  /\ m \in Sendable /\ Made(m) /\ m.at = 0 /\ m.link = 0 /\ m.type = type
         /\ prog # "getlinks" /\ skb = 0 /\ next = 0
         /\ ret # 1 /\ pc \notin {"create", "request"}
<1>1. prog \in Programs
  BY DEF Inv, Typed
<1>2. P.events \subseteq LinkEvents \union AddrEvents /\ prog # "getlinks"
  BY <1>1, ParameterFacts
<1>3. type \in Types
  BY <1>2 DEF Types
<1>4. 0 \in 0 .. MaxLinks /\ 0 \in Nat
  BY SizesAssumption
<1>5. m \in Sendable /\ Made(m)
  BY <1>3, <1>4, MessageIsMade
<1>6. m.at = 0 /\ m.link = 0 /\ m.type = type
  BY DEF Message
<1>7. skb = 0 /\ next = 0
  BY <1>2 DEF Inv, ByProgram
<1>8. ret # 1
  BY DEF Inv, Dumping
<1>9. pc \notin {"create", "request"}
  BY <1>2 DEF Inv, NotYet, ByProgram
<1> QED BY <1>2, <1>5, <1>6, <1>7, <1>8, <1>9

\* Notify preserves the invariant: an event is a datagram of its own.
LEMMA InvNotify == Inv /\ Notify => Inv'
<1> SUFFICES ASSUME Inv, Notify PROVE Inv'
  OBVIOUS
<1>1. PICK p, e \in 0 .. Len(sent) : At(p, e)
  BY DEF Inv
<1>2. PICK type \in P.events, content \in Contents : Emit(Message(type, 0, content, 0))
  BY DEF Notify
<1>3. PICK m : m = Message(type, 0, content, 0)
  OBVIOUS
<1>4. /\ m \in Sendable /\ Made(m) /\ m.at = 0 /\ m.link = 0 /\ m.type = type
      /\ prog # "getlinks" /\ skb = 0 /\ next = 0
      /\ ret # 1 /\ pc \notin {"create", "request"}
  BY <1>2, <1>3, EventFacts DEF Notify
<1>5. /\ Typed /\ Emit(m) /\ ~overrun /\ Len(queue) < QueueSize /\ Len(sent) < MaxEvents
      /\ queue' = Append(queue, Messages(Len(sent'), Len(sent')))
      /\ UNCHANGED <<prog, fdOk, pc, ret, buf, len, nh, rta, alen, overrun, skb, next,
                     links, changes, stable, handled, printed>>
  BY <1>2, <1>3 DEF Inv, Notify, programVars
<1>6. /\ Grows /\ sent' \in Seq(Sendable) /\ Len(sent') = Len(sent) + 1
      /\ sent'[Len(sent) + 1] = m /\ due' \in Seq(Nat)
      /\ \A i \in 1 .. Len(sent') : Made(sent'[i])
  BY <1>4, <1>5, EmitFacts
<1>7. PICK last : last = Len(sent) + 1
  OBVIOUS
<1>8. InDatagram(last, last)' /\ last \in Nat /\ last = Len(sent')
  BY <1>4, <1>5, <1>6, <1>7, AloneInDatagram DEF Grows
<1>9. last = LastQueued(e) + 1
  BY <1>1, <1>4, <1>5, <1>7 DEF At, InFlight
<1>10. InFlight(e)' /\ queue' \in Seq([first : Nat, last : Nat]) /\ Len(queue') = Len(queue) + 1
  BY <1>1, <1>4, <1>5, <1>6, <1>8, <1>9, Enqueued DEF At
<1>11. InOrder(p)'
  BY <1>1, <1>4, <1>5, EmitInOrder DEF At
<1>12. Printing' /\ \E q, f \in 0 .. Len(sent)' : At(q, f)'
  BY <1>1, <1>5, <1>6, <1>10, <1>11, KernelStep
<1>13. Len(sent) \in Nat /\ Len(queue) \in Nat /\ MaxEvents \in Nat /\ QueueSize \in Nat
  BY <1>5, SizesAssumption, LenProperties DEF Typed
<1>14. Typed'
  <2>1. Len(queue') <= QueueSize
    BY <1>5, <1>10, <1>13
  <2> QED BY <1>5, <1>6, <1>10, <2>1 DEF Typed
<1>15. P' = P
  BY <1>5 DEF P
<1>16. ByProgram'
  <2>1. \A i \in 1 .. Len(sent') : sent'[i].type \in P.events /\ sent'[i].link = 0
    <3>1. \A i \in 1 .. Len(sent') : i \in 1 .. Len(sent) \/ i = Len(sent) + 1
      BY <1>6, <1>13
    <3> QED BY <1>4, <1>6, <3>1 DEF Grows, Inv, ByProgram
  <2>2. Len(sent') <= MaxEvents
    BY <1>5, <1>6, <1>13
  <2> QED BY <1>4, <1>5, <1>15, <2>1, <2>2 DEF ByProgram
<1>17. NotYet'
  BY <1>4, <1>5 DEF NotYet
<1>18. Dumping'
  BY <1>4, <1>5, <1>15, <1>16, NoDump
<1> QED BY <1>12, <1>14, <1>16, <1>17, <1>18 DEF Inv

\* NotifyLost preserves the invariant: what is lost comes after what is queued.
LEMMA InvNotifyLost == Inv /\ NotifyLost => Inv'
<1> SUFFICES ASSUME Inv, NotifyLost PROVE Inv'
  OBVIOUS
<1>1. PICK p, e \in 0 .. Len(sent) : At(p, e)
  BY DEF Inv
<1>2. PICK type \in P.events : Emit(Message(type, 0, NoContent, 0))
  BY DEF NotifyLost
<1>3. PICK m : m = Message(type, 0, NoContent, 0)
  OBVIOUS
<1>4. /\ m \in Sendable /\ Made(m) /\ m.at = 0 /\ m.link = 0 /\ m.type = type
      /\ prog # "getlinks" /\ skb = 0 /\ next = 0
      /\ ret # 1 /\ pc \notin {"create", "request"}
  BY <1>2, <1>3, EventFacts DEF NotifyLost
<1>5. /\ Typed /\ Emit(m) /\ overrun' = TRUE /\ Len(sent) < MaxEvents
      /\ UNCHANGED <<prog, fdOk, pc, ret, buf, len, nh, rta, alen, queue, skb, next,
                     links, changes, stable, handled, printed>>
  BY <1>2, <1>3 DEF Inv, NotifyLost, programVars
<1>6. /\ Grows /\ sent' \in Seq(Sendable) /\ Len(sent') = Len(sent) + 1
      /\ sent'[Len(sent) + 1] = m /\ due' \in Seq(Nat)
      /\ \A i \in 1 .. Len(sent') : Made(sent'[i])
  BY <1>4, <1>5, EmitFacts
<1>7. InFlight(e)'
  BY <1>1, <1>4, <1>5, <1>6, InFlightStays DEF At
<1>8. InOrder(p)'
  BY <1>1, <1>4, <1>5, EmitInOrder DEF At
<1>9. Printing' /\ \E q, f \in 0 .. Len(sent)' : At(q, f)'
  BY <1>1, <1>5, <1>6, <1>7, <1>8, KernelStep
<1>10. Len(sent) \in Nat /\ MaxEvents \in Nat
  BY <1>5, SizesAssumption, LenProperties DEF Typed
<1>11. Typed'
  BY <1>5, <1>6 DEF Typed
<1>12. P' = P
  BY <1>5 DEF P
<1>13. ByProgram'
  <2>1. \A i \in 1 .. Len(sent') : sent'[i].type \in P.events /\ sent'[i].link = 0
    <3>1. \A i \in 1 .. Len(sent') : i \in 1 .. Len(sent) \/ i = Len(sent) + 1
      BY <1>6, <1>10
    <3> QED BY <1>4, <1>6, <3>1 DEF Grows, Inv, ByProgram
  <2>2. Len(sent') <= MaxEvents
    BY <1>5, <1>6, <1>10
  <2> QED BY <1>4, <1>5, <1>12, <2>1, <2>2 DEF ByProgram
<1>14. NotYet'
  BY <1>4, <1>5 DEF NotYet
<1>15. Dumping'
  BY <1>4, <1>5, <1>12, <1>13, NoDump
<1> QED BY <1>9, <1>11, <1>13, <1>14, <1>15 DEF Inv

\* Before the request there is nothing.
LEMMA NothingYet ==
  ASSUME Inv, pc \in {"create", "request"},
         NEW p \in 0 .. Len(sent), NEW e \in 0 .. Len(sent), At(p, e)
  PROVE  /\ sent = <<>> /\ queue = <<>> /\ skb = 0 /\ next = 0 /\ ~overrun
         /\ p = 0 /\ e = 0 /\ Len(sent) = 0 /\ Len(queue) = 0 /\ LastQueued(0) = 0
         /\ Len(handled) = 0 /\ ret # 1
<1>1. sent = <<>> /\ queue = <<>> /\ skb = 0 /\ next = 0 /\ ~overrun
  BY DEF Inv, NotYet
<1>2. Len(sent) = 0 /\ Len(queue) = 0
  BY <1>1, EmptySeq
<1>3. p = 0 /\ e = 0
  BY <1>2
<1>4. Len(handled) = 0
  <2>1. Len(due) \in Nat /\ Len(handled) \in Nat /\ Len(handled) <= Len(due)
    BY LenProperties DEF Inv, Typed, At, InOrder
  <2>2. ~(1 \in 1 .. Len(due))
    BY <1>2 DEF At, InOrder
  <2> QED BY <2>1, <2>2
<1>5. LastQueued(0) = 0
  BY <1>1 DEF LastQueued
<1>6. ret # 1
  BY DEF Inv, Dumping
<1> QED BY <1>1, <1>2, <1>3, <1>4, <1>5, <1>6

\* SendRequest preserves the invariant: the answer is the first thing sent.
LEMMA InvSendRequest == Inv /\ SendRequest => Inv'
<1> SUFFICES ASSUME Inv, SendRequest PROVE Inv'
  OBVIOUS
<1>1. PICK p, e \in 0 .. Len(sent) : At(p, e)
  BY DEF Inv
<1>2. /\ Typed /\ ByProgram /\ pc = "request" /\ pc' = "recv" /\ prog = "getlinks"
      /\ UNCHANGED <<prog, fdOk, ret, buf, len, nh, rta, alen, overrun, skb, links,
                     changes, handled, printed>>
  BY DEF Inv, SendRequest, programVars, ByProgram
<1>3. /\ sent = <<>> /\ queue = <<>> /\ skb = 0 /\ next = 0 /\ ~overrun
      /\ p = 0 /\ e = 0 /\ Len(sent) = 0 /\ Len(queue) = 0 /\ LastQueued(0) = 0
      /\ Len(handled) = 0 /\ ret # 1
  BY <1>1, <1>2, NothingYet
<1>4. Printing'
  BY <1>2, <1>3 DEF Printing
<1>5. ASSUME Len(sent') \in Nat PROVE Reading(0, 0)' /\ InLoop(0, 0)'
  <2>1. \A w \in 0 .. Top : buf'[w].of <= 0
    BY <1>1, <1>2, <1>3 DEF At, Reading
  <2>2. 0 <= Len(sent')
    BY <1>5
  <2> QED BY <1>2, <2>1, <2>2 DEF Reading, InLoop
<1>6. NotYet'
  BY <1>2 DEF NotYet
<1>7. CASE UNCHANGED <<sent, due, queue, next, stable>>
  <2>1. kernelVars' = kernelVars
    BY <1>2, <1>7 DEF kernelVars
  <2>2. ret' \in {-1, 0, 1} /\ fdOk' \in BOOLEAN
    BY <1>2 DEF Typed
  <2> QED BY <1>1, <1>2, <1>3, <2>1, <2>2, InvIdle
<1>8. CASE next' = 1 /\ stable' = links /\ UNCHANGED <<sent, due, queue>>
  <2>1. Grows
    BY <1>3, <1>8 DEF Grows
  <2>2. InFlight(0)'
    BY <1>1, <1>2, <1>3, <1>8, <2>1, InFlightStays DEF At
  <2>3. InOrder(0)'
    BY <1>1, <1>2, <1>3, <1>8 DEF At, InOrder, Deliverable
  <2>4. At(0, 0)' /\ 0 \in 0 .. Len(sent)'
    BY <1>3, <1>5, <1>8, <2>2, <2>3 DEF At
  <2>5. Typed'
    <3>1. 1 \in 0 .. MaxLinks + 1
      BY SizesAssumption
    <3> QED BY <1>2, <1>8, <3>1 DEF Typed
  <2>6. ByProgram'
    BY <1>2, <1>8 DEF ByProgram
  <2>7. Dumping'
    <3>1. \A i \in 1 .. Len(sent') : FALSE
      BY <1>3, <1>8
    <3>2. \A l \in stable' : ~(l < next')
      <4>1. links \subseteq 1 .. MaxLinks
        BY <1>2 DEF Typed
      <4> QED BY <1>8, <4>1
    <3>3. Len(sent') < next' /\ stable' \subseteq links' /\ ret' # 1
      BY <1>2, <1>3, <1>8
    <3> QED BY <3>1, <3>2, <3>3 DEF Dumping
  <2> QED BY <1>4, <1>6, <2>4, <2>5, <2>6, <2>7 DEF Inv
<1>9. CASE /\ Emit(Message("error", 0, NoContent, 0))
           /\ queue' = Append(queue, Messages(Len(sent'), Len(sent')))
           /\ UNCHANGED <<next, stable>>
  <2>1. PICK m : m = Message("error", 0, NoContent, 0)
    OBVIOUS
  <2>2. m \in Sendable /\ Made(m) /\ m.at = 0 /\ m.link = 0 /\ m.type = "error"
    <3>1. "error" \in Types /\ 0 \in 0 .. MaxLinks /\ 0 \in Nat
      BY SizesAssumption DEF Types
    <3>2. m \in Sendable /\ Made(m)
      BY <2>1, <3>1, MessageIsMade
    <3> QED BY <2>1, <3>2 DEF Message
  <2>3. /\ Grows /\ sent' \in Seq(Sendable) /\ Len(sent') = 1
        /\ sent'[1] = m /\ due' \in Seq(Nat)
        /\ \A i \in 1 .. Len(sent') : Made(sent'[i])
    <3>1. Emit(m) /\ Len(sent) + 1 = 1
      BY <1>3, <1>9, <2>1
    <3> QED BY <1>2, <1>3, <2>2, <3>1, EmitFacts
  <2>4. InDatagram(1, 1)'
    BY <1>2, <1>3, <1>9, <2>1, <2>2, AloneInDatagram
  <2>5. InFlight(0)' /\ queue' \in Seq([first : Nat, last : Nat]) /\ Len(queue') = 1
    <3>1. InFlight(0) /\ 0 \in 0 .. Len(sent)
      BY <1>1, <1>3 DEF At
    <3>2. queue' = Append(queue, Messages(1, 1)) /\ 1 = LastQueued(0) + 1 /\ skb' = 0
      BY <1>2, <1>3, <1>9, <2>3
    <3>3. Len(queue) + 1 = 1
      BY <1>3
    <3>4. /\ InFlight(0)' /\ queue' \in Seq([first : Nat, last : Nat])
          /\ Len(queue') = Len(queue) + 1
      BY <1>2, <2>3, <2>4, <3>1, <3>2, Enqueued
    <3> QED BY <3>3, <3>4
  <2>6. InOrder(0)'
    <3>1. InOrder(0) /\ 0 \in 0 .. Len(sent) /\ Emit(m) /\ handled' = handled
      BY <1>1, <1>2, <1>3, <1>9, <2>1 DEF At
    <3> QED BY <1>2, <2>2, <3>1, EmitInOrder
  <2>7. At(0, 0)' /\ 0 \in 0 .. Len(sent)'
    BY <1>5, <2>3, <2>5, <2>6 DEF At
  <2>8. Typed'
    <3>1. Len(queue') <= QueueSize
      BY <2>5, SizesAssumption
    <3> QED BY <1>2, <1>9, <2>3, <2>5, <3>1 DEF Typed
  <2>9. \A i \in 1 .. Len(sent') : i = 1
    BY <2>3
  <2>10. ByProgram'
    BY <1>2, <1>3, <2>2, <2>3, <2>9 DEF ByProgram
  <2>11. Dumping'
    <3>1. \A i \in 1 .. Len(sent') : sent'[i].link = 0 /\ sent'[i].type # "done"
      BY <2>2, <2>3, <2>9
    <3>2. next' = 0 /\ ret' # 1
      BY <1>2, <1>3, <1>9
    <3> QED BY <3>1, <3>2 DEF Dumping
  <2> QED BY <1>4, <1>6, <2>7, <2>8, <2>10, <2>11 DEF Inv
<1> QED BY <1>7, <1>8, <1>9 DEF SendRequest

\* A dump is one that get-links asked for.
LEMMA DumpFacts ==
  ASSUME Inv, next # 0 \/ skb # 0
  PROVE  /\ prog = "getlinks" /\ ~overrun /\ pc \notin {"create", "request"}
         /\ pc # "exit" => ret # 1
         /\ next # 0 => ret # 1
         /\ P.stop
<1>1. prog = "getlinks" /\ ~overrun
  BY DEF Inv, ByProgram
<1>2. pc \notin {"create", "request"}
  BY DEF Inv, NotYet
<1>3. (pc # "exit" => ret # 1) /\ (next # 0 => ret # 1)
  BY DEF Inv, Dumping
<1>4. P.stop
  BY <1>1, ParameterFacts DEF Inv, Typed
<1> QED BY <1>1, <1>2, <1>3, <1>4

\* Where the datagram being filled begins, and where it ends.
LEMMA SkbFacts ==
  ASSUME Inv, next # 0, NEW e \in 0 .. Len(sent), InFlight(e)
  PROVE  SkbFirst = LastQueued(e) + 1 /\ SkbFirst \in Nat /\ SkbWords \in Nat
         /\ SkbFirst # 0 /\ (skb # 0 => InDatagram(skb, Len(sent)))
<1>1. Typed /\ ~overrun
  BY DumpFacts DEF Inv
<1>2. /\ LastQueued(e) \in 0 .. Len(sent) /\ Len(sent) \in Nat
      /\ skb # 0 => InDatagram(skb, Len(sent))
  BY <1>1, QueueFacts, LenProperties DEF Typed
<1>3. SkbFirst = LastQueued(e) + 1
  BY <1>1 DEF InFlight, SkbFirst
<1>4. SkbWords \in Nat
  <2>1. CASE skb = 0
    BY <2>1 DEF SkbWords
  <2>2. CASE skb # 0
    <3>1. Len(sent) \in 1 .. Len(sent)
      <4>1. skb \in 1 .. Len(sent)
        BY <1>2, <2>2 DEF InDatagram
      <4> QED BY <1>2, <4>1
    <3> QED BY <1>1, <2>2, <3>1, SentFacts DEF SkbWords
  <2> QED BY <2>1, <2>2
<1> QED BY <1>2, <1>3, <1>4

\* What the dump sends is a message of the datagram being filled, and fits.
LEMMA DumpedFacts ==
  ASSUME Inv, next # 0, NEW e \in 0 .. Len(sent), InFlight(e),
         NEW type \in {"newlink", "done"}, NEW link \in 0 .. MaxLinks,
         NEW content \in Contents \union {NoContent},
         NEW m, m = Message(type, link, content, SkbWords), FitsSkb(m), Emit(m)
  PROVE  /\ m \in Sendable /\ Made(m) /\ m.link = link /\ m.type = type
         /\ m.nlmsg_len <= BufWords * WordSize
         /\ Grows /\ sent' \in Seq(Sendable) /\ Len(sent') = Len(sent) + 1
         /\ sent'[Len(sent) + 1] = m /\ due' \in Seq(Nat)
         /\ \A i \in 1 .. Len(sent') : Made(sent'[i])
         /\ \E first, last \in Nat :
              /\ first = SkbFirst /\ last = Len(sent') /\ InDatagram(first, last)'
<1>1. SkbWords \in Nat /\ SkbFirst \in Nat /\ (skb # 0 => InDatagram(skb, Len(sent)))
  BY SkbFacts
<1>2. Typed
  BY DEF Inv
<1>3. m \in Sendable /\ Made(m)
  <2>1. type \in Types
    BY DEF Types, LinkEvents
  <2> QED BY <1>1, <2>1, MessageIsMade
<1>4. m.link = link /\ m.type = type /\ m.at = SkbWords
  BY DEF Message
<1>5. m.nlmsg_len <= BufWords * WordSize
  <2> DEFINE l == m.nlmsg_len
             w == SkbWords
  <2>1. l + w * 4 <= BufWords * 4 /\ l \in Nat /\ w \in Nat /\ BufWords \in Nat
    BY <1>1, <1>3, SizesAssumption, MessageFacts DEF FitsSkb, WordSize
  <2> HIDE DEF l, w
  <2>2. l <= BufWords * 4
    BY <2>1
  <2> QED BY <2>2 DEF l, WordSize
<1>6. /\ Grows /\ sent' \in Seq(Sendable) /\ Len(sent') = Len(sent) + 1
      /\ sent'[Len(sent) + 1] = m /\ due' \in Seq(Nat)
      /\ \A i \in 1 .. Len(sent') : Made(sent'[i])
  BY <1>2, <1>3, EmitFacts
<1>7. PICK first, last : first = SkbFirst /\ last = Len(sent) + 1
  OBVIOUS
<1>8. InDatagram(first, last)'
  BY <1>1, <1>2, <1>3, <1>4, <1>7, SkbGrows
<1>9. first \in Nat /\ last \in Nat /\ last = Len(sent')
  BY <1>1, <1>6, <1>7 DEF Grows
<1> QED BY <1>3, <1>4, <1>5, <1>6, <1>7, <1>8, <1>9

\* DumpLink preserves the invariant: the links are sent in order, those that
\* have been there all the time among them.
LEMMA InvDumpLink == Inv /\ DumpLink => Inv'
<1> SUFFICES ASSUME Inv, DumpLink PROVE Inv'
  OBVIOUS
<1>1. PICK p, e \in 0 .. Len(sent) : At(p, e)
  BY DEF Inv
<1>2. /\ Typed /\ ByProgram /\ Dumping /\ pc # "exit" /\ next \in 1 .. MaxLinks
      /\ next' = next + 1
      /\ UNCHANGED <<prog, fdOk, pc, ret, buf, len, nh, rta, alen, queue, overrun,
                     links, changes, stable, handled, printed>>
  BY DEF Inv, DumpLink, programVars
<1>3. next # 0 /\ next \in Nat /\ MaxLinks \in Nat /\ Len(sent) \in Nat
  BY <1>2, SizesAssumption, LenProperties DEF Typed
<1>4. /\ prog = "getlinks" /\ ~overrun /\ pc \notin {"create", "request"} /\ ret # 1
  BY <1>2, <1>3, DumpFacts
<1>5. NotYet'
  BY <1>2, <1>4 DEF NotYet
<1>6. /\ stable \subseteq links /\ Len(sent) < next
      /\ \A i \in 1 .. Len(sent) : sent[i].link < next /\ sent[i].type # "done"
      /\ \A l \in stable : l < next => Sent(l)
      /\ \A i, j \in 1 .. Len(sent) :
           i < j /\ sent[i].link # 0 /\ sent[j].link # 0 => sent[i].link < sent[j].link
      /\ \A i \in 1 .. Len(sent) : sent[i].link # 0 => Deliverable(sent[i])
      /\ \A i \in 1 .. Len(sent) : sent[i].link \in Nat
  <2>1. \A i \in 1 .. Len(sent) : sent[i].link \in Nat
    BY <1>2, SentFacts DEF Sendable
  <2> QED BY <1>2, <1>3, <2>1 DEF Dumping
<1>7. next' \in 0 .. MaxLinks + 1 /\ next' # 0
  BY <1>2, <1>3
<1>8. CASE next \notin links /\ UNCHANGED <<sent, due, skb>>
  <2>1. Grows
    BY <1>3, <1>8 DEF Grows
  <2>2. InFlight(e)' /\ InOrder(p)'
    <3>1. InFlight(e)'
      BY <1>1, <1>2, <1>8, <2>1, InFlightStays DEF At
    <3> QED BY <1>1, <1>2, <1>8, <3>1 DEF At, InOrder, Deliverable
  <2>3. Printing' /\ \E q, f \in 0 .. Len(sent)' : At(q, f)'
    BY <1>1, <1>2, <2>1, <2>2, KernelStep
  <2>4. Typed'
    BY <1>2, <1>7, <1>8 DEF Typed
  <2>5. ByProgram'
    BY <1>2, <1>4, <1>8 DEF ByProgram
  <2>6. Dumping'
    <3>1. \A l \in stable : l < next + 1 => Sent(l)
      <4>1. \A l \in stable : l \in Nat /\ l # next
        BY <1>2, <1>6, <1>8 DEF Typed
      <4> QED BY <1>3, <1>6, <4>1
    <3>2. Len(sent) < next + 1 /\ \A i \in 1 .. Len(sent) : sent[i].link < next + 1
      BY <1>3, <1>6
    <3>3. \A l : Sent(l)' <=> Sent(l)
      BY <1>8 DEF Sent
    <3> QED BY <1>2, <1>4, <1>6, <1>7, <1>8, <3>1, <3>2, <3>3 DEF Dumping, Deliverable
  <2> QED BY <1>5, <2>3, <2>4, <2>5, <2>6 DEF Inv
<1>9. CASE /\ next \in links /\ skb' = SkbFirst
           /\ \E content \in Contents :
                LET m == Message("newlink", next, content, SkbWords)
                IN  FitsSkb(m) /\ Emit(m)
  <2>1. PICK content \in Contents :
          LET m == Message("newlink", next, content, SkbWords)
          IN  FitsSkb(m) /\ Emit(m)
    BY <1>9
  <2>2. PICK m : m = Message("newlink", next, content, SkbWords) /\ FitsSkb(m) /\ Emit(m)
    BY <2>1
  <2>3. InFlight(e) /\ next \in 0 .. MaxLinks
    BY <1>1, <1>2, <1>3 DEF At
  <2>4. /\ m \in Sendable /\ Made(m) /\ m.link = next /\ m.type = "newlink"
        /\ m.nlmsg_len <= BufWords * WordSize
        /\ Grows /\ sent' \in Seq(Sendable) /\ Len(sent') = Len(sent) + 1
        /\ sent'[Len(sent) + 1] = m /\ due' \in Seq(Nat)
        /\ \A i \in 1 .. Len(sent') : Made(sent'[i])
        /\ \E first, last \in Nat :
             /\ first = SkbFirst /\ last = Len(sent') /\ InDatagram(first, last)'
    BY <1>3, <2>2, <2>3, DumpedFacts
  <2>5. PICK first, last \in Nat :
          first = SkbFirst /\ last = Len(sent') /\ InDatagram(first, last)'
    BY <2>4
  <2>6. SkbFirst = LastQueued(e) + 1 /\ SkbFirst \in Nat /\ SkbFirst # 0
    BY <1>3, <2>3, SkbFacts
  <2>7. InFlight(e)'
    <3>1. ASSUME NEW f \in Nat, NEW l \in Nat, OnTheWay(f, l)' PROVE InDatagram(f, l)'
      <4>1. CASE \E j \in 1 .. Len(queue) : queue[j] = Messages(f, l)
        <5>1. OnTheWay(f, l)
          BY <4>1 DEF OnTheWay
        <5>2. InDatagram(f, l)
          BY <2>3, <5>1 DEF InFlight
        <5> QED BY <1>2, <2>4, <5>2, DatagramsStay
      <4>2. CASE f = skb' /\ l = Len(sent')
        <5>1. f = first /\ l = last
          BY <1>9, <2>5, <4>2
        <5> QED BY <2>5, <5>1
      <4> QED BY <1>2, <3>1, <4>1, <4>2 DEF OnTheWay, Messages
    <3>2. LastQueued(e)' = LastQueued(e)
      BY <1>2 DEF LastQueued
    <3> QED BY <1>2, <1>9, <2>3, <2>6, <3>1, <3>2 DEF InFlight
  <2>8. InOrder(p)'
    BY <1>1, <1>2, <2>2, <2>4, EmitInOrder DEF At
  <2>9. Printing' /\ \E q, f \in 0 .. Len(sent)' : At(q, f)'
    BY <1>1, <1>2, <2>4, <2>7, <2>8, KernelStep
  <2>10. Typed'
    BY <1>2, <1>7, <1>9, <2>4, <2>6 DEF Typed
  <2>11. \A i \in 1 .. Len(sent') : i \in 1 .. Len(sent) \/ i = Len(sent) + 1
    BY <1>3, <2>4
  <2>12. \A i \in 1 .. Len(sent) : sent'[i] = sent[i]
    BY <2>4 DEF Grows
  <2>13. ByProgram'
    <3>1. \A i \in 1 .. Len(sent') : sent'[i].type \in {"newlink", "done", "error"}
      BY <1>2, <1>4, <2>4, <2>11, <2>12 DEF ByProgram
    <3> QED BY <1>2, <1>4, <3>1 DEF ByProgram
  <2>14. Dumping'
    <3>1. ASSUME NEW l \in stable, l < next + 1
          PROVE  Sent(l)'
      <4>1. CASE l < next
        <5>1. PICK i \in 1 .. Len(sent) : sent[i].link = l
          BY <1>6, <4>1 DEF Sent
        <5>2. i \in 1 .. Len(sent')
          BY <1>3, <2>4
        <5> QED BY <2>12, <5>1, <5>2 DEF Sent
      <4>2. CASE l = next
        <5>1. Len(sent) + 1 \in 1 .. Len(sent')
          BY <1>3, <2>4
        <5> QED BY <2>4, <4>2, <5>1 DEF Sent
      <4>3. l \in Nat
        BY <1>2 DEF Typed
      <4> QED BY <1>3, <3>1, <4>1, <4>2, <4>3
    <3>2. Len(sent') < next + 1
      BY <1>3, <1>6, <2>4
    <3>3. \A i \in 1 .. Len(sent') : sent'[i].link < next + 1 /\ sent'[i].type # "done"
      <4> TAKE i \in 1 .. Len(sent')
      <4>1. CASE i = Len(sent) + 1
        BY <1>3, <2>4, <4>1
      <4>2. CASE i \in 1 .. Len(sent)
        <5>1. sent'[i] = sent[i] /\ sent[i].link < next /\ sent[i].link \in Nat
          BY <1>6, <2>12, <4>2
        <5>2. sent[i].type # "done"
          BY <1>6, <4>2
        <5> DEFINE l == sent[i].link
        <5>3. l \in Nat /\ l < next
          BY <5>1
        <5> HIDE DEF l
        <5>4. l < next + 1
          BY <1>3, <5>3
        <5> QED BY <5>1, <5>2, <5>4 DEF l
      <4> QED BY <2>11, <4>1, <4>2
    <3>4. ASSUME NEW i \in 1 .. Len(sent'), NEW j \in 1 .. Len(sent'), i < j,
                 sent'[i].link # 0, sent'[j].link # 0
          PROVE  sent'[i].link < sent'[j].link
      <4>1. i \in 1 .. Len(sent)
        BY <1>3, <2>4, <3>4
      <4>2. CASE j = Len(sent) + 1
        BY <1>6, <2>4, <2>12, <4>1, <4>2
      <4>3. CASE j \in 1 .. Len(sent)
        BY <1>6, <2>12, <3>4, <4>1, <4>3
      <4> QED BY <2>11, <4>2, <4>3
    <3>5. \A i \in 1 .. Len(sent') : sent'[i].link # 0 => Deliverable(sent'[i])
      <4>1. Deliverable(m)
        BY <2>4 DEF Deliverable
      <4> QED BY <1>6, <2>4, <2>11, <2>12, <4>1
    <3>6. \A i \in 1 .. Len(sent') : sent'[i].link # 0 => Deliverable(sent[i])'
      BY <3>5 DEF Deliverable
    <3> QED BY <1>2, <1>4, <1>6, <1>7, <3>1, <3>2, <3>3, <3>4, <3>6 DEF Dumping
  <2> QED BY <1>5, <2>9, <2>10, <2>13, <2>14 DEF Inv
<1> QED BY <1>8, <1>9 DEF DumpLink

\* DumpFlush preserves the invariant: the datagram goes behind those queued.
LEMMA InvDumpFlush == Inv /\ DumpFlush => Inv'
<1> SUFFICES ASSUME Inv, DumpFlush PROVE Inv'
  OBVIOUS
<1>1. PICK p, e \in 0 .. Len(sent) : At(p, e)
  BY DEF Inv
<1>2. /\ Typed /\ ByProgram /\ Dumping /\ pc # "exit" /\ skb # 0
      /\ Len(queue) < QueueSize
      /\ queue' = Append(queue, Messages(skb, Len(sent))) /\ skb' = 0
      /\ UNCHANGED <<prog, fdOk, pc, ret, buf, len, nh, rta, alen, sent, due, overrun,
                     next, links, changes, stable, handled, printed>>
  BY DEF Inv, DumpFlush, programVars
<1>3. /\ prog = "getlinks" /\ ~overrun /\ pc \notin {"create", "request"} /\ ret # 1
  BY <1>2, DumpFacts
<1>4. Grows /\ Len(sent) \in Nat /\ skb \in Nat
  BY <1>2, LenProperties DEF Grows, Typed
<1>5. InFlight(e)' /\ queue' \in Seq([first : Nat, last : Nat]) /\ Len(queue') = Len(queue) + 1
  <2>1. PICK first, last : first = skb /\ last = Len(sent)
    OBVIOUS
  <2>2. InDatagram(first, last)'
    <3>1. InDatagram(first, last)
      BY <1>1, <1>2, <2>1, QueueFacts DEF At
    <3> QED BY <1>2, <1>4, <3>1, DatagramsStay
  <2>3. first = LastQueued(e) + 1
    BY <1>1, <1>2, <2>1 DEF At, InFlight
  <2>4. queue' = Append(queue, Messages(first, last)) /\ last = Len(sent')
    BY <1>2, <2>1
  <2>5. first \in Nat /\ last \in Nat
    BY <1>4, <2>1
  <2> QED BY <1>1, <1>2, <1>4, <2>2, <2>3, <2>4, <2>5, Enqueued DEF At
<1>6. InOrder(p)'
  BY <1>1, <1>2 DEF At, InOrder, Deliverable
<1>7. Printing' /\ \E q, f \in 0 .. Len(sent)' : At(q, f)'
  BY <1>1, <1>2, <1>4, <1>5, <1>6, KernelStep
<1>8. Typed'
  <2>1. Len(queue') <= QueueSize
    <3>1. Len(queue) \in Nat /\ QueueSize \in Nat
      BY <1>2, SizesAssumption, LenProperties DEF Typed
    <3> QED BY <1>2, <1>5, <3>1
  <2> QED BY <1>2, <1>5, <2>1 DEF Typed
<1>9. ByProgram' /\ NotYet'
  BY <1>2, <1>3 DEF ByProgram, NotYet
<1>10. Dumping'
  BY <1>2, <1>3 DEF Dumping, Sent, Deliverable
<1> QED BY <1>7, <1>8, <1>9, <1>10 DEF Inv

\* DumpDone preserves the invariant: the end of the dump comes when all links
\* have been looked at, and nothing comes behind it.
LEMMA InvDumpDone == Inv /\ DumpDone => Inv'
<1> SUFFICES ASSUME Inv, DumpDone PROVE Inv'
  OBVIOUS
<1>1. PICK p, e \in 0 .. Len(sent) : At(p, e)
  BY DEF Inv
<1>2. PICK m : m = Message("done", 0, NoContent, SkbWords)
  OBVIOUS
<1>3. /\ Typed /\ ByProgram /\ Dumping /\ pc # "exit" /\ next = MaxLinks + 1
      /\ FitsSkb(m) /\ Emit(m) /\ Len(queue) < QueueSize
      /\ queue' = Append(queue, Messages(SkbFirst, Len(sent'))) /\ skb' = 0 /\ next' = 0
      /\ UNCHANGED <<prog, fdOk, pc, ret, buf, len, nh, rta, alen, overrun,
                     links, changes, stable, handled, printed>>
  BY <1>2 DEF Inv, DumpDone, programVars, FitsSkb
<1>4. next # 0 /\ MaxLinks \in Nat /\ Len(sent) \in Nat /\ 0 \in 0 .. MaxLinks
  <2>1. MaxLinks \in Nat /\ Len(sent) \in Nat
    BY <1>3, SizesAssumption, LenProperties DEF Typed
  <2> QED BY <1>3, <2>1
<1>5. /\ prog = "getlinks" /\ ~overrun /\ pc \notin {"create", "request"} /\ ret # 1
  BY <1>3, <1>4, DumpFacts
<1>6. /\ m \in Sendable /\ Made(m) /\ m.link = 0 /\ m.type = "done"
      /\ Grows /\ sent' \in Seq(Sendable) /\ Len(sent') = Len(sent) + 1
      /\ sent'[Len(sent) + 1] = m /\ due' \in Seq(Nat)
      /\ \A i \in 1 .. Len(sent') : Made(sent'[i])
      /\ \E first, last \in Nat :
           /\ first = SkbFirst /\ last = Len(sent') /\ InDatagram(first, last)'
  BY <1>1, <1>2, <1>3, <1>4, DumpedFacts DEF At
<1>7. InFlight(e)' /\ queue' \in Seq([first : Nat, last : Nat]) /\ Len(queue') = Len(queue) + 1
  <2>1. PICK first, last \in Nat :
          first = SkbFirst /\ last = Len(sent') /\ InDatagram(first, last)'
    BY <1>6
  <2>2. first = LastQueued(e) + 1
    BY <1>1, <1>4, <2>1, SkbFacts DEF At
  <2>3. queue' = Append(queue, Messages(first, last))
    BY <1>3, <2>1
  <2> QED BY <1>1, <1>3, <1>6, <2>1, <2>2, <2>3, Enqueued DEF At
<1>8. InOrder(p)'
  BY <1>1, <1>3, <1>6, EmitInOrder DEF At
<1>9. Printing' /\ \E q, f \in 0 .. Len(sent)' : At(q, f)'
  BY <1>1, <1>3, <1>6, <1>7, <1>8, KernelStep
<1>10. Typed'
  <2>1. Len(queue') <= QueueSize
    <3>1. Len(queue) \in Nat /\ QueueSize \in Nat
      BY <1>3, SizesAssumption, LenProperties DEF Typed
    <3> QED BY <1>3, <1>7, <3>1
  <2>2. 0 \in 0 .. MaxLinks + 1
    BY <1>4
  <2> QED BY <1>3, <1>6, <1>7, <2>1, <2>2 DEF Typed
<1>11. /\ \A i \in 1 .. Len(sent') : i \in 1 .. Len(sent) \/ i = Len(sent) + 1
       /\ \A i \in 1 .. Len(sent) : i \in 1 .. Len(sent') /\ sent'[i] = sent[i]
  BY <1>4, <1>6 DEF Grows
<1>12. ByProgram'
  <2>1. \A i \in 1 .. Len(sent') : sent'[i].type \in {"newlink", "done", "error"}
    BY <1>3, <1>5, <1>6, <1>11 DEF ByProgram
  <2> QED BY <1>3, <1>5, <2>1 DEF ByProgram
<1>13. NotYet'
  BY <1>3, <1>5 DEF NotYet
<1>14. Dumping'
  <2>1. /\ \A i, j \in 1 .. Len(sent) :
             i < j /\ sent[i].link # 0 /\ sent[j].link # 0 => sent[i].link < sent[j].link
        /\ \A i \in 1 .. Len(sent) : sent[i].link # 0 => Deliverable(sent[i])
        /\ \A i \in 1 .. Len(sent) : sent[i].type # "done"
        /\ \A l \in stable : l < next => Sent(l)
    BY <1>3, <1>4 DEF Dumping
  <2>2. \A i, j \in 1 .. Len(sent') :
          i < j /\ sent'[i].link # 0 /\ sent'[j].link # 0 => sent'[i].link < sent'[j].link
    <3> SUFFICES ASSUME NEW i \in 1 .. Len(sent'), NEW j \in 1 .. Len(sent'),
                        i < j, sent'[i].link # 0, sent'[j].link # 0
                 PROVE  sent'[i].link < sent'[j].link
      OBVIOUS
    <3>1. i \in 1 .. Len(sent) /\ j \in 1 .. Len(sent)
      BY <1>6, <1>11
    <3>2. sent'[i] = sent[i] /\ sent'[j] = sent[j]
      BY <1>11, <3>1
    <3> QED BY <2>1, <3>1, <3>2
  <2>3. \A i \in 1 .. Len(sent') : sent'[i].link # 0 => Deliverable(sent[i])'
    BY <1>6, <1>11, <2>1 DEF Deliverable
  <2>4. \A i \in 1 .. Len(sent') : sent'[i].type = "done" => i = Len(sent')
    BY <1>6, <1>11, <2>1
  <2>5. ASSUME NEW l \in stable PROVE Sent(l)'
    <3>1. l < next
      BY <1>3, <1>4 DEF Typed
    <3>2. PICK i \in 1 .. Len(sent) : sent[i].link = l
      BY <2>1, <3>1 DEF Sent
    <3> QED BY <1>11, <3>2 DEF Sent
  <2>6. next' = 0 /\ skb' = 0 /\ ret' # 1 /\ stable' = stable
    BY <1>3, <1>5
  <2> QED BY <2>2, <2>3, <2>4, <2>5, <2>6 DEF Dumping
<1> QED BY <1>9, <1>10, <1>12, <1>13, <1>14 DEF Inv

\* ChangeLinks preserves the invariant: a link that comes or goes is not one
\* that has been there all the time.
LEMMA InvChangeLinks == Inv /\ ChangeLinks => Inv'
<1> SUFFICES ASSUME Inv, ChangeLinks PROVE Inv'
  OBVIOUS
<1>1. PICK p, e \in 0 .. Len(sent) : At(p, e)
  BY DEF Inv
<1>2. PICK l \in 1 .. MaxLinks :
        /\ links' = IF l \in links THEN links \ {l} ELSE links \union {l}
        /\ stable' = stable \ {l}
  BY DEF ChangeLinks
<1>3. /\ Typed /\ ByProgram /\ Dumping /\ next # 0
      /\ UNCHANGED <<prog, fdOk, pc, ret, buf, len, nh, rta, alen, sent, due,
                     queue, overrun, skb, next, handled, printed>>
  BY DEF Inv, ChangeLinks, programVars
<1>4. /\ prog = "getlinks" /\ ~overrun /\ pc \notin {"create", "request"} /\ ret # 1
  BY <1>3, DumpFacts
<1>5. Grows
  BY <1>3, LenProperties DEF Grows, Typed
<1>6. InFlight(e)'
  BY <1>1, <1>3, <1>5, InFlightStays DEF At
<1>7. InOrder(p)'
  BY <1>1, <1>3 DEF At, InOrder, Deliverable
<1>8. Printing' /\ \E q, f \in 0 .. Len(sent)' : At(q, f)'
  BY <1>1, <1>3, <1>5, <1>6, <1>7, KernelStep
<1>9. Typed'
  <2>1. links' \subseteq 1 .. MaxLinks /\ stable' \subseteq 1 .. MaxLinks
    BY <1>2, <1>3 DEF Typed
  <2> QED BY <1>3, <2>1 DEF Typed
<1>10. ByProgram' /\ NotYet'
  BY <1>3, <1>4 DEF ByProgram, NotYet
<1>11. Dumping'
  <2>1. stable \subseteq links /\ \A k \in stable : k < next => Sent(k)
    BY <1>3 DEF Dumping
  <2>2. stable' \subseteq links' /\ \A k \in stable' : k < next => Sent(k)
    BY <1>2, <2>1
  <2> QED BY <1>3, <1>4, <2>2 DEF Dumping, Sent, Deliverable
<1> QED BY <1>8, <1>9, <1>10, <1>11 DEF Inv

\* Nothing happens.
LEMMA InvStutters == Inv /\ UNCHANGED vars => Inv'
<1> SUFFICES ASSUME Inv, UNCHANGED vars PROVE Inv'
  OBVIOUS
<1>1. PICK p, e \in 0 .. Len(sent) : At(p, e)
  BY DEF Inv
<1>2. /\ Typed
      /\ UNCHANGED <<prog, fdOk, pc, ret, buf, len, nh, rta, alen, kernelVars, handled,
                     printed>>
  BY DEF Inv, vars, programVars
<1>3. Grows
  BY <1>2, LenProperties DEF Grows, Typed, kernelVars
<1>4. InFlight(e)' /\ InOrder(p)'
  BY <1>1, <1>2, MessagesStay DEF At
<1>5. Printing' /\ \E q, f \in 0 .. Len(sent)' : At(q, f)'
  BY <1>1, <1>2, <1>3, <1>4, KernelStep
<1>6. P' = P
  BY <1>2 DEF P
<1>7. Typed' /\ ByProgram' /\ NotYet'
  BY <1>2, <1>6 DEF Inv, Typed, ByProgram, NotYet, kernelVars
<1>8. Dumping'
  BY <1>2 DEF Inv, Dumping, Sent, Deliverable, kernelVars
<1> QED BY <1>5, <1>7, <1>8 DEF Inv

\* Every step preserves the invariant.
LEMMA InvNext == Inv /\ [Next]_vars => Inv'
<1> SUFFICES ASSUME Inv, [Next]_vars PROVE Inv'
  OBVIOUS
<1>1. CASE CreateSocket
  BY <1>1, InvCreateSocket
<1>2. CASE SendRequest
  BY <1>2, InvSendRequest
<1>3. CASE ReceiveFails
  BY <1>3, InvReceiveFails
<1>4. CASE Receive
  BY <1>4, InvReceive
<1>5. CASE EndOfDatagram
  BY <1>5, InvEndOfDatagram
<1>6. CASE Done
  BY <1>6, InvDone
<1>7. CASE Error
  BY <1>7, InvError
<1>8. CASE ParseMessage
  BY <1>8, InvParseMessage
<1>9. CASE ReportMessage
  BY <1>9, InvReportMessage
<1>10. CASE ParseRta
  BY <1>10, InvParseRta
<1>11. CASE EndOfAttributes
  BY <1>11, InvEndOfAttributes
<1>12. CASE Notify
  BY <1>12, InvNotify
<1>13. CASE NotifyLost
  BY <1>13, InvNotifyLost
<1>14. CASE DumpLink
  BY <1>14, InvDumpLink
<1>15. CASE DumpFlush
  BY <1>15, InvDumpFlush
<1>16. CASE DumpDone
  BY <1>16, InvDumpDone
<1>17. CASE ChangeLinks
  BY <1>17, InvChangeLinks
<1>18. CASE UNCHANGED vars
  BY <1>18, InvStutters
<1> QED BY <1>1, <1>2, <1>3, <1>4, <1>5, <1>6, <1>7, <1>8, <1>9, <1>10, <1>11, <1>12,
           <1>13, <1>14, <1>15, <1>16, <1>17, <1>18 DEF Next, Program, Dump

\* The invariant holds in every state of every behaviour.
LEMMA Invariance == Spec => []Inv
BY InvInit, InvNext, PTL DEF Spec

-----------------------------------------------------------------------------
(* The properties.                                                         *)

\* The variables keep their types; everything handled has been sent.
THEOREM TypeCorrect == Spec => []TypeOK
<1>1. Inv => TypeOK
  <2> SUFFICES ASSUME Inv PROVE TypeOK
    OBVIOUS
  <2>1. PICK p, e \in 0 .. Len(sent) : At(p, e)
    BY DEF Inv
  <2>2. \A i \in 1 .. Len(handled) : handled[i] \in 1 .. Len(sent)
    BY <2>1, HandledFacts DEF Inv, At
  <2>3. DOMAIN buf = 0 .. Top
    BY DEF Inv, Typed
  <2> QED BY <2>2, <2>3 DEF Inv, Typed, TypeOK
<1> QED BY <1>1, Invariance, PTL

\* The attribute loops run 16 bytes past the end of a message, never farther.
THEOREM OverreadBounded == Spec => []OverreadIsOneHeader
<1>1. Inv => OverreadIsOneHeader
  <2> SUFFICES ASSUME Inv, pc = "attr"
               PROVE  WordSize * rta + alen
                        = WordSize * nh + sent[Current].nlmsg_len + NlmsgHdrSize
    BY DEF OverreadIsOneHeader
  <2>1. PICK p, e \in 0 .. Len(sent) : At(p, e)
    BY DEF Inv
  <2>2. p \in 1 .. Len(sent) /\ e \in p .. Len(sent) /\ InBuffer(p, e)
    <3>1. Len(sent) \in Nat
      BY LenProperties DEF Inv, Typed
    <3> QED BY <2>1, <3>1 DEF At, Reading
  <2>3. Current = p
    BY <2>2, BufferFacts DEF Inv
  <2> QED BY <2>1, <2>3 DEF At, InLoop
<1> QED BY <1>1, Invariance, PTL

\* What is known of the things printed for a message.
LEMMA PrintedFacts ==
  ASSUME Inv, NEW i \in 1 .. Len(handled)
  PROVE  /\ handled[i] \in Nat /\ PrintedOf(i)
         /\ \A nr \in 1 .. Len(printed[i]) : printed[i][nr].of \in Nat
<1>1. printed[i] \in Seq([of : Nat, nr : Nat]) /\ handled[i] \in Nat
  <2>1. i \in 1 .. Len(printed) /\ printed \in Seq(Seq([of : Nat, nr : Nat]))
        /\ handled \in Seq(Nat)
    BY DEF Inv, Typed
  <2> QED BY <2>1, ElementOfSeq
<1>2. \A nr \in 1 .. Len(printed[i]) : printed[i][nr] \in [of : Nat, nr : Nat]
  BY <1>1, ElementOfSeq
<1> QED BY <1>1, <1>2 DEF Inv, Printing

\* All attributes of a message are printed, in order, and at most four things
\* behind it: as many attributes as fit into the 16 bytes read too many.
THEOREM AttributesPrinted == Spec => []AllAttributesPrinted
<1>1. Inv => AllAttributesPrinted
  <2> SUFFICES ASSUME Inv, NEW i \in 1 .. Len(handled),
                      sent[handled[i]].type \in P.walks
               PROVE  LET id == handled[i]
                          n == Len(sent[id].content.attrs)
                          ps == printed[i]
                      IN  /\ Len(ps) >= n \/ (pc = "attr" /\ i = Len(handled))
                          /\ Len(ps) <= n + NlmsgHdrSize \div AttrHdrSize
                          /\ \A nr \in 1 .. Len(ps) :
                               IF nr <= n THEN ps[nr] = [of |-> id, nr |-> nr]
                                          ELSE ps[nr].of # id
    BY DEF AllAttributesPrinted
  <2> DEFINE id == handled[i]
             n == Len(sent[id].content.attrs)
             ps == printed[i]
  <2>1. /\ Len(ps) >= n \/ (pc = "attr" /\ i = Len(handled))
        /\ Len(ps) <= n + NlmsgHdrSize \div AttrHdrSize
        /\ \A nr \in 1 .. Len(ps) :
             IF nr <= n THEN ps[nr] = [of |-> id, nr |-> nr] ELSE ps[nr].of < id
    BY PrintedFacts DEF PrintedOf
  <2>2. id \in Nat /\ \A nr \in 1 .. Len(ps) : ps[nr].of \in Nat
    BY PrintedFacts
  <2>3. \A nr \in 1 .. Len(ps) : ps[nr].of < id => ps[nr].of # id
    BY <2>2
  <2> HIDE DEF id, n, ps
  <2>4. \A nr \in 1 .. Len(ps) :
          IF nr <= n THEN ps[nr] = [of |-> id, nr |-> nr] ELSE ps[nr].of # id
    BY <2>1, <2>3, Zenon
  <2> QED BY <2>1, <2>4 DEF id, n, ps
<1> QED BY <1>1, Invariance, PTL

\* What is printed by mistake is older than the message it is printed for.
THEOREM PhantomsStale == Spec => []PhantomsAreStale
<1>1. Inv => PhantomsAreStale
  <2> SUFFICES ASSUME Inv, NEW i \in 1 .. Len(handled), NEW nr \in 1 .. Len(printed[i])
               PROVE  printed[i][nr].of <= handled[i]
    BY DEF PhantomsAreStale
  <2> DEFINE id == handled[i]
             n == Len(sent[id].content.attrs)
             a == printed[i][nr]
  <2>1. id \in Nat /\ a.of \in Nat
    BY PrintedFacts
  <2>2. a = [of |-> id, nr |-> nr] \/ a.of < id
    <3>1. CASE sent[id].type \in P.walks
      BY <3>1, PrintedFacts DEF PrintedOf
    <3>2. CASE sent[id].type \notin P.walks
      <4>1. printed[i] = <<>>
        BY <3>2, PrintedFacts DEF PrintedOf
      <4>2. ~(nr \in 1 .. 0)
        OBVIOUS
      <4> QED BY <4>1, <4>2, EmptySeq
    <3> QED BY <3>1, <3>2
  <2>3. a.of = id \/ a.of < id
    BY <2>2
  <2> HIDE DEF id, a
  <2>4. a.of <= id
    BY <2>1, <2>3
  <2> QED BY <2>4 DEF id, a
<1> QED BY <1>1, Invariance, PTL

\* When get-links ends with the end of the dump it has shown each link that was
\* there all the time, and it shows none twice, on a kernel that resumes a dump
\* by index.
THEOREM DumpComplete == Spec => []DumpIsComplete
<1>1. Inv => DumpIsComplete
  <2> SUFFICES ASSUME Inv PROVE DumpIsComplete
    OBVIOUS
  <2> DEFINE shown == {i \in 1 .. Len(handled) : sent[handled[i]].link # 0}
  <2>1. PICK p, e \in 0 .. Len(sent) : At(p, e)
    BY DEF Inv
  <2>2. /\ \A i \in 1 .. Len(handled) : handled[i] \in 1 .. Len(sent)
        /\ \A i, j \in 1 .. Len(handled) : handled[i] = handled[j] => i = j
    BY <2>1, HandledFacts DEF Inv, At
  <2>3. ListsEveryLink
    BY DEF Inv, Dumping, ListsEveryLink
  <2>4. ASSUME NEW i \in shown, NEW j \in shown,
               sent[handled[i]].link = sent[handled[j]].link
        PROVE  i = j
    <3>1. \A k \in 1 .. Len(sent) : sent[k].link \in Nat
      <4>1. \A k \in 1 .. Len(sent) : sent[k] \in Sendable
        BY SentFacts DEF Inv
      <4> QED BY <4>1 DEF Sendable
    <3>2. \A k, l \in 1 .. Len(sent) :
            sent[k].link # 0 /\ sent[l].link # 0 /\ k < l => sent[k].link # sent[l].link
      BY <3>1 DEF Inv, Dumping
    <3>3. handled[i] \in 1 .. Len(sent) /\ handled[j] \in 1 .. Len(sent)
      BY <2>2
    <3>4. ~(handled[i] < handled[j]) /\ ~(handled[j] < handled[i])
      BY <2>4, <3>2, <3>3
    <3>5. handled[i] = handled[j]
      BY <3>3, <3>4
    <3> QED BY <2>2, <3>5
  <2> QED BY <2>3, <2>4 DEF DumpIsComplete
<1> QED BY <1>1, Invariance, PTL

\* A message sent is handed over, if the program should see it.
LEMMA EmitRefines ==
  ASSUME Inv, NEW m, Emit(m), handled' = handled,
         Deliverable(m) => Len(sent) < MaxEvents + MaxLinks
  PROVE  [Delivering!Next]_(Delivering!vars)
<1>1. Len(sent) \in Nat /\ MaxEvents \in Nat /\ MaxLinks \in Nat
  BY SizesAssumption, LenProperties DEF Inv, Typed
<1>2. CASE Deliverable(m)
  <2>1. Len(sent) + 1 \in 1 .. (MaxEvents + MaxLinks)
    BY <1>1, <1>2
  <2>2. due' = Append(due, Len(sent) + 1)
    BY <1>2 DEF Emit
  <2> QED BY <2>1, <2>2 DEF Delivering!Next, Delivering!Send
<1>3. CASE ~Deliverable(m)
  BY <1>3 DEF Emit, Delivering!vars
<1> QED BY <1>2, <1>3

\* A message handled is the oldest one the program should still see.
LEMMA HandleRefines ==
  ASSUME Inv, pc = "msg", NlmsgOk, sent[Current].type \notin {"done", "error"},
         handled' = Append(handled, Current), printed' = Append(printed, <<>>),
         UNCHANGED <<prog, kernelVars>>,
         sent[Current].type \in P.walks => pc' = "attr"
  PROVE  Delivering!Next
<1>1. PICK p, e \in 0 .. Len(sent) : At(p, e)
  BY DEF Inv
<1>2. Len(handled) < Len(due) /\ due[Len(handled) + 1] = Current
  BY <1>1, HandleStep DEF Inv
<1> QED BY <1>2 DEF Delivering!Next, Delivering!Deliver, kernelVars

\* Every step hands over a message, handles one, or does neither.
LEMMA StepRefines == Inv /\ [Next]_vars => [Delivering!Next]_(Delivering!vars)
<1> SUFFICES ASSUME Inv, [Next]_vars PROVE [Delivering!Next]_(Delivering!vars)
  OBVIOUS
<1>0. /\ Len(sent) \in Nat /\ MaxEvents \in Nat /\ MaxLinks \in Nat /\ next \in 0 .. MaxLinks + 1
  BY SizesAssumption, LenProperties DEF Inv, Typed
<1>1. CASE ParseMessage
  <2>1. sent[Current].type \notin {"done", "error"}
    <3>1. P.walks \subseteq LinkEvents \union AddrEvents
      BY ParameterFacts DEF Inv, Typed
    <3> QED BY <1>1, <3>1 DEF ParseMessage, LinkEvents, AddrEvents
  <2> QED BY <1>1, <2>1, HandleRefines DEF ParseMessage, programVars
<1>2. CASE ReportMessage
  BY <1>2, HandleRefines DEF ReportMessage, programVars
<1>3. CASE Notify
  BY <1>0, <1>3, EmitRefines DEF Notify
<1>4. CASE NotifyLost
  BY <1>0, <1>4, EmitRefines DEF NotifyLost
<1>5. CASE DumpLink
  <2>1. CASE UNCHANGED <<sent, due, skb>>
    BY <1>5, <2>1 DEF DumpLink, Delivering!vars
  <2>2. CASE ~UNCHANGED <<sent, due, skb>>
    <3>1. PICK content \in Contents : Emit(Message("newlink", next, content, SkbWords))
      BY <1>5, <2>2 DEF DumpLink
    <3>2. next # 0 /\ next \in 1 .. MaxLinks
      BY <1>5 DEF DumpLink
    <3>3. Len(sent) < next
      BY <3>2 DEF Inv, Dumping
    <3>4. Len(sent) < MaxEvents + MaxLinks
      BY <1>0, <3>2, <3>3
    <3> QED BY <1>5, <3>1, <3>4, EmitRefines DEF DumpLink
  <2> QED BY <2>1, <2>2
<1>6. CASE DumpDone
  <2>1. PICK m : m = Message("done", 0, NoContent, SkbWords) /\ Emit(m)
    BY <1>6 DEF DumpDone
  <2>2. ~Deliverable(m)
    BY <2>1 DEF Message, Deliverable
  <2> QED BY <1>6, <2>1, <2>2, EmitRefines DEF DumpDone
<1>7. CASE SendRequest
  <2>1. CASE UNCHANGED <<sent, due, queue>>
    BY <1>7, <2>1 DEF SendRequest, Delivering!vars
  <2>2. CASE ~UNCHANGED <<sent, due, queue>>
    <3>1. PICK m : m = Message("error", 0, NoContent, 0) /\ Emit(m)
      BY <1>7, <2>2 DEF SendRequest
    <3>2. ~Deliverable(m)
      BY <3>1 DEF Message, Deliverable
    <3> QED BY <1>7, <3>1, <3>2, EmitRefines DEF SendRequest
  <2> QED BY <2>1, <2>2
<1>8. CASE CreateSocket \/ ReceiveFails \/ Receive \/ EndOfDatagram \/ Done
  BY <1>8 DEF CreateSocket, ReceiveFails, Receive, EndOfDatagram, Done, kernelVars,
              Delivering!vars
<1>9. CASE Error \/ ParseRta \/ EndOfAttributes \/ DumpFlush \/ ChangeLinks \/ UNCHANGED vars
  BY <1>9 DEF Error, ParseRta, EndOfAttributes, DumpFlush, ChangeLinks, vars, kernelVars,
              Delivering!vars
<1> QED BY <1>1, <1>2, <1>3, <1>4, <1>5, <1>6, <1>7, <1>8, <1>9 DEF Next, Program, Dump

\* Every netlink program implements Delivery: it handles what it should see, in
\* order, each message once and none left out.
THEOREM ListenersDeliver == Spec => HandlesWhatWasSent
<1>1. Init => Delivering!Init
  BY DEF Init, Delivering!Init
<1> QED
  BY <1>1, StepRefines, Invariance, PTL DEF Spec, HandlesWhatWasSent, Delivering!Spec
=============================================================================
