# A model of snippets-c

TLA+ specifications of the programs of this repository, TLC configurations that
check them on small instances, and proofs checked by TLAPS. The repository is a
collection of small Linux programs in C; what they have in common is that each
talks to the kernel, or to a library, over a protocol with state: shared rings,
netlink sockets, maps updated by several CPUs, a broker connection. The
programs are modelled from their source. The kernel and the libraries are the
environment: they are modelled from how the programs use them and marked
`external` in `PROJECT.json`.

## Inventory

| part | sources (below `src/`) | state | operations | hard behaviour | what makes it correct | status |
|---|---|---|---|---|---|---|
| AF_XDP receiver | `af_xdp/xdp-sock-rx.c` | umem frames, fill ring, rx ring (shared with the kernel), cached ring indices, wakeup flag | set-up, poll, peek, reserve (busy loop), print and recycle, submit, release | every interleaving with the kernel; rings at their limit; entries left over from an earlier peek; waking a sleeping kernel | a frame has one owner; no ring entry is overwritten; each packet is printed once, in order, unaltered, and some time | modelled, safety proved |
| AF_XDP sender | `af_xdp/xdp-sock-tx.c` | umem frames, tx ring, completion ring, wakeup flag | set-up, poll, reserve, put, submit, wake up, complete | a kernel that does nothing; ending before the packet is sent | the batch is handed over once; only frames that hold the packet; the program ends | modelled, safety proved |
| netlink monitors | `netlink/if-addrs.c`, `if-events.c`, `if-flags.c`, `if-rtas.c`, `if-stats.c` | socket queue, receive buffer and what an earlier message left in it, positions of the message and the attribute loop | receive, message loop, attribute loop | queue overrun, messages cut to the buffer, lengths that are not multiples of four, reading past the message | every event handled in order or the program ends; each attribute parsed once | modelled, safety proved |
| get-links | `netlink/get-links.c` | the same and the dump in the kernel | request, receive, message loop, end of dump | answer in several datagrams, links changing during the dump, errors | the list is complete and without duplicates; the program ends | modelled, safety proved |
| XDP counting programs | `bpf/xdp-count.c`, `xdp-bytes.c`, `xdp-udp4count.c`, `xdp-tcp6count.c` | one map entry shared by all CPUs | filter, load, store | CPUs updating at the same time; packets shorter than a header | no byte behind the packet is read; the counter is never too large | modelled, safety proved |
| netlink configuration programs | `netlink/add-veth*.c`, `del-link.c`, `set-*.c`, `add-addr.c`, `del-addr.c`, `add-qdisc.c`, `del-qdisc.c`, `add-tcfilter.c` | links, names, flags, namespaces, addresses, qdiscs, filters (in the kernel) | resolve a name, send one request | the link changes between the two; a name that does not exist; nobody reads the answer | a request changes the link it was resolved for and no other | modelled, proved |
| bpf loaders | `bpf/tc-attach*.c`, `tc-detach*.c`, `xdp-attach.c`, `xdp-detach.c` | qdisc, filters and programs of an interface (in the kernel) | attach in two requests, detach | one of two steps fails; attach on attach; the name means another link at the second lookup | attached or an error; one hook per link | modelled, proved |
| network namespaces | `netns/add-netns.c`, `del-netns.c`, the descriptor of `netlink/set-netns-fd.c` | the file below `/var/run/netns`, the mounts on it | create, unshare, mount; umount, unlink; open, send | two programs on one name; a step that fails leaves the file; the name is deleted while it is open | a name is free or names one namespace | modelled, proved |
| MQTT clients | `mosquitto/client_pub.c`, `client_sub.c` | connection, subscription, published message | callbacks, main loop | a connection lost between publish and disconnect, callbacks that run again after it, a call that fails inside a callback | published once; subscribed again; ends | modelled, safety proved |
| setsockopt filter | `ld_preload/setsockopt.c` | none | filter one call | the level is not compared | only the two options are dropped | not modelled: see below |
| accept programs, getenv | `bpf/tc-accept.c`, `bpf/xdp-accept.c`, `env/getenv.c` | none | return a constant, print | none | | not modelled: nothing changes state |

The programs do not call each other. They meet in the kernel and at the broker:
the monitors hear of what the configuration programs do; the configuration
programs and the loaders change the same links (`LinkConfig` has all of them at
the same time); set-netns-fd opens the names that add-netns and del-netns make
and remove (`Netns` has the three together); client_sub prints what client_pub
publishes (`Mqtt`); the AF_XDP programs need an interface.

`PROJECT.json` lists under `hazards` what is hard to test in this code, at its
line, with the properties that cover it or the reason none does.

## Modules

| module | models | checked by |
|---|---|---|
| `Delivery` | abstract: what is handed over in one order is output in that order, each once, unaltered, without a gap | refined by the next two |
| `XdpSockRx` | the receiver and its side of the rings, the kernel as environment | `XdpSockRx.cfg`, `XdpSockRx_proof` |
| `XdpSockTx` | the sender | `XdpSockTx.cfg`, `XdpSockTxUnsent.cfg`, `XdpSockTx_proof` |
| `NetlinkListener` | the five monitors and get-links | `MC_NetlinkListener` with `NetlinkMonitors.cfg`, `GetLinks.cfg`, `GetLinksSkipped.cfg`, `IfRtasPhantom.cfg`; `NetlinkListener_proof` |
| `XdpCount` | the counting programs | `XdpCount.cfg`, `XdpCountLost.cfg`, `XdpCount_proof` |
| `Rtnetlink` | the kernel's table of links and what a request does to it (external) | extended by the next |
| `LinkConfig` | the configuration programs and the bpf loaders | `MC_LinkConfig` with `LinkConfig.cfg`; `LinkConfig_proof` |
| `Netns` | add-netns, del-netns, and the descriptor of set-netns-fd | `MC_Netns` with `Netns.cfg`; `Netns_proof` |
| `Mqtt` | client_pub and client_sub, with the broker as environment | `Mqtt.cfg`, `Mqtt_proof` |

### XdpSockRx

`pc` is the position in `main()` and `receive()`; each action is the code up to
the next access to something the kernel shares. `fill` and `rx` are the slots
between consumer and producer; `unreleased` are fill slots the kernel has taken
and not given back, which is what makes the reservation fail; `rxSeen` is the
part of the rx ring covered by libbpf's cached producer index, from which a
later `peek()` is served first. `nic` and `mem` are the frames the kernel
receives into and the content of all frames. `posted` and `printed` are history
variables, mapped to `sent` and `got` of `Delivery`. Whether the kernel sets the
wakeup flag depends on driver and bind flags; the model lets it, whenever the
fill ring is empty.

Run `XdpSockRx`: three ring slots, four frames (one of them never used, as half
of the frames of the code), batches of two, five packets. With three slots and
batches of two a batch can be partial, entries are left over for the next call,
both rings can be full, and five packets reuse frames. Fairness: the process
is scheduled, and the kernel releases what it took from the fill ring; packets
need not arrive and errors of the socket need not happen. `poll()` is level
triggered, so that a process waiting with packets on the ring continues.

### XdpSockTx

The batch size of the code is 1; the model keeps it a parameter because the two
loops of the code do. Three kinds of kernel are chosen from when the socket is
bound: one that looks at the tx ring by itself, one that wants to be woken and
sets the flag, and one that sends only when called and does not set it. Run
`XdpSockTx` takes a batch of four. The only fairness is that of the process: the
kernel may do nothing for ever, and `Terminates` holds all the same. The loop
around the reservation never runs more than once, because the ring is empty;
the model has its step back (`Reserve` to `Wakeup`) and the proof shows that it
is not taken.

### NetlinkListener

The six programs share the text of `create_socket()`, `read_message()`,
`read_messages()` and of the attribute loop, so they are one module with
parameters: the groups joined (`events`), the message types whose attributes are
parsed (`walks`), and whether the end of a dump ends the program (`stop`). What
is printed of an attribute is abstracted to which attribute it is.

The buffer is modelled in words of four bytes, each with the number its low 16
bits are when taken for an `rta_len`, and a mark which attribute of which message
begins there. A message holds the `rta_len` of its attributes and the words at which
they begin (`at`; `LaidOut` says that each begins where the one before it ends,
rounded up to words). This is what it takes to show what the attribute loops do: they
start with `nlmsg_len` minus the family header and do not subtract the netlink
header, so they go 16 bytes too far. Three properties say exactly how bad that
is: the true attributes always come first and complete (`AllAttributesPrinted`),
the loop never looks farther than those 16 bytes (`OverreadIsOneHeader`), and
what is taken for an attribute by mistake is from an earlier datagram or
from uninitialised memory, never from the next message (`PhantomsAreStale`). Run
`IfRtasPhantom` shows the mistake happen.

Messages are numbered as the kernel makes them (`sent`). A datagram of the receive
queue is its first and last number; `skb` is the first number of the datagram the
kernel is filling during a dump, which holds all made since. `due` and `handled`
are history variables: the numbers of the messages the program should see, and
of those it gave to `parse_message()`; `printed` has, for each of the latter, the
attributes given to `parse_rta()`.

Run `NetlinkMonitors`: all five monitors, three events, a queue of one, a buffer
of 14 words. The contents are: no attribute, one of nine bytes, two of
different lengths, and two that together do not fit into the buffer; payload that
reads as a length of 0 or of 4. Three events are enough for a queue that
overflows, an event after a loss, and a short event after a long one. Run
`GetLinks`: three links of which two come or go, a buffer of two messages, so
that the answer takes several datagrams. Fairness: the program runs when it
can; the kernel ends a dump it began. Events need not happen.

`HandlesWhatWasSent` is the refinement of `Delivery`, with its `sent` mapped to
`due` and its `got` to `handled`. It holds across lost events because the program
ends at the next `recvmsg()`, which reports the loss. `due` has only messages
that fit into the buffer (`Deliverable`): a longer one is cut, `NLMSG_OK` refuses
it, and the program goes on without having seen it. No property says that such a
message is handled, because it is not. `FailedSocketEnds` is about a monitor
whose `bind()` failed and whose caller does not ask: the descriptor is -1, the
next `recvmsg()` fails, and that ends the program.

The kernel sends a dump over several datagrams and has to remember between two
of them where it was. `Spec` has a kernel that resumes at the index of the next
link, as newer ones do; that the list is complete while links come and go
(`DumpIsComplete`, which adds to `ListsEveryLink` that no link is listed twice)
rests on that. `PositionSpec` has an older kernel, which resumes at a position
in a hash chain. The links are then those of one chain, whose indices agree in
the lowest eight bits, with new ones put in front, and they change between two
datagrams. A link that goes shifts those behind it, and one that was there all the
time is not listed. The kernel marks such a dump with `NLM_F_DUMP_INTR`; get-links
does not look at the flag, so that it is not modelled. Run `GetLinksSkipped` shows a
list with a link missing.

### XdpCount

A CPU runs the program for a packet: the filter looks at the headers, each only
after a check of the length, then the counter is loaded and stored. Run
`XdpCount`: two CPUs, three packets, lengths one byte short of each header and
one that holds all. The counter is a 64-bit `long`; its overflow is out of
reach. `NeverOvercounts` and `ExactWithoutOverlap` bound what the lost
updates do; `XdpCountLost` shows one.

### Rtnetlink and LinkConfig

A run is one execution of any of 20 programs. It looks the name it was given up
(`if_nametoindex()`, 0 for a name nobody has), which is one step, and sends the
request, which is another. The messages (`SetIfnameMsg`, `AddVethMsg`, ...) keep
of each program's `send_request()` what decides the effect: type, index,
`NLM_F_CREATE` and `NLM_F_EXCL`, the `ifi_change` mask and `ifi_flags`, and
which attributes there are. The netlink programs and tc-attach end with 0
whatever becomes of the request, tc-attach with a second lookup between its two
requests; the loaders that use libbpf look at each result.

`Rtnetlink` is the kernel as far as these requests reach it. A link of the table
is in the programs' namespace or in another one, the target of set-netns-fd and
set-netns-pid, which its name may refuse. Indices are never used again. A
request without an index means the link with the name in it. Any request may
also be refused for a reason of the kernel's own, or not reach it.

The properties state what this comes to. The request changes
the link that bore the name at the lookup, even if the name means another one by
then; and `OnlyNamedLinkChanges` lists what else can happen: set-ifname of a name
that does not exist, and add-veth-ifname1 of one that does, clear the flags of
the link that has the *new* name. Those two are no accident of the interleaving: one
run of set-ifname is enough to take down a link it was not told of, and a second
run of add-veth-ifname1 to take down the pair the first one made. `ifi_change` is
all ones with flags zero, so that renaming, moving or setting the MTU takes a link
down (`ChangedLinksAreDown`). tc-attach2, tc-detach2, xdp-attach and xdp-detach
report truthfully (`LoaderStatusIsTrue`); tc-attach looks at no answer and returns 0
with nothing attached. A tc-attach2 that failed to attach leaves the qdisc,
and the next run of it is refused (`OneHookPerLink`).

Run `LinkConfig`: three runs of any program, four names (the loopback device,
both of the initial pair, one that add-veth makes), three new names. Two runs
are enough for one to interfere between the lookup and the request of another,
three for a name that is freed and given away in between. The kernel's own names
are taken from eight (`FreeNames`), more than an initial pair and three runs can
use; with more runs an add-veth for which none is left is refused. There is
no fairness: no property is about the end of these programs, each is a straight
line.

### Netns

A namespace is named after the add-netns that unshared it, and a file after the
one that created it. `open()`, `unshare()` and `mount()` of add-netns, `umount2()`
and `unlink()` of del-netns, `open()` and the request of set-netns-fd are steps;
each may fail for any reason, `unlink()` also after `umount2()` has taken the
namespace away. External: mounts stack, `mount()`, `umount2()` and `unlink()` find
the file by its path again, a file with a mount cannot be unlinked, a namespace
lives as long as something refers to it. A name is a pair of the bytes that fit
into the 100 of `snprintf()` and the rest, and `Path` drops the rest.

What two programs on one name can do is bounded by `OneNamespacePerName` (two
mounts on one file only after a del-netns between `open()` and `mount()` of one
of them) and `BareFileHasCause` (which files stay without a namespace and block
their name). A bare file is that of an add-netns that is still at work or failed
behind its `open()`, or a del-netns is about to remove it, or one took the
namespace and could not remove the file, and said so. The history variable `left`
has, for a del-netns whose `unlink()` failed, who had created the file it
left bare. `LinkGoesWhereNameLed` follows the descriptor: the link moves to
the namespace that had the name at the `open()`, and is lost with it when that
was its last reference.

Run `Netns`: six interchangeable runs, two paths, one of them with two names.
Two of add-netns with one del-netns are the least with two namespaces on a name;
six leave room for another del-netns and for set-netns-fd. There is no fairness,
as in `LinkConfig`.

### Mqtt

What a client does is in its callbacks; `main()` is in `mosquitto_loop_forever()`,
which connects again after each loss. The library and the broker are external:
a packet queued in a callback is written later or dropped with the connection, a
new connection starts with no subscription, and at QoS 0 a message is passed on at
most once. `on_publish()` runs when the message is written, and disconnects:
client_pub is then `leaving`. `PubOnConnect` may run many times; that the message
is nevertheless published once (`AtMostOnce`) follows from leaving at the first
write. A publish or subscribe that fails, and a subscription the broker refuses,
only print something: the client then stays connected and does nothing. `PubEnds`
and `SubStays` say that this is the only way not to end, or not to have a
subscription.

Run `Mqtt`: two publishers, two subscribers, two faults (`MaxFaults`: connections
refused or lost, packets lost), one packet of others queued for a subscriber
(`MaxDown`). Two faults let a connection break before and after a reconnect, or
for a publisher and a subscriber; two messages and two subscribers are the least
for an order to differ. Fairness: the program runs, the loop connects again and
writes what is queued, the broker answers a subscription. Nothing is assumed of
the delivery of messages. Keepalive and retained messages are left out; a
keepalive that expires is a lost connection.

## Runs

| run | expected | states | shows |
|---|---|---|---|
| `XdpSockRx` | pass | 45,793 | one owner per frame, no overrun, packets printed once, in order and eventually, kernel woken |
| `XdpSockTx` | pass | 149 | batch handed over once, prepared frames only, program ends |
| `NetlinkMonitors` | pass | about 127,000 | events in order or the end, attributes complete, read past the message bounded, a failed socket ends the program |
| `GetLinks` | pass | about 120,000 | complete list, no duplicates, ends, mistakes are stale memory |
| `XdpCount` | pass | 175,168 | reads inside the packet, counter never too large |
| `LinkConfig` | pass | 419,103 | which links a request changes, which go down, truthful loaders, one hook per link |
| `Netns` | pass | 97,241 | one namespace per name, bare files explained, the link goes to the namespace opened |
| `Mqtt` | pass | 175,391 | published and printed at most once, in one order, over lost connections; client_pub ends, client_sub subscribes again |
| `IfRtasPhantom` | violation of `PrintsAttributesOfEvent` | | if-rtas prints attributes that are not in the event |
| `GetLinksSkipped` | violation of `ListsEveryLink` | | get-links lists not all links, with a kernel that resumes by position |
| `XdpCountLost` | violation of `CountsAllPackets` | | xdp-count loses packets |
| `XdpSockTxUnsent` | violation of `SendsPackets` | | xdp-sock-tx ends with the packet unsent |

Deadlock is not checked: every program may end, and the bounded environment may
stop. That they do not stop early is what the liveness properties say. Every
property of a passing run has a mutant in `PROJECT.json`: an operator with a
plausible bug, kept next to the one it replaces, with which the property fails.

## Proofs

Every safety property of a run that is expected to pass is a theorem, for all
values of the constants, and so are both refinements of `Delivery`. The constants
are arbitrary under the assumptions named in the modules:

| assumption | says |
|---|---|
| `ConstantsAssumption` (`XdpSockRx`) | at least as many frames as ring slots, of which there is one; a batch of at least one |
| `SizesAssumption` (`XdpSockTx`) | the batch fits the ring and the umem |
| `CountAssumption` (`XdpCount`) | the programs are of the four; there is a length; lengths and the number of packets are numbers |
| `SizesAssumption`, `ProgramsAssumption`, `ContentsAssumption` (`NetlinkListener`) | sizes are numbers, the queue holds a datagram; the programs are of the six; attributes lie behind each other, each at least as long as its header |
| `NamesAssumption` (`LinkConfig`), `RunsAssumption` (`Netns`), `ClientsAssumption` (`Mqtt`) | names of links, runs and clients are none of the marker values |
| `BoundsAssumption` (`Mqtt`) | the bounds of the model are numbers |

All hold for the constants of the code. `TypeCorrect` in each module states its
type invariant; the other theorems are named below, with the property in brackets.

**`XdpSockRx_proof`.** The invariant is built in layers, each using the ones
below: *control* (types, the batch fits the ring, the reservation holds until
the submission), *ownership* (`FramesOwnedOnce`) and *content* (what live rx
entries and the kernel's frames hold is the part of `posted` not printed yet).
Ownership is not inductive alone: between `Submit` and `Release` the first
`num` rx entries are stale and their frames are on the fill ring or with the
kernel again, so the invariant counts only the entries after them. That the rx ring
is full only before a release is a count: the frames that go around are the first
`NumDescs` (`FirstFrames`), live entries have different frames, and with one frame
at the kernel there are fewer than `NumDescs` left for them. Theorems:
`FramesAreOwnedOnce` (`FramesOwnedOnce`), `FillIsNeverOverrun`
(`FillNeverOverflows`), `RxRingHasRoom` (`RxFullOnlyBeforeRelease`) and
`ReceiverDelivers` (`PrintsWhatWasPosted`): the receiver implements `Delivery`.

**`XdpSockTx_proof`.** What is on the wire, with the kernel and on the ring is
always the batch; moving the first element of one sequence to the end of the
sequence before it does not change the concatenation. Theorems:
`BatchSubmittedOnce` (`BatchIsSubmittedOnce`), `KernelReadsPreparedFrames`
(`OnlyPreparedFramesSent`).

**`NetlinkListener_proof`.** The invariant follows a message from the kernel to the
program. It says that there are two messages `p` and `e`, where `e` is the last
one of the datagram received last and `p` the last one the program is done with or
is parsing, such that

- the queue and the datagram being filled hold what is behind `e`, in order, up
  to a message that found the queue full (`InFlight`);
- the messages from `p` on to `e` lie in the buffer as the kernel laid them out,
  and the words behind them are from messages before `p` or from the stack
  (`Reading`);
- `handled` is the part of `due` up to `p` (`InOrder`);
- the attribute loop is at the attribute behind the last one printed, or behind
  the message by at least as many words as it printed there (`InLoop`).

Apart from `p` and `e` it says what has been printed of each message (`Printing`)
and how far the dump is (`Dumping`). Two facts carry the proof. The
kernel puts a message behind others only where it fits into the buffer, so that a
message is cut only if it is alone in its datagram and longer than the buffer
(`SkbGrows`, `DatagramFacts`). And where a message follows in the datagram, the 16 bytes the
attribute loop goes too far are the header of that message, whose `nlmsg_len` is
at least 20: more than the bytes left, so that the loop ends there (`AttrFacts`).
Only behind the last message of a datagram is something taken for an attribute by
mistake, and that is older. That attributes of a message begin one behind the
other for any two of them, not only for neighbours, is shown by a least
counterexample (`OffsetsIncrease`). Theorems: `OverreadBounded`
(`OverreadIsOneHeader`), `AttributesPrinted` (`AllAttributesPrinted`),
`PhantomsStale` (`PhantomsAreStale`), `DumpComplete` (`DumpIsComplete`; of `Spec`,
whose kernel resumes by index), and
`ListenersDeliver` (`HandlesWhatWasSent`): the six programs implement `Delivery`.

**`XdpCount_proof`.** `NeverOvercounts` is strengthened by what each CPU has
loaded: no register exceeds the total. That the counter is exact without overlap
holds, by its statement, only when all CPUs are idle; the invariant `Exact` says
it of every state, with one CPU at most in the update and its register equal to
the counter. Theorems: `CounterNeverOvercounts` (`NeverOvercounts`),
`CounterIsExact` (`ExactWithoutOverlap`), `ProgramsLookInside`
(`LooksInsidePacket`).

**`LinkConfig_proof`.** That one hook is created per link needs more than itself: as
long as no qdisc was deleted, the hook a run created is still on its link while
the link is in this namespace (`Hooks`), the request a run waits to send is of a
kind it can have (`Requests`), and indices are not used again (`Kernel`). Most of
the proof is about `Rtnetlink`, for any table and any request: `HandleKeeps` says
that no request takes a qdisc from a link that stays here but the one that
deletes qdiscs, and that it makes links only with new indices; `HookIsNew` says
that an exclusive request succeeds only where there was no qdisc.

The three action properties are about a step that sends a request which an earlier
step filled. So they need what each program put into its waiting request and
which links bore the name when it looked (`Waiting`), and that the ends of a pair
are each other's peer (`Paired`), because deleting one deletes the other. `Effect`
lists what a request can do to a table: refuse, edit the one link it means, remove
a pair or add one. Theorems: `OneHook` (`OneHookPerLink`), `ChangesWhatWasNamed`
(`OnlyNamedLinkChanges`), `ChangesTakeDown` (`ChangedLinksAreDown`),
`LoadersTellTheTruth` (`LoaderStatusIsTrue`).

**`Netns_proof`.** `O_EXCL` makes a run the owner of the file at its path until
somebody unlinks it (`Owns`); every namespace mounted on a file is of such a run,
and two runs cannot both have the file. `BareFile` needs besides that the
creator of a file is at work on its path or has ended, and that a del-netns which
left a file bare has ended with an error, so that `left` stays what it is; where
the link goes needs
that a run has a descriptor exactly while it waits to send (`Typed`). Theorems:
`OneNamespace` (`OneNamespacePerName`), `BareFile` (`BareFileHasCause`),
`LinkGoesWhereOpened` (`LinkGoesWhereNameLed`).

**`Mqtt_proof`.** At most once needs that who has written is leaving, so that no
callback publishes again (`Writes`), and that a message is in one place on its way
to a subscriber: in flight, in the broker's queue, or printed (`Places`). The order
in which two subscribers print is decided when the broker passes a message on:
what is printed and what is on its way, taken together, has one order
(`OneOrder`). Theorems: `DeliversAtMostOnce` (`AtMostOnce`), `PrintsInOneOrder`
(`PrintsWhatWasWritten`), `ZeroStatus` (`ZeroMeansWritten`).

### Only model-checked

- The liveness properties, because liveness and `ENABLED` are out of the prover's
  reach: `EveryPostedPacketPrinted` and `KernelIsWoken` (`XdpSockRx`), `Terminates`
  (`XdpSockTx`), `EventsAreHandled`, `FailedSocketEnds` and `AnswerEndsGetLinks`
  (`NetlinkListener`), `PubEnds` and `SubStays` (`Mqtt`).
- What the violation runs show: a counterexample of a small instance is all there
  is to it. `PositionSpec` has no theorem: it is there for one of them.
- Where the attributes of the messages of a run begin: `MC_NetlinkListener`
  computes it by a fold, and what a fold computes for every input would be an
  induction over data. The proof takes `ContentsAssumption` instead, and TLC
  evaluates that for the contents of the runs.

## Plan

1. Lemmas that more than one proof module has in its own words (sequences that
   grow at the end, one field of a function that changes), stated once.
2. Second properties for parts whose safety rests on one invariant: what a monitor
   has handled when it ends after a lost event, which links of a dump by position
   are listed all the same. TLC first, then the proof: the invariants above say
   most of what they need.
3. The hazards without a property stay without one, each for the reason noted in
   `PROJECT.json`.

## Not modelled

What programs print of a packet, an attribute or an event (the `switch` of
`parse_rta()`, `print_addr()`, `print_stats()`, the flags of `if-flags.c`);
arguments and usage messages; the ELF and libbpf loading of programs, which is one
step that may fail. One mistake in printing, found by reading, is under `findings`
and `hazards` in `PROJECT.json`; so are three of the configuration programs and
tc-attach, which the model has and no property forbids.

The setsockopt filter keeps no state: it passes a call on or drops it, as a
constant function of the option. It does not compare the level, so that the
options 50 and 76 are dropped at every level; there is no behaviour over steps to
check. tc-accept and xdp-accept return a constant, getenv prints one variable.

Of the kernel, only what the programs' requests reach: no other qdiscs than clsact,
no priorities of filters, no second address, no events of the configuration
programs in the queue of the monitors (`NetlinkListener` takes any events).
