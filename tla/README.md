# Verification of the FDTP network simulator

The repository is a discrete-event network simulator (`netsim/netsim`) and a
file transfer protocol, FDTP, that runs on it (`netsim/dtp`). A scenario file
names links, routers, hosts and flows; the program replays it in virtual time,
in one thread. This directory holds TLA+ models of the protocol and of the
simulator underneath, the TLC configurations that check them, and TLAPS proofs
of what they promise each other.

Paths below are relative to `src/netsim`.

## 1. Inventory

| component | state | operations | interacts with |
|---|---|---|---|
| **FDTP flow** `dtp/Host.cpp`, `FDTPFlow.cpp` | per host: `sync_bit`, `term_bit`, `sent_window`, `packets_in_window`, `last_ack`, `sent_so_far`; `recv_window`, `recv_so_far`, `ter_seq`; `retrans`, `retrans_bit`, `retransmit_pkt`; the two files | `receive()` (SYN, SYN-ACK, ACK, data, FIN, FIN-ACK), `handle_timer()` (start of a flow, control and data timers), `sync()`, `send_file()`, `sent_window_sync()`, `recv_window_sync()`, `terminate()`, `reset()` | sends through its `FIFONode`, arms timers at the scheduler, and writes `term_bit` of the *other* host directly |
| **Congestion control** `Host::congestion_control()` | `window_size`, `Window_threshold`, `alpha1`, `ACKcount`, `ECNcount`, `ACKcounter` | one update for each new ack, halving on repeated acks, 1 after a timeout | reads the ECN echo that a destination copies from the router's mark |
| **RTT/RTO estimator** in `sent_window_sync()` | `RTT`, `RTTVAR`, `RTO`, `last_transmit`, `send_time` | one update for each new ack | sets how far ahead timers are armed |
| **Successive flows** `dest_map`, `sync()`, `reset()` | flows still to start, members that `reset()` leaves | a start timer takes a flow from `dest_map` and resets both ends | shares every member with the flow before |
| **Output queues** `FIFONode.cpp`, `dtp/Router.cpp` | per next hop: `packet_queue`, `pending_send` | `send()`, `receive()`, `send_it()`, `send_done()`, `enq()` (a router marks ECN), `deq()` | `Topology` for the route, `PacketScheduler` for the transmission |
| **Event engine** `Scheduler`, `Timer`, `PacketScheduler` | `virtual_clock`, `timer_map`, `packet_map`, `node_map` | `run()`, `set_timer()`, `cancel_timer()`, `process_timer()`, `send_packet()`, `process_packet()` | calls `handle_timer()`, `receive()`, `send_done()` of the nodes |
| **Topology** `Topology.cpp` | `linkMap` | `add_link()`, `nexthop()`, `link_delay()`, `link_trans_delay()` | read by the queues and the engine |
| **Configuration** `Config.cpp`, `dtp/app_config.cpp`, `parser.y`, `main.cpp` | `config_args`, `config_argnum` | `add_arg()`, `process_command()`, `process_app_command()` | constructs the nodes and flows, fills the topology and `node_map` before the first event |
| Tracing, packet printing; SHA-1 tool, scripts | – | output only | – |

What is hard here is not parallelism (there is one thread) but the order of
events that come from several actors: acks that race an early timeout, a FIN
that overtakes a lost chunk, a lost handshake ACK, a retransmission of what has
arrived, a timer and a packet due at the same instant, a completion of a
transmission and a new packet for the same queue. What makes each component
correct:

* flow: the copy is always a prefix of the file, complete when the flow is
  reported torn down; acks are true; the window is what is outstanding; one
  timer, on the oldest packet, exactly while something is outstanding; the two
  ends agree; under finitely many losses the file arrives;
* congestion control: the window reacts to marks once in a round, never leaps,
  and a source whose window has become 0 is not stuck;
* queues: no stall, one transmission at a time, every packet accounted for,
  a mark before the first drop;
* engine: the clock never goes back, equal times keep the order of insertion;
* queues and engine together: order is kept end to end in each flow;
* topology: routes exist and are shortest, and the search ends;
* estimator: RTT is a round trip, no timer is set for the present, what is
  measured belongs to the flow;
* successive flows: a flow begins on time whatever the one before has left
  behind, and writes its own copy;
* configuration: what is built is what the file says.

`PROJECT.json` lists the hazards, each at its line with the properties that
would catch it.

## 2. Modules

| module | content |
|---|---|
| `FileTransfer` | abstract specification of a flow: chunks delivered in order, acknowledged only when delivered, closed only when complete |
| `Fdtp`, `MCFdtp` | the protocol of one flow on two hosts |
| `FdtpProofs` | what each operator of `Fdtp` keeps of its host; the inductive invariant, its proof, and the refinement to `FileTransfer` |
| `LossyChannel` | abstract specification of what the network promises a flow: it drops, and never reorders or repeats |
| `Network`, `MCNetwork` | event engine, output queues and links, with virtual time |
| `NetworkProofs` | proofs about `Network`, up to the refinement to `LossyChannel` |
| `RttEstimator` | the arithmetic of the round-trip estimate |
| `Rto`, `RtoProofs` | the estimate, `last_transmit` and `send_time` through several flows of a host |
| `RttSteady` | the estimate on a network that has become steady |
| `CongestionControl`, `MCCongestion`, `CongestionProofs` | the window, a float with its limits, and the counters it depends on |
| `Hosts`, `MCHosts` | the `Host` objects themselves: several flows, virtual time, every member of the protocol |
| `HostsProofs` | the inductive invariant of `Hosts`: the members of a host fit together, whatever flows overlap |
| `OneFlow`, `MCOneFlow` | the refinement from `Hosts` with one flow to `Fdtp`; its proof is `OneFlowProofs` |
| `Topology`, `MCTopology`, `TopologyProofs` | the link map and `nexthop()` |
| `Config`, `MCConfig`, `ConfigProofs` | reading a scenario file |

The parts are composed by refinement and by shared modules:

    Hosts --OneFlow (proved)--> Fdtp --(proved)--> FileTransfer
      |                 |
      |                 +-- its two channels are LossyChannels
      |                                 ^
      + RttEstimator <-- Rto            |
                                 Network --(proved)--> LossyChannel
                                    |
                                    + RoutesAssumption, HopsAssumption: what
                                      Topology's nexthop() is proved to answer
    CongestionControl: the values that Fdtp and Hosts take from Windows

* `Network` implements `LossyChannel` for every pair of hosts, and `Fdtp` is the
  protocol over exactly such channels, one for each direction. `Fdtp` drops
  only at the head of a channel and `LossyChannel` anywhere in it; for the
  receiver, who sees a packet only at the head, the two are the same.
* `Fdtp` lets a timer expire at any moment while it is armed; `Hosts` keeps the
  clock and the measured RTO. With one flow every behaviour of `Hosts` is one of
  `Fdtp`, so what is proved of `Fdtp` holds of hosts that keep time.
* `Hosts` is written for any number of flows and roles, one record per `Host`
  object; `Fdtp` for one flow, with the members a source and a destination use.

## 3. Fdtp: one flow

`src` and `dst` are the two `Host` objects, with a field for every member the
control depends on, under the member's name. `out` is the channel away from a
host. Every action is one event of the simulator and does all that its handler
does:

| action | code |
|---|---|
| `Start` | `handle_timer()` of the start timer: `sync()`, `reset()` of both hosts, SYN |
| `SrcSynAck` | `receive()`: SYN-ACK, ACK, first `send_file()` |
| `SrcAck` | `receive()`: `sent_window_sync()`, then `send_file()` (and through it `terminate()`); a repeated SYN-ACK first goes through `handle_timer()` |
| `SrcFinAck` | `receive()`: FIN-ACK, `term_bit` of both hosts |
| `DstSyn`, `DstAck`, `DstData`, `DstFin` | the branches of `receive()` at the destination; `DstData` contains all of `recv_window_sync()`, with the drain of the buffer and the deferred FIN |
| `SrcIgnore`, `DstIgnore` | packets that match no branch, and what `receive()` does before it branches |
| `SrcSynTimeout`, `SrcDataTimeout`, `DstSynAckTimeout` | `handle_timer((void*)1)`/`NULL` for the armed timer |
| `LosePacket`, `LoseAck` | a full queue on the way |

Packets are numbered as in the code: SYN 1, ACK 2, chunks 3 to `Chunks`+2, FIN
`Chunks`+3. A chunk's payload is its number, since the properties only ask
which chunk it is. A member that the code leaves uninitialised
(`dup_ack_count`) starts with either parity, all that is ever used of it.

Abstracted:

* *Time.* A timer may expire at any moment while it is armed. The code's RTO
  follows the measured RTT down, so timers do expire before the ack is back
  (`MarginVanishes` below), and every order of ack and timeout has to be safe.
  `retrans` says whether the member holds a time that has not passed.
* *Window.* The value `congestion_control()` leaves after a new ack is any
  element of `Windows`; halving (repeated ack) and 1 (timeout) are the code's.
  `window_size` is the float rounded up: the code compares it with an integer.
* `cancel_timer()` of a timer that is not there ends the program by
  `ASSERT(false)`. In the model it takes `timers` to -1, which `TypeOK`
  forbids.

`FileTransfer` is what the user of the simulator may rely on: chunks arrive in
order, the source learns only of chunks that have arrived, and the flow is
closed only when all have.

## 4. Hosts: several flows, and time

One record per `Host` object, with every member of the protocol and the
multiset of its armed timers (every cookie in `dtp` is `NULL`, so a timer is
its time); `net` is the path between two hosts, with arrival times. Operators
on the record are the code's functions (`SendFile`, `SentWindowSync`,
`RecvWindowSync`, `HandleTimer`, `Receive`, `Reset`, `Sync`, ...); `out` (by
destination), `text` and `died` collect what a handler did to the rest of the
world.

| action | code |
|---|---|
| `StartFlow(a)` | `handle_timer()`: the condition at `Host.cpp:324`, `sync()` with `reset()` of both ends, the files opened, SYN |
| `OtherTimer(a)` | `handle_timer()` for every other timer, those of an earlier flow and start times that are passed over included |
| `Arrive(l)` | `receive()` in whatever role and phase the host is, with the write of the other end's `term_bit` |
| `Lose(l)` | a full queue on the way |

Timers go before packets of the same time, as in `Scheduler::run()`; which of
two hosts' events of equal time goes first is left open. `clash` records that a
flow was due while one of its hosts was in another: the properties about copies
and completion are about flows that do not meet, `TypeOK` and `NeverDies` about
all. `OneFlow` maps the two records to `src` and `dst` of `Fdtp`.

Left out: a `receive()` at exactly the start time of a further flow, which
enters the start branch through its call of `handle_timer()`: the timer goes
first in `Scheduler::run()`, so this needs a start timer that has just been
passed over.

## 5. Timers and window

**`Rto`.** `Sync` (start of a flow), `SynAck`, `NewAck` are the places that
change `estimate`, `last_transmit` and `send_time`; each takes any of `Gaps` in
time. `SendFile` is the part of `send_file()` that dates packets. `send_time` is
a `std::map` that only `insert()` writes and `reset()` does not clear. All
arithmetic is the code's: computed in `double`, truncated to the integer `Time`.
`RttSteady` takes `RttEstimator` alone, from every estimate, with one round
trip over and over.

**`CongestionControl`.** `Cut`, `Feedback` and `Grow` are the parts of
`congestion_control()`, `Halve` the repeated ack, `Timeout` the data timer,
`Established` the start of a flow. The floats are counted in `Unit`-ths, the
least float being one: what is less is 0 (`Part`, `Scaled`), what is more than
`MaxFloat` is `Infinity`, x/0 is `Infinity` and infinity times 0 is `NaN`
(`Inverse_Added`, `Scaled`); rounding is towards 0 and -0 is 0. A float that does
not fit into an int makes it any member of `Wild`. `Leftovers` are the values that
memory may hold for `ACKcount` and `ECNcount` before the first flow: any integers,
as nothing sets them; later flows inherit what the flow before has left.
`in_flight` bounds the acks by the packets that were sent. `memory`, `shrunk`,
`sinceCut` and `cutAt` are history.

A first flow that finds counters such as `ACKcount` 1, `ECNcount` 4 has a share of
marks above 1 and may cut its window to 0 or below; it then may have chunks left,
nothing outstanding, and no timer. The code does this, and the properties
say what is true nonetheless: `Trusted` is the condition that the counters in
memory made a share (`Sound`) or that the host is in a later flow. What a first
flow leaves is always sound. Marks are never more than acks in a round, trusted or not.

## 6. Network: the simulator underneath

One thread: `running` is the host whose handler is being executed, or `Idle`.
While it is `Idle`, `Scheduler::run()` takes the head of the earlier of the two
maps (a timer on a tie). `ProcessTimer` and `Deliver` enter a host's handler,
which calls `HostSend`, `SetTimer`, `CancelTimer` in any order until `Return`:
so the result holds for any protocol on the hosts, FDTP among them. `Forward`
is `receive()` of a `Router` or `FIFONode`, `SendDone` its `send_done()`; both
contain the `send_it()` at the end. `send_packet()` is inside `SendIt`: the
reception after propagation and transmission, the completion after the
transmission.

The two classes of queues are the same code, but for the ECN mark of
`PacketQueue1::enq()`; `Marked` applies it at Routers. The multimaps keep equal
keys in the order of insertion, which `ticket` records. `Topology::nexthop()`
is the constant `NextHop` (`RoutesAssumption`: it names a neighbour, and no
route runs through a host, because `Host::receive()` takes every packet as its
own; `HopsAssumption`: it gets nearer to the destination, `Hops` being the
distance). `cancel_timer()` cannot tell the timers of a host for one time apart
and erases the oldest. `sent`, `arrived` and `dropped` are history.

## 7. Topology and configuration

**`Topology`.** `AddLink` is `add_link()` with `erase_link()` in both
directions; `Ask` enters `nexthop()`; `Return` and `Visit` are one turn of its
loop, and `FallThrough` the assertion behind it. `lines` (what the file says
last of a pair) and `visited` (turns of the loop) are history. `LastLineIsUsed`
and `OneStepNearer` are what `Network` assumes of links and routes.

**`Config`.** An action for each command of the file (`Link`, `FIFONode`,
`Router`, `Host`, `FDTPFlow`), one for the commands of `dtp` that end the
program on a wrong number of arguments (`Fatal`), one for a command nobody
knows, and `Stop` for the end of the file or its first syntax error: `main()`
ignores what `yyparse()` returns and runs what has been read. Argument slots
are untagged and keep what an earlier command left in them, and before the first
command what memory held (`Memories`). Of the 20 slots commands read four.
An `Address` is a number modulo 2^16 (`AddressLimit`). The phase "undefined" is
what follows a flow line that reads a number as a file name or goes through a
node that is missing or no Host. `file` and `memory` are history; `Says(k, j)` is
what they give for argument j of line k, and `BuiltAsWritten` compares everything
that has been built with it, line by line.

## 8. Runs

| run | bounds | shows |
|---|---|---|
| `fdtp` | 4 chunks, windows {1,2,4}, 3 losses, 5 packets in flight | invariants of the protocol, `NoResendOfAcked`, the refinement to `FileTransfer`, and `Delivered` |
| `fdtp_hang` | 3 chunks, 1 loss | **violated**: `DoneMeansTornDown` |
| `network` | hosts a and c on one Router (queue of 2), a slow link, a FIFONode (queue of 1), host b; 5 calls | no stall, one transmission at a time, every packet accounted for, marks before drops, the refinement to `LossyChannel`, and `Drains` |
| `rto` | 2 flows of up to 3 chunks, gaps 1, 2, 11 | `RttWithinSamples`, `TimersLieAhead`, `MeasuresOwnFlow` |
| `rto_steady` | round trips and deviations up to 24 | `Settles`, `MarginVanishes` |
| `congestion` | 2 flows of 5 chunks, threshold 3, floats from 1/4 to 15, ints up to 8 | `FeedbackIsAShare`, `WindowOpens`, `OneCutPerRound`, `NoLeapAboveThreshold` |
| `hosts` | flows a-b, a-b, b-a of 2 chunks, each at 0, 25, 70 or 300; 2 losses | `NeverDies`, `CopiesAreTrue`, `NoFlowIsSkipped`, `AllDone` |
| `hosts_overlap` | the same at 0 or 25, no loss | **violated**: `EveryFlowStarts`, for flows with a start time of their own |
| `one_flow` | 5 chunks, windows {1,2,3}, 3 losses | the refinement to `Fdtp` |
| `topology` | 4 nodes, 4 lines with 2 costs, 12 turns | `LastLineIsUsed`, `OneStepNearer`, `WorkBounded`, `Answered` |
| `topology_isolated` | 3 nodes, 3 lines | **violated**: `NeverFallsThrough` |
| `config` | 5 lines out of right and wrong ones | `FlowsMeetTheirPackets`, `BuiltAsWritten` |

Deadlock is not checked where the program stops of itself: the simulator when
no event is left, the reader at the end of its file. Why the bounds are enough:

* `fdtp`: four chunks and a window of four let a run of three buffered chunks
  and a waiting FIN be released by one packet; three losses take the
  handshake's ACK, a chunk and an ack in one behaviour; five packets in flight
  let a window and its retransmissions overlap. `Calm`, the numbers of
  packets in flight while a timer may expire, only stops timers from adding
  packets.
* `network`: two packet lengths make a later packet shorter than an earlier
  one, which would overtake it if a link ever carried two at once. Five calls
  let two senders fill a queue of two behind a transmission and lose a packet.
  Delays 0 and 24 and starts at the times of arrivals make timers and packets
  fall due together.
* `rto`: a second flow reuses the numbers of the first one's packets; gaps of 1
  and 11 make averages truncate upwards and downwards.
* `congestion`: a float of so few values reaches all its limits in a flow of five
  chunks: two halvings bring a window of 1 to 1/4 and a third one to 0, which the code's
  float takes 150 for, the next ack divides by it, and windows become infinite, NaN and
  negative (each was seen to be reached). The counters in memory are sound (none, 2 acks
  with 1 mark) or not (more marks than acks, a negative number of acks).
* `hosts`: 25 lies in the middle of a flow that starts at 0, 70 behind one
  without losses and inside one with losses, 300 behind every flow. With these
  the three flows come one after another, in either direction, at the same
  time, and on top of each other. `MaxTime` lies
  well behind the last start.
* `one_flow`: five chunks, so that a window of 3 can move past a loss.
* `topology`: four nodes and four lines hold the line, the star, the triangle
  with a tail, the square, and every replacement of one line by another. Where
  the destination has links but cannot be reached the code's loop does not end;
  `MaxVisits` cuts it, and the properties speak of destinations that can be
  reached, for which 12 turns are enough.
* `config`: five lines declare two hosts, a third node with the same address (by
  another number modulo `AddressLimit`, too), a link and a flow. `Link` with one
  argument and `FIFONode` with none take the rest from the lines before, those of an
  unknown command included, or from a memory of zeroes or of plausible arguments.

**Fairness.** `Scheduler::run()` returns only when both maps are empty, and
virtual time reaches every event in them; handlers are ordinary functions that
return.

* `Fdtp`: a packet in a channel is delivered or dropped, and an armed timer
  expires unless it is cancelled. Arrivals get weak fairness. The bound
  `Calm` disables a timer from time to time, which the code never does,
  so timers get the strong form. No fairness is given to losses; `MaxLosses`
  makes them finite.
* `Network`, `Hosts`: the event loop goes on while an event is left: weak fairness of
  `Next`. `Hosts` writes it out as `<>[]Pending => []<><<TRUE>>_vars`, with what
  enables `Next` in the place of ENABLED.
* `Topology`: the loop of `nexthop()` goes on; no fairness for further
  questions.
* `RttSteady`: acks keep coming.

**What the violations show.**

* `fdtp_hang`: the destination answers an in-order FIN with a FIN-ACK but does
  not remember it (the assignment `term_bit=2` at `Host.cpp:273` is commented
  out), so its answer to a late duplicate chunk is a plain ack with the FIN's
  number. If the FIN-ACK is dropped and that ack arrives, the source takes the
  FIN out of its window and cancels its only timer, and the simulation ends
  with the flow not torn down, while `Scheduler.cpp:46` says that we are done.
  The file itself is complete: `Delivered` holds.
* `hosts_overlap`: a start timer that finds its host in the middle of a flow is
  used up without starting anything, and no code looks at the flow again: a flow
  at 0 is still going on when the timer of the next flow of the same host, at 25,
  goes off. The property asks this only of flows whose host has no second flow with
  the same start time; of two with the same time `insert_p()` keeps the first, since
  `dest_map` is a map (`Host.cpp:942-949`), which is another way of losing a flow.
* `topology_isolated`: the assertion behind the loop of `nexthop()` is reached
  for a destination that no Link line names.

## 9. Proofs

All theorems hold for every value of the constants that their modules' named
assumptions allow.

| module | theorem | statement |
|---|---|---|
| `FdtpProofs` | `Inductive` | `Spec => []IInv` |
| | `TypeCorrect`, `PrefixCopied`, `CompleteWhenTornDown`, `AcksAreTrue`, `WindowCounts`, `OneTimerArmed`, `EndsAgree` | `Spec => []` of `TypeOK`, `Integrity`, `CompleteAtTeardown`, `AckedIsReceived`, `WindowIsUnacked`, `RetransTimer`, `HandshakeAgreement` |
| | `NothingAckedIsResent`, `FlowsTransferFiles` | `Spec => NoResendOfAcked`, `Spec => ImplementsFileTransfer` |
| `RtoProofs` | `Inductive` | `Spec => []IInv` |
| | `EstimateWithinSamples`, `RtoStaysBounded`, `NoTimerForThePresent`, `MeasuresOwnPackets` | `Spec => []` of `RttWithinSamples`, `RtoBounded`, `TimersLieAhead`, `MeasuresOwnFlow` |
| `NetworkProofs` | `TypeCorrect`, `QueuesNeverStall`, `LinksKeepOrder` | `Spec => []` of `TypeOK`, `QueueMoves`, `OneAtATime` |
| | `ClockAdvances`, `MarksPrecedeDrops` | `Spec => ClockNeverBack`, `Spec => WarnedBeforeDrop` |
| | `EveryPacketAccounted`, `FlowsHaveChannels` | `Spec => []Accounted`, `Spec => ImplementsChannel` |
| `CongestionProofs` | `EstimateIsAShare`, `WindowNeverShut` | `Spec => []` of `FeedbackIsAShare`, `WindowOpens` |
| | `CutsAreARoundApart`, `WindowNeverLeaps` | `Spec => OneCutPerRound`, `Spec => NoLeapAboveThreshold` |
| `HostsProofs` | `MembersFitTogether`, `NoHostDies` | `Spec => []` of `TypeOK`, `NeverDies` |
| `OneFlowProofs` | `OneFlowIsFdtp` | `Spec => ImplementsFdtp`, `Spec` being that of `Hosts` |
| `OneFlowProofs` | `OneCopyIsTrue`, `OneFlowIsNotSkipped` | `Spec => []CopiesAreTrue`, `Spec => []NoFlowIsSkipped`, for one FDTPFlow line |
| `TopologyProofs` | `LastLineStands`, `HopsGetNearer`, `SearchEnds` | `Spec => []` of `LastLineIsUsed`, `OneStepNearer`, `WorkBounded` |
| `ConfigProofs` | `TypeCorrect`, `FlowsFindTheirHosts`, `BuiltFromTheLines` | `Spec => []` of `TypeOK`, `FlowsMeetTheirPackets`, `BuiltAsWritten` |

**Fdtp.** The assumption with content is `MaxQueueAssumption`: the code writes
`MAX_QUEUE` (99999) into `ter_seq` for "no FIN yet", so a file must have fewer
than 99996 chunks. None of the invariants is inductive alone. That the copy is
a prefix depends on what the buffer holds, this on what is in the channel, this
on what the source has ever sent, and the teardown on acks still in flight.
`IInv` therefore says what each host is between two events, phase by phase:

* `Untouched`, then `Connecting` (SYN sent, the destination fresh or `Waiting`),
  then `Connected`;
* an `Open` source: every packet ever sent is a function of its
  number (`Packet(i)`), the window is exactly the packets between `last_ack`
  and `sent_so_far`, and the oldest of them is watched by the one timer;
* an `Established` destination: its file is the chunks up
  to `recv_so_far`, its buffer holds packets strictly beyond the gap and never
  the FIN, and every ack in flight names a packet received; one with FIN set
  names the FIN;
* `last_ack` is at most `recv_so_far`, until the FIN is sent something is
  outstanding, and a source that has closed has closed the destination.

There is one lemma for each operator of the model (`SendFileLemma`,
`SentWindowSyncLemma`, `CountedLemma`, `DataLemma`, ...) and one for each
action, and `NextInv` puts them together. The action lemmas also say what an
action does to the abstract flow (`Arrives`: the copy grows by chunks in order;
`Learns`: the source's knowledge grows to what has arrived; `Closes`; `Opens`),
from which `FlowsTransferFiles` maps every step to one of `FileTransfer` or a
stutter. `NothingAckedIsResent` follows what each operator adds to the channel
(`Adds`): the burst and the FIN have new numbers, and the packet that is watched
lies beyond `last_ack` even after the ack that makes the source send it.

**Rto.** `IInv` adds to `TypeOK` where `RTT` and `RTTVAR` lie with respect to
the smallest and largest measurement, and that `last_transmit` is a time of this
flow or the `send_time` of the packet that is watched. The arithmetic of the
truncated averages is in lemmas over arbitrary naturals.

**Network.** `TypeOK`, `QueueMoves` and `OneAtATime` need each other: that a
link carries one packet at a time follows from `pending_send`, which in turn is
set exactly while a `send_done` is scheduled. `MarksPrecedeDrops` rests on
`WarnInv`: a router's queue that is more than half full ends in a marked
packet, and half of a size, rounded down, is less than the size.
`EveryPacketAccounted` carries two statements through the steps: each packet
has one place, and each number up to `sent` has some place. `FlowsHaveChannels` is the
end-to-end order: with a measure that orders a flow's packets by how far they
have come (`HopsAssumption`), packets with smaller numbers are ahead, on a link
by time and in a queue by place; so what arrives next is the oldest in transit.

**Congestion.** The assumptions say what a float and an int are (`FloatAssumption`,
`WildAssumption`), and of the counters in memory only that they are integers. `IInv`
holds whatever they are: in a round marks and acks still to come are at most the
acks (`Counted`), `Round` counts the acks since the cut, and the counters are sound
but for a first flow that has seen no ack (`Untouched`). `WindowInv` adds, for a
trusted source, what its window is (`Open`: no NaN, not negative, and not below
a packet while the threshold is positive) and how small: `shrunk` is 2 to the
number of halvings since the window last opened, and (window + 1) * shrunk is more
than a packet. It follows that chunks left to read are never left without one
outstanding: a new ack opens the window at least to a packet, by addition, as the
threshold, or by the quotient, which is above 1 where the window is below and
`Infinity` at 0; a timeout sets it to 1; and a halving lets nothing out and takes
nothing away. So a source whose window is 0 has to wait for an ack, which makes the
window infinite, or for its timer.

**Hosts.** However flows overlap, and although `sync()` resets a host in the
middle of whatever it does, its members fit together. `HostInv` has three parts:

* `Body`, which every operator keeps: types, `Sending` (the window's packets,
  `packets_in_window` at most the chunks read and at least the size of the
  window, less one for a FIN) and `Leaving` (a packet goes to a host and names
  its sender);
* `Armed`: if `retrans_bit` is set the timer for `retrans` is there; if it is 2
  the connection stands and there is a packet to send again. In the handler of
  the timer that has just expired only `Waits` holds, and `HandleTimerLemma`
  shows that it arms the host again;
* `Idle` and `Fresh`: `retrans` is 0 when no timer is awaited, so that
  `retrans >= time()`, the code's test before `cancel_timer()`, is true of
  timers that are there and of no other (a packet arrives after time 0).

`NetInv` says that packets on a path have their times in order and come from
hosts that have `Met`: a host that has never been in a flow sends to `"none"`
only. One lemma for each handler leads to `ReceiveLemma` and `StartLemma`, and
one for each action to `NextInv`. That the proof failed at first for `Connect`
and `Transfer`, whose CASE arms overlapped, made them IF and CASE as the code's
early returns are.

**OneFlow.** `OneFlowAssumption` is that there is one FDTPFlow line; the hosts,
the start time, the file, the windows, the latency and the losses are any. The
proof reads a `Host` as one of `Fdtp`'s records, at a time and with what is on its
way (`SrcOf`, `DstOf`), and shows in turn:

* each operator of `Hosts`, on a host that plays the source (`Sends`) or the
  destination (`Takes`), is the operator of the same name of `Fdtp`: `SetSeen`,
  `SendFileSeen`, `SentWindowSyncSeen`, `RecvWindowSyncSeen` and the others, up
  to the whole of `receive()` (`SourceReceives`, `DestinationReceives`) and of
  the timers' handlers. This is where `retrans >= time()` becomes `Fdtp`'s
  flag: by `Armed` and `Idle` the time in `retrans` has not passed exactly
  while a timer is awaited, and a packet never arrives at that very time;
* between two events (`Going`) only these two hosts have timers, only the two
  paths between them carry packets, and a host's one timer is the one it waits
  for, so `BagCardinality` is `Fdtp`'s count. `Before` is the state up to the start;
* time that passes up to the next event is not seen (`GoingLater`), and each
  action is one of `Fdtp`'s (`StartSeen`, `SrcRings`, `DstRings`, `LoseSeen`,
  `ArriveHome`, `ArriveOut`).

`Joint` is the invariant: that of `Hosts`, that of `Fdtp` read through the mapping,
and `Before \/ During`. `Fdtp`'s is needed because the two handlers differ on
states that do not occur, as an ACK with a number behind the FIN's; it is
inductive by `FdtpProofs`, whose theorems are cited through the instance. With
`Calm <- Nat` the timers of `Fdtp` may expire at any moment. So what is proved of
`Fdtp` (the copy, the acks, the teardown, the timer) is true of the
Host objects and of virtual time.

Two invariants of `Hosts` follow for one flow. `OneCopyIsTrue`: by the type of a
packet's payload (`Payloads`, part of the invariant of `HostsProofs`) what the
destination writes is a chunk of the one file, and by `Integrity` and
`CompleteAtTeardown` of `Fdtp`, read through the mapping, the numbers of the chunks
are 1, 2, 3 and so on, up to the last once the source has closed the flow. `Torn`,
proved inductive beside `Joint`, says that `torn` holds the flow only then.
`OneFlowIsNotSkipped` needs `Joint` alone: before the start its timer is the only
one there is, and after it `Timed` leaves a host the one it waits for.

**Topology.** `LinksInv` says of every node that it has one link to each
neighbour, with the cost of the line that came last (`Single`, `Leads`), through
both calls of `erase_link()`. For `nexthop()`, `Away` are the distances as a
relation over paths of `Joined` nodes; `SearchInv` says that the queue is
`Layered`: its first h entries are L links from the destination and the rest
L + 1; no node at L links is lost, being still in the queue or having its
neighbours there; and the node that asks is not within L links. So the answer
is at L and the node that asked at L + 1. Nodes that are visited again lie
behind those that matter.

`SearchEnds` counts. By `CountInv` every entry of the queue ends a walk of its
own (`Traced`), of L or L + 1 links, and no walk is followed twice: the walks
followed are as many as the turns (`visited`), and the walk of the head is not
among them. While the search goes on L is less than the distance
(`SearchBounded`: the queue cannot run empty, for the shortest walk goes on from
L), so the walks followed and that of the head are among the shorter ones, which
are finitely many by `NodesAssumption`. The turn that returns adds one
(`FoundStep`).

**Config.** `NodesInv`: the first object declared for an address stays the one
that `node_map` names, since `register_to_receive()` inserts into a map and the
flows look their hosts up there; `HostLemma` shows that the map says what the
order of the nodes says (`HostAt`). `SaysLemma` is about the history: a further line
changes nothing of what the file says of earlier ones (the nearest line with so many
arguments is a greatest element, `NearestLemma`), and `FileInv` that the slots are
what the file says at its end. `LinksInv`, `NodesWritten` and `FlowsWritten` have one
element built for each line that builds one, by counting the lines up to it
(`PlacesKept`). `LinesAssumption` asks that a line has no more than the 20 arguments
there are slots for, and that an address is not given as a quoted string.

**Induction.** Invariants are proved by induction over steps, which PTL does.
Where a proof needs the least element of a set of numbers it takes it from the
library's `NatLessThanWellFounded` (`Least` in `HostsProofs`, `LeastNat` in
`TopologyProofs`), which needs no operator as a parameter.

**Checked by TLC only.** Liveness (`Delivered`, `Drains`, `Settles`,
`MarginVanishes`, `AllDone`, `Answered`), which fairness and ENABLED put outside
TLAPS; `CopiesAreTrue` and `NoFlowIsSkipped` of `Hosts` for flows one after another,
which need what `Fdtp`'s `IInv` says of each flow and of the packets an earlier one
left behind; for one flow they are proved. `AllDone` has a limit that the run's two hosts
do not show. With three hosts and flows a-b and then c-a a late reply of b,
with its `sync_bit` of 3, can reach a while a waits for c's ACK: it completes
the connection (`Host.cpp:171`), `destination` becomes b, the acks for c go to b,
and c's flow does not end, without any loss. TLC finds it with three addresses;
the copies stay true.

## 10. Not modelled

* Tracing and packet printing only read the state. The SHA-1 tool and the
  scripts are not part of the simulator.
* `lex.yy.c` and `parser.cpp` are generated; `Config` takes the sequence of
  commands they recognise. The SGI STL headers under `docs/STL_doc` are
  documentation of a library. Together these are most of the lines in the
  repository, and none of its logic.
* `File_size` and other members that are only printed.
* A link from a node to itself; the start of a flow from within `receive()`
  (section 4); a file of `MAX_QUEUE` chunks; the 32-bit width of virtual time
  and packet numbers: no scenario of the repository comes near them.
* The mantissa of the window's `float`: floats are evenly spaced between the least and
  the largest, and rounded towards 0. Counters of the congestion control do not
  wrap around.

The comments and `dtp/README` differ from the code in places that need no run
to be seen: the README gives the first RTO as 3000 and `Host.cpp:26` sets 4000, and
it has the FIN sent with the handshake's ACK, where `send_file()` waits for the
end of the file and room in the window.
