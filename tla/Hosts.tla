-------------------------------- MODULE Hosts --------------------------------
(***************************************************************************)
(* Several hosts that send files to each other, one flow after another or  *)
(* at the same time (dtp/Host.cpp, dtp/FDTPFlow.cpp).                      *)
(*                                                                         *)
(* Fdtp follows one flow, with a source and a destination that are fixed.  *)
(* Here a host is one Host object in whatever role its flows give it, with *)
(* every member of the protocol, virtual time is kept, and the packets of  *)
(* a path take Latency and keep their order; any of them may be dropped.   *)
(* A step is one event: a timer, or an arrival when no timer is due.       *)
(*                                                                         *)
(* The timers of a host all have the cookie NULL, and are a bag of times.  *)
(* Handlers work on one host record; out (packets by their destination),   *)
(* text and died hold what a handler did to the rest of the world and are  *)
(* empty between events.                                                   *)
(***************************************************************************)
EXTENDS RttEstimator, Sequences, FiniteSets, Bags

CONSTANTS Addresses,
          Flows,         \* the FDTPFlow lines: sequence of [from, to]
          StartTimes,    \* the times the lines may give
          Chunks,        \* chunks of every file
          Windows,       \* the values congestion_control() may leave in window_size
          Latency,       \* from send() to receive()
          MaxLosses,     \* bound: packets the network drops
          MaxTime        \* bound: time of the last timer

ASSUME FlowsAssumption == /\ Flows \in Seq([from : Addresses, to : Addresses])
                          /\ \A k \in DOMAIN Flows : Flows[k].from # Flows[k].to
ASSUME ChunksAssumption == Chunks \in Nat \ {0}
ASSUME TimesAssumption == StartTimes \subseteq Nat /\ Latency \in Nat \ {0} /\ MaxTime \in Nat
ASSUME LossesAssumption == MaxLosses \in Nat
ASSUME NoneAssumption == "none" \notin Addresses
ASSUME WindowsAssumption == Windows \subseteq Nat \ {0} /\ Windows # {}

VARIABLES now,
          hosts,         \* [Addresses -> the members of the Host]
          net,           \* [<<source, destination>> -> Seq of [at, packet]]
          copies,        \* [flow -> contents of its destination file]
          losses,
          start,         \* [flow -> its start time]
          begun, torn,   \* flows whose SYN was sent, flows that were torn down
          clash          \* a flow was due while one of its hosts was in another

vars == <<now, hosts, net, copies, losses, start, begun, torn, clash>>

FlowIds == 1..Len(Flows)
MAX_QUEUE == Chunks + 99
NoData == <<0, 0>>

---------------------------------------------------------------------------
(* Packets and timers.  clock is scheduler->time().                 *)

Packet(h, i, fin, ack, data) ==
    [source |-> h.address, destination |-> h.destination, id |-> i, ack_id |-> h.recv_so_far,
     sync_bit |-> h.sync_bit, FIN |-> fin, ACK |-> ack, payload |-> data]

NULL == [source |-> "none", destination |-> "none", id |-> 0, ack_id |-> 0,
         sync_bit |-> 0, FIN |-> 0, ACK |-> 0, payload |-> NoData]

NothingOut == [a \in Addresses \cup {"none"} |-> <<>>]

Send(h, p) == [h EXCEPT !.out[p.destination] = Append(@, p)]

Resend(h) == [Send(h, [h.retransmit_pkt EXCEPT !.ack_id = h.recv_so_far])
                 EXCEPT !.died = @ \/ h.retransmit_pkt = NULL]

Set(h, bit) == LET t == h.clock + h.estimate.RTO
               IN  [h EXCEPT !.retrans = t, !.retrans_bit = bit, !.timers = @ (+) SetToBag({t})]

\* cancel_timer(retrans, NULL) dies when the host has no timer for that time.
Cancel(h) == [h EXCEPT !.timers = @ (-) SetToBag({h.retrans}),
                       !.died = @ \/ ~BagIn(h.retrans, h.timers)]

Ahead(h) == h.retrans >= h.clock

Insert(window, new) ==
    [i \in DOMAIN window \cup DOMAIN new |-> IF i \in DOMAIN window THEN window[i] ELSE new[i]]

Oldest(window) ==
    IF DOMAIN window = {} THEN NULL
    ELSE window[CHOOSE i \in DOMAIN window : \A j \in DOMAIN window : i =< j]

\* An ack, or a packet of the handshake.
Control(h) == LET closed == IF h.term_bit = 2 /\ ~h.sender THEN 1 ELSE 0
              IN  Packet(h, h.sent_so_far, closed, closed, NoData)

\* handle_timer() without the start of a flow: a data timer resends and
\* shrinks the window, a timer of the handshake resends, and whatever else
\* calls it sends a packet of its own.
HandleTimer(h) ==
    IF h.sync_bit = 3 /\ h.retrans_bit = 2
    THEN IF h.retrans = h.clock THEN [Resend(Set(h, 2)) EXCEPT !.window_size = 1] ELSE h
    ELSE LET g == IF h.retrans = h.clock /\ h.retrans_bit = 1 THEN Set(h, 1)
                  ELSE [h EXCEPT !.sent_so_far = @ + 1]
         IN  Send(g, Control(g))

---------------------------------------------------------------------------
(* The sending side.                                                       *)

Room(h) == LET free == h.window_size - h.packets_in_window
               more == Chunks - h.in_file.chunk
           IN  IF ~h.in_file.is_open \/ free =< 0 THEN 0 ELSE IF free < more THEN free ELSE more

Burst(h) ==
    LET n == Room(h)
        packet(j) == Packet(h, h.sent_so_far + j, 0, 0, <<h.in_file.flow, h.in_file.chunk + j>>)
        ids == h.sent_so_far+1 .. h.sent_so_far+n
    IN  [h EXCEPT !.in_file.chunk = @ + n,
                  !.in_file.is_open = @ /\ h.in_file.chunk + n < Chunks,
                  !.sent_so_far = @ + n,
                  !.packets_in_window = @ + n,
                  !.sent_window = Insert(@, [i \in ids |-> packet(i - h.sent_so_far)]),
                  !.send_time = Insert(@, [i \in ids |-> h.clock]),
                  !.out[h.destination] = @ \o [j \in 1..n |-> packet(j)]]

Terminate(h) ==
    LET fin == Packet(h, h.sent_so_far + 1, 1, 0, NoData)
    IN  [Send(h, fin) EXCEPT !.term_bit = 1, !.sent_so_far = @ + 1,
                             !.sent_window = Insert(@, [i \in {fin.id} |-> fin])]

SendFile(h) ==
    LET f == Burst(h)
        full == f.in_file.is_open \/ f.packets_in_window >= f.window_size
        t == IF ~full /\ f.term_bit = 0 THEN Terminate(f) ELSE f
        g == [t EXCEPT !.retransmit_pkt = Oldest(t.sent_window)]
    IN  IF g.retrans_bit = 0 /\ g.retransmit_pkt # NULL
        THEN [Set(g, 2) EXCEPT !.last_transmit = h.clock] ELSE g

DuplicateAck(h) ==
    IF h.dup_ack_count = 0 THEN [h EXCEPT !.dup_ack_count = 1]
    ELSE LET g == [h EXCEPT !.dup_ack_count = 0, !.window_size = (@ + 1) \div 2]
         IN  IF g.retrans_bit = 2 /\ g.retrans > h.clock THEN Resend(Set(Cancel(g), 2)) ELSE g

Acknowledge_KeepsLast(h, ack) ==
    LET gone == IF ack \in DOMAIN h.sent_window THEN {i \in DOMAIN h.sent_window : i < ack} ELSE {}
    IN  [h EXCEPT !.last_ack = ack,
                  !.sent_window = [i \in DOMAIN @ \ gone |-> @[i]],
                  !.packets_in_window = @ - Cardinality(gone)]

Acknowledge(h, ack) ==
    LET gone == IF ack \in DOMAIN h.sent_window THEN {i \in DOMAIN h.sent_window : i =< ack} ELSE {}
    IN  [h EXCEPT !.last_ack = ack,
                  !.sent_window = [i \in DOMAIN @ \ gone |-> @[i]],
                  !.packets_in_window = @ - Cardinality(gone)]

Measure(h, ack) ==
    [h EXCEPT !.estimate = NextSample(@, h.clock - h.last_transmit),
              !.last_transmit = IF ack + 1 \in DOMAIN h.send_time THEN h.send_time[ack + 1] ELSE h.clock]

NewAck_KeepsRetrans(h, ack, window) ==
    LET c == [h EXCEPT !.dup_ack_count = 0, !.window_size = window]
        q == IF Ahead(c) THEN [Cancel(c) EXCEPT !.retrans_bit = 0] ELSE c
        m == Measure(Acknowledge(q, ack), ack)
        g == [m EXCEPT !.retransmit_pkt = Oldest(m.sent_window)]
    IN  IF g.retrans_bit # 0 \/ g.retransmit_pkt = NULL THEN g
        ELSE Set(IF g.retransmit_pkt.FIN = 1 THEN g ELSE Resend(g), 2)

\* The timer is cancelled, and set anew for what is then the oldest packet,
\* which is sent again at once unless it is the FIN.
NewAck(h, ack, window) ==
    LET c == [h EXCEPT !.dup_ack_count = 0, !.window_size = window]
        q == IF Ahead(c) THEN [Cancel(c) EXCEPT !.retrans = 0, !.retrans_bit = 0] ELSE c
        m == Measure(Acknowledge(q, ack), ack)
        g == [m EXCEPT !.retransmit_pkt = Oldest(m.sent_window)]
    IN  IF g.retrans_bit # 0 \/ g.retransmit_pkt = NULL THEN g
        ELSE Set(IF g.retransmit_pkt.FIN = 1 THEN g ELSE Resend(g), 2)

SentWindowSync(h, ack, window) ==
    IF ack < h.last_ack THEN h
    ELSE IF ack = h.last_ack THEN DuplicateAck(h)
    ELSE NewAck(h, ack, window)

---------------------------------------------------------------------------
(* The receiving side.                                                     *)

\* The last packet of the unbroken run behind recv_so_far.
RunEnd(h) == CHOOSE n \in h.recv_so_far .. h.recv_so_far + Cardinality(DOMAIN h.recv_window) :
                 /\ h.recv_so_far+1 .. n \subseteq DOMAIN h.recv_window
                 /\ n + 1 \notin DOMAIN h.recv_window

Store(h, p) ==
    IF p.id < h.recv_so_far \/ p.id \in DOMAIN h.recv_window THEN h
    ELSE IF p.id = h.recv_so_far /\ h.write
    THEN LET run == h.recv_so_far+1 .. RunEnd(h)
         IN  [h EXCEPT !.recv_so_far = RunEnd(h),
                       !.recv_window = [i \in DOMAIN @ \ run |-> @[i]],
                       !.text = <<p.payload>> \o [j \in 1..Cardinality(run) |->
                                                      h.recv_window[h.recv_so_far + j].payload]]
    ELSE IF p.id > h.recv_so_far THEN [h EXCEPT !.recv_window = Insert(@, [i \in {p.id} |-> p])]
    ELSE h

RecvWindowSync(h, p) ==
    LET g == Store(h, p)
        f == [g EXCEPT !.recv_so_far = @ + 1, !.sent_so_far = @ + 1]
    IN  IF g.ter_seq = g.recv_so_far + 1 /\ g.write
        THEN [Send(f, Packet(f, f.sent_so_far, 1, 1, NoData)) EXCEPT !.term_bit = 2]
        ELSE HandleTimer(g)

ReceiveFin(h, p) ==
    LET g == [h EXCEPT !.sent_so_far = @ + (IF h.write THEN 1 ELSE 0)]
    IN  IF h.term_bit = 2 THEN h
        ELSE IF p.id = h.recv_so_far THEN Send(g, Packet(g, g.sent_so_far, 1, 1, NoData))
        ELSE [h EXCEPT !.term_bit = 1, !.ter_seq = p.id]

---------------------------------------------------------------------------
(* receive().                                                              *)

\* A sender takes any number for the last one received.
Count(h, p) ==
    LET next == ~h.sender /\ p.id = h.recv_so_far + 1
    IN  [h EXCEPT !.write = next, !.flag = 0, !.recv_so_far = IF h.sender \/ next THEN p.id ELSE @]

ReceiveSyn(h, p) == Set(HandleTimer([h EXCEPT !.destination = p.source, !.sync_bit = 2]), 1)

ReceiveSynAck_KeepsBit(h, p) ==
    LET g == IF Ahead(h) THEN Cancel(h) ELSE h
    IN  SendFile(HandleTimer(
            [g EXCEPT !.destination = p.source, !.sync_bit = 3, !.last_ack = 2, !.flag = 1,
                      !.estimate = FirstSample(h.clock - h.last_transmit)]))

ReceiveSynAck(h, p) ==
    LET g == IF Ahead(h) THEN [Cancel(h) EXCEPT !.retrans_bit = 0] ELSE h
    IN  SendFile(HandleTimer(
            [g EXCEPT !.destination = p.source, !.sync_bit = 3, !.last_ack = 2, !.flag = 1,
                      !.estimate = FirstSample(h.clock - h.last_transmit)]))

\* A packet that comes in the place of the lost ACK is counted with it.
ReceiveAck(h, p) ==
    LET g == IF Ahead(h) THEN [Cancel(h) EXCEPT !.retrans = 0, !.retrans_bit = 0] ELSE h
        late == p.id > h.recv_so_far
        next == p.id = h.recv_so_far + 2
    IN  [g EXCEPT !.destination = p.source, !.sync_bit = 3,
                  !.flag = IF late THEN 0 ELSE 1,
                  !.write = @ \/ (late /\ next),
                  !.recv_so_far = IF late /\ next THEN @ + 2 ELSE IF late THEN @ + 1 ELSE @]

Connect(h, p) ==
    IF h.term_bit # 0 THEN h
    ELSE CASE p.sync_bit = 1 /\ h.sync_bit = 1  -> ReceiveSyn(h, p)
           [] p.sync_bit = 2 /\ h.sync_bit = 3  -> HandleTimer(h)
           [] p.sync_bit = 2 /\ h.sync_bit = 1  -> ReceiveSynAck(h, p)
           [] p.sync_bit = 3 /\ h.sync_bit = 2  -> ReceiveAck(h, p)
           [] OTHER                             -> h

Transfer(h, p, window) ==
    IF h.sync_bit # 3 \/ h.flag = 1 THEN h
    ELSE CASE p.FIN = 0 /\ h.sender                -> SendFile(SentWindowSync(h, p.ack_id, window))
           [] p.FIN = 0 /\ ~h.sender               -> RecvWindowSync(h, p)
           [] p.FIN = 1 /\ p.ACK = 0 /\ h.sender   -> SentWindowSync(h, p.ack_id, window)
           [] p.FIN = 1 /\ p.ACK = 0 /\ ~h.sender  -> ReceiveFin(h, p)
           [] p.FIN = 1 /\ p.ACK = 1 /\ h.sender /\ h.term_bit = 1
                  -> SentWindowSync([h EXCEPT !.term_bit = 2], p.ack_id, window)
           [] OTHER                                -> h

Receive(h, p, window) == Transfer(Connect(Count(h, p), p), p, window)
---------------------------------------------------------------------------
(* Start-up and events.                                                    *)

Reset(h) ==
    [h EXCEPT !.sync_bit = 1, !.term_bit = 0, !.retrans = 0, !.retrans_bit = 0,
              !.packets_in_window = 0, !.window_size = 1, !.ter_seq = MAX_QUEUE,
              !.estimate = Restart(@), !.flag = 0, !.last_ack = 0, !.sent_so_far = 0,
              !.recv_so_far = 0, !.sent_window = <<>>, !.recv_window = <<>>, !.sender = FALSE]

From(a) == {k \in FlowIds : Flows[k].from = a}

Touches(k, a) == a \in {Flows[k].from, Flows[k].to}

\* FDTPFlow(): insert_p() keeps the first flow for a time, set_timer() takes
\* all, and the last line that names a host decides its role.
FreshHost(a, dup, times) ==
    LET at(t) == {k \in From(a) : times[k] = t}
        own   == {times[k] : k \in From(a)}
        lines == {k \in FlowIds : Touches(k, a)}
    IN  [ address |-> a, destination |-> "none",
          dest_map |-> [t \in own |-> CHOOSE k \in at(t) : \A l \in at(t) : k =< l],
          timers |-> [t \in own |-> Cardinality(at(t))],
          sender |-> \E k \in lines : Flows[k].from = a /\ \A l \in lines : l =< k,
          sync_bit |-> 1, term_bit |-> 0, retrans |-> 0, retrans_bit |-> 0,
          sent_so_far |-> 0, recv_so_far |-> 0, last_ack |-> 0, ter_seq |-> MAX_QUEUE,
          sent_window |-> <<>>, recv_window |-> <<>>, packets_in_window |-> 0, window_size |-> 1,
          retransmit_pkt |-> NULL, dup_ack_count |-> dup,
          estimate |-> [RTT |-> 0, RTTVAR |-> 0, RTO |-> timeout],
          last_transmit |-> 0, send_time |-> <<>>,
          in_file |-> [flow |-> 0, chunk |-> 0, is_open |-> FALSE], out_file |-> 0,
          clock |-> 0, write |-> FALSE, flag |-> 0, out |-> NothingOut, text |-> <<>>, died |-> FALSE ]

Init == /\ start \in [FlowIds -> StartTimes]
        /\ \E dup \in {0, 1} : hosts = [a \in Addresses |-> FreshHost(a, dup, start)]
        /\ net = [l \in Addresses \X Addresses |-> <<>>]
        /\ copies = [k \in FlowIds |-> <<>>]
        /\ now = 0 /\ losses = 0 /\ begun = {} /\ torn = {} /\ clash = FALSE

Timers   == UNION {DOMAIN hosts[a].timers : a \in Addresses}
Arrivals == {Head(net[l]).at : l \in {l \in DOMAIN net : net[l] # <<>>}}

\* The handler of h.address returns: its packets leave, its output is written.
Return(h, others, channels) ==
    /\ hosts' = [others EXCEPT ![h.address] = [h EXCEPT !.out = NothingOut, !.text = <<>>, !.clock = 0,
                                                        !.flag = 0, !.write = FALSE]]
    /\ net' = [l \in DOMAIN channels |->
                  IF l[1] # h.address THEN channels[l]
                  ELSE LET leaves == h.out[l[2]]
                       IN  channels[l] \o [j \in DOMAIN leaves |-> [at |-> now' + Latency,
                                                                   packet |-> leaves[j]]]]

Written(h) == [k \in FlowIds |-> IF k = h.out_file THEN copies[k] \o h.text ELSE copies[k]]

Sync_KeepsPosition(h, k) ==
    [Reset(h) EXCEPT
        !.sender = TRUE, !.destination = Flows[k].to,
        !.dest_map = [t \in DOMAIN @ \ {h.clock} |-> @[t]],
        !.in_file = [@ EXCEPT !.flow = k, !.is_open = TRUE]]

\* sync(), for the flow k that starts now.  An in_file that is still open
\* cannot be opened again: nothing is read from it.
Sync(h, k) ==
    [Reset(h) EXCEPT
        !.sender = TRUE, !.destination = Flows[k].to,
        !.dest_map = [t \in DOMAIN @ \ {h.clock} |-> @[t]],
        !.in_file = [flow |-> k, chunk |-> IF h.in_file.is_open THEN Chunks ELSE 0, is_open |-> TRUE]]

\* The other half of sync(): the destination is reset in the middle of whatever it does.
BecomeDestination(h, k) == [Reset(h) EXCEPT !.out_file = k]

Starts_OnlyFresh(h) == /\ h.sync_bit = 1 /\ h.term_bit = 0
                       /\ h.clock \in DOMAIN h.dest_map
                       /\ h.retrans = 0

\* A flow begins on a host that is fresh or through with its last flow.
Starts(h) == /\ \/ h.sync_bit = 1 /\ h.term_bit = 0
                \/ h.sync_bit = 3 /\ h.term_bit = 2
             /\ h.clock \in DOMAIN h.dest_map
             /\ h.retrans = 0

\* Flows that were due at a host while another of its flows, or of the other
\* host's, had begun and was not torn down.
Clashes(a) ==
    LET due == {k \in From(a) : start[k] = now'}
    IN  \E k \in due : \/ due # {k}
                       \/ \E l \in begun \ torn : Touches(l, a) \/ Touches(l, Flows[k].to)

\* The next timer: those that are due at the same time as a packet come first.
Expire(a) ==
    /\ \E t \in DOMAIN hosts[a].timers : now' = t
    /\ \A t \in Timers \cup Arrivals : now' =< t
    /\ now' =< MaxTime
    /\ clash' = (clash \/ Clashes(a))

Awake(a) == [hosts[a] EXCEPT !.clock = now', !.timers = @ (-) SetToBag({now'})]

StartFlow(a) ==
    /\ Expire(a)
    /\ \E h \in {Awake(a)} :
          /\ Starts(h)
          /\ \E k \in {h.dest_map[h.clock]} :
                /\ \E g \in {HandleTimer([Set(Sync(h, k), 1) EXCEPT !.last_transmit = h.clock])} :
                      Return(g, [hosts EXCEPT ![Flows[k].to] = BecomeDestination(@, k)], net)
                /\ copies' = [copies EXCEPT ![k] = <<>>]
                /\ begun' = begun \cup {k}
    /\ UNCHANGED <<losses, start, torn>>

OtherTimer(a) ==
    /\ Expire(a)
    /\ \E h \in {Awake(a)} : ~Starts(h) /\ \E g \in {HandleTimer(h)} : Return(g, hosts, net)
    /\ UNCHANGED <<copies, losses, start, begun, torn>>

\* The next packet is due.
Due(l) == /\ net[l] # <<>>
          /\ now' = Head(net[l]).at
          /\ \A t \in Timers : now' < t
          /\ \A t \in Arrivals : now' =< t

Taken(l) == [net EXCEPT ![l] = Tail(@)]

\* A source that closes a flow closes it at the destination too.
Arrive(l) ==
    /\ Due(l)
    /\ \E window \in Windows :
       \E h \in {[hosts[l[2]] EXCEPT !.clock = now']} :
       \E g \in {Receive(h, Head(net[l]).packet, window)} :
          LET closed == g.sender /\ g.term_bit = 2 /\ h.term_bit # 2
          IN  /\ Return(g, IF closed THEN [hosts EXCEPT ![g.destination].term_bit = 2] ELSE hosts, Taken(l))
              /\ copies' = Written(g)
              /\ torn' = IF closed THEN torn \cup {g.in_file.flow} ELSE torn
    /\ UNCHANGED <<losses, start, begun, clash>>

Lose(l) == /\ Due(l) /\ losses < MaxLosses
           /\ net' = Taken(l) /\ losses' = losses + 1
           /\ UNCHANGED <<hosts, copies, start, begun, torn, clash>>

Next == \/ \E a \in Addresses : StartFlow(a) \/ OtherTimer(a)
        \/ \E l \in DOMAIN net : Arrive(l) \/ Lose(l)

Spec == Init /\ [][Next]_vars

Pending == net # [l \in DOMAIN net |-> <<>>] \/ \E t \in Timers : t =< MaxTime

\* Scheduler::run() returns only when no event is left: WF of Next, written
\* out with what enables it.
FairSpec == Spec /\ (<>[]Pending => []<><<TRUE>>_vars)

---------------------------------------------------------------------------
(* Properties.                                                             *)

File(k, n) == [i \in 1..n |-> <<k, i>>]

\* The members of a host fit together, and what it waits for has a timer.
TypeOK ==
    /\ now \in Nat /\ losses \in 0..MaxLosses /\ clash \in BOOLEAN
    /\ begun \subseteq FlowIds /\ torn \subseteq begun
    /\ \A a \in Addresses : LET h == hosts[a] IN
          /\ h.sync_bit \in 1..3 /\ h.term_bit \in 0..2 /\ h.retrans_bit \in 0..2
          /\ h.retrans_bit # 0 => BagIn(h.retrans, h.timers)
          /\ h.packets_in_window \in -1..Chunks /\ h.window_size \in Nat \ {0}
          /\ h.out = NothingOut /\ h.text = <<>>

\* cancel_timer() never fails its assertion, and no host resends a packet it
\* does not have, whatever flows overlap on it.
NeverDies == \A a \in Addresses : ~hosts[a].died

\* Hosts may change roles, and packets of earlier flows may still be on their
\* way: as long as no flow begins in the middle of another on the same hosts,
\* each copy is a prefix of its own file, and the whole of it once the source
\* reports the flow torn down.
CopiesAreTrue ==
    ~clash => \A k \in FlowIds : /\ copies[k] = File(k, Len(copies[k]))
                                 /\ k \in torn => Len(copies[k]) = Chunks

\* A flow whose hosts are through with their earlier flows begins on time:
\* reset(), or the end of a flow, has left retrans, sync_bit and term_bit as
\* handle_timer() wants them, and no timer but the one that the host waits
\* for, which would come with the same cookie.
NoFlowIsSkipped ==
    ~clash => \A a \in Addresses :
        /\ \A t \in DOMAIN hosts[a].dest_map :
              now < t \/ (now = t /\ BagIn(t, hosts[a].timers))
        /\ BagCardinality(hosts[a].timers) =< 1 + Cardinality({k \in From(a) : start[k] >= now})

\* On a network that drops nothing every flow is torn down in the end, unless
\* two of them meet.
AllDone == [](losses = 0) => <>[](clash \/ torn = FlowIds)
=============================================================================
