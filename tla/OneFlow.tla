------------------------------ MODULE OneFlow ------------------------------
(***************************************************************************)
(* When one FDTPFlow line is all there is, Hosts implements Fdtp: the      *)
(* members of the two Host objects, seen as Fdtp's src and dst, take only  *)
(* the steps that Fdtp allows, with Fdtp's timers that may expire at any   *)
(* moment in the place of virtual time and the measured RTO.               *)
(***************************************************************************)
EXTENDS Hosts

ASSUME OneFlowAssumption == Len(Flows) = 1

Source      == hosts[Flows[1].from]
Destination == hosts[Flows[1].to]

Started == 1 \in begun

ToDst(p) == [id |-> p.id, sync_bit |-> p.sync_bit, FIN |-> p.FIN, payload |-> p.payload[2]]
ToSrc(p) == [ack_id |-> p.ack_id, sync_bit |-> p.sync_bit, FIN |-> p.FIN]

Window(w) == [i \in DOMAIN w |-> ToDst(w[i])]

InFlight(from, to, Seen(_)) == [j \in DOMAIN net[<<from, to>>] |-> Seen(net[<<from, to>>][j].packet)]

src == [ dest_map |-> ~Started,
         sync_bit |-> Source.sync_bit, term_bit |-> Source.term_bit,
         retrans |-> Source.retrans > 0 /\ Source.retrans >= now, retrans_bit |-> Source.retrans_bit,
         timers |-> BagCardinality(Source.timers) - (IF Started THEN 0 ELSE 1),
         sent_so_far |-> Source.sent_so_far, last_ack |-> Source.last_ack,
         chunk |-> Source.in_file.chunk, sent_window |-> Window(Source.sent_window),
         packets_in_window |-> Source.packets_in_window, window_size |-> Source.window_size,
         retransmit_pkt |-> ToDst(Source.retransmit_pkt), dup_ack_count |-> Source.dup_ack_count,
         out |-> InFlight(Source.address, Destination.address, ToDst) ]

dst == [ sync_bit |-> Destination.sync_bit, term_bit |-> Destination.term_bit,
         retrans |-> Destination.retrans > 0 /\ Destination.retrans >= now,
         retrans_bit |-> Destination.retrans_bit, timers |-> BagCardinality(Destination.timers),
         recv_so_far |-> Destination.recv_so_far, recv_window |-> Window(Destination.recv_window),
         ter_seq |-> Destination.ter_seq,
         out_file |-> [j \in DOMAIN copies[1] |-> copies[1][j][2]],
         out |-> InFlight(Destination.address, Source.address, ToSrc) ]

\* Virtual time says when a timer expires, and nothing bounds it.
Flow == INSTANCE Fdtp WITH Calm <- Nat

\* Every run of one flow is a run of Fdtp: its invariants hold of Host objects
\* that keep time, measure round trips and could play either role.
ImplementsFdtp == Flow!Spec
=============================================================================
