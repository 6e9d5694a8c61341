------------------------------ MODULE MCFdtp ------------------------------
(***************************************************************************)
(* Fdtp on small instances; the constants get their values in the .cfg     *)
(* files.  The predicate says of the flow what the repository says and the *)
(* code does not do.                                                       *)
(***************************************************************************)
EXTENDS Fdtp

\* Scheduler.cpp:46-47, "We are done" / "No more events, done!": when no event
\* is left the flow has been torn down.
DoneMeansTornDown ==
    (~src.dest_map /\ src.out = <<>> /\ dst.out = <<>> /\ src.timers = 0 /\ dst.timers = 0)
        => src.term_bit = 2
============================================================================
