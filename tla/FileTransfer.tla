--------------------------- MODULE FileTransfer ---------------------------
(***************************************************************************)
(* What an FDTP flow promises, without packets, windows or timers: the     *)
(* chunks of one file are read in order, appear at the destination in that *)
(* order, are acknowledged only once they are there, and the flow is torn  *)
(* down ("Tore down FDTP flow") only over a complete copy.                 *)
(***************************************************************************)
EXTENDS Integers, Sequences

CONSTANT Chunks          \* packets send_file() cuts the file into

VARIABLES phase,         \* "idle", "open" or "closed"
          sent,          \* chunks read from the file
          delivered,     \* the destination's file, a sequence of chunk numbers
          acked          \* chunks the source knows to be delivered

vars == <<phase, sent, delivered, acked>>

File(n) == [i \in 1..n |-> i]

Init == /\ phase = "idle"
        /\ sent = 0
        /\ delivered = <<>>
        /\ acked = 0

Open == /\ phase = "idle"
        /\ phase' = "open"
        /\ UNCHANGED <<sent, delivered, acked>>

\* The source learns of deliveries and reads on, in one step or in two.
Progress == /\ phase = "open"
            /\ acked' \in acked..Len(delivered)
            /\ sent' \in sent..Chunks
            /\ UNCHANGED <<phase, delivered>>

\* A packet that fills a gap releases every chunk buffered behind it.
Deliver == /\ phase = "open"
           /\ \E n \in Len(delivered)+1..sent : delivered' = File(n)
           /\ UNCHANGED <<phase, sent, acked>>

Close == /\ phase = "open"
         /\ delivered = File(Chunks)
         /\ phase' = "closed"
         /\ acked' = Chunks
         /\ UNCHANGED <<sent, delivered>>

Next == Open \/ Progress \/ Deliver \/ Close

Spec == Init /\ [][Next]_vars
============================================================================
