----------------------------- MODULE MCNetwork -----------------------------
(***************************************************************************)
(* Network on a small topology of the kind of dtp/examples: two senders    *)
(* share a Router, and behind it a slow link leads to a FIFONode and to    *)
(* the host they both send to.                                             *)
(*                                                                         *)
(*     a - r - s - b                                                       *)
(*         |                                                               *)
(*         c                                                               *)
(***************************************************************************)
EXTENDS Network, TLC

CONSTANTS a, b, c, r, s

Forth == {<<a, r>>, <<c, r>>, <<r, s>>, <<s, b>>}
MCLinks == Forth \cup {<<l[2], l[1]>> : l \in Forth}

\* The next hop towards the destination x[2].
MCNextHop ==
    [x \in {y \in {a, b, c, r, s} \X {a, b, c} : y[1] # y[2]} |->
        CASE x[1] \in {a, c} -> r
          [] x[1] = r        -> IF x[2] = b THEN s ELSE x[2]
          [] x[1] = s        -> IF x[2] = b THEN b ELSE r
          [] x[1] = b        -> s]

MCPlat    == [l \in MCLinks |-> IF {r, s} = {l[1], l[2]} THEN 4 ELSE 0]
MCBitTime == [l \in MCLinks |-> IF {r, s} = {l[1], l[2]} THEN 2 ELSE 1]
MCQueues  == [n \in {a, b, c, r, s} |-> CASE n = r -> 2 [] n = s -> 1 [] OTHER -> 9]
MCFlows   == {<<a, b>>, <<c, b>>, <<b, a>>}
MCHops    == [f \in MCFlows |->
                 IF f[2] = b THEN f[1] :> 0 @@ r :> 1 @@ s :> 2 @@ b :> 3
                 ELSE b :> 0 @@ s :> 1 @@ r :> 2 @@ a :> 3]
MCStarts  == {<<a, 0>>, <<c, 8>>, <<b, 16>>}
=============================================================================
