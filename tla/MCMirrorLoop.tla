---------------------------- MODULE MCMirrorLoop ----------------------------
(* Instances of MirrorLoop: no obstacle and a leader that leaves its       *)
(* range, an obstacle above and one below the follower's goals, and ranges *)
(* that run across the end of the scale.  With the protection disabled the *)
(* obstacle above is enough.                                               *)
EXTENDS MirrorLoop

Straight(free, limited) ==
  [leader |-> [min |-> 1, max |-> 5], follower |-> [min |-> 1, max |-> 7],
   free |-> free, limited |-> limited]

Inner ==
  [leader |-> [min |-> 1, max |-> 3], follower |-> [min |-> 2, max |-> 6],
   free |-> 1..7, limited |-> TRUE]

Across ==
  [leader |-> [min |-> 6, max |-> 2], follower |-> [min |-> 5, max |-> 3],
   free |-> 0..7, limited |-> TRUE]

TheSetups ==
  {Inner, Straight(1..4, TRUE), Straight(1..4, FALSE), Straight(4..7, TRUE), Across}

=============================================================================
