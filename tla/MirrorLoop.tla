----------------------------- MODULE MirrorLoop -----------------------------
(***************************************************************************)
(* The mirroring loop for one motor of a leader and of a follower bus: it  *)
(* samples the newest published state, maps the leader's position into the *)
(* follower's range and sends a goal, which the follower's port executes   *)
(* later.  A follower that runs into an obstacle draws a high current; the *)
(* loop then holds it and refuses to push on.  Everything the loop decides *)
(* it decides on a sample, while the motors and the queue move on.         *)
(***************************************************************************)
EXTENDS Integers, Sequences

CONSTANTS
  Steps,      \* max_steps, a power of two
  Margin,     \* safety_margin
  Deadband,   \* deadband
  Setups,     \* leader's and follower's range, free positions of the follower,
              \*   and whether its current is limited (current_threshold > 0)
  Leads,      \* positions of the leader
  MaxMoves,   \* bound: movements of the leader
  MaxFaults,  \* bound: times a sample cannot be used or a command is lost
  MaxQueue    \* bound: commands on their way

ASSUME MirrorConstants ==
  /\ Steps \in Nat \ {0} /\ Margin \in Nat /\ Deadband \in Nat
  /\ Leads \subseteq 0..Steps - 1
  /\ MaxMoves \in Nat /\ MaxFaults \in Nat /\ MaxQueue \in Nat

(* The calibrated ranges and the places the follower can reach are         *)
(* positions of the servo.                                                 *)
ASSUME MirrorSetups ==
  \A s \in Setups :
    /\ s.leader.min \in 0..Steps - 1 /\ s.leader.max \in 0..Steps - 1
    /\ s.follower.min \in 0..Steps - 1 /\ s.follower.max \in 0..Steps - 1
    /\ s.free \subseteq 0..Steps - 1
    /\ s.limited \in BOOLEAN

VARIABLES
  setup,      \* member of Setups, chosen at the start
  leader,     \* position of the leader
  pos,        \* position of the follower
  goal,       \* its goal register
  queue,      \* commands not yet executed by the follower's port
  known,      \* station_state: the sample the loop works on
  usable,     \* stamps are fresh and the leader reports no error
  blocked,    \* blocked_direction
  previous,   \* previous_position
  moves, faults

vars == <<setup, leader, pos, goal, queue, known, usable, blocked, previous, moves,
          faults>>

None == "none"
Positions == 0..Steps - 1

-----------------------------------------------------------------------------
(* Arithmetic on the circle of Steps positions.                            *)

Apart(p, q) == IF p > q THEN p - q ELSE q - p

Distance(p, q) ==
  IF Apart(p, q) > Steps \div 2 THEN Steps - Apart(p, q) ELSE Apart(p, q)

Size(r) == IF r.max >= r.min THEN r.max - r.min ELSE (Steps - r.min) + r.max

(* Mutant: a position outside the range is not moved to its end.           *)
RelativeUnclamped(p, r) == IF p >= r.min THEN p - r.min ELSE (Steps - r.min) + p

(* How far p is into range r; a position outside counts as the nearer end. *)
Relative(p, r) ==
  IF r.max >= r.min
    THEN IF p < r.min THEN 0 ELSE IF p > r.max THEN Size(r) ELSE p - r.min
    ELSE IF p >= r.min THEN p - r.min
         ELSE IF p <= r.max THEN (Steps - r.min) + p
         ELSE IF r.min - p < p - r.max THEN 0 ELSE Size(r)

(* The share of the follower's range less the margins, rounded down.  The  *)
(* share is a float: an exact quotient may come out one step lower.        *)
Offsets(p) ==
  LET size == Size(setup.leader)
      room == Size(setup.follower) - 2 * Margin
      rel == Relative(p, setup.leader)
      share == IF size = 0 THEN room \div 2 ELSE (rel * room) \div size
      exact == 0 < rel /\ rel < size /\ (rel * room) % size = 0 /\ share > 0
  IN IF exact THEN {share, share - 1} ELSE {share}

(* Mutant: both margins are added at the lower end.                        *)
GoalsWithoutMargin(p) ==
  {(setup.follower.min + o + 2 * Margin) % Steps : o \in Offsets(p)}

Goals(p) == {(setup.follower.min + o + Margin) % Steps : o \in Offsets(p)}

Direction(p, q) == IF q > p THEN "positive" ELSE IF q < p THEN "negative" ELSE None

-----------------------------------------------------------------------------
(* The motors, external, and the follower's port.                          *)

LeaderMoves ==
  /\ moves < MaxMoves
  /\ moves' = moves + 1
  /\ leader' \in Leads \ {leader}
  /\ UNCHANGED <<setup, pos, goal, queue, known, usable, blocked, previous, faults>>

(* A sync write is not answered: nobody notices one that is lost on the    *)
(* line.                                                                   *)
Execute ==
  /\ queue # <<>>
  /\ queue' = Tail(queue)
  /\ \/ goal' = Head(queue).to /\ UNCHANGED faults
     \/ faults < MaxFaults /\ faults' = faults + 1 /\ UNCHANGED goal
  /\ UNCHANGED <<setup, leader, pos, known, usable, blocked, previous, moves>>

Toward == IF goal > pos THEN pos + 1 ELSE pos - 1

Obstructed == goal # pos /\ Toward \notin setup.free

FollowerMoves ==
  /\ goal # pos /\ ~Obstructed
  /\ pos' = Toward
  /\ UNCHANGED <<setup, leader, goal, queue, known, usable, blocked, previous, moves,
                 faults>>

(* The current exceeds the threshold when the follower is held back from a *)
(* goal that is further away than the deadband.                            *)
High == Obstructed /\ Apart(goal, pos) > Deadband

-----------------------------------------------------------------------------
(* The loop.                                                               *)

(* update_from_st3215_queue.                                               *)
Sample ==
  /\ known' = [leader |-> leader, pos |-> pos, goal |-> goal, high |-> High]
  /\ usable' = TRUE
  /\ UNCHANGED <<setup, leader, pos, goal, queue, blocked, previous, moves, faults>>

(* Stale stamps of either bus, or an error of the leader: the source is    *)
(* skipped, what is known stays.                                           *)
LoseSample ==
  /\ faults < MaxFaults
  /\ faults' = faults + 1
  /\ usable' = FALSE
  /\ UNCHANGED <<setup, leader, pos, goal, queue, known, blocked, previous, moves>>

(* The checks before the current is looked at.  A position 0 is "just      *)
(* skipped for now".                                                       *)
Ready ==
  /\ usable
  /\ known.leader # 0 /\ known.pos # 0
  /\ Size(setup.follower) >= 2 * Margin
  /\ Len(queue) < MaxQueue

(* A threshold of 0 disables the protection.                               *)
Overloaded == setup.limited /\ known.high

(* Mutant: a follower in an overload is not held.                          *)
HoldNothing ==
  /\ Ready
  /\ Overloaded
  /\ blocked' = IF blocked = None THEN Direction(previous, known.pos) ELSE blocked
  /\ UNCHANGED <<setup, leader, pos, goal, queue, known, usable, previous, moves, faults>>

(* High current: the direction of the last movement is blocked, and the    *)
(* follower is told to stay where it is.                                   *)
Hold ==
  /\ Ready
  /\ Overloaded
  /\ blocked' = IF blocked = None THEN Direction(previous, known.pos) ELSE blocked
  /\ queue' = IF Apart(known.goal, known.pos) > Deadband
                THEN Append(queue, [kind |-> "hold", to |-> known.pos])
                ELSE queue
  /\ UNCHANGED <<setup, leader, pos, goal, known, usable, previous, moves, faults>>

(* Mutant: the block is lifted by no movement of the leader.               *)
ClearedNever(direction) == blocked

(* Only a leader that commands the opposite direction lifts the block.     *)
Cleared(direction) ==
  IF setup.limited /\ blocked # None /\ direction \notin {None, blocked}
    THEN None
    ELSE blocked

(* The leader commands the blocked direction, or none.                     *)
Refuse ==
  /\ Ready
  /\ ~Overloaded
  /\ \E g \in Goals(known.leader) : Cleared(Direction(known.pos, g)) # None
  /\ previous' = known.pos
  /\ UNCHANGED <<setup, leader, pos, goal, queue, known, usable, blocked, moves, faults>>

Enough(g) ==
  \/ Distance(known.pos, g) <= Deadband
  \/ Apart(known.goal, g) <= Deadband

Follow ==
  /\ Ready
  /\ ~Overloaded
  /\ \E g \in Goals(known.leader) :
        /\ Cleared(Direction(known.pos, g)) = None
        /\ \/ /\ ~Enough(g)
              /\ queue' = Append(queue, [kind |-> "goal", to |-> g])
              /\ previous' = known.pos
           \/ /\ Enough(g)
              /\ UNCHANGED <<queue, previous>>
  /\ blocked' = None
  /\ UNCHANGED <<setup, leader, pos, goal, known, usable, moves, faults>>

-----------------------------------------------------------------------------
Init ==
  /\ setup \in Setups
  /\ leader \in Leads
  /\ pos \in setup.free
  /\ goal = pos
  /\ queue = <<>>
  /\ known = [leader |-> 0, pos |-> 0, goal |-> 0, high |-> FALSE]
  /\ usable = FALSE
  /\ blocked = None
  /\ previous = 0
  /\ moves = 0
  /\ faults = 0

Next ==
  \/ LeaderMoves
  \/ Execute
  \/ FollowerMoves
  \/ Sample
  \/ LoseSample
  \/ Hold
  \/ Refuse
  \/ Follow

Spec == Init /\ [][Next]_vars

(* The loop runs every 20 ms on new samples, the port executes commands,   *)
(* the follower moves.                                                     *)
FairSpec ==
  /\ Spec
  /\ WF_vars(Execute)
  /\ WF_vars(FollowerMoves)
  /\ WF_vars(Sample)
  /\ SF_vars(Hold \/ Refuse \/ Follow)

-----------------------------------------------------------------------------
(* Type correctness.                                                       *)
TypeOK ==
  /\ setup \in Setups
  /\ leader \in Leads
  /\ pos \in setup.free /\ goal \in Positions
  /\ queue \in Seq([kind : {"goal", "hold"}, to : Positions])
  /\ known \in [leader : Positions, pos : Positions, goal : Positions, high : BOOLEAN]
  /\ usable \in BOOLEAN
  /\ blocked \in {None, "positive", "negative"}
  /\ previous \in Positions
  /\ moves \in 0..MaxMoves /\ faults \in 0..MaxFaults

(* A goal lies inside the follower's range less the margins, also across   *)
(* the end of the scale.                                                   *)
GoalsInRange ==
  \A i \in DOMAIN queue :
    queue[i].kind = "goal" =>
      (queue[i].to - setup.follower.min) % Steps
        \in Margin..Size(setup.follower) - Margin

InFollowerRange(p) == setup.follower.min <= p /\ p <= setup.follower.max

(* A follower that starts in its calibrated range never leaves it, however *)
(* the leader moves, also outside its own range, and however old the       *)
(* sample is by which the follower is held.  Ranges across the end of the  *)
(* scale are excepted: between two goals the servo turns the other way.    *)
FollowerStays == InFollowerRange(pos) => []InFollowerRange(pos)

(* Where the current is limited an overload does not last, whatever sample *)
(* it is noticed in and whatever command is lost, unless a motor stands at *)
(* position 0, where the loop is blind (mirror.rs 83).                     *)
OverloadEnds == (setup.limited /\ High) ~> (~High \/ pos = 0 \/ leader = 0)

Near == \A g \in Goals(leader) : Distance(pos, g) <= Deadband

(* With the leader at rest the follower arrives, unless an obstacle is in  *)
(* the way, the commanded direction is blocked, or a motor stands at       *)
(* position 0.                                                             *)
Arrives ==
  <>[](\/ Near
       \/ blocked # None /\ \E g \in Goals(leader) : blocked = Direction(pos, g)
       \/ \E g \in Goals(leader) : \E p \in Positions \ setup.free :
             (pos < p /\ p <= g) \/ (g <= p /\ p < pos)
       \/ pos = 0 \/ leader = 0)

=============================================================================
