-------------------------- MODULE MirrorLoopProofs --------------------------
(***************************************************************************)
(* Proofs about the mirroring loop, for every number of steps, margin,     *)
(* pair of ranges and position of the obstacle: a goal never leaves the    *)
(* follower's range less the margins, also when the range runs across the  *)
(* end of the scale.                                                       *)
(*                                                                         *)
(* The argument is arithmetic: the share of the range is rounded down and  *)
(* lies between 0 and the room between the margins (ShareFacts), and       *)
(* taking a position modulo Steps and subtracting the lower end of the     *)
(* range, again modulo Steps, gives back the distance (RoundTrip).  That   *)
(* the follower itself stays in its range needs more: commands wait in the *)
(* port and samples age, so StaysInv keeps all of them in the range.       *)
(***************************************************************************)
EXTENDS MirrorLoop, TLAPS

(* The remainder of a number that is less than one turn off the scale.     *)
LEMMA Modulo ==
  ASSUME NEW x \in Int
  PROVE  /\ 0 <= x /\ x < Steps => x % Steps = x
         /\ Steps <= x /\ x < 2 * Steps => x % Steps = x - Steps
         /\ -Steps <= x /\ x < 0 => x % Steps = x + Steps
BY MirrorConstants

(* Going d steps up the circle from a, and back, is d steps.               *)
LEMMA RoundTrip ==
  ASSUME NEW a \in 0..Steps - 1, NEW d \in 0..Steps - 1
  PROVE  ((a + d) % Steps) \in Positions /\ (((a + d) % Steps) - a) % Steps = d
<1>1. CASE a + d < Steps
  <2>1. (a + d) % Steps = a + d
    BY <1>1, Modulo, MirrorConstants
  <2>2. (a + d) - a = d /\ d % Steps = d
    BY Modulo, MirrorConstants
  <2> QED BY <1>1, <2>1, <2>2, MirrorConstants DEF Positions
<1>2. CASE a + d >= Steps
  <2>1. (a + d) % Steps = a + d - Steps
    BY <1>2, Modulo, MirrorConstants
  <2>2. (a + d - Steps) - a = d - Steps /\ (d - Steps) % Steps = d
    BY Modulo, MirrorConstants
  <2> QED BY <1>2, <2>1, <2>2, MirrorConstants DEF Positions
<1> QED BY <1>1, <1>2, MirrorConstants

(* The quotient of a share of a room is no more than the room.             *)
LEMMA ShareFacts ==
  ASSUME NEW rel \in Nat, NEW size \in Nat, NEW room \in Nat, rel <= size, size # 0
  PROVE  (rel * room) \div size \in 0..room
<1>1. rel * room \in Nat /\ rel * room <= size * room
  OBVIOUS
<1>2. ASSUME NEW a \in Nat
      PROVE  a \div size \in Nat /\ size * (a \div size) <= a
  OBVIOUS
<1>3. ASSUME NEW q \in Nat, size * q <= size * room PROVE q <= room
  <2>1. ASSUME q >= room + 1 PROVE FALSE
    <3>1. size * q >= size * (room + 1)
      BY <2>1
    <3>2. size * (room + 1) = size * room + size
      OBVIOUS
    <3> QED BY <1>3, <3>1, <3>2
  <2> QED BY <2>1
<1>4. (rel * room) \div size \in Nat /\ size * ((rel * room) \div size) <= rel * room
  BY <1>1, <1>2
<1>5. size * ((rel * room) \div size) <= size * room
  BY <1>1, <1>4
<1> QED BY <1>3, <1>4, <1>5

(* get_steps_range is less than one turn.                                  *)
LEMMA SizeFacts ==
  ASSUME NEW r, r.min \in Positions, r.max \in Positions
  PROVE  Size(r) \in 0..Steps - 1
BY MirrorConstants DEF Size, Positions

(* normalize_position stays within the range, wherever the leader is.      *)
LEMMA RelativeFacts ==
  ASSUME NEW r, r.min \in Positions, r.max \in Positions, NEW p \in Positions
  PROVE  Relative(p, r) \in 0..Size(r)
BY MirrorConstants DEF Relative, Size, Positions

(* The offsets leave room for the margin at both ends.                     *)
LEMMA OffsetFacts ==
  ASSUME setup \in Setups, NEW p \in Positions, NEW o \in Offsets(p),
         Size(setup.follower) >= 2 * Margin
  PROVE  o \in 0..Size(setup.follower) - 2 * Margin
<1> DEFINE size == Size(setup.leader)
           room == Size(setup.follower) - 2 * Margin
           rel == Relative(p, setup.leader)
           share == IF size = 0 THEN room \div 2 ELSE (rel * room) \div size
<1>1. /\ setup.leader.min \in Positions /\ setup.leader.max \in Positions
      /\ setup.follower.min \in Positions /\ setup.follower.max \in Positions
  BY MirrorSetups DEF Positions
<1>2. size \in Nat /\ room \in Nat /\ rel \in Nat /\ rel <= size
  BY <1>1, SizeFacts, RelativeFacts, MirrorConstants
<1>3. o = share \/ (share > 0 /\ o = share - 1)
  BY DEF Offsets
<1> HIDE DEF size, room, rel
<1>4. share \in 0..room
  <2>1. CASE size = 0
    BY <1>2, <2>1
  <2>2. CASE size # 0
    BY <1>2, <2>2, ShareFacts
  <2> QED BY <2>1, <2>2
<1>5. o \in 0..room
  BY <1>2, <1>3, <1>4
<1> QED BY <1>5 DEF room

(* Every goal is a position inside the follower's range less the margins.  *)
LEMMA GoalFacts ==
  ASSUME setup \in Setups, NEW p \in Positions, NEW g \in Goals(p),
         Size(setup.follower) >= 2 * Margin
  PROVE  /\ g \in Positions
         /\ (g - setup.follower.min) % Steps \in Margin..Size(setup.follower) - Margin
<1>1. PICK o \in Offsets(p) : g = (setup.follower.min + o + Margin) % Steps
  BY DEF Goals
<1>2. o \in 0..Size(setup.follower) - 2 * Margin
  BY OffsetFacts
<1>3. /\ setup.follower.min \in 0..Steps - 1
      /\ Size(setup.follower) \in 0..Steps - 1
  BY MirrorSetups, SizeFacts DEF Positions
<1>4. /\ o + Margin \in 0..Steps - 1
      /\ o + Margin \in Margin..Size(setup.follower) - Margin
      /\ setup.follower.min + o + Margin = setup.follower.min + (o + Margin)
  BY <1>2, <1>3, MirrorConstants
<1>5. /\ g \in Positions
      /\ (g - setup.follower.min) % Steps = o + Margin
  BY <1>1, <1>3, <1>4, RoundTrip
<1> QED BY <1>4, <1>5

-----------------------------------------------------------------------------
Commands == [kind : {"goal", "hold"}, to : Positions]

InRange(c) ==
  c.kind = "goal" =>
    (c.to - setup.follower.min) % Steps \in Margin..Size(setup.follower) - Margin

IInv == TypeOK /\ GoalsInRange

(* It holds when the loop starts.                                          *)
LEMMA InitIInv == Init => IInv
<1> SUFFICES ASSUME Init PROVE IInv
  OBVIOUS
<1>1. setup.free \subseteq Positions /\ 0 \in Positions
  BY MirrorSetups, MirrorConstants DEF Init, Positions
<1>2. TypeOK
  <2>1. /\ setup \in Setups /\ leader \in Leads
        /\ pos \in setup.free /\ goal \in Positions /\ previous \in Positions
        /\ queue \in Seq([kind : {"goal", "hold"}, to : Positions])
    BY <1>1 DEF Init
  <2>2. known \in [leader : Positions, pos : Positions, goal : Positions,
                   high : BOOLEAN]
    BY <1>1 DEF Init
  <2>3. usable \in BOOLEAN /\ blocked \in {None, "positive", "negative"}
    BY Zenon DEF Init
  <2>4. moves \in 0..MaxMoves /\ faults \in 0..MaxFaults
    BY MirrorConstants DEF Init
  <2> QED BY <2>1, <2>2, <2>3, <2>4 DEF TypeOK
<1>3. GoalsInRange
  BY DEF Init, GoalsInRange
<1> QED BY <1>2, <1>3 DEF IInv

(* A command appended to the queue.                                        *)
LEMMA AppendFacts ==
  ASSUME TypeOK, GoalsInRange, setup' = setup, NEW c \in Commands, InRange(c),
         queue' = Append(queue, c)
  PROVE  queue' \in Seq(Commands) /\ GoalsInRange'
<1>1. queue \in Seq(Commands)
  BY DEF TypeOK, Commands
<1>2. /\ queue' \in Seq(Commands) /\ DOMAIN queue' = 1..Len(queue) + 1
      /\ Len(queue) \in Nat /\ DOMAIN queue = 1..Len(queue)
      /\ \A i \in 1..Len(queue) : queue'[i] = queue[i]
      /\ queue'[Len(queue) + 1] = c
  BY <1>1
<1>3. \A i \in DOMAIN queue' : i \in DOMAIN queue \/ i = Len(queue) + 1
  BY <1>2
<1>4. \A i \in DOMAIN queue' : InRange(queue'[i])
  BY <1>2, <1>3 DEF GoalsInRange, InRange
<1> QED BY <1>2, <1>4 DEF GoalsInRange, InRange, Size

(* The queue is left alone.                                                *)
LEMMA KeepFacts ==
  ASSUME TypeOK, GoalsInRange, setup' = setup, queue' = queue
  PROVE  queue' \in Seq(Commands) /\ GoalsInRange'
BY DEF TypeOK, Commands, GoalsInRange, Size

(* Every step of the motors, the port and the loop keeps it.               *)
LEMMA NextIInv ==
  ASSUME IInv, [Next]_vars
  PROVE  IInv'
<1> USE DEF IInv
<1>1. /\ setup.free \subseteq Positions /\ Leads \subseteq Positions
      /\ pos \in Positions /\ leader \in Positions
  BY MirrorSetups, MirrorConstants DEF TypeOK, Positions
<1>2. CASE LeaderMoves
  <2>1. setup' = setup /\ queue' = queue
    BY <1>2 DEF LeaderMoves
  <2>2. queue' \in Seq(Commands) /\ GoalsInRange'
    BY <2>1, KeepFacts
  <2>3. moves' \in 0..MaxMoves
    BY <1>2, MirrorConstants DEF LeaderMoves, TypeOK
  <2> QED BY <1>2, <2>2, <2>3 DEF LeaderMoves, TypeOK, Commands
<1>3. CASE Execute
  <2>1. queue \in Seq(Commands) /\ queue # <<>>
    BY <1>3 DEF TypeOK, Commands, Execute
  <2>2. Head(queue) \in Commands /\ Tail(queue) \in Seq(Commands)
    BY <2>1
  <2>3. /\ goal' \in Positions /\ queue' \in Seq(Commands)
        /\ faults' \in 0..MaxFaults
    BY <1>3, <2>2, MirrorConstants DEF Execute, Commands, TypeOK
  <2>4. /\ DOMAIN queue' = 1..Len(queue) - 1 /\ DOMAIN queue = 1..Len(queue)
        /\ Len(queue) \in Nat
        /\ \A i \in DOMAIN queue' : queue'[i] = queue[i + 1]
    BY <1>3, <2>1 DEF Execute
  <2>5. \A i \in DOMAIN queue' : i + 1 \in DOMAIN queue
    BY <2>4
  <2>6. setup' = setup
    BY <1>3 DEF Execute
  <2>7. GoalsInRange'
    BY <2>4, <2>5, <2>6 DEF GoalsInRange, Size
  <2> QED BY <1>3, <2>3, <2>7 DEF Execute, TypeOK, Commands
<1>4. CASE FollowerMoves
  <2>1. setup' = setup /\ queue' = queue /\ pos' \in setup.free
    BY <1>4 DEF FollowerMoves, Obstructed
  <2> QED BY <1>4, <2>1, KeepFacts DEF FollowerMoves, TypeOK, Commands
<1>5. CASE Sample
  <2>1. setup' = setup /\ queue' = queue /\ High \in BOOLEAN
    BY <1>5 DEF Sample, High, Obstructed
  <2>2. known' \in [leader : Positions, pos : Positions, goal : Positions,
                    high : BOOLEAN]
    BY <1>1, <1>5, <2>1 DEF Sample, TypeOK
  <2>3. queue' \in Seq(Commands) /\ GoalsInRange'
    BY <2>1, KeepFacts
  <2>4. /\ setup' \in Setups /\ leader' \in Leads /\ pos' \in setup'.free
        /\ goal' \in Positions /\ usable' \in BOOLEAN
        /\ blocked' \in {None, "positive", "negative"} /\ previous' \in Positions
        /\ moves' \in 0..MaxMoves /\ faults' \in 0..MaxFaults
    BY <1>5 DEF Sample, TypeOK
  <2>5. TypeOK'
    BY <2>2, <2>3, <2>4, Zenon DEF TypeOK, Commands
  <2> QED BY <2>3, <2>5
<1>6. CASE LoseSample
  <2>1. setup' = setup /\ queue' = queue
    BY <1>6 DEF LoseSample
  <2>2. queue' \in Seq(Commands) /\ GoalsInRange'
    BY <2>1, KeepFacts
  <2>3. faults' \in 0..MaxFaults
    BY <1>6, MirrorConstants DEF LoseSample, TypeOK
  <2> QED BY <1>6, <2>2, <2>3, Zenon DEF LoseSample, TypeOK, Commands
<1>7. CASE Hold
  <2>1. setup' = setup /\ known.pos \in Positions
    BY <1>7 DEF Hold, TypeOK
  <2>2. blocked' \in {None, "positive", "negative"}
    BY <1>7 DEF Hold, TypeOK, Direction
  <2>3. queue' \in Seq(Commands) /\ GoalsInRange'
    <3>1. CASE queue' = queue
      BY <2>1, <3>1, KeepFacts
    <3>2. CASE queue' = Append(queue, [kind |-> "hold", to |-> known.pos])
      <4>1. /\ [kind |-> "hold", to |-> known.pos] \in Commands
            /\ InRange([kind |-> "hold", to |-> known.pos])
        BY <2>1 DEF Commands, InRange
      <4> QED BY <2>1, <3>2, <4>1, AppendFacts
    <3> QED BY <1>7, <3>1, <3>2 DEF Hold
  <2> QED BY <1>7, <2>2, <2>3 DEF Hold, TypeOK, Commands
<1>8. CASE Refuse
  <2>1. setup' = setup /\ queue' = queue /\ previous' \in Positions
    BY <1>8 DEF Refuse, TypeOK
  <2> QED BY <1>8, <2>1, KeepFacts DEF Refuse, TypeOK, Commands
<1>9. CASE Follow
  <2>1. PICK g \in Goals(known.leader) :
          \/ /\ queue' = Append(queue, [kind |-> "goal", to |-> g])
             /\ previous' = known.pos
          \/ UNCHANGED <<queue, previous>>
    BY <1>9 DEF Follow
  <2>2. /\ setup' = setup /\ Size(setup.follower) >= 2 * Margin
        /\ known.leader \in Positions /\ known.pos \in Positions
    BY <1>9 DEF Follow, Ready, TypeOK
  <2>3. /\ g \in Positions
        /\ (g - setup.follower.min) % Steps \in Margin..Size(setup.follower) - Margin
    BY <2>2, GoalFacts DEF TypeOK
  <2>4. queue' \in Seq(Commands) /\ GoalsInRange'
    <3>1. CASE queue' = queue
      BY <2>2, <3>1, KeepFacts
    <3>2. CASE queue' = Append(queue, [kind |-> "goal", to |-> g])
      <4>1. /\ [kind |-> "goal", to |-> g] \in Commands
            /\ InRange([kind |-> "goal", to |-> g])
        BY <2>3 DEF Commands, InRange
      <4> QED BY <2>2, <3>2, <4>1, AppendFacts
    <3> QED BY <2>1, <3>1, <3>2
  <2>5. previous' \in Positions
    BY <2>1, <2>2 DEF TypeOK
  <2> QED BY <1>9, <2>4, <2>5 DEF Follow, TypeOK, Commands
<1>10. CASE UNCHANGED vars
  <2>1. setup' = setup /\ queue' = queue
    BY <1>10 DEF vars
  <2> QED BY <1>10, <2>1, KeepFacts DEF vars, TypeOK, Commands
<1> QED BY <1>2, <1>3, <1>4, <1>5, <1>6, <1>7, <1>8, <1>9, <1>10 DEF Next

-----------------------------------------------------------------------------
(* The follower's range, for FollowerStays: everything that can set the    *)
(* goal register lies in it, that is the register, the commands on their   *)
(* way and a sample by which the follower can be held.                     *)
StaysInv ==
  /\ InFollowerRange(pos) /\ InFollowerRange(goal)
  /\ usable => InFollowerRange(known.pos)
  /\ \A i \in DOMAIN queue : InFollowerRange(queue[i].to)

(* A goal of the loop lies in a range that does not cross the end.         *)
LEMMA GoalStays ==
  ASSUME setup \in Setups, setup.follower.min <= setup.follower.max,
         NEW g \in Positions,
         (g - setup.follower.min) % Steps \in Margin..Size(setup.follower) - Margin
  PROVE  InFollowerRange(g)
<1>1. /\ setup.follower.min \in 0..Steps - 1 /\ setup.follower.max \in 0..Steps - 1
      /\ g \in 0..Steps - 1 /\ Margin \in Nat /\ Steps \in Nat
  BY MirrorSetups, MirrorConstants DEF Positions
<1>2. Size(setup.follower) = setup.follower.max - setup.follower.min
  BY <1>1 DEF Size
<1> DEFINE d == g - setup.follower.min
<1>3. /\ d \in Int /\ -Steps <= d /\ d < Steps
      /\ d % Steps <= setup.follower.max - setup.follower.min
  BY <1>1, <1>2
<1>4. d >= 0 /\ d % Steps = d
  <2>1. CASE d < 0
    <3>1. d % Steps = d + Steps
      BY <1>3, <2>1, Modulo
    <3> QED BY <1>1, <1>3, <3>1
  <2>2. CASE d >= 0
    BY <1>3, <2>2, Modulo
  <2> QED BY <1>3, <2>1, <2>2
<1> QED BY <1>1, <1>3, <1>4 DEF InFollowerRange

(* A command in the range keeps all commands in it.                        *)
LEMMA AppendStays ==
  ASSUME TypeOK, NEW c \in Commands, InFollowerRange(c.to), setup' = setup,
         \A i \in DOMAIN queue : InFollowerRange(queue[i].to),
         queue' = Append(queue, c)
  PROVE  \A i \in DOMAIN queue' : InFollowerRange(queue[i].to)'
<1>1. queue \in Seq(Commands) /\ Len(queue) \in Nat
  BY DEF TypeOK, Commands
<1>2. /\ DOMAIN queue = 1..Len(queue) /\ DOMAIN queue' = 1..Len(queue) + 1
      /\ \A i \in 1..Len(queue) : queue'[i] = queue[i]
      /\ queue'[Len(queue) + 1] = c
  BY <1>1
<1> SUFFICES ASSUME NEW i \in DOMAIN queue'
             PROVE  InFollowerRange(queue[i].to)'
  OBVIOUS
<1>3. CASE i \in 1..Len(queue)
  BY <1>2, <1>3, Zenon DEF InFollowerRange
<1>4. CASE i = Len(queue) + 1
  BY <1>2, <1>4, Zenon DEF InFollowerRange
<1> QED BY <1>1, <1>2, <1>3, <1>4

(* Every step keeps it.                                                    *)
LEMMA NextStays ==
  ASSUME IInv, StaysInv, [Next]_vars
  PROVE  StaysInv'
<1>1. /\ TypeOK /\ setup \in Setups /\ setup' = setup
      /\ pos \in Positions /\ goal \in Positions /\ known.pos \in Positions
      /\ setup.follower.min \in Positions /\ setup.follower.max \in Positions
      /\ queue \in Seq(Commands)
  <2>1. setup' = setup
    BY Zenon DEF Next, LeaderMoves, Execute, FollowerMoves, Sample, LoseSample, Hold,
       Refuse, Follow, vars
  <2> QED BY <2>1, MirrorSetups DEF IInv, TypeOK, Positions, Commands
<1>2. setup.follower.min <= setup.follower.max
  BY <1>1, MirrorConstants DEF StaysInv, InFollowerRange, Positions
<1>3. CASE LeaderMoves \/ LoseSample \/ Refuse \/ UNCHANGED vars
  <2>1. /\ UNCHANGED <<pos, goal, queue, known>>
        /\ usable' => usable
    <3>1. CASE LoseSample
      BY <3>1 DEF LoseSample
    <3>2. CASE LeaderMoves \/ Refuse \/ UNCHANGED vars
      BY <3>2 DEF LeaderMoves, Refuse, vars
    <3> QED BY <1>3, <3>1, <3>2, Zenon
  <2> QED BY <1>1, <2>1, Zenon DEF StaysInv, InFollowerRange
<1>4. CASE Execute
  <2>1. /\ queue # <<>> /\ queue' = Tail(queue)
        /\ goal' = Head(queue).to \/ goal' = goal
        /\ UNCHANGED <<pos, known, usable>>
    BY <1>4, Zenon DEF Execute
  <2>2. /\ Head(queue) = queue[1] /\ 1 \in DOMAIN queue
        /\ \A i \in DOMAIN queue' : queue'[i] = queue[i + 1] /\ i + 1 \in DOMAIN queue
    BY <1>1, <2>1
  <2> QED BY <1>1, <2>1, <2>2, Zenon DEF StaysInv, InFollowerRange
<1>5. CASE FollowerMoves
  <2>1. /\ pos' = Toward /\ goal # pos
        /\ UNCHANGED <<goal, queue, known, usable>>
    BY <1>5, Zenon DEF FollowerMoves
  <2>2. InFollowerRange(pos)'
    BY <1>1, <2>1, MirrorConstants DEF StaysInv, InFollowerRange, Toward, Positions
  <2> QED BY <1>1, <2>1, <2>2, Zenon DEF StaysInv, InFollowerRange
<1>6. CASE Sample
  <2>1. known'.pos = pos /\ UNCHANGED <<pos, goal, queue>>
    BY <1>6 DEF Sample
  <2> QED BY <1>1, <2>1, Zenon DEF StaysInv, InFollowerRange
<1>7. CASE Hold
  <2>1. UNCHANGED <<pos, goal, known, usable>>
    BY <1>7, Zenon DEF Hold
  <2>2. \A i \in DOMAIN queue' : InFollowerRange(queue[i].to)'
    <3>1. CASE queue' = queue
      BY <1>1, <3>1, Zenon DEF StaysInv, InFollowerRange
    <3>2. CASE queue' = Append(queue, [kind |-> "hold", to |-> known.pos])
      <4>1. InFollowerRange(known.pos)
        BY <1>7, Zenon DEF Hold, Ready, StaysInv
      <4>2. [kind |-> "hold", to |-> known.pos] \in Commands
        BY <1>1 DEF Commands
      <4> QED BY <1>1, <3>2, <4>1, <4>2, AppendStays DEF StaysInv
    <3> QED BY <1>7, <3>1, <3>2, Zenon DEF Hold
  <2> QED BY <1>1, <2>1, <2>2, Zenon DEF StaysInv, InFollowerRange
<1>8. CASE Follow
  <2>1. PICK g \in Goals(known.leader) :
          queue' = Append(queue, [kind |-> "goal", to |-> g]) \/ queue' = queue
    BY <1>8 DEF Follow
  <2>2. /\ Size(setup.follower) >= 2 * Margin
        /\ UNCHANGED <<pos, goal, known, usable>>
    BY <1>8, Zenon DEF Follow, Ready
  <2>3. /\ g \in Positions
        /\ (g - setup.follower.min) % Steps
             \in Margin..Size(setup.follower) - Margin
    BY <1>1, <2>2, GoalFacts DEF TypeOK
  <2>4. InFollowerRange(g)
    BY <1>1, <1>2, <2>3, GoalStays, Zenon
  <2>5. \A i \in DOMAIN queue' : InFollowerRange(queue[i].to)'
    <3>1. CASE queue' = queue
      BY <1>1, <3>1, Zenon DEF StaysInv, InFollowerRange
    <3>2. CASE queue' = Append(queue, [kind |-> "goal", to |-> g])
      <4>1. [kind |-> "goal", to |-> g] \in Commands
        BY <2>3 DEF Commands
      <4> QED BY <1>1, <2>4, <3>2, <4>1, AppendStays DEF StaysInv
    <3> QED BY <2>1, <3>1, <3>2, Zenon
  <2> QED BY <1>1, <2>2, <2>5, Zenon DEF StaysInv, InFollowerRange
<1> QED BY <1>3, <1>4, <1>5, <1>6, <1>7, <1>8, Zenon DEF Next

-----------------------------------------------------------------------------
(* Positions, goal register, sample and commands on their way are          *)
(* positions of the servo, whatever the ranges, the margin and the         *)
(* movements of the leader.                                                *)
THEOREM LoopTypes == Spec => []TypeOK
<1>1. Init => IInv
  BY InitIInv
<1>2. IInv /\ [Next]_vars => IInv'
  BY NextIInv
<1>3. IInv => TypeOK
  BY DEF IInv
<1> QED BY <1>1, <1>2, <1>3, PTL DEF Spec

(* get_movement_sequence_with_goal never commands a goal outside the       *)
(* follower's range less the safety margins, whatever the leader does.     *)
THEOREM GoalsStayInRange == Spec => []GoalsInRange
<1>1. Init => IInv
  BY InitIInv
<1>2. IInv /\ [Next]_vars => IInv'
  BY NextIInv
<1>3. IInv => GoalsInRange
  BY DEF IInv
<1> QED BY <1>1, <1>2, <1>3, PTL DEF Spec

(* A follower that starts in its calibrated range stays in it, whatever    *)
(* the leader does, however many samples are lost and however late its     *)
(* port executes goals and holds.                                          *)
THEOREM FollowerStaysInRange == Spec => FollowerStays
<1>1. Init /\ InFollowerRange(pos) => IInv /\ StaysInv
  BY InitIInv DEF Init, StaysInv
<1>2. IInv /\ StaysInv /\ [Next]_vars => IInv' /\ StaysInv'
  BY NextIInv, NextStays
<1>3. StaysInv => InFollowerRange(pos)
  BY DEF StaysInv
<1> QED BY <1>1, <1>2, <1>3, PTL DEF Spec, FollowerStays
=============================================================================
