--------------------------- MODULE MirroringProofs ---------------------------
(***************************************************************************)
(* Proofs about the mirroring tables, for every set of buses.              *)
(*                                                                         *)
(* The tables agree by themselves.  PublishedCurrent and MirroredHaveModes *)
(* need what the callback still owes while it is busy (ModesOwed).  For a  *)
(* bus whose tasks did not race, every unfinished task that has it on its  *)
(* list sends what the tables say, and so did the last one when no task is *)
(* left (TorqueOwed); the order of the tasks does not matter.              *)
(***************************************************************************)
EXTENDS Mirroring, SequenceTheorems, TLAPS

(* Every mirrored bus has a mode or gets one with the callback's           *)
(* publication.                                                            *)
ModesOwed ==
  \A f \in leaders : \A b \in {f} \cup targets[f] :
    modes[b] # "none" \/ (handler.busy /\ handler.new[b] # "none")

(* No task has the bus on its list any more.                               *)
Settled(b) == \A i \in 1 .. Len(tasks) : b \notin tasks[i].todo

(* The tasks of a bus without a race agree with the tables, and when they  *)
(* are through so does the bus, unless the last found no state of it.      *)
TorqueOwed ==
  \A b \in Buses \ raced :
    /\ \A i \in 1 .. Len(tasks) :
         b \in tasks[i].todo => (tasks[i].on <=> toFrom[b] # NoBus)
    /\ Settled(b) /\ b \notin missed => (torque[b] <=> toFrom[b] # NoBus)

IInv == TypeOK /\ TablesAgree /\ PublishedCurrent /\ ModesOwed

-----------------------------------------------------------------------------
(* Taking task i off the list leaves the others in their order.            *)
LEMMA WithoutProperties ==
  ASSUME NEW S, NEW s \in Seq(S), NEW i \in 1 .. Len(s)
  PROVE  /\ Without(s, i) \in Seq(S)
         /\ Len(Without(s, i)) = Len(s) - 1
         /\ \A j \in 1 .. Len(s) - 1 :
              Without(s, i)[j] = IF j < i THEN s[j] ELSE s[j + 1]
<1> DEFINE a == SubSeq(s, 1, i - 1)
           c == SubSeq(s, i + 1, Len(s))
<1>0. Len(s) \in Nat /\ i \in Int
  BY LenProperties
<1>e. \A j \in 1 .. Len(s) : s[j] \in S
  BY ElementOfSeq
<1>1. /\ a \in Seq(S)
      /\ Len(a) = i - 1
      /\ \A j \in 1 .. i - 1 : a[j] = s[j]
  <2>1. \A j \in 1 .. i - 1 : s[j] \in S
    BY <1>0, <1>e
  <2>2. /\ a \in Seq(S)
        /\ Len(a) = IF 1 <= i - 1 THEN (i - 1) - 1 + 1 ELSE 0
        /\ \A j \in 1 .. (i - 1) - 1 + 1 : a[j] = s[1 + j - 1]
    BY <1>0, <2>1, SubSeqProperties
  <2> HIDE DEF a
  <2> QED
    BY <1>0, <2>2
<1>2. /\ c \in Seq(S)
      /\ Len(c) = Len(s) - i
      /\ \A j \in 1 .. Len(s) - i : c[j] = s[i + j]
  <2>1. \A j \in i + 1 .. Len(s) : s[j] \in S
    BY <1>0, <1>e
  <2>2. /\ c \in Seq(S)
        /\ Len(c) = IF i + 1 <= Len(s) THEN Len(s) - (i + 1) + 1 ELSE 0
        /\ \A j \in 1 .. Len(s) - (i + 1) + 1 : c[j] = s[(i + 1) + j - 1]
    BY <1>0, <2>1, SubSeqProperties
  <2> HIDE DEF c
  <2> QED
    BY <1>0, <2>2
<1>3. Without(s, i) = a \o c
  BY DEF Without
<1> HIDE DEF a, c
<1>4. /\ a \o c \in Seq(S)
      /\ Len(a \o c) = Len(a) + Len(c)
      /\ \A j \in 1 .. Len(a) + Len(c) :
           (a \o c)[j] = IF j <= Len(a) THEN a[j] ELSE c[j - Len(a)]
  BY <1>1, <1>2, ConcatProperties, Zenon
<1>5. ASSUME NEW j \in 1 .. Len(s) - 1
      PROVE  (a \o c)[j] = IF j < i THEN s[j] ELSE s[j + 1]
  <2>1. (a \o c)[j] = IF j <= Len(a) THEN a[j] ELSE c[j - Len(a)]
    BY <1>0, <1>1, <1>2, <1>4
  <2>2. CASE j < i
    BY <1>0, <1>1, <2>1, <2>2
  <2>3. CASE ~(j < i)
    <3>1. j - Len(a) \in 1 .. Len(s) - i /\ i + (j - Len(a)) = j + 1
      BY <1>0, <1>1, <2>3
    <3> QED
      BY <1>0, <1>1, <1>2, <2>1, <2>3, <3>1
  <2> QED
    BY <2>2, <2>3, Zenon
<1> QED
  BY <1>0, <1>1, <1>2, <1>3, <1>4, <1>5

-----------------------------------------------------------------------------
(* The state before the first command satisfies the invariant.             *)
LEMMA InitIInv == Init => IInv
<1> SUFFICES ASSUME Init PROVE IInv
  OBVIOUS
<1> USE DEF Init
<1>1. TypeOK
  <2>1. NoModes \in [Buses -> Modes]
    BY DEF NoModes, Modes
  <2>2. modes \in [Buses -> Modes]
    BY <2>1
  <2>3. handler \in [busy : BOOLEAN, new : [Buses -> Modes]]
    BY <2>1 DEF Idle
  <2>4. published \in [leaders : SUBSET Buses, targets : [Buses -> SUBSET Buses]]
    BY DEF Unpublished
  <2>5. commands \in 0 .. MaxCommands /\ unplugs \in 0 .. MaxUnplugs
    BY MirroringConstants
  <2>6. tasks \in Seq(Tasks)
    OBVIOUS
  <2>7. /\ leaders \subseteq Buses
        /\ targets \in [Buses -> SUBSET Buses]
        /\ toFrom \in [Buses -> Buses \cup {NoBus}]
        /\ restored \in BOOLEAN
        /\ present \subseteq Buses
        /\ torque \in [Buses -> BOOLEAN]
        /\ missed \subseteq Buses
        /\ raced \subseteq Buses
    BY Zenon
  <2> QED
    BY <2>2, <2>3, <2>4, <2>5, <2>6, <2>7, Zenon DEF TypeOK
<1>2. TablesAgree
  BY MirroringConstants DEF TablesAgree
<1>3. PublishedCurrent
  BY DEF PublishedCurrent, Unpublished
<1>4. ModesOwed
  BY DEF ModesOwed
<1> QED
  BY <1>1, <1>2, <1>3, <1>4 DEF IInv

(* A new task at the end of the list is well typed.                        *)
LEMMA SpawnType ==
  ASSUME tasks \in Seq(Tasks), NEW on \in BOOLEAN, NEW buses \in SUBSET Buses,
         Spawn(on, buses)
  PROVE  tasks' \in Seq(Tasks) /\ raced' \subseteq Buses
<1>1. [on |-> on, todo |-> buses, read |-> FALSE, seen |-> {}] \in Tasks
  BY DEF Tasks
<1>2. tasks' \in Seq(Tasks)
  BY <1>1, AppendProperties DEF Spawn
<1>3. raced' \subseteq Buses
  BY Zenon DEF Spawn
<1> QED
  BY <1>2, <1>3

(* Merging keeps the tables of modes and the published state well typed.   *)
LEMMA MergeType ==
  ASSUME TypeOK, NEW new \in [Buses -> Modes], MergeModes(new)
  PROVE  /\ modes' \in [Buses -> Modes]
         /\ published' \in [leaders : SUBSET Buses, targets : [Buses -> SUBSET Buses]]
<1>1. modes \in [Buses -> Modes]
  BY DEF TypeOK
<1>2. leaders \in SUBSET Buses /\ targets \in [Buses -> SUBSET Buses]
  BY DEF TypeOK
<1> QED
  BY <1>1, <1>2 DEF MergeModes

(* A start leaves the tables well typed.                                   *)
LEMMA StartTypes ==
  ASSUME TypeOK, NEW f \in Buses, NEW T \in SUBSET Buses, StartMirror(f, T)
  PROVE  TypeOK'
<1> USE DEF StartMirror
<1>1. commands' \in 0 .. MaxCommands
  BY MirroringConstants DEF TypeOK
<1>2. tasks' \in Seq(Tasks) /\ raced' \subseteq Buses
  BY SpawnType, Zenon DEF TypeOK
<1>3. handler' \in [busy : BOOLEAN, new : [Buses -> Modes]]
  <2>1. StartModes(f, T) \in [Buses -> Modes]
    BY DEF StartModes, Modes
  <2> QED
    BY <2>1
<1>4. /\ leaders' \subseteq Buses
      /\ targets' \in [Buses -> SUBSET Buses]
      /\ toFrom' \in [Buses -> Buses \cup {NoBus}]
  BY DEF StartTables, TypeOK
<1> QED
  BY <1>1, <1>2, <1>3, <1>4, Zenon DEF TypeOK, env

(* So does a stop.                                                         *)
LEMMA StopTypes ==
  ASSUME TypeOK, NEW b \in Buses, StopMirror(b)
  PROVE  TypeOK'
<1> USE DEF StopMirror
<1>1. commands' \in 0 .. MaxCommands
  BY MirroringConstants DEF TypeOK
<1>2. tasks' \in Seq(Tasks) /\ raced' \subseteq Buses
  <2>1. Freed(b) \in SUBSET Buses
    BY DEF Freed, TypeOK
  <2> QED
    BY <2>1, SpawnType, Zenon DEF TypeOK
<1>3. handler' \in [busy : BOOLEAN, new : [Buses -> Modes]]
  <2>1. NoModes \in [Buses -> Modes]
    BY DEF NoModes, Modes
  <2> QED
    BY <2>1
<1>4. /\ leaders' \subseteq Buses
      /\ targets' \in [Buses -> SUBSET Buses]
      /\ toFrom' \in [Buses -> Buses \cup {NoBus}]
  BY DEF StopTables, TypeOK
<1> QED
  BY <1>1, <1>2, <1>3, <1>4, Zenon DEF TypeOK, env

(* A task that goes on or ends leaves the list of tasks well typed, and    *)
(* every entry of it is the task itself or a task that was there.          *)
LEMMA ProceedList ==
  ASSUME tasks \in Seq(Tasks), NEW i \in 1 .. Len(tasks), NEW t \in Tasks, Proceed(i, t)
  PROVE  /\ tasks' \in Seq(Tasks)
         /\ \A j \in 1 .. Len(tasks') :
              tasks'[j] = t \/ \E k \in 1 .. Len(tasks) : tasks'[j] = tasks[k]
         /\ \A k \in 1 .. Len(tasks) :
              k # i => \E j \in 1 .. Len(tasks') : tasks'[j] = tasks[k]
         /\ t.todo # {} => \E j \in 1 .. Len(tasks') : tasks'[j] = t
<1>0. Len(tasks) \in Nat /\ i \in Int
  BY LenProperties
<1>1. CASE t.todo = {}
  <2> DEFINE rest == Without(tasks, i)
  <2>1. /\ rest \in Seq(Tasks)
        /\ Len(rest) = Len(tasks) - 1
        /\ \A j \in 1 .. Len(tasks) - 1 :
             rest[j] = IF j < i THEN tasks[j] ELSE tasks[j + 1]
    BY WithoutProperties
  <2>2. tasks' = rest
    BY <1>1 DEF Proceed
  <2> HIDE DEF rest
  <2>3. ASSUME NEW j \in 1 .. Len(tasks')
        PROVE  \E k \in 1 .. Len(tasks) : tasks'[j] = tasks[k]
    <3>1. j \in 1 .. Len(tasks) /\ j + 1 \in 1 .. Len(tasks)
      BY <1>0, <2>1, <2>2
    <3> QED
      BY <1>0, <2>1, <2>2, <3>1
  <2>4. ASSUME NEW k \in 1 .. Len(tasks), k # i
        PROVE  \E j \in 1 .. Len(tasks') : tasks'[j] = tasks[k]
    <3>1. CASE k < i
      <4>1. k \in 1 .. Len(tasks') /\ tasks'[k] = tasks[k]
        BY <1>0, <2>1, <2>2, <3>1
      <4> QED
        BY <4>1, Zenon
    <3>2. CASE ~(k < i)
      <4>1. k - 1 \in 1 .. Len(tasks') /\ tasks'[k - 1] = tasks[k]
        BY <1>0, <2>1, <2>2, <2>4, <3>2
      <4> QED
        BY <4>1, Zenon
    <3> QED
      BY <3>1, <3>2, Zenon
  <2> QED
    BY <1>1, <2>1, <2>2, <2>3, <2>4, Zenon
<1>2. CASE t.todo # {}
  <2>1. /\ tasks' = [tasks EXCEPT ![i] = t]
        /\ tasks' \in Seq(Tasks) /\ Len(tasks') = Len(tasks)
    BY <1>2 DEF Proceed
  <2>2. /\ tasks'[i] = t
        /\ \A k \in 1 .. Len(tasks) : k # i => tasks'[k] = tasks[k]
    BY <2>1
  <2> QED
    BY <2>1, <2>2, Zenon
<1> QED
  BY <1>1, <1>2, Zenon

(* A task's step changes the list, and a sending one the torque.           *)
LEMMA TaskTypes ==
  ASSUME TypeOK, TaskStep
  PROVE  TypeOK'
<1>0. PICK i \in 1 .. Len(tasks) : TaskRead(i) \/ (\E b \in Buses : TaskSend(i, b))
  BY Zenon DEF TaskStep
<1>t. tasks \in Seq(Tasks) /\ tasks[i] \in Tasks
  BY ElementOfSeq DEF TypeOK
<1>1. CASE TaskRead(i)
  <2>1. PICK seen \in {present, {}} :
          Proceed(i, [tasks[i] EXCEPT !.read = TRUE, !.seen = seen \cap tasks[i].todo])
    BY <1>1, Zenon DEF TaskRead
  <2>2. [tasks[i] EXCEPT !.read = TRUE, !.seen = seen \cap tasks[i].todo] \in Tasks
    BY <1>t DEF Tasks
  <2>3. tasks' \in Seq(Tasks)
    BY <1>t, <2>1, <2>2, ProceedList, Zenon
  <2> QED
    BY <2>3, <1>1, Zenon DEF TypeOK, TaskRead, tables, env
<1>2. ASSUME NEW b \in Buses, TaskSend(i, b) PROVE TypeOK'
  <2>1. [tasks[i] EXCEPT !.todo = @ \ {b}, !.seen = @ \ {b}] \in Tasks
    BY <1>t DEF Tasks
  <2>2. tasks' \in Seq(Tasks)
    BY <1>t, <1>2, <2>1, ProceedList, Zenon DEF TaskSend
  <2>3. torque' \in [Buses -> BOOLEAN] /\ missed' \subseteq Buses
    <3>1. tasks[i].on \in BOOLEAN
      BY <1>t DEF Tasks
    <3> QED
      BY <3>1, <1>2, Zenon DEF TaskSend, Send, TypeOK
  <2> QED
    BY <2>2, <2>3, <1>2, Zenon DEF TypeOK, TaskSend, tables, env
<1> QED
  BY <1>0, <1>1, <1>2, Zenon

(* Every step preserves the types.                                         *)
LEMMA NextTypeOK == TypeOK /\ [Next]_vars => TypeOK'
<1> SUFFICES ASSUME TypeOK, [Next]_vars PROVE TypeOK'
  OBVIOUS
<1>1. ASSUME NEW f \in Buses, NEW T \in SUBSET Buses, StartMirror(f, T) PROVE TypeOK'
  BY <1>1, StartTypes
<1>2. ASSUME NEW b \in Buses, StopMirror(b) PROVE TypeOK'
  BY <1>2, StopTypes
<1>3. ASSUME NEW b \in Buses, BusGone(b) PROVE TypeOK'
  <2>1. unplugs' \in 0 .. MaxUnplugs
    BY <1>3, MirroringConstants DEF BusGone, TypeOK
  <2>2. present' \subseteq Buses
    BY <1>3 DEF BusGone, TypeOK
  <2> QED
    BY <2>1, <2>2, <1>3, Zenon DEF TypeOK, BusGone, tables
<1>4. ASSUME NEW b \in Buses, BusBack(b) PROVE TypeOK'
  <2>1. present' \subseteq Buses
    BY <1>4 DEF BusBack, TypeOK
  <2> QED
    BY <2>1, <1>4, Zenon DEF TypeOK, BusBack, tables
<1>5. CASE PublishCommand
  <2>1. handler.new \in [Buses -> Modes]
    BY DEF TypeOK
  <2>2. /\ modes' \in [Buses -> Modes]
        /\ published' \in [leaders : SUBSET Buses, targets : [Buses -> SUBSET Buses]]
    BY <2>1, <1>5, MergeType DEF PublishCommand
  <2>3. handler' \in [busy : BOOLEAN, new : [Buses -> Modes]]
    BY <1>5 DEF PublishCommand, Idle, NoModes, Modes
  <2> QED
    BY <2>2, <2>3, <1>5, Zenon DEF TypeOK, PublishCommand, tables, env
<1>6. CASE Restore
  <2>1. /\ modes' \in [Buses -> Modes]
        /\ published' \in [leaders : SUBSET Buses, targets : [Buses -> SUBSET Buses]]
    <3>1. SavedModes \subseteq [Buses -> Modes]
      BY DEF SavedModes, NoModes, Modes
    <3> QED
      BY <3>1, <1>6, MergeType, Zenon DEF Restore
  <2> QED
    BY <2>1, <1>6, Zenon DEF TypeOK, Restore, tables, env
<1>7. CASE TaskStep
  BY <1>7, TaskTypes
<1>8. CASE UNCHANGED vars
  BY <1>8, Zenon DEF TypeOK, vars, tables, env
<1> QED
  BY <1>1, <1>2, <1>3, <1>4, <1>5, <1>6, <1>7, <1>8, Zenon DEF Next

-----------------------------------------------------------------------------
(* Only the two handlers change the tables.                                *)
LEMMA TablesChange ==
  ASSUME [Next]_vars
  PROVE  \/ \E f \in Buses, T \in SUBSET Buses : StartMirror(f, T)
         \/ \E b \in Buses : StopMirror(b)
         \/ UNCHANGED tables /\ PublishCommand
         \/ UNCHANGED tables /\ Restore
         \/ UNCHANGED <<tables, handler, modes, published>>
<1>1. ASSUME NEW b \in Buses, BusGone(b) \/ BusBack(b)
      PROVE  UNCHANGED <<tables, handler, modes, published>>
  BY <1>1, Zenon DEF BusGone, BusBack
<1>2. ASSUME TaskStep PROVE UNCHANGED <<tables, handler, modes, published>>
  BY <1>2, Zenon DEF TaskStep, TaskRead, TaskSend
<1>3. PublishCommand \/ Restore => UNCHANGED tables
  BY Zenon DEF PublishCommand, Restore
<1>4. ASSUME UNCHANGED vars PROVE UNCHANGED <<tables, handler, modes, published>>
  BY <1>4, Zenon DEF vars
<1> QED
  BY <1>1, <1>2, <1>3, <1>4, Zenon DEF Next

(* The tables stay each other's inverse.                                   *)
LEMMA NextTablesAgree == TypeOK /\ TablesAgree /\ [Next]_vars => TablesAgree'
<1> SUFFICES ASSUME TypeOK, TablesAgree, [Next]_vars PROVE TablesAgree'
  OBVIOUS
<1> USE DEF TablesAgree
<1>1. ASSUME NEW f \in Buses, NEW T \in SUBSET Buses, StartMirror(f, T)
      PROVE  TablesAgree'
  BY <1>1 DEF TypeOK, StartMirror, StartTables
<1>2. ASSUME NEW b \in Buses, StopMirror(b) PROVE TablesAgree'
  BY <1>2, MirroringConstants DEF TypeOK, StopMirror, StopTables
<1>3. ASSUME UNCHANGED tables PROVE TablesAgree'
  BY <1>3 DEF tables
<1> QED
  BY <1>1, <1>2, <1>3, TablesChange, Zenon

(* Whatever changes the tables leaves the callback busy until it has       *)
(* published them, and the restore task publishes them as they are.        *)
LEMMA NextPublished ==
  TypeOK /\ PublishedCurrent /\ [Next]_vars => PublishedCurrent'
<1> SUFFICES ASSUME TypeOK, PublishedCurrent, [Next]_vars PROVE PublishedCurrent'
  OBVIOUS
<1> USE DEF PublishedCurrent
<1>1. ASSUME NEW f \in Buses, NEW T \in SUBSET Buses, StartMirror(f, T)
      PROVE  PublishedCurrent'
  BY <1>1 DEF StartMirror
<1>2. ASSUME NEW b \in Buses, StopMirror(b) PROVE PublishedCurrent'
  BY <1>2 DEF StopMirror
<1>3. ASSUME UNCHANGED tables, PublishCommand \/ Restore PROVE PublishedCurrent'
  BY <1>3 DEF PublishCommand, Restore, MergeModes, tables
<1>4. ASSUME UNCHANGED <<tables, handler, modes, published>> PROVE PublishedCurrent'
  BY <1>4 DEF tables
<1> QED
  BY <1>1, <1>2, <1>3, <1>4, TablesChange, Zenon

(* Merging never takes a mode away, and gives the modes that are owed.     *)
LEMMA NextModesOwed ==
  TypeOK /\ TablesAgree /\ ModesOwed /\ [Next]_vars => ModesOwed'
<1> SUFFICES ASSUME TypeOK, TablesAgree, ModesOwed, [Next]_vars PROVE ModesOwed'
  OBVIOUS
<1> USE DEF ModesOwed
<1>1. ASSUME NEW f \in Buses, NEW T \in SUBSET Buses, StartMirror(f, T)
      PROVE  ModesOwed'
  <2> SUFFICES ASSUME NEW s \in leaders', NEW b \in {s} \cup targets'[s]
               PROVE  modes[b] # "none" \/ StartModes(f, T)[b] # "none"
    BY <1>1 DEF StartMirror
  <2>1. s \in Buses /\ b \in Buses
    BY <1>1 DEF StartMirror, StartTables, TypeOK
  <2>2. CASE b = f \/ b \in T
    BY <2>1, <2>2 DEF StartModes
  <2>3. CASE b # f /\ b \notin T
    <3>1. s = b \/ b \in targets[s]
      BY <1>1, <2>1, <2>3 DEF StartMirror, StartTables, TypeOK
    <3>2. s \in leaders \/ s = f
      BY <1>1 DEF StartMirror, StartTables
    <3> QED
      BY <1>1, <2>1, <2>3, <3>1, <3>2 DEF StartMirror, TypeOK, TablesAgree
  <2> QED
    BY <2>2, <2>3
<1>2. ASSUME NEW b \in Buses, StopMirror(b) PROVE ModesOwed'
  BY <1>2 DEF StopMirror, StopTables, TypeOK
<1>3. CASE UNCHANGED tables /\ PublishCommand
  BY <1>3 DEF PublishCommand, MergeModes, tables, TypeOK
<1>4. CASE UNCHANGED tables /\ Restore
  BY <1>4 DEF Restore, MergeModes, tables, TypeOK
<1>5. ASSUME UNCHANGED <<tables, handler, modes, published>> PROVE ModesOwed'
  BY <1>5 DEF tables
<1> QED
  BY <1>1, <1>2, <1>3, <1>4, <1>5, TablesChange, Zenon

(* The invariant is inductive.                                             *)
LEMMA NextIInv == IInv /\ [Next]_vars => IInv'
BY NextTypeOK, NextTablesAgree, NextPublished, NextModesOwed, Zenon DEF IInv

(* The invariant holds in every reachable state.                           *)
THEOREM Invariance == Spec => []IInv
BY InitIInv, NextIInv, PTL DEF Spec

(* Type correctness: the tables, modes and torque tasks of the mirroring   *)
(* driver stay in their ranges, for any set of buses and any bounds.       *)
THEOREM MirroringTypes == Spec => []TypeOK
<1>1. IInv => TypeOK
  BY DEF IInv
<1> QED
  BY <1>1, Invariance, PTL

(* Inference::start and stop keep from_to and to_from each other's         *)
(* inverse: a bus never follows two sources.                               *)
THEOREM TablesAlwaysAgree == Spec => []TablesAgree
<1>1. IInv => TablesAgree
  BY DEF IInv
<1> QED
  BY <1>1, Invariance, PTL

(* merge_modes publishes the tables after every change, and the restore    *)
(* task never publishes an older state over a newer one.                   *)
THEOREM PublicationIsCurrent == Spec => []PublishedCurrent
<1>1. IInv => PublishedCurrent
  BY DEF IInv
<1> QED
  BY <1>1, Invariance, PTL

(* With the callback at rest every bus of a mirroring has a mode.          *)
THEOREM MirroredBusesHaveModes == Spec => []MirroredHaveModes
<1>1. IInv => MirroredHaveModes
  BY DEF IInv, ModesOwed, MirroredHaveModes
<1> QED
  BY <1>1, Invariance, PTL

-----------------------------------------------------------------------------
(* Nothing is powered and no task is spawned in the initial state.         *)
LEMMA InitTorque == Init => TorqueOwed
<1> SUFFICES ASSUME Init PROVE TorqueOwed
  OBVIOUS
<1>1. ~(\E i \in 1 .. Len(tasks) : TRUE)
  BY DEF Init
<1>2. \A b \in Buses : ~torque[b] /\ toFrom[b] = NoBus
  BY Zenon DEF Init
<1> QED
  BY <1>1, <1>2, Zenon DEF TorqueOwed

(* A spawned task agrees with the tables on the buses of its list, and so  *)
(* do the others that have such a bus, unless it is raced now.             *)
LEMMA SpawnKeepsTorque ==
  ASSUME TypeOK, TorqueOwed, NEW on \in BOOLEAN, NEW buses \in SUBSET Buses,
         Spawn(on, buses), UNCHANGED <<torque, missed>>,
         \A b \in buses : (toFrom'[b] # NoBus) <=> on,
         \A b \in Buses \ buses : (toFrom'[b] # NoBus) <=> (toFrom[b] # NoBus)
  PROVE  TorqueOwed'
<1> DEFINE new == [on |-> on, todo |-> buses, read |-> FALSE, seen |-> {}]
<1>1. /\ Len(tasks) \in Nat
      /\ Len(tasks') = Len(tasks) + 1
      /\ \A i \in 1 .. Len(tasks) : tasks'[i] = tasks[i]
      /\ tasks'[Len(tasks) + 1] = new
  <2>1. new \in Tasks
    BY DEF Tasks
  <2>2. tasks \in Seq(Tasks)
    BY DEF TypeOK
  <2> QED
    BY <2>1, <2>2, AppendProperties, LenProperties DEF Spawn
<1>2. new.todo = buses /\ new.on = on
  OBVIOUS
<1> HIDE DEF new
<1>3. /\ Len(tasks) + 1 \in 1 .. Len(tasks')
      /\ \A i \in 1 .. Len(tasks) : i \in 1 .. Len(tasks')
      /\ \A i \in 1 .. Len(tasks') : i \in 1 .. Len(tasks) \/ i = Len(tasks) + 1
  BY <1>1
<1> SUFFICES ASSUME NEW b \in Buses, b \notin raced'
             PROVE  /\ \A i \in 1 .. Len(tasks') :
                         b \in tasks'[i].todo => (tasks'[i].on <=> toFrom'[b] # NoBus)
                    /\ Settled(b)' /\ b \notin missed =>
                         (torque[b] <=> toFrom'[b] # NoBus)
  BY Zenon DEF TorqueOwed
<1>4. CASE b \in buses
  <2>1. ~Settled(b)'
    BY <1>1, <1>2, <1>3, <1>4, Zenon DEF Settled
  <2>2. \A i \in 1 .. Len(tasks) : b \in tasks[i].todo => tasks[i].on = on
    BY <1>4, Zenon DEF Spawn, Opposed
  <2> QED
    BY <1>1, <1>2, <1>3, <1>4, <2>1, <2>2, Zenon
<1>5. CASE b \notin buses
  <2>1. b \notin raced
    BY <1>5, Zenon DEF Spawn
  <2>2. Settled(b)' => Settled(b)
    BY <1>1, <1>3, Zenon DEF Settled
  <2>3. (toFrom'[b] # NoBus) <=> (toFrom[b] # NoBus)
    BY <1>5, Zenon
  <2>4. /\ \A i \in 1 .. Len(tasks) :
             b \in tasks[i].todo => (tasks[i].on <=> toFrom[b] # NoBus)
        /\ Settled(b) /\ b \notin missed => (torque[b] <=> toFrom[b] # NoBus)
    BY <2>1, Zenon DEF TorqueOwed
  <2>5. \A i \in 1 .. Len(tasks') :
          b \in tasks'[i].todo => i \in 1 .. Len(tasks) /\ tasks'[i] = tasks[i]
    BY <1>1, <1>2, <1>3, <1>5, Zenon
  <2> QED
    BY <2>2, <2>3, <2>4, <2>5, Zenon
<1> QED
  BY <1>4, <1>5, Zenon

(* A task that reads the state changes no list.                            *)
LEMMA ReadKeepsTorque ==
  ASSUME TypeOK, TorqueOwed, NEW i \in 1 .. Len(tasks), TaskRead(i)
  PROVE  TorqueOwed'
<1>t. tasks \in Seq(Tasks) /\ tasks[i] \in Tasks
  BY ElementOfSeq DEF TypeOK
<1>1. PICK seen \in {present, {}} :
        Proceed(i, [tasks[i] EXCEPT !.read = TRUE, !.seen = seen \cap tasks[i].todo])
  BY Zenon DEF TaskRead
<1> DEFINE t == [tasks[i] EXCEPT !.read = TRUE, !.seen = seen \cap tasks[i].todo]
<1>2. t \in Tasks /\ t.todo = tasks[i].todo /\ t.on = tasks[i].on
  <2>1. present \subseteq Buses
    BY Zenon DEF TypeOK
  <2> QED
    BY <1>t, <2>1 DEF Tasks
<1>3. /\ \A j \in 1 .. Len(tasks') :
           tasks'[j] = t \/ \E k \in 1 .. Len(tasks) : tasks'[j] = tasks[k]
      /\ \A k \in 1 .. Len(tasks) :
           k # i => \E j \in 1 .. Len(tasks') : tasks'[j] = tasks[k]
      /\ t.todo # {} => \E j \in 1 .. Len(tasks') : tasks'[j] = t
  BY <1>t, <1>1, <1>2, ProceedList, Zenon
<1> HIDE DEF t
<1>4. UNCHANGED <<toFrom, torque, missed, raced>>
  BY Zenon DEF TaskRead, tables
<1>5. ASSUME NEW b \in Buses, Settled(b)' PROVE Settled(b)
  BY <1>2, <1>3, <1>5, Zenon DEF Settled
<1>6. ASSUME NEW b \in Buses, b \notin raced
      PROVE  \A j \in 1 .. Len(tasks') :
               b \in tasks'[j].todo => (tasks'[j].on <=> toFrom[b] # NoBus)
  <2>1. \A j \in 1 .. Len(tasks) :
          b \in tasks[j].todo => (tasks[j].on <=> toFrom[b] # NoBus)
    BY <1>6, Zenon DEF TorqueOwed
  <2> QED
    BY <1>2, <1>3, <2>1, Zenon
<1> QED
  BY <1>4, <1>5, <1>6, Zenon DEF TorqueOwed

(* A task sends a command: unless the bus is raced, it is the one the      *)
(* tables ask for.                                                         *)
LEMMA SendKeepsTorque ==
  ASSUME TypeOK, TorqueOwed, NEW i \in 1 .. Len(tasks), NEW a \in Buses, TaskSend(i, a)
  PROVE  TorqueOwed'
<1>t. tasks \in Seq(Tasks) /\ tasks[i] \in Tasks
  BY ElementOfSeq DEF TypeOK
<1> DEFINE t == [tasks[i] EXCEPT !.todo = @ \ {a}, !.seen = @ \ {a}]
<1>2. t \in Tasks /\ t.todo = tasks[i].todo \ {a} /\ t.on = tasks[i].on
  BY <1>t DEF Tasks
<1>3. /\ \A j \in 1 .. Len(tasks') :
           tasks'[j] = t \/ \E k \in 1 .. Len(tasks) : tasks'[j] = tasks[k]
      /\ \A k \in 1 .. Len(tasks) :
           k # i => \E j \in 1 .. Len(tasks') : tasks'[j] = tasks[k]
      /\ t.todo # {} => \E j \in 1 .. Len(tasks') : tasks'[j] = t
  BY <1>t, <1>2, ProceedList, Zenon DEF TaskSend
<1> HIDE DEF t
<1>4. UNCHANGED <<toFrom, raced>> /\ a \in tasks[i].todo /\ Send(i, a)
  BY Zenon DEF TaskSend, tables
<1> SUFFICES ASSUME NEW b \in Buses, b \notin raced
             PROVE  /\ \A j \in 1 .. Len(tasks') :
                         b \in tasks'[j].todo => (tasks'[j].on <=> toFrom[b] # NoBus)
                    /\ Settled(b)' /\ b \notin missed' =>
                         (torque'[b] <=> toFrom[b] # NoBus)
  BY <1>4, Zenon DEF TorqueOwed
<1>5. /\ \A j \in 1 .. Len(tasks) :
           b \in tasks[j].todo => (tasks[j].on <=> toFrom[b] # NoBus)
      /\ Settled(b) /\ b \notin missed => (torque[b] <=> toFrom[b] # NoBus)
  BY Zenon DEF TorqueOwed
<1>6. \A j \in 1 .. Len(tasks') :
        b \in tasks'[j].todo => (tasks'[j].on <=> toFrom[b] # NoBus)
  BY <1>2, <1>3, <1>5, Zenon
<1>7. ASSUME Settled(b)', b \notin missed' PROVE torque'[b] <=> toFrom[b] # NoBus
  <2>1. CASE b = a
    <3>1. torque'[b] = tasks[i].on
      BY <1>4, <1>7, <2>1, Zenon DEF Send, TypeOK
    <3> QED
      BY <1>4, <1>5, <2>1, <3>1, Zenon
  <2>2. CASE b # a
    <3>1. torque'[b] = torque[b] /\ b \notin missed
      BY <1>4, <1>7, <2>2, Zenon DEF Send, TypeOK
    <3>2. Settled(b)
      BY <1>2, <1>3, <1>7, <2>2, Zenon DEF Settled
    <3> QED
      BY <1>5, <3>1, <3>2, Zenon
  <2> QED
    BY <2>1, <2>2, Zenon
<1> QED
  BY <1>6, <1>7, Zenon

(* Every step keeps what the tasks owe, in whatever order they run.        *)
LEMMA NextTorque == TypeOK /\ TablesAgree /\ TorqueOwed /\ [Next]_vars => TorqueOwed'
<1> SUFFICES ASSUME TypeOK, TablesAgree, TorqueOwed, [Next]_vars PROVE TorqueOwed'
  OBVIOUS
<1>1. ASSUME NEW f \in Buses, NEW T \in SUBSET Buses, StartMirror(f, T)
      PROVE  TorqueOwed'
  <2>1. \A b \in T : (toFrom'[b] # NoBus) <=> TRUE
    BY <1>1, MirroringConstants DEF StartMirror, StartTables
  <2>2. \A b \in Buses \ T : (toFrom'[b] # NoBus) <=> (toFrom[b] # NoBus)
    BY <1>1 DEF StartMirror, StartTables
  <2>3. Spawn(TRUE, T) /\ UNCHANGED <<torque, missed>>
    BY <1>1, Zenon DEF StartMirror
  <2> QED
    BY <2>1, <2>2, <2>3, SpawnKeepsTorque, Zenon
<1>2. ASSUME NEW c \in Buses, StopMirror(c) PROVE TorqueOwed'
  <2>0. Freed(c) \in SUBSET Buses
    BY DEF Freed, TypeOK
  <2>1. \A b \in Freed(c) : (toFrom'[b] # NoBus) <=> FALSE
    BY <1>2, <2>0 DEF StopMirror, StopTables, Freed
  <2>2. \A b \in Buses \ Freed(c) : (toFrom'[b] # NoBus) <=> (toFrom[b] # NoBus)
    BY <1>2 DEF StopMirror, StopTables, Freed
  <2>3. Spawn(FALSE, Freed(c)) /\ UNCHANGED <<torque, missed>>
    BY <1>2, Zenon DEF StopMirror
  <2> QED
    BY <2>0, <2>1, <2>2, <2>3, SpawnKeepsTorque, Zenon
<1>3. CASE TaskStep
  <2>0. PICK i \in 1 .. Len(tasks) : TaskRead(i) \/ (\E b \in Buses : TaskSend(i, b))
    BY <1>3, Zenon DEF TaskStep
  <2> QED
    BY <2>0, ReadKeepsTorque, SendKeepsTorque, Zenon
<1>4. ASSUME UNCHANGED <<toFrom, tasks, torque, missed, raced>> PROVE TorqueOwed'
  BY <1>4, Zenon DEF TorqueOwed, Settled
<1>5. ASSUME NEW b \in Buses, BusGone(b) \/ BusBack(b)
      PROVE  UNCHANGED <<toFrom, tasks, torque, missed, raced>>
  BY <1>5, Zenon DEF BusGone, BusBack, tables
<1>6. PublishCommand \/ Restore => UNCHANGED <<toFrom, tasks, torque, missed, raced>>
  BY Zenon DEF PublishCommand, Restore, tables
<1>7. UNCHANGED vars => UNCHANGED <<toFrom, tasks, torque, missed, raced>>
  BY Zenon DEF vars, tables
<1> QED
  BY <1>1, <1>2, <1>3, <1>4, <1>5, <1>6, <1>7, Zenon DEF Next

(* With all torque tasks through, in whatever order the runtime ran them,  *)
(* exactly the followers are powered, except for buses the newest command  *)
(* did not reach and buses whose start and stop ran together.              *)
THEOREM TorqueIsRight == Spec => []TorqueFollowsTables
<1>1. Init => IInv /\ TorqueOwed
  BY InitIInv, InitTorque, Zenon
<1>2. IInv /\ TorqueOwed /\ [Next]_vars => (IInv /\ TorqueOwed)'
  BY NextIInv, NextTorque, Zenon DEF IInv
<1>3. TorqueOwed => TorqueFollowsTables
  <2> SUFFICES ASSUME TorqueOwed, tasks = <<>>, NEW b \in Buses \ (missed \cup raced)
               PROVE  torque[b] <=> toFrom[b] # NoBus
    BY Zenon DEF TorqueFollowsTables
  <2>1. Settled(b)
    BY DEF Settled
  <2> QED
    BY <2>1, Zenon DEF TorqueOwed
<1> QED
  BY <1>1, <1>2, <1>3, PTL DEF Spec
=============================================================================
