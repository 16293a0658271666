---------------------- MODULE CalibrationSessionProofs ----------------------
(***************************************************************************)
(* Proofs about CalibrationSession, for any number of calibrations,        *)
(* sweeps, watchers and commands.                                          *)
(***************************************************************************)
EXTENDS CalibrationSession, TLAPS

USE SessionConstants

(* The sets TypeOK speaks of.                                              *)
LEMMA Constants ==
  /\ Calibrations = 1..MaxStarts
  /\ MaxStarts \in Nat /\ Sweeps \in Nat /\ MaxCommands \in Nat /\ MaxErrors \in Nat
  /\ Idle \in Commands
  BY Zenon DEF Calibrations, Idle, Commands, None

(* The tuples of variables, taken apart.                                   *)
LEMMA Stutter ==
  ASSUME UNCHANGED vars
  PROVE  /\ UNCHANGED <<tx, worker, started, storing, shown>>
         /\ UNCHANGED <<flag, pc, left, counter, ok, news>>
         /\ UNCHANGED <<rx, watch, freezed, points>>
         /\ UNCHANGED <<stored, progress, bounds>>
         /\ UNCHANGED <<commands, errors>>
         /\ UNCHANGED <<quiet, clean, wiped>>
  BY Zenon DEF vars, port, tasks, meta, shared, budget, history

(* The initial states have the types.                                      *)
LEMMA InitTypes == Init => TypeOK
  <1> SUFFICES ASSUME Init PROVE TypeOK
    BY Zenon
  <1>1. tx \in Seq(Commands) /\ worker \in Commands /\ shown \in Nat
    BY Constants DEF Init
  <1>2. rx \in [Watchers -> Seq(Envelopes)]
    BY DEF Init
  <1>3. /\ started \in 0..MaxStarts /\ stored \in 0..MaxStarts
        /\ commands \in 0..MaxCommands /\ errors \in 0..MaxErrors
        /\ left \in [Calibrations -> 0..Sweeps] /\ counter \in [Calibrations -> Nat]
    BY Constants DEF Init, None
  <1>4. /\ flag \in [Calibrations -> BOOLEAN] /\ ok \in [Calibrations -> BOOLEAN]
        /\ wiped \in [Watchers -> BOOLEAN] /\ points \in [Watchers -> BOOLEAN]
        /\ freezed \in [Watchers -> BOOLEAN]
        /\ storing \in BOOLEAN /\ bounds \in BOOLEAN
    BY Zenon DEF Init
  <1>5. /\ pc \in [Calibrations -> {"unborn", "start", "step", "moving", "look", "stall",
                                   "stopping", "cleanup", "mark", "clear", "ended"}]
        /\ watch \in [Watchers -> {"read", "reset", "freeze", "stop", "dead"}]
        /\ progress \in {"none", "InProgress", "Stopped", "Failed", "Done"}
        /\ quiet \subseteq Calibrations /\ clean \subseteq Calibrations
        /\ news \subseteq Calibrations
    BY Zenon DEF Init
  <1>. QED
    BY <1>1, <1>2, <1>3, <1>4, <1>5, Zenon DEF TypeOK

(* What Publish adds are calibrations.                                     *)
LEMMA PublishTypes == TypeOK /\ Publish => news' \subseteq Calibrations
  BY Zenon DEF TypeOK, Publish

(* What Tell appends are envelopes.                                        *)
LEMMA TellTypes ==
  ASSUME TypeOK, NEW envelope \in Envelopes, Tell(envelope)
  PROVE  rx' \in [Watchers -> Seq(Envelopes)]
  <1>1. \A w \in Watchers : Append(rx[w], envelope) \in Seq(Envelopes)
    BY DEF TypeOK
  <1>. QED
    BY <1>1, Zenon DEF Tell, TypeOK

(* A command of a calibration, and a client's.                             *)
LEMMA CommandTypes ==
  /\ \A kind \in CalibratorKinds, c \in Calibrations, n \in Nat :
        [kind |-> kind, by |-> c, id |-> n] \in Commands
  /\ \A kind \in Kinds : [kind |-> kind, by |-> None, id |-> 0] \in Commands
  /\ \A x \in Commands :
        /\ x.id \in Nat
        /\ x.kind \in CalibratorKinds => x.by \in Calibrations
  BY DEF Commands, CalibratorKinds

(* Send appends a command.                                                 *)
LEMMA SendTypes ==
  ASSUME TypeOK, NEW c \in Calibrations, NEW kind \in CalibratorKinds, Send(c, kind)
  PROVE  /\ tx' \in Seq(Commands)
         /\ counter' \in [Calibrations -> Nat]
  <1>1. counter[c] + 1 \in Nat
    BY Constants DEF TypeOK
  <1>2. [kind |-> kind, by |-> c, id |-> counter[c] + 1] \in Commands
    BY <1>1, CommandTypes, Zenon
  <1>. QED
    BY <1>1, <1>2 DEF TypeOK, Send

(* The steps of the worker and of the clients keep the types.              *)
LEMMA WorkerTypes ==
  ASSUME TypeOK, Worker \/ ReadMotor \/ \E kind \in Kinds : Submit(kind)
  PROVE  TypeOK'
  <1>. USE Constants, PublishTypes DEF port, tasks, meta, shared, budget, history
  <1>1. CASE \E kind \in Kinds : Submit(kind)
    <2>1. PICK kind \in Kinds : Submit(kind)
      BY <1>1, Zenon
    <2>2. [kind |-> kind, by |-> None, id |-> 0] \in Commands
      BY CommandTypes, Zenon
    <2>3. tx' \in Seq(Commands) /\ commands' \in 0..MaxCommands
      BY <2>1, <2>2 DEF Submit, TypeOK
    <2>. QED
      BY <2>1, <2>3, Zenon DEF Submit, TypeOK
  <1>2. CASE TakeCommand
    <2>1. Head(tx) \in Commands /\ Tail(tx) \in Seq(Commands)
      BY <1>2 DEF TakeCommand, TypeOK
    <2>2. Head(tx).id \in Nat
      BY <2>1, CommandTypes, Zenon
    <2>3. shown' \in Nat
      BY <1>2, <2>2, Zenon DEF TakeCommand, TypeOK
    <2>. QED
      BY <1>2, <2>1, <2>3, Zenon DEF TakeCommand, TypeOK
  <1>3. CASE FinishMotor
    <2>1. worker.kind = "off" => worker.by \in Calibrations
      BY CommandTypes, Zenon DEF TypeOK, CalibratorKinds
    <2>. QED
      BY <1>3, <2>1, Zenon DEF FinishMotor, TypeOK
  <1>4. CASE FinishControl
    <2>1. worker.kind \in Envelopes
      BY <1>4, Zenon DEF FinishControl, Envelopes
    <2>2. rx' \in [Watchers -> Seq(Envelopes)]
      BY <1>4, <2>1, TellTypes, Zenon DEF FinishControl, TypeOK
    <2>. QED
      BY <1>4, <2>2, Zenon DEF FinishControl, TypeOK
  <1>5. CASE SpawnCalibration
    <2>1. started + 1 \in Calibrations /\ started' \in 0..MaxStarts
      BY <1>5 DEF SpawnCalibration, TypeOK
    <2>2. flag' \in [Calibrations -> BOOLEAN]
      BY <1>5, Zenon DEF SpawnCalibration, TypeOK
    <2>. QED
      BY <1>5, <2>1, <2>2 DEF SpawnCalibration, TypeOK
  <1>6. CASE StoreFlag
    BY <1>6, Zenon DEF StoreFlag, TypeOK
  <1>7. CASE NothingToCalibrate
    BY <1>7, Zenon DEF NothingToCalibrate, TypeOK
  <1>8. CASE ReadMotor
    <2>1. rx' \in [Watchers -> Seq(Envelopes)]
      BY <1>8, TellTypes, Zenon DEF ReadMotor, Envelopes
    <2>. QED
      BY <1>8, <2>1, Zenon DEF ReadMotor, TypeOK
  <1>. QED
    BY <1>1, <1>2, <1>3, <1>4, <1>5, <1>6, <1>7, <1>8, Zenon DEF Worker

(* The steps of a calibration's task keep the types.                       *)
LEMMA TaskTypes ==
  ASSUME TypeOK, NEW c \in Calibrations, Task(c)
  PROVE  TypeOK'
  <1>. USE Constants, PublishTypes DEF port, tasks, meta, shared, budget, history
  <1>. DEFINE Sent == tx' \in Seq(Commands) /\ counter' \in [Calibrations -> Nat]
  <1>1. CASE Begin(c)
    BY <1>1, Zenon DEF Begin, TypeOK
  <1>2. CASE NextStep(c)
    <2>1. CASE left[c] > 0
      <3>1. Sent
        BY <1>2, <2>1, SendTypes DEF NextStep, CalibratorKinds
      <3>2. left[c] - 1 \in 0..Sweeps
        <4>1. left[c] \in 0..Sweeps
          BY Zenon DEF TypeOK
        <4>. QED
          BY <2>1, <4>1
      <3>3. left' \in [Calibrations -> 0..Sweeps]
        <4>1. left[c] # 0
          BY <2>1 DEF TypeOK
        <4>2. left' = [left EXCEPT ![c] = left[c] - 1]
          BY <1>2, <4>1, Zenon DEF NextStep
        <4>3. left \in [Calibrations -> 0..Sweeps]
          BY Zenon DEF TypeOK
        <4>. QED
          BY <3>2, <4>2, <4>3, Zenon
      <3>4. news' \subseteq Calibrations
        BY <1>2, Zenon DEF NextStep
      <3>5. ok' \in [Calibrations -> BOOLEAN]
        BY <1>2, Zenon DEF NextStep, TypeOK
      <3>6. pc' \in [Calibrations -> {"unborn", "start", "step", "moving", "look", "stall",
                                      "stopping", "cleanup", "mark", "clear", "ended"}]
        BY <1>2, Zenon DEF NextStep, TypeOK
      <3>. QED
        BY <1>2, <3>1, <3>3, <3>4, <3>5, <3>6, Zenon DEF NextStep, TypeOK
    <2>2. CASE ~(left[c] > 0)
      BY <1>2, <2>2, Zenon DEF NextStep, TypeOK
    <2>. QED
      BY <2>1, <2>2, Zenon
  <1>3. CASE CheckStop(c)
    <2>1. Sent
      BY <1>3, SendTypes, Zenon DEF CheckStop, CalibratorKinds
    <2>. QED
      BY <1>3, <2>1, Zenon DEF CheckStop, TypeOK
  <1>4. CASE MoveShown(c)
    BY <1>4, Zenon DEF MoveShown, TypeOK
  <1>5. CASE AwaitState(c) \/ StateSeen(c)
    BY <1>5, Zenon DEF AwaitState, StateSeen, TypeOK
  <1>6. CASE Recover(c)
    <2>1. Sent
      BY <1>6, SendTypes, Zenon DEF Recover, CalibratorKinds
    <2>2. errors' \in 0..MaxErrors
      BY <1>6 DEF Recover, TypeOK
    <2>. QED
      BY <1>6, <2>1, <2>2, Zenon DEF Recover, TypeOK
  <1>7. CASE Stopped(c)
    BY <1>7, Zenon DEF Stopped, TypeOK
  <1>8. CASE Cleanup(c)
    <2>1. Sent
      BY <1>8, SendTypes, Zenon DEF Cleanup, CalibratorKinds
    <2>. QED
      BY <1>8, <2>1, Zenon DEF Cleanup, TypeOK
  <1>9. CASE Mark(c)
    <2>1. Sent
      BY <1>9, SendTypes, Zenon DEF Mark, CalibratorKinds, TypeOK
    <2>. QED
      BY <1>9, <2>1, Zenon DEF Mark, TypeOK
  <1>10. CASE ClearOwn(c)
    <2>1. stored' \in 0..MaxStarts
      BY <1>10 DEF ClearOwn, TypeOK, None
    <2>. QED
      BY <1>10, <2>1, Zenon DEF ClearOwn, TypeOK
  <1>. QED
    BY <1>1, <1>2, <1>3, <1>4, <1>5, <1>6, <1>7, <1>8, <1>9, <1>10, Zenon DEF Task

(* Reading takes an envelope of the watcher's queue.                       *)
LEMMA ReadingTypes ==
  ASSUME TypeOK, NEW w \in Watchers, NEW envelopes, Reading(w, envelopes)
  PROVE  rx' \in [Watchers -> Seq(Envelopes)]
  <1>1. Tail(rx[w]) \in Seq(Envelopes)
    BY DEF Reading, TypeOK
  <1>. QED
    BY <1>1, Zenon DEF Reading, TypeOK

(* The steps of a watcher keep the types.                                  *)
LEMMA WatchTypes ==
  ASSUME TypeOK, NEW w \in Watchers, Watch(w)
  PROVE  TypeOK'
  <1>. USE Constants, PublishTypes DEF port, tasks, meta, shared, budget, history
  <1>1. CASE HandleReset(w)
    <2>1. rx' \in [Watchers -> Seq(Envelopes)]
      BY <1>1, ReadingTypes, Zenon DEF HandleReset
    <2>2. /\ flag' \in [Calibrations -> BOOLEAN]
          /\ wiped' \in [Watchers -> BOOLEAN]
      BY <1>1, Zenon DEF HandleReset, RaiseStored
    <2>. QED
      BY <1>1, <2>1, <2>2, Zenon DEF HandleReset, TypeOK
  <1>2. CASE HandleFreeze(w)
    <2>1. rx' \in [Watchers -> Seq(Envelopes)]
      BY <1>2, ReadingTypes, Zenon DEF HandleFreeze
    <2>2. points' \in [Watchers -> BOOLEAN] /\ bounds' \in BOOLEAN
      BY <1>2, Zenon DEF HandleFreeze, TypeOK
    <2>3. wiped' \in [Watchers -> BOOLEAN]
      BY <1>2, <2>2, Zenon DEF HandleFreeze, TypeOK
    <2>4. watch' \in [Watchers -> {"read", "reset", "freeze", "stop", "dead"}]
      BY <1>2, Zenon DEF HandleFreeze, TypeOK
    <2>. QED
      BY <1>2, <2>1, <2>2, <2>3, <2>4, Zenon DEF HandleFreeze, TypeOK
  <1>3. CASE HandleStop(w)
    <2>1. rx' \in [Watchers -> Seq(Envelopes)]
      BY <1>3, ReadingTypes, Zenon DEF HandleStop
    <2>2. flag' \in [Calibrations -> BOOLEAN]
      BY <1>3, Zenon DEF HandleStop, RaiseStored
    <2>. QED
      BY <1>3, <2>1, <2>2, Zenon DEF HandleStop, TypeOK
  <1>4. CASE ClearEntry(w)
    <2>1. stored' \in 0..MaxStarts
      BY <1>4 DEF ClearEntry, TypeOK, None
    <2>2. news' \subseteq Calibrations
      BY <1>4, Zenon DEF ClearEntry, TypeOK
    <2>. QED
      BY <1>4, <2>1, <2>2, Zenon DEF ClearEntry, TypeOK
  <1>5. CASE HandleState(w)
    <2>1. rx' \in [Watchers -> Seq(Envelopes)]
      BY <1>5, ReadingTypes, Zenon DEF HandleState
    <2>. QED
      BY <1>5, <2>1, Zenon DEF HandleState, TypeOK
  <1>. QED
    BY <1>1, <1>2, <1>3, <1>4, <1>5, Zenon DEF Watch

(* Every step keeps the types, and so they always hold.                    *)
LEMMA NextTypes == TypeOK /\ [Next]_vars => TypeOK'
  <1> SUFFICES ASSUME TypeOK, [Next]_vars PROVE TypeOK'
    BY Zenon
  <1>1. CASE Next
    BY <1>1, WorkerTypes, TaskTypes, WatchTypes, Zenon DEF Next
  <1>2. CASE UNCHANGED vars
    BY <1>2, Stutter DEF TypeOK
  <1>. QED
    BY <1>1, <1>2, Zenon

(* Type correctness, for any number of calibrations, watchers and commands.*)
THEOREM SessionTypes == Spec => []TypeOK
  BY InitTypes, NextTypes, PTL DEF Spec

-----------------------------------------------------------------------------
(* What each kind of task leaves alone.                                    *)
LEMMA TaskFrame ==
  ASSUME TypeOK, NEW c \in Calibrations, Task(c)
  PROVE  /\ UNCHANGED <<worker, started, storing, shown, flag>>
         /\ UNCHANGED <<rx, watch, freezed, points, quiet, clean>>
         /\ pc[c] \notin {"unborn", "ended"} /\ pc'[c] # "unborn"
         /\ \A d \in Calibrations \ {c} : pc'[d] = pc[d]
  <1>. USE DEF port, tasks, meta, shared, budget, history, TypeOK
  <1>1. CASE Begin(c)
    BY <1>1, Zenon DEF Begin
  <1>2. CASE NextStep(c)
    BY <1>2, Zenon DEF NextStep
  <1>3. CASE CheckStop(c)
    BY <1>3, Zenon DEF CheckStop
  <1>4. CASE MoveShown(c)
    BY <1>4, Zenon DEF MoveShown
  <1>5. CASE AwaitState(c) \/ StateSeen(c)
    BY <1>5, Zenon DEF AwaitState, StateSeen
  <1>6. CASE Recover(c)
    BY <1>6, Zenon DEF Recover
  <1>7. CASE Stopped(c)
    BY <1>7, Zenon DEF Stopped
  <1>8. CASE Cleanup(c)
    BY <1>8, Zenon DEF Cleanup
  <1>9. CASE Mark(c)
    BY <1>9, Zenon DEF Mark
  <1>10. CASE ClearOwn(c)
    BY <1>10, Zenon DEF ClearOwn
  <1>. QED
    BY <1>1, <1>2, <1>3, <1>4, <1>5, <1>6, <1>7, <1>8, <1>9, <1>10, Zenon DEF Task

LEMMA WatchFrame ==
  ASSUME NEW w \in Watchers, Watch(w)
  PROVE  UNCHANGED <<tx, worker, started, storing, pc, counter, quiet>>
  BY Zenon DEF Watch, HandleReset, HandleFreeze, HandleStop, ClearEntry, HandleState,
         port, tasks, history

(* The worker, the clients and the motor reads change no task, but for the *)
(* one that SpawnCalibration starts.                                       *)
LEMMA PortFrame ==
  ASSUME \/ \E kind \in Kinds : Submit(kind)
         \/ TakeCommand \/ FinishMotor \/ FinishControl \/ StoreFlag
         \/ NothingToCalibrate \/ ReadMotor
  PROVE  /\ UNCHANGED <<started, flag, pc, left, counter, ok>>
         /\ UNCHANGED <<watch, freezed, points, progress, bounds, clean, wiped>>
  BY Zenon DEF Submit, TakeCommand, FinishMotor, FinishControl, StoreFlag,
         NothingToCalibrate, ReadMotor, port, tasks, meta, shared, budget, history

(* The calibrations not yet spawned have no task.                          *)
Fresh == \A c \in Calibrations : c > started => pc[c] = "unborn"

LEMMA FreshInit == Init => Fresh
  BY Zenon DEF Init, Fresh

LEMMA FreshNext == TypeOK /\ Fresh /\ [Next]_vars => Fresh'
  <1> SUFFICES ASSUME TypeOK, Fresh, [Next]_vars PROVE Fresh'
    BY Zenon
  <1>. USE Constants
  <1>1. CASE SpawnCalibration
    BY <1>1 DEF SpawnCalibration, Fresh, TypeOK
  <1>2. ASSUME NEW c \in Calibrations, Task(c) PROVE Fresh'
    <2>1. ~(c > started)
      BY <1>2, TaskFrame, Zenon DEF Fresh
    <2>. QED
      BY <1>2, <2>1, TaskFrame, Zenon DEF Fresh
  <1>3. ASSUME NEW w \in Watchers, Watch(w) PROVE Fresh'
    BY <1>3, WatchFrame, Zenon DEF Fresh
  <1>4. CASE UNCHANGED vars
    BY <1>4, Stutter, Zenon DEF Fresh
  <1>5. ASSUME UNCHANGED <<started, pc>> PROVE Fresh'
    BY <1>5, Zenon DEF Fresh
  <1>. QED
    BY <1>1, <1>2, <1>3, <1>4, <1>5, PortFrame, Zenon DEF Next, Worker

-----------------------------------------------------------------------------
(* "In progress" is owned by a task between its first step and its         *)
(* mark_done or mark_failed.                                               *)
Marking(c) == pc[c] \in {"step", "moving", "look", "stall", "stopping", "cleanup",
                         "mark"}
ProgressOwned == progress = "InProgress" => \E c \in Calibrations : Marking(c)

LEMMA ProgressNext ==
  TypeOK /\ Fresh /\ ProgressOwned /\ [Next]_vars => ProgressOwned'
  <1> SUFFICES ASSUME TypeOK, Fresh, ProgressOwned, [Next]_vars,
                      progress' = "InProgress"
               PROVE  \E c \in Calibrations : Marking(c)'
    BY Zenon DEF ProgressOwned
  <1>1. CASE SpawnCalibration
    <2>1. PICK d \in Calibrations : Marking(d)
      BY <1>1, Zenon DEF SpawnCalibration, shared, ProgressOwned
    <2>2. d # started + 1
      BY <2>1, <1>1, Constants DEF Fresh, Marking, TypeOK
    <2>. QED
      BY <1>1, <2>1, <2>2, Zenon DEF SpawnCalibration, Marking, TypeOK
  <1>2. ASSUME NEW c \in Calibrations, Task(c)
        PROVE  \E d \in Calibrations : Marking(d)'
    <2>. USE DEF TypeOK, Marking
    <2>1. ASSUME NEW d \in Calibrations, Marking(d), d # c
          PROVE  \E e \in Calibrations : Marking(e)'
      BY <1>2, <2>1, TaskFrame, Zenon
    <2>2. CASE Marking(c)'
      BY <2>2, Zenon
    <2>3. CASE ~Marking(c)'
      <3>1. Mark(c) \/ ClearOwn(c)
        BY <1>2, <2>3, Zenon
            DEF Task, Begin, NextStep, CheckStop, MoveShown, AwaitState,
                StateSeen, Recover, Stopped, Cleanup
      <3>2. ClearOwn(c) /\ progress = "InProgress"
        BY <3>1, Zenon DEF Mark, ClearOwn
      <3>3. PICK d \in Calibrations : Marking(d)
        BY <3>2, Zenon DEF ProgressOwned
      <3>4. d # c
        BY <3>2, <3>3, Zenon DEF ClearOwn
      <3>. QED
        BY <2>1, <3>3, <3>4, Zenon
    <2>. QED
      BY <2>2, <2>3, Zenon
  <1>3. ASSUME NEW w \in Watchers, Watch(w)
        PROVE  \E d \in Calibrations : Marking(d)'
    <2>1. progress = "InProgress" /\ pc' = pc
      BY <1>3, WatchFrame, Zenon
          DEF Watch, HandleReset, HandleFreeze, HandleStop, ClearEntry,
                              HandleState, shared
    <2>. QED
      BY <2>1, Zenon DEF ProgressOwned, Marking
  <1>4. ASSUME UNCHANGED <<pc, progress>>
        PROVE  \E d \in Calibrations : Marking(d)'
    BY <1>4, Zenon DEF ProgressOwned, Marking
  <1>. QED
    BY <1>1, <1>2, <1>3, <1>4, PortFrame, Stutter, Zenon DEF Next, Worker

(* The status says "in progress" only while a calibration runs.            *)
THEOREM ProgressStaysLive == Spec => []ProgressIsLive
  <1>1. Init => ProgressOwned
    BY Zenon DEF Init, ProgressOwned
  <1>2. ProgressOwned => ProgressIsLive
    BY Zenon DEF ProgressOwned, ProgressIsLive, Marking, Running
  <1>. QED
    BY <1>1, <1>2, InitTypes, NextTypes, FreshInit, FreshNext, ProgressNext, PTL DEF Spec

-----------------------------------------------------------------------------
(* Bounds and points.                                                      *)
LEMMA BoundsNext == TypeOK /\ BoundsGoWithPoints /\ [Next]_vars => BoundsGoWithPoints'
  <1> SUFFICES ASSUME TypeOK, BoundsGoWithPoints, [Next]_vars
               PROVE  BoundsGoWithPoints'
    BY Zenon
  <1>. USE DEF TypeOK, BoundsGoWithPoints, port, tasks, meta, shared, budget, history
  <1>1. CASE SpawnCalibration
    BY <1>1, Zenon DEF SpawnCalibration
  <1>2. ASSUME NEW c \in Calibrations, Task(c) PROVE BoundsGoWithPoints'
    <2>1. CASE Begin(c)
      BY <2>1, Zenon DEF Begin
    <2>2. CASE ~Begin(c)
      <3>1. UNCHANGED <<points, bounds, wiped>>
        BY <1>2, <2>2, Zenon
            DEF Task, NextStep, CheckStop, MoveShown, AwaitState,
                StateSeen, Recover, Stopped, Cleanup, Mark, ClearOwn
      <3>. QED
        BY <3>1, Zenon
    <2>. QED
      BY <2>1, <2>2, Zenon
  <1>3. ASSUME NEW w \in Watchers, HandleReset(w) PROVE BoundsGoWithPoints'
    BY <1>3, Zenon DEF HandleReset
  <1>4. ASSUME NEW w \in Watchers, HandleFreeze(w) PROVE BoundsGoWithPoints'
    <2>. SUFFICES ASSUME NEW v \in Watchers, points'[v], ~bounds' PROVE wiped'[v]
      BY Zenon
    <2>1. ~bounds
      BY <1>4, Zenon DEF HandleFreeze
    <2>2. CASE v = w
      <3>1. points[w]
        BY <1>4, <2>2, Zenon DEF HandleFreeze
      <3>. QED
        BY <1>4, <2>1, <2>2, <3>1, Zenon DEF HandleFreeze
    <2>3. CASE v # w
      BY <1>4, <2>1, <2>3, Zenon DEF HandleFreeze
    <2>. QED
      BY <2>2, <2>3, Zenon
  <1>5. ASSUME NEW w \in Watchers, HandleStop(w) \/ ClearEntry(w)
        PROVE BoundsGoWithPoints'
    BY <1>5, Zenon DEF HandleStop, ClearEntry
  <1>6. ASSUME NEW w \in Watchers, HandleState(w) PROVE BoundsGoWithPoints'
    BY <1>6 DEF HandleState
  <1>7. ASSUME UNCHANGED <<points, bounds, wiped>> PROVE BoundsGoWithPoints'
    BY <1>7, Zenon
  <1>. QED
    BY <1>1, <1>2, <1>3, <1>4, <1>5, <1>6, <1>7, PortFrame, Stutter, Zenon
    DEF Next, Worker, Watch

(* Only a starting calibration, or another watcher's reset, makes the      *)
(* unwrap of a freeze fail.                                                *)
THEOREM BoundsStayWithPoints == Spec => []BoundsGoWithPoints
  <1>1. Init => BoundsGoWithPoints
    BY Zenon DEF Init, BoundsGoWithPoints
  <1>. QED
    BY <1>1, InitTypes, NextTypes, BoundsNext, PTL DEF Spec

-----------------------------------------------------------------------------
(* After its torque-off a calibration sends no movement, and its           *)
(* movements stand before its torque-off in the queue.                     *)
Past == {"stopping", "cleanup", "mark", "clear", "ended"}
QuietQueue ==
  /\ QuietAfterStop
  /\ \A c \in quiet : pc[c] \in Past
  /\ worker.kind = "off" =>
       /\ pc[worker.by] \in Past
       /\ \A j \in DOMAIN tx : ~(tx[j].kind = "move" /\ tx[j].by = worker.by)
  /\ \A i \in DOMAIN tx : tx[i].kind = "off" =>
       /\ pc[tx[i].by] \in Past
       /\ \A j \in DOMAIN tx : tx[j].kind = "move" /\ tx[j].by = tx[i].by => j < i

(* A task past its torque-off stays there.                                 *)
LEMMA PastStays ==
  ASSUME TypeOK, Fresh, [Next]_vars, NEW c \in Calibrations, pc[c] \in Past
  PROVE  pc'[c] \in Past
  <1>1. CASE SpawnCalibration
    <2>1. c # started + 1
      BY <1>1, Constants DEF Fresh, Past, TypeOK
    <2>. QED
      BY <1>1, <2>1, Zenon DEF SpawnCalibration, TypeOK
  <1>2. ASSUME NEW d \in Calibrations, Task(d) PROVE pc'[c] \in Past
    <2>1. CASE d = c
      BY <1>2, <2>1, Zenon
          DEF Past, TypeOK, Task, Begin, NextStep, CheckStop, MoveShown, AwaitState,
                StateSeen, Recover, Stopped, Cleanup, Mark, ClearOwn
    <2>2. CASE d # c
      BY <1>2, <2>2, TaskFrame, Zenon
    <2>. QED
      BY <2>1, <2>2, Zenon
  <1>3. ASSUME pc' = pc PROVE pc'[c] \in Past
    BY <1>3, Zenon
  <1>. QED
    BY <1>1, <1>2, <1>3, WatchFrame, PortFrame, Stutter, Zenon DEF Next, Worker

(* Appending a command that is no movement of a task past its torque-off.  *)
LEMMA QuietAppend ==
  ASSUME TypeOK, QuietQueue, NEW x \in Commands,
         tx' = Append(tx, x), UNCHANGED <<worker, quiet>>,
         \A c \in Calibrations : pc[c] \in Past => pc'[c] \in Past,
         x.kind = "move" => pc[x.by] \notin Past,
         x.kind = "off" => pc'[x.by] \in Past
  PROVE  QuietQueue'
  <1>. USE CommandTypes DEF CalibratorKinds
  <1>1. /\ DOMAIN tx' = DOMAIN tx \cup {Len(tx) + 1}
        /\ Len(tx) \in Nat /\ DOMAIN tx = 1..Len(tx)
        /\ tx'[Len(tx) + 1] = x
        /\ \A i \in DOMAIN tx : tx'[i] = tx[i] /\ tx[i] \in Commands
    BY DEF TypeOK
  <1>2. worker \in Commands /\ quiet \subseteq Calibrations
    BY Zenon DEF TypeOK
  <1>3. QuietAfterStop' /\ \A c \in quiet' : pc'[c] \in Past
    BY <1>1, <1>2 DEF QuietQueue, QuietAfterStop
  <1>4. worker.kind = "off" =>
          /\ pc'[worker.by] \in Past
          /\ \A j \in DOMAIN tx' : ~(tx'[j].kind = "move" /\ tx'[j].by = worker.by)
    BY <1>1, <1>2 DEF QuietQueue
  <1>5. ASSUME NEW i \in DOMAIN tx', tx'[i].kind = "off"
        PROVE  /\ pc'[tx'[i].by] \in Past
               /\ \A j \in DOMAIN tx' :
                     tx'[j].kind = "move" /\ tx'[j].by = tx'[i].by => j < i
    <2>1. CASE i \in DOMAIN tx
      BY <1>1, <1>5, <2>1 DEF QuietQueue
    <2>2. CASE i = Len(tx) + 1
      BY <1>1, <1>5, <2>2
    <2>. QED
      BY <1>1, <2>1, <2>2, Zenon
  <1>. QED
    BY <1>3, <1>4, <1>5, Zenon DEF QuietQueue

LEMMA QuietNext ==
  TypeOK /\ Fresh /\ QuietQueue /\ [Next]_vars => QuietQueue'
  <1> SUFFICES ASSUME TypeOK, Fresh, QuietQueue, [Next]_vars PROVE QuietQueue'
    BY Zenon
  <1>0. \A c \in Calibrations : pc[c] \in Past => pc'[c] \in Past
    BY PastStays, Zenon
  <1>. DEFINE Kept == UNCHANGED <<tx, worker, quiet>>
  <1>1. ASSUME Kept PROVE QuietQueue'
    <2>1. /\ \A i \in DOMAIN tx : tx[i].kind = "off" => tx[i].by \in Calibrations
          /\ worker.kind = "off" => worker.by \in Calibrations
          /\ quiet \subseteq Calibrations
      BY CommandTypes DEF TypeOK, CalibratorKinds
    <2>2. QuietAfterStop'
      BY <1>1, Zenon DEF QuietQueue, QuietAfterStop
    <2>. QED
      BY <1>0, <1>1, <2>1, <2>2, Zenon DEF QuietQueue
  <1>2. ASSUME NEW kind \in Kinds, Submit(kind) PROVE QuietQueue'
    <2>1. [kind |-> kind, by |-> None, id |-> 0] \in Commands
      BY CommandTypes, Zenon
    <2>. QED
      BY <1>0, <1>2, <2>1, QuietAppend, Zenon DEF Submit, history
  <1>3. CASE TakeCommand
    <2>1. /\ Len(tx) \in Nat /\ DOMAIN tx = 1..Len(tx) /\ 1 \in DOMAIN tx
          /\ DOMAIN tx' = 1..(Len(tx) - 1)
          /\ \A i \in DOMAIN tx' : i + 1 \in DOMAIN tx /\ tx'[i] = tx[i + 1]
          /\ worker' = tx[1] /\ UNCHANGED <<pc, quiet>>
      BY <1>3 DEF TakeCommand, TypeOK, tasks, history
    <2>2. QuietAfterStop' /\ \A c \in quiet' : pc'[c] \in Past
      BY <2>1 DEF QuietQueue, QuietAfterStop
    <2>3. ASSUME worker'.kind = "off"
          PROVE  /\ pc'[worker'.by] \in Past
                 /\ \A j \in DOMAIN tx' : ~(tx'[j].kind = "move" /\ tx'[j].by = worker'.by)
      BY <2>1, <2>3 DEF QuietQueue
    <2>4. ASSUME NEW i \in DOMAIN tx', tx'[i].kind = "off"
          PROVE  /\ pc'[tx'[i].by] \in Past
                 /\ \A j \in DOMAIN tx' :
                       tx'[j].kind = "move" /\ tx'[j].by = tx'[i].by => j < i
      BY <2>1, <2>4 DEF QuietQueue
    <2>. QED
      BY <2>2, <2>3, <2>4, Zenon DEF QuietQueue
  <1>4. CASE FinishMotor
    <2>1. UNCHANGED <<tx, pc>> /\ worker'.kind = "none"
      BY <1>4, Zenon DEF FinishMotor, tasks, Idle
    <2>2. QuietAfterStop' /\ \A c \in quiet' : pc'[c] \in Past
      BY <1>4, <2>1, Zenon DEF FinishMotor, QuietQueue, QuietAfterStop
    <2>. QED
      BY <2>1, <2>2, Zenon DEF QuietQueue
  <1>5. CASE FinishControl \/ StoreFlag \/ NothingToCalibrate
    <2>1. UNCHANGED <<tx, pc, quiet>> /\ worker'.kind = "none"
      BY <1>5 DEF FinishControl, StoreFlag, NothingToCalibrate, tasks, history, Idle
    <2>. QED
      BY <2>1, Zenon DEF QuietQueue, QuietAfterStop
  <1>6. CASE SpawnCalibration \/ ReadMotor
    BY <1>1, <1>6, Zenon DEF SpawnCalibration, ReadMotor, port, history
  <1>7. ASSUME NEW c \in Calibrations, Task(c) PROVE QuietQueue'
    <2>1. UNCHANGED <<worker, quiet>>
      BY <1>7, TaskFrame, Zenon
    <2>2. CASE tx' = tx
      BY <1>1, <2>1, <2>2, Zenon
    <2>3. ASSUME NEW kind \in CalibratorKinds, Send(c, kind),
                 kind = "move" => pc[c] \notin Past,
                 kind = "off" => pc'[c] \in Past
          PROVE  QuietQueue'
      <3>0. counter[c] + 1 \in Nat
        BY DEF TypeOK
      <3>1. [kind |-> kind, by |-> c, id |-> counter[c] + 1] \in Commands
        BY <3>0, CommandTypes, Zenon
      <3>. QED
        BY <1>0, <2>1, <2>3, <3>1, QuietAppend, Zenon DEF Send
    <2>4. CASE NextStep(c) \/ Recover(c)
      BY <2>2, <2>3, <2>4, Zenon DEF NextStep, Recover, Past, CalibratorKinds
    <2>5. CASE CheckStop(c)
      <3>1. pc'[c] \in Past
        BY <2>5, Zenon DEF CheckStop, Past, TypeOK
      <3>. QED
        BY <2>3, <2>5, <3>1, Zenon DEF CheckStop, CalibratorKinds
    <2>6. CASE Cleanup(c)
      BY <2>3, <2>6, Zenon DEF Cleanup, CalibratorKinds
    <2>7. CASE Mark(c)
      BY <2>2, <2>3, <2>7, Zenon DEF Mark, CalibratorKinds
    <2>8. CASE Begin(c) \/ MoveShown(c) \/ AwaitState(c) \/ StateSeen(c)
               \/ Stopped(c) \/ ClearOwn(c)
      BY <2>2, <2>8, Zenon 
          DEF Begin, MoveShown, AwaitState, StateSeen, Stopped, ClearOwn, port
    <2>. QED
      BY <1>7, <2>4, <2>5, <2>6, <2>7, <2>8, Zenon DEF Task
  <1>8. ASSUME NEW w \in Watchers, Watch(w) PROVE QuietQueue'
    BY <1>1, <1>8, WatchFrame, Zenon
  <1>9. CASE UNCHANGED vars
    BY <1>1, <1>9, Stutter, Zenon
  <1>. QED
    BY <1>2, <1>3, <1>4, <1>5, <1>6, <1>7, <1>8, <1>9, Zenon DEF Next, Worker

(* No movement of a calibration follows its torque-off.                    *)
THEOREM StopIsQuiet == Spec => []QuietAfterStop
  <1>1. Init => QuietQueue
    BY DEF Init, QuietQueue, QuietAfterStop, Idle
  <1>2. QuietQueue => QuietAfterStop
    BY Zenon DEF QuietQueue
  <1>. QED
    BY <1>1, <1>2, InitTypes, NextTypes, FreshInit, FreshNext, QuietNext, PTL DEF Spec

-----------------------------------------------------------------------------
(* A clean calibration that runs and is not told to stop is the newest and *)
(* the only one, and no watcher is between reading an envelope and         *)
(* removing the entry.  Until its flag is stored no watcher has anything   *)
(* but states to read, since the worker is still busy with the "auto".     *)
Alone(c) ==
  /\ c = started
  /\ \A d \in Calibrations \ {c} : ~Running(d)
  /\ \A w \in Watchers : watch[w] = "read"
  /\ storing => \A w \in Watchers : \A i \in DOMAIN rx[w] : rx[w][i] = "state"
  /\ ~storing => stored = c

CleanAlone ==
  /\ storing => worker.kind = "auto"
  /\ \A c \in clean : c <= started
  /\ \A c \in clean : Running(c) /\ ~flag[c] => Alone(c)

(* Steps that leave tasks, flags and watchers alone.                       *)
LEMMA CleanKept ==
  ASSUME CleanAlone, UNCHANGED <<started, flag, pc, watch, clean>>,
         storing' => worker'.kind = "auto",
         storing' => storing /\ rx' = rx,
         ~storing' => IF storing THEN stored' = started ELSE stored' = stored
  PROVE  CleanAlone'
  BY DEF CleanAlone, Alone, Running

LEMMA CleanWorker ==
  ASSUME TypeOK, Fresh, CleanAlone, Worker \/ ReadMotor \/ \E kind \in Kinds : Submit(kind)
  PROVE  CleanAlone'
  <1>. USE DEF port, tasks, meta, shared, budget, history
  <1>1. CASE \E kind \in Kinds : Submit(kind)
    BY <1>1, CleanKept DEF Submit, CleanAlone, TypeOK
  <1>2. CASE TakeCommand \/ FinishMotor \/ FinishControl \/ ReadMotor
    <2>1. ~storing
      BY <1>2 DEF TakeCommand, FinishMotor, FinishControl, ReadMotor, CleanAlone, Idle
    <2>2. /\ UNCHANGED <<started, flag, pc, watch, clean, storing, stored>>
      BY <1>2, Zenon DEF TakeCommand, FinishMotor, FinishControl, ReadMotor
    <2>. QED
      BY <2>1, <2>2, CleanKept, Zenon
  <1>3. CASE SpawnCalibration
    <2>. DEFINE n == started + 1
    <2>1. /\ n \in Calibrations /\ started' = n /\ started \in Nat
          /\ storing' /\ worker' = worker /\ worker.kind = "auto" /\ ~storing
          /\ UNCHANGED <<rx, watch, stored>>
          /\ \A c \in Calibrations : flag'[c] = (flag[c] \/ c = stored)
          /\ \A c \in Calibrations \ {n} : pc'[c] = pc[c]
          /\ clean' = IF CleanStart THEN clean \cup {n} ELSE clean
      BY <1>3, Constants DEF SpawnCalibration, TypeOK
    <2>2. clean \subseteq Calibrations /\ \A c \in clean : c <= started /\ c # n
      BY <2>1, Constants DEF CleanAlone, TypeOK
    <2>3. \A c \in clean' : c <= started'
      BY <2>1, <2>2, Constants
    <2>4. ASSUME NEW c \in clean', Running(c)', ~flag'[c] PROVE Alone(c)'
      <3>1. CASE c \in clean
        <4>1. c \in Calibrations /\ c # n
          BY <2>2, <3>1, Zenon
        <4>2. Running(c) /\ ~flag[c] /\ c # stored
          BY <2>1, <2>4, <4>1, Zenon DEF Running
        <4>. QED
          BY <2>1, <3>1, <4>2, Zenon DEF CleanAlone, Alone
      <3>2. CASE c \notin clean
        <4>1. CleanStart /\ c = n
          BY <2>1, <2>4, <3>2, Zenon
        <4>. QED
          BY <2>1, <4>1, Zenon DEF CleanStart, Alone, Running
      <3>. QED
        BY <3>1, <3>2, Zenon
    <2>. QED
      BY <2>1, <2>3, <2>4, Zenon DEF CleanAlone
  <1>4. CASE StoreFlag
    BY <1>4, CleanKept, Zenon DEF StoreFlag
  <1>5. CASE NothingToCalibrate
    BY <1>5, CleanKept, Zenon DEF NothingToCalibrate
  <1>. QED
    BY <1>1, <1>2, <1>3, <1>4, <1>5, Zenon DEF Worker

LEMMA CleanTask ==
  ASSUME TypeOK, CleanAlone, NEW d \in Calibrations, Task(d)
  PROVE  CleanAlone'
  <1>1. /\ UNCHANGED <<worker, started, storing, flag, rx, watch, clean>>
        /\ Running(d)
        /\ \A e \in Calibrations \ {d} : pc'[e] = pc[e]
    BY TaskFrame, Zenon DEF Running
  <1>2. ASSUME NEW c \in clean', Running(c)', ~flag'[c] PROVE Alone(c)'
    <2>1. c \in clean /\ c \in Calibrations /\ ~flag[c]
      BY <1>1, <1>2, Zenon DEF TypeOK
    <2>2. Running(c)
      BY <1>1, <1>2, <2>1, Zenon DEF Running
    <2>3. Alone(c)
      BY <2>1, <2>2, Zenon DEF CleanAlone
    <2>4. c = d
      BY <1>1, <2>3, Zenon DEF Alone
    <2>5. ~ClearOwn(d)
      BY <1>2, <2>4, Zenon DEF ClearOwn, Running, TypeOK
    <2>6. stored' = stored
      BY <2>5, Zenon
          DEF Task, Begin, NextStep, CheckStop, MoveShown, AwaitState,
                StateSeen, Recover, Stopped, Cleanup, Mark, shared
    <2>. QED
      BY <1>1, <2>3, <2>4, <2>6, Zenon DEF Alone, Running
  <1>. QED
    BY <1>1, <1>2, Zenon DEF CleanAlone

LEMMA CleanWatch ==
  ASSUME TypeOK, CleanAlone, NEW w \in Watchers, Watch(w)
  PROVE  CleanAlone'
  <1>. USE DEF port, tasks, meta, shared, budget, history
  <1>1. UNCHANGED <<worker, started, storing, pc>>
    BY WatchFrame, Zenon
  <1>2. CASE HandleFreeze(w)
    BY <1>1, <1>2 DEF HandleFreeze, CleanAlone
  <1>3. CASE HandleReset(w) \/ HandleStop(w)
    <2>1. /\ clean' = clean /\ clean \subseteq Calibrations
          /\ \A c \in Calibrations : flag'[c] = (flag[c] \/ c = stored)
          /\ 1 \in DOMAIN rx[w] /\ rx[w][1] # "state"
      BY <1>3 DEF HandleReset, HandleStop, Reading, RaiseStored, TypeOK
    <2>2. ASSUME NEW c \in clean', Running(c)', ~flag'[c] PROVE FALSE
      <3>1. c \in clean /\ Running(c) /\ ~flag[c] /\ c # stored
        BY <1>1, <2>1, <2>2, Zenon DEF Running
      <3>. QED
        BY <2>1, <3>1 DEF CleanAlone, Alone
    <2>. QED
      BY <1>1, <2>1, <2>2, Zenon DEF CleanAlone
  <1>4. CASE ClearEntry(w)
    <2>1. watch[w] # "read" /\ UNCHANGED <<flag, clean>>
      BY <1>4, Zenon DEF ClearEntry
    <2>2. \A c \in clean : ~(Running(c) /\ ~flag[c])
      BY <2>1, Zenon DEF CleanAlone, Alone
    <2>. QED
      BY <1>1, <2>1, <2>2, Zenon DEF CleanAlone, Running
  <1>5. CASE HandleState(w)
    <2>1. UNCHANGED <<flag, clean, watch, stored>>
      BY <1>5, Zenon DEF HandleState
    <2>2. ASSUME NEW v \in Watchers, \A i \in DOMAIN rx[v] : rx[v][i] = "state",
                 NEW i \in DOMAIN rx'[v]
          PROVE  rx'[v][i] = "state"
      <3>1. rx[v] \in Seq(Envelopes)
        BY Zenon DEF TypeOK
      <3>2. CASE v = w
        <4>1. rx[v] # <<>> /\ rx'[v] = Tail(rx[v])
          BY <1>5, <3>2, Zenon DEF HandleState, Reading, TypeOK
        <4>. QED
          BY <2>2, <3>1, <4>1
      <3>3. CASE v # w
        BY <1>5, <2>2, <3>3, Zenon DEF HandleState, Reading, TypeOK
      <3>. QED
        BY <3>2, <3>3, Zenon
    <2>. QED
      BY <1>1, <2>1, <2>2 DEF CleanAlone, Alone, Running
  <1>. QED
    BY <1>2, <1>3, <1>4, <1>5, Zenon DEF Watch

(* A calibration that started clean can be stopped while it runs.          *)
THEOREM CleanStaysStoppable == Spec => []CleanIsStoppable
  <1>1. Init => CleanAlone
    BY Zenon DEF Init, CleanAlone
  <1>2. TypeOK /\ Fresh /\ CleanAlone /\ [Next]_vars => CleanAlone'
    <2> SUFFICES ASSUME TypeOK, Fresh, CleanAlone, [Next]_vars PROVE CleanAlone'
      BY Zenon
    <2>1. CASE UNCHANGED vars
      <3>1. UNCHANGED <<started, flag, pc, watch, clean, storing, worker, rx, stored>>
        BY <2>1, Stutter, Zenon
      <3>. QED
        BY <3>1, CleanKept, Zenon DEF CleanAlone
    <2>. QED
      BY <2>1, CleanWorker, CleanTask, CleanWatch, Zenon DEF Next
  <1>3. CleanAlone => CleanIsStoppable
    BY Zenon DEF CleanAlone, CleanIsStoppable, Alone
  <1>. QED
    BY <1>1, <1>2, <1>3, InitTypes, NextTypes, FreshInit, FreshNext, PTL DEF Spec

=============================================================================
