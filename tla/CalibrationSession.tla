------------------------- MODULE CalibrationSession -------------------------
(***************************************************************************)
(* Automatic calibration of one ST3215 bus, from the client's command to   *)
(* the motors.  Three kinds of tasks meet here.  The port worker executes  *)
(* the commands of the tx queue in order; "auto" spawns a calibration.  A  *)
(* calibration sweeps the motors by sending commands of its own to the     *)
(* same queue and waiting until the published state shows them.  A watcher *)
(* (one per opening of the port, and none ever ends) reads the envelopes   *)
(* the worker publishes, at its own pace, and handles reset, freeze and    *)
(* stop there.  They share the stop flags, one entry per bus, the bounds   *)
(* and the published progress.                                             *)
(***************************************************************************)
EXTENDS Naturals, Sequences

CONSTANTS
  MaxStarts,    \* bound: calibrations
  Sweeps,       \* movements of one calibration
  Watchers,     \* one per opening of the port
  Kinds,        \* the kinds of commands clients send
  MaxCommands,  \* bound: commands of clients
  MaxErrors     \* bound: times a motor reports an error during a sweep

ASSUME SessionConstants ==
  /\ MaxStarts \in Nat
  /\ Sweeps \in Nat
  /\ Kinds \subseteq {"auto", "stop", "reset", "freeze"}
  /\ MaxCommands \in Nat
  /\ MaxErrors \in Nat

VARIABLES
  tx,         \* the commands not yet executed, oldest first
  worker,     \* the command in execution, or Idle
  started,    \* number of calibrations spawned
  storing,    \* the worker has spawned one and not yet stored its flag
  stored,     \* the entry of calibration_stops: whose flag, or 0
  flag,       \* per calibration, stop_requested
  pc,         \* per calibration, where its task is
  left,       \* per calibration, the sweeps to go
  counter,    \* per calibration, command_counter
  ok,         \* per calibration, the result of its sequence
  news,       \* calibrations in wait_for_stall with a state not yet seen
  shown,      \* the id in last_command of the published state
  progress,   \* the published auto_calibration status
  bounds,     \* the bus has bounds
  rx,         \* per watcher, the envelopes it has not read
  watch,      \* per watcher, what it is doing
  freezed,    \* per watcher, its local of that name
  points,     \* per watcher, motor_points is not empty
  commands,   \* number of commands of clients
  errors,     \* number of errors of motors
  quiet,      \* history: calibrations whose torque-off has been executed
  clean,      \* history: see CleanStart
  wiped       \* history: per watcher, bounds were removed under its points

Calibrations == 1..MaxStarts
None == 0
Idle == [kind |-> "none", by |-> None, id |-> 0]

CalibratorKinds == {"move", "off", "tidy", "save"}
Envelopes == {"stop", "reset", "freeze", "save", "state"}
Commands ==
  [kind : Kinds \cup {"none"}, by : {None}, id : {0}]
    \cup [kind : CalibratorKinds, by : Calibrations, id : Nat]

port == <<tx, worker, started, storing, shown>>
tasks == <<flag, pc, left, counter, ok>>
meta == <<rx, watch, freezed, points>>
shared == <<stored, progress, bounds>>
history == <<quiet, clean, wiped>>
budget == <<commands, errors>>
vars == <<port, tasks, news, meta, shared, budget, history>>

Running(c) == pc[c] \notin {"unborn", "ended"}

-----------------------------------------------------------------------------
(* Clients.                                                                *)

Submit(kind) ==
  /\ commands < MaxCommands
  /\ commands' = commands + 1
  /\ tx' = Append(tx, [kind |-> kind, by |-> None, id |-> 0])
  /\ UNCHANGED <<worker, started, storing, shown, tasks, news, meta, shared, errors,
                 history>>

-----------------------------------------------------------------------------
(* Every envelope of the worker, and every change of the status, publishes *)
(* the state of the buses.  Each calibration subscribes to it; only in     *)
(* wait_for_stall does it matter whether it has seen the latest, since the *)
(* other waits have a deadline, and read_encoder_position finds the state  *)
(* that next_step has just published.                                      *)
Publish == news' = news \cup {c \in Calibrations : pc[c] \in {"look", "stall"}}

-----------------------------------------------------------------------------
(* The port worker.                                                        *)

(* A motor command is published as processing before it is executed, so    *)
(* its id shows from now on.                                               *)
TakeCommand ==
  /\ worker = Idle
  /\ tx # <<>>
  /\ worker' = Head(tx)
  /\ tx' = Tail(tx)
  /\ shown' = IF Head(tx).kind \in {"move", "off", "tidy"} THEN Head(tx).id ELSE shown
  /\ Publish
  /\ UNCHANGED <<started, storing, tasks, meta, shared, budget, history>>

(* What every watcher will read; one that panicked reads no more.          *)
Tell(envelope) ==
  rx' = [w \in Watchers |-> IF watch[w] = "dead" THEN rx[w] ELSE Append(rx[w], envelope)]

FinishMotor ==
  /\ worker.kind \in {"move", "off", "tidy"}
  /\ worker' = Idle
  /\ quiet' = IF worker.kind = "off" THEN quiet \cup {worker.by} ELSE quiet
  /\ Publish
  /\ UNCHANGED <<tx, started, storing, shown, tasks, meta, shared, budget, clean,
                 wiped>>

(* Mutant: the success of a stop is not always published.                  *)
FinishControlQuietly ==
  /\ worker.kind \in {"stop", "reset", "freeze", "save"}
  /\ worker' = Idle
  /\ Publish
  /\ Tell(worker.kind) \/ rx' = rx
  /\ UNCHANGED <<tx, started, storing, shown, tasks, watch, freezed, points, shared,
                 budget, history>>

(* Reset and freeze talk to the motors and may be rejected; a stop is      *)
(* "just enqueued as success".  Only a success reaches the watchers.       *)
FinishControl ==
  /\ worker.kind \in {"stop", "reset", "freeze", "save"}
  /\ worker' = Idle
  /\ Publish
  /\ \/ Tell(worker.kind)
     \/ worker.kind # "stop" /\ rx' = rx
  /\ UNCHANGED <<tx, started, storing, shown, tasks, watch, freezed, points, shared,
                 budget, history>>

(* A calibration starts clean when everything that could still touch the   *)
(* entry of the stop flags has ended: earlier calibrations, and the        *)
(* watchers' work on the envelopes so far.                                 *)
CleanStart ==
  /\ \A c \in Calibrations : ~Running(c)
  /\ \A w \in Watchers :
        /\ watch[w] = "read"
        /\ \A i \in DOMAIN rx[w] : rx[w][i] = "state"

(* An "auto": the calibration in progress, if its flag is stored, is told  *)
(* to stop, and the task is spawned.                                       *)
SpawnCalibration ==
  /\ worker.kind = "auto" /\ ~storing
  /\ started < MaxStarts
  /\ started' = started + 1
  /\ storing' = TRUE
  /\ flag' = [c \in Calibrations |-> flag[c] \/ c = stored]
  /\ pc' = [pc EXCEPT ![started + 1] = "start"]
  /\ clean' = IF CleanStart THEN clean \cup {started + 1} ELSE clean
  /\ UNCHANGED <<tx, worker, shown, left, counter, ok, news, meta, shared, budget, quiet,
                 wiped>>

(* The flag is stored after the task was spawned.                          *)
StoreFlag ==
  /\ storing
  /\ storing' = FALSE
  /\ stored' = started
  /\ worker' = Idle
  /\ Publish
  /\ UNCHANGED <<tx, started, shown, tasks, meta, progress, bounds, budget, history>>

(* No motors, or no robot of a known kind: nothing is started.             *)
NothingToCalibrate ==
  /\ worker.kind = "auto" /\ ~storing
  /\ worker' = Idle
  /\ Publish
  /\ UNCHANGED <<tx, started, storing, shown, tasks, meta, shared, budget, history>>

(* Between commands the worker reads a motor, and its registers, or the    *)
(* error, are published.  At most one unread state per watcher: a bound.   *)
ReadMotor ==
  /\ worker = Idle
  /\ \A w \in Watchers :
       watch[w] # "dead" => \A i \in DOMAIN rx[w] : rx[w][i] # "state"
  /\ Tell("state")
  /\ Publish
  /\ UNCHANGED <<port, tasks, watch, freezed, points, shared, budget, history>>

-----------------------------------------------------------------------------
(* The task of a calibration.                                              *)

Send(c, kind) ==
  /\ counter' = [counter EXCEPT ![c] = counter[c] + 1]
  /\ tx' = Append(tx, [kind |-> kind, by |-> c, id |-> counter[c] + 1])

(* reset_bounds, and "Starting calibration".                               *)
Begin(c) ==
  /\ pc[c] = "start"
  /\ pc' = [pc EXCEPT ![c] = "step"]
  /\ bounds' = FALSE
  /\ progress' = "InProgress"
  /\ Publish
  /\ wiped' = [w \in Watchers |-> wiped[w] \/ points[w]]
  /\ UNCHANGED <<port, flag, left, counter, ok, meta, stored, budget, quiet, clean>>

(* next_step: unless a stop is requested, publish the step and send its    *)
(* movement; with no sweep left the sequence has succeeded.                *)
NextStep(c) ==
  /\ pc[c] = "step"
  /\ ~flag[c]
  /\ progress' = "InProgress"
  /\ Publish
  /\ \/ /\ left[c] > 0
        /\ left' = [left EXCEPT ![c] = left[c] - 1]
        /\ Send(c, "move")
        /\ pc' = [pc EXCEPT ![c] = "moving"]
        /\ UNCHANGED ok
     \/ /\ left[c] = 0
        /\ ok' = [ok EXCEPT ![c] = TRUE]
        /\ pc' = [pc EXCEPT ![c] = "cleanup"]
        /\ UNCHANGED <<left, tx, counter>>
  /\ UNCHANGED <<worker, started, storing, shown, flag, meta, stored, bounds, budget,
                 history>>

(* Mutant: the torque-off overtakes the commands in the queue.             *)
CheckStopUrgent(c) ==
  /\ pc[c] \in {"step", "look"}
  /\ flag[c]
  /\ counter' = [counter EXCEPT ![c] = counter[c] + 1]
  /\ tx' = <<[kind |-> "off", by |-> c, id |-> counter[c] + 1]>> \o tx
  /\ pc' = [pc EXCEPT ![c] = "stopping"]
  /\ news' = news \ {c}
  /\ UNCHANGED <<worker, started, storing, shown, flag, left, ok, meta, shared,
                 budget, history>>

(* Mutant: wait_for_stall does not look at the flag.                       *)
CheckStopBetweenSteps(c) ==
  /\ pc[c] = "step"
  /\ flag[c]
  /\ Send(c, "off")
  /\ pc' = [pc EXCEPT ![c] = "stopping"]
  /\ news' = news \ {c}
  /\ UNCHANGED <<worker, started, storing, shown, flag, left, ok, meta, shared,
                 budget, history>>

(* check_stop with the flag raised: torque off for all motors.  It is      *)
(* called at every step and at the head of wait_for_stall's loop.          *)
CheckStop(c) ==
  /\ pc[c] \in {"step", "look"}
  /\ flag[c]
  /\ Send(c, "off")
  /\ pc' = [pc EXCEPT ![c] = "stopping"]
  /\ news' = news \ {c}
  /\ UNCHANGED <<worker, started, storing, shown, flag, left, ok, meta, shared,
                 budget, history>>

(* wait_for_command_result returns when some motor shows the id, or when   *)
(* the deadline has passed, which it may do before or after the command is *)
(* executed.                                                               *)
Seen(c) == shown = counter[c]

MoveShown(c) ==
  /\ pc[c] = "moving"
  /\ \/ Seen(c) /\ pc' = [pc EXCEPT ![c] = "look"]
     \/ pc' = [pc EXCEPT ![c] = "cleanup"]
  /\ UNCHANGED <<port, flag, left, counter, ok, news, meta, shared, budget, history>>

(* wait_for_stall.  With no stop requested it waits, without a deadline,   *)
(* for a state it has not seen.                                            *)
AwaitState(c) ==
  /\ pc[c] = "look"
  /\ ~flag[c]
  /\ pc' = [pc EXCEPT ![c] = "stall"]
  /\ UNCHANGED <<port, flag, left, counter, ok, news, meta, shared, budget, history>>

(* The state shows that the motor has stalled or does not move, or nothing *)
(* of the kind.                                                            *)
StateSeen(c) ==
  /\ pc[c] = "stall"
  /\ c \in news
  /\ news' = news \ {c}
  /\ \E next \in {"step", "look"} : pc' = [pc EXCEPT ![c] = next]
  /\ UNCHANGED <<port, flag, left, counter, ok, meta, shared, budget, history>>

(* A motor in an error state is recovered by switching its torque off and  *)
(* on.  One command stands for the two; their waits end, shown or timed    *)
(* out, and nothing depends on how.  A state published during them counts  *)
(* as not seen: one more turn of the loop at most.                         *)
Recover(c) ==
  /\ pc[c] = "stall"
  /\ c \in news
  /\ news' = news \ {c}
  /\ errors < MaxErrors
  /\ errors' = errors + 1
  /\ Send(c, "move")
  /\ pc' = [pc EXCEPT ![c] = "look"]
  /\ UNCHANGED <<worker, started, storing, shown, flag, left, ok, meta, shared,
                 commands, history>>

(* The torque-off is shown or given up; either way the calibration is     *)
(* "Stopped by user", an error.                                            *)
Stopped(c) ==
  /\ pc[c] = "stopping"
  /\ progress' = "Stopped"
  /\ Publish
  /\ pc' = [pc EXCEPT ![c] = "cleanup"]
  /\ UNCHANGED <<port, flag, left, counter, ok, meta, stored, bounds, budget,
                 history>>

(* An SO101 restores its motors' parameters whatever the result was, and   *)
(* goes on whatever becomes of those commands.  (An ElRobot leaves this    *)
(* step out.)                                                              *)
Cleanup(c) ==
  /\ pc[c] = "cleanup"
  /\ pc' = [pc EXCEPT ![c] = "mark"]
  /\ Send(c, "tidy")
  /\ UNCHANGED <<worker, started, storing, shown, flag, left, ok, news, meta, shared,
                 budget, history>>

(* Mutant: a failure is not published.                                     *)
MarkSuccessOnly(c) ==
  /\ pc[c] = "mark"
  /\ pc' = [pc EXCEPT ![c] = "clear"]
  /\ Publish
  /\ \/ ok[c] /\ Send(c, "save") /\ progress' = "Done"
     \/ ~ok[c] /\ UNCHANGED <<tx, counter, progress>>
  /\ UNCHANGED <<worker, started, storing, shown, flag, left, ok, meta, stored,
                 bounds, budget, history>>

(* Success: the freeze with the arcs is sent, not awaited.                 *)
Mark(c) ==
  /\ pc[c] = "mark"
  /\ pc' = [pc EXCEPT ![c] = "clear"]
  /\ Publish
  /\ \/ ok[c] /\ Send(c, "save") /\ progress' = "Done"
     \/ ~ok[c] /\ progress' = "Failed" /\ UNCHANGED <<tx, counter>>
  /\ UNCHANGED <<worker, started, storing, shown, flag, left, ok, meta, stored,
                 bounds, budget, history>>

(* The last thing the task does is to remove the entry, whoever it is.     *)
ClearOwn(c) ==
  /\ pc[c] = "clear"
  /\ pc' = [pc EXCEPT ![c] = "ended"]
  /\ stored' = None
  /\ UNCHANGED <<port, flag, left, counter, ok, news, meta, progress, bounds, budget,
                 history>>

Task(c) ==
  \/ Begin(c)
  \/ NextStep(c)
  \/ CheckStop(c)
  \/ MoveShown(c)
  \/ AwaitState(c)
  \/ StateSeen(c)
  \/ Recover(c)
  \/ Stopped(c)
  \/ Cleanup(c)
  \/ Mark(c)
  \/ ClearOwn(c)

-----------------------------------------------------------------------------
(* A watcher.  Its work on an envelope is two steps: what it does with the *)
(* flag and the bounds, and the removal of the entry.                      *)

Reading(w, envelopes) ==
  /\ watch[w] = "read"
  /\ rx[w] # <<>>
  /\ Head(rx[w]) \in envelopes
  /\ rx' = [rx EXCEPT ![w] = Tail(rx[w])]

RaiseStored == flag' = [c \in Calibrations |-> flag[c] \/ c = stored]

(* Mutant: a reset keeps the points.                                       *)
HandleResetKeepingPoints(w) ==
  /\ Reading(w, {"reset"})
  /\ RaiseStored
  /\ watch' = [watch EXCEPT ![w] = "reset"]
  /\ freezed' = [freezed EXCEPT ![w] = FALSE]
  /\ bounds' = FALSE
  /\ wiped' = [v \in Watchers |-> v # w /\ (wiped[v] \/ points[v])]
  /\ UNCHANGED <<port, pc, left, counter, ok, news, points, stored, progress, budget, quiet,
                 clean>>

HandleReset(w) ==
  /\ Reading(w, {"reset"})
  /\ RaiseStored
  /\ watch' = [watch EXCEPT ![w] = "reset"]
  /\ freezed' = [freezed EXCEPT ![w] = FALSE]
  /\ points' = [points EXCEPT ![w] = FALSE]
  /\ bounds' = FALSE
  /\ wiped' = [v \in Watchers |-> v # w /\ (wiped[v] \/ points[v])]
  /\ UNCHANGED <<port, pc, left, counter, ok, news, stored, progress, budget, quiet,
                 clean>>

(* A freeze without arcs takes the bounds of every motor with points and   *)
(* unwraps them; a freeze with arcs sets bounds.                           *)
HandleFreeze(w) ==
  /\ Reading(w, {"freeze", "save"})
  /\ clean' = {}
  /\ freezed' = [freezed EXCEPT ![w] = TRUE]
  /\ LET panics == Head(rx[w]) = "freeze" /\ points[w] /\ ~bounds
     IN /\ watch' = [watch EXCEPT ![w] = IF panics THEN "dead" ELSE "freeze"]
        /\ points' = [points EXCEPT ![w] = panics]
  /\ bounds' = (bounds \/ Head(rx[w]) = "save")
  /\ wiped' = [wiped EXCEPT ![w] = wiped[w] /\ points'[w]]
  /\ UNCHANGED <<port, tasks, news, stored, progress, budget, quiet>>

(* Mutant: a stop removes the entry and does not raise the flag.           *)
HandleStopForgetting(w) ==
  /\ Reading(w, {"stop"})
  /\ watch' = [watch EXCEPT ![w] = IF stored = None THEN "read" ELSE "stop"]
  /\ UNCHANGED <<port, tasks, news, freezed, points, shared, budget, history>>

HandleStop(w) ==
  /\ Reading(w, {"stop"})
  /\ RaiseStored
  /\ watch' = [watch EXCEPT ![w] = IF stored = None THEN "read" ELSE "stop"]
  /\ UNCHANGED <<port, pc, left, counter, ok, news, freezed, points, shared, budget,
                 history>>

(* clear_calibration_stop, and after reset and freeze                      *)
(* clear_auto_calibration.                                                 *)
ClearEntry(w) ==
  /\ watch[w] \in {"reset", "freeze", "stop"}
  /\ watch' = [watch EXCEPT ![w] = "read"]
  /\ stored' = None
  /\ \/ watch[w] = "stop" /\ UNCHANGED <<progress, news>>
     \/ watch[w] # "stop" /\ progress' = "none" /\ Publish
  /\ UNCHANGED <<port, tasks, rx, freezed, points, bounds, budget, history>>

(* A position counts when the metadata is not frozen and the motor reports *)
(* no error; only a position not seen before updates the bounds.           *)
HandleState(w) ==
  /\ Reading(w, {"state"})
  /\ \/ ~freezed[w] /\ points' = [points EXCEPT ![w] = TRUE] /\ bounds' = TRUE
     \/ (freezed[w] \/ points[w]) /\ UNCHANGED <<points, bounds>>
  /\ UNCHANGED <<port, tasks, news, watch, freezed, stored, progress, budget, history>>

Watch(w) ==
  \/ HandleReset(w)
  \/ HandleFreeze(w)
  \/ HandleStop(w)
  \/ ClearEntry(w)
  \/ HandleState(w)

-----------------------------------------------------------------------------
Init ==
  /\ tx = <<>>
  /\ worker = Idle
  /\ started = 0
  /\ storing = FALSE
  /\ stored = None
  /\ flag = [c \in Calibrations |-> FALSE]
  /\ pc = [c \in Calibrations |-> "unborn"]
  /\ left = [c \in Calibrations |-> Sweeps]
  /\ counter = [c \in Calibrations |-> 0]
  /\ ok = [c \in Calibrations |-> FALSE]
  /\ news = {}
  /\ shown = 0
  /\ progress = "none"
  /\ bounds \in BOOLEAN
  /\ rx = [w \in Watchers |-> <<>>]
  /\ watch = [w \in Watchers |-> "read"]
  /\ freezed = [w \in Watchers |-> bounds]
  /\ points = [w \in Watchers |-> FALSE]
  /\ commands = 0
  /\ errors = 0
  /\ quiet = {}
  /\ clean = {}
  /\ wiped = [w \in Watchers |-> FALSE]

Worker ==
  \/ TakeCommand
  \/ FinishMotor
  \/ FinishControl
  \/ SpawnCalibration
  \/ StoreFlag
  \/ NothingToCalibrate

Next ==
  \/ \E kind \in Kinds : Submit(kind)
  \/ Worker
  \/ ReadMotor
  \/ \E c \in Calibrations : Task(c)
  \/ \E w \in Watchers : Watch(w)

Spec == Init /\ [][Next]_vars

(* tokio runs every ready task, and a wait with a deadline ends by then at *)
(* the latest.  wait_for_stall has none: it goes on only when a state is   *)
(* published, and nothing says that the motor ever stalls.                 *)
Advance(c) ==
  \/ Begin(c) \/ NextStep(c) \/ CheckStop(c) \/ MoveShown(c) \/ AwaitState(c)
  \/ StateSeen(c) \/ Stopped(c) \/ Cleanup(c) \/ Mark(c) \/ ClearOwn(c)

FairSpec ==
  /\ Spec
  /\ WF_vars(Worker)
  /\ \A c \in Calibrations : WF_vars(Advance(c))
  /\ \A w \in Watchers : WF_vars(Watch(w))

-----------------------------------------------------------------------------
(* Type correctness.                                                       *)
TypeOK ==
  /\ tx \in Seq(Commands)
  /\ worker \in Commands
  /\ started \in 0..MaxStarts
  /\ storing \in BOOLEAN
  /\ stored \in 0..MaxStarts
  /\ flag \in [Calibrations -> BOOLEAN]
  /\ pc \in [Calibrations -> {"unborn", "start", "step", "moving", "look", "stall",
                              "stopping", "cleanup", "mark", "clear", "ended"}]
  /\ left \in [Calibrations -> 0..Sweeps]
  /\ counter \in [Calibrations -> Nat]
  /\ ok \in [Calibrations -> BOOLEAN]
  /\ news \subseteq Calibrations
  /\ shown \in Nat
  /\ progress \in {"none", "InProgress", "Stopped", "Failed", "Done"}
  /\ bounds \in BOOLEAN
  /\ rx \in [Watchers -> Seq(Envelopes)]
  /\ watch \in [Watchers -> {"read", "reset", "freeze", "stop", "dead"}]
  /\ freezed \in [Watchers -> BOOLEAN]
  /\ points \in [Watchers -> BOOLEAN]
  /\ commands \in 0..MaxCommands
  /\ errors \in 0..MaxErrors
  /\ quiet \subseteq Calibrations
  /\ clean \subseteq Calibrations
  /\ wiped \in [Watchers -> BOOLEAN]

(* A calibration that started clean, and during which no freeze was        *)
(* handled, can be stopped: from the moment the worker stored its flag     *)
(* until it is told to stop or ends, the entry of calibration_stops is its *)
(* own.  Its own cleanup, its predecessors' and the watchers' (so101.rs    *)
(* 62, port_meta.rs 194, 321, 335) remove the entry whoever it belongs to. *)
(* A start that is not clean has no such guarantee: a calibration that was *)
(* replaced removes its successor's entry as its last act, and the next    *)
(* start then leaves that successor running unsignalled.                   *)
CleanIsStoppable ==
  \A c \in clean :
    Running(c) /\ ~flag[c] /\ ~(storing /\ c = started) => stored = c

(* Once a calibration's torque-off was executed (check_stop), none of its  *)
(* movements is executed any more, also not one of wait_for_stall's        *)
(* recovery whose wait timed out while the command was still queued.       *)
QuietAfterStop ==
  \A c \in quiet :
    /\ ~(worker.kind = "move" /\ worker.by = c)
    /\ \A i \in DOMAIN tx : ~(tx[i].kind = "move" /\ tx[i].by = c)

(* The published status says "in progress" only while a calibration runs:  *)
(* every way out of a calibration ends with mark_done or mark_failed.      *)
ProgressIsLive ==
  progress = "InProgress" => \E c \in Calibrations : Running(c)

(* The unwrap of port_meta.rs 271 can fail only for a watcher under whose  *)
(* points a calibration that was starting (so101.rs 76), or the reset      *)
(* handled by another watcher, removed the bounds.                         *)
BoundsGoWithPoints ==
  \A w \in Watchers : points[w] /\ ~bounds => wiped[w]

(* The idle worker goes on reading the motors of the bus: there are some,  *)
(* and nobody closes the port.                                             *)
BusAnswers == WF_vars(ReadMotor)

(* On a bus that goes on being read, a calibration that is told to stop    *)
(* ends: again and again no signalled calibration is left.  Without the    *)
(* premise it need not: wait_for_stall (calibrator.rs 550) looks at the    *)
(* flag only after the next published state.                               *)
StopHeard ==
  BusAnswers => []<>(\A c \in Calibrations : flag[c] => pc[c] = "ended")

StopUnderWay ==
  \/ worker.kind = "stop"
  \/ \E i \in DOMAIN tx : tx[i].kind = "stop"

CleanRuns == \E c \in clean : Running(c)

(* On a bus that goes on being read, a client's stop ends the running      *)
(* calibration, through the port worker, the watcher, the flag and the     *)
(* task, if that calibration started clean and no freeze came in between   *)
(* (a freeze empties clean, and another calibration starts clean only when *)
(* this one has ended).                                                    *)
StopEnds == BusAnswers => ((CleanRuns /\ StopUnderWay) ~> ~CleanRuns)

=============================================================================
