# A TLA+ verification of norma-core

This directory models the concurrent core of norma-core in TLA+, checks the
models with TLC on small instances, and proves the most important properties
with TLAPS for every instance. `PROJECT.json` lists, for every definition, the
source lines it stands for; the runs, theorems, findings and hazards are listed
there too. Paths below are relative to the repository (`src/`).

## 1. The system

norma-core is a robotics stack. A **station** process runs **drivers**; drivers,
clients and the station talk through **NormFS**, an append-only queue store that
is an external crate. A driver subscribes to the `commands` queue (or to a `tx`
queue), talks to its device, and writes envelopes to an `rx` queue and a compact
state to an inference queue. Clients (viewer, Python library, other drivers)
read those queues.

### 1.1 Inventory

| part | state | operations | interacts with | what is hard | what must be true |
|---|---|---|---|---|---|
| **st3215 port worker** `drivers/st3215/src/port.rs` | command channel, `command_waiting`, `last_seen_motors`, `missing_since`, EEPROM cache | receive and execute a command, scan known motors, search for new ones, evict, close, reopen | subscription callback, serial bus, `state.rs` | callback and scan race; scans are aborted half-way for commands; a lost reply must not evict; the cache must follow writes | no command lost or stuck; discovery never starves; eviction only after the grace window; cache coherent |
| **st3215 calibration commands** `port.rs` 809-1370, `protocol/packet.rs` | per motor program of writes, retries, the serial line | reset and freeze calibration, verified write, drain | servo, line | late replies answer the wrong request; retries; partial failure | success means every register is written; always terminates |
| **st3215 published state** `state.rs` | buses, motors, last command, bounds, stop flags | add/remove bus, update motor, update result | every reader | order of envelopes, re-created entries | results settle, no stale registers |
| **st3215 driver** `driver.rs` | managed ports | detect, open, remove | USB, port worker | open that fails after the announcement | announced iff managed |
| **st3215 calibration metadata** `port_meta.rs`, `calibrate.rs` | tracked positions, arcs, frozen flag | watch rx queue, reset, freeze, stop | port worker, auto-calibration | one watcher per opening, wrap-around arithmetic | arcs enclose the positions seen |
| **st3215 auto-calibration** `auto_calibrate/*` | stop flag, command ids | start, stop, command and wait for its result | port worker through queues | flag stored after spawn, ids restart | at most one calibration runs; stop stops |
| **yahboom command inbox** `yahboom-dogzilla-lite/src/command_inbox.rs` | coalesced setpoints, discrete queue, wake token | push, receive (cancellable), pop | subscription thread, port loop | lost wake-up when a receive is cancelled | newest setpoint kept and delivered, discrete order |
| **yahboom port and connection** `port.rs`, `driver.rs` | connected port | detect, run, disconnect | UART | disconnect races reconnect | announced iff connected |
| **inference publisher** `station/bin/station/src/inference/mod.rs` | newest pointer per queue, flag, condition variable | queue callback, snapshot, publish, shutdown | every queue | signal against snapshot, shutdown against sleep | no update lost, pointers never go back |
| **motors mirroring** `motors-mirroring/src` | leader/follower tables, modes, torque tasks, mirror loop | start, stop, restore, publish, send goals | st3215 through queues | spawned tasks without order; restore against commands; stale data | tables consistent; followers powered, others not |
| **inference frames** `inferences/src` | shared-memory ring, rate limiter | write frame | external readers | tearing | a reader never takes a mixed frame |
| **vesc driver** `vesc-trampa/src` | hold mode | command, tick | VESC | any error closes the port | the motor is released when commands stop |
| **watchdog daemon** `arduino-portenta/x8-watchdogd` | offline timer, feeding flag, next feed, check and open | open, feed, ping, decide, exit | kernel watchdog, network | blocking ping, failing device, signal after decision | reboots iff offline too long |
| **cellular daemon** `arduino-portenta/x8-cellulard` | recovery ladder | check, recover | modem | repeated failures | escalates and backs off |
| other drivers (cameras, power, environment sensors, sysinfo) | little | sample and publish | one device | none of interest to a model checker | - |
| station process, web and TCP servers, interface crate | wiring | serve NormFS | clients | state lives in NormFS, not in this repository | - |
| viewer, app, Python client, dataset tools, examples, smolvla, shared libraries, message definitions, device support | client or offline code | - | - | - | - |

`PROJECT.json` lists all 35 parts with the reason for each one not modelled, and
the hazards at the lines where they bite.

### 1.2 Which module models which part

| module | models |
|---|---|
| `St3215Port` | one ST3215 bus: callback, channel and flag, worker loop, scan, search, cache, eviction, published results, close and reopen |
| `CommandServer` | the abstract specification of a bus: what its port promises to those who send commands |
| `CalibrationWrites` | `reset_calibration` and `freeze_calibration` request by request over a faulty line |
| `CommandInbox` | the Dogzilla command inbox and its cancellable receive |
| `ConflatingMailbox` | the abstract specification of that inbox |
| `InferencePublisher` | the condition-variable worker of the station |
| `Mirroring` | mirroring tables, modes, publication, restore and torque tasks |
| `MirrorLoop`, `MCMirrorLoop` | the mirroring loop for one motor of a leader and a follower, with an obstacle; its instances |
| `CalibrationSession` | automatic calibration of a bus: clients, port worker, calibration tasks and metadata watchers |
| `WatchdogDaemon` | x8-watchdogd with the hardware watchdog, the network and the clock |
| `St3215PortProofs`, `CalibrationWritesProofs`, `CommandInboxProofs`, `InferencePublisherProofs`, `MirroringProofs`, `MirrorLoopProofs`, `CalibrationSessionProofs`, `WatchdogDaemonProofs` | the proofs |

The port worker appears twice at different grain: in `St3215Port` a calibration
command is one step with any set of motors rewritten; `CalibrationWrites` opens
that step. `Mirroring` and `St3215Port` meet in the `commands` queue, which is
FIFO per bus: `Mirroring` records the newest torque command enqueued, and
`St3215Port`'s `ServerSpec` says that commands are executed in that order.
`CalibrationSession` and `MirrorLoop` rely on the same property: in them the port
is a FIFO queue of commands, executed one after the other, which is what
`CommandServer` says of an open port. `CalibrationSession`
is itself a composition: worker, calibrations and watchers share the queues, the
stop flags, the bounds and the published status.

## 2. The modules and the code

### 2.1 `St3215Port`

*Threads.* The NormFS subscription callback (`CallbackStore`, `CallbackSend`:
the flag is stored, then the command is sent), and the worker task, one action
per stretch between two awaits on the serial line.

*State.* `commandWaiting` is the AtomicBool, `channel` the mpsc channel,
`lastSeen`, `missingSince`, `cache` the worker's locals of the same names;
`seen`, `todo`, `searching`, `found` are the locals of one scan; `known`,
`shown`, `result` are what `state.rs` publishes. `missingSince[m]` is 0 for no
entry, else one plus the age of the entry. EEPROM contents are abstracted to the
number of the command that wrote them.

*Actions.* `ReceiveCommand` (the flag is lowered, the cache invalidated, the
processing envelope published), `FinishMotorCommand`, `FinishSyncWrite`,
`FinishCalibration`, `FinishOther` (execution, result envelope, error envelope,
exit on fatal errors, forgetting of the old id after an id write), `StartScan`,
`ReadMotor`, `AbortScan`, `EndScan` (eviction with its three exits),
`PingMotor`, `EndSearch`, `AnnounceMotor`, `EndAnnounce`, `ClosePort`,
`OpenPort`. The environment loses or garbles replies, makes servos report
errors, hot-plugs servos and the adapter, and lets time pass.

*Abstractions.* NormFS enqueues succeed; `unsubscribe` waits for a running
callback; a `sync_write` addresses all motors; receive and flag clear are one
step (no await in between); buses without a serial number, which `state.rs`
skips, are left out; opening the serial port succeeds. Time is counted in grace
windows; only the comparison of ages with the limits matters.

*Abstract specification.* `CommandServer` has a queue of waiting commands, the
one being served and the memory of the servos: commands are served one at a
time in the order given, only serving changes a servo and only one the command
addresses, and a port that fails drops what waits. The refinement maps `waiting`
to the channel followed by the command between the flag store and the send, or
to nothing once the worker has left, `serving` to `cur` while a command is
executed, and `stored`, `staged` to the servos. Scan, search, cache, flag and
clocks are invisible to it.

### 2.2 `CalibrationWrites`

One step is one request: it reaches the servo or not, the servo acts and
answers, and the worker takes the oldest reply on the line, in time, damaged, or
not at all. The two programs are tables (`ResetStep`, `FreezeStep`) of requests
with the way a failure is handled: the `?` operator, a warning, or the verified
write with `MAX_RETRIES` attempts and a drain after each failure. A reply is
accepted by motor and length, as in `packet.rs`. `Correction` and `Encoded` are
the offset arithmetic, with its wrap, clamp and two's-complement word.

The servo is external, modelled from how the code uses it: Write takes effect at
once, RegWrite is staged, Action applies it, Reset forgets it, and some firmware
clamps the acceleration (`presets.rs` says so). What the EEPROM lock protects
over a power cycle is not modelled. Replies come in request order; the line may
hold one late reply when the command starts (from a scan read or a ping, which
do not drain); a drain may miss one reply (`MaxMissed`).

### 2.3 `CommandInbox` and `ConflatingMailbox`

A push of a coalesced command merges under the lock (`PushCoalesced`) and then
offers the wake token (`PushWake`); any other command goes to the bounded queue
(`PushDiscrete`), and `push` returns an error when that is full or closed. The
receive loop pops, sleeps on the two channels, and may be cancelled by the
feedback loop's `select!` (`Cancel`), dropped after a serial error
(`SerialError`), or ended by a closed channel once NormFS dropped the
subscription (`DropSenders`, `RecvClosed`). Setpoints are values and are pushed
without a bound; discrete commands are numbered and bounded by `MaxDiscrete`.
`newest`, `delivered`, `returned` and `failed` record what was pushed and what
became of it.

`ConflatingMailbox` is the promise: one cell per control in which the newest
setpoint replaces older ones, a bounded queue, and no token that could be lost.
A filled cell is taken unless cells of higher priority keep being filled, a
discrete command unless any cell does: `recv` returns setpoints before it looks
at the discrete queue, so an endless stream of them keeps that queue waiting. The
refinement maps `latest <- pending`, `queue <- discrete`, `taken <- delivered`,
`done <- returned`, `offered <- pushes`, `open <- receiver # "dropped"`.

### 2.4 `InferencePublisher`

Callbacks insert into the concurrent map (`Insert`) and then, under the mutex,
raise the flag and notify (`Signal`). The worker's `Sleep`, `Relock`, `Exit`,
`BeginSnapshot`, `ReadPointer` (entry by entry, as the map's iterator works) and
`Publish` (which may be refused by NormFS) are the loop of `start`; `shutdown`
is two steps. Spurious wake-ups are allowed but not assumed.

### 2.5 `Mirroring`

`StartMirror` and `StopMirror` are the handlers up to `merge_modes`: they change
both tables under the state lock and spawn a torque task. `PublishCommand` is
the rest, under the modes lock; `Restore` is the start-up task that does the
same with the modes of an earlier run and may come in between. A torque task
reads the ST3215 state (`TaskRead`) and then sends one command per bus that has
a state (`TaskSend`). `torque[b]` is the newest torque command enqueued for a
bus. The tasks run in any order, turn by turn. Two history variables say for
which buses nothing can be promised: `missed`, those the newest torque command
was not sent to because the task had no state of the bus, and `raced`, those
whose newest task was spawned while one with the opposite command was not yet
through with them. The run `mirroring_order` shows what happens to the latter.
`BusGone` and `BusBack` are `remove_bus` and `add_bus` of the ST3215 driver's
published state. Vectors of targets are sets, the motors of a bus are taken
together, and unknown bus types, which both handlers skip, are left out. Nothing
in the repository writes the modes queue; `SavedModes` is either empty or names
every bus.

### 2.6 `CalibrationSession`

*Tasks.* The port worker takes commands from `tx` in order (`TakeCommand`, which
also publishes a motor command's id, `FinishMotor`, `FinishControl`). An "auto"
is `SpawnCalibration` (the flag in the entry of the bus, if any, is raised and
the task spawned) and `StoreFlag` (the new flag is put into the entry); the task
may already run in between. A calibration is `Begin` (bounds are removed),
`NextStep`, `MoveShown`, then the loop of `wait_for_stall`, and for a stop
`CheckStop`, `Stopped`; last `Cleanup`, `Mark` and `ClearOwn`, which removes the
entry of the bus. `wait_for_stall` looks at the stop flag (`CheckStop`, else
`AwaitState`) and then waits without a deadline for a published state it has not
seen, which shows a stall or not (`StateSeen`) or an error (`Recover`). Every
envelope and every status publishes the state (`Publish`); `ReadMotor` is the
scan's. A watcher reads the published envelopes at its own pace; a reset, a freeze
or a stop is two steps (`HandleReset`, `HandleFreeze` or `HandleStop`, then
`ClearEntry`), a drive state is one (`HandleState`).

*State.* `stored` is the entry in `calibration_stops`, `flag[c]` the AtomicBool
of a calibration, `counter` its `command_counter`, `news` the calibrations in
`wait_for_stall` with an unseen state, `shown` the command id in the published
state, `progress` the published status, `bounds` whether the bus has
bounds, `points` and `freezed` the watcher's locals. A panic of the unwrap in a
freeze is the watcher state "dead". Ids restart in every calibration, as in the
code, so an id shown by a predecessor can end a wait.

*Abstractions.* The movements of a robot are `Sweeps` equal ones; several writes
of a movement, of a recovery and of the cleanup are one command each; positions,
arcs and thresholds of the stall detector are left out, so a stall may come at
any time or never; all motors are taken together; the sends succeed. An ElRobot
differs by the missing cleanup.

### 2.7 `WatchdogDaemon`

One thread with the control points of `run_daemon`: "open", "feed", "check",
"ping" (waiting for the child), "sleep". Each block of the loop is a choice
between its branches: `SkipOpen`, `OpenDevice`, `OpenFails`; `SkipFeed`,
`FeedDevice`, `FeedFails` (which skips the check); `SkipCheck` or `BeginCheck`,
then `CheckSucceeds` or `CheckFails`. `Exit` is the magic close. Times are kept
relative to now; a second (`Tick`) passes only while the thread sleeps or waits.
`monotonic_sec` returns 0 when `clock_gettime` fails (`ReadClock`): nothing but a
time that is 0 is then due (`Due`), an interval counted from 0 has mostly passed
(`After`, with the seconds since the clock was 0 in `uptime`), an offline timer
that would start at 0 is not running (`Started`), and a running one exceeds every
window, since the difference is cast to an unsigned number (`WindowOver`).
The hardware (`dog`, `age`), the network and the signal are external. A signal
during a ping makes the check fail, as in `ping_target`. The option
`--no-watchdog` and the one-shot mode are left out.

### 2.8 `MirrorLoop`

`Sample` is `update_from_st3215_queue`, and `Hold`, `Refuse` and `Follow` are the
three ways through `get_movement_sequence_with_goal`, decided on the sample
`known` while the leader (`LeaderMoves`), the follower (`FollowerMoves`) and its
port (`Execute`) go on. A goal is a sync write, which is not answered, so one
that is lost on the line goes unnoticed. `LoseSample` is a stale stamp or an
error of the leader. `setup.limited` says whether `current_threshold` is above 0;
at 0 the loop neither holds nor blocks.
`Goals` is the arithmetic of `normalize.rs` and `mirror.rs` on a circle of
`Steps` positions. The code computes the share in floating point and truncates:
where the quotient is exact the model allows the result one step lower.

The follower moves one step at a time towards its goal register unless the next
step is not free; then it draws a high current if it is held back by more than
the deadband. Speed, acceleration and other motors of the bus are left out, and
the tables do not change (see `Mirroring`). `MirrorSetups` assumes that calibrated
ranges lie on the scale; their ends are positions masked by `normal_position`.

## 3. What is checked

All runs use the modules as they are; the configurations only give constants
their values. Distinct states are those of the listed instance.

| run | instance | states | result |
|---|---|---|---|
| `port_safety` | 2 servos, one command of any kind, 1 fault, fair | 243 k | holds |
| `port_commands` | 1 servo, reg_write/action/reset, 3 commands, 1 fault | 407 k | holds |
| `port_grace` | 2 servos, 1 command, 2 faults | 158 k | **violated** |
| `port_eeprom` | 1 servo, reg_write/action, no fault, fair | 4 k | **violated** |
| `calibration` | 2 motors, 2 attempts, 2 faults, 1 missed and 1 stale reply, fair | 143 k | holds |
| `session` | 2 calibrations of 1 sweep, 1 watcher, 2 commands of any kind, 1 motor error, fair | 388 k | holds |
| `inbox` | 3 slots, 2 setpoint values, any number of setpoints, queue of 2, 3 discrete commands, fair | 205 k | holds |
| `publisher` | 2 queues, 2 entries each, fair | 7 k | holds |
| `mirroring` | 2 buses, 3 commands, 2 tasks, 1 drop-out, tasks in any order, fair | 1240 k | holds |
| `mirroring_order` | 2 buses, 2 commands, tasks in any order | 13 k | **violated** |
| `mirror_loop` | 8 positions, 5 setups, 2 leader movements, 1 lost sample or write, 2 queued commands, fair | 354 k | holds |
| `watchdog` | feed 3, check 5, window 9, retry 2, ping 3+1, limit 8 seconds, 2 device faults, 1 failed clock reading, fair | 604 k | holds |

### 3.1 Properties that hold

*Port.*
`FlagHonest`: a raised `command_waiting`, which suppresses every scan, always
has a command behind it. `NoCommandLost`: the command in progress, the queued
ones and the callback's are exactly those after the last answer, in order.
`ServerSpec`: the port implements `CommandServer`; besides the order, a command
is executed as it was given, no scan changes a servo, and nothing from before a
reopening is executed after it.
`CacheCoherent`: a cached EEPROM block is what the servo holds, but for the
kinds of writes that do not invalidate it. `ResultsSettle`: no motor is left
"processing" on any error path. `RegistersAreScanned`: registers are published
only of motors the worker still reads, also when a command cuts a scan short
after an eviction, after an id change, and over a replug. `CommandsAnswered`,
`MotorsDiscovered`, `MotorsDropped`: every command is answered or goes with the
port; every servo that stays is found and its registers are shown for good, also
after a failed id write made the worker forget it; every servo that leaves is
dropped and no registers of it stay published.

*Calibration.* `SuccessMeansWritten`: whatever was lost, late or damaged, after
"success" every motor that counts holds the values, is centred (one step off
for midpoint 0, whose offset cannot be stored) and is locked.
`RejectedForAReason`: a rejection has a bus fault, a stale reply or an absent
motor behind it. `Terminates`: the command is always answered.

*Inbox.* `NoLostWakeup`: `recv` never sleeps over a pending setpoint without a
token. `NewestKept`: the setpoint pushed last for a slot is pending or was
returned last. `DiscreteKept`: each discrete command is returned, refused or
queued, and they are returned in order. `MailboxSpec`: the abstract specification
with its liveness.

*Publisher.* `NoLostUpdate`, `PointersGrow`, `EventuallyPublished`,
`ShutdownEnds`. A refused snapshot is the one exception: it is not retried until
the next signal.

*Mirroring.* `TablesAgree`: the two tables are each other's inverse.
`PublishedCurrent`: with the callback at rest the newest published state is
current, even if the restore task published last. `MirroredHaveModes`: every
mirrored bus has a mode. `TorqueFollowsTables`: with all tasks through, exactly
the followers are powered. `FollowersPowered`: a lasting follower is powered for
good. The last two leave out the buses in `missed` and `raced`.

*Calibration session.* `CleanIsStoppable`: a calibration that started when
nothing else could touch the entry of its bus keeps the entry until it is told
to stop or ends, unless a freeze is handled. `QuietAfterStop`: no movement is
executed after the torque-off of a stop, also not the torque-on of a recovery
whose wait had timed out. `ProgressIsLive`: "in progress" is published only while
a calibration runs. `BoundsGoWithPoints`: the unwrap of a freeze fails only when
a starting calibration or another watcher removed the bounds. `StopHeard`: a
calibration that is signalled ends. `StopEnds`: a client's stop reaches a
calibration that started clean, through worker, watcher, flag and task. The last
two have the premise `BusAnswers`, that the bus goes on being read.

*Watchdog.* `NoSpuriousReset`: the hardware fires only after the decision, a
failure of the device or the clock, or a signal, if its limit exceeds one feed interval and the
longest check; the program does not compare them. `WindowNotOverlooked`: the
decision comes at most one check interval and one check after the end of the
window, and a second later for each failed clock reading. `NoEarlyReset`: feeding
ends, for good, only after a whole window without a success, or when the clock
fails after a failed check while the timer runs. `GivenUpResets`, `OutageResets`: the decision, and a lasting
outage, end in a reset or a signal.

*Mirror loop.* `GoalsInRange`: goals stay inside the follower's range less the
margins, also across the end of the scale. `FollowerStays`: a follower that
starts in its range stays in it, whatever samples and commands are late, unless
the range runs across the end of the scale, where the servo turns the other way
between two goals. `OverloadEnds`: where the current is limited an overload does
not last. `Arrives`: with the
leader at rest the follower arrives, or the commanded direction is blocked, or an
obstacle is in the way. The last two except a motor at
position 0, which the code skips.

### 3.2 Where code and comments disagree

- `port_grace`: `port.rs` 367-369 promises eviction only after *consecutive*
  failures. The stamps of motors that answered are cleared after the read loop
  (391-393). A scan aborted for a waiting command (line 290) skips that even for
  motors already read, so the stamp of an earlier failure outlives a good answer
  and the next failure can evict the motor.
- `port_eeprom`: `calibrator.rs` 353 waits for a value "to appear in EEPROM
  registers". An `action` commits a staged write but does not invalidate the
  cache (line 188), so if a scan re-read the block in between, the value never
  appears.
- `mirroring_order`: `inference/mod.rs` 114 spawns a task to "send torque=0
  commands to free buses". The torque-on task of an earlier start may send after
  it, and the freed bus stays powered.

What the models show besides, without a run of their own:

- A calibration that was replaced removes its successor's stop entry when it
  ends (`so101.rs` 62), so the start of a third calibration finds none, and the
  second runs on beside it. `CleanIsStoppable` therefore speaks of clean starts.
- `wait_for_stall` waits without a deadline and reads the stop flag only after the
  next published state (`calibrator.rs` 550-553): on a bus that has fallen silent
  a stop is not heard. Without `BusAnswers` TLC finds this behaviour at once.
- A clock that fails after a failed check, with the offline timer running, ends
  feeding whatever the window is (`main.c` 480, 498).
- Discrete commands of the inbox wait as long as setpoints keep coming, and those
  queued when the receiver is dropped get no result.
- A freeze without arcs after the start of a calibration panics the watcher of
  the bus (`port_meta.rs` 271).
- The error arm of the reset loop (`port.rs` 824) does not drain the line, and
  the next motor's first request reads the late reply. `SuccessMeansWritten`
  holds in spite of it.
- A follower that already stands at the obstacle when it is pushed is held but
  not blocked, since its previous position is its present one
  (`mirror.rs` 118): push and hold alternate as long as the leader pushes.

### 3.3 Bounds and fairness

The bounds are named constants in guards: submitted commands, faults, failed
clock readings, discrete pushes, queue entries, unfinished torque tasks, drop-outs. They are chosen so that the
interesting cases occur: two servos so that one can fail while the other is
read; three commands so that a command can be queued behind a queued one and a
reg_write, an action and a scan can alternate; two faults so that a failure can
follow a failure; two attempts so that a verified write can fail, recover and
give up; two setpoint values so that an older one can be told from the newest,
and three discrete commands for a queue of two so that one can be refused; three mirroring commands so that a target can change its
source and be stopped; two calibrations so that one can replace another; a
watchdog window longer than a check interval and a hardware limit of one feed
interval and one check, the tightest for which `NoSpuriousReset` says anything;
two device failures so that a feed can fail again after a new open; one failed
clock reading at any of its places, the first ones included; obstacles
above and below the goals and leader positions on both sides of them and outside
the leader's range. The safety properties are also proved for every value of the
bounds (section 4 says under which assumptions); for liveness the evidence is the
listed instance. Every mutant in `PROJECT.json` breaks its property on that same
instance.

Fairness is what the schedulers give. tokio polls every ready task and NormFS
its subscribers (weak fairness of the worker, the callback's second half, torque
tasks). `select!` chooses among ready branches at random, so a branch that is
ready again and again is taken (strong fairness of `ReceiveCommand`,
`StartScan`, `RecvDiscrete`). parking_lot's mutex is eventually fair (strong
fairness of the publisher's `Signal`). Time passes, and an unplugged adapter is
plugged in again. Every await of a calibration command is bounded by a time-out,
so it always takes its next step (weak fairness of `Next` there). A calibration
task runs and its waits have deadlines, but for `wait_for_stall`, which goes on
only when a state is published; a motor need not stall or report an error. That
the worker goes on reading motors is not assumed either: `StopHeard` and
`StopEnds` name it as their premise. The inbox's `recv` is not assumed to reach
its `select!`. The watchdog's thread is scheduled, and ten
polls make a second (strong fairness of `Tick`). The mirror loop runs every 20 ms
on new samples (strong fairness, since a lost sample disables it for a while),
and the port and the follower make progress. No fairness is
assumed of faults, pushes or commands. Deadlock
is checked for the port; the other models may stop when their bounds are used up
or their job is done.

## 4. What is proved

TLAPS checks every proof. The named `ASSUME`s of the modules say that the
constants have their types, that counts which the code fixes at one or more are
not zero, that `NoBus` is no bus, and that calibrated ranges are positions of the
servo.

| theorem | statement | assumptions |
|---|---|---|
| `St3215PortProofs!TypeCorrect`, `FlagIsHonest`, `CommandsAreNotLost`, `CacheIsCoherent`, `ResultsAreSettled`, `RegistersStayScanned` | `Spec => []...` of the invariants above | any motors, time-outs, kinds, bounds |
| `St3215PortProofs!ImplementsServer` | `Spec => ServerSpec` | same |
| `CommandInboxProofs!TypeCorrect`, `WakeupsAreNotLost`, `NewestIsKept`, `DiscreteIsKept` | `Spec => []...` | any slots, values and capacity |
| `CommandInboxProofs!ImplementsMailbox` | the safety part of the refinement | same |
| `InferencePublisherProofs!TypeCorrect`, `NoUpdateIsLost`, `SnapshotsGrow` | `Spec => ...` | any queues |
| `CalibrationWritesProofs!CalibrationTypes`, `SuccessIsReal`, `RejectionHasAReason` | `Spec => []...` | any number of motors, attempts, faults, stale and missed replies |
| `MirroringProofs!MirroringTypes`, `TablesAlwaysAgree`, `PublicationIsCurrent`, `MirroredBusesHaveModes`, `TorqueIsRight` | `Spec => []...` | any buses |
| `CalibrationSessionProofs!SessionTypes`, `ProgressStaysLive`, `BoundsStayWithPoints`, `StopIsQuiet`, `CleanStaysStoppable` | `Spec => []...` | any number of calibrations, sweeps, watchers, commands |
| `WatchdogDaemonProofs!WatchdogTypes`, `ResetsAreMeant`, `WindowIsNotOverlooked` | `Spec => []...` | any intervals with `Feed < Window` |
| `WatchdogDaemonProofs!ResetsAreNotEarly` | the action property | same |
| `MirrorLoopProofs!LoopTypes`, `GoalsStayInRange` | `Spec => []...` | any scale, margin, deadband, ranges and obstacles |
| `MirrorLoopProofs!FollowerStaysInRange` | `Spec => FollowerStays` | same |

The inductive invariants, and why they are needed:

- *Port.* `ResultsSettle` only speaks of a worker that is not executing;
  `ProcessingIsCurrent` adds that a "processing" entry belongs to the command in
  progress and will get its result. `CacheCoherent` needs `InvalidatedFirst`: a
  command that invalidates runs with its cache entries gone. `NoCommandLost`
  needs `GoneIsIdle`, since reopening declares the old commands dropped. The
  refinement of `CommandServer` needs the same two facts, types and `GoneIsIdle`:
  every step of the port is then a step of the server or leaves it unchanged.
  `RegistersAreScanned` needs `ShownInv`: during a scan only scanned motors are
  left to read, and during a search the motors shown are in the set that becomes
  `last_seen_motors` at its end.
- *Inbox.* The three invariants and the types are inductive together; that the
  queue is in order, disjoint from what was returned and behind it is part of
  `DiscreteKept` for that reason.
- *Publisher.* `Covered` says in every state who owes the publication of a
  pointer: its callback, the raised flag, or the snapshot in progress.
- *Calibration.* A late reply can be taken for the answer to a later request, so
  success cannot be argued from single exchanges. `LineOK`: no data of the present
  motor is on the line when a read-back is sent, because a read-back that timed
  out is followed by a write, which rejects data for its length and drains the
  line; so a read-back returns what the register holds. `StagedOK`: a late action
  can only apply a write of the program itself, and each register gets one value
  only, so what was verified stays (`Written`, `EarlierDone`). The last steps of a
  reset are not read back; there the line is silent. A rejection has a reason
  because without faults every request of a motor that is there is answered and
  has its effect (`CleanOK`).
- *Mirroring.* `ModesOwed` says what the callback still has to merge.
  `TorqueOwed` says that, for a bus that is not in `raced`, every unfinished task
  with the bus on its list agrees with the tables, and with no such task the
  newest torque command does, unless the bus is in `missed`. So the order of the
  tasks does not matter.
- *Calibration session.* `ProgressOwned`: "in progress" is owned by a task
  between its first step and its mark. `QuietQueue`: past its stop a calibration
  sends no movement, and the ones it sent stand before its torque-off in the
  queue. `CleanAlone`: a clean calibration that is not told to stop is the newest
  and the only one, no watcher is between reading an envelope and removing the
  entry, and until the flag is stored the watchers have nothing but states to
  read, since the worker is still busy with the "auto"; `Fresh` says that
  calibrations not yet spawned have no task.
- *Watchdog.* `Waited` bounds, per control point, the time since the last feed
  by the feed interval and what the check has taken. `Armed`: a closed device is
  armed only after a failure or a stop. `Timed` bounds the offline timer per
  control point; a failing feed can put a due check off by one sleep, but no
  second failure can follow before the check, because the device is then closed
  or freshly fed; a failed clock reading puts it off once. `TimerHonest`: the
  timer never runs ahead of the time since the last success.
- *Mirror loop.* `GoalsInRange` is arithmetic: an offset on the circle and back is
  the identity, and the share of a clamped offset does not exceed the whole.
  `FollowerStays` needs `StaysInv`: the goal register, the goals of all queued
  commands and the position in a usable sample are in the range as well, since a
  hold sends the sampled position back as the goal.

Only model-checked: everything under fairness (`CommandsAnswered`,
`MotorsDiscovered`, `MotorsDropped`, `Terminates`, `EventuallyPublished`,
`ShutdownEnds`, `FollowersPowered`, `StopHeard`, `StopEnds`, `GivenUpResets`,
`OutageResets`, `OverloadEnds`, `Arrives`, the liveness of `MailboxSpec`), because the
prover does not reach liveness, `ENABLED`, induction over data or recursive
operators. Every safety property a run expects to hold is also proved. Type
correctness is proved for every module and is no run's property.

## 5. Not modelled, and the plan

NormFS itself is an external crate; it appears as reliable FIFO queues. Camera,
power and sensor drivers are sequential sampling loops; the viewer, the Python
client and the tools are clients of the queues; kinematics and learning code is
numerical. Most of the lines in the
repository, by count, are generated protocol-buffer code and its test fixtures
(`shared/gremlin_go`), which have no state to model. The rest is left for later,
in this order:

1. `CalibrationArc`: `calculate_arc` and the centring arithmetic of
   `port_meta.rs` as functions on a small circle, against a reference definition
   (the shortest arc that holds all positions).
2. `Mirroring` and `MirrorLoop` composed: a goal computed from a cloned table
   and sent after a stop; several motors per bus with their own ages.
3. `St3215Driver`: several adapters, failing opens, managed set against
   announced buses; the same for the yahboom connection monitor.
4. `ShmRing`: writer and readers of the inference ring; vesc hold mode; the
   recovery ladder of the cellular daemon.
5. Torque of mirroring composed with `CommandServer`, in place of the queues that
   `Mirroring` and `CalibrationSession` have of their own.
