------------------------------ MODULE St3215Port ------------------------------
(***************************************************************************)
(* One ST3215 serial bus: the subscription callback that hands commands to *)
(* the port worker, the worker loop with its motor scan and motor search,  *)
(* the EEPROM cache, and the bus state the driver publishes.               *)
(*                                                                         *)
(* Source: software/drivers/st3215/src/port.rs, state.rs, errors.rs,       *)
(* driver.rs.  Two threads run here: the NormFS subscription thread (the   *)
(* callback of St3215Port::open) and the port's worker task.  Every action *)
(* of the worker between two awaits on the serial line is one step.        *)
(*                                                                         *)
(* Time is counted in units of DISCONNECT_GRACE_MS.  EEPROM contents are   *)
(* abstracted to a version: 1 is the factory content, n + 1 is what the    *)
(* command with number n wrote, and 0 (NoData) is "no bytes".              *)
(***************************************************************************)
EXTENDS Naturals, Sequences, FiniteSets

CONSTANTS
    MaxMotors,    \* MAX_MOTORS_CNT: a search pings the ids 1..MaxMotors
    Grace,        \* DISCONNECT_GRACE_MS, in time units
    SearchDelay,  \* NO_COMMAND_SEARCH_DELAY_MS, in time units
    SearchGap,    \* MIN_TIME_BETWEEN_SEARCHES_MS, in time units
    Kinds,        \* the kinds of commands clients submit
    MaxCommands,  \* bound: commands submitted in a behaviour
    MaxFaults     \* bound: lost or corrupted replies, hot-plugs

MotorKinds == {"write", "write_eeprom", "write_id", "reg_write", "action", "reset"}
CalibrationKinds == {"reset_calibration", "freeze_calibration"}
AllKinds == MotorKinds \cup CalibrationKinds \cup {"sync_write", "other"}

ASSUME MotorsAssumption == MaxMotors \in Nat \ {0}
ASSUME TimeAssumption ==
    Grace \in Nat \ {0} /\ SearchDelay \in Nat /\ SearchGap \in Nat
ASSUME KindsAssumption == Kinds \subseteq AllKinds
ASSUME BoundsAssumption == MaxCommands \in Nat /\ MaxFaults \in Nat

Motors == 1 .. MaxMotors
BroadcastId == MaxMotors + 1          \* 254 in the code: an id that is no motor's
NoData == 0
Versions == 1 .. (MaxCommands + 1)
Command == [kind : AllKinds, motor : Motors, id : 1 .. MaxCommands]
NoCommand == [kind |-> "other", motor |-> 1, id |-> 0]

VARIABLES
    \* the serial line and the servos on it (environment)
    plugged,        \* the USB adapter is attached
    present,        \* ids of the powered servos on the line
    eeprom,         \* motor -> version held by the servo
    staged,         \* motor -> version a REG_WRITE has staged, or NoData
    faults,         \* lost replies and hot-plugs so far
    \* the callback thread of open()
    submitted,      \* commands read from the tx queue so far
    incoming,       \* command between the flag store and the channel send
    \* shared between the callback and the worker
    commandWaiting, \* the AtomicBool
    channel,        \* cmd_tx / cmd_rx
    \* the worker task
    pc,             \* where the worker is
    cur,            \* the command being processed
    lastSeen,       \* last_seen_motors
    missingSince,   \* motor -> 0 (no entry) or 1 + time units since the first miss
    cache,          \* eeprom_cache: motor -> version or NoData
    seen,           \* currently_seen_motors
    todo,           \* motors still to read, ping or announce in this pass
    searching,      \* search_for_new of this pass
    found,          \* new_motors of this pass
    quiet,          \* last_command_time.elapsed(), capped at SearchDelay
    sinceSearch,    \* last_search_time.elapsed(), capped at SearchGap
    \* BusState as published on the inference queue
    known,          \* ids that have a MotorState
    shown,          \* motor -> EEPROM version in MotorState.state, or NoData
    result,         \* motor -> MotorState.last_command.result
    \* history
    answered,       \* motors that answered since missingSince started for them
    bypassed,       \* motors whose EEPROM changed behind a cache entry
    finished        \* id of the last command answered, or dropped with the port

device == <<plugged, present, eeprom, staged>>
callback == <<submitted, incoming>>
scan == <<seen, todo, searching, found>>
clocks == <<quiet, sinceSearch>>
published == <<known, shown, result>>
history == <<answered, bypassed, finished>>
vars == <<device, faults, callback, commandWaiting, channel, pc, cur, lastSeen,
          missingSince, cache, scan, clocks, published, history>>

Init ==
    /\ plugged = TRUE
    /\ present \in SUBSET Motors
    /\ eeprom = [m \in Motors |-> 1]
    /\ staged = [m \in Motors |-> NoData]
    /\ faults = 0
    /\ submitted = 0
    /\ incoming = NoCommand
    /\ commandWaiting = FALSE
    /\ channel = <<>>
    /\ pc = "select"
    /\ cur = NoCommand
    /\ lastSeen = {}
    /\ missingSince = [m \in Motors |-> 0]
    /\ cache = [m \in Motors |-> NoData]
    /\ seen = {} /\ todo = {} /\ found = {} /\ searching = FALSE
    /\ quiet = 0 /\ sinceSearch = 0
    /\ known = {}
    /\ shown = [m \in Motors |-> NoData]
    /\ result = [m \in Motors |-> "none"]
    /\ answered = {} /\ bypassed = {} /\ finished = 0

-----------------------------------------------------------------------------
(* The serial line.                                                        *)

(* What a request to motor m may return.  A servo that is on the line      *)
(* answers; a fault loses the reply, garbles it, or makes the servo report *)
(* an error status, with or without register data.                         *)
Replies(m) ==
    IF ~plugged THEN {"io"}
    ELSE IF faults < MaxFaults
    THEN IF m \in present
         THEN {"ok", "servo", "servo_empty", "timeout", "garbled"}
         ELSE {"timeout", "garbled"}
    ELSE IF m \in present THEN {"ok"} ELSE {"timeout"}

(* A fault is charged to the bound; silence of an absent servo is not one. *)
Charge(m, reply) ==
    IF reply \in {"ok", "io"} \/ (reply = "timeout" /\ m \notin present)
    THEN faults' = faults
    ELSE faults' = faults + 1

MotorLeaves(m) ==
    /\ faults < MaxFaults
    /\ m \in present
    /\ present' = present \ {m}
    /\ staged' = [staged EXCEPT ![m] = NoData]
    /\ faults' = faults + 1
    /\ UNCHANGED <<plugged, eeprom, callback, commandWaiting, channel, pc, cur,
                   lastSeen, missingSince, cache, scan, clocks, published, history>>

MotorJoins(m) ==
    /\ faults < MaxFaults
    /\ m \notin present
    /\ present' = present \cup {m}
    /\ faults' = faults + 1
    /\ UNCHANGED <<plugged, eeprom, staged, callback, commandWaiting, channel, pc, cur,
                   lastSeen, missingSince, cache, scan, clocks, published, history>>

Unplug ==
    /\ faults < MaxFaults
    /\ plugged
    /\ plugged' = FALSE
    /\ faults' = faults + 1
    /\ UNCHANGED <<present, eeprom, staged, callback, commandWaiting, channel, pc, cur,
                   lastSeen, missingSince, cache, scan, clocks, published, history>>

Replug ==
    /\ ~plugged
    /\ plugged' = TRUE
    /\ UNCHANGED <<present, eeprom, staged, faults, callback, commandWaiting, channel,
                   pc, cur, lastSeen, missingSince, cache, scan, clocks, published,
                   history>>

(* One time unit passes for every Instant the worker holds.                *)
Older(age) == IF age \in 1 .. Grace THEN age + 1 ELSE age
Tick ==
    /\ \/ quiet < SearchDelay \/ sinceSearch < SearchGap
       \/ \E m \in Motors : missingSince[m] \in 1 .. Grace
    /\ quiet' = IF quiet < SearchDelay THEN quiet + 1 ELSE quiet
    /\ sinceSearch' = IF sinceSearch < SearchGap THEN sinceSearch + 1 ELSE sinceSearch
    /\ missingSince' = [m \in Motors |-> Older(missingSince[m])]
    /\ UNCHANGED <<device, faults, callback, commandWaiting, channel, pc, cur, lastSeen,
                   cache, scan, published, history>>

-----------------------------------------------------------------------------
(* The subscription callback of open(): store the flag, then send.         *)

CallbackStore(k, m) ==
    /\ pc # "gone"
    /\ incoming = NoCommand
    /\ submitted < MaxCommands
    /\ submitted' = submitted + 1
    /\ incoming' = [kind |-> k, motor |-> m, id |-> submitted + 1]
    /\ commandWaiting' = TRUE
    /\ UNCHANGED <<device, faults, channel, pc, cur, lastSeen, missingSince, cache, scan,
                   clocks, published, history>>

(* cmd_tx.send fails once the worker has dropped the receiver.             *)
DeliverIfEmpty(c) == IF pc = "exited" \/ channel # <<>> THEN channel ELSE Append(channel, c)
Deliver(c) == IF pc = "exited" THEN channel ELSE Append(channel, c)

CallbackSend ==
    /\ incoming # NoCommand
    /\ channel' = Deliver(incoming)
    /\ incoming' = NoCommand
    /\ UNCHANGED <<device, faults, submitted, commandWaiting, pc, cur, lastSeen,
                   missingSince, cache, scan, clocks, published, history>>

-----------------------------------------------------------------------------
(* The published bus state (state.rs).                                     *)

(* Motors whose last_command the result of command c is written to: only   *)
(* those that have a MotorState; a command without a motor id names none.  *)
Targets(c) ==
    CASE c.kind = "sync_write" -> Motors \cap known
      [] c.kind \in MotorKinds -> {c.motor} \cap known
      [] OTHER -> {}

(* The result envelope that follows the reply to a request.                *)
OutcomeUnlessTimeout(reply) ==
    CASE reply = "ok" -> "success" [] reply = "timeout" -> "processing" [] OTHER -> "failed"
Outcome(reply) == IF reply = "ok" THEN "success" ELSE "failed"

WithResult(r, ids, outcome) == [m \in Motors |-> IF m \in ids THEN outcome ELSE r[m]]

(* remove_motor_state: the entry goes with its registers and last_command. *)
Forget(ids) ==
    /\ known' = known \ ids
    /\ shown' = [m \in Motors |-> IF m \in ids THEN NoData ELSE shown[m]]
    /\ result' = WithResult(result, ids, "none")

-----------------------------------------------------------------------------
(* The worker: the recv branch of the select.                              *)

InvalidatedNotByReset(c) ==
    {m \in Motors : \/ c.kind \in CalibrationKinds
                    \/ c.kind = "reg_write" /\ m = c.motor}

Invalidated(c) ==
    {m \in Motors : \/ c.kind \in CalibrationKinds
                    \/ c.kind \in {"reset", "reg_write"} /\ m = c.motor}

DropCache(ids) ==
    /\ cache' = [m \in Motors |-> IF m \in ids THEN NoData ELSE cache[m]]
    /\ bypassed' = bypassed \ ids

ReceiveCommandKeepsFlag ==
    /\ pc = "select"
    /\ channel # <<>>
    /\ quiet' = 0
    /\ cur' = Head(channel)
    /\ channel' = Tail(channel)
    /\ result' = WithResult(result, Targets(Head(channel)), "processing")
    /\ DropCache(Invalidated(Head(channel)))
    /\ pc' = "command"
    /\ UNCHANGED <<device, faults, callback, commandWaiting, lastSeen, missingSince, scan,
                   sinceSearch, known, shown, answered, finished>>

ReceiveCommand ==
    /\ pc = "select"
    /\ channel # <<>>
    /\ commandWaiting' = FALSE
    /\ quiet' = 0
    /\ cur' = Head(channel)
    /\ channel' = Tail(channel)
    /\ result' = WithResult(result, Targets(Head(channel)), "processing")
    /\ DropCache(Invalidated(Head(channel)))
    /\ pc' = "command"
    /\ UNCHANGED <<device, faults, callback, lastSeen, missingSince, scan, sinceSearch,
                   known, shown, answered, finished>>

(* The servos ids store v.  Only a command that does not invalidate may    *)
(* do so behind a cache entry.                                             *)
BypassingKinds == {"write_eeprom", "write_id", "action", "sync_write"}

Rewrite(ids, v) ==
    /\ eeprom' = [m \in Motors |-> IF m \in ids THEN v ELSE eeprom[m]]
    /\ bypassed' = IF cur.kind \in BypassingKinds
                   THEN bypassed \cup {m \in ids : cache[m] # NoData}
                   ELSE bypassed

(* What servo c.motor does when the request reaches it.                    *)

Execute(c) ==
    LET m == c.motor IN
    \/ /\ c.kind = "write"
       /\ UNCHANGED <<present, eeprom, staged, bypassed>>
    \/ /\ c.kind = "write_eeprom"
       /\ Rewrite({m}, c.id + 1)
       /\ UNCHANGED <<present, staged>>
    \/ /\ c.kind = "write_id"
       /\ \E n \in Motors \ (present \ {m}) :
            /\ present' = (present \ {m}) \cup {n}
            /\ Rewrite({n}, eeprom[m])
            /\ staged' = [staged EXCEPT ![m] = NoData, ![n] = staged[m]]
    \/ /\ c.kind = "reg_write"
       /\ staged' = [staged EXCEPT ![m] = c.id + 1]
       /\ UNCHANGED <<present, eeprom, bypassed>>
    \/ /\ c.kind = "action"
       /\ Rewrite(IF staged[m] = NoData THEN {} ELSE {m}, staged[m])
       /\ staged' = [staged EXCEPT ![m] = NoData]
       /\ UNCHANGED present
    \/ /\ c.kind = "reset"
       /\ Rewrite({m}, c.id + 1)
       /\ staged' = [staged EXCEPT ![m] = NoData]
       /\ UNCHANGED present

(* A command to one motor.  A Servo or Timeout error leaves the worker     *)
(* running, any other error ends it; the request may have reached the      *)
(* servo even when the reply is lost.  After a write to the ID register    *)
(* the old id is forgotten, also when the write failed.                    *)
FinishMotorCommand ==
    /\ pc = "command" /\ cur.kind \in MotorKinds
    /\ LET m == cur.motor IN
       \E reply \in Replies(m) :
         LET failed == reply # "ok"
             fatal == reply \in {"io", "garbled"}
             clear == cur.kind = "write_id" /\ ~fatal
             entries == IF failed THEN known \cup {m} ELSE known
         IN /\ Charge(m, reply)
            /\ \/ plugged /\ m \in present /\ Execute(cur)
               \/ failed /\ UNCHANGED <<present, eeprom, staged, bypassed>>
            /\ known' = IF clear THEN entries \ {m} ELSE entries
            /\ shown' = IF failed \/ clear THEN [shown EXCEPT ![m] = NoData] ELSE shown
            /\ result' = IF clear THEN [result EXCEPT ![m] = "none"]
                         ELSE WithResult(result, {m} \cap entries, Outcome(reply))
            /\ cache' = IF clear THEN [cache EXCEPT ![m] = NoData] ELSE cache
            /\ pc' = IF fatal THEN "exited" ELSE "select"
    /\ finished' = cur.id
    /\ cur' = NoCommand
    /\ UNCHANGED <<plugged, callback, commandWaiting, channel, lastSeen, missingSince,
                   scan, clocks, answered>>

(* SYNC_WRITE is broadcast and never answered: only sending it can fail,   *)
(* and then the error is published under the broadcast id.  It may address *)
(* RAM or EEPROM registers.                                                *)
FinishSyncWrite ==
    /\ pc = "command" /\ cur.kind = "sync_write"
    /\ \E reply \in {"ok", "timeout", "io"} :
         /\ plugged = (reply # "io")
         /\ reply = "timeout" => faults < MaxFaults
         /\ faults' = IF reply = "timeout" THEN faults + 1 ELSE faults
         /\ \E rewritten \in IF reply = "ok" THEN {{}, present} ELSE {{}} :
              Rewrite(rewritten, cur.id + 1)
         /\ known' = IF reply = "ok" THEN known ELSE known \cup {BroadcastId}
         /\ result' = WithResult(result, Targets(cur), Outcome(reply))
         /\ pc' = IF reply = "io" THEN "exited" ELSE "select"
    /\ finished' = cur.id
    /\ cur' = NoCommand
    /\ UNCHANGED <<plugged, present, staged, callback, commandWaiting, channel, lastSeen,
                   missingSince, cache, scan, clocks, shown, answered>>

(* Calibration commands visit every motor, swallow per-motor errors and    *)
(* answer Success or Rejected; they carry no motor id, so no last_command  *)
(* changes.                                                                *)
FinishCalibration ==
    /\ pc = "command" /\ cur.kind \in CalibrationKinds
    /\ \E rewritten \in SUBSET (IF plugged THEN present ELSE {}) :
         /\ Rewrite(rewritten, cur.id + 1)
         /\ staged' = [m \in Motors |-> IF m \in rewritten THEN NoData ELSE staged[m]]
    /\ pc' = "select"
    /\ finished' = cur.id
    /\ cur' = NoCommand
    /\ UNCHANGED <<plugged, present, faults, callback, commandWaiting, channel, lastSeen,
                   missingSince, cache, scan, clocks, published, answered>>

(* Everything else (auto_calibrate, stop_auto_calibrate, an empty command) *)
(* is answered Success whatever happens.                                   *)
FinishOther ==
    /\ pc = "command" /\ cur.kind = "other"
    /\ pc' = "select"
    /\ finished' = cur.id
    /\ cur' = NoCommand
    /\ UNCHANGED <<device, faults, callback, commandWaiting, channel, lastSeen,
                   missingSince, cache, scan, clocks, published, answered, bypassed>>

-----------------------------------------------------------------------------
(* The worker: the interval branch of the select (scan_motors).            *)

StartScan ==
    /\ pc = "select"
    /\ ~commandWaiting
    /\ searching' = (quiet >= SearchDelay /\ sinceSearch >= SearchGap)
    /\ sinceSearch' = IF searching' THEN 0 ELSE sinceSearch
    /\ seen' = {} /\ found' = {}
    /\ todo' = lastSeen
    /\ pc' = "scan"
    /\ UNCHANGED <<device, faults, callback, commandWaiting, channel, cur, lastSeen,
                   missingSince, cache, quiet, published, history>>

(* A waiting command ends the pass before the next motor is read; nothing  *)
(* this pass learnt reaches last_seen_motors or missing_since.             *)
AbortScan ==
    /\ pc = "scan" /\ todo # {}
    /\ commandWaiting
    /\ seen' = {} /\ todo' = {}
    /\ pc' = "select"
    /\ UNCHANGED <<device, faults, callback, commandWaiting, channel, cur, lastSeen,
                   missingSince, cache, searching, found, clocks, published, history>>

(* Read one known motor: RAM only when its EEPROM is cached, everything    *)
(* otherwise.  An error is published as the motor's state; a Servo error   *)
(* counts as an answer and is followed by the registers it carried.        *)
ReadMotor(m) ==
    /\ pc = "scan" /\ m \in todo
    /\ ~commandWaiting
    /\ \E reply \in Replies(m) :
         LET data == IF cache[m] # NoData THEN cache[m] ELSE eeprom[m] IN
         /\ Charge(m, reply)
         /\ seen' = IF reply \in {"ok", "servo", "servo_empty"} THEN seen \cup {m} ELSE seen
         /\ answered' = IF reply \in {"ok", "servo", "servo_empty"} /\ missingSince[m] # 0
                        THEN answered \cup {m} ELSE answered
         /\ cache' = IF reply = "ok" THEN [cache EXCEPT ![m] = data] ELSE cache
         /\ bypassed' = IF cache[m] = NoData THEN bypassed \ {m} ELSE bypassed
         /\ shown' = [shown EXCEPT ![m] = IF reply \in {"ok", "servo"} THEN data ELSE NoData]
    /\ known' = known \cup {m}
    /\ todo' = todo \ {m}
    /\ UNCHANGED <<device, callback, commandWaiting, channel, pc, cur, lastSeen,
                   missingSince, searching, found, clocks, result, finished>>

(* After the last known motor: the disconnect hysteresis, then either the  *)
(* end of the pass or the search for new motors.                           *)
Missing == lastSeen \ seen
FirstMissRestarts(m) == 1
FirstMiss(m) == IF missingSince[m] = 0 THEN 1 ELSE missingSince[m]
Expired == {m \in Missing : FirstMiss(m) > Grace}

EndScan ==
    /\ pc = "scan" /\ todo = {}
    /\ DropCache(Expired)
    /\ Forget(Expired)
    /\ missingSince' = [m \in Motors |->
                          IF m \in seen \cup Expired THEN 0
                          ELSE IF m \in Missing THEN FirstMiss(m) ELSE missingSince[m]]
    /\ answered' = answered \ (seen \cup Expired)
    /\ seen' = lastSeen \ Expired
    /\ \/ /\ ~searching
          /\ lastSeen' = lastSeen \ Expired
          /\ pc' = "select"
          /\ UNCHANGED todo
       \/ /\ searching /\ commandWaiting
          /\ pc' = "select"
          /\ UNCHANGED <<lastSeen, todo>>
       \/ /\ searching /\ ~commandWaiting
          /\ todo' = Motors \ (lastSeen \ Expired)
          /\ pc' = "search"
          /\ UNCHANGED lastSeen
    /\ UNCHANGED <<device, faults, callback, commandWaiting, channel, cur, searching, found,
                   clocks, finished>>

(* search_motors_ignoring: ping the ids not seen in this pass, in order.   *)
PingMotor(m) ==
    /\ pc = "search" /\ m \in todo /\ \A n \in todo : m <= n
    /\ ~commandWaiting
    /\ \E reply \in Replies(m) :
         /\ Charge(m, reply)
         /\ found' = IF reply \in {"ok", "servo", "servo_empty"} THEN found \cup {m} ELSE found
         /\ known' = IF reply \in {"servo", "servo_empty", "garbled"} THEN known \cup {m}
                     ELSE known
         /\ shown' = IF reply \in {"servo", "servo_empty", "garbled"}
                     THEN [shown EXCEPT ![m] = NoData] ELSE shown
         /\ pc' = IF reply = "io" THEN "exited" ELSE "search"
    /\ todo' = todo \ {m}
    /\ UNCHANGED <<device, callback, commandWaiting, channel, cur, lastSeen, missingSince,
                   cache, seen, searching, clocks, result, history>>

EndSearchWhenDone ==
    /\ pc = "search"
    /\ todo = {}
    /\ todo' = found
    /\ pc' = "announce"
    /\ UNCHANGED <<device, faults, callback, commandWaiting, channel, cur, lastSeen,
                   missingSince, cache, seen, searching, found, clocks, published, history>>

EndSearch ==
    /\ pc = "search"
    /\ todo = {} \/ commandWaiting
    /\ todo' = found
    /\ pc' = "announce"
    /\ UNCHANGED <<device, faults, callback, commandWaiting, channel, cur, lastSeen,
                   missingSince, cache, seen, searching, found, clocks, published, history>>

(* DriveConnect is only logged on the rx queue: it changes no bus state.   *)
AnnounceMotor(m) ==
    /\ pc = "announce" /\ m \in todo
    /\ ~commandWaiting
    /\ seen' = seen \cup {m}
    /\ todo' = todo \ {m}
    /\ UNCHANGED <<device, faults, callback, commandWaiting, channel, pc, cur, lastSeen,
                   missingSince, cache, searching, found, clocks, published, history>>

EndAnnounce ==
    /\ pc = "announce"
    /\ todo = {} \/ commandWaiting
    /\ lastSeen' = seen
    /\ todo' = {}
    /\ pc' = "select"
    /\ UNCHANGED <<device, faults, callback, commandWaiting, channel, cur, missingSince,
                   cache, seen, searching, found, clocks, published, history>>

-----------------------------------------------------------------------------
(* The end of the worker: open() unsubscribes and returns, the driver      *)
(* publishes BusDisconnect and later opens the port again if it is there.  *)

ClosePortKeepsMotors ==
    /\ pc = "exited" /\ incoming = NoCommand
    /\ pc' = "gone"
    /\ UNCHANGED <<device, faults, callback, commandWaiting, channel, cur, lastSeen,
                   missingSince, cache, scan, clocks, published, history>>

ClosePort ==
    /\ pc = "exited" /\ incoming = NoCommand
    /\ Forget(known)
    /\ pc' = "gone"
    /\ UNCHANGED <<device, faults, callback, commandWaiting, channel, cur, lastSeen,
                   missingSince, cache, scan, clocks, history>>

OpenPortKeepsChannel ==
    /\ pc = "gone"
    /\ plugged
    /\ commandWaiting' = FALSE
    /\ pc' = "select"
    /\ lastSeen' = {}
    /\ missingSince' = [m \in Motors |-> 0]
    /\ DropCache(Motors)
    /\ seen' = {} /\ todo' = {} /\ found' = {} /\ searching' = FALSE
    /\ quiet' = 0 /\ sinceSearch' = 0
    /\ answered' = {}
    /\ finished' = submitted
    /\ UNCHANGED <<device, faults, callback, channel, cur, published>>

OpenPort ==
    /\ pc = "gone"
    /\ plugged
    /\ commandWaiting' = FALSE
    /\ channel' = <<>>
    /\ pc' = "select"
    /\ lastSeen' = {}
    /\ missingSince' = [m \in Motors |-> 0]
    /\ DropCache(Motors)
    /\ seen' = {} /\ todo' = {} /\ found' = {} /\ searching' = FALSE
    /\ quiet' = 0 /\ sinceSearch' = 0
    /\ answered' = {}
    /\ finished' = submitted
    /\ UNCHANGED <<device, faults, callback, cur, published>>

-----------------------------------------------------------------------------
Environment ==
    \/ \E m \in Motors : MotorLeaves(m) \/ MotorJoins(m)
    \/ Unplug \/ Replug \/ Tick

Callback ==
    \/ \E k \in Kinds, m \in Motors : CallbackStore(k, m)
    \/ CallbackSend

Finish == FinishMotorCommand \/ FinishSyncWrite \/ FinishCalibration \/ FinishOther

ScanStep ==
    \/ AbortScan \/ EndScan \/ EndSearch \/ EndAnnounce
    \/ \E m \in Motors : ReadMotor(m) \/ PingMotor(m) \/ AnnounceMotor(m)

Worker == ReceiveCommand \/ Finish \/ StartScan \/ ScanStep \/ ClosePort \/ OpenPort

Next == Environment \/ Callback \/ Worker

Spec == Init /\ [][Next]_vars

(* The runtime polls the worker and the subscription thread, time passes,  *)
(* and tokio's select picks among ready branches at random, so a command   *)
(* that stays queued is eventually received.                               *)
Fairness ==
    /\ WF_vars(CallbackSend)
    /\ WF_vars(Tick)
    /\ WF_vars(Replug)
    /\ WF_vars(Worker)
    /\ SF_vars(ReceiveCommand)
    /\ SF_vars(StartScan)

FairSpec == Spec /\ Fairness

-----------------------------------------------------------------------------
(* Properties.                                                             *)

(* Type invariant of the port, by the part of the system it is about.      *)
TypeDevice ==
    /\ plugged \in BOOLEAN
    /\ present \subseteq Motors
    /\ eeprom \in [Motors -> Versions]
    /\ staged \in [Motors -> Versions \cup {NoData}]
    /\ faults \in 0 .. MaxFaults

TypeCommands ==
    /\ submitted \in 0 .. MaxCommands
    /\ incoming \in Command \cup {NoCommand}
    /\ commandWaiting \in BOOLEAN
    /\ channel \in Seq(Command)
    /\ pc \in {"select", "command", "scan", "search", "announce", "exited", "gone"}
    /\ cur \in Command \cup {NoCommand}
    /\ pc = "command" => cur \in Command
    /\ finished \in 0 .. MaxCommands

TypeScan ==
    /\ lastSeen \subseteq Motors
    /\ missingSince \in [Motors -> 0 .. Grace + 1]
    /\ cache \in [Motors -> Versions \cup {NoData}]
    /\ seen \subseteq Motors /\ todo \subseteq Motors /\ found \subseteq Motors
    /\ searching \in BOOLEAN
    /\ quiet \in 0 .. SearchDelay /\ sinceSearch \in 0 .. SearchGap
    /\ answered \subseteq Motors /\ bypassed \subseteq Motors

TypePublished ==
    /\ known \subseteq Motors \cup {BroadcastId}
    /\ shown \in [Motors -> Versions \cup {NoData}]
    /\ result \in [Motors -> {"none", "processing", "success", "failed"}]

(* The type invariant: device, commands, scan and published state.         *)
TypeOK == TypeDevice /\ TypeCommands /\ TypeScan /\ TypePublished

Open == pc \notin {"exited", "gone"}

(* commandWaiting suppresses every scan (should_break_read), so it must    *)
(* never be left set with no command behind it: while the port is open a   *)
(* raised flag means a command is queued or the callback is about to queue *)
(* it.  Storing the flag after the send, or not clearing it on receipt,    *)
(* would stop the scan for good.                                           *)
FlagHonest == commandWaiting /\ Open => channel # <<>> \/ incoming # NoCommand

Started == IF pc = "command" THEN finished + 1 ELSE finished
Queued == Started + Len(channel)

(* While the port is open no command is lost, answered twice or overtaken: *)
(* the one in progress, the queued ones and the one the callback holds are *)
(* exactly the commands submitted after the last answer, in the order the  *)
(* callback read them from the tx queue.                                   *)
NoCommandLost ==
    Open => /\ pc = "command" => cur.id = Started
            /\ \A i \in 1 .. Len(channel) : channel[i].id = Started + i
            /\ IF incoming = NoCommand THEN submitted = Queued
               ELSE submitted = Queued + 1 /\ incoming.id = submitted

(* The port implements the command server: commands reach the servos one   *)
(* at a time, unchanged and in order; scans change no servo; a port that   *)
(* is opened again serves nothing from before.  What waits is the channel  *)
(* and the command the callback is about to send.                          *)
Waiting ==
    IF ~Open THEN <<>>
    ELSE IF incoming = NoCommand THEN channel ELSE Append(channel, incoming)

Serving == IF pc = "command" THEN cur ELSE NoCommand

Addressed ==
    [c \in Command |->
        CASE c.kind \in {"write", "other"} -> {}
          [] c.kind \in {"write_eeprom", "reg_write", "action", "reset"} -> {c.motor}
          [] OTHER -> Motors]

Server == INSTANCE CommandServer WITH
    waiting <- Waiting, serving <- Serving, open <- Open, stored <- eeprom
ServerSpec == Server!Spec

(* The cached EEPROM prefix that RAM-only reads are published with is what *)
(* the servo holds, unless a path that does not invalidate the cache (a    *)
(* plain Write, a SyncWrite, an Action, an id change onto a cached id)     *)
(* rewrote the EEPROM behind it.  A reset, a reg_write or a calibration    *)
(* may not: the entry goes before the command runs, and no scan refills it *)
(* in between.                                                             *)
CacheCoherent ==
    \A m \in Motors : cache[m] \in {NoData, eeprom[m]} \/ m \in bypassed

(* A published last_command never stays "processing" once the worker has   *)
(* left the command, on every error path.                                  *)
ResultsSettle == pc # "command" => \A m \in Motors : result[m] # "processing"

(* Register contents are published only for motors that the worker still   *)
(* reads: an eviction, an id change and a closing port each remove them    *)
(* before the worker forgets the motor, also when a command cuts the pass  *)
(* short between the eviction and the new last_seen_motors                 *)
(* (port.rs:376-400).                                                      *)
RegistersAreScanned ==
    \A m \in Motors : shown[m] # NoData => m \in known \cap lastSeen

(* port.rs:367-369: "only disconnect a motor after a 100ms grace window of *)
(* consecutive failures": a motor the scan forgets has not answered since  *)
(* the miss that started the window.                                       *)
EvictedOnlyAfterConsecutiveFailures ==
    [][\A m \in Motors : pc = "scan" /\ m \in known /\ m \notin known'
                          => m \notin answered]_vars

(* Every command read from the tx queue is answered, or dropped with the   *)
(* port.                                                                   *)
CommandsAnswered ==
    \A i \in 1 .. MaxCommands : submitted = i ~> (finished >= i \/ pc = "gone")

(* A servo that stays on a plugged line is eventually scanned and its      *)
(* registers are shown for good: no sequence of commands, faults or        *)
(* aborted passes leaves it undiscovered, and a failed id change hides it  *)
(* only for a while.                                                       *)
MotorsDiscovered ==
    \A m \in Motors :
        <>[](plugged /\ m \in present) => <>[](m \in lastSeen /\ shown[m] # NoData)

(* A servo that stays away is eventually no longer scanned, and no         *)
(* register contents of it stay in the published state.                    *)
MotorsDropped ==
    \A m \in Motors :
        <>[](m \notin present) => <>[](m \notin lastSeen /\ shown[m] = NoData)

(* calibrator.rs:353 waits "for value to appear in EEPROM registers" of    *)
(* the published state after RegWrite and Action: an EEPROM content that   *)
(* stays in the servo eventually shows.                                    *)
EepromWriteAppears ==
    \A m \in Motors, v \in Versions :
        <>[](plugged /\ m \in present /\ eeprom[m] = v) => <>(shown[m] = v)
=============================================================================
