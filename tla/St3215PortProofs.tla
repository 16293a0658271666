--------------------------- MODULE St3215PortProofs ---------------------------
(***************************************************************************)
(* Proofs about the ST3215 port, for any number of motors, any time-outs   *)
(* and any mix of commands.                                                *)
(*                                                                         *)
(* The safety properties of St3215Port are inductive together with the     *)
(* type invariant, except three.  For ResultsSettle one must know which    *)
(* entries may say "processing" while a command runs                       *)
(* (ProcessingIsCurrent).  For CacheCoherent one must know that a command  *)
(* that invalidates runs with its cache entries gone (InvalidatedFirst).   *)
(* RegistersAreScanned has an invariant of its own, ShownInv: what a pass  *)
(* shows must survive in the set that replaces last_seen_motors.           *)
(*                                                                         *)
(* That the port implements CommandServer needs no more than types and     *)
(* GoneIsIdle: the refinement mapping sees a command from the moment the   *)
(* callback has taken it, so the send is a stuttering step.                *)
(***************************************************************************)
EXTENDS St3215Port, TLAPS

(* An entry says "processing" only for the command being processed, and    *)
(* only if that command's result will be written to it.                    *)
ProcessingIsCurrent ==
    \A m \in Motors : result[m] = "processing" => pc = "command" /\ m \in Targets(cur)

(* The callback is not halfway when the port is gone.                      *)
GoneIsIdle == pc = "gone" => incoming = NoCommand

(* While a command that invalidates runs, the entries it drops are gone.   *)
InvalidatedFirst == pc = "command" => \A m \in Invalidated(cur) : cache[m] = NoData

IInv ==
    /\ TypeOK /\ FlagHonest /\ GoneIsIdle /\ NoCommandLost
    /\ InvalidatedFirst /\ CacheCoherent /\ ProcessingIsCurrent

(* A freshly opened port satisfies the invariant.                          *)
LEMMA InitIInv == Init => IInv
<1> SUFFICES ASSUME Init PROVE IInv
    BY Zenon
<1> USE MotorsAssumption, TimeAssumption, BoundsAssumption
<1>1. TypeDevice
    <2>1. 0 \in 0 .. MaxFaults /\ 1 \in Versions /\ NoData \in Versions \cup {NoData}
        BY DEF Versions
    <2> QED
        BY <2>1, Zenon DEF Init, TypeDevice
<1>2. TypeCommands
    <2>1. 0 \in 0 .. MaxCommands /\ <<>> \in Seq(Command)
        OBVIOUS
    <2> QED
        BY <2>1, Zenon DEF Init, TypeCommands
<1>3. TypeScan
    <2>1. 0 \in 0 .. Grace + 1 /\ 0 \in 0 .. SearchDelay /\ 0 \in 0 .. SearchGap
        OBVIOUS
    <2>2. NoData \in Versions \cup {NoData}
        BY Zenon
    <2> QED
        BY <2>1, <2>2, Zenon DEF Init, TypeScan
<1>4. TypePublished
    BY Zenon DEF Init, TypePublished
<1>5. FlagHonest /\ GoneIsIdle /\ InvalidatedFirst /\ CacheCoherent /\ ProcessingIsCurrent
    BY Zenon DEF Init, FlagHonest, GoneIsIdle, InvalidatedFirst, CacheCoherent,
        ProcessingIsCurrent
<1>6. NoCommandLost
    BY DEF Init, NoCommandLost, Started, Queued, Open
<1> QED
    BY <1>1, <1>2, <1>3, <1>4, <1>5, <1>6, Zenon DEF IInv, TypeOK

-----------------------------------------------------------------------------
(* Types.                                                                  *)

(* A reply that is charged as a fault leaves the fault count in bounds.    *)
LEMMA ChargeBound ==
    ASSUME TypeDevice, NEW m \in Motors, NEW reply \in Replies(m), Charge(m, reply)
    PROVE  faults' \in 0 .. MaxFaults
BY BoundsAssumption DEF TypeDevice, Replies, Charge

(* What a servo does with a command keeps the device well-typed.           *)
LEMMA ExecuteType ==
    ASSUME TypeDevice, cur \in Command, Execute(cur)
    PROVE  /\ present' \subseteq Motors
           /\ eeprom' \in [Motors -> Versions]
           /\ staged' \in [Motors -> Versions \cup {NoData}]
<1> USE BoundsAssumption DEF TypeDevice, Rewrite
<1>0. cur.motor \in Motors /\ cur.id + 1 \in Versions
    BY DEF Command, Versions
<1>1. CASE cur.kind = "write"
    BY <1>1, Zenon DEF Execute
<1>2. CASE cur.kind = "write_eeprom"
    BY <1>0, <1>2, Zenon DEF Execute
<1>3. CASE cur.kind = "write_id"
    BY <1>0, <1>3 DEF Execute
<1>4. CASE cur.kind = "reg_write"
    BY <1>0, <1>4, Zenon DEF Execute
<1>5. CASE cur.kind = "action"
    BY <1>0, <1>5, Zenon DEF Execute
<1>6. CASE cur.kind = "reset"
    BY <1>0, <1>6 DEF Execute
<1> QED
    BY <1>1, <1>2, <1>3, <1>4, <1>5, <1>6, Zenon DEF Execute

(* Every step keeps the serial line and the servos well-typed.             *)
LEMMA NextTypeDevice == TypeOK /\ [Next]_vars => TypeDevice'
<1> SUFFICES ASSUME TypeOK, [Next]_vars PROVE TypeDevice'
    BY Zenon
<1>0. TypeDevice /\ TypeCommands
    BY Zenon DEF TypeOK
<1> USE BoundsAssumption, <1>0
<1>1. ASSUME NEW m \in Motors, MotorLeaves(m) \/ MotorJoins(m) PROVE TypeDevice'
    BY <1>1 DEF MotorLeaves, MotorJoins, TypeDevice
<1>2. CASE Unplug \/ Replug
    <2>1. faults' \in 0 .. MaxFaults
        BY <1>2 DEF Unplug, Replug, TypeDevice
    <2> QED
        BY <1>2, <2>1, Zenon DEF Unplug, Replug, TypeDevice
<1>3. CASE FinishMotorCommand
    <2>1. cur \in Command /\ cur.motor \in Motors
        BY <1>3, Zenon DEF FinishMotorCommand, TypeCommands, Command
    <2>2. faults' \in 0 .. MaxFaults
        BY <1>3, <2>1, ChargeBound, Zenon DEF FinishMotorCommand
    <2>3. Execute(cur) \/ UNCHANGED <<present, eeprom, staged>>
        BY <1>3, Zenon DEF FinishMotorCommand
    <2>4. plugged' = plugged
        BY <1>3, Zenon DEF FinishMotorCommand
    <2> QED
        BY <2>1, <2>2, <2>3, <2>4, ExecuteType, Zenon DEF TypeDevice
<1>4. CASE FinishSyncWrite
    <2>1. cur.id + 1 \in Versions
        BY <1>4 DEF FinishSyncWrite, TypeCommands, Command, Versions
    <2> QED
        BY <1>4, <2>1 DEF FinishSyncWrite, Rewrite, TypeDevice
<1>5. CASE FinishCalibration
    <2>1. cur.id + 1 \in Versions
        BY <1>5 DEF FinishCalibration, TypeCommands, Command, Versions
    <2> QED
        BY <1>5, <2>1, Zenon DEF FinishCalibration, Rewrite, TypeDevice
<1>6. ASSUME NEW m \in Motors, ReadMotor(m) \/ PingMotor(m) PROVE TypeDevice'
    <2>1. faults' \in 0 .. MaxFaults
        BY <1>6, ChargeBound, Zenon DEF ReadMotor, PingMotor
    <2>2. UNCHANGED device
        BY <1>6, Zenon DEF ReadMotor, PingMotor
    <2> QED
        BY <2>1, <2>2, Zenon DEF TypeDevice, device
<1>7. CASE UNCHANGED <<device, faults>>
    BY <1>7, Zenon DEF TypeDevice, device
<1> QED
    BY <1>1, <1>2, <1>3, <1>4, <1>5, <1>6, <1>7, Zenon
        DEF Next, Environment, Callback, Worker,
        Finish, ScanStep, Tick, CallbackStore, CallbackSend, ReceiveCommand, FinishOther,
        StartScan, AbortScan, EndScan, EndSearch, AnnounceMotor, EndAnnounce, ClosePort,
        OpenPort, vars

(* Every step keeps the command path well-typed: flag, channel, callback   *)
(* and the command in progress.                                            *)
LEMMA NextTypeCommands == TypeOK /\ [Next]_vars => TypeCommands'
<1> SUFFICES ASSUME TypeOK, [Next]_vars PROVE TypeCommands'
    BY Zenon
<1>0. TypeCommands
    BY Zenon DEF TypeOK
<1> USE BoundsAssumption, KindsAssumption, <1>0
<1>1. ASSUME NEW k \in Kinds, NEW m \in Motors, CallbackStore(k, m) PROVE TypeCommands'
    <2>1. submitted' \in 0 .. MaxCommands /\ incoming' \in Command
        BY <1>1 DEF CallbackStore, TypeCommands, Command
    <2> QED
        BY <1>1, <2>1, Zenon DEF CallbackStore, TypeCommands, history
<1>2. CASE CallbackSend
    <2>1. incoming \in Command
        BY <1>2, Zenon DEF CallbackSend, TypeCommands
    <2>2. channel' \in Seq(Command)
        BY <1>2, <2>1 DEF CallbackSend, Deliver, TypeCommands
    <2> QED
        BY <1>2, <2>2, Zenon DEF CallbackSend, TypeCommands, history
<1>3. CASE ReceiveCommand
    <2>1. cur' \in Command /\ channel' \in Seq(Command)
        BY <1>3 DEF ReceiveCommand, TypeCommands
    <2> QED
        BY <1>3, <2>1, Zenon DEF ReceiveCommand, TypeCommands, callback
<1>4. CASE Finish
    <2>1. pc = "command" /\ finished' = cur.id /\ cur' = NoCommand /\ pc' \in {"select", "exited"}
          /\ UNCHANGED <<submitted, incoming, commandWaiting, channel>>
        BY <1>4, Zenon
            DEF Finish, FinishMotorCommand, FinishSyncWrite, FinishCalibration, FinishOther,
            callback
    <2>2. cur.id \in 0 .. MaxCommands
        BY <2>1 DEF TypeCommands, Command
    <2> QED
        BY <2>1, <2>2, Zenon DEF TypeCommands
<1>5. CASE OpenPort
    <2>1. <<>> \in Seq(Command)
        OBVIOUS
    <2> QED
        BY <1>5, <2>1, Zenon DEF OpenPort, TypeCommands, callback
<1>6. CASE /\ pc' \in {"select", "scan", "search", "announce", "exited", "gone"}
           /\ UNCHANGED <<submitted, incoming, commandWaiting, channel, cur, finished>>
    BY <1>6, Zenon DEF TypeCommands
<1>7. CASE UNCHANGED <<submitted, incoming, commandWaiting, channel, pc, cur, finished>>
    BY <1>7, Zenon DEF TypeCommands
<1>8. ASSUME NEW m \in Motors, ReadMotor(m) \/ PingMotor(m) \/ AnnounceMotor(m)
      PROVE TypeCommands'
    BY <1>6, <1>7, <1>8, Zenon DEF ReadMotor, PingMotor, AnnounceMotor, callback, history
<1>9. CASE StartScan \/ AbortScan \/ EndScan \/ EndSearch \/ EndAnnounce \/ ClosePort
    BY <1>6, <1>9, Zenon
        DEF StartScan, AbortScan, EndScan, EndSearch, EndAnnounce, ClosePort, callback,
        history
<1>10. CASE Environment \/ UNCHANGED vars
    BY <1>7, <1>10, Zenon
        DEF Environment, MotorLeaves, MotorJoins, Unplug, Replug, Tick, vars,
        callback, history
<1> QED
    BY <1>1, <1>2, <1>3, <1>4, <1>5, <1>8, <1>9, <1>10, Zenon
        DEF Next, Callback, Worker, ScanStep

(* Every step keeps the scan state well-typed.                             *)
LEMMA NextTypeScan == TypeOK /\ [Next]_vars => TypeScan'
<1> SUFFICES ASSUME TypeOK, [Next]_vars PROVE TypeScan'
    BY Zenon
<1>0. TypeScan /\ TypeCommands /\ TypeDevice
    BY Zenon DEF TypeOK
<1> USE TimeAssumption, <1>0
<1>1. CASE Tick
    <2>1. quiet' \in 0 .. SearchDelay /\ sinceSearch' \in 0 .. SearchGap
        BY <1>1 DEF Tick, TypeScan
    <2>2. missingSince' \in [Motors -> 0 .. Grace + 1]
        BY <1>1 DEF Tick, Older, TypeScan
    <2> QED
        BY <1>1, <2>1, <2>2, Zenon DEF Tick, TypeScan, scan, history
<1>2. CASE ReceiveCommand
    BY <1>2 DEF ReceiveCommand, DropCache, TypeScan, scan
<1>3. CASE FinishMotorCommand
    <2>1. cur.motor \in Motors
        BY <1>3, Zenon DEF FinishMotorCommand, TypeCommands, Command
    <2>2. cache' \in [Motors -> Versions \cup {NoData}]
        BY <1>3, <2>1, Zenon DEF FinishMotorCommand, TypeScan
    <2>3. Execute(cur) \/ bypassed' = bypassed
        BY <1>3, Zenon DEF FinishMotorCommand
    <2>4. bypassed' \subseteq Motors
        BY <2>1, <2>3 DEF Execute, Rewrite, TypeScan
    <2> QED
        BY <1>3, <2>2, <2>4, Zenon DEF FinishMotorCommand, TypeScan, scan, clocks
<1>4. CASE FinishSyncWrite
    <2>1. bypassed' \subseteq Motors
        BY <1>4 DEF FinishSyncWrite, Rewrite, TypeScan, TypeDevice
    <2> QED
        BY <1>4, <2>1, Zenon DEF FinishSyncWrite, TypeScan, scan, clocks
<1>5. CASE FinishCalibration
    <2>1. bypassed' \subseteq Motors
        BY <1>5, Zenon DEF FinishCalibration, Rewrite, TypeScan, TypeDevice
    <2> QED
        BY <1>5, <2>1, Zenon DEF FinishCalibration, TypeScan, scan, clocks
<1>6. CASE StartScan
    <2>1. sinceSearch' \in 0 .. SearchGap
        BY <1>6 DEF StartScan, TypeScan
    <2>2. searching' \in BOOLEAN
        BY <1>6, Zenon DEF StartScan
    <2> QED
        BY <1>6, <2>1, <2>2, Zenon DEF StartScan, TypeScan, history
<1>7. CASE AbortScan
    BY <1>7, Zenon DEF AbortScan, TypeScan, clocks, history
<1>8. ASSUME NEW m \in Motors, ReadMotor(m) PROVE TypeScan'
    <2>1. cache' \in [Motors -> Versions \cup {NoData}]
        BY <1>8 DEF ReadMotor, TypeScan, TypeDevice
    <2>2. seen' \subseteq Motors /\ answered' \subseteq Motors /\ bypassed' \subseteq Motors
        BY <1>8, Zenon DEF ReadMotor, TypeScan
    <2> QED
        BY <1>8, <2>1, <2>2, Zenon DEF ReadMotor, TypeScan, clocks
<1>9. CASE EndScan
    <2>1. missingSince' \in [Motors -> 0 .. Grace + 1]
        BY <1>9 DEF EndScan, FirstMiss, TypeScan
    <2>2. cache' \in [Motors -> Versions \cup {NoData}] /\ bypassed' \subseteq Motors
        BY <1>9, Zenon DEF EndScan, DropCache, TypeScan
    <2>3. /\ lastSeen' \subseteq Motors /\ todo' \subseteq Motors /\ seen' \subseteq Motors
          /\ answered' \subseteq Motors
        BY <1>9, Zenon DEF EndScan, TypeScan
    <2> QED
        BY <1>9, <2>1, <2>2, <2>3, Zenon DEF EndScan, TypeScan, clocks
<1>10. ASSUME NEW m \in Motors, PingMotor(m) \/ AnnounceMotor(m) PROVE TypeScan'
    BY <1>10, Zenon DEF PingMotor, AnnounceMotor, TypeScan, clocks, history
<1>11. CASE EndSearch \/ EndAnnounce
    BY <1>11, Zenon DEF EndSearch, EndAnnounce, TypeScan, clocks, history
<1>12. CASE OpenPort
    <2>1. cache' \in [Motors -> Versions \cup {NoData}] /\ bypassed' \subseteq Motors
        BY <1>12, Zenon DEF OpenPort, DropCache, TypeScan
    <2>2. missingSince' \in [Motors -> 0 .. Grace + 1]
        BY <1>12 DEF OpenPort
    <2>3. quiet' \in 0 .. SearchDelay /\ sinceSearch' \in 0 .. SearchGap
        BY <1>12 DEF OpenPort
    <2> QED
        BY <1>12, <2>1, <2>2, <2>3, Zenon DEF OpenPort, TypeScan
<1>13. CASE UNCHANGED <<lastSeen, missingSince, cache, scan, clocks, answered, bypassed>>
    BY <1>13, Zenon DEF TypeScan, scan, clocks
<1> QED
    BY <1>1, <1>2, <1>3, <1>4, <1>5, <1>6, <1>7, <1>8, <1>9, <1>10, <1>11, <1>12, <1>13, Zenon
    DEF Next, Environment, Callback, Worker, Finish, ScanStep, MotorLeaves, MotorJoins, Unplug,
        Replug, CallbackStore, CallbackSend, FinishOther, ClosePort, vars, history

(* Every step keeps the published bus state well-typed.                    *)
LEMMA NextTypePublished == TypeOK /\ [Next]_vars => TypePublished'
<1> SUFFICES ASSUME TypeOK, [Next]_vars PROVE TypePublished'
    BY Zenon
<1>0. TypePublished /\ TypeCommands /\ TypeScan /\ TypeDevice
    BY Zenon DEF TypeOK
<1> USE <1>0 DEF TypePublished
<1>1. CASE ReceiveCommand
    BY <1>1, Zenon DEF ReceiveCommand, WithResult
<1>2. CASE FinishMotorCommand
    <2>1. cur.motor \in Motors
        BY <1>2, Zenon DEF FinishMotorCommand, TypeCommands, Command
    <2>2. known' \subseteq Motors \cup {BroadcastId}
        BY <1>2, <2>1, Zenon DEF FinishMotorCommand
    <2>3. shown' \in [Motors -> Versions \cup {NoData}]
        BY <1>2, <2>1, Zenon DEF FinishMotorCommand
    <2>4. result' \in [Motors -> {"none", "processing", "success", "failed"}]
        BY <1>2, <2>1, Zenon DEF FinishMotorCommand, WithResult, Outcome
    <2> QED
        BY <2>2, <2>3, <2>4, Zenon
<1>3. CASE FinishSyncWrite
    BY <1>3, Zenon DEF FinishSyncWrite, WithResult, Outcome
<1>4. ASSUME NEW m \in Motors, ReadMotor(m) PROVE TypePublished'
    <2>1. shown' \in [Motors -> Versions \cup {NoData}]
        BY <1>4, Zenon DEF ReadMotor, TypeScan, TypeDevice
    <2> QED
        BY <1>4, <2>1, Zenon DEF ReadMotor
<1>5. CASE EndScan
    BY <1>5, Zenon DEF EndScan, Forget, WithResult
<1>6. ASSUME NEW m \in Motors, PingMotor(m) PROVE TypePublished'
    BY <1>6, Zenon DEF PingMotor
<1>7. CASE ClosePort
    BY <1>7, Zenon DEF ClosePort, Forget, WithResult
<1>8. CASE UNCHANGED published
    BY <1>8, Zenon DEF published
<1> QED
    BY <1>1, <1>2, <1>3, <1>4, <1>5, <1>6, <1>7, <1>8, Zenon
        DEF Next, Environment, Callback,
        Worker, Finish, ScanStep, MotorLeaves, MotorJoins, Unplug, Replug, Tick, CallbackStore,
        CallbackSend, FinishCalibration, FinishOther, StartScan, AbortScan, EndSearch,
        AnnounceMotor, EndAnnounce, OpenPort, vars

(* Every step keeps the types.                                             *)
LEMMA NextTypeOK == TypeOK /\ [Next]_vars => TypeOK'
BY NextTypeDevice, NextTypeCommands, NextTypeScan, NextTypePublished, Zenon DEF TypeOK

-----------------------------------------------------------------------------
(* The command path.                                                       *)

(* The flag stays honest: the callback raises it before it sends, and the  *)
(* worker lowers it with the command it takes.                             *)
LEMMA NextFlagHonest == TypeOK /\ FlagHonest /\ [Next]_vars => FlagHonest'
<1> SUFFICES ASSUME TypeOK, FlagHonest, [Next]_vars PROVE FlagHonest'
    BY Zenon
<1> USE DEF FlagHonest, Open
<1>1. ASSUME NEW k \in Kinds, NEW m \in Motors, CallbackStore(k, m) PROVE FlagHonest'
    <2>1. incoming' # NoCommand
        BY <1>1, BoundsAssumption DEF CallbackStore, NoCommand, TypeOK, TypeCommands
    <2> QED
        BY <2>1, Zenon
<1>2. CASE CallbackSend
    <2>1. pc # "exited" => channel' # <<>>
        BY <1>2 DEF CallbackSend, Deliver, TypeOK, TypeCommands
    <2> QED
        BY <1>2, <2>1, Zenon DEF CallbackSend
<1>3. CASE ReceiveCommand \/ OpenPort
    BY <1>3, Zenon DEF ReceiveCommand, OpenPort
<1>4. CASE UNCHANGED <<commandWaiting, channel, incoming>> /\ (Open' => Open)
    BY <1>4, Zenon
<1>5. CASE Environment \/ Finish \/ StartScan \/ ScanStep \/ ClosePort \/ UNCHANGED vars
    BY <1>4, <1>5, Zenon
        DEF Environment, MotorLeaves, MotorJoins, Unplug, Replug, Tick, Finish,
        FinishMotorCommand, FinishSyncWrite, FinishCalibration, FinishOther, StartScan, ScanStep,
        AbortScan, ReadMotor, EndScan, PingMotor, EndSearch, AnnounceMotor, EndAnnounce,
        ClosePort, vars, callback
<1> QED
    BY <1>1, <1>2, <1>3, <1>5, Zenon DEF Next, Callback, Worker

(* open() waits for the callback before it returns, and a gone port has no *)
(* subscription.                                                           *)
LEMMA NextGoneIsIdle == GoneIsIdle /\ [Next]_vars => GoneIsIdle'
<1> SUFFICES ASSUME GoneIsIdle, [Next]_vars PROVE GoneIsIdle'
    BY Zenon
<1> USE DEF GoneIsIdle
<1>1. ASSUME NEW k \in Kinds, NEW m \in Motors, CallbackStore(k, m) PROVE GoneIsIdle'
    BY <1>1, Zenon DEF CallbackStore
<1>2. CASE CallbackSend \/ ClosePort
    BY <1>2, Zenon DEF CallbackSend, ClosePort, callback
<1>3. CASE ReceiveCommand \/ Finish \/ StartScan \/ OpenPort
    BY <1>3, Zenon
        DEF ReceiveCommand, Finish, FinishMotorCommand, FinishSyncWrite, FinishCalibration,
        FinishOther, StartScan, OpenPort
<1>4. CASE ScanStep
    BY <1>4, Zenon
        DEF ScanStep, AbortScan, ReadMotor, EndScan, PingMotor, EndSearch, AnnounceMotor,
        EndAnnounce
<1>5. CASE Environment \/ UNCHANGED vars
    BY <1>5, Zenon
        DEF Environment, MotorLeaves, MotorJoins, Unplug, Replug, Tick, vars, callback
<1> QED
    BY <1>1, <1>2, <1>3, <1>4, <1>5, Zenon DEF Next, Callback, Worker

(* No step loses, repeats or reorders a command of an open port.           *)
LEMMA NextNoCommandLost ==
    TypeOK /\ GoneIsIdle /\ NoCommandLost /\ [Next]_vars => NoCommandLost'
<1> SUFFICES ASSUME TypeOK, GoneIsIdle, NoCommandLost, [Next]_vars PROVE NoCommandLost'
    BY Zenon
<1>0. /\ submitted \in Nat /\ finished \in Nat /\ channel \in Seq(Command)
      /\ incoming \in Command \cup {NoCommand} /\ finished' \in Nat
    BY NextTypeCommands, BoundsAssumption DEF TypeOK, TypeCommands
<1> USE <1>0 DEF NoCommandLost, Open, Started, Queued, NoCommand
<1>1. ASSUME NEW k \in Kinds, NEW m \in Motors, CallbackStore(k, m) PROVE NoCommandLost'
    BY <1>1 DEF CallbackStore, history
<1>2. CASE CallbackSend
    <2> SUFFICES ASSUME pc \notin {"exited", "gone"} PROVE NoCommandLost'
        BY <1>2, Zenon DEF CallbackSend
    <2>1. channel' = Append(channel, incoming) /\ incoming' = NoCommand /\ incoming # NoCommand
        BY <1>2, Zenon DEF CallbackSend, Deliver
    <2>2. /\ Len(channel') = Len(channel) + 1
          /\ \A i \in 1 .. Len(channel) : channel'[i] = channel[i]
          /\ channel'[Len(channel) + 1] = incoming
        BY <2>1
    <2>3. UNCHANGED <<pc, cur, finished, submitted>>
        BY <1>2, Zenon DEF CallbackSend, history
    <2>4. /\ submitted = Queued + 1 /\ incoming.id = submitted
          /\ \A i \in 1 .. Len(channel) : channel[i].id = Started + i
        BY <2>1, Zenon
    <2>5. Started \in Nat /\ Started' = Started
        BY <2>3
    <2>6. Queued' = Queued + 1
        <3>1. Len(channel) \in Nat
            OBVIOUS
        <3> HIDE DEF Started
        <3> QED
            BY <3>1, <2>2, <2>5
    <2>7. \A i \in 1 .. Len(channel') : channel'[i].id = Started' + i
        <3> SUFFICES ASSUME NEW i \in 1 .. Len(channel') PROVE channel'[i].id = Started + i
            BY <2>5, Zenon
        <3>1. CASE i \in 1 .. Len(channel)
            BY <3>1, <2>2, <2>4, Zenon
        <3>2. CASE i = Len(channel) + 1
            BY <3>2, <2>2, <2>4
        <3> QED
            BY <3>1, <3>2, <2>2
    <2>8. pc' = "command" => cur'.id = Started'
        BY <2>3, Zenon
    <2> HIDE DEF Started, Queued
    <2> QED
        BY <2>1, <2>3, <2>4, <2>6, <2>7, <2>8, Zenon
<1>3. CASE ReceiveCommand
    <2>1. /\ pc = "select" /\ pc' = "command" /\ channel # <<>>
          /\ cur' = channel[1] /\ channel' = Tail(channel)
          /\ UNCHANGED <<submitted, incoming, finished>>
        BY <1>3 DEF ReceiveCommand, callback
    <2>2. /\ Len(channel) >= 1 /\ Len(channel') = Len(channel) - 1
          /\ \A i \in 1 .. Len(channel') : channel'[i] = channel[i + 1] /\ i + 1 \in 1 .. Len(channel)
        BY <2>1
    <2>3. \A i \in 1 .. Len(channel) : channel[i].id = finished + i
        BY <2>1, Zenon
    <2>4. ASSUME NEW i \in 1 .. Len(channel')
          PROVE  channel'[i].id = finished + 1 + i
        <3>1. channel'[i] = channel[i + 1] /\ channel[i + 1].id = finished + (i + 1)
            BY <2>2, <2>3, Zenon
        <3>2. finished + (i + 1) = finished + 1 + i
            OBVIOUS
        <3> QED
            BY <3>1, <3>2, Zenon
    <2>5. cur'.id = finished + 1
        BY <2>1, <2>2, <2>3
    <2>6. Started' = finished + 1 /\ Queued' = Queued
        BY <2>1, <2>2
    <2>7. IF incoming = NoCommand THEN submitted = Queued
          ELSE submitted = Queued + 1 /\ incoming.id = submitted
        BY <2>1, Zenon
    <2> HIDE DEF Started, Queued
    <2> QED
        BY <2>1, <2>4, <2>5, <2>6, <2>7, Zenon
<1>4. CASE Finish
    <2>1. /\ pc = "command" /\ finished' = cur.id /\ pc' \in {"select", "exited"}
          /\ UNCHANGED <<submitted, incoming, commandWaiting, channel>>
        BY <1>4, Zenon
            DEF Finish, FinishMotorCommand, FinishSyncWrite, FinishCalibration, FinishOther,
            callback
    <2> QED
        BY <2>1, Zenon
<1>5. CASE OpenPort
    <2>1. /\ channel' = <<>> /\ finished' = submitted /\ pc' # "command"
          /\ incoming' = NoCommand /\ submitted' = submitted
        BY <1>5, Zenon DEF OpenPort, callback, GoneIsIdle
    <2>2. Started' = submitted /\ Len(channel') = 0
        BY <2>1, Zenon
    <2> QED
        BY <2>1, <2>2
<1>6. CASE /\ UNCHANGED <<submitted, incoming, channel, cur, finished>>
           /\ Open' => Open /\ (pc = "command" <=> pc' = "command")
    BY <1>6, Zenon
<1>7. CASE Environment \/ StartScan \/ ScanStep \/ ClosePort \/ UNCHANGED vars
    BY <1>7, <1>6, Zenon
        DEF Environment, MotorLeaves, MotorJoins, Unplug, Replug, Tick, StartScan, ScanStep,
        AbortScan, ReadMotor, EndScan, PingMotor, EndSearch, AnnounceMotor, EndAnnounce,
        ClosePort, vars, callback, history
<1> QED
    BY <1>1, <1>2, <1>3, <1>4, <1>5, <1>7, Zenon DEF Next, Callback, Worker

-----------------------------------------------------------------------------
(* The EEPROM cache.                                                       *)

(* A command that invalidates finds its cache entries gone until it ends.  *)
LEMMA NextInvalidatedFirst ==
    TypeOK /\ InvalidatedFirst /\ [Next]_vars => InvalidatedFirst'
<1> SUFFICES ASSUME TypeOK, InvalidatedFirst, [Next]_vars PROVE InvalidatedFirst'
    BY Zenon
<1> USE DEF InvalidatedFirst
<1>1. CASE ReceiveCommand
    <2>1. /\ cur' = Head(channel) /\ Head(channel) \in Command
          /\ cache' = [m \in Motors |-> IF m \in Invalidated(cur') THEN NoData ELSE cache[m]]
        BY <1>1 DEF ReceiveCommand, DropCache, TypeOK, TypeCommands
    <2>2. Invalidated(cur') \subseteq Motors
        BY <2>1, Zenon DEF Invalidated, Command
    <2> QED
        BY <2>1, <2>2, Zenon DEF Invalidated
<1>2. CASE pc' # "command"
    BY <1>2, Zenon
<1>3. CASE UNCHANGED <<pc, cur, cache>>
    BY <1>3, Zenon DEF Invalidated
<1> QED
    BY <1>1, <1>2, <1>3, Zenon DEF Next, Environment, Callback, Worker, Finish, ScanStep,
        MotorLeaves, MotorJoins, Unplug, Replug, Tick, CallbackStore, CallbackSend,
        FinishMotorCommand, FinishSyncWrite, FinishCalibration, FinishOther, StartScan,
        AbortScan, ReadMotor, EndScan, PingMotor, EndSearch, AnnounceMotor, EndAnnounce,
        ClosePort, OpenPort, vars, device, scan

(* A rewrite leaves a stale cache entry only where it is recorded as       *)
(* bypassed or where the command had dropped the entry.                    *)
LEMMA RewriteCoherent ==
    ASSUME TypeOK, CacheCoherent, NEW ids, NEW v, Rewrite(ids, v),
           cur.kind \in BypassingKinds \/ \A m \in ids \cap Motors : cache[m] = NoData
    PROVE  \A m \in Motors : cache[m] \in {NoData, eeprom'[m]} \/ m \in bypassed'
    BY Zenon DEF TypeOK, TypeDevice, TypeScan, CacheCoherent, Rewrite

(* Whatever the servo does with a command, a cache entry it makes stale is *)
(* recorded as bypassed.                                                   *)
LEMMA ExecuteCoherent ==
    ASSUME TypeOK, CacheCoherent, InvalidatedFirst, pc = "command", cur \in Command,
           Execute(cur)
    PROVE  \A m \in Motors : cache[m] \in {NoData, eeprom'[m]} \/ m \in bypassed'
<1>1. CASE UNCHANGED <<eeprom, bypassed>>
    BY <1>1, Zenon DEF CacheCoherent
<1>2. CASE cur.kind \in BypassingKinds /\ \E ids, v : Rewrite(ids, v)
    BY <1>2, RewriteCoherent, Zenon
<1>3. CASE cur.kind = "reset" /\ \E v : Rewrite({cur.motor}, v)
    <2>1. cur.motor \in Motors
        BY Zenon DEF Command
    <2>2. cur.motor \in Invalidated(cur)
        BY <1>3, <2>1, Zenon DEF Invalidated
    <2>3. cache[cur.motor] = NoData
        BY <2>2, Zenon DEF InvalidatedFirst
    <2> QED
        BY <1>3, <2>3, RewriteCoherent, Zenon
<1>4. {"write_eeprom", "write_id", "action"} \subseteq BypassingKinds
    BY Zenon DEF BypassingKinds
<1> QED
    BY <1>1, <1>2, <1>3, <1>4, Zenon DEF Execute

(* No step makes a cache entry stale without a write that bypasses it:     *)
(* reset, reg_write and both calibration commands invalidate first.        *)
LEMMA NextCacheCoherent ==
    TypeOK /\ CacheCoherent /\ InvalidatedFirst /\ [Next]_vars => CacheCoherent'
<1> SUFFICES ASSUME TypeOK, CacheCoherent, InvalidatedFirst, [Next]_vars PROVE CacheCoherent'
    BY Zenon
<1> USE DEF CacheCoherent
<1>1. CASE ReceiveCommand
    BY <1>1, Zenon DEF ReceiveCommand, DropCache, device
<1>2. CASE FinishMotorCommand
    <2>1. pc = "command" /\ cur \in Command /\ cur.motor \in Motors
        BY <1>2, Zenon DEF FinishMotorCommand, TypeOK, TypeCommands, Command
    <2>2. Execute(cur) \/ UNCHANGED <<eeprom, bypassed>>
        BY <1>2, Zenon DEF FinishMotorCommand
    <2>3. \A m \in Motors : cache[m] \in {NoData, eeprom'[m]} \/ m \in bypassed'
        BY <2>1, <2>2, ExecuteCoherent, Zenon
    <2>4. \A m \in Motors : cache'[m] \in {NoData, cache[m]}
        BY <1>2, <2>1, Zenon DEF FinishMotorCommand, TypeOK, TypeScan
    <2> QED
        BY <2>3, <2>4, Zenon
<1>3. CASE FinishSyncWrite
    <2>1. cur.kind \in BypassingKinds /\ (\E ids, v : Rewrite(ids, v)) /\ cache' = cache
        BY <1>3, Zenon DEF FinishSyncWrite, BypassingKinds
    <2> QED
        BY <2>1, RewriteCoherent, Zenon
<1>4. CASE FinishCalibration
    <2>1. \A m \in Motors : cache[m] = NoData
        BY <1>4, Zenon DEF FinishCalibration, InvalidatedFirst, Invalidated
    <2>2. cache' = cache
        BY <1>4, Zenon DEF FinishCalibration
    <2> QED
        BY <2>1, <2>2, Zenon
<1>5. ASSUME NEW m \in Motors, ReadMotor(m) PROVE CacheCoherent'
    BY <1>5 DEF ReadMotor, device, TypeOK, TypeDevice, TypeScan
<1>6. CASE EndScan
    BY <1>6, Zenon DEF EndScan, DropCache, device
<1>7. CASE OpenPort
    BY <1>7, Zenon DEF OpenPort, DropCache, device
<1>8. CASE UNCHANGED <<eeprom, cache, bypassed>>
    BY <1>8, Zenon
<1> QED
    BY <1>1, <1>2, <1>3, <1>4, <1>5, <1>6, <1>7, <1>8, Zenon
        DEF Next, Environment, Callback,
        Worker, Finish, ScanStep, MotorLeaves, MotorJoins, Unplug, Replug, Tick, CallbackStore,
        CallbackSend, FinishOther, StartScan, AbortScan, PingMotor, EndSearch, AnnounceMotor,
        EndAnnounce, ClosePort, vars, device, history

-----------------------------------------------------------------------------
(* The published results.                                                  *)

(* Every way out of a command settles the entries it had marked.           *)
LEMMA NextProcessing == TypeOK /\ ProcessingIsCurrent /\ [Next]_vars => ProcessingIsCurrent'
<1> SUFFICES ASSUME TypeOK, ProcessingIsCurrent, [Next]_vars PROVE ProcessingIsCurrent'
    BY Zenon
<1> USE DEF ProcessingIsCurrent, TypeOK, TypePublished
<1>1. CASE ReceiveCommand
    <2>1. /\ cur' = Head(channel) /\ known' = known /\ pc' = "command" /\ pc = "select"
          /\ result' = WithResult(result, Targets(Head(channel)), "processing")
        BY <1>1, Zenon DEF ReceiveCommand
    <2>2. Targets(cur)' = Targets(Head(channel))
        BY <2>1, Zenon DEF Targets
    <2> QED
        BY <2>1, <2>2, Zenon DEF WithResult
<1>2. CASE FinishMotorCommand
    <2>1. cur.motor \in Motors /\ cur.kind \in MotorKinds /\ pc = "command"
        BY <1>2, Zenon DEF FinishMotorCommand, TypeCommands, Command
    <2>2. Targets(cur) = {cur.motor} \cap known
        BY <2>1, Zenon DEF Targets, MotorKinds
    <2>3. \A m \in Motors : result'[m] # "processing"
        BY <1>2, <2>1, <2>2, Zenon DEF FinishMotorCommand, WithResult, Outcome
    <2> QED
        BY <2>3, Zenon
<1>3. CASE FinishSyncWrite
    <2>1. \A m \in Motors : result'[m] # "processing"
        BY <1>3, Zenon DEF FinishSyncWrite, WithResult, Outcome
    <2> QED
        BY <2>1, Zenon
<1>4. CASE FinishCalibration \/ FinishOther
    <2>1. Targets(cur) = {} /\ result' = result
        BY <1>4, Zenon
            DEF FinishCalibration, FinishOther, Targets, MotorKinds, CalibrationKinds, published
    <2> QED
        BY <2>1, Zenon
<1>5. CASE EndScan \/ ClosePort
    BY <1>5, Zenon DEF EndScan, ClosePort, Forget, WithResult
<1>6. CASE pc # "command" /\ UNCHANGED result
    BY <1>6, Zenon
<1>7. CASE UNCHANGED <<pc, cur, known, result>>
    BY <1>7, Zenon DEF Targets
<1>8. CASE Environment \/ Callback \/ UNCHANGED vars
    BY <1>7, <1>8, Zenon
        DEF Environment, Callback, MotorLeaves, MotorJoins, Unplug, Replug, Tick,
        CallbackStore, CallbackSend, vars, published
<1>9. CASE StartScan \/ AbortScan \/ EndSearch \/ EndAnnounce \/ OpenPort
    BY <1>6, <1>9, Zenon
        DEF StartScan, AbortScan, EndSearch, EndAnnounce, OpenPort, published
<1>10. ASSUME NEW m \in Motors, ReadMotor(m) \/ PingMotor(m) \/ AnnounceMotor(m)
       PROVE ProcessingIsCurrent'
    BY <1>6, <1>10, Zenon DEF ReadMotor, PingMotor, AnnounceMotor, published
<1> QED
    BY <1>1, <1>2, <1>3, <1>4, <1>5, <1>8, <1>9, <1>10, Zenon
        DEF Next, Worker, Finish, ScanStep

-----------------------------------------------------------------------------
(* The published registers.                                                *)

(* A motor that is shown is known and scanned; it stays in the set that    *)
(* becomes last_seen_motors when a pass with a search ends, and nothing is *)
(* shown while the port is gone.                                           *)
Shown == {m \in Motors : shown[m] # NoData}

ShownInv ==
    /\ RegistersAreScanned
    /\ pc = "scan" => todo \subseteq lastSeen
    /\ pc \in {"search", "announce"} => Shown \subseteq seen
    /\ pc = "gone" => Shown = {}

(* Every step of the worker keeps it.                                      *)
LEMMA NextShown == TypeOK /\ ShownInv /\ [Next]_vars => ShownInv'
<1> SUFFICES ASSUME TypeOK, ShownInv, [Next]_vars PROVE ShownInv'
    BY Zenon
<1> USE DEF ShownInv, RegistersAreScanned, Shown
<1>0. shown \in [Motors -> Versions \cup {NoData}] /\ lastSeen \subseteq Motors
    BY Zenon DEF TypeOK, TypePublished, TypeScan
<1>1. CASE FinishMotorCommand
    <2>1. cur.motor \in Motors
        BY <1>1, Zenon DEF FinishMotorCommand, TypeOK, TypeCommands, Command
    <2>2. /\ pc' \in {"select", "exited"} /\ lastSeen' = lastSeen
          /\ \A m \in Motors : shown'[m] # NoData => shown[m] # NoData /\ m \in known'
        BY <1>0, <1>1, <2>1, Zenon DEF FinishMotorCommand
    <2> QED
        BY <2>2, Zenon
<1>2. CASE FinishSyncWrite
    BY <1>2, Zenon DEF FinishSyncWrite
<1>3. CASE FinishCalibration \/ FinishOther
    BY <1>3, Zenon DEF FinishCalibration, FinishOther, published
<1>4. ASSUME NEW m \in Motors, ReadMotor(m) PROVE ShownInv'
    BY <1>0, <1>4, Zenon DEF ReadMotor
<1>5. CASE EndScan
    <2>1. /\ \A m \in Motors : shown'[m] # NoData =>
                m \notin Expired /\ shown[m] # NoData /\ m \in known' /\ m \in lastSeen
          /\ seen' = lastSeen \ Expired
        BY <1>5, Zenon DEF EndScan, Forget
    <2>2. /\ lastSeen' \in {lastSeen, lastSeen \ Expired}
          /\ pc' \in {"select", "search"}
        BY <1>5, Zenon DEF EndScan
    <2> QED
        BY <2>1, <2>2, Zenon
<1>6. ASSUME NEW m \in Motors, PingMotor(m) PROVE ShownInv'
    <2>1. /\ \A n \in Motors : shown'[n] # NoData => shown[n] # NoData
          /\ known \subseteq known' /\ UNCHANGED <<lastSeen, seen>>
          /\ pc = "search" /\ pc' \in {"search", "exited"}
        BY <1>0, <1>6, Zenon DEF PingMotor
    <2> QED
        BY <2>1, Zenon
<1>7. ASSUME NEW m \in Motors, AnnounceMotor(m) PROVE ShownInv'
    BY <1>7, Zenon DEF AnnounceMotor, published
<1>8. CASE EndAnnounce
    BY <1>8, Zenon DEF EndAnnounce, published
<1>9. CASE ClosePort
    BY <1>9, Zenon DEF ClosePort, Forget
<1>10. CASE OpenPort
    BY <1>10, Zenon DEF OpenPort, published
<1>11. CASE StartScan \/ AbortScan \/ EndSearch
    BY <1>11, Zenon DEF StartScan, AbortScan, EndSearch, published
<1>12. CASE ReceiveCommand
    BY <1>12, Zenon DEF ReceiveCommand
<1>13. CASE UNCHANGED <<pc, lastSeen, seen, todo, known, shown>>
    BY <1>13, Zenon
<1> QED
    BY <1>1, <1>2, <1>3, <1>4, <1>5, <1>6, <1>7, <1>8, <1>9, <1>10, <1>11, <1>12, <1>13, Zenon
        DEF Next, Environment, Callback, Worker, Finish, ScanStep, MotorLeaves, MotorJoins,
        Unplug, Replug, Tick, CallbackStore, CallbackSend, vars, published, scan

-----------------------------------------------------------------------------
(* The command server.                                                     *)

(* The command that ends has changed no servo it does not address.         *)
LEMMA EndChangesOnly ==
    ASSUME TypeOK, Finish
    PROVE  /\ cur \in Command
           /\ \A m \in Motors \ Addressed[cur] :
                eeprom'[m] = eeprom[m] /\ staged'[m] = staged[m]
<1>1. /\ cur \in Command /\ pc = "command"
      /\ eeprom \in [Motors -> Versions] /\ staged \in [Motors -> Versions \cup {NoData}]
    BY Zenon
        DEF TypeOK, TypeCommands, TypeDevice, Finish, FinishMotorCommand, FinishSyncWrite,
        FinishCalibration, FinishOther
<1>2. CASE FinishMotorCommand
    <2>1. Execute(cur) \/ UNCHANGED <<eeprom, staged>>
        BY <1>2, Zenon DEF FinishMotorCommand
    <2>2. CASE Execute(cur)
        <3>1. cur.kind \in {"write_eeprom", "reg_write", "action", "reset"}
                => Addressed[cur] = {cur.motor}
            BY <1>1, Zenon DEF Addressed
        <3>2. cur.kind = "write_id" => Addressed[cur] = Motors
            BY <1>1, Zenon DEF Addressed
        <3> QED
            BY <1>1, <2>2, <3>1, <3>2, Zenon DEF Execute, Rewrite
    <2> QED
        BY <1>1, <2>1, <2>2, Zenon
<1>3. CASE FinishSyncWrite \/ FinishCalibration
    <2>1. Addressed[cur] = Motors
        BY <1>1, <1>3, Zenon
            DEF Addressed, FinishSyncWrite, FinishCalibration, CalibrationKinds
    <2> QED
        BY <1>1, <2>1, Zenon
<1>4. CASE FinishOther
    BY <1>1, <1>4, Zenon DEF FinishOther, device
<1> QED
    BY <1>1, <1>2, <1>3, <1>4, Zenon DEF Finish

(* A command has a number, so it is not NoCommand.                         *)
LEMMA CommandsAreReal == NoCommand \notin Command
BY BoundsAssumption DEF NoCommand, Command

(* What a queue with one more element begins with.                         *)
LEMMA HeadOfLonger ==
    ASSUME NEW S, NEW q \in Seq(S), NEW e \in S, q # <<>>
    PROVE  /\ Append(q, e) # <<>>
           /\ Head(Append(q, e)) = Head(q)
           /\ Tail(Append(q, e)) = Append(Tail(q), e)
<1>0. ASSUME NEW t \in Seq(S)
      PROVE  /\ \A i \in 1 .. Len(t) : Append(t, e)[i] = t[i]
             /\ Append(t, e)[Len(t) + 1] = e
    OBVIOUS
<1>1. Len(q) \in Nat /\ Len(q) # 0 /\ Tail(q) \in Seq(S) /\ Len(Tail(q)) = Len(q) - 1
    OBVIOUS
<1>2. ASSUME NEW i \in 1 .. Len(q)
      PROVE  Append(Tail(q), e)[i] = Append(q, e)[i + 1]
    <2>1. CASE i < Len(q)
        <3>0. i \in 1 .. Len(Tail(q))
            BY <1>1, <2>1
        <3>1. Append(Tail(q), e)[i] = Tail(q)[i]
            BY <1>0, <1>1, <3>0, Zenon
        <3>2. Tail(q)[i] = q[i + 1]
            BY <1>1, <2>1
        <3>3. i + 1 \in 1 .. Len(q)
            BY <1>1, <2>1
        <3>4. Append(q, e)[i + 1] = q[i + 1]
            BY <1>0, <3>3, Zenon
        <3> QED
            BY <3>1, <3>2, <3>4, Zenon
    <2>2. CASE i = Len(q)
        <3>1. i = Len(Tail(q)) + 1
            BY <1>1, <2>2
        <3>2. Append(Tail(q), e)[i] = e
            BY <1>0, <1>1, <3>1, Zenon
        <3>3. Append(q, e)[i + 1] = e
            BY <1>0, <2>2, Zenon
        <3> QED
            BY <3>2, <3>3, Zenon
    <2>3. i < Len(q) \/ i = Len(q)
        <3>1. ASSUME NEW n \in Nat, NEW k \in 1 .. n PROVE k < n \/ k = n
            OBVIOUS
        <3> QED
            BY <1>1, <3>1, Zenon
    <2> QED
        BY <2>1, <2>2, <2>3, Zenon
<1>3. Tail(Append(q, e)) \in Seq(S) /\ Append(Tail(q), e) \in Seq(S)
    BY <1>1
<1>4. /\ Len(Tail(Append(q, e))) = Len(q) /\ Len(Append(Tail(q), e)) = Len(q)
    BY <1>1
<1>5. \A i \in 1 .. Len(q) : Tail(Append(q, e))[i] = Append(q, e)[i + 1]
    BY <1>1
<1>6. \A i \in 1 .. Len(q) : Tail(Append(q, e))[i] = Append(Tail(q), e)[i]
    BY <1>2, <1>5, Zenon
<1>7. ASSUME NEW s \in Seq(S), NEW t \in Seq(S), Len(s) = Len(t),
             \A i \in 1 .. Len(s) : s[i] = t[i]
      PROVE  s = t
    BY <1>7
<1>8. Tail(Append(q, e)) = Append(Tail(q), e)
    BY <1>3, <1>4, <1>6, <1>7, Zenon
<1> QED
    BY <1>1, <1>8

(* Every step of the port is a step of the command server, or one that it  *)
(* does not see.                                                           *)
LEMMA NextServer ==
    TypeOK /\ GoneIsIdle /\ [Next]_vars => [Server!Next]_(Server!vars)
<1> SUFFICES ASSUME TypeOK, GoneIsIdle, [Next]_vars
             PROVE  [Server!Next]_(Server!vars)
    BY Zenon
<1>0. /\ channel \in Seq(Command) /\ incoming \in Command \cup {NoCommand}
      /\ submitted \in 0 .. MaxCommands
      /\ pc = "command" => cur \in Command
    BY Zenon DEF TypeOK, TypeCommands
<1>1. ASSUME UNCHANGED <<channel, incoming, cur, eeprom, staged>>,
             pc = "command" <=> pc' = "command", Open <=> Open'
      PROVE  UNCHANGED Server!vars
    BY <1>1, Zenon DEF Server!vars, Waiting, Serving, Open
<1>2. ASSUME NEW k \in Kinds, NEW m \in Motors, CallbackStore(k, m)
      PROVE  [Server!Next]_(Server!vars)
    <2>1. incoming' \in Command
        BY <1>0, <1>2, KindsAssumption, BoundsAssumption DEF CallbackStore, Command
    <2>2. /\ incoming = NoCommand /\ incoming' # NoCommand
          /\ UNCHANGED <<channel, pc, cur, eeprom, staged>>
        BY <1>2, <2>1, CommandsAreReal, Zenon DEF CallbackStore, device
    <2>3. Serving' = Serving /\ Open' = Open
        BY <2>2, Zenon DEF Serving, Open
    <2>4. CASE Open
        <3>1. Waiting = channel /\ Waiting' = Append(channel, incoming')
            BY <2>2, <2>3, <2>4, Zenon DEF Waiting
        <3>2. Server!Give(incoming')
            BY <2>2, <2>3, <2>4, <3>1, Zenon DEF Server!Give
        <3> QED
            BY <2>1, <3>2, Zenon DEF Server!Next
    <2>5. CASE ~Open
        BY <2>2, <2>3, <2>5, Zenon DEF Waiting, Server!vars
    <2> QED
        BY <2>4, <2>5, Zenon
<1>3. CASE CallbackSend
    <2>1. /\ incoming # NoCommand /\ incoming' = NoCommand
          /\ UNCHANGED <<pc, cur, eeprom, staged>>
          /\ Open => channel' = Append(channel, incoming)
        BY <1>3, Zenon DEF CallbackSend, Deliver, Open, device
    <2>2. Waiting' = Waiting /\ Serving' = Serving /\ Open' = Open
        BY <2>1, Zenon DEF Waiting, Serving, Open
    <2> QED
        BY <2>1, <2>2, Zenon DEF Server!vars
<1>4. CASE ReceiveCommand
    <2>1. /\ pc = "select" /\ pc' = "command" /\ channel # <<>>
          /\ cur' = Head(channel) /\ channel' = Tail(channel)
          /\ UNCHANGED <<incoming, eeprom, staged>>
        BY <1>4, Zenon DEF ReceiveCommand, callback, device
    <2>2. Open /\ Open' /\ Serving = NoCommand /\ Serving' = Head(channel)
        BY <2>1, Zenon DEF Open, Serving
    <2>3. Waiting # <<>> /\ Serving' = Head(Waiting) /\ Waiting' = Tail(Waiting)
        <3>1. CASE incoming = NoCommand
            BY <2>1, <2>2, <3>1, Zenon DEF Waiting
        <3>2. CASE incoming # NoCommand
            <4>1. incoming \in Command
                BY <1>0, <3>2, Zenon
            <4>2. Waiting = Append(channel, incoming)
                BY <2>2, <3>2, Zenon DEF Waiting
            <4>3. Waiting' = Append(Tail(channel), incoming)
                BY <2>1, <2>2, <3>2, Zenon DEF Waiting
            <4> QED
                BY <1>0, <2>1, <2>2, <4>1, <4>2, <4>3, HeadOfLonger, Zenon
        <3> QED
            BY <3>1, <3>2, Zenon
    <2>4. Server!Begin
        BY <2>1, <2>2, <2>3, Zenon DEF Server!Begin
    <2> QED
        BY <2>4, Zenon DEF Server!Next
<1>5. CASE Finish
    <2>1. /\ pc = "command" /\ pc' \in {"select", "exited"}
          /\ UNCHANGED <<incoming, channel>>
        BY <1>5, Zenon DEF Finish, FinishMotorCommand, FinishSyncWrite, FinishCalibration,
            FinishOther, callback
    <2>2. Serving = cur /\ cur \in Command /\ Serving' = NoCommand /\ Open
        BY <1>0, <2>1, Zenon DEF Serving, Open
    <2>3. \/ Open' = Open /\ Waiting' = Waiting
          \/ Open' = FALSE /\ Waiting' = <<>>
        BY <2>1, <2>2, Zenon DEF Waiting, Open
    <2>4. Server!ChangesOnly(Addressed[Serving])
        BY <1>5, <2>2, EndChangesOnly, Zenon DEF Server!ChangesOnly
    <2>5. Server!End
        BY <2>2, <2>3, <2>4, CommandsAreReal, Zenon DEF Server!End
    <2> QED
        BY <2>5, Zenon DEF Server!Next
<1>6. CASE OpenPort
    <2>1. /\ pc = "gone" /\ pc' = "select" /\ channel' = <<>>
          /\ incoming' = NoCommand /\ UNCHANGED <<eeprom, staged>>
        BY <1>6, Zenon DEF OpenPort, callback, device, GoneIsIdle
    <2>2. /\ Open = FALSE /\ Open' = TRUE /\ Serving' = Serving
          /\ Waiting = <<>> /\ Waiting' = <<>>
        BY <2>1, Zenon DEF Open, Serving, Waiting
    <2>3. Server!Reopen
        BY <2>1, <2>2, Zenon DEF Server!Reopen
    <2> QED
        BY <2>3, Zenon DEF Server!Next
<1>7. ASSUME NEW m \in Motors, PingMotor(m)
      PROVE  [Server!Next]_(Server!vars)
    <2>1. /\ pc = "search" /\ pc' \in {"search", "exited"}
          /\ UNCHANGED <<channel, incoming, cur, eeprom, staged>>
        BY <1>7, Zenon DEF PingMotor, callback, device
    <2>2. CASE pc' = "search"
        BY <1>1, <2>1, <2>2, Zenon DEF Open
    <2>3. CASE pc' = "exited"
        <3>1. /\ Open = TRUE /\ Open' = FALSE /\ Serving = NoCommand
              /\ Serving' = NoCommand /\ Waiting' = <<>>
            BY <2>1, <2>3, Zenon DEF Open, Serving, Waiting
        <3>2. Server!Fail
            BY <2>1, <3>1, Zenon DEF Server!Fail
        <3> QED
            BY <3>2, Zenon DEF Server!Next
    <2> QED
        BY <2>1, <2>2, <2>3, Zenon
<1>8. ASSUME NEW m \in Motors, MotorLeaves(m)
      PROVE  [Server!Next]_(Server!vars)
    <2>1. Server!PowerLost(m)
        BY <1>8, Zenon DEF MotorLeaves, callback, Server!PowerLost, Waiting, Serving, Open
    <2> QED
        BY <2>1, Zenon DEF Server!Next
<1>9. ASSUME NEW m \in Motors, MotorJoins(m) \/ ReadMotor(m) \/ AnnounceMotor(m)
      PROVE  UNCHANGED Server!vars
    <2>1. UNCHANGED <<channel, incoming, pc, cur, eeprom, staged>>
        BY <1>9, Zenon DEF MotorJoins, ReadMotor, AnnounceMotor, callback, device
    <2> QED
        BY <1>1, <2>1, Zenon DEF Open
<1>10. CASE Unplug \/ Replug \/ Tick \/ UNCHANGED vars
    <2>1. UNCHANGED <<channel, incoming, pc, cur, eeprom, staged>>
        BY <1>10, Zenon DEF Unplug, Replug, Tick, vars, callback, device
    <2> QED
        BY <1>1, <2>1, Zenon DEF Open
<1>11. CASE StartScan \/ AbortScan \/ EndScan \/ EndSearch \/ EndAnnounce \/ ClosePort
    <2>1. /\ UNCHANGED <<channel, incoming, cur, eeprom, staged>>
          /\ pc # "command" /\ pc' # "command"
          /\ Open <=> Open'
        BY <1>11, Zenon
            DEF StartScan, AbortScan, EndScan, EndSearch, EndAnnounce, ClosePort,
            callback, device, Open
    <2> QED
        BY <1>1, <2>1, Zenon
<1> QED
    BY <1>2, <1>3, <1>4, <1>5, <1>6, <1>7, <1>8, <1>9, <1>10, <1>11, Zenon
        DEF Next, Environment, Callback, Worker, ScanStep

-----------------------------------------------------------------------------
(* Theorems.                                                               *)

(* The invariant holds in every reachable state of every instance.         *)
THEOREM Inductive == Spec => []IInv
<1>1. IInv /\ [Next]_vars => IInv'
    BY NextTypeOK, NextFlagHonest, NextGoneIsIdle, NextNoCommandLost,
        NextInvalidatedFirst, NextCacheCoherent, NextProcessing, Zenon DEF IInv
<1> QED
    BY <1>1, InitIInv, PTL DEF Spec

(* Type correctness of the port.                                           *)
THEOREM TypeCorrect == Spec => []TypeOK
<1>1. IInv => TypeOK
    BY Zenon DEF IInv
<1> QED
    BY <1>1, Inductive, PTL

(* command_waiting is never left raised with no command behind it, so the  *)
(* scan is never suppressed for good.                                      *)
THEOREM FlagIsHonest == Spec => []FlagHonest
<1>1. IInv => FlagHonest
    BY Zenon DEF IInv
<1> QED
    BY <1>1, Inductive, PTL

(* An open port answers every submitted command once, in order.            *)
THEOREM CommandsAreNotLost == Spec => []NoCommandLost
<1>1. IInv => NoCommandLost
    BY Zenon DEF IInv
<1> QED
    BY <1>1, Inductive, PTL

(* The EEPROM cache is coherent but for the writes that bypass it.         *)
THEOREM CacheIsCoherent == Spec => []CacheCoherent
<1>1. IInv => CacheCoherent
    BY Zenon DEF IInv
<1> QED
    BY <1>1, Inductive, PTL

(* No published last_command stays "processing" after its command.         *)
THEOREM ResultsAreSettled == Spec => []ResultsSettle
<1>1. IInv => ResultsSettle
    BY Zenon DEF IInv, ProcessingIsCurrent, ResultsSettle
<1> QED
    BY <1>1, Inductive, PTL

(* Register contents are shown only for motors that are still scanned:     *)
(* evictions, id changes, aborted passes, searches and a port that closes  *)
(* and opens again leave none behind.                                      *)
THEOREM RegistersStayScanned == Spec => []RegistersAreScanned
<1>1. Init => ShownInv
    BY Zenon DEF Init, ShownInv, RegistersAreScanned, Shown
<1>2. ShownInv => RegistersAreScanned
    BY Zenon DEF ShownInv
<1> QED
    BY <1>1, <1>2, TypeCorrect, NextShown, PTL DEF Spec

(* The port is a command server: whatever the scan, the search, the cache, *)
(* the flag and the two halves of the callback do, commands reach the      *)
(* servos one at a time, unchanged and in the order in which the callback  *)
(* read them, nothing else changes what a servo stores, and no command     *)
(* outlives the port it was given to.                                      *)
THEOREM ImplementsServer == Spec => ServerSpec
<1>1. Init => Server!Init
    BY Zenon DEF Init, Server!Init, Waiting, Serving, Open
<1>2. IInv => TypeOK /\ GoneIsIdle
    BY Zenon DEF IInv
<1> QED
    BY <1>1, <1>2, Inductive, NextServer, PTL DEF Spec, ServerSpec, Server!Spec
=============================================================================
