-------------------------- MODULE CalibrationWrites --------------------------
(***************************************************************************)
(* How the ST3215 port worker carries out the two calibration commands,    *)
(* reset_calibration and freeze_calibration: one motor after the other, a  *)
(* fixed program of bus requests per motor, some of them fire-and-check    *)
(* ("?"), the others write, trigger, read back and retry.  The serial line *)
(* is a FIFO of replies, so a reply that comes after its request timed out *)
(* is what the next request reads.                                         *)
(*                                                                         *)
(* One step is one request: it is sent, the servo may act on it and        *)
(* answer, the worker takes the oldest reply on the line or times out, and *)
(* on the error paths that drain the line, the drain.                      *)
(***************************************************************************)
EXTENDS Integers, Sequences

CONSTANTS
  NumMotors,      \* MAX_MOTORS_CNT
  Counted,        \* the reset loop's "motor_id <= 6"
  So101Motors,    \* the motor count with a PID preset of its own
  Retries,        \* MAX_RETRIES of the verified writes
  Midpoints,      \* the midpoints an arc may have
  MaxAcc,         \* the largest acceleration the servo's firmware stores
  MaxFaults,      \* bound: lost requests, late and damaged replies
  MaxMissed,      \* bound: replies that come even later than the drain
  MaxStale        \* bound: late replies on the line when the command starts

(* Encoder positions.                                                      *)
MaxPosition == 4095
Positions == 0 .. MaxPosition

ASSUME CalibrationConstants ==
  /\ NumMotors \in Nat \ {0}
  /\ Counted \in Nat
  /\ So101Motors \in Nat
  /\ Retries \in Nat \ {0}
  /\ Midpoints \subseteq Positions
  /\ MaxAcc \in 0 .. 255
  /\ MaxFaults \in Nat
  /\ MaxMissed \in Nat
  /\ MaxStale \in Nat

VARIABLES
  cmd,        \* the command being processed: "reset" or "freeze"
  count,      \* the motors the loop visits are 1 .. count
  midpoint,   \* per motor, the arc's midpoint or NoMidpoint
  present,    \* the motors that are on the bus
  regs,       \* per motor, the registers of the servo
  staged,     \* per motor, the write that waits for an Action
  line,       \* replies on the line, oldest first
  motor,      \* the loop variable
  step,       \* the step of the motor's program
  phase,      \* where a verified write is: "write", "action", "verify"
  attempt,    \* which attempt of the verified write
  verified,   \* the motor's all_verified
  allOk,      \* the loop's all_ok
  status,     \* "running", then the result: "success" or "rejected"
  faults,     \* how many faults the bus had (bounded by MaxFaults)
  missed      \* how many replies outlived a drain (bounded by MaxMissed)

inputs == <<cmd, count, midpoint, present>>
control == <<motor, step, phase, attempt, verified, allOk, status>>
vars == <<inputs, regs, staged, line, control, faults, missed>>

Motors == 1 .. NumMotors
NoMidpoint == -1

-----------------------------------------------------------------------------
(* Registers, with their sizes in bytes; values are unsigned.              *)

(* pid_config_for_motor_count: the SO101 preset or the ElRobot one.        *)
Pid(n) == IF n = So101Motors THEN [p |-> 16, i |-> 8, d |-> 32]
          ELSE [p |-> 16, i |-> 0, d |-> 0]

(* What freeze_calibration stores in a servo of an arm with n motors.      *)
Settings(n) ==
  << [reg |-> "Mode", val |-> 0],
     [reg |-> "PCoef", val |-> Pid(n).p],
     [reg |-> "ICoef", val |-> Pid(n).i],
     [reg |-> "DCoef", val |-> Pid(n).d],
     [reg |-> "ReturnDelay", val |-> 0],
     [reg |-> "MaxTorque", val |-> 500],
     [reg |-> "ProtectionCurrent", val |-> 500],
     [reg |-> "OverloadTorque", val |-> 25] >>

DefaultAccel == 254

SettingsRegisters ==
  {"Mode", "PCoef", "ICoef", "DCoef", "ReturnDelay", "MaxTorque",
   "ProtectionCurrent", "OverloadTorque"}

Registers == SettingsRegisters \cup {"Offset", "Acc", "Lock"}

Size(r) == IF r \in {"MaxTorque", "ProtectionCurrent", "Offset"} THEN 2 ELSE 1

(* A whole-state read of the scan: longer than any single register.        *)
ScanSize == 3

MaxWord == 65535
Values == 0 .. MaxWord

NoWrite == [reg |-> "none", val |-> 0]
Writes == [reg : Registers, val : Values]

(* The position correction: the midpoint goes to 2048, wrapped into the    *)
(* range the servo can store.                                              *)
Correction(mp) ==
  LET c == mp - 2048
      wrapped == IF c > 2047 THEN c - 4096
                 ELSE IF c < -2047 THEN c + 4096 ELSE c
  IN  IF wrapped > 2047 THEN 2047
      ELSE IF wrapped < -2047 THEN -2047 ELSE wrapped

(* Its two little-endian bytes, as the 16-bit word they stand for.         *)
Encoded(c) == IF c < 0 THEN c + 65536 ELSE c
Decoded(w) == IF w > 32767 THEN w - 65536 ELSE w

-----------------------------------------------------------------------------
(* The programs: a step is a request with what happens when it fails.      *)
(*   "strict"  the "?" operator: the motor fails                           *)
(*   "warn"    logged only                                                 *)
(*   "verify"  write, action, read back, up to Retries times               *)
(*   "effort"  the same, but the outcome is not counted                    *)

Req(op, reg, val, mode) == [op |-> op, reg |-> reg, val |-> val, mode |-> mode]

(* The number of settings.                                                *)
K == 8

ResetLength == 7
FreezeLength == K + 6

ResetStep(i) ==
  IF i = 1 THEN Req("write", "Lock", 0, "strict")
  ELSE IF i = 3 THEN Req("reset", "none", 0, "strict")
  ELSE IF i = 5 THEN Req("reg_write", "Offset", 0, "verify")
  ELSE IF i = 6 THEN Req("write", "Lock", 1, "strict")
  ELSE Req("action", "none", 0, "strict")

FreezeStep(i, n, mp) ==
  IF i = 1 THEN Req("reset", "none", 0, "warn")
  ELSE IF i = 2 THEN Req("write", "Lock", 0, "verify")
  ELSE IF i \in 3 .. K + 2
    THEN Req("reg_write", Settings(n)[i - 2].reg, Settings(n)[i - 2].val, "verify")
  ELSE IF i = K + 3 THEN Req("write", "Acc", DefaultAccel, "effort")
  ELSE IF i = K + 4
    THEN Req("reg_write", "Offset", Encoded(Correction(mp)), "verify")
  ELSE IF i = K + 5 THEN Req("write", "Lock", 1, "verify")
  ELSE Req("action", "none", 0, "strict")

Current ==
  IF cmd = "reset" THEN ResetStep(step)
  ELSE FreezeStep(step, count, midpoint[motor])

Last == IF cmd = "reset" THEN ResetLength ELSE FreezeLength

IsVerified == Current.mode \in {"verify", "effort"}

(* The request the current step sends next.                                *)
Request ==
  IF ~IsVerified \/ phase = "write" THEN Current
  ELSE IF phase = "action" THEN Req("action", "none", 0, Current.mode)
  ELSE Req("read", Current.reg, Current.val, Current.mode)

-----------------------------------------------------------------------------
(* The servo (external): Write stores at once, RegWrite stages, Action     *)
(* applies what is staged, Reset reboots and forgets it.  Every request is *)
(* answered; a reply with size 0 is a status.                              *)

Stored(r) == IF r.reg = "Acc" /\ r.val > MaxAcc THEN MaxAcc ELSE r.val

RegsAfter(r) ==
  IF r.op = "write" THEN [regs EXCEPT ![motor][r.reg] = Stored(r)]
  ELSE IF r.op = "action" /\ staged[motor] # NoWrite
    THEN [regs EXCEPT ![motor][staged[motor].reg] = Stored(staged[motor])]
  ELSE regs

StagedAfter(r) ==
  IF r.op = "reg_write"
    THEN [staged EXCEPT ![motor] = [reg |-> r.reg, val |-> r.val]]
  ELSE IF r.op \in {"action", "reset"} THEN [staged EXCEPT ![motor] = NoWrite]
  ELSE staged

ReplyTo(r) ==
  IF r.op = "read"
    THEN [motor |-> motor, size |-> Size(r.reg), val |-> regs[motor][r.reg]]
  ELSE [motor |-> motor, size |-> 0, val |-> 0]

Replies == [motor : Motors, size : {0, 1, 2, ScanSize}, val : Values]

(* Mutant: the length of the reply is not compared.                        *)
AcceptedByMotor(r, reply) == reply.motor = motor

(* A reply is taken for the answer when it names the motor and has the     *)
(* length the request expects; no address or sequence number is compared.  *)
Accepted(r, reply) ==
  /\ reply.motor = motor
  /\ reply.size = IF r.op = "read" THEN Size(r.reg) ELSE 0

-----------------------------------------------------------------------------
(* One request.  sent: it reaches the servo; got: the oldest reply comes   *)
(* in time, in time but damaged (checksum or servo error bits), or not.    *)

OnLine(r, sent) == IF sent THEN Append(line, ReplyTo(r)) ELSE line

Succeeds(r, sent, got) ==
  /\ got = "reply"
  /\ Accepted(r, Head(OnLine(r, sent)))

Faults(r, sent, got) ==
  (IF motor \in present /\ ~sent THEN 1 ELSE 0)
    + (IF got = "damaged" \/ (got = "timeout" /\ OnLine(r, sent) # <<>>)
         THEN 1 ELSE 0)

Exchange(r, sent, got) ==
  /\ status = "running"
  /\ sent => motor \in present
  /\ got # "timeout" => OnLine(r, sent) # <<>>
  /\ faults + Faults(r, sent, got) <= MaxFaults
  /\ faults' = faults + Faults(r, sent, got)
  /\ regs' = IF sent THEN RegsAfter(r) ELSE regs
  /\ staged' = IF sent THEN StagedAfter(r) ELSE staged
  /\ UNCHANGED inputs

Remaining(r, sent, got) ==
  IF got = "timeout" THEN OnLine(r, sent) ELSE Tail(OnLine(r, sent))

NoDrain(r, sent, got) ==
  /\ line' = Remaining(r, sent, got)
  /\ UNCHANGED missed

(* drain_serial: reads until the line is silent; a reply that comes later  *)
(* still stays.                                                            *)
Drain(r, sent, got) ==
  LET rest == Remaining(r, sent, got)
  IN  \/ line' = <<>> /\ UNCHANGED missed
      \/ /\ rest # <<>>
         /\ missed < MaxMissed
         /\ line' = <<rest[Len(rest)]>>
         /\ missed' = missed + 1

-----------------------------------------------------------------------------
(* Control.                                                                *)

(* The motor's program ends with Ok(v) or, for an error, with v = FALSE.   *)
(* The reset loop ignores the motors above Counted, the freeze loop none.  *)
FinishMotor(v) ==
  LET ok == allOk /\ (v \/ (cmd = "reset" /\ motor > Counted))
  IN  /\ allOk' = ok
      /\ step' = 1
      /\ phase' = "write"
      /\ attempt' = 1
      /\ verified' = TRUE
      /\ IF motor < count
           THEN motor' = motor + 1 /\ UNCHANGED status
           ELSE /\ status' = IF ok THEN "success" ELSE "rejected"
                /\ UNCHANGED motor

NextStep(v) ==
  IF step = Last
    THEN FinishMotor(v)
    ELSE /\ step' = step + 1
         /\ phase' = "write"
         /\ attempt' = 1
         /\ verified' = v
         /\ UNCHANGED <<motor, allOk, status>>

(* Mutant: the best-effort write counts like the others.                   *)
RetryCounted ==
  IF attempt < Retries
    THEN /\ attempt' = attempt + 1
         /\ phase' = "write"
         /\ UNCHANGED <<motor, step, verified, allOk, status>>
    ELSE NextStep(FALSE)

(* Mutant: the attempts are not counted.                                   *)
RetryForever ==
  /\ phase' = "write"
  /\ UNCHANGED <<motor, step, attempt, verified, allOk, status>>

(* The attempt failed: try again, or go on with the write unverified.      *)
Retry ==
  IF attempt < Retries
    THEN /\ attempt' = attempt + 1
         /\ phase' = "write"
         /\ UNCHANGED <<motor, step, verified, allOk, status>>
    ELSE NextStep(verified /\ Current.mode = "effort")

(* freeze_calibration without a midpoint returns Ok(true) at once.         *)
NothingToFreeze == cmd = "freeze" /\ step = 2 /\ midpoint[motor] = NoMidpoint

SkipMotor ==
  /\ status = "running"
  /\ NothingToFreeze
  /\ FinishMotor(TRUE)
  /\ UNCHANGED <<inputs, regs, staged, line, faults, missed>>

StrictRequest ==
  \E sent \in BOOLEAN, got \in {"reply", "damaged", "timeout"} :
    /\ ~IsVerified
    /\ Exchange(Current, sent, got)
    /\ NoDrain(Current, sent, got)
    /\ IF Succeeds(Current, sent, got) \/ Current.mode = "warn"
         THEN NextStep(verified)
         ELSE FinishMotor(FALSE)

VerifiedRequest ==
  \E sent \in BOOLEAN, got \in {"reply", "damaged", "timeout"} :
    /\ IsVerified
    /\ ~NothingToFreeze
    /\ phase \in {"write", "action"}
    /\ Exchange(Request, sent, got)
    /\ IF Succeeds(Request, sent, got)
         THEN /\ phase' = IF phase = "write" THEN "action" ELSE "verify"
              /\ UNCHANGED <<motor, step, attempt, verified, allOk, status>>
              /\ NoDrain(Request, sent, got)
         ELSE Retry /\ Drain(Request, sent, got)

ReadBack ==
  \E sent \in BOOLEAN, got \in {"reply", "damaged", "timeout"} :
    /\ IsVerified
    /\ phase = "verify"
    /\ Exchange(Request, sent, got)
    /\ IF Succeeds(Request, sent, got)
         THEN /\ IF Head(OnLine(Request, sent)).val = Current.val
                   THEN NextStep(verified)
                   ELSE Retry
              /\ NoDrain(Request, sent, got)
         ELSE Retry /\ Drain(Request, sent, got)

StaleReplies == [motor : Motors, size : {0, ScanSize}, val : {0}]

Init ==
  /\ cmd \in {"reset", "freeze"}
  /\ count \in IF cmd = "reset" THEN {NumMotors} ELSE Motors
  /\ midpoint \in [Motors -> Midpoints \cup {NoMidpoint}]
  /\ present \in SUBSET Motors
  /\ regs = [m \in Motors |-> [r \in Registers |-> IF r = "Lock" THEN 1 ELSE 7]]
  /\ staged \in [Motors -> {NoWrite, [reg |-> "Offset", val |-> 9]}]
  /\ line \in {<<>>} \cup {<<r>> : r \in IF MaxStale = 0 THEN {} ELSE StaleReplies}
  /\ motor = 1
  /\ step = 1
  /\ phase = "write"
  /\ attempt = 1
  /\ verified = TRUE
  /\ allOk = TRUE
  /\ status = "running"
  /\ faults = Len(line)
  /\ missed = 0

Next == SkipMotor \/ StrictRequest \/ VerifiedRequest \/ ReadBack

Spec == Init /\ [][Next]_vars

(* The worker awaits one bounded request after another.                    *)
FairSpec == Spec /\ WF_vars(Next)
-----------------------------------------------------------------------------
(* Type invariant; the loops stay within their motors, the programs within *)
(* their steps, and a verified write within MAX_RETRIES attempts.          *)
TypeOK ==
  /\ cmd \in {"reset", "freeze"}
  /\ count \in Motors
  /\ midpoint \in [Motors -> Positions \cup {NoMidpoint}]
  /\ present \subseteq Motors
  /\ regs \in [Motors -> [Registers -> Values]]
  /\ staged \in [Motors -> Writes \cup {NoWrite}]
  /\ line \in Seq(Replies)
  /\ motor \in 1 .. count
  /\ step \in 1 .. Last
  /\ phase \in {"write", "action", "verify"}
  /\ attempt \in 1 .. Retries
  /\ verified \in BOOLEAN
  /\ allOk \in BOOLEAN
  /\ status \in {"running", "success", "rejected"}
  /\ faults \in Nat
  /\ missed \in Nat

(* The motors whose outcome decides the command's.                         *)
Decisive ==
  {m \in 1 .. count : IF cmd = "reset" THEN m <= Counted
                      ELSE midpoint[m] # NoMidpoint}

Reset(m) == regs[m]["Offset"] = 0 /\ regs[m]["Lock"] = 1

(* The stored correction shows the midpoint as 2048; midpoint 0 would need *)
(* -2048, which the servo cannot store, and is shown one step off.         *)
Centred(m) ==
  (midpoint[m] - Decoded(regs[m]["Offset"]) + 4096) % 4096
    = IF midpoint[m] = 0 THEN 2049 ELSE 2048

Frozen(m) ==
  /\ \A i \in 1 .. K : regs[m][Settings(count)[i].reg] = Settings(count)[i].val
  /\ Centred(m)
  /\ regs[m]["Lock"] = 1

(* A calibration command answered with success has really been carried     *)
(* out: whatever was lost, late or damaged on the line, every motor that   *)
(* counts holds the values written, and its EEPROM is locked again.        *)
SuccessMeansWritten ==
  status = "success" =>
    \A m \in Decisive : IF cmd = "reset" THEN Reset(m) ELSE Frozen(m)

(* A command is rejected for a reason: a bus fault, a late reply left from *)
(* before, or a motor that is not there.  In particular the best-effort    *)
(* acceleration write, which some firmware clamps, never rejects a freeze. *)
RejectedForAReason ==
  status = "rejected" => faults > 0 \/ ~(Decisive \subseteq present)

(* The command is answered, however badly the bus behaves.                 *)
Terminates == <>(status # "running")
=============================================================================
