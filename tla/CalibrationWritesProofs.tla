----------------------- MODULE CalibrationWritesProofs -----------------------
(***************************************************************************)
(* A calibration command answered with success has been carried out, and   *)
(* one that is rejected was rejected for a reason, for any number of       *)
(* motors, retries, bus faults and late replies.                           *)
(*                                                                         *)
(* Success.  Replies carry no address and no sequence number, so a late    *)
(* reply may be taken for the answer to a later request.  Only the length  *)
(* helps: a read-back is answered with data, a write with a status.  The   *)
(* reply to a read-back can be left on the line by a read-back that timed  *)
(* out; then a write of the same motor is due next, which rejects the      *)
(* reply for its length and drains the line.  So no data of the motor is   *)
(* on the line when a read-back is sent (LineOK), and what a read-back     *)
(* returns is what the register holds.  A later action may still apply a   *)
(* write whose own action was lost, but only one of the program's own      *)
(* writes (StagedOK), and each register is written with one value only.    *)
(* Hence what was verified stays (Written), and a motor is left as the     *)
(* command asks (EarlierDone).  The strict steps of a reset are not read   *)
(* back; there the argument is that the line is silent (LineOK).           *)
(*                                                                         *)
(* Rejection.  Without faults every request of a motor that is there is    *)
(* answered and has its effect (CleanOK), so a read-back can only differ   *)
(* where the servo clamps the value.                                       *)
(***************************************************************************)
EXTENDS CalibrationWrites, TLAPS

(* What a result says about the loop that gave it.                         *)
ResultOK ==
  /\ status = "success" => allOk
  /\ status # "running" => motor = count

PhaseOK == phase # "write" => IsVerified

(* The motor's outcome can still make the command a success.               *)
OnTrack == verified /\ (cmd = "reset" => allOk /\ motor <= Counted)

(* The reply to a read-back.                                               *)
Data(x) == x.size \in {1, 2}

(* The replies on the line.  Only motors already served have answered      *)
(* read-backs; such a reply of the present motor is at the head of the     *)
(* line and a write is due, which rejects it for its length; a reset       *)
(* starts with one stale reply at most, and once its offset is verified    *)
(* the line is silent.                                                     *)
LineOK ==
  /\ \A i \in 1 .. Len(line) : Data(line[i]) => line[i].motor <= motor
  /\ verified => \A i \in 1 .. Len(line) :
       Data(line[i]) /\ line[i].motor = motor
         => i = 1 /\ phase = "write" /\ IsVerified
  /\ cmd = "reset" /\ OnTrack /\ step <= 4 => Len(line) <= 1
  /\ cmd = "reset" /\ OnTrack /\ step >= 6 => line = <<>>

CurrentWrite == [reg |-> Current.reg, val |-> Current.val]

SettingWrite(j) == [reg |-> Settings(count)[j].reg, val |-> Settings(count)[j].val]

OffsetWrite ==
  [reg |-> "Offset",
   val |-> IF cmd = "reset" THEN 0 ELSE Encoded(Correction(midpoint[motor]))]

(* The writes the program of the motor stages.                             *)
OwnWrites ==
  {NoWrite, OffsetWrite}
    \cup IF cmd = "freeze" THEN {SettingWrite(j) : j \in 1 .. K} ELSE {}

(* A write staged before the command is replaced or forgotten before it    *)
(* could undo a verified one.                                              *)
StagedOK ==
  OnTrack /\ step >= 3 =>
    \/ staged[motor] \in OwnWrites
    \/ step = 3 /\ phase = "write" /\ line = <<>>

(* What the motor holds after the verified steps it has passed.            *)
Written ==
  IF cmd = "freeze"
    THEN /\ \A j \in 1 .. K :
              j + 2 < step =>
                regs[motor][Settings(count)[j].reg] = Settings(count)[j].val
         /\ step >= K + 5 =>
              regs[motor]["Offset"] = Encoded(Correction(midpoint[motor]))
         /\ step = K + 6 => regs[motor]["Lock"] = 1
    ELSE /\ step >= 6 => regs[motor]["Offset"] = 0
         /\ step = 7 => regs[motor]["Lock"] = 1

(* What the program of a motor leaves behind.                              *)
Done(m) ==
  IF cmd = "reset" THEN Reset(m)
  ELSE /\ \A j \in 1 .. K :
            regs[m][Settings(count)[j].reg] = Settings(count)[j].val
       /\ regs[m]["Offset"] = Encoded(Correction(midpoint[m]))
       /\ regs[m]["Lock"] = 1

EarlierDone ==
  allOk => \A m \in Decisive : m < motor \/ status # "running" => Done(m)

-----------------------------------------------------------------------------
(* The programs, read off step by step.                                    *)

(* The provers keep the bounds of words and positions symbolic.            *)
LEMMA WordFacts == MaxWord \in Nat /\ MaxWord >= 65535 /\ MaxWord < 65536
BY DEF MaxWord

(* The same for positions.                                                 *)
LEMMA PositionFacts == MaxPosition \in Nat /\ MaxPosition >= 4095 /\ MaxPosition < 4096
BY DEF MaxPosition

(* The settings are well-typed, and each register is set once.             *)
LEMMA SettingsFacts ==
  ASSUME NEW n
  PROVE  /\ \A j \in 1 .. K : /\ Settings(n)[j].reg \in SettingsRegisters
                             /\ Settings(n)[j].val \in Values
         /\ \A j, k \in 1 .. K : j # k => Settings(n)[j].reg # Settings(n)[k].reg
<1>1. \A j \in 1 .. 8 : j = 1 \/ j = 2 \/ j = 3 \/ j = 4 \/ j = 5 \/ j = 6
                          \/ j = 7 \/ j = 8
  OBVIOUS
<1>2. Pid(n).p \in Values /\ Pid(n).i \in Values /\ Pid(n).d \in Values
  BY WordFacts DEF Pid, Values
<1>3. /\ Settings(n)[1].val = 0 /\ Settings(n)[2].val = Pid(n).p
      /\ Settings(n)[3].val = Pid(n).i /\ Settings(n)[4].val = Pid(n).d
      /\ Settings(n)[5].val = 0 /\ Settings(n)[6].val = 500
      /\ Settings(n)[7].val = 500 /\ Settings(n)[8].val = 25
  BY Zenon DEF Settings
<1>4. /\ Settings(n)[1].reg = "Mode" /\ Settings(n)[2].reg = "PCoef"
      /\ Settings(n)[3].reg = "ICoef" /\ Settings(n)[4].reg = "DCoef"
      /\ Settings(n)[5].reg = "ReturnDelay" /\ Settings(n)[6].reg = "MaxTorque"
      /\ Settings(n)[7].reg = "ProtectionCurrent"
      /\ Settings(n)[8].reg = "OverloadTorque"
  BY Zenon DEF Settings
<1> HIDE DEF Pid
<1>6. \A j \in 1 .. K : Settings(n)[j].reg \in SettingsRegisters
  BY <1>1, <1>4, Zenon DEF K, SettingsRegisters
<1>7. \A j \in 1 .. K : Settings(n)[j].val \in Values
  <2>1. 0 \in Values /\ 25 \in Values /\ 500 \in Values
    BY WordFacts DEF Values
  <2> QED BY <1>1, <1>2, <1>3, <2>1 DEF K
<1>5. \A j, k \in 1 .. K : j # k => Settings(n)[j].reg # Settings(n)[k].reg
  BY <1>1, <1>4 DEF K
<1> QED BY <1>5, <1>6, <1>7, Zenon

(* The stored word is read back as the correction it stands for.           *)
LEMMA DecodeEncode ==
  ASSUME NEW c \in Int, -2047 <= c, c <= 2047
  PROVE  Decoded(Encoded(c)) = c /\ Encoded(c) \in Values
<1>1. CASE c < 0
  <2>1. Encoded(c) = c + 65536
    BY <1>1 DEF Encoded
  <2> QED BY <1>1, <2>1, WordFacts DEF Decoded, Values
<1>2. CASE c >= 0
  <2>1. Encoded(c) = c
    BY <1>2 DEF Encoded
  <2> QED BY <1>2, <2>1, WordFacts DEF Decoded, Values
<1> QED BY <1>1, <1>2

(* The stored correction is a 16-bit word that centres the midpoint.       *)
LEMMA CorrectionFacts ==
  ASSUME NEW mp \in Positions \cup {NoMidpoint}
  PROVE  /\ Encoded(Correction(mp)) \in Values
         /\ mp # NoMidpoint =>
              (mp - Decoded(Encoded(Correction(mp))) + 4096) % 4096
                = IF mp = 0 THEN 2049 ELSE 2048
<1>1. mp \in Int /\ mp >= -1 /\ mp <= 4095
  BY PositionFacts DEF Positions, NoMidpoint
<1>2. Correction(mp) \in Int /\ -2047 <= Correction(mp) /\ Correction(mp) <= 2047
  BY <1>1 DEF Correction
<1>3. /\ Decoded(Encoded(Correction(mp))) = Correction(mp)
      /\ Encoded(Correction(mp)) \in Values
  BY <1>2, DecodeEncode
<1>4. ASSUME mp > 0 PROVE mp - Correction(mp) + 4096 = 6144
  BY <1>1, <1>4 DEF Correction
<1>5. ASSUME mp = 0 PROVE mp - Correction(mp) + 4096 = 2049
  BY <1>5 DEF Correction
<1>6. ASSUME NEW a \in Int PROVE /\ a = 6144 => a % 4096 = 2048
                                /\ a = 2049 => a % 4096 = 2049
  OBVIOUS
<1>7. mp # NoMidpoint =>
        (mp - Correction(mp) + 4096) % 4096 = IF mp = 0 THEN 2049 ELSE 2048
  <2>1. mp - Correction(mp) + 4096 \in Int
    BY <1>1, <1>2
  <2>2. mp # NoMidpoint => mp = 0 \/ mp > 0
    BY <1>1 DEF NoMidpoint
  <2> QED BY <1>4, <1>5, <1>6, <2>1, <2>2
<1> QED BY <1>3, <1>7

(* The steps of reset_calibration.                                         *)
LEMMA ResetProgram ==
  ASSUME TypeOK, cmd = "reset"
  PROVE  /\ step \in 1 .. 7 /\ Last = 7
         /\ step = 1 => Current = Req("write", "Lock", 0, "strict")
         /\ step = 2 => Current = Req("action", "none", 0, "strict")
         /\ step = 3 => Current = Req("reset", "none", 0, "strict")
         /\ step = 4 => Current = Req("action", "none", 0, "strict")
         /\ step = 5 => Current = Req("reg_write", "Offset", 0, "verify")
         /\ step = 6 => Current = Req("write", "Lock", 1, "strict")
         /\ step = 7 => Current = Req("action", "none", 0, "strict")
BY DEF TypeOK, Last, ResetLength, Current, ResetStep

(* The steps of freeze_calibration.                                        *)
LEMMA FreezeProgram ==
  ASSUME TypeOK, cmd = "freeze"
  PROVE  /\ step \in 1 .. 14 /\ Last = 14 /\ K = 8
         /\ step = 1 => Current = Req("reset", "none", 0, "warn")
         /\ step = 2 => Current = Req("write", "Lock", 0, "verify")
         /\ step \in 3 .. 10 =>
              Current = Req("reg_write", Settings(count)[step - 2].reg,
                            Settings(count)[step - 2].val, "verify")
         /\ step = 11 => Current = Req("write", "Acc", DefaultAccel, "effort")
         /\ step = 12 => Current = Req("reg_write", "Offset",
                                      Encoded(Correction(midpoint[motor])), "verify")
         /\ step = 13 => Current = Req("write", "Lock", 1, "verify")
         /\ step = 14 => Current = Req("action", "none", 0, "strict")
BY DEF TypeOK, Last, FreezeLength, Current, FreezeStep, K

(* What every step has in common.                                          *)
LEMMA StepFacts ==
  ASSUME TypeOK
  PROVE  /\ Current.op \in {"write", "reg_write", "action", "reset"}
         /\ Current.mode \in {"strict", "warn", "verify", "effort"}
         /\ IsVerified => Current.op \in {"write", "reg_write"}
         /\ Current.op \in {"write", "reg_write"} =>
              Current.reg \in Registers /\ Current.val \in Values
         /\ Current.op \notin {"write", "reg_write"} =>
              Current.reg = "none" /\ Current.val = 0
<1>1. motor \in Motors /\ midpoint[motor] \in Positions \cup {NoMidpoint}
  BY CalibrationConstants DEF TypeOK, Motors
<1>2. Encoded(Correction(midpoint[motor])) \in Values
  BY <1>1, CorrectionFacts
<1>3. CASE cmd = "reset"
  BY <1>3, ResetProgram, WordFacts DEF Req, IsVerified, Registers, Values
<1>4. CASE cmd = "freeze"
  <2>1. CASE step \in 3 .. 10
    <3>1. step - 2 \in 1 .. K
      BY <2>1 DEF K
    <3>2. /\ Settings(count)[step - 2].reg \in SettingsRegisters
          /\ Settings(count)[step - 2].val \in Values
      BY <3>1, SettingsFacts, Zenon
    <3> QED BY <1>4, <2>1, <3>2, FreezeProgram DEF Req, IsVerified, Registers
  <2>2. CASE step \notin 3 .. 10
    BY <1>2, <1>4, <2>2, FreezeProgram, WordFacts
       DEF Req, IsVerified, Registers, Values, DefaultAccel
  <2> QED BY <2>1, <2>2, Zenon
<1> QED BY <1>3, <1>4, Zenon DEF TypeOK
-----------------------------------------------------------------------------
(* One request.                                                            *)

(* A request names a register of the servo when it needs one.              *)
Requests ==
  {r \in [op : {"write", "reg_write", "action", "reset", "read"},
          reg : Registers \cup {"none"}, val : Values,
          mode : {"strict", "warn", "verify", "effort"}] :
     r.op \in {"write", "reg_write", "read"} => r.reg \in Registers}

(* The worker sends only such requests.                                    *)
LEMMA RequestType ==
  ASSUME TypeOK
  PROVE  /\ Current \in Requests
         /\ IsVerified => Request \in Requests
<1>1. 0 \in Values
  BY WordFacts DEF Values
<1>2. Current = [op |-> Current.op, reg |-> Current.reg, val |-> Current.val,
                 mode |-> Current.mode]
  <2>1. CASE cmd = "reset"
    BY <2>1, ResetProgram DEF Req
  <2>2. CASE cmd = "freeze"
    BY <2>2, FreezeProgram, SMTT(20) DEF Req
  <2> QED BY <2>1, <2>2, Zenon DEF TypeOK
<1>3. Current \in Requests
  BY <1>1, <1>2, StepFacts, Zenon DEF Requests
<1>4. ASSUME IsVerified PROVE Request \in Requests
  BY <1>1, <1>3, <1>4, StepFacts, Zenon DEF Requests, Request, Req
<1> QED BY <1>3, <1>4

(* The reply to a request is a reply.                                      *)
LEMMA ReplyType ==
  ASSUME TypeOK, NEW r \in Requests
  PROVE  /\ motor \in Motors
         /\ ReplyTo(r) \in Replies
         /\ ReplyTo(r).motor = motor
<1>1. motor \in Motors
  BY CalibrationConstants DEF TypeOK, Motors
<1>2. 0 \in Values
  BY WordFacts DEF Values
<1>3. Size(r.reg) \in {0, 1, 2, ScanSize}
  BY Zenon DEF Size
<1>4. r.op = "read" => regs[motor][r.reg] \in Values
  BY <1>1 DEF TypeOK, Requests
<1> QED BY <1>1, <1>2, <1>3, <1>4, Zenon DEF ReplyTo, Replies

(* A request leaves the state well-typed and touches only its motor.       *)
LEMMA ExchangeType ==
  ASSUME TypeOK, NEW r \in Requests, NEW sent \in BOOLEAN,
         NEW got \in {"reply", "damaged", "timeout"}, Exchange(r, sent, got)
  PROVE  /\ regs' \in [Motors -> [Registers -> Values]]
         /\ staged' \in [Motors -> Writes \cup {NoWrite}]
         /\ faults' \in Nat
         /\ inputs' = inputs
         /\ OnLine(r, sent) \in Seq(Replies)
         /\ Remaining(r, sent, got) \in Seq(Replies)
         /\ \A m \in Motors : m # motor => regs'[m] = regs[m]
<1>1. motor \in Motors /\ ReplyTo(r) \in Replies
  BY ReplyType, Zenon
<1>2. /\ r.op \in {"write", "reg_write"} => [reg |-> r.reg, val |-> r.val] \in Writes
      /\ r.op \in {"write", "reg_write"} => r.reg \in Registers /\ Stored(r) \in Values
  BY CalibrationConstants, WordFacts DEF Requests, Writes, Stored, Values
<1>3. ASSUME staged[motor] # NoWrite
      PROVE  staged[motor].reg \in Registers /\ Stored(staged[motor]) \in Values
  <2>1. staged[motor] \in Writes
    BY <1>1, <1>3, Zenon DEF TypeOK
  <2> QED BY <2>1, CalibrationConstants, WordFacts DEF Writes, Stored, Values
<1>4. RegsAfter(r) \in [Motors -> [Registers -> Values]]
  BY <1>1, <1>2, <1>3, Zenon DEF RegsAfter, TypeOK
<1>5. \A m \in Motors : m # motor => RegsAfter(r)[m] = regs[m]
  BY <1>1, Zenon DEF RegsAfter, TypeOK
<1>6. StagedAfter(r) \in [Motors -> Writes \cup {NoWrite}]
  BY <1>1, <1>2, Zenon DEF StagedAfter, TypeOK
<1>7. faults' \in Nat
  BY DEF Exchange, Faults, TypeOK
<1>8. OnLine(r, sent) \in Seq(Replies)
  BY <1>1 DEF OnLine, TypeOK
<1>9. Remaining(r, sent, got) \in Seq(Replies)
  BY <1>8 DEF Remaining, Exchange
<1>10. /\ regs' = IF sent THEN RegsAfter(r) ELSE regs
       /\ staged' = IF sent THEN StagedAfter(r) ELSE staged
       /\ inputs' = inputs
  BY Zenon DEF Exchange
<1>11. /\ regs' \in [Motors -> [Registers -> Values]]
       /\ \A m \in Motors : m # motor => regs'[m] = regs[m]
  BY <1>4, <1>5, <1>10, Zenon DEF TypeOK
<1>12. staged' \in [Motors -> Writes \cup {NoWrite}]
  BY <1>6, <1>10, Zenon DEF TypeOK
<1> QED BY <1>7, <1>8, <1>9, <1>10, <1>11, <1>12, Zenon

(* On a silent line an accepted reply is the reply to this request: the    *)
(* servo has acted on it, and the line is silent again.                    *)
LEMMA GenuineReply ==
  ASSUME TypeOK, NEW r \in Requests, NEW sent \in BOOLEAN,
         NEW got \in {"reply", "damaged", "timeout"}, Exchange(r, sent, got),
         line = <<>>, Succeeds(r, sent, got)
  PROVE  /\ sent
         /\ Head(OnLine(r, sent)) = ReplyTo(r)
         /\ Remaining(r, sent, got) = <<>>
<1>1. got = "reply"
  BY Zenon DEF Succeeds
<1>2. sent
  BY <1>1, Zenon DEF Exchange, OnLine
<1>3. ReplyTo(r) \in Replies
  BY ReplyType, Zenon
<1>4. OnLine(r, sent) = <<ReplyTo(r)>>
  BY <1>2, <1>3 DEF OnLine
<1>5. ASSUME NEW x \in Replies PROVE Head(<<x>>) = x /\ Tail(<<x>>) = <<>>
  OBVIOUS
<1> QED BY <1>1, <1>2, <1>3, <1>4, <1>5, Zenon DEF Remaining

(* A read-back is only ever answered by its own reply, because no reply of *)
(* its length is on the line before.                                       *)
LEMMA ReadBackInSync ==
  ASSUME TypeOK, NEW r \in Requests, NEW sent \in BOOLEAN,
         NEW got \in {"reply", "damaged", "timeout"}, Exchange(r, sent, got),
         r.op = "read", Succeeds(r, sent, got),
         \A i \in 1 .. Len(line) : Data(line[i]) => line[i].motor # motor
  PROVE  line = <<>>
<1>1. Size(r.reg) \in {1, 2}
  BY Zenon DEF Size
<1>2. /\ Head(OnLine(r, sent)).size = Size(r.reg)
      /\ Head(OnLine(r, sent)).motor = motor
  BY Zenon DEF Succeeds, Accepted
<1>3. SUFFICES ASSUME line # <<>> PROVE FALSE
  BY Zenon
<1>4. line \in Seq(Replies) /\ ReplyTo(r) \in Replies
  BY ReplyType, Zenon DEF TypeOK
<1>5. Len(line) \in Nat /\ Len(line) >= 1 /\ Head(line) = line[1]
  BY <1>3, <1>4
<1>6. Head(OnLine(r, sent)) = line[1]
  BY <1>3, <1>4, <1>5 DEF OnLine
<1>7. Data(line[1]) => line[1].motor # motor
  BY <1>5
<1> QED BY <1>1, <1>2, <1>6, <1>7, Zenon DEF Data
-----------------------------------------------------------------------------
(* Control.                                                                *)

ControlOK ==
  /\ motor \in 1 .. count
  /\ step \in 1 .. Last
  /\ phase \in {"write", "action", "verify"}
  /\ attempt \in 1 .. Retries
  /\ verified \in BOOLEAN
  /\ allOk \in BOOLEAN
  /\ status \in {"running", "success", "rejected"}

(* Ending a motor's program goes to the next motor or gives the result.    *)
LEMMA FinishControl ==
  ASSUME TypeOK, status = "running", NEW v \in BOOLEAN, FinishMotor(v),
         inputs' = inputs
  PROVE  ControlOK' /\ ResultOK' /\ PhaseOK'
<1> DEFINE ok == allOk /\ (v \/ (cmd = "reset" /\ motor > Counted))
<1>1. /\ allOk' = ok
      /\ step' = 1 /\ phase' = "write" /\ attempt' = 1 /\ verified' = TRUE
      /\ IF motor < count
           THEN motor' = motor + 1 /\ status' = status
           ELSE status' = (IF ok THEN "success" ELSE "rejected") /\ motor' = motor
  BY Zenon DEF FinishMotor
<1>2. cmd' = cmd /\ count' = count
  BY Zenon DEF inputs
<1>3. count \in Nat /\ motor \in 1 .. count
  BY CalibrationConstants DEF TypeOK, Motors
<1>4. ok \in BOOLEAN
  BY Zenon DEF TypeOK
<1> HIDE DEF ok
<1>5. motor' \in 1 .. count'
  BY <1>1, <1>2, <1>3
<1>6. step' \in 1 .. Last' /\ attempt' \in 1 .. Retries
  BY <1>1, <1>2, CalibrationConstants DEF Last, ResetLength, FreezeLength, K, TypeOK
<1>7. status' \in {"running", "success", "rejected"}
  BY <1>1, Zenon
<1>8. status' = "success" => allOk'
  BY <1>1, Zenon
<1>9. status' # "running" => motor' = count'
  BY <1>1, <1>2, <1>3
<1>10. ControlOK'
  BY <1>1, <1>4, <1>5, <1>6, <1>7, Zenon DEF ControlOK
<1> QED BY <1>1, <1>8, <1>9, <1>10, Zenon DEF ResultOK, PhaseOK

(* Going to the next step.                                                 *)
LEMMA NextStepControl ==
  ASSUME TypeOK, status = "running", NEW v \in BOOLEAN, NextStep(v),
         inputs' = inputs
  PROVE  ControlOK' /\ ResultOK' /\ PhaseOK'
<1>1. CASE step = Last
  BY <1>1, FinishControl, Zenon DEF NextStep
<1>2. CASE step # Last
  <2>1. /\ step' = step + 1 /\ phase' = "write" /\ attempt' = 1 /\ verified' = v
        /\ motor' = motor /\ allOk' = allOk /\ status' = status
    BY <1>2, Zenon DEF NextStep
  <2>2. cmd' = cmd /\ count' = count
    BY Zenon DEF inputs
  <2>3. step' \in 1 .. Last' /\ attempt' \in 1 .. Retries /\ motor' \in 1 .. count'
    BY <1>2, <2>1, <2>2, CalibrationConstants
       DEF Last, ResetLength, FreezeLength, K, TypeOK
  <2>4. ControlOK'
    BY <2>1, <2>3, Zenon DEF ControlOK, TypeOK
  <2> QED BY <2>1, <2>4, Zenon DEF ResultOK, PhaseOK
<1> QED BY <1>1, <1>2, Zenon

(* Trying again.                                                           *)
LEMMA RetryControl ==
  ASSUME TypeOK, status = "running", Retry, inputs' = inputs
  PROVE  ControlOK' /\ ResultOK' /\ PhaseOK'
<1>1. CASE attempt < Retries
  <2>1. /\ attempt' = attempt + 1 /\ phase' = "write"
        /\ motor' = motor /\ step' = step /\ verified' = verified
        /\ allOk' = allOk /\ status' = status
    BY <1>1, Zenon DEF Retry
  <2>2. cmd' = cmd /\ count' = count
    BY Zenon DEF inputs
  <2>3. step' \in 1 .. Last' /\ attempt' \in 1 .. Retries /\ motor' \in 1 .. count'
    BY <1>1, <2>1, <2>2, CalibrationConstants DEF Last, TypeOK
  <2>4. ControlOK'
    BY <2>1, <2>3, Zenon DEF ControlOK, TypeOK
  <2> QED BY <2>1, <2>4, Zenon DEF ResultOK, PhaseOK
<1>2. CASE ~(attempt < Retries)
  <2>1. (verified /\ Current.mode = "effort") \in BOOLEAN
    BY Zenon DEF TypeOK
  <2>2. NextStep(verified /\ Current.mode = "effort")
    BY <1>2, Zenon DEF Retry
  <2> QED BY <2>1, <2>2, NextStepControl, Zenon
<1> QED BY <1>1, <1>2, Zenon

(* A step of the program leaves its motor, or its step, or neither.        *)
LEMMA SameProgram ==
  ASSUME inputs' = inputs, motor' = motor, step' = step
  PROVE  Current' = Current /\ IsVerified' = IsVerified /\ Last' = Last
<1>1. cmd' = cmd /\ count' = count /\ midpoint' = midpoint
  BY Zenon DEF inputs
<1>2. Current' = Current
  BY <1>1, Zenon DEF Current, ResetStep, FreezeStep
<1> QED BY <1>1, <1>2, Zenon DEF IsVerified, Last

(* A drain leaves at most the last reply.                                  *)
LEMMA DrainFacts ==
  ASSUME TypeOK, NEW r \in Requests, NEW sent \in BOOLEAN,
         NEW got \in {"reply", "damaged", "timeout"}, Exchange(r, sent, got),
         Drain(r, sent, got)
  PROVE  /\ line' \in Seq(Replies)
         /\ missed' \in Nat
         /\ Remaining(r, sent, got) = <<>> => line' = <<>>
         /\ \A i \in 1 .. Len(line') :
              /\ i = 1
              /\ \E j \in 1 .. Len(Remaining(r, sent, got)) :
                   line'[i] = Remaining(r, sent, got)[j]
<1> DEFINE rest == Remaining(r, sent, got)
<1>1. rest \in Seq(Replies)
  BY ExchangeType, Zenon
<1> HIDE DEF rest
<1>2. CASE line' = <<>> /\ UNCHANGED missed
  BY <1>2 DEF TypeOK
<1>3. ASSUME rest # <<>>, missed < MaxMissed, line' = <<rest[Len(rest)]>>,
             missed' = missed + 1
      PROVE  /\ line' \in Seq(Replies) /\ missed' \in Nat
             /\ \A i \in 1 .. Len(line') :
                  i = 1 /\ \E j \in 1 .. Len(rest) : line'[i] = rest[j]
  <2>1. Len(rest) \in 1 .. Len(rest) /\ rest[Len(rest)] \in Replies
    BY <1>1, <1>3
  <2>2. Len(line') = 1 /\ line'[1] = rest[Len(rest)] /\ line' \in Seq(Replies)
    BY <1>3, <2>1
  <2> QED BY <1>3, <2>1, <2>2, CalibrationConstants DEF TypeOK
<1>4. \/ line' = <<>> /\ UNCHANGED missed
      \/ /\ rest # <<>> /\ missed < MaxMissed
         /\ line' = <<rest[Len(rest)]>> /\ missed' = missed + 1
  BY Zenon DEF Drain, rest
<1> QED BY <1>2, <1>3, <1>4, Zenon DEF rest

(* The state stays well-typed.                                             *)
LEMMA NextControl ==
  ASSUME TypeOK, ResultOK, PhaseOK, Next
  PROVE  TypeOK' /\ ResultOK' /\ PhaseOK'
<1>0. ASSUME ControlOK', inputs' = inputs,
             regs' \in [Motors -> [Registers -> Values]],
             staged' \in [Motors -> Writes \cup {NoWrite}],
             line' \in Seq(Replies), faults' \in Nat, missed' \in Nat
      PROVE  TypeOK'
  BY <1>0, Zenon DEF TypeOK, ControlOK, inputs
<1>1. CASE SkipMotor
  <2>1. /\ status = "running" /\ FinishMotor(TRUE) /\ inputs' = inputs
        /\ UNCHANGED <<regs, staged, line, faults, missed>>
    BY <1>1, Zenon DEF SkipMotor, inputs
  <2>2. ControlOK' /\ ResultOK' /\ PhaseOK'
    BY <2>1, FinishControl, Zenon
  <2> QED BY <1>0, <2>1, <2>2, Zenon DEF TypeOK
<1>2. CASE StrictRequest
  <2>1. PICK sent \in BOOLEAN, got \in {"reply", "damaged", "timeout"} :
          /\ Exchange(Current, sent, got)
          /\ NoDrain(Current, sent, got)
          /\ IF Succeeds(Current, sent, got) \/ Current.mode = "warn"
               THEN NextStep(verified)
               ELSE FinishMotor(FALSE)
    BY <1>2, Zenon DEF StrictRequest
  <2>2. /\ regs' \in [Motors -> [Registers -> Values]]
        /\ staged' \in [Motors -> Writes \cup {NoWrite}]
        /\ faults' \in Nat
        /\ inputs' = inputs
        /\ Remaining(Current, sent, got) \in Seq(Replies)
    BY <2>1, ExchangeType, RequestType, Zenon
  <2>3. status = "running" /\ verified \in BOOLEAN
    BY <2>1, Zenon DEF Exchange, TypeOK
  <2>4. ControlOK' /\ ResultOK' /\ PhaseOK'
    BY <2>1, <2>2, <2>3, NextStepControl, FinishControl, Zenon
  <2>5. line' \in Seq(Replies) /\ missed' \in Nat
    BY <2>1, <2>2, Zenon DEF NoDrain, TypeOK
  <2> QED BY <1>0, <2>2, <2>4, <2>5, Zenon
<1>3. CASE VerifiedRequest
  <2>1. PICK sent \in BOOLEAN, got \in {"reply", "damaged", "timeout"} :
          /\ IsVerified
          /\ phase \in {"write", "action"}
          /\ Exchange(Request, sent, got)
          /\ IF Succeeds(Request, sent, got)
               THEN /\ phase' = IF phase = "write" THEN "action" ELSE "verify"
                    /\ UNCHANGED <<motor, step, attempt, verified, allOk, status>>
                    /\ NoDrain(Request, sent, got)
               ELSE Retry /\ Drain(Request, sent, got)
    BY <1>3 DEF VerifiedRequest
  <2>2. Request \in Requests
    BY <2>1, RequestType, Zenon
  <2>3. /\ regs' \in [Motors -> [Registers -> Values]]
        /\ staged' \in [Motors -> Writes \cup {NoWrite}]
        /\ faults' \in Nat
        /\ inputs' = inputs
        /\ Remaining(Request, sent, got) \in Seq(Replies)
    BY <2>1, <2>2, ExchangeType, Zenon
  <2>4. status = "running"
    BY <2>1, Zenon DEF Exchange
  <2>5. CASE Succeeds(Request, sent, got)
    <3>1. /\ phase' \in {"action", "verify"}
          /\ motor' = motor /\ step' = step /\ attempt' = attempt
          /\ verified' = verified /\ allOk' = allOk /\ status' = status
          /\ line' = Remaining(Request, sent, got) /\ missed' = missed
      BY <2>1, <2>5, Zenon DEF NoDrain
    <3>2. IsVerified' = IsVerified /\ Last' = Last /\ count' = count
      BY <2>3, <3>1, SameProgram, Zenon DEF inputs
    <3>3. ControlOK'
      BY <3>1, <3>2, Zenon DEF ControlOK, TypeOK
    <3>4. ResultOK' /\ PhaseOK'
      BY <2>1, <2>4, <3>1, <3>2, Zenon DEF ResultOK, PhaseOK
    <3>5. line' \in Seq(Replies) /\ missed' \in Nat
      BY <2>3, <3>1, Zenon DEF TypeOK
    <3> QED BY <1>0, <2>3, <3>3, <3>4, <3>5, Zenon
  <2>6. CASE ~Succeeds(Request, sent, got)
    <3>1. Retry /\ Drain(Request, sent, got)
      BY <2>1, <2>6, Zenon
    <3>2. ControlOK' /\ ResultOK' /\ PhaseOK'
      BY <2>3, <2>4, <3>1, RetryControl, Zenon
    <3>3. line' \in Seq(Replies) /\ missed' \in Nat
      BY <2>1, <2>2, <3>1, DrainFacts, Zenon
    <3> QED BY <1>0, <2>3, <3>2, <3>3, Zenon
  <2> QED BY <2>5, <2>6, Zenon
<1>4. CASE ReadBack
  <2>1. PICK sent \in BOOLEAN, got \in {"reply", "damaged", "timeout"} :
          /\ IsVerified
          /\ Exchange(Request, sent, got)
          /\ IF Succeeds(Request, sent, got)
               THEN /\ IF Head(OnLine(Request, sent)).val = Current.val
                         THEN NextStep(verified)
                         ELSE Retry
                    /\ NoDrain(Request, sent, got)
               ELSE Retry /\ Drain(Request, sent, got)
    BY <1>4, Zenon DEF ReadBack
  <2>2. Request \in Requests
    BY <2>1, RequestType, Zenon
  <2>3. /\ regs' \in [Motors -> [Registers -> Values]]
        /\ staged' \in [Motors -> Writes \cup {NoWrite}]
        /\ faults' \in Nat
        /\ inputs' = inputs
        /\ Remaining(Request, sent, got) \in Seq(Replies)
    BY <2>1, <2>2, ExchangeType, Zenon
  <2>4. status = "running" /\ verified \in BOOLEAN
    BY <2>1, Zenon DEF Exchange, TypeOK
  <2>5. NextStep(verified) \/ Retry
    BY <2>1, Zenon
  <2>6. ControlOK' /\ ResultOK' /\ PhaseOK'
    BY <2>3, <2>4, <2>5, NextStepControl, RetryControl, Zenon
  <2>7. NoDrain(Request, sent, got) \/ Drain(Request, sent, got)
    BY <2>1, Zenon
  <2>8. line' \in Seq(Replies) /\ missed' \in Nat
    BY <2>1, <2>2, <2>3, <2>7, DrainFacts, Zenon DEF NoDrain, TypeOK
  <2> QED BY <1>0, <2>3, <2>6, <2>8, Zenon
<1> QED BY <1>1, <1>2, <1>3, <1>4, Zenon DEF Next
-----------------------------------------------------------------------------
(* What the line holds after a request: old replies, the head consumed     *)
(* unless the request timed out, and the new one.                          *)
LEMMA RemainingFacts ==
  ASSUME TypeOK, NEW r \in Requests, NEW sent \in BOOLEAN,
         NEW got \in {"reply", "damaged", "timeout"}, Exchange(r, sent, got)
  PROVE  /\ \A i \in 1 .. Len(Remaining(r, sent, got)) :
              \/ Remaining(r, sent, got)[i] = ReplyTo(r)
              \/ \E j \in 1 .. Len(line) :
                   /\ Remaining(r, sent, got)[i] = line[j]
                   /\ got # "timeout" => j # 1
         /\ got # "timeout" => Len(Remaining(r, sent, got)) <= Len(line)
         /\ got # "timeout" /\ ~sent =>
              line # <<>> /\ Len(Remaining(r, sent, got)) = Len(line) - 1
         /\ got = "timeout" /\ ~sent => Remaining(r, sent, got) = line
<1>1. line \in Seq(Replies) /\ ReplyTo(r) \in Replies /\ Len(line) \in Nat
  BY ReplyType DEF TypeOK
<1>2. OnLine(r, sent) \in Seq(Replies) /\ Len(OnLine(r, sent)) \in Nat
  BY <1>1 DEF OnLine
<1>3. /\ \A i \in 1 .. Len(OnLine(r, sent)) :
           OnLine(r, sent)[i] = ReplyTo(r) \/ (i \in 1 .. Len(line)
                                              /\ OnLine(r, sent)[i] = line[i])
      /\ Len(OnLine(r, sent)) = Len(line) + (IF sent THEN 1 ELSE 0)
      /\ ~sent => OnLine(r, sent) = line
  BY <1>1 DEF OnLine
<1>4. CASE got = "timeout"
  BY <1>3, <1>4, Zenon DEF Remaining
<1>5. CASE got # "timeout"
  <2>1. OnLine(r, sent) # <<>>
    BY <1>5, Zenon DEF Exchange
  <2>2. /\ Remaining(r, sent, got) = Tail(OnLine(r, sent))
        /\ Len(Tail(OnLine(r, sent))) = Len(OnLine(r, sent)) - 1
        /\ \A i \in 1 .. Len(Tail(OnLine(r, sent))) :
             Tail(OnLine(r, sent))[i] = OnLine(r, sent)[i + 1]
    BY <1>2, <1>5, <2>1 DEF Remaining
  <2>3. ~sent => line # <<>>
    BY <1>3, <2>1, Zenon
  <2>4. \A i \in 1 .. Len(Tail(OnLine(r, sent))) :
          i + 1 \in 1 .. Len(OnLine(r, sent)) /\ i + 1 # 1
    BY <1>2, <2>2
  <2> QED BY <1>1, <1>2, <1>3, <1>5, <2>2, <2>3, <2>4
<1> QED BY <1>4, <1>5, Zenon

-----------------------------------------------------------------------------
(* What the servo does with a request that reaches it.                     *)
LEMMA ServoFacts ==
  ASSUME TypeOK, NEW r \in Requests, NEW sent \in BOOLEAN,
         NEW got \in {"reply", "damaged", "timeout"}, Exchange(r, sent, got)
  PROVE  /\ r.op = "reg_write" /\ sent =>
              staged'[motor] = [reg |-> r.reg, val |-> r.val]
         /\ r.op \in {"action", "reset"} /\ sent => staged'[motor] = NoWrite
         /\ r.op \in {"write", "read"} \/ ~sent => staged'[motor] = staged[motor]
         /\ r.op = "write" /\ sent /\ r.reg # "Acc" => regs'[motor][r.reg] = r.val
         /\ r.op = "write" =>
              \A x \in Registers : x # r.reg => regs'[motor][x] = regs[motor][x]
         /\ r.op = "action" => \A x \in Registers :
              staged[motor] = NoWrite \/ staged[motor].reg # x
                => regs'[motor][x] = regs[motor][x]
         /\ r.op = "action" /\ sent /\ staged[motor] # NoWrite =>
              regs'[motor][staged[motor].reg] = Stored(staged[motor])
         /\ r.op = "write" /\ sent => regs'[motor][r.reg] = Stored(r)
         /\ r.op \in {"reg_write", "read", "reset"} => regs'[motor] = regs[motor]
<1>1. motor \in Motors
  BY ReplyType, Zenon
<1>2. /\ regs' = IF sent THEN RegsAfter(r) ELSE regs
      /\ staged' = IF sent THEN StagedAfter(r) ELSE staged
  BY Zenon DEF Exchange
<1>3. r.op \in {"write", "reg_write", "read"} => r.reg \in Registers
  BY Zenon DEF Requests
<1>4. /\ r.op = "reg_write" /\ sent =>
           staged'[motor] = [reg |-> r.reg, val |-> r.val]
      /\ r.op \in {"action", "reset"} /\ sent => staged'[motor] = NoWrite
      /\ r.op \in {"write", "read"} \/ ~sent => staged'[motor] = staged[motor]
  BY <1>1, <1>2, Zenon DEF StagedAfter, TypeOK
<1>5. r.op = "write" /\ sent /\ r.reg # "Acc" => regs'[motor][r.reg] = r.val
  BY <1>1, <1>2, <1>3, Zenon DEF RegsAfter, Stored, TypeOK
<1>6. r.op = "write" =>
        \A x \in Registers : x # r.reg => regs'[motor][x] = regs[motor][x]
  BY <1>1, <1>2, <1>3, Zenon DEF RegsAfter, TypeOK
<1>7. r.op = "action" => \A x \in Registers :
        staged[motor] = NoWrite \/ staged[motor].reg # x
          => regs'[motor][x] = regs[motor][x]
  BY <1>1, <1>2, Zenon DEF RegsAfter, TypeOK
<1>8. r.op \in {"reg_write", "read", "reset"} => regs'[motor] = regs[motor]
  BY <1>1, <1>2, Zenon DEF RegsAfter
<1>9. r.op = "action" /\ sent /\ staged[motor] # NoWrite =>
        regs'[motor][staged[motor].reg] = Stored(staged[motor])
  <2>1. staged[motor] # NoWrite => staged[motor].reg \in Registers
    BY <1>1, Zenon DEF TypeOK, Writes
  <2> QED BY <1>1, <1>2, <2>1, Zenon DEF RegsAfter, TypeOK
<1>10. r.op = "write" /\ sent => regs'[motor][r.reg] = Stored(r)
  BY <1>1, <1>2, <1>3, Zenon DEF RegsAfter, TypeOK
<1> QED BY <1>4, <1>5, <1>6, <1>7, <1>8, <1>9, <1>10, Zenon

(* A plain write leaves the other registers alone.                         *)
LEMMA OthersKept ==
  ASSUME TypeOK, NEW r \in Requests, NEW sent \in BOOLEAN,
         NEW got \in {"reply", "damaged", "timeout"}, Exchange(r, sent, got),
         r.op = "write"
  PROVE  \A x \in Registers : x # r.reg => regs'[motor][x] = regs[motor][x]
BY ServoFacts, Zenon

(* An action or a reset that a servo receives leaves its block empty.      *)
LEMMA BlockEmptied ==
  ASSUME TypeOK, NEW r \in Requests, NEW sent \in BOOLEAN,
         NEW got \in {"reply", "damaged", "timeout"}, Exchange(r, sent, got),
         sent, r.op \in {"action", "reset"}
  PROVE  staged'[motor] = NoWrite
BY ServoFacts, Zenon


(* Where the program is after a failed attempt.                            *)
LEMMA RetryFacts ==
  ASSUME TypeOK, IsVerified, Retry, inputs' = inputs
  PROVE  /\ motor' = motor /\ phase' = "write" /\ allOk' = allOk /\ status' = status
         /\ \/ step' = step /\ verified' = verified
            \/ /\ step' = step + 1
               /\ verified' = (verified /\ Current.mode = "effort")
               /\ verified' => verified /\ cmd = "freeze" /\ step = 11
<1>1. step # Last /\ (Current.mode = "effort" => cmd = "freeze" /\ step = 11)
  <2>1. CASE cmd = "reset"
    BY <2>1, ResetProgram DEF IsVerified, Req
  <2>2. CASE cmd = "freeze"
    BY <2>2, FreezeProgram DEF IsVerified, Req
  <2> QED BY <2>1, <2>2, Zenon DEF TypeOK
<1>2. CASE attempt < Retries
  BY <1>2, Zenon DEF Retry
<1>3. CASE ~(attempt < Retries)
  <2>1. NextStep(verified /\ Current.mode = "effort")
    BY <1>3, Zenon DEF Retry
  <2>2. /\ motor' = motor /\ phase' = "write" /\ allOk' = allOk /\ status' = status
        /\ step' = step + 1 /\ verified' = (verified /\ Current.mode = "effort")
    BY <1>1, <2>1, Zenon DEF NextStep
  <2> QED BY <1>1, <2>2, Zenon
<1> QED BY <1>2, <1>3, Zenon

(* Where the program is after a read-back that matches.                    *)
LEMMA VerifiedFacts ==
  ASSUME TypeOK, IsVerified, NextStep(verified), inputs' = inputs
  PROVE  /\ motor' = motor /\ phase' = "write" /\ allOk' = allOk /\ status' = status
         /\ step' = step + 1 /\ verified' = verified
<1>1. step # Last
  <2>1. CASE cmd = "reset"
    BY <2>1, ResetProgram DEF IsVerified, Req
  <2>2. CASE cmd = "freeze"
    BY <2>2, FreezeProgram DEF IsVerified, Req
  <2> QED BY <2>1, <2>2, Zenon DEF TypeOK
<1> QED BY <1>1, Zenon DEF NextStep

-----------------------------------------------------------------------------
(* The line.                                                               *)

(* A step sends the motor's requests, and the line keeps old replies and   *)
(* the reply to the request only.                                          *)
LEMMA LineSources ==
  ASSUME TypeOK, NEW r \in Requests, NEW sent \in BOOLEAN,
         NEW got \in {"reply", "damaged", "timeout"}, Exchange(r, sent, got),
         NoDrain(r, sent, got) \/ Drain(r, sent, got)
  PROVE  \A i \in 1 .. Len(line') :
           \/ line'[i] = ReplyTo(r)
           \/ \E j \in 1 .. Len(line) : line'[i] = line[j]
<1>1. \A i \in 1 .. Len(Remaining(r, sent, got)) :
        \/ Remaining(r, sent, got)[i] = ReplyTo(r)
        \/ \E j \in 1 .. Len(line) : Remaining(r, sent, got)[i] = line[j]
  BY RemainingFacts
<1>2. CASE NoDrain(r, sent, got)
  BY <1>1, <1>2, Zenon DEF NoDrain
<1>3. CASE Drain(r, sent, got)
  <2>1. \A i \in 1 .. Len(line') : \E j \in 1 .. Len(Remaining(r, sent, got)) :
          line'[i] = Remaining(r, sent, got)[j]
    BY <1>3, DrainFacts
  <2> QED BY <1>1, <2>1
<1> QED BY <1>2, <1>3, Zenon

(* Read-backs are answered by motors that have been reached.               *)
LEMMA DataBehind ==
  ASSUME TypeOK, NEW r \in Requests, NEW sent \in BOOLEAN,
         NEW got \in {"reply", "damaged", "timeout"}, Exchange(r, sent, got),
         NoDrain(r, sent, got) \/ Drain(r, sent, got), LineOK
  PROVE  \A i \in 1 .. Len(line') : Data(line'[i]) => line'[i].motor <= motor
<1>1. motor \in Nat /\ ReplyTo(r).motor = motor
  BY ReplyType, CalibrationConstants DEF Motors
<1>2. \A i \in 1 .. Len(line) : Data(line[i]) => line[i].motor <= motor
  BY Zenon DEF LineOK
<1> QED BY <1>1, <1>2, LineSources

(* Replies name motors, and motors are numbers.                            *)
LEMMA ReplyMotors ==
  ASSUME NEW seq \in Seq(Replies)
  PROVE  \A i \in 1 .. Len(seq) : seq[i].motor \in Nat
<1>1. \A i \in 1 .. Len(seq) : seq[i] \in Replies
  OBVIOUS
<1>2. \A x \in Replies : x.motor \in Nat
  BY CalibrationConstants DEF Replies, Motors
<1> QED BY <1>1, <1>2, Zenon

(* The next motor finds no read-back of its own on the line.               *)
LEMMA NextMotorLine ==
  ASSUME TypeOK, motor' = motor + 1, line' \in Seq(Replies),
         \A i \in 1 .. Len(line') : Data(line'[i]) => line'[i].motor <= motor
  PROVE  \A i \in 1 .. Len(line') : Data(line'[i]) => line'[i].motor < motor'
<1>1. motor \in Nat
  BY CalibrationConstants DEF TypeOK, Motors
<1>2. \A i \in 1 .. Len(line') : line'[i].motor \in Nat
  BY ReplyMotors, Zenon
<1> QED BY <1>1, <1>2

(* A verified read-back that succeeds leaves the line silent, and what it  *)
(* read is in the register.                                                *)
LEMMA ReadBackGenuine ==
  ASSUME TypeOK, LineOK, verified, IsVerified, phase = "verify",
         NEW sent \in BOOLEAN, NEW got \in {"reply", "damaged", "timeout"},
         Exchange(Request, sent, got), Succeeds(Request, sent, got)
  PROVE  /\ Remaining(Request, sent, got) = <<>>
         /\ Head(OnLine(Request, sent)).val = regs[motor][Current.reg]
<1>1. Request \in Requests /\ Request.op = "read" /\ Request.reg = Current.reg
  BY RequestType, Zenon DEF Request, Req
<1>2. \A i \in 1 .. Len(line) : Data(line[i]) => line[i].motor # motor
  BY Zenon DEF LineOK
<1>3. line = <<>>
  BY <1>1, <1>2, ReadBackInSync, Zenon
<1>4. /\ Head(OnLine(Request, sent)) = ReplyTo(Request)
      /\ Remaining(Request, sent, got) = <<>>
  BY <1>1, <1>3, GenuineReply, Zenon
<1> QED BY <1>1, <1>4 DEF ReplyTo

(* The last clauses of LineOK are about the strict steps of a reset.       *)
LEMMA VerifiedReset ==
  ASSUME TypeOK, cmd = "reset", IsVerified
  PROVE  step = 5
BY ResetProgram DEF IsVerified, Req

(* The strict steps.                                                       *)
LEMMA StrictSteps ==
  ASSUME TypeOK, ~IsVerified
  PROVE  /\ cmd = "freeze" => step = 1 \/ step = Last
         /\ cmd = "reset" => step \in {1, 2, 3, 4, 6, 7} /\ Last = 7
                              /\ Current.mode # "warn"
         /\ Last # 1
<1>1. CASE cmd = "reset"
  BY <1>1, ResetProgram DEF IsVerified, Req
<1>2. CASE cmd = "freeze"
  BY <1>2, FreezeProgram DEF IsVerified, Req
<1> QED BY <1>1, <1>2, Zenon DEF TypeOK

(* What a strict step does: it goes to the next step, or ends its motor.   *)
StrictOutcome(sent, got) ==
  /\ ~IsVerified
  /\ Exchange(Current, sent, got)
  /\ line' = Remaining(Current, sent, got)
  /\ \/ /\ Succeeds(Current, sent, got) \/ Current.mode = "warn"
        /\ step # Last /\ step' = step + 1 /\ phase' = "write"
        /\ motor' = motor /\ verified' = verified
        /\ allOk' = allOk /\ status' = status
     \/ /\ Succeeds(Current, sent, got) \/ Current.mode = "warn"
        /\ step = Last /\ FinishMotor(verified)
     \/ /\ ~Succeeds(Current, sent, got) /\ Current.mode # "warn"
        /\ FinishMotor(FALSE)

(* Every strict step does one of these.                                    *)
LEMMA StrictEnds ==
  ASSUME StrictRequest
  PROVE  \E sent \in BOOLEAN, got \in {"reply", "damaged", "timeout"} :
           StrictOutcome(sent, got)
<1>1. PICK sent \in BOOLEAN, got \in {"reply", "damaged", "timeout"} :
        /\ ~IsVerified
        /\ Exchange(Current, sent, got)
        /\ NoDrain(Current, sent, got)
        /\ IF Succeeds(Current, sent, got) \/ Current.mode = "warn"
             THEN NextStep(verified)
             ELSE FinishMotor(FALSE)
  BY Zenon DEF StrictRequest
<1>2. line' = Remaining(Current, sent, got)
  BY <1>1, Zenon DEF NoDrain
<1>3. CASE ~(Succeeds(Current, sent, got) \/ Current.mode = "warn")
  BY <1>1, <1>2, <1>3, Zenon DEF StrictOutcome
<1>4. CASE (Succeeds(Current, sent, got) \/ Current.mode = "warn") /\ step = Last
  <2>1. FinishMotor(verified)
    BY <1>1, <1>4, Zenon DEF NextStep
  <2> QED BY <1>1, <1>2, <1>4, <2>1, Zenon DEF StrictOutcome
<1>5. CASE (Succeeds(Current, sent, got) \/ Current.mode = "warn") /\ step # Last
  <2>1. /\ step' = step + 1 /\ phase' = "write" /\ motor' = motor
        /\ verified' = verified /\ allOk' = allOk /\ status' = status
    BY <1>1, <1>5, Zenon DEF NextStep
  <2> QED BY <1>1, <1>2, <1>5, <2>1, Zenon DEF StrictOutcome
<1> QED BY <1>3, <1>4, <1>5, Zenon

(* What a request of a verified step does: the attempt goes on, the        *)
(* attempt fails, or its read-back matches.                                *)
VerifiedOutcome(sent, got) ==
  /\ IsVerified
  /\ Request \in Requests
  /\ Exchange(Request, sent, got)
  /\ inputs' = inputs /\ motor' = motor /\ allOk' = allOk /\ status' = status
  /\ \/ /\ phase \in {"write", "action"}
        /\ Succeeds(Request, sent, got)
        /\ NoDrain(Request, sent, got)
        /\ phase' = IF phase = "write" THEN "action" ELSE "verify"
        /\ step' = step /\ verified' = verified
     \/ /\ \/ ~Succeeds(Request, sent, got) /\ Drain(Request, sent, got)
           \/ /\ phase = "verify"
              /\ Succeeds(Request, sent, got)
              /\ Head(OnLine(Request, sent)).val # Current.val
              /\ NoDrain(Request, sent, got)
        /\ phase' = "write"
        /\ \/ step' = step /\ verified' = verified
           \/ /\ step' = step + 1
              /\ verified' = (verified /\ Current.mode = "effort")
              /\ verified' => verified /\ cmd = "freeze" /\ step = 11
     \/ /\ phase = "verify"
        /\ Succeeds(Request, sent, got)
        /\ Head(OnLine(Request, sent)).val = Current.val
        /\ NoDrain(Request, sent, got)
        /\ step' = step + 1 /\ phase' = "write" /\ verified' = verified

(* Every request of a verified step does one of these.                     *)
LEMMA VerifiedEnds ==
  ASSUME TypeOK, VerifiedRequest \/ ReadBack
  PROVE  \E sent \in BOOLEAN, got \in {"reply", "damaged", "timeout"} :
           VerifiedOutcome(sent, got)
<1>1. CASE VerifiedRequest
  <2>1. PICK sent \in BOOLEAN, got \in {"reply", "damaged", "timeout"} :
          /\ IsVerified
          /\ phase \in {"write", "action"}
          /\ Exchange(Request, sent, got)
          /\ IF Succeeds(Request, sent, got)
               THEN /\ phase' = IF phase = "write" THEN "action" ELSE "verify"
                    /\ UNCHANGED <<motor, step, attempt, verified, allOk, status>>
                    /\ NoDrain(Request, sent, got)
               ELSE Retry /\ Drain(Request, sent, got)
    BY <1>1, Zenon DEF VerifiedRequest
  <2>2. Request \in Requests /\ inputs' = inputs
    BY <2>1, RequestType, Zenon DEF Exchange
  <2>3. CASE Succeeds(Request, sent, got)
    BY <2>1, <2>2, <2>3, Zenon DEF VerifiedOutcome
  <2>4. CASE ~Succeeds(Request, sent, got)
    <3>1. Retry /\ Drain(Request, sent, got)
      BY <2>1, <2>4, Zenon
    <3> QED BY <2>1, <2>2, <2>4, <3>1, RetryFacts, Zenon DEF VerifiedOutcome
  <2> QED BY <2>3, <2>4, Zenon
<1>2. CASE ReadBack
  <2>1. PICK sent \in BOOLEAN, got \in {"reply", "damaged", "timeout"} :
          /\ IsVerified
          /\ phase = "verify"
          /\ Exchange(Request, sent, got)
          /\ IF Succeeds(Request, sent, got)
               THEN /\ IF Head(OnLine(Request, sent)).val = Current.val
                         THEN NextStep(verified)
                         ELSE Retry
                    /\ NoDrain(Request, sent, got)
               ELSE Retry /\ Drain(Request, sent, got)
    BY <1>2, Zenon DEF ReadBack
  <2>2. Request \in Requests /\ inputs' = inputs
    BY <2>1, RequestType, Zenon DEF Exchange
  <2>3. CASE Succeeds(Request, sent, got) /\ Head(OnLine(Request, sent)).val = Current.val
    <3>1. NextStep(verified) /\ NoDrain(Request, sent, got)
      BY <2>1, <2>3, Zenon
    <3> QED BY <2>1, <2>2, <2>3, <3>1, VerifiedFacts, Zenon DEF VerifiedOutcome
  <2>4. CASE Succeeds(Request, sent, got) /\ Head(OnLine(Request, sent)).val # Current.val
    <3>1. Retry /\ NoDrain(Request, sent, got)
      BY <2>1, <2>4, Zenon
    <3> QED BY <2>1, <2>2, <2>4, <3>1, RetryFacts, Zenon DEF VerifiedOutcome
  <2>5. CASE ~Succeeds(Request, sent, got)
    <3>1. Retry /\ Drain(Request, sent, got)
      BY <2>1, <2>5, Zenon
    <3> QED BY <2>1, <2>2, <2>5, <3>1, RetryFacts, Zenon DEF VerifiedOutcome
  <2> QED BY <2>3, <2>4, <2>5, Zenon
<1> QED BY <1>1, <1>2, Zenon

(* A motor whose program ends with a success that counts leaves a silent   *)
(* line, so a reset goes on in sync.                                       *)
LEMMA ResetGoesOn ==
  ASSUME TypeOK, PhaseOK, LineOK, cmd = "reset", NEW sent \in BOOLEAN,
         NEW got \in {"reply", "damaged", "timeout"}, ~IsVerified,
         Exchange(Current, sent, got), OnTrack',
         line' = Remaining(Current, sent, got), motor' = motor + 1,
         \/ /\ Succeeds(Current, sent, got)
            /\ step = Last /\ FinishMotor(verified)
         \/ FinishMotor(FALSE)
  PROVE  line' = <<>>
<1>1. cmd' = "reset"
  BY Zenon DEF Exchange, inputs
<1>2. allOk' /\ motor + 1 <= Counted
  BY <1>1, Zenon DEF OnTrack
<1>3. motor \in Nat /\ Counted \in Nat /\ ~(motor > Counted) /\ motor <= Counted
  BY <1>2, CalibrationConstants DEF TypeOK, Motors
<1>4. ~FinishMotor(FALSE)
  BY <1>2, <1>3, Zenon DEF FinishMotor
<1>5. FinishMotor(verified) /\ Succeeds(Current, sent, got) /\ step = Last
  BY <1>4, Zenon
<1>6. allOk /\ verified
  BY <1>2, <1>3, <1>5, Zenon DEF FinishMotor
<1>7. OnTrack /\ step >= 6
  BY <1>3, <1>5, <1>6, StrictSteps DEF OnTrack
<1>8. line = <<>>
  BY <1>7, Zenon DEF LineOK
<1>9. Current \in Requests
  BY RequestType, Zenon
<1> QED BY <1>5, <1>8, <1>9, GenuineReply, Zenon

(* The line stays in order.                                                *)
LEMMA NextLineOK ==
  ASSUME TypeOK, PhaseOK, LineOK, Next, status' = "running"
  PROVE  LineOK'
<1>0. line \in Seq(Replies) /\ motor \in Nat
  BY CalibrationConstants DEF TypeOK, Motors
<1>1. CASE SkipMotor
  <2>1. /\ cmd' = "freeze" /\ line' = line /\ motor' = motor + 1
    BY <1>1, Zenon DEF SkipMotor, FinishMotor, NothingToFreeze, inputs
  <2>2. \A i \in 1 .. Len(line') : Data(line'[i]) => line'[i].motor <= motor
    BY <2>1, Zenon DEF LineOK
  <2>3. \A i \in 1 .. Len(line') : line'[i].motor \in Nat
    BY <1>0, <2>1, ReplyMotors, Zenon
  <2>4. \A i \in 1 .. Len(line') : Data(line'[i]) => line'[i].motor < motor'
    BY <1>0, <2>1, <2>2, NextMotorLine, Zenon
  <2> QED BY <1>0, <2>1, <2>3, <2>4 DEF LineOK
<1>2. CASE StrictRequest
  <2>1. PICK sent \in BOOLEAN, got \in {"reply", "damaged", "timeout"} :
          StrictOutcome(sent, got)
    BY <1>2, StrictEnds, Zenon
  <2>2. /\ Current \in Requests /\ cmd' = cmd /\ ReplyTo(Current).size = 0
        /\ line' \in Seq(Replies)
    BY <2>1, RequestType, StepFacts, ExchangeType, Zenon
       DEF StrictOutcome, Exchange, inputs, ReplyTo
  <2>3. \A i \in 1 .. Len(line') : Data(line'[i]) => line'[i].motor <= motor
    <3>1. \A i \in 1 .. Len(line') :
            \/ line'[i] = ReplyTo(Current)
            \/ \E j \in 1 .. Len(line) : line'[i] = line[j]
      BY <2>1, <2>2, RemainingFacts DEF StrictOutcome
    <3>2. ~Data(ReplyTo(Current))
      BY <2>2 DEF Data
    <3> QED BY <3>1, <3>2, Zenon DEF LineOK
  <2>4. CASE FinishMotor(verified) \/ FinishMotor(FALSE)
    <3>1. motor' = motor + 1 /\ step' = 1
      BY <2>4, Zenon DEF FinishMotor
    <3>2. \A i \in 1 .. Len(line') : Data(line'[i]) => line'[i].motor < motor'
      BY <2>2, <2>3, <3>1, NextMotorLine, Zenon
    <3>3. \A i \in 1 .. Len(line') : line'[i].motor \in Nat
      BY <2>2, ReplyMotors, Zenon
    <3>4. cmd' = "reset" /\ OnTrack' => line' = <<>>
      <4> SUFFICES ASSUME cmd' = "reset", OnTrack' PROVE line' = <<>>
        BY Zenon
      <4>1. cmd = "reset" /\ Current.mode # "warn"
        BY <2>1, <2>2, StrictSteps, Zenon DEF StrictOutcome
      <4>2. \/ Succeeds(Current, sent, got) /\ step = Last /\ FinishMotor(verified)
            \/ FinishMotor(FALSE)
        <5>1. ASSUME step' = step + 1 PROVE FALSE
          BY <3>1, <5>1 DEF TypeOK
        <5> QED BY <2>1, <4>1, <5>1, Zenon DEF StrictOutcome
      <4> QED BY <2>1, <3>1, <4>1, <4>2, ResetGoesOn, Zenon DEF StrictOutcome
    <3>5. /\ \A i \in 1 .. Len(line') : Data(line'[i]) => line'[i].motor <= motor'
          /\ \A i \in 1 .. Len(line') : Data(line'[i]) => line'[i].motor # motor'
      BY <1>0, <3>1, <3>2, <3>3
    <3>6. Len(<<>>) <= 1
      OBVIOUS
    <3> QED BY <3>4, <3>5, <3>6, Zenon DEF LineOK
  <2>5. CASE ~(FinishMotor(verified) \/ FinishMotor(FALSE))
    <3>1. /\ Succeeds(Current, sent, got) \/ Current.mode = "warn"
          /\ step # Last /\ step' = step + 1 /\ phase' = "write"
          /\ motor' = motor /\ verified' = verified /\ allOk' = allOk
      BY <2>1, <2>5, Zenon DEF StrictOutcome
    <3>2. verified' => \A i \in 1 .. Len(line') : Data(line'[i]) => line'[i].motor # motor'
      <4>1. verified => \A i \in 1 .. Len(line) : Data(line[i]) => line[i].motor # motor
        BY <2>1, Zenon DEF StrictOutcome, LineOK
      <4>2. \A i \in 1 .. Len(line') :
              \/ line'[i] = ReplyTo(Current)
              \/ \E j \in 1 .. Len(line) : line'[i] = line[j]
        BY <2>1, <2>2, RemainingFacts DEF StrictOutcome
      <4>3. ~Data(ReplyTo(Current))
        BY <2>2 DEF Data
      <4> QED BY <3>1, <4>1, <4>2, <4>3, Zenon
    <3>3. cmd' = "reset" /\ OnTrack' =>
            /\ step' <= 4 => Len(line') <= 1
            /\ step' >= 6 => line' = <<>>
      <4> SUFFICES ASSUME cmd' = "reset", OnTrack'
                   PROVE  /\ step' <= 4 => Len(line') <= 1
                          /\ step' >= 6 => line' = <<>>
        BY Zenon
      <4>1. cmd = "reset" /\ OnTrack /\ Succeeds(Current, sent, got)
            /\ step \in {1, 2, 3, 4, 6, 7} /\ step # 7
        BY <2>1, <2>2, <3>1, StrictSteps, Zenon DEF StrictOutcome, OnTrack
      <4>2. CASE step \in {1, 2, 3, 4}
        <5>1. Len(line) <= 1
          BY <4>1, <4>2 DEF LineOK
        <5>2. got # "timeout"
          BY <4>1, Zenon DEF Succeeds
        <5>3. Len(line') <= Len(line)
          BY <2>1, <2>2, <5>2, RemainingFacts DEF StrictOutcome
        <5>4. Len(line) \in Nat /\ Len(line') \in Nat
          BY <1>0, <2>2
        <5> QED BY <3>1, <4>2, <5>1, <5>3, <5>4
      <4>3. CASE step = 6
        <5>1. line = <<>>
          BY <4>1, <4>3 DEF LineOK
        <5> QED BY <2>1, <2>2, <3>1, <4>1, <4>3, <5>1, GenuineReply DEF StrictOutcome
      <4> QED BY <4>1, <4>2, <4>3, Zenon
    <3> QED BY <2>3, <3>1, <3>2, <3>3, Zenon DEF LineOK
  <2> QED BY <2>4, <2>5, Zenon
<1>3. CASE VerifiedRequest \/ ReadBack
  <2>1. PICK sent \in BOOLEAN, got \in {"reply", "damaged", "timeout"} :
          VerifiedOutcome(sent, got)
    BY <1>3, VerifiedEnds, Zenon
  <2>2. \A i \in 1 .. Len(line') : Data(line'[i]) => line'[i].motor <= motor'
    <3>1. NoDrain(Request, sent, got) \/ Drain(Request, sent, got)
      BY <2>1, Zenon DEF VerifiedOutcome
    <3> QED BY <2>1, <3>1, DataBehind, Zenon DEF VerifiedOutcome
  <2>3. CASE phase = "verify" /\ Succeeds(Request, sent, got)
    <3>1. line' = Remaining(Request, sent, got) /\ (verified' => verified)
      BY <2>1, <2>3 DEF VerifiedOutcome, NoDrain
    <3>2. verified' => line' = <<>>
      BY <2>1, <2>3, <3>1, ReadBackGenuine, Zenon DEF VerifiedOutcome
    <3> QED BY <2>2, <3>2 DEF LineOK, OnTrack
  <2>4. CASE phase # "verify" /\ Succeeds(Request, sent, got)
    <3>1. /\ line' = Remaining(Request, sent, got) /\ step' = step
          /\ verified' = verified /\ got # "timeout" /\ Request.op # "read"
      BY <2>1, <2>4, StepFacts, Zenon
         DEF VerifiedOutcome, NoDrain, Succeeds, Request, Req
    <3>2. ~Data(ReplyTo(Request))
      BY <3>1 DEF ReplyTo, Data
    <3>3. \A i \in 1 .. Len(line') :
            \/ line'[i] = ReplyTo(Request)
            \/ \E j \in 1 .. Len(line) : line'[i] = line[j] /\ j # 1
      BY <2>1, <3>1, RemainingFacts DEF VerifiedOutcome
    <3>4. verified => \A j \in 1 .. Len(line) :
            Data(line[j]) /\ line[j].motor = motor => j = 1
      BY Zenon DEF LineOK
    <3>5. verified' => \A i \in 1 .. Len(line') :
            ~(Data(line'[i]) /\ line'[i].motor = motor')
      BY <2>1, <3>1, <3>2, <3>3, <3>4, Zenon DEF VerifiedOutcome
    <3>6. cmd' = "reset" => step' = 5
      BY <2>1, <3>1, VerifiedReset, Zenon DEF VerifiedOutcome, inputs
    <3> QED BY <2>2, <3>5, <3>6 DEF LineOK
  <2>5. CASE ~Succeeds(Request, sent, got)
    <3>1. /\ Drain(Request, sent, got) /\ phase' = "write"
          /\ \/ step' = step /\ verified' = verified
             \/ step' = step + 1 /\ (verified' => verified /\ cmd = "freeze" /\ step = 11)
      BY <2>1, <2>5, Zenon DEF VerifiedOutcome
    <3>2. \A i \in 1 .. Len(line') : i = 1
      BY <2>1, <3>1, DrainFacts DEF VerifiedOutcome
    <3>3. verified' => IsVerified'
      <4>1. CASE step' = step /\ verified' = verified
        BY <2>1, <4>1, SameProgram, Zenon DEF VerifiedOutcome
      <4>2. ASSUME step' = step + 1, verified', cmd = "freeze", step = 11
            PROVE  IsVerified'
        <5>1. step' = 12 /\ cmd' = "freeze"
          BY <2>1, <4>2 DEF VerifiedOutcome, inputs
        <5>2. Current'.mode = "verify"
          BY <5>1 DEF Current, FreezeStep, K, Req
        <5> QED BY <5>2, Zenon DEF IsVerified
      <4> QED BY <3>1, <4>1, <4>2, Zenon
    <3>4. cmd' = "reset" /\ OnTrack' => step' = 5
      <4>1. cmd' = "reset" => cmd = "reset" /\ step = 5
        BY <2>1, VerifiedReset, Zenon DEF VerifiedOutcome, inputs
      <4> QED BY <3>1, <4>1, Zenon DEF OnTrack
    <3> QED BY <2>2, <3>1, <3>2, <3>3, <3>4 DEF LineOK
  <2> QED BY <2>3, <2>4, <2>5, Zenon
<1> QED BY <1>1, <1>2, <1>3, Zenon DEF Next
-----------------------------------------------------------------------------
(* The staged write.                                                       *)

(* What the program stages is its own.                                     *)
LEMMA CurrentIsOwn ==
  ASSUME TypeOK, Current.op = "reg_write"
  PROVE  CurrentWrite \in OwnWrites
<1>1. CASE cmd = "reset"
  <2>1. Current.reg = "Offset" /\ Current.val = 0
    BY <1>1, ResetProgram DEF Req
  <2> QED BY <1>1, <2>1, Zenon DEF CurrentWrite, OwnWrites, OffsetWrite
<1>2. CASE cmd = "freeze"
  <2>1. step \in 3 .. 10 \/ step = 12
    BY <1>2, FreezeProgram DEF Req
  <2>2. CASE step \in 3 .. 10
    <3>1. step - 2 \in 1 .. K
      BY <2>2 DEF K
    <3>2. /\ Current.reg = Settings(count)[step - 2].reg
          /\ Current.val = Settings(count)[step - 2].val
      BY <1>2, <2>2, FreezeProgram DEF Req
    <3>3. CurrentWrite = SettingWrite(step - 2)
      BY <3>2, Zenon DEF CurrentWrite, SettingWrite
    <3> QED BY <1>2, <3>1, <3>3, Zenon DEF OwnWrites
  <2>3. CASE step = 12
    <3>1. /\ Current.reg = "Offset"
          /\ Current.val = Encoded(Correction(midpoint[motor]))
      BY <1>2, <2>3, FreezeProgram DEF Req
    <3> QED BY <1>2, <3>1, Zenon DEF CurrentWrite, OwnWrites, OffsetWrite
  <2> QED BY <2>1, <2>2, <2>3, Zenon
<1> QED BY <1>1, <1>2, Zenon DEF TypeOK

(* The writes a motor stages do not depend on the step.                    *)
LEMMA SameOwn ==
  ASSUME inputs' = inputs, motor' = motor
  PROVE  OwnWrites' = OwnWrites
<1>1. cmd' = cmd /\ count' = count /\ midpoint' = midpoint
  BY Zenon DEF inputs
<1>2. Settings(count)' = Settings(count)
  BY <1>1 DEF Settings, Pid
<1>3. OffsetWrite' = OffsetWrite /\ \A j : SettingWrite(j)' = SettingWrite(j)
  BY <1>1, <1>2, Zenon DEF OffsetWrite, SettingWrite
<1> QED BY <1>1, <1>3, Zenon DEF OwnWrites

(* A request leaves the staged write, forgets it, or stages one of the     *)
(* motor's own.                                                            *)
LEMMA StagedNext ==
  ASSUME TypeOK, NEW r \in Requests, NEW sent \in BOOLEAN,
         NEW got \in {"reply", "damaged", "timeout"}, Exchange(r, sent, got),
         r = Current \/ r.op \in {"action", "read"}
  PROVE  /\ staged'[motor] = staged[motor] \/ staged'[motor] \in OwnWrites
         /\ sent /\ r.op \in {"reg_write", "action", "reset"}
              => staged'[motor] \in OwnWrites
<1>1. NoWrite \in OwnWrites
  BY Zenon DEF OwnWrites
<1>2. CASE ~sent \/ r.op \in {"write", "read"}
  BY <1>2, ServoFacts, Zenon
<1>3. CASE sent /\ r.op \in {"action", "reset"}
  BY <1>1, <1>3, ServoFacts, Zenon
<1>4. CASE sent /\ r.op = "reg_write"
  <2>1. r = Current
    BY <1>4, Zenon
  <2>2. staged'[motor] = CurrentWrite
    BY <1>4, <2>1, ServoFacts, Zenon DEF CurrentWrite
  <2> QED BY <1>4, <2>1, <2>2, CurrentIsOwn, Zenon
<1> QED BY <1>2, <1>3, <1>4, Zenon DEF Requests

(* The third step of a freeze stages the first setting.                    *)
LEMMA FirstSetting ==
  ASSUME TypeOK, cmd = "freeze", step = 3
  PROVE  Current.op = "reg_write"
<1>1. step \in 3 .. 10
  OBVIOUS
<1> QED BY <1>1, FreezeProgram DEF Req

(* The staged write stays known.                                           *)
LEMMA NextStagedOK ==
  ASSUME TypeOK, PhaseOK, LineOK, StagedOK, Next, status' = "running"
  PROVE  StagedOK'
<1>1. CASE SkipMotor
  BY <1>1 DEF SkipMotor, FinishMotor, StagedOK
<1>2. CASE StrictRequest
  <2>1. PICK sent \in BOOLEAN, got \in {"reply", "damaged", "timeout"} :
          StrictOutcome(sent, got)
    BY <1>2, StrictEnds, Zenon
  <2>2. CASE FinishMotor(verified) \/ FinishMotor(FALSE)
    BY <2>2 DEF FinishMotor, StagedOK
  <2>3. CASE ~(FinishMotor(verified) \/ FinishMotor(FALSE))
    <3>1. /\ Succeeds(Current, sent, got) \/ Current.mode = "warn"
          /\ step # Last /\ step' = step + 1 /\ phase' = "write"
          /\ motor' = motor /\ verified' = verified /\ allOk' = allOk
          /\ ~IsVerified /\ Exchange(Current, sent, got)
          /\ line' = Remaining(Current, sent, got)
      BY <2>1, <2>3, Zenon DEF StrictOutcome
    <3>2. /\ Current \in Requests /\ inputs' = inputs /\ cmd' = cmd
          /\ line' \in Seq(Replies)
      BY <3>1, RequestType, ExchangeType, Zenon DEF inputs
    <3>3. OwnWrites' = OwnWrites
      BY <3>1, <3>2, SameOwn, Zenon
    <3>4. CASE cmd = "freeze"
      <4>1. step' = 2
        BY <3>1, <3>4, StrictSteps
      <4> QED BY <4>1 DEF StagedOK
    <3>5. CASE cmd = "reset"
      <4> SUFFICES ASSUME OnTrack', step' >= 3
                   PROVE  \/ staged'[motor] \in OwnWrites
                          \/ step' = 3 /\ phase' = "write" /\ line' = <<>>
        BY <3>1, <3>3, Zenon DEF StagedOK
      <4>1. /\ step \in {2, 3, 4, 6} /\ Succeeds(Current, sent, got)
            /\ OnTrack /\ got # "timeout"
        BY <3>1, <3>2, <3>5, StrictSteps DEF OnTrack, Succeeds
      <4>2. CASE step = 2
        <5>1. Current.op = "action"
          BY <3>5, <4>2, ResetProgram DEF Req
        <5>2. CASE sent
          BY <3>1, <3>2, <5>1, <5>2, StagedNext, Zenon
        <5>3. CASE ~sent
          <6>1. Len(line) <= 1
            BY <3>5, <4>1, <4>2 DEF LineOK
          <6>2. Len(line') = Len(line) - 1
            BY <3>1, <3>2, <4>1, <5>3, RemainingFacts, Zenon
          <6>3. Len(line) \in Nat /\ Len(line') \in Nat
            BY <3>2 DEF TypeOK
          <6>4. line' = <<>>
            BY <3>2, <6>1, <6>2, <6>3
          <6> QED BY <3>1, <4>2, <6>4
        <5> QED BY <5>2, <5>3, Zenon
      <4>3. CASE step = 3
        <5>1. Current.op = "reset"
          BY <3>5, <4>3, ResetProgram DEF Req
        <5>2. CASE sent
          BY <3>1, <3>2, <5>1, <5>2, StagedNext, Zenon
        <5>3. CASE ~sent
          <6>1. line # <<>>
            BY <3>1, <3>2, <4>1, <5>3, RemainingFacts, Zenon
          <6>2. staged[motor] \in OwnWrites
            BY <4>1, <4>3, <6>1 DEF StagedOK
          <6> QED BY <3>1, <3>2, <6>2, StagedNext, Zenon
        <5> QED BY <5>2, <5>3, Zenon
      <4>4. CASE step \in {4, 6}
        <5>1. staged[motor] \in OwnWrites
          BY <4>1, <4>4 DEF StagedOK
        <5> QED BY <3>1, <3>2, <5>1, StagedNext, Zenon
      <4> QED BY <4>1, <4>2, <4>3, <4>4, Zenon
    <3> QED BY <3>4, <3>5, Zenon DEF TypeOK
  <2> QED BY <2>2, <2>3, Zenon
<1>3. CASE VerifiedRequest \/ ReadBack
  <2>1. PICK sent \in BOOLEAN, got \in {"reply", "damaged", "timeout"} :
          VerifiedOutcome(sent, got)
    BY <1>3, VerifiedEnds, Zenon
  <2>2. /\ IsVerified /\ Request \in Requests /\ Exchange(Request, sent, got)
        /\ inputs' = inputs /\ cmd' = cmd /\ motor' = motor /\ allOk' = allOk
        /\ verified' => verified
        /\ step' = step \/ step' = step + 1
    BY <2>1 DEF VerifiedOutcome, inputs
  <2>3. Request = Current \/ Request.op \in {"action", "read"}
    BY Zenon DEF Request, Req
  <2>4. OwnWrites' = OwnWrites
    BY <2>2, SameOwn, Zenon
  <2> SUFFICES ASSUME OnTrack', step' >= 3
               PROVE  \/ staged'[motor] \in OwnWrites
                      \/ step' = 3 /\ phase' = "write" /\ line' = <<>>
    BY <2>2, <2>4, Zenon DEF StagedOK
  <2>5. OnTrack /\ verified
    BY <2>2, Zenon DEF OnTrack
  <2>6. CASE staged[motor] \in OwnWrites
    BY <2>2, <2>3, <2>6, StagedNext, Zenon
  <2>7. CASE step = 2
    <3>1. step' = 3 /\ cmd = "freeze"
      BY <2>2, <2>7, VerifiedReset DEF TypeOK
    <3>2. /\ phase = "verify" /\ Succeeds(Request, sent, got)
          /\ NoDrain(Request, sent, got) /\ phase' = "write"
      BY <2>1, <2>7, <3>1 DEF VerifiedOutcome, OnTrack
    <3>3. line' = <<>>
      BY <2>2, <2>5, <3>2, ReadBackGenuine, Zenon DEF NoDrain
    <3> QED BY <3>1, <3>2, <3>3, Zenon
  <2>8. CASE step = 3 /\ phase = "write" /\ line = <<>>
    <3>1. cmd = "freeze" /\ Request = Current /\ Current.op = "reg_write"
      <4>1. cmd = "freeze"
        BY <2>2, <2>8, VerifiedReset DEF TypeOK
      <4>2. Current.op = "reg_write"
        BY <2>8, <4>1, FirstSetting, Zenon
      <4> QED BY <2>8, <4>1, <4>2, Zenon DEF Request
    <3>2. CASE sent
      BY <2>2, <3>1, <3>2, StagedNext, Zenon
    <3>3. CASE ~sent
      <4>1. got = "timeout" /\ Remaining(Request, sent, got) = <<>>
        BY <2>2, <2>8, <3>3, RemainingFacts
      <4>2. ~Succeeds(Request, sent, got)
        BY <4>1, Zenon DEF Succeeds
      <4>3. Drain(Request, sent, got) /\ phase' = "write" /\ step' = 3
        <5>1. /\ Drain(Request, sent, got) /\ phase' = "write"
              /\ step' = step \/ (verified' => step = 11)
          BY <2>1, <4>2, Zenon DEF VerifiedOutcome
        <5>2. verified'
          BY Zenon DEF OnTrack
        <5> QED BY <2>8, <5>1, <5>2
      <4>4. line' = <<>>
        BY <2>2, <4>1, <4>3, DrainFacts, Zenon
      <4> QED BY <4>3, <4>4, Zenon
    <3> QED BY <3>2, <3>3, Zenon
  <2>9. step >= 3 => staged[motor] \in OwnWrites
                       \/ (step = 3 /\ phase = "write" /\ line = <<>>)
    BY <2>5, Zenon DEF StagedOK
  <2> QED BY <2>2, <2>6, <2>7, <2>8, <2>9 DEF TypeOK
<1> QED BY <1>1, <1>2, <1>3, Zenon DEF Next
-----------------------------------------------------------------------------
(* What the motor holds.                                                   *)

(* An action that applies one of the motor's own writes keeps every value  *)
(* the program has written.                                                *)
LEMMA ActionKeeps ==
  ASSUME TypeOK, staged[motor] \in OwnWrites, NEW r \in Requests,
         r.op = "action", NEW sent \in BOOLEAN,
         NEW got \in {"reply", "damaged", "timeout"}, Exchange(r, sent, got)
  PROVE  /\ cmd = "freeze" => \A j \in 1 .. K :
              regs[motor][Settings(count)[j].reg] = Settings(count)[j].val
                => regs'[motor][Settings(count)[j].reg] = Settings(count)[j].val
         /\ regs[motor]["Offset"] = OffsetWrite.val
              => regs'[motor]["Offset"] = OffsetWrite.val
         /\ regs'[motor]["Lock"] = regs[motor]["Lock"]
<1>1. /\ \A j \in 1 .. K : /\ Settings(count)[j].reg \in SettingsRegisters
                           /\ Settings(count)[j].reg \in Registers
      /\ \A j, k \in 1 .. K :
           j # k => Settings(count)[j].reg # Settings(count)[k].reg
  BY SettingsFacts, Zenon DEF Registers
<1>2. /\ \A x \in Registers : staged[motor] = NoWrite \/ staged[motor].reg # x
           => regs'[motor][x] = regs[motor][x]
      /\ sent /\ staged[motor] # NoWrite =>
           regs'[motor][staged[motor].reg] = Stored(staged[motor])
      /\ ~sent => regs' = regs
  BY ServoFacts, Zenon DEF Exchange
<1>3. "Offset" \in Registers /\ "Lock" \in Registers
  BY Zenon DEF Registers
<1>4. CASE staged[motor] = NoWrite \/ ~sent
  BY <1>1, <1>2, <1>3, <1>4, Zenon
<1>5. CASE staged[motor] = OffsetWrite /\ staged[motor] # NoWrite /\ sent
  <2>1. staged[motor].reg = "Offset" /\ Stored(staged[motor]) = OffsetWrite.val
    BY <1>5 DEF OffsetWrite, Stored
  <2>2. regs'[motor]["Offset"] = OffsetWrite.val
    BY <1>2, <1>5, <2>1, Zenon
  <2>3. \A j \in 1 .. K : Settings(count)[j].reg # "Offset"
    BY <1>1, Zenon DEF SettingsRegisters
  <2>4. \A x \in Registers : x # "Offset" => regs'[motor][x] = regs[motor][x]
    BY <1>2, <2>1, Zenon
  <2> QED BY <1>1, <1>3, <2>2, <2>3, <2>4, Zenon
<1>6. ASSUME NEW k \in 1 .. K, cmd = "freeze", staged[motor] = SettingWrite(k), sent,
             staged[motor] # NoWrite
      PROVE  /\ \A j \in 1 .. K :
                  regs[motor][Settings(count)[j].reg] = Settings(count)[j].val
                    => regs'[motor][Settings(count)[j].reg] = Settings(count)[j].val
             /\ regs'[motor]["Offset"] = regs[motor]["Offset"]
             /\ regs'[motor]["Lock"] = regs[motor]["Lock"]
  <2>1. /\ staged[motor].reg = Settings(count)[k].reg
        /\ staged[motor].val = Settings(count)[k].val
    BY <1>6 DEF SettingWrite
  <2>2. Settings(count)[k].reg \notin {"Acc", "Offset", "Lock"}
    BY <1>1, Zenon DEF SettingsRegisters
  <2>3. Stored(staged[motor]) = Settings(count)[k].val
    BY <2>1, <2>2, Zenon DEF Stored
  <2>4. regs'[motor][Settings(count)[k].reg] = Settings(count)[k].val
    BY <1>2, <1>6, <2>1, <2>3, Zenon
  <2>5. \A x \in Registers :
          x # Settings(count)[k].reg => regs'[motor][x] = regs[motor][x]
    BY <1>2, <2>1, Zenon
  <2> QED BY <1>1, <1>3, <2>2, <2>4, <2>5, Zenon
<1>7. \/ staged[motor] = NoWrite \/ staged[motor] = OffsetWrite
      \/ cmd = "freeze" /\ \E k \in 1 .. K : staged[motor] = SettingWrite(k)
  BY Zenon DEF OwnWrites
<1> QED BY <1>4, <1>5, <1>6, <1>7, Zenon

(* A request of a verified step keeps what the earlier steps have written. *)
LEMMA EarlierKept ==
  ASSUME TypeOK, PhaseOK, StagedOK, OnTrack, Written, cmd = "freeze", IsVerified,
         NEW sent \in BOOLEAN, NEW got \in {"reply", "damaged", "timeout"},
         Exchange(Request, sent, got)
  PROVE  /\ \A j \in 1 .. K : j + 2 < step =>
              regs'[motor][Settings(count)[j].reg] = Settings(count)[j].val
         /\ step >= 13 =>
              regs'[motor]["Offset"] = Encoded(Correction(midpoint[motor]))
<1>1. Request \in Requests
  BY RequestType, Zenon
<1>2. /\ Current.op \in {"write", "reg_write"}
      /\ step \in 1 .. 14 /\ K = 8
  BY StepFacts, FreezeProgram, Zenon
<1>3. /\ \A j \in 1 .. K : j + 2 < step =>
           regs[motor][Settings(count)[j].reg] = Settings(count)[j].val
      /\ step >= 13 =>
           regs[motor]["Offset"] = Encoded(Correction(midpoint[motor]))
  BY <1>2 DEF Written
<1>4. CASE phase = "action"
  <2>1. Request.op = "action"
    BY <1>4, Zenon DEF Request, Req
  <2>2. step >= 4 => staged[motor] \in OwnWrites
    BY <1>2 DEF StagedOK
  <2>3. OffsetWrite.val = Encoded(Correction(midpoint[motor]))
    BY Zenon DEF OffsetWrite
  <2>4. step >= 4 =>
          /\ \A j \in 1 .. K :
               regs[motor][Settings(count)[j].reg] = Settings(count)[j].val
                 => regs'[motor][Settings(count)[j].reg] = Settings(count)[j].val
          /\ regs[motor]["Offset"] = OffsetWrite.val
               => regs'[motor]["Offset"] = OffsetWrite.val
    BY <1>1, <2>1, <2>2, ActionKeeps, Zenon
  <2>5. (\A j \in 1 .. K : j + 2 < step => step >= 4) /\ (step >= 13 => step >= 4)
    BY <1>2
  <2> QED BY <1>3, <2>3, <2>4, <2>5, Zenon
<1>5. CASE phase # "action"
  <2>1. /\ \A j \in 1 .. K : /\ Settings(count)[j].reg \in Registers
                             /\ Settings(count)[j].reg \notin {"Acc", "Lock"}
        /\ "Offset" \in Registers
    BY SettingsFacts, Zenon DEF SettingsRegisters, Registers
  <2>2. Current.op = "write" => Current.reg \in {"Acc", "Lock"}
    <3>1. Current.op = "write" => step \in {2, 11, 13}
      BY <1>2, FreezeProgram DEF Req
    <3> QED BY <3>1, FreezeProgram DEF Req
  <2>3. Request.op = "write" => Request.reg \in {"Acc", "Lock"}
    BY <2>2, Zenon DEF Request, Req
  <2>4. Request.op \in {"write", "reg_write", "read"}
    BY <1>2, <1>5, Zenon DEF Request, Req, TypeOK
  <2>5. \A x \in Registers : x \notin {"Acc", "Lock"} => regs'[motor][x] = regs[motor][x]
    <3>1. CASE Request.op = "write"
      <4>1. \A x \in Registers : x # Request.reg => regs'[motor][x] = regs[motor][x]
        BY <1>1, <3>1, ServoFacts, Zenon
      <4> QED BY <2>3, <3>1, <4>1, Zenon
    <3>2. CASE Request.op \in {"reg_write", "read"}
      BY <1>1, <3>2, ServoFacts, Zenon
    <3> QED BY <2>4, <3>1, <3>2, Zenon
  <2> QED BY <1>3, <2>1, <2>5, Zenon
<1> QED BY <1>4, <1>5, Zenon

(* A motor whose program begins owes nothing.                              *)
LEMMA FreshMotor ==
  ASSUME step' = 1
  PROVE  Written'
BY DEF Written, K

(* What Written says of the next state of a freeze.                        *)
LEMMA FreezeWritten ==
  ASSUME cmd' = "freeze", count' = count, midpoint' = midpoint, motor' = motor,
         \A j \in 1 .. K : j + 2 < step' =>
           regs'[motor][Settings(count)[j].reg] = Settings(count)[j].val,
         step' >= 13 =>
           regs'[motor]["Offset"] = Encoded(Correction(midpoint[motor])),
         step' = 14 => regs'[motor]["Lock"] = 1
  PROVE  Written'
<1>1. Settings(count)' = Settings(count)
  BY DEF Settings, Pid
<1>2. K + 5 = 13 /\ K + 6 = 14
  BY DEF K
<1> QED BY <1>1, <1>2, Zenon DEF Written

(* A verified step that leaves the motor verified is repeated, was the     *)
(* single write without a read-back, or has read back what it wrote.       *)
LEMMA VerifiedAdvance ==
  ASSUME NEW sent \in BOOLEAN, NEW got \in {"reply", "damaged", "timeout"},
         VerifiedOutcome(sent, got), verified'
  PROVE  \/ step' = step
         \/ step' = step + 1 /\ step = 11
         \/ /\ step' = step + 1 /\ phase = "verify" /\ Succeeds(Request, sent, got)
            /\ Head(OnLine(Request, sent)).val = Current.val
BY Zenon DEF VerifiedOutcome

(* What the motor holds stays what its verified steps have written.        *)
LEMMA NextWritten ==
  ASSUME TypeOK, PhaseOK, LineOK, StagedOK, OnTrack => Written, Next, OnTrack'
  PROVE  Written'
<1>1. CASE SkipMotor
  BY <1>1, FreshMotor, Zenon DEF SkipMotor, FinishMotor
<1>2. CASE StrictRequest
  <2>1. PICK sent \in BOOLEAN, got \in {"reply", "damaged", "timeout"} :
          StrictOutcome(sent, got)
    BY <1>2, StrictEnds, Zenon
  <2>2. CASE FinishMotor(verified) \/ FinishMotor(FALSE)
    BY <2>2, FreshMotor, Zenon DEF FinishMotor
  <2>3. CASE ~(FinishMotor(verified) \/ FinishMotor(FALSE))
    <3>1. /\ Succeeds(Current, sent, got) \/ Current.mode = "warn"
          /\ step # Last /\ step' = step + 1
          /\ motor' = motor /\ verified' = verified /\ allOk' = allOk
          /\ ~IsVerified /\ Exchange(Current, sent, got)
      BY <2>1, <2>3, Zenon DEF StrictOutcome
    <3>2. Current \in Requests /\ cmd' = cmd
      BY <3>1, RequestType, Zenon DEF Exchange, inputs
    <3>3. CASE cmd = "freeze"
      <4>1. step' = 2
        BY <3>1, <3>3, StrictSteps
      <4> QED BY <3>2, <3>3, <4>1 DEF Written, K
    <3>4. CASE cmd = "reset"
      <4>1. /\ step \in {1, 2, 3, 4, 6} /\ Succeeds(Current, sent, got)
            /\ OnTrack /\ Written
        BY <3>1, <3>2, <3>4, StrictSteps, Zenon DEF OnTrack
      <4>2. CASE step \in {1, 2, 3, 4}
        BY <3>1, <3>2, <3>4, <4>2 DEF Written
      <4>3. CASE step = 6
        <5>1. Current.op = "write" /\ Current.reg = "Lock" /\ Current.val = 1
          BY <3>4, <4>3, ResetProgram DEF Req
        <5>2. line = <<>>
          BY <3>4, <4>1, <4>3 DEF LineOK
        <5>3. sent
          BY <3>1, <3>2, <4>1, <5>2, GenuineReply, Zenon
        <5>4. regs'[motor]["Lock"] = 1
          BY <3>1, <3>2, <5>1, <5>3, ServoFacts, Zenon
        <5>5. regs'[motor]["Offset"] = regs[motor]["Offset"]
          <6>1. \A x \in Registers : x # "Lock" => regs'[motor][x] = regs[motor][x]
            BY <3>1, <3>2, <5>1, OthersKept, Zenon
          <6> QED BY <6>1, Zenon DEF Registers
        <5>6. regs[motor]["Offset"] = 0
          BY <3>4, <4>1, <4>3 DEF Written
        <5> QED BY <3>1, <3>2, <3>4, <5>4, <5>5, <5>6, Zenon DEF Written
      <4> QED BY <4>1, <4>2, <4>3, Zenon
    <3> QED BY <3>3, <3>4, Zenon DEF TypeOK
  <2> QED BY <2>2, <2>3, Zenon
<1>3. CASE VerifiedRequest \/ ReadBack
  <2>1. PICK sent \in BOOLEAN, got \in {"reply", "damaged", "timeout"} :
          VerifiedOutcome(sent, got)
    BY <1>3, VerifiedEnds, Zenon
  <2>2. /\ IsVerified /\ Request \in Requests /\ Exchange(Request, sent, got)
        /\ inputs' = inputs /\ motor' = motor /\ allOk' = allOk
        /\ verified' = verified \/ (verified' => verified)
    BY <2>1, Zenon DEF VerifiedOutcome
  <2>3. cmd' = cmd /\ count' = count /\ midpoint' = midpoint
    BY <2>2, Zenon DEF inputs
  <2>4. verified /\ verified' /\ OnTrack /\ Written
    BY <2>2, <2>3, Zenon DEF OnTrack
  <2>5. Settings(count)' = Settings(count)
    BY <2>3 DEF Settings, Pid
  <2>6. CASE cmd = "reset"
    <3>1. step = 5
      BY <2>2, <2>6, VerifiedReset, Zenon
    <3>2. \/ step' = step
          \/ step = 11
          \/ /\ step' = step + 1 /\ phase = "verify" /\ Succeeds(Request, sent, got)
             /\ Head(OnLine(Request, sent)).val = Current.val
      BY <2>1, <2>4, VerifiedAdvance, Zenon
    <3>3. CASE step' = step
      BY <2>3, <2>6, <3>1, <3>3 DEF Written
    <3>4. ASSUME step' = step + 1, phase = "verify", Succeeds(Request, sent, got),
                 Head(OnLine(Request, sent)).val = Current.val
          PROVE  Written'
      <4>1. Current.reg = "Offset" /\ Current.val = 0
        BY <2>6, <3>1, ResetProgram DEF Req
      <4>2. regs[motor]["Offset"] = 0
        BY <2>2, <2>4, <3>4, <4>1, ReadBackGenuine, Zenon
      <4>3. Request.op = "read"
        BY <2>2, <3>4, Zenon DEF Request, Req
      <4>4. regs'[motor] = regs[motor]
        BY <2>2, <4>3, ServoFacts, Zenon
      <4> QED BY <2>2, <2>3, <2>6, <3>1, <3>4, <4>2, <4>4 DEF Written
    <3> QED BY <3>1, <3>2, <3>3, <3>4
  <2>7. CASE cmd = "freeze"
    <3>1. step \in 2 .. 13 /\ K = 8
      BY <2>2, <2>7, FreezeProgram DEF IsVerified, Req
    <3>2. /\ \A j \in 1 .. K : j + 2 < step =>
               regs'[motor][Settings(count)[j].reg] = Settings(count)[j].val
          /\ step >= 13 =>
               regs'[motor]["Offset"] = Encoded(Correction(midpoint[motor]))
      BY <2>2, <2>4, <2>7, EarlierKept, Zenon
    <3>3. \/ step' = step
          \/ step' = step + 1 /\ step = 11
          \/ /\ step' = step + 1 /\ phase = "verify" /\ Succeeds(Request, sent, got)
             /\ Head(OnLine(Request, sent)).val = Current.val
      BY <2>1, <2>4, VerifiedAdvance, Zenon
    <3>4. ASSUME step' = step \/ (step' = step + 1 /\ step = 11)
          PROVE  Written'
      <4>1. /\ \A j \in 1 .. K : j + 2 < step' => j + 2 < step
            /\ step' >= 13 => step >= 13
            /\ step' # 14
        BY <3>1, <3>4
      <4> QED BY <2>2, <2>3, <2>7, <3>2, <4>1, FreezeWritten, Zenon
    <3>5. ASSUME step' = step + 1, phase = "verify", Succeeds(Request, sent, got),
                 Head(OnLine(Request, sent)).val = Current.val
          PROVE  Written'
      <4>1. /\ step \in 3 .. 10 => /\ Current.reg = Settings(count)[step - 2].reg
                                   /\ Current.val = Settings(count)[step - 2].val
            /\ step = 12 =>
                 /\ Current.reg = "Offset"
                 /\ Current.val = Encoded(Correction(midpoint[motor]))
            /\ step = 13 => Current.reg = "Lock" /\ Current.val = 1
        BY <2>7, FreezeProgram, SMTT(20) DEF Req
      <4>2. regs[motor][Current.reg] = Current.val
        BY <2>2, <2>4, <3>5, ReadBackGenuine, Zenon
      <4>3. Request.op = "read"
        BY <2>2, <3>5, Zenon DEF Request, Req
      <4>4. regs'[motor] = regs[motor]
        BY <2>2, <4>3, ServoFacts, Zenon
      <4>5. ASSUME NEW j \in 1 .. K, j + 2 < step'
            PROVE  regs'[motor][Settings(count)[j].reg] = Settings(count)[j].val
        <5>1. CASE j + 2 < step
          BY <3>2, <5>1, Zenon
        <5>2. CASE ~(j + 2 < step)
          <6>1. j = step - 2 /\ step \in 3 .. 10
            BY <3>1, <3>5, <4>5, <5>2
          <6> QED BY <4>1, <4>2, <4>4, <6>1, Zenon
        <5> QED BY <5>1, <5>2, Zenon
      <4>6. step' >= 13 =>
              regs'[motor]["Offset"] = Encoded(Correction(midpoint[motor]))
        <5>1. CASE step = 12
          BY <2>2, <4>1, <4>2, <4>4, <5>1, Zenon
        <5>2. CASE step = 13
          BY <2>2, <3>2, <5>2
        <5> QED BY <3>1, <3>5, <5>1, <5>2
      <4>7. step' = 14 => regs'[motor]["Lock"] = 1
        BY <2>2, <3>1, <3>5, <4>1, <4>2, <4>4
      <4> QED BY <2>2, <2>3, <2>7, <4>5, <4>6, <4>7, FreezeWritten, Zenon
    <3> QED BY <3>3, <3>4, <3>5, Zenon
  <2> QED BY <2>6, <2>7, Zenon DEF TypeOK
<1> QED BY <1>1, <1>2, <1>3, Zenon DEF Next
-----------------------------------------------------------------------------
(* A request of a verified step ends neither the motor nor the command.    *)
LEMMA VerifiedStays ==
  ASSUME TypeOK, PhaseOK, VerifiedRequest \/ ReadBack
  PROVE  motor' = motor /\ allOk' = allOk /\ status' = status
<1>1. PICK sent \in BOOLEAN, got \in {"reply", "damaged", "timeout"} :
        VerifiedOutcome(sent, got)
  BY VerifiedEnds, Zenon
<1> QED BY <1>1, Zenon DEF VerifiedOutcome

(* Every step concerns the current motor only.                             *)
LEMMA OtherMotorsKept ==
  ASSUME TypeOK, Next
  PROVE  /\ inputs' = inputs /\ status = "running"
         /\ \A m \in Motors : m # motor => regs'[m] = regs[m]
<1>1. CASE SkipMotor
  BY <1>1, Zenon DEF SkipMotor, inputs
<1>2. CASE StrictRequest
  <2>1. PICK sent \in BOOLEAN, got \in {"reply", "damaged", "timeout"} :
          Exchange(Current, sent, got)
    BY <1>2, Zenon DEF StrictRequest
  <2>2. status = "running"
    BY <2>1, Zenon DEF Exchange
  <2> QED BY <2>1, <2>2, RequestType, ExchangeType, Zenon
<1>3. CASE VerifiedRequest \/ ReadBack
  <2>1. PICK sent \in BOOLEAN, got \in {"reply", "damaged", "timeout"} :
          IsVerified /\ Exchange(Request, sent, got)
    BY <1>3, Zenon DEF VerifiedRequest, ReadBack
  <2>2. status = "running"
    BY <2>1, Zenon DEF Exchange
  <2> QED BY <2>1, <2>2, RequestType, ExchangeType, Zenon
<1> QED BY <1>1, <1>2, <1>3, Zenon DEF Next

(* A motor that ends its program with everything verified is done: the     *)
(* last action applies one of its own writes, or none.                     *)
LEMMA LastStepDone ==
  ASSUME TypeOK, PhaseOK, StagedOK, Written, OnTrack, step = Last, ~IsVerified,
         NEW sent \in BOOLEAN, NEW got \in {"reply", "damaged", "timeout"},
         Exchange(Current, sent, got), NEW m \in Motors, m = motor
  PROVE  Done(m)'
<1>1. /\ Current \in Requests /\ Current.op = "action"
      /\ step \in {7, 14}
  <2>1. CASE cmd = "reset"
    BY <2>1, RequestType, ResetProgram DEF Req
  <2>2. CASE cmd = "freeze"
    BY <2>2, RequestType, FreezeProgram DEF Req
  <2> QED BY <2>1, <2>2, Zenon DEF TypeOK
<1>2. staged[motor] \in OwnWrites
  BY <1>1 DEF StagedOK
<1>3. /\ cmd = "freeze" => \A j \in 1 .. K :
           regs[motor][Settings(count)[j].reg] = Settings(count)[j].val
             => regs'[motor][Settings(count)[j].reg] = Settings(count)[j].val
      /\ regs[motor]["Offset"] = OffsetWrite.val
           => regs'[motor]["Offset"] = OffsetWrite.val
      /\ regs'[motor]["Lock"] = regs[motor]["Lock"]
  BY <1>1, <1>2, ActionKeeps, Zenon
<1>4. cmd' = cmd /\ count' = count /\ midpoint' = midpoint
  BY Zenon DEF Exchange, inputs
<1>5. CASE cmd = "reset"
  <2>1. regs[motor]["Offset"] = 0 /\ regs[motor]["Lock"] = 1
    BY <1>5, ResetProgram DEF Written
  <2>2. regs'[motor]["Offset"] = 0 /\ regs'[motor]["Lock"] = 1
    BY <1>3, <1>5, <2>1, Zenon DEF OffsetWrite
  <2>3. regs'[m]["Offset"] = 0 /\ regs'[m]["Lock"] = 1 /\ cmd' = "reset"
    BY <1>4, <1>5, <2>2, Zenon
  <2> QED BY <2>3, Zenon DEF Done, Reset
<1>6. CASE cmd = "freeze"
  <2>1. step = 14 /\ K = 8
    BY <1>6, FreezeProgram, SMTT(20)
  <2>2. /\ \A j \in 1 .. K :
             regs[motor][Settings(count)[j].reg] = Settings(count)[j].val
        /\ regs[motor]["Offset"] = Encoded(Correction(midpoint[motor]))
        /\ regs[motor]["Lock"] = 1
    BY <1>6, <2>1, SMTT(20) DEF Written
  <2>3. OffsetWrite.val = Encoded(Correction(midpoint[motor]))
    BY <1>6, Zenon DEF OffsetWrite
  <2>4. /\ \A j \in 1 .. K :
             regs'[motor][Settings(count)[j].reg] = Settings(count)[j].val
        /\ regs'[motor]["Offset"] = Encoded(Correction(midpoint[motor]))
        /\ regs'[motor]["Lock"] = 1
    BY <1>3, <1>6, <2>2, <2>3, Zenon
  <2>5. Settings(count)' = Settings(count)
    BY <1>4 DEF Settings, Pid
  <2>6. /\ \A j \in 1 .. K :
             regs'[m][Settings(count)'[j].reg] = Settings(count)'[j].val
        /\ regs'[m]["Offset"] = Encoded(Correction(midpoint'[m]))
        /\ regs'[m]["Lock"] = 1
        /\ cmd' # "reset"
    BY <1>4, <1>6, <2>4, <2>5, Zenon
  <2> QED BY <2>6, Zenon DEF Done
<1> QED BY <1>5, <1>6, Zenon DEF TypeOK

(* The motors that are behind stay done.                                   *)
LEMMA NextEarlierDone ==
  ASSUME TypeOK, PhaseOK, LineOK, StagedOK, OnTrack => Written, EarlierDone, Next
  PROVE  EarlierDone'
<1>1. /\ inputs' = inputs /\ status = "running"
      /\ \A m \in Motors : m # motor => regs'[m] = regs[m]
  BY OtherMotorsKept, Zenon
<1>2. cmd' = cmd /\ count' = count /\ midpoint' = midpoint
  BY <1>1, Zenon DEF inputs
<1>3. Decisive' = Decisive /\ Decisive \subseteq 1 .. count
  BY <1>2, Zenon DEF Decisive
<1>4. count \in Nat /\ motor \in 1 .. count /\ 1 .. count \subseteq Motors
  BY CalibrationConstants DEF TypeOK, Motors
<1>5. ASSUME NEW m \in Motors, m # motor, Done(m) PROVE Done(m)'
  <2>1. regs'[m] = regs[m]
    BY <1>1, <1>5, Zenon
  <2>2. Settings(count)' = Settings(count)
    BY <1>2 DEF Settings, Pid
  <2> QED BY <1>2, <1>5, <2>1, <2>2, Zenon DEF Done, Reset
<1>6. ASSUME motor' = motor, allOk' = allOk, status' = status
      PROVE  EarlierDone'
  <2> SUFFICES ASSUME allOk', NEW m \in Decisive, m < motor
               PROVE  Done(m)'
    BY <1>1, <1>3, <1>6, Zenon DEF EarlierDone
  <2>1. m \in Motors /\ m # motor
    BY <1>3, <1>4
  <2>2. Done(m)
    BY <1>1, <1>6, Zenon DEF EarlierDone
  <2> QED BY <1>5, <2>1, <2>2, Zenon
<1>7. ASSUME NEW v \in BOOLEAN, FinishMotor(v),
             \A m \in Decisive : v /\ allOk /\ m = motor => Done(m)'
      PROVE  EarlierDone'
  <2>1. /\ allOk' = (allOk /\ (v \/ (cmd = "reset" /\ motor > Counted)))
        /\ \/ motor < count /\ motor' = motor + 1 /\ status' = status
           \/ motor = count /\ motor' = motor
    BY <1>4, <1>7 DEF FinishMotor
  <2> SUFFICES ASSUME allOk', NEW m \in Decisive, m < motor' \/ status' # "running"
               PROVE  Done(m)'
    BY <1>3, Zenon DEF EarlierDone
  <2>2. allOk /\ (v \/ (cmd = "reset" /\ motor > Counted))
    BY <2>1, Zenon
  <2>3. m \in 1 .. count /\ m \in Motors
    BY <1>3, <1>4, Zenon
  <2>4. m <= motor
    BY <1>1, <1>4, <2>1, <2>3
  <2>5. CASE m = motor
    <3>1. v
      BY <1>4, <2>2, <2>3, <2>5, CalibrationConstants DEF Decisive
    <3> QED BY <1>7, <2>2, <2>5, <3>1, Zenon
  <2>6. CASE m # motor
    <3>1. m < motor
      BY <1>4, <2>3, <2>4, <2>6
    <3>2. Done(m)
      BY <2>2, <3>1, Zenon DEF EarlierDone
    <3> QED BY <1>5, <2>3, <2>6, <3>2, Zenon
  <2> QED BY <2>5, <2>6, Zenon
<1>8. CASE SkipMotor
  <2>1. FinishMotor(TRUE) /\ cmd = "freeze" /\ midpoint[motor] = NoMidpoint
    BY <1>8, Zenon DEF SkipMotor, NothingToFreeze
  <2>2. motor \notin Decisive
    BY <2>1, Zenon DEF Decisive
  <2> QED BY <1>7, <2>1, <2>2, Zenon
<1>9. CASE StrictRequest
  <2>1. PICK sent \in BOOLEAN, got \in {"reply", "damaged", "timeout"} :
          StrictOutcome(sent, got)
    BY <1>9, StrictEnds, Zenon
  <2>2. CASE FinishMotor(FALSE)
    BY <1>7, <2>2, Zenon
  <2>3. CASE step = Last /\ FinishMotor(verified)
    <3>1. verified \in BOOLEAN /\ Exchange(Current, sent, got) /\ ~IsVerified
      BY <2>1, Zenon DEF StrictOutcome, TypeOK
    <3>2. ASSUME NEW m \in Decisive, verified, allOk, m = motor PROVE Done(m)'
      <4>1. OnTrack /\ Written
        BY <3>2, Zenon DEF OnTrack, Decisive
      <4> QED BY <1>3, <1>4, <2>3, <3>1, <3>2, <4>1, LastStepDone, Zenon
    <3> QED BY <1>7, <2>3, <3>1, <3>2, Zenon
  <2>4. CASE ~(FinishMotor(FALSE) \/ (step = Last /\ FinishMotor(verified)))
    <3>1. motor' = motor /\ allOk' = allOk /\ status' = status
      BY <2>1, <2>4, Zenon DEF StrictOutcome
    <3> QED BY <1>6, <3>1, Zenon
  <2> QED BY <2>2, <2>3, <2>4, Zenon
<1>10. CASE VerifiedRequest \/ ReadBack
  BY <1>6, <1>10, VerifiedStays, Zenon
<1> QED BY <1>8, <1>9, <1>10, Zenon DEF Next
-----------------------------------------------------------------------------
(* The inductive invariant.                                                *)
IInv ==
  /\ TypeOK /\ ResultOK /\ PhaseOK
  /\ status = "running" => LineOK /\ StagedOK /\ (OnTrack => Written)
  /\ EarlierDone

(* It holds when the command starts.                                       *)
LEMMA InitIInv == Init => IInv
<1> SUFFICES ASSUME Init PROVE IInv
  BY Zenon
<1>1. count \in Motors /\ motor = 1 /\ 1 \in 1 .. count
  BY CalibrationConstants DEF Init, Motors
<1>2. midpoint \in [Motors -> Positions \cup {NoMidpoint}]
  BY CalibrationConstants, Zenon DEF Init
<1>3. regs \in [Motors -> [Registers -> Values]]
  <2>1. 1 \in Values /\ 7 \in Values
    BY WordFacts DEF Values
  <2> QED BY <2>1, Zenon DEF Init
<1>4. staged \in [Motors -> Writes \cup {NoWrite}]
  <2>1. [reg |-> "Offset", val |-> 9] \in Writes
    BY WordFacts DEF Writes, Registers, Values
  <2> QED BY <2>1 DEF Init
<1>5. /\ line \in Seq(Replies) /\ Len(line) \in Nat /\ Len(line) <= 1
      /\ \A i \in 1 .. Len(line) : ~Data(line[i])
  <2>1. StaleReplies \subseteq Replies
    <3>1. 0 \in Values
      BY WordFacts DEF Values
    <3> QED BY <3>1 DEF StaleReplies, Replies
  <2>2. \A r \in StaleReplies : ~Data(r)
    BY DEF StaleReplies, Data, ScanSize
  <2>3. CASE line = <<>>
    BY <2>3
  <2>4. CASE MaxStale # 0 /\ \E r \in StaleReplies : line = <<r>>
    <3>1. PICK r \in StaleReplies : line = <<r>>
      BY <2>4, Zenon
    <3> QED BY <2>1, <2>2, <3>1
  <2> QED BY <2>3, <2>4, Zenon DEF Init
<1>6. 1 \in 1 .. Last /\ 1 \in 1 .. Retries
  BY CalibrationConstants DEF Last, ResetLength, FreezeLength, K
<1>7. TypeOK
  BY <1>1, <1>2, <1>3, <1>4, <1>5, <1>6, Zenon DEF TypeOK, Init
<1>8. ResultOK /\ PhaseOK
  BY Zenon DEF Init, ResultOK, PhaseOK
<1>9. LineOK
  BY <1>5 DEF Init, LineOK
<1>10. StagedOK /\ Written
  BY DEF Init, StagedOK, Written, K
<1>11. EarlierDone
  <2>1. \A m \in Decisive : m \in 1 .. count
    BY Zenon DEF Decisive
  <2> QED BY <1>1, <2>1 DEF Init, EarlierDone, Motors
<1> QED BY <1>7, <1>8, <1>9, <1>10, <1>11, Zenon DEF IInv

(* A stuttering step changes no part of the proof's state functions.       *)
LEMMA Stutter ==
  ASSUME UNCHANGED vars
  PROVE  /\ UNCHANGED <<cmd, count, midpoint, present, regs, staged, line>>
         /\ UNCHANGED <<motor, step, phase, attempt, verified, allOk, status>>
         /\ UNCHANGED <<faults, missed>>
         /\ Current' = Current /\ Settings(count)' = Settings(count)
         /\ Decisive' = Decisive
<1>1. /\ UNCHANGED <<cmd, count, midpoint, present, regs, staged, line>>
      /\ UNCHANGED <<motor, step, phase, attempt, verified, allOk, status>>
      /\ UNCHANGED <<faults, missed>>
  BY Zenon DEF vars, inputs, control
<1>2. Current' = Current
  BY <1>1, Zenon DEF Current
<1>3. Settings(count)' = Settings(count)
  BY <1>1 DEF Settings, Pid
<1>4. Decisive' = Decisive
  BY <1>1, Zenon DEF Decisive
<1> QED BY <1>1, <1>2, <1>3, <1>4, Zenon

(* No request disturbs it.                                                 *)
LEMMA NextIInv ==
  ASSUME IInv, [Next]_vars
  PROVE  IInv'
<1>1. CASE Next
  <2>1. TypeOK' /\ ResultOK' /\ PhaseOK'
    BY <1>1, NextControl, Zenon DEF IInv
  <2>2. status = "running"
    BY <1>1, OtherMotorsKept, Zenon DEF IInv
  <2>3. /\ TypeOK /\ PhaseOK /\ LineOK /\ StagedOK
        /\ OnTrack => Written
        /\ EarlierDone
    BY <2>2, Zenon DEF IInv
  <2>4. status' = "running" => LineOK'
    BY <1>1, <2>3, NextLineOK, Zenon
  <2>5. status' = "running" => StagedOK'
    BY <1>1, <2>3, NextStagedOK, Zenon
  <2>6. OnTrack' => Written'
    BY <1>1, <2>3, NextWritten, Zenon
  <2>7. EarlierDone'
    BY <1>1, <2>3, NextEarlierDone, Zenon
  <2> QED BY <2>1, <2>4, <2>5, <2>6, <2>7, Zenon DEF IInv
<1>2. CASE UNCHANGED vars
  <2>1. /\ UNCHANGED <<cmd, count, midpoint, present, regs, staged, line>>
        /\ UNCHANGED <<motor, step, phase, attempt, verified, allOk, status>>
        /\ UNCHANGED <<faults, missed>>
        /\ Current' = Current /\ Settings(count)' = Settings(count)
        /\ Decisive' = Decisive
    BY <1>2, Stutter, Zenon
  <2>2. TypeOK' = TypeOK
    BY <2>1, Zenon DEF TypeOK, Last
  <2>3. ResultOK' = ResultOK /\ PhaseOK' = PhaseOK /\ OnTrack' = OnTrack
    BY <2>1, Zenon DEF ResultOK, PhaseOK, OnTrack, IsVerified
  <2>4. LineOK' = LineOK
    BY <2>1, <2>3, Zenon DEF LineOK, IsVerified, Data
  <2>5. OwnWrites' = OwnWrites
    BY <2>1, Zenon DEF OwnWrites, OffsetWrite, SettingWrite
  <2>6. StagedOK' = StagedOK
    BY <2>1, <2>3, <2>5, Zenon DEF StagedOK
  <2>7. Written' = Written
    BY <2>1, Zenon DEF Written
  <2>8. \A m : Done(m)' = Done(m)
    BY <2>1, Zenon DEF Done, Reset
  <2>9. EarlierDone' = EarlierDone
    BY <2>1, <2>8, Zenon DEF EarlierDone
  <2> QED BY <2>1, <2>2, <2>3, <2>4, <2>6, <2>7, <2>9, Zenon DEF IInv
<1> QED BY <1>1, <1>2, Zenon

(* A finished program has done what the command asks for.                  *)
LEMMA IInvSuccess == IInv => SuccessMeansWritten
<1> SUFFICES ASSUME IInv, status = "success", NEW m \in Decisive
             PROVE  IF cmd = "reset" THEN Reset(m) ELSE Frozen(m)
  BY Zenon DEF SuccessMeansWritten
<1>1. Done(m)
  BY Zenon DEF IInv, ResultOK, EarlierDone
<1>2. CASE cmd = "reset"
  BY <1>1, <1>2, Zenon DEF Done
<1>3. CASE cmd = "freeze"
  <2>1. m \in Motors /\ midpoint[m] # NoMidpoint
    BY <1>3, CalibrationConstants DEF IInv, TypeOK, Decisive, Motors
  <2>2. midpoint[m] \in Positions \cup {NoMidpoint}
    BY <2>1, Zenon DEF IInv, TypeOK
  <2>3. Centred(m)
    BY <1>1, <1>3, <2>1, <2>2, CorrectionFacts DEF Done, Centred
  <2> QED BY <1>1, <1>3, <2>3, Zenon DEF Done, Frozen
<1> QED BY <1>2, <1>3, Zenon DEF IInv, TypeOK
-----------------------------------------------------------------------------
(* process_command's calibration loops keep their types: the loop variable *)
(* stays within the motors, no verified write is tried more than           *)
(* MAX_RETRIES times.  No assumption on the bus is needed.                 *)
THEOREM CalibrationTypes == Spec => []TypeOK
<1>1. Init => IInv
  BY InitIInv, Zenon
<1>2. IInv /\ [Next]_vars => IInv'
  BY NextIInv, Zenon
<1>3. IInv => TypeOK
  BY Zenon DEF IInv
<1> QED BY <1>1, <1>2, <1>3, PTL DEF Spec

(* A freeze answered with success has stored every setting and the         *)
(* centring offset of every motor with a midpoint and locked its EEPROM    *)
(* again, and a reset answered with success has cleared the offset of      *)
(* every counted motor and locked it, whatever the bus loses, delays or    *)
(* damages, whatever was on the line or staged before, and however many    *)
(* late replies the drains of the line miss.                               *)
THEOREM SuccessIsReal == Spec => []SuccessMeansWritten
<1>1. Init => IInv
  BY InitIInv, Zenon
<1>2. IInv /\ [Next]_vars => IInv'
  BY NextIInv, Zenon
<1>3. IInv => SuccessMeansWritten
  BY IInvSuccess, Zenon
<1> QED BY <1>1, <1>2, <1>3, PTL DEF Spec
-----------------------------------------------------------------------------
(* A command on a bus without faults.                                      *)

Clean == faults = 0 /\ Decisive \subseteq present

(* From this step on nothing is staged between two writes.                 *)
FirstClear == IF cmd = "freeze" THEN 2 ELSE 3

(* Every request of a motor that is there has been answered and has had    *)
(* its effect; one that is not there is still at a step that may fail.     *)
CleanOK ==
  /\ allOk /\ verified /\ line = <<>>
  /\ motor \in present =>
       /\ phase = "write" /\ step >= FirstClear => staged[motor] = NoWrite
       /\ phase = "action" /\ Current.op = "reg_write" => staged[motor] = CurrentWrite
       /\ phase = "action" /\ Current.op = "write" =>
            staged[motor] = NoWrite /\ regs[motor][Current.reg] = Stored(Current)
       /\ phase = "verify" =>
            staged[motor] = NoWrite /\ regs[motor][Current.reg] = Stored(Current)
  /\ motor \notin present =>
       phase = "write" /\ IF cmd = "freeze" THEN step <= 2 ELSE step = 1

CleanInv ==
  Clean => status # "rejected" /\ (status = "running" => CleanOK)

(* Without a fault a motor that is there answers at once, and one that is  *)
(* not there never does.                                                   *)
LEMMA CleanExchange ==
  ASSUME TypeOK, NEW r \in Requests, NEW sent \in BOOLEAN,
         NEW got \in {"reply", "damaged", "timeout"}, Exchange(r, sent, got),
         line = <<>>, faults' = 0
  PROVE  /\ Remaining(r, sent, got) = <<>>
         /\ motor \in present => /\ sent /\ Succeeds(r, sent, got)
                                 /\ Head(OnLine(r, sent)) = ReplyTo(r)
         /\ motor \notin present => ~sent /\ ~Succeeds(r, sent, got)
<1>1. Faults(r, sent, got) = 0
  BY DEF Exchange, Faults, TypeOK
<1>2. ReplyTo(r) \in Replies
  BY ReplyType, Zenon
<1>3. CASE motor \in present
  <2>1. sent /\ got # "damaged" /\ ~(got = "timeout" /\ OnLine(r, sent) # <<>>)
    BY <1>1, <1>3 DEF Faults
  <2>2. OnLine(r, sent) = <<ReplyTo(r)>> /\ OnLine(r, sent) # <<>>
    BY <1>2, <2>1 DEF OnLine
  <2>3. got = "reply"
    BY <2>1, <2>2, Zenon
  <2>4. ASSUME NEW x \in Replies PROVE Head(<<x>>) = x
    OBVIOUS
  <2>5. Head(OnLine(r, sent)) = ReplyTo(r)
    BY <1>2, <2>2, <2>4, Zenon
  <2>6. Succeeds(r, sent, got)
    BY <2>3, <2>5 DEF Succeeds, Accepted, ReplyTo
  <2> QED BY <1>3, <2>1, <2>5, <2>6, GenuineReply, Zenon
<1>4. CASE motor \notin present
  <2>1. ~sent /\ got = "timeout"
    BY <1>4, Zenon DEF Exchange, OnLine
  <2> QED BY <1>4, <2>1, Zenon DEF Succeeds, Remaining, OnLine
<1> QED BY <1>3, <1>4, Zenon

(* Only the best-effort write is stored differently by some servos.        *)
LEMMA ClampedIsEffort ==
  ASSUME TypeOK, Stored(Current) # Current.val
  PROVE  Current.mode = "effort"
<1>1. Current.reg = "Acc"
  BY Zenon DEF Stored
<1>2. CASE cmd = "reset"
  BY <1>1, <1>2, ResetProgram DEF Req
<1>3. CASE cmd = "freeze"
  <2>1. ASSUME step \in 3 .. 10 PROVE Settings(count)[step - 2].reg # "Acc"
    <3>1. step - 2 \in 1 .. K
      BY <2>1 DEF K
    <3>2. Settings(count)[step - 2].reg \in SettingsRegisters
      BY <3>1, SettingsFacts, Zenon
    <3> QED BY <3>2, Zenon DEF SettingsRegisters
  <2> QED BY <1>1, <1>3, <2>1, FreezeProgram DEF Req
<1> QED BY <1>2, <1>3, Zenon DEF TypeOK

(* It holds when the command starts: what is staged then does not matter.  *)
LEMMA InitClean == Init => CleanInv
<1> SUFFICES ASSUME Init, Clean PROVE CleanOK
  BY Zenon DEF Init, CleanInv
<1>1. line = <<>>
  <2>1. Len(line) = 0
    BY Zenon DEF Init, Clean
  <2> QED BY <2>1 DEF Init
<1> QED BY <1>1 DEF Init, CleanOK, FirstClear

(* No request disturbs it.                                                 *)
LEMMA NextClean ==
  ASSUME TypeOK, PhaseOK, CleanInv, Next
  PROVE  CleanInv'
<1> SUFFICES ASSUME Clean'
             PROVE  (status # "rejected" /\ (status = "running" => CleanOK))'
  BY Zenon DEF CleanInv
<1>1. /\ inputs' = inputs /\ status = "running"
      /\ cmd' = cmd /\ count' = count /\ midpoint' = midpoint /\ present' = present
  BY OtherMotorsKept, Zenon DEF inputs
<1>2. Decisive' = Decisive /\ FirstClear' = FirstClear
  BY <1>1, Zenon DEF Decisive, FirstClear
<1>3. faults' = 0 /\ faults = 0
  <2>1. faults' = faults \/ \E r, sent, got : faults' = faults + Faults(r, sent, got)
    BY Zenon DEF Next, SkipMotor, StrictRequest, VerifiedRequest, ReadBack, Exchange
  <2>2. \A r, sent, got : Faults(r, sent, got) \in Nat
    BY DEF Faults
  <2> QED BY <2>1, <2>2 DEF Clean, TypeOK
<1>4. CleanOK /\ Decisive \subseteq present
  BY <1>1, <1>2, <1>3, Zenon DEF CleanInv, Clean
<1>5. allOk /\ verified /\ line = <<>> /\ motor \in 1 .. count /\ count \in Nat
  BY <1>4, CalibrationConstants DEF CleanOK, TypeOK, Motors
<1>6. motor \notin present =>
        IF cmd = "reset" THEN motor > Counted ELSE midpoint[motor] = NoMidpoint
  BY <1>4, <1>5, CalibrationConstants DEF Decisive
<1>7. ASSUME NEW v \in BOOLEAN, FinishMotor(v), line' = <<>>,
             v \/ (cmd = "reset" /\ motor > Counted)
      PROVE  status' # "rejected" /\ CleanOK'
  <2>1. /\ allOk' = (allOk /\ (v \/ (cmd = "reset" /\ motor > Counted)))
        /\ step' = 1 /\ phase' = "write" /\ verified' = TRUE
    BY <1>7, Zenon DEF FinishMotor
  <2>2. allOk' /\ verified'
    BY <1>5, <1>7, <2>1, Zenon
  <2>3. status' # "rejected"
    BY <1>1, <1>5, <1>7, Zenon DEF FinishMotor
  <2> QED BY <1>7, <2>1, <2>2, <2>3 DEF CleanOK, FirstClear
<1>8. ASSUME phase' = "write", motor' = motor, allOk' = allOk, verified',
             line' = <<>>, status' = status, motor \in present,
             step' >= FirstClear => staged'[motor] = NoWrite
      PROVE  status' # "rejected" /\ CleanOK'
  BY <1>1, <1>2, <1>5, <1>8, Zenon DEF CleanOK
<1>9. CASE SkipMotor
  <2>1. FinishMotor(TRUE) /\ line' = <<>>
    BY <1>5, <1>9, Zenon DEF SkipMotor
  <2> QED BY <1>7, <2>1, Zenon
<1>10. CASE StrictRequest
  <2>1. PICK sent \in BOOLEAN, got \in {"reply", "damaged", "timeout"} :
          StrictOutcome(sent, got)
    BY <1>10, StrictEnds, Zenon
  <2>2. /\ ~IsVerified /\ Exchange(Current, sent, got)
        /\ line' = Remaining(Current, sent, got) /\ Current \in Requests
    BY <2>1, RequestType, Zenon DEF StrictOutcome
  <2>3. /\ line' = <<>>
        /\ motor \in present => sent /\ Succeeds(Current, sent, got)
        /\ motor \notin present => ~sent /\ ~Succeeds(Current, sent, got)
    BY <1>3, <1>5, <2>2, CleanExchange, Zenon
  <2>4. phase = "write"
    BY <2>2, Zenon DEF PhaseOK
  <2>5. CASE /\ ~Succeeds(Current, sent, got) /\ Current.mode # "warn"
             /\ FinishMotor(FALSE)
    <3>1. motor \notin present
      BY <2>3, <2>5, Zenon
    <3>2. CASE cmd = "reset"
      BY <1>6, <1>7, <2>3, <2>5, <3>1, <3>2, Zenon
    <3>3. CASE cmd = "freeze"
      <4>1. Current.mode = "warn"
        BY <1>4, <2>2, <3>1, <3>3, FreezeProgram DEF CleanOK, IsVerified, Req
      <4>2. FALSE
        BY <2>5, <4>1
      <4> QED BY <4>2
    <3> QED BY <3>2, <3>3, Zenon DEF TypeOK
  <2>6. CASE step = Last /\ FinishMotor(verified)
    BY <1>5, <1>7, <2>3, <2>6, Zenon DEF TypeOK
  <2>7. ASSUME Succeeds(Current, sent, got) \/ Current.mode = "warn",
               step # Last, step' = step + 1, phase' = "write", motor' = motor,
               verified' = verified, allOk' = allOk, status' = status
        PROVE  status' # "rejected" /\ CleanOK'
    <3>1. CASE motor \in present
      <4>1. step' >= FirstClear => staged'[motor] = NoWrite
        <5>1. CASE cmd = "freeze"
          <6>1. Current.op = "reset"
            BY <2>2, <2>7, <5>1, StrictSteps, FreezeProgram DEF Req
          <6>2. sent
            BY <2>3, <3>1, Zenon
          <6>3. staged'[motor] = NoWrite
            BY <2>2, <6>1, <6>2, BlockEmptied, Zenon
          <6> QED BY <6>3, Zenon
        <5>2. CASE cmd = "reset"
          <6>1. step \in {1, 2, 3, 4, 6}
            BY <2>2, <2>7, <5>2, StrictSteps, Zenon
          <6>2. CASE step \in {2, 3, 4}
            <7>1. Current.op \in {"action", "reset"}
              BY <5>2, <6>2, ResetProgram DEF Req
            <7> QED BY <2>2, <2>3, <3>1, <7>1, ServoFacts, Zenon
          <6>3. CASE step = 6
            <7>1. Current.op = "write"
              BY <5>2, <6>3, ResetProgram DEF Req
            <7>2. staged[motor] = NoWrite
              BY <1>4, <2>4, <3>1, <5>2, <6>3 DEF CleanOK, FirstClear
            <7> QED BY <2>2, <7>1, <7>2, ServoFacts, Zenon
          <6> QED BY <2>7, <5>2, <6>1, <6>2, <6>3 DEF FirstClear
        <5> QED BY <5>1, <5>2, Zenon DEF TypeOK
      <4> QED BY <1>5, <1>8, <2>3, <2>7, <3>1, <4>1, Zenon
    <3>2. CASE motor \notin present
      <4>1. Current.mode = "warn"
        BY <2>3, <2>7, <3>2, Zenon
      <4>2. cmd = "freeze"
        BY <2>2, <4>1, StrictSteps, Zenon DEF TypeOK
      <4>3. step = 1
        BY <2>2, <2>7, <4>2, StrictSteps, Zenon
      <4>4. verified' /\ allOk'
        BY <1>5, <2>7, Zenon
      <4> QED BY <1>1, <2>3, <2>7, <3>2, <4>2, <4>3, <4>4 DEF CleanOK
    <3> QED BY <3>1, <3>2, Zenon
  <2> QED BY <2>1, <2>5, <2>6, <2>7, Zenon DEF StrictOutcome
<1>11. CASE VerifiedRequest \/ ReadBack
  <2>1. PICK sent \in BOOLEAN, got \in {"reply", "damaged", "timeout"} :
          VerifiedOutcome(sent, got)
    BY <1>11, VerifiedEnds, Zenon
  <2>2. /\ IsVerified /\ Request \in Requests /\ Exchange(Request, sent, got)
        /\ motor' = motor /\ allOk' = allOk /\ status' = status
    BY <2>1, Zenon DEF VerifiedOutcome
  <2>3. ~NothingToFreeze \/ phase = "verify"
    BY <1>11, Zenon DEF VerifiedRequest, ReadBack
  <2>4. step \in 2 .. 13 /\ (cmd = "reset" => step = 5)
    <3>1. CASE cmd = "reset"
      BY <2>2, <3>1, VerifiedReset
    <3>2. CASE cmd = "freeze"
      BY <2>2, <3>2, FreezeProgram DEF IsVerified, Req
    <3> QED BY <3>1, <3>2 DEF TypeOK
  <2>5. motor \in present
    BY <1>4, <1>6, <2>3, <2>4 DEF CleanOK, NothingToFreeze, TypeOK
  <2>6. /\ sent /\ Succeeds(Request, sent, got)
        /\ Head(OnLine(Request, sent)) = ReplyTo(Request)
        /\ Remaining(Request, sent, got) = <<>>
    BY <1>3, <1>5, <2>2, <2>5, CleanExchange, Zenon
  <2>7. /\ Current.op \in {"write", "reg_write"}
        /\ Current.reg \in Registers
    BY <2>2, StepFacts, Zenon
  <2>8. CASE phase = "write"
    <3>1. /\ phase' = "action" /\ step' = step /\ verified' = verified
          /\ NoDrain(Request, sent, got) /\ Request = Current
      BY <2>1, <2>2, <2>6, <2>8, Zenon DEF VerifiedOutcome, Request
    <3>2. line' = <<>> /\ verified' /\ allOk'
      BY <1>5, <2>2, <2>6, <3>1, Zenon DEF NoDrain
    <3>3. Current' = Current
      BY <1>1, <2>2, <3>1, SameProgram, Zenon
    <3>4. staged[motor] = NoWrite
      BY <1>4, <2>4, <2>5, <2>8 DEF CleanOK, FirstClear, TypeOK
    <3>5. CASE Current.op = "reg_write"
      <4>1. staged'[motor] = CurrentWrite
        BY <2>2, <2>6, <3>1, <3>5, ServoFacts, Zenon DEF CurrentWrite
      <4> QED BY <1>1, <2>2, <2>5, <3>1, <3>2, <3>3, <3>5, <4>1, Zenon
                 DEF CleanOK, CurrentWrite
    <3>6. CASE Current.op = "write"
      <4>1. staged'[motor] = NoWrite /\ regs'[motor][Current.reg] = Stored(Current)
        BY <2>2, <2>6, <3>1, <3>4, <3>6, ServoFacts, Zenon
      <4>2. Stored(Current)' = Stored(Current)
        BY <3>3, Zenon DEF Stored
      <4> QED BY <1>1, <2>2, <2>5, <3>1, <3>2, <3>3, <3>6, <4>1, <4>2, Zenon
                 DEF CleanOK
    <3> QED BY <2>7, <3>5, <3>6, Zenon
  <2>9. CASE phase = "action"
    <3>1. /\ phase' = "verify" /\ step' = step /\ verified' = verified
          /\ NoDrain(Request, sent, got) /\ Request.op = "action"
      BY <2>1, <2>2, <2>6, <2>9, Zenon DEF VerifiedOutcome, Request, Req
    <3>2. line' = <<>> /\ verified' /\ allOk'
      BY <1>5, <2>2, <2>6, <3>1, Zenon DEF NoDrain
    <3>3. Current' = Current
      BY <1>1, <2>2, <3>1, SameProgram, Zenon
    <3>4. staged'[motor] = NoWrite
      BY <2>2, <2>6, <3>1, ServoFacts, Zenon
    <3>5. regs'[motor][Current.reg] = Stored(Current)
      <4>1. CASE Current.op = "reg_write"
        <5>1. staged[motor] = CurrentWrite
          BY <1>4, <2>5, <2>9, <4>1, Zenon DEF CleanOK
        <5>2. /\ staged[motor] # NoWrite /\ staged[motor].reg = Current.reg
              /\ Stored(staged[motor]) = Stored(Current)
          BY <2>7, <5>1
             DEF CurrentWrite, NoWrite, Registers, SettingsRegisters, Stored
        <5>3. regs'[motor][staged[motor].reg] = Stored(staged[motor])
          BY <2>2, <2>6, <3>1, <5>2, ServoFacts, Zenon
        <5> QED BY <5>2, <5>3, Zenon
      <4>2. CASE Current.op = "write"
        <5>1. staged[motor] = NoWrite /\ regs[motor][Current.reg] = Stored(Current)
          BY <1>4, <2>5, <2>9, <4>2, Zenon DEF CleanOK
        <5>2. regs'[motor][Current.reg] = regs[motor][Current.reg]
          BY <2>2, <2>7, <3>1, <5>1, ServoFacts, Zenon
        <5> QED BY <5>1, <5>2, Zenon
      <4> QED BY <2>7, <4>1, <4>2, Zenon
    <3>6. Stored(Current)' = Stored(Current)
      BY <3>3, Zenon DEF Stored
    <3> QED BY <1>1, <2>2, <2>5, <3>1, <3>2, <3>3, <3>4, <3>5, <3>6, Zenon
               DEF CleanOK
  <2>10. CASE phase = "verify"
    <3>1. Request.op = "read" /\ Request.reg = Current.reg
      BY <2>2, <2>10, Zenon DEF Request, Req
    <3>2. staged[motor] = NoWrite /\ regs[motor][Current.reg] = Stored(Current)
      BY <1>4, <2>5, <2>10, Zenon DEF CleanOK
    <3>3. staged'[motor] = NoWrite
      BY <2>2, <3>1, <3>2, ServoFacts, Zenon
    <3>4. Head(OnLine(Request, sent)).val = Stored(Current)
      <4>1. ReplyTo(Request).val = regs[motor][Request.reg]
        BY <3>1, Zenon DEF ReplyTo
      <4> QED BY <2>6, <3>1, <3>2, <4>1, Zenon
    <3>5. Stored(Current) # Current.val => Current.mode = "effort"
      BY ClampedIsEffort, Zenon
    <3>6. /\ phase' = "write" /\ NoDrain(Request, sent, got)
          /\ \/ verified' = verified
             \/ /\ Head(OnLine(Request, sent)).val # Current.val
                /\ verified' = (verified /\ Current.mode = "effort")
      BY <2>1, <2>6, <2>10, Zenon DEF VerifiedOutcome
    <3>7. verified'
      BY <1>5, <3>4, <3>5, <3>6, Zenon
    <3>8. line' = <<>>
      BY <2>6, <3>6, Zenon DEF NoDrain
    <3> QED BY <1>8, <2>2, <2>5, <3>3, <3>6, <3>7, <3>8, Zenon
  <2> QED BY <2>8, <2>9, <2>10, Zenon DEF TypeOK
<1> QED BY <1>9, <1>10, <1>11, Zenon DEF Next

(* A calibration command is rejected only for a bus fault, a reply left on *)
(* the line from before or a decisive motor that is not there; the         *)
(* acceleration write, which some servos clamp, never rejects a freeze.    *)
THEOREM RejectionHasAReason == Spec => []RejectedForAReason
<1>1. Init => IInv /\ CleanInv
  BY InitIInv, InitClean, Zenon
<1>2. IInv /\ CleanInv /\ [Next]_vars => IInv' /\ CleanInv'
  <2> SUFFICES ASSUME IInv, CleanInv, [Next]_vars PROVE IInv' /\ CleanInv'
    BY Zenon
  <2>1. CASE Next
    BY <2>1, NextIInv, NextClean, Zenon DEF IInv
  <2>2. CASE UNCHANGED vars
    <3>1. /\ UNCHANGED <<cmd, count, midpoint, present, regs, staged, line>>
          /\ UNCHANGED <<motor, step, phase, attempt, verified, allOk, status>>
          /\ UNCHANGED <<faults, missed>>
          /\ Current' = Current /\ Decisive' = Decisive
      BY <2>2, Stutter, Zenon
    <3>2. Clean' = Clean /\ FirstClear' = FirstClear
      BY <3>1, Zenon DEF Clean, FirstClear
    <3>3. CleanOK' = CleanOK
      BY <3>1, <3>2, Zenon DEF CleanOK, CurrentWrite, Stored
    <3> QED BY <3>1, <3>2, <3>3, NextIInv, Zenon DEF CleanInv
  <2> QED BY <2>1, <2>2, Zenon
<1>3. IInv /\ CleanInv => RejectedForAReason
  BY DEF IInv, TypeOK, CleanInv, Clean, RejectedForAReason
<1> QED BY <1>1, <1>2, <1>3, PTL DEF Spec
=============================================================================
