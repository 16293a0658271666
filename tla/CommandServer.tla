----------------------------- MODULE CommandServer -----------------------------
(***************************************************************************)
(* What the port of an ST3215 bus promises to those who send it commands:  *)
(* commands are served one at a time, in the order in which they were      *)
(* given, each at most once.  Only serving a command changes what a servo  *)
(* holds, and only in the servos the command addresses; a power loss takes *)
(* a staged write along.  An error that ends the port drops the commands   *)
(* that wait, for good.  Nothing is said of scans, searches, caches and    *)
(* flags: they are invisible here.                                         *)
(***************************************************************************)
EXTENDS Sequences

CONSTANTS Motors, Command, NoCommand, NoData,
          Addressed     \* command -> the servos it may change

VARIABLES
    waiting,    \* commands given and not yet begun
    serving,    \* the command being served, or NoCommand
    open,       \* the port is open
    stored,     \* motor -> contents of its EEPROM
    staged      \* motor -> write waiting in the servo for an action, or NoData

vars == <<waiting, serving, open, stored, staged>>

Init ==
    /\ waiting = <<>>
    /\ serving = NoCommand
    /\ open = TRUE
    /\ staged = [m \in Motors |-> NoData]

Give(c) ==
    /\ open
    /\ waiting' = Append(waiting, c)
    /\ UNCHANGED <<serving, open, stored, staged>>

Begin ==
    /\ open
    /\ serving = NoCommand
    /\ waiting # <<>>
    /\ serving' = Head(waiting)
    /\ waiting' = Tail(waiting)
    /\ UNCHANGED <<open, stored, staged>>

ChangesOnly(ids) ==
    \A m \in Motors \ ids : stored'[m] = stored[m] /\ staged'[m] = staged[m]

End ==
    /\ serving # NoCommand
    /\ serving' = NoCommand
    /\ ChangesOnly(Addressed[serving])
    /\ \/ UNCHANGED <<waiting, open>>
       \/ open' = FALSE /\ waiting' = <<>>

Fail ==
    /\ open
    /\ serving = NoCommand
    /\ open' = FALSE
    /\ waiting' = <<>>
    /\ UNCHANGED <<serving, stored, staged>>

Reopen ==
    /\ ~open
    /\ open' = TRUE
    /\ UNCHANGED <<waiting, serving, stored, staged>>

PowerLost(m) ==
    /\ staged' = [staged EXCEPT ![m] = NoData]
    /\ UNCHANGED <<waiting, serving, open, stored>>

Next ==
    \/ \E c \in Command : Give(c)
    \/ Begin \/ End \/ Fail \/ Reopen
    \/ \E m \in Motors : PowerLost(m)

Spec == Init /\ [][Next]_vars
=============================================================================
