-------------------------- MODULE ConflatingMailbox --------------------------
(***************************************************************************)
(* What the Dogzilla Lite command inbox promises its port loop: a mailbox  *)
(* with one cell per coalesced control (movement, speeds, one per servo)   *)
(* in which a newer setpoint replaces an older one, and a bounded queue of *)
(* discrete commands behind them.  There is no wake token here that could  *)
(* be lost.                                                                *)
(***************************************************************************)
EXTENDS Naturals, Sequences

CONSTANTS Slots, Values, Capacity

VARIABLES
    latest,     \* slot -> the newest setpoint for it, or 0
    queue,      \* discrete commands accepted and not taken
    taken,      \* slot -> the setpoint taken last for it
    done,       \* the discrete commands taken
    offered,    \* number of discrete commands offered
    open        \* the receiver is there

vars == <<latest, queue, taken, done, offered, open>>

Init ==
    /\ latest = [s \in Slots |-> 0]
    /\ queue = <<>>
    /\ taken = [s \in Slots |-> 0]
    /\ done = {}
    /\ offered = 0
    /\ open = TRUE

Put(S, v) ==
    /\ latest' = [s \in Slots |-> IF s \in S THEN v ELSE latest[s]]
    /\ UNCHANGED <<queue, taken, done, offered, open>>

Offer ==
    /\ offered' = offered + 1
    /\ queue' = IF open /\ Len(queue) < Capacity THEN Append(queue, offered + 1) ELSE queue
    /\ UNCHANGED <<latest, taken, done, open>>

(* A cell is taken when no cell of higher priority is filled.              *)
Take(s) ==
    /\ open
    /\ latest[s] # 0
    /\ \A t \in Slots : t < s => latest[t] = 0
    /\ taken' = [taken EXCEPT ![s] = latest[s]]
    /\ latest' = [latest EXCEPT ![s] = 0]
    /\ UNCHANGED <<queue, done, offered, open>>

TakeDiscrete ==
    /\ open
    /\ queue # <<>>
    /\ done' = done \cup {Head(queue)}
    /\ queue' = Tail(queue)
    /\ UNCHANGED <<latest, taken, offered, open>>

Close ==
    /\ open
    /\ open' = FALSE
    /\ UNCHANGED <<latest, queue, taken, done, offered>>

Next ==
    \/ \E S \in SUBSET Slots, v \in Values : Put(S, v)
    \/ Offer
    \/ \E s \in Slots : Take(s)
    \/ TakeDiscrete
    \/ Close

SafeSpec == Init /\ [][Next]_vars

(* A cell that stays filled, with every cell of higher priority empty, is  *)
(* taken, and so is a discrete command while all cells stay empty.         *)
Idle == \A s \in Slots : latest[s] = 0
Fairness ==
    /\ \A s \in Slots : WF_vars(Take(s))
    /\ WF_vars(Idle /\ TakeDiscrete)

Spec == SafeSpec /\ Fairness
=============================================================================
