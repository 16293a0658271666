-------------------------- MODULE CommandInboxProofs --------------------------
(***************************************************************************)
(* Proofs about the Dogzilla Lite command inbox, for any number of slots   *)
(* and setpoints and any capacity: the wake channel never loses a wakeup,  *)
(* the newest setpoint is pending or delivered, no discrete command is     *)
(* lost or overtaken by a later one, and the inbox implements the safety   *)
(* of the conflating mailbox.                                              *)
(***************************************************************************)
EXTENDS CommandInbox, TLAPS

IInv == TypeOK /\ NoLostWakeup /\ NewestKept /\ DiscreteKept

(* The empty inbox satisfies the invariant.                                *)
LEMMA InitIInv == Init => IInv
<1> SUFFICES ASSUME Init PROVE IInv
    BY Zenon
<1>1. TypeOK
    <2>1. 0 \in 0 .. MaxDiscrete /\ <<>> \in Seq(Numbers)
        BY InboxAssumption
    <2> QED
        BY <2>1, Zenon DEF Init, TypeOK, Setpoints
<1>2. NoLostWakeup /\ NewestKept
    BY Zenon DEF Init, NoLostWakeup, NewestKept
<1>3. DiscreteKept
    BY DEF Init, DiscreteKept, Queued
<1> QED
    BY <1>1, <1>2, <1>3, Zenon DEF IInv

(* push() and recv() preserve the types.                                   *)
LEMMA NextTypeOK == TypeOK /\ [Next]_vars => TypeOK'
<1> SUFFICES ASSUME TypeOK, [Next]_vars PROVE TypeOK'
    BY Zenon
<1> USE DEF TypeOK
<1>1. ASSUME NEW S \in SUBSET Slots, NEW v \in Values, PushCoalesced(S, v) PROVE TypeOK'
    BY <1>1, Zenon DEF PushCoalesced, Merge, Setpoints
<1>2. CASE PushWake
    <2>1. wake' \in BOOLEAN
        BY <1>2, Zenon DEF PushWake
    <2> QED
        BY <1>2, <2>1, Zenon DEF PushWake
<1>3. CASE PushDiscrete
    <2>1. pushes + 1 \in Numbers /\ pushes' \in 0 .. MaxDiscrete
        BY <1>3, InboxAssumption DEF PushDiscrete, Numbers
    <2>2. discrete' \in Seq(Numbers)
        <3>1. Append(discrete, pushes + 1) \in Seq(Numbers)
            BY <2>1
        <3> QED
            BY <3>1, <1>3, Zenon DEF PushDiscrete
    <2>3. failed' \subseteq Numbers
        BY <2>1, <1>3, Zenon DEF PushDiscrete
    <2> QED
        BY <1>3, <2>1, <2>2, <2>3, Zenon DEF PushDiscrete
<1>4. ASSUME NEW s \in Slots, PopNext(s) PROVE TypeOK'
    BY <1>4, Zenon DEF PopNext, Setpoints
<1>5. CASE PollEmpty \/ RecvWake \/ RecvClosed \/ Cancel \/ Processed \/ SerialError \/ DropSenders
    BY <1>5, Zenon DEF PollEmpty, RecvWake, RecvClosed, Cancel, Processed, SerialError, DropSenders
<1>6. CASE RecvDiscrete
    <2>1. Head(discrete) \in Numbers /\ Tail(discrete) \in Seq(Numbers)
        BY <1>6 DEF RecvDiscrete
    <2> QED
        BY <2>1, <1>6, Zenon DEF RecvDiscrete
<1>7. CASE UNCHANGED vars
    BY <1>7, Zenon DEF vars
<1> QED
    BY <1>1, <1>2, <1>3, <1>4, <1>5, <1>6, <1>7, Zenon DEF Next, Push, Recv

(* push() and recv() keep a token with every pending setpoint recv() waits *)
(* on.                                                                     *)
LEMMA NextWakeup == NoLostWakeup /\ [Next]_vars => NoLostWakeup'
<1> SUFFICES ASSUME NoLostWakeup, [Next]_vars PROVE NoLostWakeup'
    BY Zenon
<1> USE DEF NoLostWakeup, Pending
<1>1. ASSUME NEW S \in SUBSET Slots, NEW v \in Values, PushCoalesced(S, v) PROVE NoLostWakeup'
    BY <1>1, Zenon DEF PushCoalesced
<1>2. CASE PushWake \/ PushDiscrete \/ DropSenders
    BY <1>2, Zenon DEF PushWake, PushDiscrete, DropSenders
<1>3. ASSUME NEW s \in Slots, PopNext(s) PROVE NoLostWakeup'
    BY <1>3, Zenon DEF PopNext
<1>4. CASE PollEmpty \/ RecvDiscrete \/ RecvWake \/ RecvClosed \/ Cancel \/ Processed \/ SerialError
    BY <1>4, Zenon DEF PollEmpty, RecvDiscrete, RecvWake, RecvClosed, Cancel, Processed, SerialError
<1>5. CASE UNCHANGED vars
    BY <1>5, Zenon DEF vars
<1> QED
    BY <1>1, <1>2, <1>3, <1>4, <1>5, Zenon DEF Next, Push, Recv

(* A merge makes its setpoint the newest and the pending one; a pop makes  *)
(* the pending one the delivered one.                                      *)
LEMMA NextNewest == TypeOK /\ NewestKept /\ [Next]_vars => NewestKept'
<1> SUFFICES ASSUME TypeOK, NewestKept, [Next]_vars PROVE NewestKept'
    BY Zenon
<1> USE DEF TypeOK, NewestKept
<1>1. ASSUME NEW S \in SUBSET Slots, NEW v \in Values, PushCoalesced(S, v) PROVE NewestKept'
    <2>1. v # None
        BY InboxAssumption, Zenon DEF None
    <2> QED
        BY <1>1, <2>1, Zenon DEF PushCoalesced, Merge
<1>2. ASSUME NEW s \in Slots, PopNext(s) PROVE NewestKept'
    BY <1>2, Zenon DEF PopNext, Pending
<1>3. CASE UNCHANGED <<pending, newest, delivered>>
    BY <1>3, Zenon
<1> QED
    BY <1>1, <1>2, <1>3, Zenon
        DEF Next, Push, Recv, PushWake, PushDiscrete, DropSenders, PollEmpty, RecvDiscrete,
        RecvWake, RecvClosed, Cancel, Processed, SerialError, vars

(* A push puts its number at the end of the channel or among the refused,  *)
(* recv() moves the first of the channel to the returned.                  *)
LEMMA NextDiscrete == TypeOK /\ DiscreteKept /\ [Next]_vars => DiscreteKept'
<1> SUFFICES ASSUME TypeOK, DiscreteKept, [Next]_vars PROVE DiscreteKept'
    BY Zenon
<1>1. CASE PushDiscrete
    <2>0. /\ pushes \in Nat /\ pushes' = pushes + 1
          /\ 1 .. pushes' = (1 .. pushes) \cup {pushes + 1}
          /\ pushes + 1 \notin 1 .. pushes
        BY <1>1, InboxAssumption DEF PushDiscrete, TypeOK
    <2>1. CASE Accepts
        <3>1. /\ discrete' = Append(discrete, pushes + 1)
              /\ UNCHANGED <<returned, failed>>
            BY <1>1, <2>1, Zenon DEF PushDiscrete
        <3>2. Queued' = Queued \cup {pushes + 1}
            BY <3>1, <2>0 DEF Queued, TypeOK, Numbers
        <3>3. \A i \in 1 .. Len(discrete) : discrete[i] <= pushes
            BY <2>0 DEF DiscreteKept, Queued
        <3>4. \A n \in returned : n <= pushes
            BY <2>0 DEF DiscreteKept
        <3>5. \A i, j \in 1 .. Len(discrete') : i < j => discrete'[i] < discrete'[j]
            <4>1. /\ Len(discrete) \in Nat /\ Len(discrete') = Len(discrete) + 1
                  /\ \A i \in 1 .. Len(discrete) : discrete'[i] = discrete[i]
                  /\ discrete'[Len(discrete) + 1] = pushes + 1
                BY <3>1 DEF TypeOK
            <4>2. \A i \in 1 .. Len(discrete) : discrete[i] < pushes + 1
                <5>1. \A i \in 1 .. Len(discrete) : discrete[i] \in Numbers
                    BY DEF TypeOK
                <5> QED
                    BY <5>1, <3>3, <2>0 DEF Numbers
            <4> QED
                BY <4>1, <4>2 DEF DiscreteKept
        <3>6. \A n \in returned', i \in 1 .. Len(discrete') : n < discrete'[i]
            BY <3>1, <3>4, <2>0 DEF DiscreteKept, TypeOK, Numbers
        <3>7. pushes + 1 \notin returned /\ pushes + 1 \notin failed
            BY <2>0, Zenon DEF DiscreteKept
        <3> QED
            BY <2>0, <3>1, <3>2, <3>5, <3>6, <3>7, Zenon DEF DiscreteKept
    <2>2. CASE ~Accepts
        <3>1. failed' = failed \cup {pushes + 1} /\ UNCHANGED <<returned, discrete>>
            BY <1>1, <2>2, Zenon DEF PushDiscrete
        <3>2. Queued' = Queued
            BY <3>1, Zenon DEF Queued
        <3> QED
            BY <3>1, <3>2, <2>0 DEF DiscreteKept
    <2> QED
        BY <2>1, <2>2, Zenon
<1>2. CASE RecvDiscrete
    <2>1. /\ discrete # <<>> /\ discrete' = Tail(discrete)
          /\ returned' = returned \cup {discrete[1]}
          /\ UNCHANGED <<failed, pushes>>
        BY <1>2 DEF RecvDiscrete, TypeOK
    <2>2. /\ Len(discrete) \in Nat \ {0} /\ Len(discrete') = Len(discrete) - 1
          /\ \A i \in 1 .. Len(discrete') : discrete'[i] = discrete[i + 1] /\ i + 1 \in 1 .. Len(discrete)
          /\ \A i \in 1 .. Len(discrete) : i = 1 \/ i - 1 \in 1 .. Len(discrete')
        BY <2>1 DEF TypeOK
    <2>3. \A i \in 2 .. Len(discrete) : discrete[1] < discrete[i]
        BY <2>2 DEF DiscreteKept
    <2>4. \A i \in 1 .. Len(discrete) : discrete[i] \in Numbers
        BY DEF TypeOK
    <2>5. Queued = Queued' \cup {discrete[1]}
        <3>1. discrete[1] \in Queued
            BY <2>2 DEF Queued
        <3>2. ASSUME NEW n \in Queued' PROVE n \in Queued
            BY <2>2, <3>2, Zenon DEF Queued
        <3>3. ASSUME NEW n \in Queued, n # discrete[1] PROVE n \in Queued'
            <4>1. PICK i \in 1 .. Len(discrete) : n = discrete[i]
                BY <3>3, Zenon DEF Queued
            <4>2. i - 1 \in 1 .. Len(discrete') /\ discrete'[i - 1] = n
                BY <2>2, <3>3, <4>1
            <4> QED
                BY <4>2, Zenon DEF Queued
        <3> QED
            BY <3>1, <3>2, <3>3, Zenon
    <2>6. discrete[1] \notin Queued'
        BY <2>2, <2>3, <2>4 DEF Queued, Numbers
    <2>7. \A i, j \in 1 .. Len(discrete') : i < j => discrete'[i] < discrete'[j]
        BY <2>2 DEF DiscreteKept
    <2>8. \A n \in returned', i \in 1 .. Len(discrete') : n < discrete'[i]
        BY <2>1, <2>2, <2>3 DEF DiscreteKept
    <2>9. discrete[1] \notin failed /\ Queued' \subseteq Queued
        BY <2>5, Zenon DEF DiscreteKept
    <2> QED
        BY <2>1, <2>5, <2>6, <2>7, <2>8, <2>9, Zenon DEF DiscreteKept
<1>3. CASE UNCHANGED <<discrete, pushes, returned, failed>>
    <2>1. Queued' = Queued
        BY <1>3, Zenon DEF Queued
    <2> QED
        BY <1>3, <2>1 DEF DiscreteKept
<1> QED
    BY <1>1, <1>2, <1>3, Zenon
        DEF Next, Push, Recv, PushCoalesced, PushWake, DropSenders, PopNext, PollEmpty,
        RecvWake, RecvClosed, Cancel, Processed, SerialError, vars

(* push() and recv() preserve the whole invariant.                         *)
LEMMA NextIInv == IInv /\ [Next]_vars => IInv'
BY NextTypeOK, NextWakeup, NextNewest, NextDiscrete, Zenon DEF IInv

(* The invariant holds in every reachable state.                           *)
THEOREM Inductive == Spec => []IInv
BY InitIInv, NextIInv, PTL DEF Spec

(* Type correctness of the inbox.                                          *)
THEOREM TypeCorrect == Spec => []TypeOK
<1>1. IInv => TypeOK
    BY Zenon DEF IInv
<1> QED
    BY <1>1, Inductive, PTL

(* recv() never waits on a pending coalesced command without a wake token  *)
(* in the channel or on its way, for any number of slots.                  *)
THEOREM WakeupsAreNotLost == Spec => []NoLostWakeup
<1>1. IInv => NoLostWakeup
    BY Zenon DEF IInv
<1> QED
    BY <1>1, Inductive, PTL

(* The setpoint pushed last for a slot is pending, or, when nothing is, it *)
(* is the one recv() returned last for the slot.                           *)
THEOREM NewestIsKept == Spec => []NewestKept
<1>1. IInv => NewestKept
    BY Zenon DEF IInv
<1> QED
    BY <1>1, Inductive, PTL

(* Every discrete command pushed is refused, returned or queued, exactly   *)
(* one of them, and the queue is in push order behind all that was         *)
(* returned.                                                               *)
THEOREM DiscreteIsKept == Spec => []DiscreteKept
<1>1. IInv => DiscreteKept
    BY Zenon DEF IInv
<1> QED
    BY <1>1, Inductive, PTL

(* Every step of the inbox is a step of the conflating mailbox or leaves   *)
(* it unchanged: the wake token and the two halves of push() are invisible *)
(* to the port loop.                                                       *)
THEOREM ImplementsMailbox == Spec => MailboxSafeSpec
<1>1. Init => Mailbox!Init
    BY Zenon DEF Init, None, Mailbox!Init
<1>2. TypeOK /\ [Next]_vars => [Mailbox!Next]_(Mailbox!vars)
    <2> SUFFICES ASSUME TypeOK, [Next]_vars PROVE [Mailbox!Next]_(Mailbox!vars)
        BY Zenon
    <2> USE DEF Mailbox!vars
    <2>1. ASSUME NEW S \in SUBSET Slots, NEW v \in Values, PushCoalesced(S, v)
          PROVE Mailbox!Put(S, v)
        BY <2>1, Zenon DEF PushCoalesced, Merge, Mailbox!Put
    <2>2. CASE PushDiscrete
        <3>1. Mailbox!Offer
            BY <2>2, Zenon DEF PushDiscrete, Accepts, Mailbox!Offer
        <3> QED
            BY <3>1, Zenon DEF Mailbox!Next
    <2>3. ASSUME NEW s \in Slots, PopNext(s) PROVE Mailbox!Take(s)
        <3>1. \A t \in Slots : t < s => pending[t] = 0
            BY <2>3, InboxAssumption DEF PopNext, Pending, None, Slots
        <3> QED
            BY <2>3, <3>1, Zenon DEF PopNext, Pending, None, Mailbox!Take
    <2>4. CASE RecvDiscrete
        <3>1. Mailbox!TakeDiscrete
            BY <2>4, Zenon DEF RecvDiscrete, Mailbox!TakeDiscrete
        <3> QED
            BY <3>1, Zenon DEF Mailbox!Next
    <2>5. CASE SerialError \/ RecvClosed
        <3>1. Mailbox!Close
            BY <2>5, Zenon DEF SerialError, RecvClosed, Mailbox!Close
        <3> QED
            BY <3>1, Zenon DEF Mailbox!Next
    <2>6. CASE PushWake \/ DropSenders \/ PollEmpty \/ RecvWake \/ Cancel \/ Processed
               \/ UNCHANGED vars
        BY <2>6, Zenon DEF PushWake, DropSenders, PollEmpty, RecvWake, Cancel, Processed, vars
    <2> QED
        BY <2>1, <2>2, <2>3, <2>4, <2>5, <2>6, Zenon DEF Next, Push, Recv, Mailbox!Next
<1> QED
    BY <1>1, <1>2, TypeCorrect, PTL DEF Spec, MailboxSafeSpec, Mailbox!SafeSpec
=============================================================================
