----------------------- MODULE InferencePublisherProofs -----------------------
(***************************************************************************)
(* Proofs about the inference-states publisher, for every set of queues.   *)
(*                                                                         *)
(* NoLostUpdate is not inductive: it only speaks of a sleeping worker.     *)
(* Covered says, in every state, who still owes the publication of a       *)
(* pointer: its callback, the raised flag, or the snapshot in progress,    *)
(* unless its enqueue() failed.                                            *)
(***************************************************************************)
EXTENDS InferencePublisher, TLAPS

(* A pointer that is not published is owed by someone.                     *)
Covered ==
    \A q \in Queues :
        \/ dropped /\ worker # "snapshot"
        \/ published[q] = latest[q]
        \/ callback[q] = "inserted"
        \/ signaled
        \/ worker = "snapshot" /\ (q \in unread \/ snapshot[q] = latest[q])

(* The worker sleeps only with the flag down.                              *)
SleepsUnsignaled == worker = "asleep" => ~signaled

(* What was published, what the snapshot holds and what the queue has are  *)
(* ordered.                                                                *)
Ordered ==
    \A q \in Queues : published[q] <= snapshot[q] /\ snapshot[q] <= latest[q]

IInv == TypeOK /\ Covered /\ SleepsUnsignaled /\ Ordered

(* The initial state satisfies the invariant.                              *)
LEMMA InitIInv == Init => IInv
<1> SUFFICES ASSUME Init PROVE IInv
    BY Zenon
<1>1. TypeOK
    <2>1. 0 \in 0 .. MaxPtr
        BY PublisherAssumption
    <2> QED
        BY <2>1, Zenon DEF Init, TypeOK
<1>2. Covered /\ SleepsUnsignaled /\ Ordered
    BY DEF Init, Covered, SleepsUnsignaled, Ordered
<1> QED
    BY <1>1, <1>2, Zenon DEF IInv

(* Every step of a callback, of shutdown() and of the worker preserves the *)
(* types.                                                                  *)
LEMMA NextTypeOK == TypeOK /\ [Next]_vars => TypeOK'
<1> SUFFICES ASSUME TypeOK, [Next]_vars PROVE TypeOK'
    BY Zenon
<1> USE PublisherAssumption DEF TypeOK
<1>1. ASSUME NEW q \in Queues, Insert(q) PROVE TypeOK'
    BY <1>1 DEF Insert
<1>2. ASSUME NEW q \in Queues, Signal(q) PROVE TypeOK'
    BY <1>2, Zenon DEF Signal, Notified
<1>3. CASE ShutdownSend
    BY <1>3, Zenon DEF ShutdownSend
<1>4. CASE ShutdownSignal
    BY <1>4, Zenon DEF ShutdownSignal, Notified
<1>5. CASE Sleep \/ Relock \/ Exit \/ BeginSnapshot \/ Publish
    BY <1>5, Zenon DEF Sleep, Relock, Exit, BeginSnapshot, Publish, Enqueue
<1>6. ASSUME NEW q \in Queues, ReadPointer(q) PROVE TypeOK'
    BY <1>6, Zenon DEF ReadPointer
<1>7. CASE UNCHANGED vars
    BY <1>7, Zenon DEF vars
<1> QED
    BY <1>1, <1>2, <1>3, <1>4, <1>5, <1>6, <1>7, Zenon DEF Next, CallbackStep, WorkerStep

(* Every step preserves the invariant.                                     *)
LEMMA NextIInv == IInv /\ [Next]_vars => IInv'
<1> SUFFICES ASSUME IInv, [Next]_vars PROVE IInv'
    BY Zenon
<1>0. TypeOK /\ TypeOK'
    BY NextTypeOK, Zenon DEF IInv
<1> USE PublisherAssumption, <1>0 DEF IInv, TypeOK, Covered, SleepsUnsignaled, Ordered
<1>1. ASSUME NEW q \in Queues, Insert(q) PROVE IInv'
    BY <1>1 DEF Insert
<1>2. ASSUME NEW q \in Queues, Signal(q) PROVE IInv'
    BY <1>2, Zenon DEF Signal, Notified
<1>3. CASE ShutdownSend
    BY <1>3, Zenon DEF ShutdownSend
<1>4. CASE ShutdownSignal
    BY <1>4, Zenon DEF ShutdownSignal, Notified
<1>5. CASE Sleep \/ Relock \/ Exit
    BY <1>5, Zenon DEF Sleep, Relock, Exit
<1>6. CASE BeginSnapshot
    BY <1>6, Zenon DEF BeginSnapshot
<1>7. ASSUME NEW q \in Queues, ReadPointer(q) PROVE IInv'
    BY <1>7 DEF ReadPointer
<1>8. CASE Publish
    <2>1. CASE published' = snapshot /\ dropped' = FALSE
        BY <1>8, <2>1 DEF Publish
    <2>2. CASE dropped' = TRUE /\ UNCHANGED published
        <3>1. Covered'
            BY <1>8, <2>2, Zenon DEF Publish
        <3>2. SleepsUnsignaled' /\ Ordered'
            BY <1>8, <2>2, Zenon DEF Publish
        <3> QED
            BY <1>0, <3>1, <3>2, Zenon
    <2> QED
        BY <1>8, <2>1, <2>2, Zenon DEF Publish, Enqueue
<1>9. CASE UNCHANGED vars
    BY <1>9, Zenon DEF vars
<1> QED
    BY <1>1, <1>2, <1>3, <1>4, <1>5, <1>6, <1>7, <1>8, <1>9, Zenon
        DEF Next, CallbackStep, WorkerStep

(* The strengthened invariant holds in every reachable state.              *)
THEOREM Inductive == Spec => []IInv
BY InitIInv, NextIInv, PTL DEF Spec

(* The types are invariant, whatever the queues.                           *)
THEOREM TypeCorrect == Spec => []TypeOK
<1>1. IInv => TypeOK
    BY Zenon DEF IInv
<1> QED
    BY <1>1, Inductive, PTL

(* A sleeping worker has published every pointer whose callback has        *)
(* signalled: no insertion during a snapshot and no signal to a busy       *)
(* worker is lost.                                                         *)
THEOREM NoUpdateIsLost == Spec => []NoLostUpdate
<1>1. IInv => NoLostUpdate
    BY Zenon DEF IInv, Covered, SleepsUnsignaled, NoLostUpdate
<1> QED
    BY <1>1, Inductive, PTL

(* The pointers of successive snapshots never go back.                     *)
THEOREM SnapshotsGrow == Spec => PointersGrow
<1>1. IInv /\ [Next]_vars => [\A q \in Queues : published'[q] >= published[q]]_vars
    <2> SUFFICES ASSUME IInv, Next PROVE \A q \in Queues : published'[q] >= published[q]
        BY Zenon DEF IInv
    <2>1. CASE Publish
        BY <2>1, PublisherAssumption DEF Publish, Enqueue, IInv, TypeOK, Ordered
    <2>2. CASE UNCHANGED published
        BY <2>2, PublisherAssumption DEF IInv, TypeOK
    <2> QED
        BY <2>1, <2>2, Zenon
            DEF Next, CallbackStep, WorkerStep, Insert, Signal, ShutdownSend,
            ShutdownSignal, Sleep, Relock, Exit, BeginSnapshot, ReadPointer
<1> QED
    BY <1>1, Inductive, PTL DEF Spec, PointersGrow
=============================================================================
