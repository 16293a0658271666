-------------------------- MODULE InferencePublisher --------------------------
(***************************************************************************)
(* The station's inference-states publisher:                               *)
(* software/station/bin/station/src/inference/mod.rs.                      *)
(*                                                                         *)
(* One subscription callback per registered queue inserts the newest       *)
(* pointer of its queue into a concurrent map, then, under a mutex, sets a *)
(* flag and notifies a condition variable.  A worker thread waits for the  *)
(* flag, clears it, releases the mutex, walks the map entry by entry and   *)
(* publishes the snapshot.  The mutex is held by the worker exactly in the *)
(* state "locked"; a waiting worker is "asleep" until it is notified.      *)
(***************************************************************************)
EXTENDS Naturals

CONSTANTS
    Queues,     \* the registered queues
    MaxPtr      \* bound: entries written to a queue

ASSUME PublisherAssumption == MaxPtr \in Nat

VARIABLES
    latest,     \* latest_pointers: queue -> newest pointer, 0 if none yet
    callback,   \* queue -> "idle", or "inserted" before the flag is set
    signaled,   \* the flag under the mutex
    shutdown,   \* "no", "sent" (channel only), "signaled" (flag set too)
    worker,     \* woken (wants the mutex), locked, asleep, snapshot, exited
    unread,     \* queues the snapshot iteration has not reached yet
    snapshot,   \* queue -> pointer read by this iteration
    published,  \* queue -> pointer in the last published InferenceRx
    dropped     \* the last enqueue() of a snapshot failed

vars == <<latest, callback, signaled, shutdown, worker, unread, snapshot, published, dropped>>

Init ==
    /\ latest = [q \in Queues |-> 0]
    /\ callback = [q \in Queues |-> "idle"]
    /\ signaled = FALSE
    /\ shutdown = "no"
    /\ worker = "woken"
    /\ unread = {}
    /\ snapshot = [q \in Queues |-> 0]
    /\ published = [q \in Queues |-> 0]
    /\ dropped = FALSE

-----------------------------------------------------------------------------
(* The callback of register_queue: a batch of entries arrived.             *)

Insert(q) ==
    /\ callback[q] = "idle"
    /\ latest[q] < MaxPtr
    /\ latest' = [latest EXCEPT ![q] = @ + 1]
    /\ callback' = [callback EXCEPT ![q] = "inserted"]
    /\ UNCHANGED <<signaled, shutdown, worker, unread, snapshot, published, dropped>>

(* notify_one: only a worker that sleeps is woken.                         *)
Notified == IF worker = "asleep" THEN "woken" ELSE worker

Signal(q) ==
    /\ callback[q] = "inserted"
    /\ worker # "locked"
    /\ signaled' = TRUE
    /\ worker' = Notified
    /\ callback' = [callback EXCEPT ![q] = "idle"]
    /\ UNCHANGED <<latest, shutdown, unread, snapshot, published, dropped>>

(* Inference::shutdown: the channel message, then the same signal.         *)
ShutdownSend ==
    /\ shutdown = "no"
    /\ shutdown' = "sent"
    /\ UNCHANGED <<latest, callback, signaled, worker, unread, snapshot, published, dropped>>

ShutdownOnlyNotifies ==
    /\ shutdown = "sent"
    /\ worker # "locked"
    /\ shutdown' = "signaled"
    /\ worker' = Notified
    /\ UNCHANGED <<latest, callback, signaled, unread, snapshot, published, dropped>>

ShutdownSignal ==
    /\ shutdown = "sent"
    /\ worker # "locked"
    /\ shutdown' = "signaled"
    /\ signaled' = TRUE
    /\ worker' = Notified
    /\ UNCHANGED <<latest, callback, unread, snapshot, published, dropped>>

-----------------------------------------------------------------------------
(* The worker thread of start().                                           *)

(* The wait releases the mutex and sleeps in one step.                     *)
Sleep ==
    /\ worker = "locked"
    /\ ~signaled
    /\ worker' = "asleep"
    /\ UNCHANGED <<latest, callback, signaled, shutdown, unread, snapshot, published, dropped>>

(* A notified worker, or one woken spuriously, takes the mutex back.       *)
Relock ==
    /\ worker \in {"woken", "asleep"}
    /\ worker' = "locked"
    /\ UNCHANGED <<latest, callback, signaled, shutdown, unread, snapshot, published, dropped>>

Exit ==
    /\ worker = "locked"
    /\ signaled
    /\ shutdown # "no"
    /\ worker' = "exited"
    /\ UNCHANGED <<latest, callback, signaled, shutdown, unread, snapshot, published, dropped>>

BeginSnapshot ==
    /\ worker = "locked"
    /\ signaled
    /\ shutdown = "no"
    /\ signaled' = FALSE
    /\ worker' = "snapshot"
    /\ unread' = Queues
    /\ UNCHANGED <<latest, callback, shutdown, snapshot, published, dropped>>

(* The map's iterator visits the entries one by one while callbacks write. *)
ReadPointerDrains(q) ==
    /\ worker = "snapshot"
    /\ q \in unread
    /\ snapshot' = [snapshot EXCEPT ![q] = latest[q]]
    /\ latest' = [latest EXCEPT ![q] = 0]
    /\ unread' = unread \ {q}
    /\ UNCHANGED <<callback, signaled, shutdown, worker, published, dropped>>

ReadPointer(q) ==
    /\ worker = "snapshot"
    /\ q \in unread
    /\ snapshot' = [snapshot EXCEPT ![q] = latest[q]]
    /\ unread' = unread \ {q}
    /\ UNCHANGED <<latest, callback, signaled, shutdown, worker, published, dropped>>

(* enqueue() of the complete snapshot, then the mutex again.  A failed     *)
(* enqueue() is only logged.                                               *)
Enqueue ==
    \/ published' = snapshot /\ dropped' = FALSE
    \/ dropped' = TRUE /\ UNCHANGED published

PublishClearsFlag ==
    /\ worker = "snapshot"
    /\ unread = {}
    /\ Enqueue
    /\ worker' = "woken"
    /\ signaled' = FALSE
    /\ UNCHANGED <<latest, callback, shutdown, unread, snapshot>>

Publish ==
    /\ worker = "snapshot"
    /\ unread = {}
    /\ Enqueue
    /\ worker' = "woken"
    /\ UNCHANGED <<latest, callback, signaled, shutdown, unread, snapshot>>

-----------------------------------------------------------------------------
CallbackStep(q) == Insert(q) \/ Signal(q)
WorkerStep ==
    \/ Sleep \/ Relock \/ Exit \/ BeginSnapshot \/ Publish
    \/ \E q \in Queues : ReadPointer(q)

Next == (\E q \in Queues : CallbackStep(q)) \/ ShutdownSend \/ ShutdownSignal \/ WorkerStep

Spec == Init /\ [][Next]_vars

(* The threads run, and parking_lot's mutex is eventually fair, so a       *)
(* callback that wants the mutex gets it although the worker takes it over *)
(* and over.  A notified worker wakes; nothing makes a sleeping one wake   *)
(* spuriously.                                                             *)
WokenRelock == worker = "woken" /\ Relock
Fairness ==
    /\ \A q \in Queues : SF_vars(Signal(q))
    /\ SF_vars(ShutdownSignal)
    /\ WF_vars(WokenRelock)
    /\ WF_vars(Sleep \/ Exit \/ BeginSnapshot \/ Publish)
    /\ WF_vars(\E q \in Queues : ReadPointer(q))

FairSpec == Spec /\ Fairness

-----------------------------------------------------------------------------
(* Type invariant of the publisher.                                        *)
TypeOK ==
    /\ latest \in [Queues -> 0 .. MaxPtr]
    /\ callback \in [Queues -> {"idle", "inserted"}]
    /\ signaled \in BOOLEAN
    /\ shutdown \in {"no", "sent", "signaled"}
    /\ worker \in {"locked", "asleep", "woken", "snapshot", "exited"}
    /\ unread \subseteq Queues
    /\ snapshot \in [Queues -> 0 .. MaxPtr]
    /\ published \in [Queues -> 0 .. MaxPtr]
    /\ dropped \in BOOLEAN

(* No lost update: the worker never sleeps on a queue entry it has not     *)
(* published unless that queue's callback is still about to signal.  The   *)
(* hazards are a pointer inserted after the iterator passed its queue, and *)
(* a signal that arrives while the worker is not waiting.  Only a failed   *)
(* enqueue() leaves a gap, and the next snapshot closes it for every queue *)
(* because snapshots are complete.                                         *)
NoLostUpdate ==
    worker = "asleep" /\ ~dropped =>
        \A q \in Queues : callback[q] = "inserted" \/ published[q] = latest[q]

(* Successive snapshots never go back: for every queue the pointer in the  *)
(* published InferenceRx only grows.                                       *)
PointersGrow == [][\A q \in Queues : published'[q] >= published[q]]_vars

(* Every pointer a callback inserts is published in the end, unless the    *)
(* publisher shuts down or an enqueue() fails.                             *)
EventuallyPublished ==
    \A q \in Queues, i \in 1 .. MaxPtr :
        latest[q] >= i ~> (published[q] >= i \/ dropped \/ worker = "exited")

(* shutdown() ends the worker.                                             *)
ShutdownEnds == shutdown # "no" ~> worker = "exited"
=============================================================================
