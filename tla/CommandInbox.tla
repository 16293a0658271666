----------------------------- MODULE CommandInbox -----------------------------
(***************************************************************************)
(* The command inbox between the tx-queue subscription callback and the    *)
(* port loop of the Dogzilla Lite driver:                                  *)
(* software/drivers/yahboom-dogzilla-lite/src/command_inbox.rs, used by    *)
(* run and feedback_loop of port.rs.                                       *)
(*                                                                         *)
(* A coalesced command (servo, speed, movement) fills a set of slots of    *)
(* PendingCommands under the mutex, then tries to put a token into a wake  *)
(* channel of capacity one; any other command goes to a bounded channel.   *)
(* Slots are numbered by priority: movement, leg speed, arm speed, then    *)
(* the servos by id.  Coalesced commands are setpoints, a value each, and  *)
(* never end; a discrete command is its number in the order of the queue.  *)
(***************************************************************************)
EXTENDS Naturals, Sequences

CONSTANTS
    NumSlots,    \* 3 + number of servos
    Values,      \* what a setpoint may command
    Capacity,    \* DISCRETE_QUEUE_CAPACITY
    MaxDiscrete  \* bound: discrete commands pushed in a behaviour

ASSUME InboxAssumption ==
    /\ NumSlots \in Nat \ {0} /\ Capacity \in Nat \ {0} /\ MaxDiscrete \in Nat
    /\ 0 \notin Values

Slots == 1 .. NumSlots
Numbers == 1 .. MaxDiscrete
None == 0
Setpoints == Values \cup {None}

VARIABLES
    pending,    \* PendingCommands: slot -> setpoint, or None
    wake,       \* the wake channel holds a token
    discrete,   \* discrete_tx / discrete_rx
    pusher,     \* "idle", "merged" between merge() and try_send on wake_tx,
                \* "gone" once the subscription and its senders are dropped
    receiver,   \* where recv() is: poll, waiting, busy (not in recv), dropped
    pushes,     \* discrete commands pushed so far
    newest,     \* history: slot -> the setpoint pushed last for it
    delivered,  \* history: slot -> the setpoint recv() returned last for it
    returned,   \* history: discrete commands recv() returned
    failed      \* history: discrete commands push() returned an error for

vars == <<pending, wake, discrete, pusher, receiver, pushes, newest, delivered,
          returned, failed>>

Init ==
    /\ pending = [s \in Slots |-> None]
    /\ wake = FALSE
    /\ discrete = <<>>
    /\ pusher = "idle"
    /\ receiver = "poll"
    /\ pushes = 0
    /\ newest = [s \in Slots |-> None]
    /\ delivered = [s \in Slots |-> None]
    /\ returned = {}
    /\ failed = {}

-----------------------------------------------------------------------------
(* CommandInbox::push on the subscription thread.                          *)

MergeFirst(S, v) == [s \in Slots |-> IF s \in S /\ pending[s] = None THEN v ELSE pending[s]]
Merge(S, v) == [s \in Slots |-> IF s \in S THEN v ELSE pending[s]]

(* A servo_speed command with neither speed set fills no slot and still    *)
(* wakes the receiver.                                                     *)
PushCoalesced(S, v) ==
    /\ pusher = "idle"
    /\ pending' = Merge(S, v)
    /\ newest' = [s \in Slots |-> IF s \in S THEN v ELSE newest[s]]
    /\ pusher' = "merged"
    /\ UNCHANGED <<wake, discrete, receiver, pushes, delivered, returned, failed>>

(* try_send on the wake channel: a full channel is as good as sent, and a  *)
(* closed one is an error that changes nothing here.                       *)
PushWake ==
    /\ pusher = "merged"
    /\ pusher' = "idle"
    /\ wake' = (wake \/ receiver # "dropped")
    /\ UNCHANGED <<pending, discrete, receiver, pushes, newest, delivered, returned, failed>>

Accepts == receiver # "dropped" /\ Len(discrete) < Capacity

PushDiscreteSilently ==
    /\ pusher = "idle" /\ pushes < MaxDiscrete
    /\ pushes' = pushes + 1
    /\ discrete' = IF Accepts THEN Append(discrete, pushes + 1) ELSE discrete
    /\ UNCHANGED <<pending, wake, pusher, receiver, newest, delivered, returned, failed>>

PushDiscrete ==
    /\ pusher = "idle" /\ pushes < MaxDiscrete
    /\ pushes' = pushes + 1
    /\ discrete' = IF Accepts THEN Append(discrete, pushes + 1) ELSE discrete
    /\ failed' = IF Accepts THEN failed ELSE failed \cup {pushes + 1}
    /\ UNCHANGED <<pending, wake, pusher, receiver, newest, delivered, returned>>

(* NormFS drops the subscription, and with it both senders.                *)
DropSenders ==
    /\ pusher = "idle"
    /\ pusher' = "gone"
    /\ UNCHANGED <<pending, wake, discrete, receiver, pushes, newest, delivered,
                   returned, failed>>

-----------------------------------------------------------------------------
(* CommandReceiver::recv in the port loop.                                 *)

Pending == {s \in Slots : pending[s] # None}

(* pop_next under the mutex: the slot of highest priority.                 *)
PopNext(s) ==
    /\ receiver = "poll"
    /\ s \in Pending /\ \A t \in Pending : s <= t
    /\ delivered' = [delivered EXCEPT ![s] = pending[s]]
    /\ pending' = [pending EXCEPT ![s] = None]
    /\ receiver' = "busy"
    /\ UNCHANGED <<wake, discrete, pusher, pushes, newest, returned, failed>>

(* Nothing pending: wait in the select for either channel.                 *)
PollUnchecked ==
    /\ receiver = "poll"
    /\ receiver' = "waiting"
    /\ UNCHANGED <<pending, wake, discrete, pusher, pushes, newest, delivered,
                   returned, failed>>

PollEmpty ==
    /\ receiver = "poll"
    /\ Pending = {}
    /\ receiver' = "waiting"
    /\ UNCHANGED <<pending, wake, discrete, pusher, pushes, newest, delivered,
                   returned, failed>>

RecvDiscreteWhenWoken ==
    /\ receiver = "waiting"
    /\ wake /\ discrete # <<>>
    /\ returned' = returned \cup {Head(discrete)}
    /\ discrete' = Tail(discrete)
    /\ receiver' = "busy"
    /\ UNCHANGED <<pending, wake, pusher, pushes, newest, delivered, failed>>

RecvDiscrete ==
    /\ receiver = "waiting"
    /\ discrete # <<>>
    /\ returned' = returned \cup {Head(discrete)}
    /\ discrete' = Tail(discrete)
    /\ receiver' = "busy"
    /\ UNCHANGED <<pending, wake, pusher, pushes, newest, delivered, failed>>

RecvWake ==
    /\ receiver = "waiting"
    /\ wake
    /\ wake' = FALSE
    /\ receiver' = "poll"
    /\ UNCHANGED <<pending, discrete, pusher, pushes, newest, delivered, returned, failed>>

(* Both senders are gone and one of the channels is empty: its branch may  *)
(* win the select and end recv(), and with it feedback_loop, with None,    *)
(* whatever the other channel holds.                                       *)
RecvClosed ==
    /\ receiver = "waiting"
    /\ pusher = "gone"
    /\ discrete = <<>> \/ ~wake
    /\ receiver' = "dropped"
    /\ UNCHANGED <<pending, wake, discrete, pusher, pushes, newest, delivered,
                   returned, failed>>

(* A feedback packet wins the outer select of feedback_loop: the recv()    *)
(* future is dropped where it waits, and the next iteration calls it anew. *)
Cancel ==
    /\ receiver = "waiting"
    /\ receiver' = "poll"
    /\ UNCHANGED <<pending, wake, discrete, pusher, pushes, newest, delivered,
                   returned, failed>>

(* process_envelope returns and the loop calls recv() again.               *)
Processed ==
    /\ receiver = "busy"
    /\ receiver' = "poll"
    /\ UNCHANGED <<pending, wake, discrete, pusher, pushes, newest, delivered,
                   returned, failed>>

(* A serial read error ends feedback_loop, which drops the receiver; the   *)
(* select may poll the serial port before it polls recv().                 *)
SerialError ==
    /\ receiver \in {"poll", "waiting"}
    /\ receiver' = "dropped"
    /\ UNCHANGED <<pending, wake, discrete, pusher, pushes, newest, delivered,
                   returned, failed>>

-----------------------------------------------------------------------------
Push ==
    \/ \E S \in SUBSET Slots, v \in Values : PushCoalesced(S, v)
    \/ PushWake \/ PushDiscrete \/ DropSenders
Recv ==
    \/ \E s \in Slots : PopNext(s)
    \/ PollEmpty \/ RecvDiscrete \/ RecvWake \/ RecvClosed
    \/ Cancel \/ Processed \/ SerialError

Next == Push \/ Recv
Spec == Init /\ [][Next]_vars

(* The subscription thread and the port task keep running.  tokio picks    *)
(* among the ready branches of a select at random, so a discrete command   *)
(* that is ready again and again when recv() waits is not passed over for  *)
(* ever.  Nothing says that recv() gets to wait: setpoints are returned    *)
(* before the select, and an endless stream of them keeps it away.         *)
Fairness ==
    /\ WF_vars(PushWake)
    /\ WF_vars(\E s \in Slots : PopNext(s))
    /\ WF_vars(PollEmpty)
    /\ WF_vars(Processed)
    /\ WF_vars(RecvWake)
    /\ SF_vars(RecvDiscrete)

FairSpec == Spec /\ Fairness

-----------------------------------------------------------------------------
(* Type invariant of the inbox.                                            *)
TypeOK ==
    /\ pending \in [Slots -> Setpoints]
    /\ wake \in BOOLEAN
    /\ discrete \in Seq(Numbers)
    /\ pusher \in {"idle", "merged", "gone"}
    /\ receiver \in {"poll", "waiting", "busy", "dropped"}
    /\ pushes \in 0 .. MaxDiscrete
    /\ newest \in [Slots -> Setpoints]
    /\ delivered \in [Slots -> Setpoints]
    /\ returned \subseteq Numbers
    /\ failed \subseteq Numbers

(* No lost wakeup: recv() never waits on its channels with a coalesced     *)
(* command pending unless a wake token is there or the pusher is about to  *)
(* send one.  The race is between pop_next finding nothing and the merge   *)
(* of a push whose token the full channel swallowed.                       *)
NoLostWakeup == receiver = "waiting" /\ Pending # {} => wake \/ pusher = "merged"

(* The newest setpoint wins and is not lost: what is pending for a slot is *)
(* the setpoint pushed last for it, and where nothing is pending that one  *)
(* is what recv() returned last, however merges, pops and cancelled        *)
(* receives interleave.                                                    *)
NewestKept ==
    \A s \in Slots : newest[s] = IF pending[s] # None THEN pending[s] ELSE delivered[s]

(* Every discrete command pushed is refused with an error, or returned by  *)
(* recv(), or waiting in the channel, one of the three: the full channel   *)
(* and the cancelled receive drop none silently.  The channel is in push   *)
(* order and behind all that was returned, so recv() returns in that order.*)
Queued == {discrete[i] : i \in 1 .. Len(discrete)}
DiscreteKept ==
    /\ 1 .. pushes = returned \cup failed \cup Queued
    /\ returned \cap failed = {} /\ (returned \cup failed) \cap Queued = {}
    /\ \A i, j \in 1 .. Len(discrete) : i < j => discrete[i] < discrete[j]
    /\ \A n \in returned, i \in 1 .. Len(discrete) : n < discrete[i]

(* The inbox implements the mailbox without wake tokens, with the liveness *)
(* that endless setpoints leave: a filled slot is taken unless slots of    *)
(* higher priority keep being filled, a discrete command unless slots do.  *)
Mailbox == INSTANCE ConflatingMailbox WITH
    latest <- pending, queue <- discrete, taken <- delivered, done <- returned,
    offered <- pushes, open <- receiver # "dropped"
MailboxSpec == Mailbox!Spec
MailboxSafeSpec == Mailbox!SafeSpec
=============================================================================
