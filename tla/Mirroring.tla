------------------------------ MODULE Mirroring ------------------------------
(***************************************************************************)
(* The mirroring driver: which bus follows which.  A callback on the       *)
(* "commands" queue starts and stops mirrorings; each changes the tables   *)
(* under the state lock, spawns a task that sends the torque commands, and *)
(* then, under the modes lock, merges the modes and publishes the state.   *)
(* A restore task merges the modes of an earlier run and publishes too.    *)
(***************************************************************************)
EXTENDS Naturals, Sequences

CONSTANTS
  Buses,
  NoBus,
  MaxCommands,  \* bound: commands received
  MaxTasks,     \* bound: torque tasks that are not finished
  MaxUnplugs    \* bound: times a bus drops out of the published ST3215 state

ASSUME MirroringConstants ==
  /\ NoBus \notin Buses
  /\ MaxCommands \in Nat
  /\ MaxTasks \in Nat
  /\ MaxUnplugs \in Nat

VARIABLES
  leaders,    \* the keys of from_to
  targets,    \* per bus, the targets in from_to (none for a bus that is no key)
  toFrom,     \* per bus, its source in to_from, or NoBus
  handler,    \* what the callback still has to publish, or Idle
  modes,      \* per bus, the mode in the modes table
  restored,   \* the restore task has merged the modes of the earlier run
  published,  \* the newest state in the rx queue
  tasks,      \* the spawned torque tasks that are not finished, oldest first
  present,    \* the buses that the newest ST3215 state lists with motors
  torque,     \* per bus, the newest torque command in the commands queue
  missed,     \* buses the newest torque command was not sent to, since the
              \* task had no state of the bus
  raced,      \* history: buses whose newest torque task was spawned while one
              \* with the opposite command was not through with them
  commands,   \* number of commands received (bounded by MaxCommands)
  unplugs     \* number of times a bus dropped out (bounded by MaxUnplugs)

tables == <<leaders, targets, toFrom>>
env == <<present, unplugs>>
vars == <<tables, handler, modes, restored, published, tasks, torque,
          missed, raced, commands, env>>

Modes == {"none", "leader", "follower"}
NoModes == [b \in Buses |-> "none"]

(* What the modes queue of an earlier run may hold.                        *)
SavedModes == {NoModes, [b \in Buses |-> "follower"]}

Idle == [busy |-> FALSE, new |-> NoModes]
Unpublished == [leaders |-> {}, targets |-> [b \in Buses |-> {}]]

Tasks == [on : BOOLEAN, todo : SUBSET Buses, read : BOOLEAN, seen : SUBSET Buses]

-----------------------------------------------------------------------------
Opposed(on, b) == \E i \in 1 .. Len(tasks) : tasks[i].on # on /\ b \in tasks[i].todo

Spawn(on, buses) ==
  /\ Len(tasks) < MaxTasks
  /\ raced' = {b \in Buses : IF b \in buses THEN Opposed(on, b) ELSE b \in raced}
  /\ tasks' = Append(tasks, [on |-> on, todo |-> buses, read |-> FALSE, seen |-> {}])

(* Mutant: a target is not taken away from its former source.              *)
StartTablesKeepingOld(f, T) ==
  /\ leaders' = leaders \cup {f}
  /\ targets' = [targets EXCEPT ![f] = @ \cup T]
  /\ toFrom' = [b \in Buses |-> IF b \in T THEN f ELSE toFrom[b]]

(* Inference::start: every target leaves its former source, which stays a  *)
(* key even when that was its last target.                                 *)
StartTables(f, T) ==
  /\ leaders' = leaders \cup {f}
  /\ targets' = [s \in Buses |-> IF s = f THEN targets[s] \cup T
                                 ELSE {t \in targets[s] : t \notin T \/ toFrom[t] # s}]
  /\ toFrom' = [b \in Buses |-> IF b \in T THEN f ELSE toFrom[b]]

(* Mutant: the source gets no mode.                                        *)
StartModesOfTargets(f, T) ==
  [b \in Buses |-> IF b \in T THEN "follower" ELSE "none"]

(* The mode of a bus that is both source and target is the one inserted    *)
(* last.                                                                   *)
StartModes(f, T) ==
  [b \in Buses |-> IF b \in T THEN "follower" ELSE IF b = f THEN "leader"
                   ELSE "none"]

(* handle_start_mirror up to merge_modes.                                  *)
StartMirror(f, T) ==
  /\ ~handler.busy
  /\ commands < MaxCommands
  /\ commands' = commands + 1
  /\ StartTables(f, T)
  /\ Spawn(TRUE, T)
  /\ handler' = [busy |-> TRUE, new |-> StartModes(f, T)]
  /\ UNCHANGED <<modes, restored, published, torque, missed, env>>

(* Mutant: only the bus named in the command is freed.                     *)
FreedAlone(b) == {b}

(* Inference::stop: a source goes with all its targets.                    *)
Freed(b) == {b} \cup targets[b]

(* A source that loses its last target is no key any more.                 *)
StopTables(b) ==
  /\ targets' = [s \in Buses |-> IF s = b THEN {}
                                 ELSE IF s = toFrom[b] THEN targets[s] \ {b}
                                 ELSE targets[s]]
  /\ toFrom' = [t \in Buses |-> IF t = b \/ t \in targets[b] THEN NoBus
                                ELSE toFrom[t]]
  /\ leaders' = {s \in leaders :
                  s # b /\ (s # toFrom[b] \/ ~(targets[s] \subseteq {b}))}

(* handle_stop_mirror up to merge_modes.                                   *)
StopMirror(b) ==
  /\ ~handler.busy
  /\ commands < MaxCommands
  /\ commands' = commands + 1
  /\ StopTables(b)
  /\ Spawn(FALSE, Freed(b))
  /\ handler' = [busy |-> TRUE, new |-> NoModes]
  /\ UNCHANGED <<modes, restored, published, torque, missed, env>>

-----------------------------------------------------------------------------
(* Mutant: without a new mode nothing is published.                        *)
MergeModesIfAny(new) ==
  /\ modes' = [b \in Buses |-> IF new[b] # "none" THEN new[b] ELSE modes[b]]
  /\ published' = IF new = NoModes THEN published
                  ELSE [leaders |-> leaders, targets |-> targets]

(* merge_modes: under the modes lock, merge and publish.                   *)
MergeModes(new) ==
  /\ modes' = [b \in Buses |-> IF new[b] # "none" THEN new[b] ELSE modes[b]]
  /\ published' = [leaders |-> leaders, targets |-> targets]

(* The callback's second half.                                             *)
PublishCommand ==
  /\ handler.busy
  /\ MergeModes(handler.new)
  /\ handler' = Idle
  /\ UNCHANGED <<tables, restored, tasks, torque, missed, raced, commands, env>>

(* The restore task, once it has read the modes queue.                     *)
Restore ==
  /\ ~restored
  /\ restored' = TRUE
  /\ \E saved \in SavedModes : MergeModes(saved)
  /\ UNCHANGED <<tables, handler, tasks, torque, missed, raced, commands, env>>

-----------------------------------------------------------------------------
(* The torque tasks.  The runtime may run them in any order; a bus without *)
(* a state is skipped.                                                     *)

Without(s, i) == SubSeq(s, 1, i - 1) \o SubSeq(s, i + 1, Len(s))

(* Task i goes on as t; it ends when there is no bus left on its list.     *)
Proceed(i, t) ==
  tasks' = IF t.todo = {} THEN Without(tasks, i) ELSE [tasks EXCEPT ![i] = t]

(* update_from_st3215_queue; a failing read leaves the task no bus at all. *)
TaskRead(i) ==
  /\ ~tasks[i].read
  /\ \E seen \in {present, {}} :
       Proceed(i, [tasks[i] EXCEPT !.read = TRUE, !.seen = seen \cap tasks[i].todo])
  /\ UNCHANGED <<tables, handler, modes, restored, published, torque,
                 missed, raced, commands, env>>

Send(i, b) ==
  IF b \in tasks[i].seen
    THEN /\ torque' = [torque EXCEPT ![b] = tasks[i].on]
         /\ missed' = missed \ {b}
    ELSE /\ missed' = missed \cup {b}
         /\ UNCHANGED torque

(* Mutant: the task ends with its first bus.                               *)
TaskSendOne(i, b) ==
  /\ tasks[i].read
  /\ b \in tasks[i].todo
  /\ tasks' = Without(tasks, i)
  /\ Send(i, b)
  /\ UNCHANGED <<tables, handler, modes, restored, published, raced,
                 commands, env>>

(* One turn of the loop over the buses: send_st3215_commands.              *)
TaskSend(i, b) ==
  /\ tasks[i].read
  /\ b \in tasks[i].todo
  /\ Proceed(i, [tasks[i] EXCEPT !.todo = @ \ {b}, !.seen = @ \ {b}])
  /\ Send(i, b)
  /\ UNCHANGED <<tables, handler, modes, restored, published, raced,
                 commands, env>>

TaskStep == \E i \in 1 .. Len(tasks) : TaskRead(i) \/ \E b \in Buses : TaskSend(i, b)

(* The ST3215 driver publishes its state without a bus, or with it again.  *)
BusGone(b) ==
  /\ b \in present
  /\ unplugs < MaxUnplugs
  /\ unplugs' = unplugs + 1
  /\ present' = present \ {b}
  /\ UNCHANGED <<tables, handler, modes, restored, published, tasks,
                 torque, missed, raced, commands>>

BusBack(b) ==
  /\ b \notin present
  /\ present' = present \cup {b}
  /\ UNCHANGED <<tables, handler, modes, restored, published, tasks,
                 torque, missed, raced, commands, unplugs>>

-----------------------------------------------------------------------------
Init ==
  /\ leaders = {}
  /\ targets = [b \in Buses |-> {}]
  /\ toFrom = [b \in Buses |-> NoBus]
  /\ handler = Idle
  /\ modes = NoModes
  /\ restored = FALSE
  /\ published = Unpublished
  /\ tasks = <<>>
  /\ present = Buses
  /\ torque = [b \in Buses |-> FALSE]
  /\ missed = {}
  /\ raced = {}
  /\ commands = 0
  /\ unplugs = 0

Next ==
  \/ \E f \in Buses, T \in SUBSET Buses : StartMirror(f, T)
  \/ \E b \in Buses : StopMirror(b) \/ BusGone(b) \/ BusBack(b)
  \/ PublishCommand
  \/ Restore
  \/ TaskStep

Spec == Init /\ [][Next]_vars

(* The runtime polls every spawned task and the callback runs to its end.  *)
FairSpec == Spec /\ WF_vars(TaskStep) /\ WF_vars(PublishCommand)
-----------------------------------------------------------------------------
(* Type invariant of the tables, the modes and the torque tasks.           *)
TypeOK ==
  /\ leaders \subseteq Buses
  /\ targets \in [Buses -> SUBSET Buses]
  /\ toFrom \in [Buses -> Buses \cup {NoBus}]
  /\ handler \in [busy : BOOLEAN, new : [Buses -> Modes]]
  /\ modes \in [Buses -> Modes]
  /\ restored \in BOOLEAN
  /\ published \in [leaders : SUBSET Buses, targets : [Buses -> SUBSET Buses]]
  /\ tasks \in Seq(Tasks)
  /\ present \subseteq Buses
  /\ torque \in [Buses -> BOOLEAN]
  /\ missed \subseteq Buses
  /\ raced \subseteq Buses
  /\ commands \in 0 .. MaxCommands
  /\ unplugs \in 0 .. MaxUnplugs

(* from_to and to_from are each other's inverse, so a bus never follows    *)
(* two sources, whatever starts and stops came before.                     *)
TablesAgree ==
  /\ \A f, t \in Buses : t \in targets[f] <=> toFrom[t] = f
  /\ \A f \in Buses : targets[f] # {} => f \in leaders

(* With the callback at rest, the newest published state shows the tables  *)
(* as they are, also when the restore task published in between.           *)
PublishedCurrent ==
  ~handler.busy =>
    published.leaders = leaders /\ published.targets = targets

(* Every bus in a mirroring has a mode in the state published with it.     *)
MirroredHaveModes ==
  ~handler.busy =>
    \A f \in leaders : \A b \in {f} \cup targets[f] : modes[b] # "none"

(* Once every torque task is through, the followers are powered and the    *)
(* buses set free are not, in whatever order the tasks ran, except for     *)
(* those the newest command did not reach for want of a state (missed) and *)
(* those for which a start and a stop had their tasks running together.    *)
TorqueFollowsTables ==
  tasks = <<>> =>
    \A b \in Buses \ (missed \cup raced) : torque[b] <=> toFrom[b] # NoBus

(* The comment of Inference::stop: the task it spawns sends torque = 0 to  *)
(* the buses set free.  So when all is done a bus that follows no source   *)
(* is not powered.                                                         *)
FreedBusesAreLimp ==
  tasks = <<>> => \A b \in Buses \ missed : toFrom[b] = NoBus => ~torque[b]

(* A bus that stays a follower gets its torque for good, with the same two *)
(* exceptions.                                                             *)
FollowersPowered ==
  \A b \in Buses :
    <>[](toFrom[b] # NoBus /\ b \notin missed \cup raced) => <>[]torque[b]
=============================================================================
