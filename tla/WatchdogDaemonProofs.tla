------------------------ MODULE WatchdogDaemonProofs ------------------------
(***************************************************************************)
(* Proofs about WatchdogDaemon, for any intervals.                         *)
(***************************************************************************)
EXTENDS WatchdogDaemon, TLAPS

USE WatchdogConstants

-----------------------------------------------------------------------------
(* The next time set from a reading, failed or not, is at most the interval *)
(* away and never taken for one that has always been due.                  *)
LEMMA AfterRange ==
  ASSUME NEW ok, NEW t \in Nat, uptime \in Nat
  PROVE  /\ After(ok, t) \in 0..t
         /\ ok => After(ok, t) = t
  BY DEF After

LEMMA SettledNat == Settled \in Nat
  BY DEF Settled, Larger

(* Reading the clock keeps the types.                                      *)
LEMMA ReadRange ==
  ASSUME misreads \in 0..MaxMisreads, ReadClock
  PROVE  clock' \in BOOLEAN /\ misreads' \in 0..MaxMisreads
  <1>1. clock' \in BOOLEAN
    BY Zenon DEF ReadClock
  <1>2. misreads' \in 0..MaxMisreads
    BY DEF ReadClock
  <1>. QED
    BY <1>1, <1>2, Zenon

(* The steps keep the types.                                               *)
LEMMA TypeNext == TypeOK /\ [Next]_vars => TypeOK'
  <1> SUFFICES ASSUME TypeOK, [Next]_vars PROVE TypeOK'
    BY Zenon
  <1>. USE DEF TypeOK, times, device, reading, Online, Past, Longest
  <1>0. uptime \in Nat
    BY SettledNat
  <1>a. /\ After(clock, Feed) \in Past..Feed
        /\ After(clock, Retry) \in Past..Retry
        /\ After(clock', Check) \in Past..Check
    BY <1>0, AfterRange
  <1>1. CASE Flip \/ Signal
    <2>1. CASE Flip
      <3>1. up' \in BOOLEAN
        BY <2>1, Zenon DEF Flip
      <3>. QED
        BY <2>1, <3>1, Zenon DEF Flip
    <2>2. CASE Signal
      BY <2>2, Zenon DEF Signal
    <2>. QED
      BY <1>1, <2>1, <2>2, Zenon
  <1>2. CASE Tick
    <2>1. /\ feedIn' \in Past..Feed /\ checkIn' \in Past..Check /\ openIn' \in Past..Retry
          /\ offline' \in Nat \cup {Online} /\ lastOk' \in 0..Window
          /\ uptime' \in 0..Settled
      <3>1. Pass
        BY <1>2, Zenon DEF Tick
      <3>2. /\ feedIn' \in Past..Feed /\ checkIn' \in Past..Check
            /\ openIn' \in Past..Retry
        BY <3>1 DEF Pass, Down
      <3>3. offline' \in Nat \cup {Online}
        BY <3>1 DEF Pass
      <3>4. lastOk' \in 0..Window
        BY <3>1 DEF Pass
      <3>5. uptime' \in 0..Settled
        BY <3>1, SettledNat DEF Pass
      <3>. QED
        BY <3>2, <3>3, <3>4, <3>5, Zenon
    <2>2. spent' \in 0..Longest
      BY <1>2 DEF Tick
    <2>3. /\ dog' \in {"off", "armed", "fired"} /\ age' \in 0..Limit
      BY <1>2 DEF Tick
    <2>4. pc' \in {"top", "open", "feed", "check", "ping", "sleep", "exited", "reset"}
      BY <1>2, Zenon DEF Tick
    <2>. QED
      BY <1>2, <2>1, <2>2, <2>3, <2>4, Zenon DEF Tick
  <1>3. CASE Wake \/ SkipOpen \/ SkipFeed \/ SkipCheck
    BY <1>3, Zenon DEF Wake, SkipOpen, SkipFeed, SkipCheck
  <1>b. CASE BeginCheck
    <2>1. spent' \in 0..Longest
      BY <1>b DEF BeginCheck
    <2>. QED
      BY <1>b, <2>1, Zenon DEF BeginCheck
  <1>c. CASE Look
    <2>1. clock' \in BOOLEAN /\ misreads' \in 0..MaxMisreads
      BY <1>c, ReadRange, Zenon DEF Look
    <2>. QED
      BY <1>c, <2>1, Zenon DEF Look
  <1>4. CASE OpenDevice
    <2>1. feedIn' \in Past..Feed
      BY <1>4, <1>a, Zenon DEF OpenDevice
    <2>2. age' \in 0..Limit
      BY <1>4 DEF OpenDevice
    <2>. QED
      BY <1>4, <2>1, <2>2, Zenon DEF OpenDevice
  <1>5. CASE OpenFails
    <2>1. faults' \in 0..MaxFaults /\ age' \in 0..Limit
      BY <1>5 DEF OpenFails
    <2>2. openIn' \in Past..Retry
      BY <1>5, <1>a, Zenon DEF OpenFails
    <2>. QED
      BY <1>5, <2>1, <2>2, Zenon DEF OpenFails
  <1>6. CASE FeedDevice
    <2>1. age' \in 0..Limit
      BY <1>6 DEF FeedDevice
    <2>2. feedIn' \in Past..Feed
      BY <1>6, <1>a, Zenon DEF FeedDevice
    <2>. QED
      BY <1>6, <2>1, <2>2, Zenon DEF FeedDevice
  <1>7. CASE FeedFails
    <2>1. faults' \in 0..MaxFaults
      BY <1>7 DEF FeedFails
    <2>2. openIn' \in Past..Retry
      BY <1>7, <1>a, Zenon DEF FeedFails
    <2>. QED
      BY <1>7, <2>1, <2>2, Zenon DEF FeedFails
  <1>8. CASE CheckSucceeds
    <2>1. clock' \in BOOLEAN /\ misreads' \in 0..MaxMisreads
      BY <1>8, ReadRange, Zenon DEF CheckSucceeds
    <2>2. lastOk' \in 0..Window /\ offline' \in Nat \cup {Online}
      BY <1>8 DEF CheckSucceeds
    <2>3. checkIn' \in Past..Check
      BY <1>8, <1>a, Zenon DEF CheckSucceeds
    <2>. QED
      BY <1>8, <2>1, <2>2, <2>3, Zenon DEF CheckSucceeds
  <1>9. CASE CheckFails
    <2>1. feeding' \in BOOLEAN /\ pc' = "sleep"
      BY <1>9, Zenon DEF CheckFails
    <2>2. offline' \in Nat \cup {Online}
      BY <1>9 DEF CheckFails, Started
    <2>3. checkIn' \in Past..Check
      BY <1>9, <1>a, Zenon DEF CheckFails
    <2>4. clock' \in BOOLEAN /\ misreads' \in 0..MaxMisreads
      BY <1>9, ReadRange, Zenon DEF CheckFails
    <2>. QED
      BY <1>9, <2>1, <2>2, <2>3, <2>4, Zenon DEF CheckFails
  <1>10. CASE Exit
    BY <1>10, Zenon DEF Exit
  <1>11. CASE UNCHANGED vars
    BY <1>11, Zenon DEF vars
  <1>. QED
    BY <1>1, <1>2, <1>3, <1>b, <1>c, <1>4, <1>5, <1>6, <1>7, <1>8, <1>9, <1>10, <1>11,
       Zenon DEF Next, Daemon

LEMMA TypeInit == Init => TypeOK
  <1> SUFFICES ASSUME Init PROVE TypeOK
    BY Zenon
  <1>1. /\ offline \in Nat \cup {Online} /\ lastOk \in 0..Window
        /\ spent \in 0..Longest /\ age \in 0..Limit /\ faults \in 0..MaxFaults
    BY DEF Init, Longest
  <1>2. /\ fd \in BOOLEAN /\ feeding \in BOOLEAN /\ clock \in BOOLEAN
        /\ stop \in BOOLEAN /\ up \in BOOLEAN
    BY Zenon DEF Init
  <1>3. PICK f \in 0..1, c \in 0..1, o \in 0..1 :
          /\ f + c + o <= MaxMisreads
          /\ misreads = f + c + o
          /\ feedIn = FirstReading(f)
          /\ checkIn = FirstReading(c)
          /\ openIn = FirstReading(o)
    BY Zenon DEF Init
  <1>4. misreads \in 0..MaxMisreads
    BY <1>3
  <1>5. feedIn \in Past..Feed /\ checkIn \in Past..Check /\ openIn \in Past..Retry
    BY <1>3 DEF FirstReading, Past
  <1>. QED
    BY <1>1, <1>2, <1>4, <1>5, Zenon DEF Init, TypeOK

(* Type correctness, for any intervals.                                    *)
THEOREM WatchdogTypes == Spec => []TypeOK
  BY TypeInit, TypeNext, PTL DEF Spec

-----------------------------------------------------------------------------
(* How long an open device that is being fed has waited, along the loop,   *)
(* while the clock works.  Past the feeding step less than an interval has *)
(* gone by, a check adds what it takes, and the sleep one second.          *)
Waited ==
  misreads = 0 /\ fd /\ feeding /\ pc \notin {"exited", "reset"} =>
    /\ feedIn > 0 => age + feedIn <= Feed
    /\ pc \in {"top", "open", "feed"} => age <= Feed + Longest
    /\ pc = "check" => feedIn > 0
    /\ pc = "ping" => age <= Feed - 1 + spent
    /\ pc = "sleep" => age <= Feed - 1 + Longest

(* A device that is not open is armed only after a failure or a stop, and  *)
(* only the hardware resets.                                               *)
Armed ==
  /\ dog # "off" /\ ~fd => faults > 0 \/ stop
  /\ pc = "exited" => stop
  /\ dog = "fired" <=> pc = "reset"
  /\ misreads = 0 => clock

FedInv == Waited /\ Armed /\ NoSpuriousReset

(* After a reading that leaves no failure on record, none had failed, and  *)
(* this one has not.                                                       *)
LEMMA ReadFirst ==
  ASSUME TypeOK, ReadClock
  PROVE  misreads' = 0 => misreads = 0 /\ clock'
  BY DEF TypeOK, ReadClock

LEMMA FedNext == TypeOK /\ FedInv /\ [Next]_vars => FedInv'
  <1> SUFFICES ASSUME TypeOK, FedInv, [Next]_vars PROVE FedInv'
    BY Zenon
  <1>. USE DEF FedInv, Waited, Armed, NoSpuriousReset, TypeOK, times, device, reading,
               Longest
  <1>b. uptime \in Nat
    BY SettledNat
  <1>0. clock => After(clock, Feed) = Feed
    BY <1>b, AfterRange, Zenon
  <1>1. CASE Flip \/ Signal
    BY <1>1 DEF Flip, Signal
  <1>2. CASE Tick
    <2>1. Waited'
      BY <1>2 DEF Tick, Pass, Down
    <2>2. Armed'
      BY <1>2, Zenon DEF Tick
    <2>3. NoSpuriousReset'
      BY <1>2 DEF Tick
    <2>. QED
      BY <2>1, <2>2, <2>3, Zenon
  <1>3. CASE Wake \/ SkipOpen \/ SkipFeed \/ SkipCheck \/ BeginCheck
    BY <1>3 DEF Wake, SkipOpen, SkipFeed, SkipCheck, BeginCheck, FeedDue, Due, Past
  <1>a. CASE Look
    BY <1>a, ReadFirst, Zenon DEF Look
  <1>4. CASE OpenDevice
    BY <1>4, <1>0 DEF OpenDevice, OpenDue
  <1>5. CASE OpenFails
    BY <1>5 DEF OpenFails, OpenDue
  <1>6. CASE FeedDevice
    BY <1>6, <1>0 DEF FeedDevice, FeedDue
  <1>7. CASE FeedFails
    BY <1>7 DEF FeedFails, FeedDue
  <1>8. CASE CheckSucceeds
    <2>1. misreads' = 0 => misreads = 0 /\ clock' /\ After(clock', Check) = Check
      BY <1>8, ReadFirst, SettledNat, AfterRange DEF CheckSucceeds
    <2>. QED
      BY <1>8, <2>1 DEF CheckSucceeds
  <1>9. CASE CheckFails
    <2>1. misreads' = 0 => misreads = 0 /\ clock' /\ After(clock', Check) = Check
      BY <1>9, ReadFirst, SettledNat, AfterRange DEF CheckFails
    <2>. QED
      BY <1>9, <2>1 DEF CheckFails
  <1>10. CASE Exit
    BY <1>10, Zenon DEF Exit
  <1>11. CASE UNCHANGED vars
    BY <1>11, Zenon DEF vars
  <1>. QED
    BY <1>1, <1>2, <1>3, <1>a, <1>4, <1>5, <1>6, <1>7, <1>8, <1>9, <1>10, <1>11, Zenon
    DEF Next, Daemon

(* With a long enough hardware limit nothing but the decision, a failure   *)
(* of the device or of the clock, or a signal leads to a reset.            *)
THEOREM ResetsAreMeant == Spec => []NoSpuriousReset
  <1>1. Init => FedInv
    BY Zenon DEF Init, FedInv, Waited, Armed, NoSpuriousReset
  <1>2. FedInv => NoSpuriousReset
    BY Zenon DEF FedInv
  <1>. QED
    BY <1>1, <1>2, TypeInit, TypeNext, FedNext, PTL DEF Spec

-----------------------------------------------------------------------------
(* The offline timer along the loop.  Until the next check is due it is    *)
(* short of the window plus the time since the last one.  A failing feed   *)
(* can put a due check off by one sleep, but then the device is closed, or *)
(* just opened and fed, and no second failure can follow before the check. *)
(* A failed reading puts it off by one sleep as well; under it nothing is  *)
(* opened or fed once the timer runs.                                      *)
Last == Window - 1 + Check + misreads

Punctual == offline <= Last \/ (~fd /\ offline <= Last + 1)
PutOff == offline <= Last - 1 \/ (~fd /\ offline <= Last)

Timed ==
  feeding /\ pc \notin {"exited", "reset"} =>
    /\ pc \in {"feed", "check", "ping", "sleep"} \/ offline # Online =>
         openIn # Past \/ fd
    /\ fd => feedIn # Past
    /\ checkIn > 0 => offline <= Window - 1 + Check - checkIn
    /\ checkIn <= 0 =>
         /\ pc = "sleep" => PutOff
         /\ pc = "top" => Punctual
         /\ pc \in {"open", "feed", "check"} /\ ~clock => PutOff
         /\ pc = "open" /\ clock => Punctual
         /\ pc = "feed" /\ clock =>
              \/ offline <= Last
              \/ (fd => feedIn > 0) /\ offline <= Last + 1
         /\ pc = "check" /\ clock => offline <= Last + 1
         /\ pc = "ping" => offline <= Last + 1 + spent
    /\ pc = "ping" => checkIn <= 0

(* What a check leaves behind when feeding goes on: the timer stopped, or  *)
(* still short of the window and the next check a whole interval away.     *)
LEMMA CheckBounds ==
  ASSUME NEW since \in Int, NEW next \in 0..Check, NEW failed \in Nat,
         since = -1 \/ (~(since >= Window) /\ next = Check)
  PROVE  /\ next > 0 => since <= Window - 1 + Check - next
         /\ next <= 0 => since <= (Window - 1 + Check + failed) - 1
  OBVIOUS

LEMMA TimedNext == TypeOK /\ Timed /\ [Next]_vars => Timed'
  <1> SUFFICES ASSUME TypeOK, Timed, [Next]_vars PROVE Timed'
    BY Zenon
  <1>. USE DEF Timed, TypeOK, times, device, reading, Longest, Last, Punctual, PutOff,
               Online, Past
  <1>0. uptime \in Nat
    BY SettledNat
  <1>a. /\ After(clock, Feed) \in 0..Feed /\ (clock => After(clock, Feed) = Feed)
        /\ After(clock, Retry) \in 0..Retry
        /\ After(clock', Check) \in 0..Check /\ (clock' => After(clock', Check) = Check)
    BY <1>0, AfterRange
  <1>1. CASE Flip \/ Signal
    BY <1>1, Zenon DEF Flip, Signal
  <1>2. CASE Tick
    <2>1. CASE pc = "ping"
      BY <1>2, <2>1 DEF Tick, Pass, Down
    <2>2. CASE pc = "sleep"
      BY <1>2, <2>2 DEF Tick, Pass, Down
    <2>3. CASE pc = "exited"
      BY <1>2, <2>3, Zenon DEF Tick
    <2>. QED
      BY <1>2, <2>1, <2>2, <2>3, Zenon DEF Tick
  <1>3. CASE Wake
    BY <1>3 DEF Wake
  <1>b. CASE Look
    <2>1. CASE clock' /\ misreads' = misreads
      BY <1>b, <2>1 DEF Look
    <2>2. CASE ~clock' /\ misreads' = misreads + 1
      BY <1>b, <2>2 DEF Look
    <2>. QED
      BY <1>b, <2>1, <2>2, Zenon DEF Look, ReadClock
  <1>c. CASE SkipOpen
    BY <1>c DEF SkipOpen, OpenDue, Due
  <1>d. CASE SkipFeed
    BY <1>d DEF SkipFeed, FeedDue, Due
  <1>e. CASE SkipCheck
    BY <1>e DEF SkipCheck, Due
  <1>f. CASE BeginCheck
    BY <1>f DEF BeginCheck, Due
  <1>4. CASE OpenDevice
    BY <1>4, <1>a DEF OpenDevice, OpenDue, Due
  <1>5. CASE OpenFails
    BY <1>5, <1>a DEF OpenFails, OpenDue
  <1>6. CASE FeedDevice
    BY <1>6, <1>a DEF FeedDevice, FeedDue, Due
  <1>7. CASE FeedFails
    BY <1>7, <1>a DEF FeedFails, FeedDue, Due
  <1>g. ASSUME pc = "ping", pc' = "sleep", feeding, UNCHANGED <<fd, feedIn, openIn>>,
               checkIn' > 0 => offline' <= Window - 1 + Check - checkIn',
               checkIn' <= 0 => offline' <= Last' - 1
        PROVE  Timed'
    BY <1>g, Zenon
  <1>8. CASE CheckSucceeds
    <2>1. misreads' \in Nat
      BY <1>8, ReadRange DEF CheckSucceeds
    <2>2. /\ pc = "ping" /\ pc' = "sleep" /\ offline' = Online
          /\ checkIn' \in 0..Check
          /\ UNCHANGED <<fd, feeding, feedIn, openIn>>
      BY <1>8, <1>a, Zenon DEF CheckSucceeds
    <2>3. /\ checkIn' > 0 => offline' <= Window - 1 + Check - checkIn'
          /\ checkIn' <= 0 => offline' <= Last' - 1
      <3>1. offline' \in Int
        BY <2>2
      <3>2. checkIn' > 0 => offline' <= Window - 1 + Check - checkIn'
        BY <2>1, <2>2, <3>1, CheckBounds
      <3>3. checkIn' <= 0 => offline' <= (Window - 1 + Check + misreads') - 1
        BY <2>1, <2>2, <3>1, CheckBounds
      <3>4. Last' = Window - 1 + Check + misreads'
        OBVIOUS
      <3>. QED
        BY <3>2, <3>3, <3>4, Zenon
    <2>4. CASE feeding
      BY <1>g, <2>2, <2>3, <2>4, Zenon
    <2>. QED
      BY <2>2, <2>4, Zenon
  <1>9. CASE CheckFails
    <2>1. misreads' \in Nat
      BY <1>9, ReadRange DEF CheckFails
    <2>2. /\ pc = "ping" /\ pc' = "sleep"
          /\ checkIn' \in 0..Check
          /\ clock' => checkIn' = Check
          /\ UNCHANGED <<fd, feedIn, openIn>>
      BY <1>9, <1>a, Zenon DEF CheckFails
    <2>3. feeding' => feeding /\ (offline' = Online \/ (~(offline' >= Window) /\ clock'))
      BY <1>9, Zenon DEF CheckFails, WindowOver
    <2>4. offline' \in Int
      BY <1>9 DEF CheckFails, Started
    <2>5. ASSUME feeding' PROVE Timed'
      <3>1. feeding
        BY <2>3, <2>5, Zenon
      <3>2. offline' = Online \/ (~(offline' >= Window) /\ checkIn' = Check)
        BY <2>2, <2>3, <2>5, Zenon
      <3>3. checkIn' > 0 => offline' <= Window - 1 + Check - checkIn'
        BY <2>1, <2>2, <2>4, <3>2, CheckBounds
      <3>4. checkIn' <= 0 => offline' <= (Window - 1 + Check + misreads') - 1
        BY <2>1, <2>2, <2>4, <3>2, CheckBounds
      <3>5. Last' = Window - 1 + Check + misreads'
        OBVIOUS
      <3>. QED
        BY <1>g, <2>2, <3>1, <3>3, <3>4, <3>5, Zenon
    <2>. QED
      BY <2>5, Zenon
  <1>10. CASE Exit
    BY <1>10, Zenon DEF Exit
  <1>11. CASE UNCHANGED vars
    BY <1>11, Zenon DEF vars
  <1>. QED
    BY <1>1, <1>2, <1>3, <1>b, <1>c, <1>d, <1>e, <1>f, <1>4, <1>5, <1>6, <1>7, <1>8, <1>9,
       <1>10, <1>11, Zenon DEF Next, Daemon

(* The decision follows the end of the window within one interval and one  *)
(* check, and a second for each failed reading of the clock.               *)
THEOREM WindowIsNotOverlooked == Spec => []WindowNotOverlooked
  <1>1. Init /\ TypeOK => Timed
    BY DEF Init, TypeOK, Timed, Last, Punctual, Online
  <1>2. TypeOK /\ Timed => WindowNotOverlooked
    BY DEF Timed, TypeOK, WindowNotOverlooked, Last, Punctual, PutOff, Longest, Online, Past
  <1>. QED
    BY <1>1, <1>2, TypeInit, TypeNext, TimedNext, PTL DEF Spec

-----------------------------------------------------------------------------
(* The timer never runs ahead of the time since the last success, which is *)
(* counted up to the window.                                               *)
TimerHonest == offline <= lastOk \/ lastOk = Window

LEMMA HonestNext == TypeOK /\ TimerHonest /\ [Next]_vars => TimerHonest'
  <1> SUFFICES ASSUME TypeOK, TimerHonest, [Next]_vars PROVE TimerHonest'
    BY Zenon
  <1>. USE DEF TimerHonest, TypeOK, times, device, Online
  <1>1. CASE Tick
    BY <1>1 DEF Tick, Pass
  <1>2. CASE CheckSucceeds
    BY <1>2 DEF CheckSucceeds
  <1>3. CASE CheckFails
    BY <1>3 DEF CheckFails, Started
  <1>4. CASE ~Tick /\ ~CheckSucceeds /\ ~CheckFails
    <2>1. UNCHANGED <<offline, lastOk>>
      BY <1>4, Zenon DEF Next, Daemon, Flip, Signal, Wake, Look, SkipOpen, OpenDevice,
                  OpenFails, SkipFeed, FeedDevice, FeedFails, SkipCheck, BeginCheck, Exit,
                  vars
    <2>. QED
      BY <2>1, Zenon
  <1>. QED
    BY <1>1, <1>2, <1>3, <1>4, Zenon

(* Feeding ends only after a whole window without success, or when the     *)
(* clock fails after a failed check while the timer runs, and for good.    *)
THEOREM ResetsAreNotEarly == Spec => NoEarlyReset
  <1>1. Init => TimerHonest
    BY DEF Init, TimerHonest, Online
  <1>2. ASSUME TypeOK, TimerHonest, [Next]_vars, feeding' # feeding
        PROVE  ~feeding' /\ (lastOk >= Window \/ (~clock' /\ offline # Online))
    <2>1. CheckFails
      BY <1>2, Zenon
          DEF Next, Daemon, Flip, Signal, Tick, Wake, Look, SkipOpen, OpenDevice, OpenFails,
                  SkipFeed, FeedDevice, FeedFails, SkipCheck, BeginCheck, CheckSucceeds,
                  Exit, vars
    <2>2. ~feeding' /\ feeding
      BY <1>2, <2>1, Zenon DEF CheckFails, TypeOK
    <2>3. WindowOver(clock', offline')
      BY <2>1, <2>2, Zenon DEF CheckFails
    <2>4. offline' = IF offline = Online THEN Started(clock') ELSE offline
      BY <2>1, Zenon DEF CheckFails
    <2>5. CASE offline = Online
      <3>1. offline' = 0 /\ clock'
        BY <2>3, <2>4, <2>5, Zenon DEF Started, WindowOver
      <3>2. 0 >= Window
        BY <2>3, <3>1, Zenon DEF WindowOver
      <3>. QED
        BY <3>2
    <2>6. CASE offline # Online
      <3>1. offline >= Window \/ ~clock'
        BY <2>3, <2>4, <2>6, Zenon DEF WindowOver
      <3>2. offline >= Window => lastOk >= Window
        BY <1>2 DEF TimerHonest, TypeOK, Online
      <3>. QED
        BY <2>2, <2>6, <3>1, <3>2, Zenon
    <2>. QED
      BY <2>5, <2>6, Zenon
  <1>3. TypeOK /\ TimerHonest /\ [Next]_vars
          => [feeding' # feeding =>
                /\ ~feeding'
                /\ lastOk >= Window \/ (~clock' /\ offline # Online)]_vars
    BY <1>2, Zenon
  <1>. QED
    BY <1>1, <1>3, TypeInit, TypeNext, HonestNext, PTL DEF Spec, NoEarlyReset

=============================================================================
