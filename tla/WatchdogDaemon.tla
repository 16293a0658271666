--------------------------- MODULE WatchdogDaemon ---------------------------
(***************************************************************************)
(* x8-watchdogd, which feeds the hardware watchdog of the board until the  *)
(* network has been out of reach for a whole window.  One thread polls:    *)
(* open the device, feed it, check the network, sleep.  The check is a     *)
(* child process that the thread waits for, so nothing is fed meanwhile.   *)
(*                                                                         *)
(* Times are kept relative to now: feedIn stands for next_feed minus now,  *)
(* or 0 when the time has come.  A second passes only while the thread     *)
(* sleeps or waits for the child.  Every reading of the clock can fail:    *)
(* monotonic_sec then returns 0, which is before every time but 0 itself.  *)
(***************************************************************************)
EXTENDS Integers

CONSTANTS
  Feed,      \* feed_sec
  Check,     \* check_sec
  Window,    \* offline_reboot_sec
  Retry,     \* watchdog_retry_sec
  Hard,      \* ping_hard_timeout_sec
  Grace,     \* seconds from SIGTERM to SIGKILL
  Limit,     \* seconds without a feed after which the hardware resets
  MaxFaults, \* bound: failures of the watchdog device
  MaxMisreads \* bound: failures of the clock

(* parse_options refuses a zero and a feed_sec that is not below           *)
(* offline_reboot_sec.                                                     *)
ASSUME WatchdogConstants ==
  /\ Feed \in Nat \ {0} /\ Check \in Nat \ {0} /\ Window \in Nat
  /\ Retry \in Nat \ {0} /\ Hard \in Nat \ {0} /\ Grace \in Nat
  /\ Limit \in Nat \ {0} /\ MaxFaults \in Nat /\ MaxMisreads \in Nat
  /\ Feed < Window

VARIABLES
  pc,        \* where the thread is in its loop
  fd,        \* watchdog_fd is open
  feeding,   \* feeding_enabled
  feedIn,    \* next_feed
  checkIn,   \* next_check
  openIn,    \* next_watchdog_open
  offline,   \* now minus offline_since, or Online
  uptime,    \* seconds since the clock was 0, as far as an interval tells
  clock,     \* the last reading of the clock succeeded
  misreads,  \* number of readings that failed
  spent,     \* seconds this check has taken
  stop,      \* g_stop_requested
  up,        \* the network
  dog,       \* the hardware: "off", "armed" or "fired"
  age,       \* the hardware: seconds since it was armed or fed
  faults,    \* number of device failures
  lastOk     \* history: seconds since a check succeeded, or the start

Online == -1
Past == -1  \* a time that is 0, which has come under any reading
Longest == Hard + Grace  \* of a check
Larger(a, b) == IF a > b THEN a ELSE b
Settled == Larger(Feed, Larger(Check, Retry))  \* an uptime beyond every interval

reading == <<clock, misreads>>
times == <<feedIn, checkIn, openIn, offline, uptime, lastOk>>
device == <<dog, age>>
vars == <<pc, fd, feeding, reading, times, spent, stop, up, device, faults>>

-----------------------------------------------------------------------------
(* The environment: the network comes and goes, a signal asks to stop.     *)

Flip ==
  /\ up' = ~up
  /\ UNCHANGED <<pc, fd, feeding, reading, times, spent, stop, device, faults>>

Signal ==
  /\ ~stop
  /\ stop' = TRUE
  /\ UNCHANGED <<pc, fd, feeding, reading, times, spent, up, device, faults>>

(* One second.  Only what still matters is counted: offline until feeding  *)
(* ends, lastOk up to the window.                                          *)
Down(t) == IF t > 0 THEN t - 1 ELSE t

Pass ==
  /\ feedIn' = Down(feedIn)
  /\ checkIn' = Down(checkIn)
  /\ openIn' = Down(openIn)
  /\ offline' = IF offline = Online \/ ~feeding THEN offline ELSE offline + 1
  /\ uptime' = IF uptime = Settled THEN uptime ELSE uptime + 1
  /\ lastOk' = IF lastOk = Window THEN lastOk ELSE lastOk + 1

(* The hardware resets the board when it was not fed for Limit seconds.    *)
Tick ==
  /\ dog # "fired"
  /\ \/ pc \in {"sleep", "exited"} /\ spent' = spent
     \/ pc = "ping" /\ spent < Longest /\ spent' = spent + 1
  /\ pc # "exited" \/ dog = "armed"
  /\ Pass
  /\ IF dog = "armed" /\ age + 1 >= Limit
       THEN dog' = "fired" /\ pc' = "reset" /\ age' = age
       ELSE /\ pc' = IF pc = "sleep" THEN "top" ELSE pc
            /\ age' = IF dog = "armed" THEN age + 1 ELSE age
            /\ dog' = dog
  /\ UNCHANGED <<fd, feeding, reading, stop, up, faults>>

-----------------------------------------------------------------------------
(* The loop.                                                               *)

(* The poll is a tenth of a second: the thread may wake in the same one.   *)
Wake ==
  /\ pc = "sleep"
  /\ pc' = "top"
  /\ UNCHANGED <<fd, feeding, reading, times, spent, stop, up, device, faults>>

(* monotonic_sec.                                                          *)
ReadClock ==
  \/ clock' = TRUE /\ misreads' = misreads
  \/ misreads < MaxMisreads /\ clock' = FALSE /\ misreads' = misreads + 1

(* now >= t, and now + t, for the reading of which ok says if it was good. *)
Due(ok, t) == t = Past \/ (ok /\ t = 0)
After(ok, t) == IF ok THEN t ELSE IF t > uptime THEN t - uptime ELSE 0

(* The head of the loop.                                                   *)
Look ==
  /\ pc = "top" /\ ~stop
  /\ ReadClock
  /\ pc' = "open"
  /\ UNCHANGED <<fd, feeding, times, spent, stop, up, device, faults>>

OpenDue == ~fd /\ Due(clock, openIn)

(* Mutant: without the device the rest of the loop is skipped.             *)
SkipOpenAndLoop ==
  /\ pc = "open"
  /\ ~OpenDue
  /\ pc' = IF fd THEN "feed" ELSE "sleep"
  /\ UNCHANGED <<fd, feeding, reading, times, spent, stop, up, device, faults>>

SkipOpen ==
  /\ pc = "open"
  /\ ~OpenDue
  /\ pc' = "feed"
  /\ UNCHANGED <<fd, feeding, reading, times, spent, stop, up, device, faults>>

(* Opening arms the hardware; then it is fed, unless feeding has ended.    *)
OpenDevice ==
  /\ pc = "open"
  /\ OpenDue
  /\ pc' = "feed"
  /\ fd' = TRUE
  /\ dog' = "armed"
  /\ age' = IF feeding \/ dog = "off" THEN 0 ELSE age
  /\ feedIn' = IF feeding THEN After(clock, Feed) ELSE feedIn
  /\ UNCHANGED <<feeding, reading, checkIn, openIn, offline, uptime, lastOk, spent, stop,
                 up, faults>>

(* The device does not open, or opens and cannot be fed and is closed      *)
(* again, which does not disarm it.                                        *)
OpenFails ==
  /\ pc = "open"
  /\ OpenDue
  /\ faults < MaxFaults
  /\ faults' = faults + 1
  /\ pc' = "feed"
  /\ openIn' = After(clock, Retry)
  /\ \/ UNCHANGED device
     \/ feeding /\ dog' = "armed" /\ age' = IF dog = "off" THEN 0 ELSE age
  /\ UNCHANGED <<fd, feeding, reading, feedIn, checkIn, offline, uptime, lastOk, spent,
                 stop, up>>

(* Mutant: feeding goes on after the decision.                             *)
FeedDueAlways == fd /\ Due(clock, feedIn)

FeedDue == feeding /\ fd /\ Due(clock, feedIn)

SkipFeed ==
  /\ pc = "feed"
  /\ ~FeedDue
  /\ pc' = "check"
  /\ UNCHANGED <<fd, feeding, reading, times, spent, stop, up, device, faults>>

FeedDevice ==
  /\ pc = "feed"
  /\ FeedDue
  /\ pc' = "check"
  /\ feedIn' = After(clock, Feed)
  /\ age' = 0
  /\ UNCHANGED <<fd, feeding, reading, checkIn, openIn, offline, uptime, lastOk, spent,
                 stop, up, dog, faults>>

(* A feed that fails closes the device and skips the rest of the loop, a   *)
(* check that is due included.                                             *)
FeedFails ==
  /\ pc = "feed"
  /\ FeedDue
  /\ faults < MaxFaults
  /\ faults' = faults + 1
  /\ fd' = FALSE
  /\ openIn' = After(clock, Retry)
  /\ pc' = "sleep"
  /\ UNCHANGED <<feeding, reading, feedIn, checkIn, offline, uptime, lastOk, spent, stop,
                 up, device>>

SkipCheck ==
  /\ pc = "check"
  /\ ~Due(clock, checkIn)
  /\ pc' = "sleep"
  /\ UNCHANGED <<fd, feeding, reading, times, spent, stop, up, device, faults>>

BeginCheck ==
  /\ pc = "check"
  /\ Due(clock, checkIn)
  /\ pc' = "ping"
  /\ spent' = 0
  /\ UNCHANGED <<fd, feeding, reading, times, stop, up, device, faults>>

(* Mutant: a success does not clear the offline timer.                     *)
CheckSucceedsOnly ==
  /\ pc = "ping"
  /\ up /\ spent <= Hard
  /\ ReadClock
  /\ lastOk' = 0
  /\ checkIn' = After(clock', Check)
  /\ pc' = "sleep"
  /\ UNCHANGED <<fd, feeding, feedIn, openIn, offline, uptime, spent, stop, up, device,
                 faults>>

(* The child exits with 0 before the deadline.  The clock is read again.   *)
CheckSucceeds ==
  /\ pc = "ping"
  /\ up /\ spent <= Hard
  /\ ReadClock
  /\ offline' = Online
  /\ lastOk' = 0
  /\ checkIn' = After(clock', Check)
  /\ pc' = "sleep"
  /\ UNCHANGED <<fd, feeding, feedIn, openIn, uptime, spent, stop, up, device, faults>>

(* offline_since = now; a 0 means online.                                  *)
Started(ok) == IF ok /\ uptime > 0 THEN 0 ELSE Online

(* now - offline_since >= offline_reboot_sec, where the difference of a    *)
(* failed reading is a huge unsigned number.                               *)
WindowOver(ok, since) == since # Online /\ (since >= Window \/ ~ok)

(* Mutant: every failed check starts the timer.                            *)
CheckFailsAnew ==
  /\ pc = "ping"
  /\ ReadClock
  /\ offline' = Started(clock')
  /\ feeding' = (feeding /\ ~WindowOver(clock', offline'))
  /\ checkIn' = After(clock', Check)
  /\ pc' = "sleep"
  /\ UNCHANGED <<fd, feedIn, openIn, uptime, lastOk, spent, stop, up, device, faults>>

(* Mutant: the time of the next feed is computed anew after the check.     *)
CheckFailsPostponing ==
  /\ pc = "ping"
  /\ ReadClock
  /\ offline' = IF offline = Online THEN Started(clock') ELSE offline
  /\ feeding' = (feeding /\ ~WindowOver(clock', offline'))
  /\ checkIn' = After(clock', Check)
  /\ feedIn' = After(clock', Feed)
  /\ pc' = "sleep"
  /\ UNCHANGED <<fd, openIn, uptime, lastOk, spent, stop, up, device, faults>>

(* It exits otherwise, cannot be started, is killed at the deadline (at    *)
(* once if the clock failed when the deadline was set) or because of a     *)
(* signal.  The first failure starts the timer; a failure after the window *)
(* ends feeding for good.                                                  *)
CheckFails ==
  /\ pc = "ping"
  /\ ReadClock
  /\ offline' = IF offline = Online THEN Started(clock') ELSE offline
  /\ feeding' = (feeding /\ ~WindowOver(clock', offline'))
  /\ checkIn' = After(clock', Check)
  /\ pc' = "sleep"
  /\ UNCHANGED <<fd, feedIn, openIn, uptime, lastOk, spent, stop, up, device, faults>>

(* The magic close disarms the hardware, if the write succeeds.            *)
Exit ==
  /\ pc = "top" /\ stop
  /\ pc' = "exited"
  /\ fd' = FALSE
  /\ dog' \in IF fd THEN {"off", dog} ELSE {dog}
  /\ UNCHANGED <<feeding, reading, times, spent, stop, up, age, faults>>

Daemon ==
  \/ Wake
  \/ Look
  \/ SkipOpen
  \/ OpenDevice
  \/ OpenFails
  \/ SkipFeed
  \/ FeedDevice
  \/ FeedFails
  \/ SkipCheck
  \/ BeginCheck
  \/ CheckSucceeds
  \/ CheckFails
  \/ Exit

-----------------------------------------------------------------------------
(* The three times are read one by one.                                    *)
FirstReading(failed) == IF failed = 1 \/ uptime = 0 THEN Past ELSE 0

Init ==
  /\ pc = "top"
  /\ fd = FALSE
  /\ feeding = TRUE
  /\ uptime \in 0..Settled
  /\ \E f, c, o \in 0..1 :
       /\ f + c + o <= MaxMisreads
       /\ misreads = f + c + o
       /\ feedIn = FirstReading(f)
       /\ checkIn = FirstReading(c)
       /\ openIn = FirstReading(o)
  /\ clock = TRUE
  /\ offline = Online
  /\ spent = 0
  /\ stop = FALSE
  /\ up \in BOOLEAN
  /\ dog = "off"
  /\ age = 0
  /\ faults = 0
  /\ lastOk = 0

Next == Flip \/ Signal \/ Tick \/ Daemon

Spec == Init /\ [][Next]_vars

(* The thread is scheduled, and ten polls take a second.                   *)
FairSpec == Spec /\ WF_vars(Daemon) /\ SF_vars(Tick)

-----------------------------------------------------------------------------
(* Type correctness.                                                       *)
TypeOK ==
  /\ pc \in {"top", "open", "feed", "check", "ping", "sleep", "exited", "reset"}
  /\ fd \in BOOLEAN /\ feeding \in BOOLEAN /\ clock \in BOOLEAN
  /\ stop \in BOOLEAN /\ up \in BOOLEAN
  /\ feedIn \in Past..Feed /\ checkIn \in Past..Check /\ openIn \in Past..Retry
  /\ uptime \in 0..Settled
  /\ offline \in Nat \cup {Online} /\ lastOk \in 0..Window
  /\ spent \in 0..Longest
  /\ dog \in {"off", "armed", "fired"} /\ age \in 0..Limit
  /\ faults \in 0..MaxFaults /\ misreads \in 0..MaxMisreads

(* Nothing is fed during a check (main.c 478).  With a hardware limit      *)
(* above one feed interval and the longest check, which the program does   *)
(* not compare, the board is still reset only after the decision to stop   *)
(* feeding, a failure of the device or of the clock, or a signal.          *)
NoSpuriousReset ==
  dog = "fired" /\ Limit > Feed + Longest =>
    ~feeding \/ faults > 0 \/ misreads > 0 \/ stop

(* The end of the window is not overlooked: the decision comes at most one *)
(* interval and one check later, also when a failing feed skips a check,   *)
(* and each failed reading of the clock puts it off by a second at most.   *)
WindowNotOverlooked ==
  feeding /\ pc \notin {"exited", "reset"} =>
    offline <= Window + Check + Longest + misreads

(* Feeding ends only when no check has succeeded for a whole window, or    *)
(* when the clock fails right after a failed check while the timer runs,   *)
(* and it never starts again (main.c 480 to 504).                          *)
NoEarlyReset ==
  [][feeding' # feeding =>
       /\ ~feeding'
       /\ lastOk >= Window \/ (~clock' /\ offline # Online)]_vars

(* Without feeding, the board is reset or the daemon was told to stop: the *)
(* device is still opened, and thereby armed, if it was not open.          *)
GivenUpResets == ~feeding ~> (dog = "fired" \/ stop)

(* If the network stays down, the board is reset, unless a signal comes.   *)
OutageResets == <>[](~up) => <>(dog = "fired" \/ stop)

=============================================================================
