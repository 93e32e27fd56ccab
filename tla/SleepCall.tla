----------------------------- MODULE SleepCall -----------------------------
(***************************************************************************)
(* sleep_syscall of syscall/time.c (lab4 part2): a task computes when to   *)
(* stop and polls the clock with interrupts enabled.  The clock of         *)
(* arm/timer.c advances in ticks and counts milliseconds modulo WORD.      *)
(***************************************************************************)
EXTENDS Integers

CONSTANTS OS_TIMER_RESOLUTION,  \* milliseconds per tick; config.h: 10
          WORD,                 \* 2^32 in the code
          Request               \* the durations tasks ask for

ASSUME ResolutionAssumption == OS_TIMER_RESOLUTION \in Nat \ {0}
ASSUME WordAssumption       == WORD \in Nat \ {0}
ASSUME RequestAssumption    == Request \subseteq 0..(WORD - 1)

VARIABLES
    timer,       \* ticks, modulo WORD
    pc,          \* "user" or "polling"
    wait_time,   \* when the call may return
    asked,       \* the duration asked for (read by properties only, as is since)
    since        \* milliseconds since the call, at most WORD
sleep_vars == <<timer, pc, wait_time, asked, since>>

SleepTypeOK ==
    /\ timer \in 0..(WORD - 1)
    /\ pc \in {"user", "polling"}
    /\ wait_time \in 0..(WORD - 1)
    /\ asked \in 0..(WORD - 1)
    /\ since \in 0..WORD

\* The call may come at any time after boot.
SleepInit ==
    /\ timer \in 0..(WORD - 1)
    /\ pc = "user"
    /\ wait_time = 0 /\ asked = 0 /\ since = 0

get_millis == (timer * OS_TIMER_RESOLUTION) % WORD

\* Mutated form of Deadline: the current time is not added.
Deadline_relative(millis) == millis

Deadline(millis) == (get_millis + millis) % WORD

sleep_syscall(millis) ==
    /\ pc = "user"
    /\ wait_time' = Deadline(millis)
    /\ pc' = "polling"
    /\ asked' = millis /\ since' = 0
    /\ UNCHANGED timer

\* Mutated form of Expired: the loop waits for the exact millisecond.
Expired_exact == get_millis = wait_time

Expired == get_millis >= wait_time

\* A poll that finds the time not yet come changes nothing.
Return ==
    /\ pc = "polling" /\ Expired
    /\ pc' = "user"
    /\ UNCHANGED <<timer, wait_time, asked, since>>

timer_handler ==
    /\ timer' = (timer + 1) % WORD
    /\ since' = IF since + OS_TIMER_RESOLUTION <= WORD THEN since + OS_TIMER_RESOLUTION ELSE WORD
    /\ UNCHANGED <<pc, wait_time, asked>>

SleepNext == Return \/ timer_handler \/ \E millis \in Request : sleep_syscall(millis)

\* Ticks go on, and the loop polls many times in every tick its task runs in, so
\* it does not for ever miss the ticks that would let it go.
SleepSpec     == SleepInit /\ [][SleepNext]_sleep_vars
FairSpec == SleepSpec /\ WF_sleep_vars(timer_handler) /\ SF_sleep_vars(Return)

-----------------------------------------------------------------------------
\* When the call was made, which wait_time still tells.
Start == (wait_time - asked) % WORD

\* A sleep that does not reach over the wrap of the clock lasts as long as asked,
\* however late the task polls (time.c:27-29).
EarlyOnlyAcrossWrap ==
    [][pc = "polling" /\ pc' = "user" => since >= asked \/ Start + asked >= WORD]_sleep_vars

\* And every sleep ends, unless the wake-up time lies beyond the last millisecond
\* the clock ever shows before it wraps.
LastMillis == CHOOSE m \in 0..(WORD - 1) :
    /\ \E t \in 0..(WORD - 1) : m = (t * OS_TIMER_RESOLUTION) % WORD
    /\ \A t \in 0..(WORD - 1) : (t * OS_TIMER_RESOLUTION) % WORD <= m
SleepEnds == (pc = "polling" /\ wait_time <= LastMillis) ~> (pc = "user")

=============================================================================
