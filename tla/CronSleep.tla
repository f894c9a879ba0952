----------------------------- MODULE CronSleep -----------------------------
(***************************************************************************)
(* The wait for the next minute, in seconds: cron_sleep() and the do-while  *)
(* loop of main() around it, with the signal handlers and sigchld_reaper(). *)
(* A signal may come between any two steps, and the clock may be read, tick *)
(* and be set between them.  Times are local (time(NULL) + GMToff).         *)
(***************************************************************************)
EXTENDS Integers

CONSTANTS
    SecondsPerMinute,  \* SECONDS_PER_MINUTE, scaled
    Limit,             \* the 65 of cron_sleep(), scaled
    Horizon,           \* bound: the last second
    MaxSets,           \* bound: how often the clock is set
    MaxLate,           \* bound: seconds lost outside sleep() in one call
    MaxChildren        \* bound: jobs alive at once

CronSleepConstants ==
    /\ SecondsPerMinute \in Nat \ {0}
    /\ Limit \in Nat /\ Limit > SecondsPerMinute + 1
    /\ {Horizon, MaxSets, MaxLate, MaxChildren} \subseteq Nat
    /\ Horizon >= SecondsPerMinute

VARIABLES
    now,           \* the clock
    timeRunning,   \* the minute of the last wake-up
    pc,            \* where main() is
    t1, wait,      \* cron_sleep()'s t1 and seconds_to_wait
    left,          \* what is left of the sleep() under way
    got_sighup, got_sigchld,
    children,      \* jobs that run
    zombies,       \* jobs that are over and not waited for
    sets,          \* how often the clock was set
    steady,        \* it was not set since cron_sleep() was called
    slept,         \* cron_sleep() called sleep()
    late           \* seconds since the call that were not spent in sleep()

clock == <<now, sets, steady, late>>
jobs == <<children, zombies>>
signals == <<got_sighup, got_sigchld>>
sleeper == <<t1, wait, left, slept>>
vars == <<clock, timeRunning, pc, sleeper, signals, jobs>>

Minute(t) == t \div SecondsPerMinute
Target == (timeRunning + 1) * SecondsPerMinute

TypeOK ==
    /\ now \in 0..Horizon /\ t1 \in 0..Horizon
    /\ timeRunning \in 0..Minute(Horizon)
    /\ pc \in {"call", "test", "enter", "sleep", "hup", "chld", "reap", "time", "back",
              "work", "main hup", "main chld", "main reap"}
    /\ wait \in (1 - Horizon)..(Horizon + SecondsPerMinute + 1)
    /\ left \in 0..(Limit - 1)
    /\ got_sighup \in BOOLEAN /\ got_sigchld \in BOOLEAN
    /\ steady \in BOOLEAN /\ slept \in BOOLEAN
    /\ children \in 0..MaxChildren /\ zombies \in 0..MaxChildren
    /\ sets \in 0..MaxSets /\ late \in 0..MaxLate

Init ==
    /\ now \in 0..(SecondsPerMinute - 1)
    /\ timeRunning = Minute(now)
    /\ pc = "call"
    /\ t1 = 0 /\ wait = 0 /\ left = 0 /\ late = 0 /\ sets = 0
    /\ got_sighup = FALSE /\ got_sigchld = FALSE
    /\ children \in 0..MaxChildren /\ zombies = 0  \* run_reboot_jobs() may have run
    /\ steady = TRUE /\ slept = FALSE

-----------------------------------------------------------------------------
(* The clock, and the signals.                                               *)

Tick ==
    /\ now < Horizon
    /\ now' = now + 1
    /\ IF pc = "sleep" THEN left > 0 /\ left' = left - 1 /\ UNCHANGED late
                       ELSE late < MaxLate /\ late' = late + 1 /\ UNCHANGED left
    /\ UNCHANGED <<sets, steady, timeRunning, pc, t1, wait, slept, signals, jobs>>

SetClock(t) ==
    /\ sets < MaxSets /\ t # now
    /\ now' = t
    /\ sets' = sets + 1
    /\ steady' = FALSE
    /\ UNCHANGED <<late, timeRunning, pc, sleeper, signals, jobs>>

\* A handler that runs while sleep() waits ends it; got_x is set in any case.
Interrupt == pc' = IF pc = "sleep" THEN "hup" ELSE pc

sighup_handler ==
    /\ got_sighup' = TRUE
    /\ Interrupt
    /\ UNCHANGED <<clock, timeRunning, sleeper, got_sigchld, jobs>>

\* A job ends: SIGCHLD, which may coalesce with one not yet served.
sigchld_handler ==
    /\ children > 0
    /\ children' = children - 1
    /\ zombies' = zombies + 1
    /\ got_sigchld' = TRUE
    /\ Interrupt
    /\ UNCHANGED <<clock, timeRunning, sleeper, got_sighup>>

-----------------------------------------------------------------------------
(* cron_sleep(timeRunning + 1).                                              *)

Call ==
    /\ pc = "call"
    /\ t1' = now
    /\ wait' = Target - now + 1
    /\ slept' = FALSE /\ steady' = TRUE /\ late' = 0
    /\ pc' = "test"
    /\ UNCHANGED <<now, sets, timeRunning, left, signals, jobs>>

\* Mutant: a clock that went back far is slept out.
ToSleepNoLimit == wait > 0

\* Mutant: the limit is one minute.
ToSleepMinute == wait > 0 /\ wait < SecondsPerMinute

ToSleep == wait > 0 /\ wait < Limit

\* while (seconds_to_wait > 0 && seconds_to_wait < 65)
Test ==
    /\ pc = "test"
    /\ pc' = IF ToSleep THEN "enter" ELSE "back"
    /\ UNCHANGED <<clock, timeRunning, sleeper, signals, jobs>>

\* sleep() begins: a signal before this does not shorten it ...
Enter ==
    /\ pc = "enter"
    /\ left' = wait
    /\ slept' = TRUE
    /\ pc' = "sleep"
    /\ UNCHANGED <<clock, timeRunning, t1, wait, signals, jobs>>

\* ... and ends by itself.
Wake ==
    /\ pc = "sleep" /\ left = 0
    /\ pc' = "hup"
    /\ UNCHANGED <<clock, timeRunning, sleeper, signals, jobs>>

\* if (got_sighup) { got_sighup = 0; log_close(); }, here and in main().
ServeHup ==
    /\ pc \in {"hup", "main hup"}
    /\ got_sighup' = FALSE
    /\ pc' = IF pc = "hup" THEN "chld" ELSE "main chld"
    /\ UNCHANGED <<clock, timeRunning, sleeper, got_sigchld, jobs>>

\* Where the service of SIGCHLD ends.
Served == IF pc \in {"chld", "reap"} THEN "time" ELSE "call"

\* if (got_sigchld) { got_sigchld = 0; sigchld_reaper(); }, likewise.
ServeChld ==
    /\ pc \in {"chld", "main chld"}
    /\ got_sigchld' = FALSE
    /\ pc' = IF ~got_sigchld THEN Served ELSE IF pc = "chld" THEN "reap" ELSE "main reap"
    /\ UNCHANGED <<clock, timeRunning, sleeper, got_sighup, jobs>>

\* Mutant: one waitpid() for one SIGCHLD.
ReapOne ==
    /\ pc \in {"reap", "main reap"}
    /\ zombies' = IF zombies > 0 THEN zombies - 1 ELSE 0
    /\ pc' = Served
    /\ UNCHANGED <<clock, timeRunning, sleeper, signals, children>>

\* sigchld_reaper(): one waitpid(-1, &waiter, WNOHANG), repeated while it
\* finds a dead child.
Reap ==
    /\ pc \in {"reap", "main reap"}
    /\ IF zombies > 0 THEN zombies' = zombies - 1 /\ UNCHANGED pc
                      ELSE pc' = Served /\ UNCHANGED zombies
    /\ UNCHANGED <<clock, timeRunning, sleeper, signals, children>>

\* Mutant: after a signal the whole time is slept again.
RestFull ==
    /\ pc = "time"
    /\ t1' = now
    /\ wait' = IF left > 0 THEN wait ELSE wait - (now - t1)
    /\ pc' = "test"
    /\ UNCHANGED <<clock, timeRunning, left, slept, signals, jobs>>

\* seconds_to_wait -= (int)(t2 - t1); t1 = t2;
Rest ==
    /\ pc = "time"
    /\ t1' = now
    /\ wait' = wait - (now - t1)
    /\ pc' = "test"
    /\ UNCHANGED <<clock, timeRunning, left, slept, signals, jobs>>

\* set_time(FALSE); while (clockTime == timeRunning); timeRunning = clockTime.
set_time ==
    /\ pc = "back"
    /\ timeRunning' = Minute(now)
    /\ pc' = IF Minute(now) = timeRunning THEN "call" ELSE "work"
    /\ UNCHANGED <<clock, sleeper, signals, jobs>>

\* The rest of the turn: jobs are forked (module CronClock says which), then
\* main() serves the signals that came meanwhile and reloads the database.
Work ==
    /\ pc = "work"
    /\ children' \in children..(MaxChildren - zombies)
    /\ pc' = "main hup"
    /\ UNCHANGED <<clock, timeRunning, sleeper, signals, zombies>>

Daemon ==
    Call \/ Test \/ Enter \/ Wake \/ ServeHup \/ ServeChld \/ Reap \/ Rest
    \/ set_time \/ Work

Next ==
    \/ Daemon
    \/ Tick
    \/ \E t \in 0..Horizon : SetClock(t)
    \/ sighup_handler
    \/ sigchld_handler

Spec == Init /\ [][Next]_vars

-----------------------------------------------------------------------------

\* A dead job is never forgotten: while one has not been waited for, SIGCHLD
\* is noted or the reaper is still asking, however the signals coalesce and
\* wherever in the service of an earlier one they come.
NoZombieForgotten == zombies > 0 => got_sigchld \/ pc \in {"reap", "main reap"}

\* When cron_sleep() returns without having slept, the minute is not the one
\* main() waits to leave, so its loop does not spin: the limit of 65 leaves
\* room for a whole minute and a clock that went back a little.
NoBusyWait == pc = "back" /\ ~slept /\ now = t1 => Minute(now) # timeRunning

\* If nobody sets the clock, cron_sleep() returns in the minute it was asked
\* to wait for and at its first second, however often signals cut a sleep()
\* short: it is late only by the time spent outside sleep().
WakesOnTime ==
    pc = "back" /\ slept /\ steady => Target < t1 /\ t1 <= Target + 1 + late
=============================================================================
