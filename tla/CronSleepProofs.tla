-------------------------- MODULE CronSleepProofs --------------------------
(***************************************************************************)
(* Theorems about CronSleep, for every length of a minute, every limit      *)
(* beyond it, every horizon and any number of jobs and clock changes.       *)
(*                                                                          *)
(* What cron_sleep() knows is one equation, Reckoning: what remains to be   *)
(* waited is the distance of t1 from the second it is asked to wake at.  It *)
(* holds however the clock is set.  Punctual adds what is lost without a    *)
(* sleep(), and Decided that nothing changes between the loop's test and    *)
(* the call it guards.                                                      *)
(***************************************************************************)
EXTENDS CronSleep, TLAPS

\* cron_sleep() is at work.
Asleep == {"test", "enter", "sleep", "hup", "chld", "reap", "time", "back"}

\* seconds_to_wait is measured from t1.
Reckoning == pc \in Asleep => wait = Target + 1 - t1

\* The loop's condition still holds when sleep() is called, and fails at its end.
Decided ==
    /\ pc = "enter" => ToSleep
    /\ pc = "back" => ~ToSleep

\* A job that runs and one that is dead are different jobs.
Counted == children + zombies <= MaxChildren

\* While nobody sets the clock it is behind its due time by no more than what
\* was lost outside sleep().
Punctual ==
    steady /\ pc \in Asleep =>
        /\ t1 <= now
        /\ slept => wait < Limit
        /\ pc \in {"test", "enter", "back"} => now <= t1 + late
        /\ pc = "sleep" => now + left <= Target + 1 + late
        /\ pc \in {"hup", "chld", "reap", "time"} => now <= Target + 1 + late
        /\ pc \in {"test", "enter", "back"} /\ slept => t1 <= Target + 1 + late

\* TypeOK in two parts.
Numbers ==
    /\ now \in 0..Horizon /\ t1 \in 0..Horizon
    /\ timeRunning \in 0..Minute(Horizon)
    /\ wait \in (1 - Horizon)..(Horizon + SecondsPerMinute + 1)
    /\ left \in 0..(Limit - 1)
    /\ children \in 0..MaxChildren /\ zombies \in 0..MaxChildren
    /\ sets \in 0..MaxSets /\ late \in 0..MaxLate

Flags ==
    /\ pc \in Asleep \cup {"call", "work", "main hup", "main chld", "main reap"}
    /\ got_sighup \in BOOLEAN /\ got_sigchld \in BOOLEAN
    /\ steady \in BOOLEAN /\ slept \in BOOLEAN

SleepInv == TypeOK /\ Reckoning /\ Decided /\ Counted /\ Punctual /\ NoZombieForgotten

-----------------------------------------------------------------------------
(* Minutes and seconds.                                                      *)

\* A second lies in its minute.
LEMMA MinuteBounds ==
    ASSUME CronSleepConstants, NEW t \in Nat
    PROVE  /\ Minute(t) \in Nat
           /\ Minute(t) * SecondsPerMinute <= t
           /\ t < (Minute(t) + 1) * SecondsPerMinute
BY DEF CronSleepConstants, Minute

\* Minutes are ordered as their seconds are.
LEMMA MinuteOrder ==
    ASSUME CronSleepConstants, NEW t \in 0..Horizon
    PROVE  Minute(t) \in 0..Minute(Horizon)
<1> USE DEF CronSleepConstants
<1>1. /\ Minute(t) \in Nat /\ Minute(t) * SecondsPerMinute <= t
      /\ Minute(Horizon) \in Nat /\ Horizon < (Minute(Horizon) + 1) * SecondsPerMinute
    BY MinuteBounds
<1>2. ASSUME Minute(t) >= Minute(Horizon) + 1 PROVE FALSE
    <2>1. Minute(t) * SecondsPerMinute >= (Minute(Horizon) + 1) * SecondsPerMinute
        <3>1. ASSUME NEW a \in Nat, NEW b \in Nat, NEW c \in Nat, a >= b PROVE a * c >= b * c
            BY <3>1
        <3> QED
            BY <1>1, <1>2, <3>1
    <2> QED
        BY <1>1, <2>1
<1> QED
    BY <1>1, <1>2

\* The second cron_sleep() waits for is within a minute of the horizon.
LEMMA TargetBounds ==
    ASSUME CronSleepConstants, timeRunning \in 0..Minute(Horizon)
    PROVE  Target \in SecondsPerMinute..(Horizon + SecondsPerMinute)
<1> USE DEF CronSleepConstants
<1>1. Minute(Horizon) \in Nat /\ Minute(Horizon) * SecondsPerMinute <= Horizon
    BY MinuteBounds
<1>2. ASSUME NEW a \in Nat, NEW b \in Nat, NEW c \in Nat, a >= b PROVE a * c >= b * c
    BY <1>2
<1>3. timeRunning * SecondsPerMinute \in 0..Horizon
    BY <1>1, <1>2
<1>4. Target = timeRunning * SecondsPerMinute + SecondsPerMinute
    BY <1>1 DEF Target
<1> QED
    BY <1>3, <1>4

-----------------------------------------------------------------------------
(* The invariant.                                                            *)

\* TypeOK is its two parts, before a step and after it.
LEMMA TypeParts == (TypeOK <=> Numbers /\ Flags) /\ (TypeOK' <=> Numbers' /\ Flags')
BY DEF TypeOK, Numbers, Flags, Asleep

\* main() calls cron_sleep() with no job waited for and no signal noted.
LEMMA SleepInit ==
    ASSUME CronSleepConstants
    PROVE  Init => SleepInv
<1> SUFFICES ASSUME Init PROVE SleepInv
    OBVIOUS
<1> USE DEF CronSleepConstants
<1>1. TypeOK
    <2>1. now \in 0..Horizon
        BY DEF Init
    <2>2. timeRunning \in 0..Minute(Horizon)
        BY <2>1, MinuteOrder DEF Init
    <2>3. got_sighup \in BOOLEAN /\ got_sigchld \in BOOLEAN /\ steady \in BOOLEAN /\ slept \in BOOLEAN
        BY DEF Init
    <2> QED
        BY <2>1, <2>2, <2>3 DEF Init, TypeOK
<1>2. Reckoning /\ Decided /\ Counted /\ Punctual /\ NoZombieForgotten
    BY DEF Init, Reckoning, Decided, Counted, Punctual, NoZombieForgotten, Asleep
<1> QED
    BY <1>1, <1>2 DEF SleepInv

\* Each step keeps what cron_sleep() and main() know.
LEMMA SleepStep ==
    ASSUME CronSleepConstants
    PROVE  SleepInv /\ [Next]_vars => SleepInv'
<1> SUFFICES ASSUME SleepInv, [Next]_vars PROVE SleepInv'
    OBVIOUS
<1> USE DEF CronSleepConstants
<1>t. /\ now \in 0..Horizon /\ t1 \in 0..Horizon /\ left \in 0..(Limit - 1)
      /\ children \in 0..MaxChildren /\ zombies \in 0..MaxChildren
      /\ sets \in 0..MaxSets /\ late \in 0..MaxLate /\ timeRunning \in 0..Minute(Horizon)
      /\ wait \in (1 - Horizon)..(Horizon + SecondsPerMinute + 1)
    BY DEF SleepInv, TypeOK
<1>a. Target \in SecondsPerMinute..(Horizon + SecondsPerMinute)
    BY <1>t, TargetBounds
<1>j. children \in Nat /\ zombies \in Nat /\ MaxChildren \in Nat /\ children + zombies <= MaxChildren
    BY <1>t DEF SleepInv, Counted
<1>n. Horizon \in Nat /\ MaxSets \in Nat /\ MaxLate \in Nat /\ MaxChildren \in Nat
    OBVIOUS
<1>g. timeRunning' = timeRunning => Target' = Target
    BY DEF Target
<1> USE DEF SleepInv
<1>1. CASE Tick
    <2>1. Numbers'
        BY <1>1, <1>t, <1>a, <1>n DEF Tick, Numbers, Reckoning, Decided, ToSleep, Counted, Asleep,
           signals, jobs
    <2>2. Flags'
        BY <1>1, TypeParts DEF Tick, Flags, Asleep, signals, jobs
    <2>3. Reckoning' /\ Decided'
        BY <1>1, <1>t, <1>a, <1>g DEF Tick, Reckoning, Decided, ToSleep, Asleep, signals, jobs
    <2>4. Counted'
        BY <1>1, <1>t, <1>n DEF Tick, Counted, signals, jobs
    <2>5. NoZombieForgotten'
        BY <1>1, <1>t DEF Tick, NoZombieForgotten, signals, jobs
    <2>6. Punctual'
        BY <1>1, <1>t, <1>a, <1>n, <1>g DEF Tick, Reckoning, Decided, ToSleep, Punctual, Asleep, signals,
           jobs
    <2> QED
        BY <2>1, <2>2, <2>3, <2>4, <2>6, <2>5, TypeParts
<1>2. ASSUME NEW t \in 0..Horizon, SetClock(t) PROVE SleepInv'
    <2>1. Numbers'
        BY <1>2, <1>t, <1>a, <1>n DEF SetClock, Numbers, Reckoning, Decided, ToSleep, Counted, Asleep,
           signals, jobs, sleeper
    <2>2. Flags'
        BY <1>2, TypeParts DEF SetClock, Flags, Asleep, signals, jobs, sleeper
    <2>3. Reckoning' /\ Decided'
        BY <1>2, <1>t, <1>a, <1>g DEF SetClock, Reckoning, Decided, ToSleep, Asleep, signals, jobs, sleeper
    <2>4. Counted'
        BY <1>2, <1>t, <1>n DEF SetClock, Counted, signals, jobs, sleeper
    <2>5. NoZombieForgotten'
        BY <1>2, <1>t DEF SetClock, NoZombieForgotten, signals, jobs, sleeper
    <2>6. Punctual'
        BY <1>2, <1>t, <1>a, <1>n, <1>g DEF SetClock, Reckoning, Decided, ToSleep, Punctual, Asleep,
           signals, jobs, sleeper
    <2> QED
        BY <2>1, <2>2, <2>3, <2>4, <2>6, <2>5, TypeParts
<1>3. CASE sighup_handler
    <2>1. Numbers'
        BY <1>3, <1>t, <1>a, <1>n DEF sighup_handler, Interrupt, Numbers, Reckoning, Decided, ToSleep,
           Counted, Asleep, clock, jobs, sleeper
    <2>2. Flags'
        BY <1>3, TypeParts DEF sighup_handler, Interrupt, Flags, Asleep, clock, jobs, sleeper
    <2>3. Reckoning' /\ Decided'
        BY <1>3, <1>t, <1>a, <1>g DEF sighup_handler, Interrupt, Reckoning, Decided, ToSleep, Asleep,
           clock, jobs, sleeper
    <2>4. Counted'
        BY <1>3, <1>t, <1>n DEF sighup_handler, Interrupt, Counted, clock, jobs, sleeper
    <2>5. NoZombieForgotten'
        BY <1>3, <1>t DEF sighup_handler, Interrupt, NoZombieForgotten, clock, jobs, sleeper
    <2>6. Punctual'
        BY <1>3, <1>t, <1>a, <1>n, <1>g DEF sighup_handler, Interrupt, Reckoning, Decided, ToSleep,
           Punctual, Asleep, clock, jobs, sleeper
    <2> QED
        BY <2>1, <2>2, <2>3, <2>4, <2>6, <2>5, TypeParts
<1>4. CASE sigchld_handler
    <2>1. Numbers'
        BY <1>4, <1>t, <1>a, <1>n DEF sigchld_handler, Interrupt, Numbers, Reckoning, Decided, ToSleep,
           Counted, Asleep, clock, sleeper
    <2>2. Flags'
        BY <1>4, TypeParts DEF sigchld_handler, Interrupt, Flags, Asleep, clock, sleeper
    <2>3. Reckoning' /\ Decided'
        BY <1>4, <1>t, <1>a, <1>g DEF sigchld_handler, Interrupt, Reckoning, Decided, ToSleep, Asleep,
           clock, sleeper
    <2>4. Counted'
        BY <1>4, <1>t, <1>n DEF sigchld_handler, Interrupt, Counted, clock, sleeper
    <2>5. NoZombieForgotten'
        BY <1>4, <1>t DEF sigchld_handler, Interrupt, NoZombieForgotten, clock, sleeper
    <2>6. Punctual'
        BY <1>4, <1>t, <1>a, <1>n, <1>g DEF sigchld_handler, Interrupt, Reckoning, Decided, ToSleep,
           Punctual, Asleep, clock, sleeper
    <2> QED
        BY <2>1, <2>2, <2>3, <2>4, <2>6, <2>5, TypeParts
<1>5. CASE Call
    <2>1. Numbers'
        BY <1>5, <1>t, <1>a, <1>n DEF Call, Numbers, Reckoning, Decided, ToSleep, Counted, Asleep,
           signals, jobs
    <2>2. Flags'
        BY <1>5, TypeParts DEF Call, Flags, Asleep, signals, jobs
    <2>3. Reckoning' /\ Decided'
        BY <1>5, <1>t, <1>a, <1>g DEF Call, Reckoning, Decided, ToSleep, Asleep, signals, jobs
    <2>4. Counted'
        BY <1>5, <1>t, <1>n DEF Call, Counted, signals, jobs
    <2>5. NoZombieForgotten'
        BY <1>5, <1>t DEF Call, NoZombieForgotten, signals, jobs
    <2>6. Punctual'
        BY <1>5, <1>t, <1>a, <1>n, <1>g DEF Call, Reckoning, Decided, ToSleep, Punctual, Asleep, signals,
           jobs
    <2> QED
        BY <2>1, <2>2, <2>3, <2>4, <2>6, <2>5, TypeParts
<1>6. CASE Test
    BY <1>6, <1>t, <1>a, <1>g DEF Test, TypeOK, Reckoning, Decided, ToSleep, Counted, Punctual, Asleep,
       NoZombieForgotten, clock, signals, jobs, sleeper
<1>7. CASE Enter
    <2>1. Numbers'
        BY <1>7, <1>t, <1>a, <1>n DEF Enter, Numbers, Reckoning, Decided, ToSleep, Counted, Asleep,
           clock, signals, jobs
    <2>2. Flags'
        BY <1>7, TypeParts DEF Enter, Flags, Asleep, clock, signals, jobs
    <2>3. Reckoning' /\ Decided'
        BY <1>7, <1>t, <1>a, <1>g DEF Enter, Reckoning, Decided, ToSleep, Asleep, clock, signals, jobs
    <2>4. Counted'
        BY <1>7, <1>t, <1>n DEF Enter, Counted, clock, signals, jobs
    <2>5. NoZombieForgotten'
        BY <1>7, <1>t DEF Enter, NoZombieForgotten, clock, signals, jobs
    <2>6. Punctual'
        BY <1>7, <1>t, <1>a, <1>n, <1>g DEF Enter, Reckoning, Decided, ToSleep, Punctual, Asleep, clock,
           signals, jobs
    <2> QED
        BY <2>1, <2>2, <2>3, <2>4, <2>6, <2>5, TypeParts
<1>8. CASE Wake
    BY <1>8, <1>t, <1>a, <1>g DEF Wake, TypeOK, Reckoning, Decided, ToSleep, Counted, Punctual, Asleep,
       NoZombieForgotten, clock, signals, jobs, sleeper
<1>9. CASE ServeHup
    BY <1>9, <1>t, <1>a, <1>g DEF ServeHup, TypeOK, Reckoning, Decided, ToSleep, Counted, Punctual, Asleep,
       NoZombieForgotten, clock, jobs, sleeper
<1>10. CASE ServeChld
    <2>1. Numbers'
        BY <1>10, <1>t, <1>a, <1>n DEF ServeChld, Served, Numbers, Reckoning, Decided, ToSleep, Counted,
           Asleep, clock, jobs, sleeper
    <2>2. Flags'
        BY <1>10, TypeParts DEF ServeChld, Served, Flags, Asleep, clock, jobs, sleeper
    <2>3. Reckoning' /\ Decided'
        BY <1>10, <1>t, <1>a, <1>g DEF ServeChld, Served, Reckoning, Decided, ToSleep, Asleep, clock,
           jobs, sleeper
    <2>4. Counted'
        BY <1>10, <1>t, <1>n DEF ServeChld, Served, Counted, clock, jobs, sleeper
    <2>5. NoZombieForgotten'
        BY <1>10, <1>t DEF ServeChld, Served, NoZombieForgotten, clock, jobs, sleeper
    <2>6. Punctual'
        BY <1>10, <1>t, <1>a, <1>n, <1>g DEF ServeChld, Served, Reckoning, Decided, ToSleep, Punctual,
           Asleep, clock, jobs, sleeper
    <2> QED
        BY <2>1, <2>2, <2>3, <2>4, <2>6, <2>5, TypeParts
<1>11. CASE Reap
    <2>1. IF zombies > 0 THEN zombies' = zombies - 1 ELSE zombies' = zombies
        BY <1>11 DEF Reap
    <2>2. children' = children
        BY <1>11 DEF Reap
    <2>3. zombies' \in Nat /\ children' + zombies' <= MaxChildren /\ zombies' \in 0..MaxChildren
        BY <1>j, <2>1, <2>2
    <2>4. Numbers'
        BY <1>11, <2>2, <2>3, <1>t DEF Reap, Numbers, clock, signals, sleeper
    <2>5. Flags'
        BY <1>11, TypeParts DEF Reap, Served, Flags, Asleep, clock, signals, sleeper
    <2>6. Reckoning' /\ Decided'
        BY <1>11, <1>t, <1>a, <1>g DEF Reap, Served, Reckoning, Decided, ToSleep, Asleep, clock, signals,
           sleeper
    <2>7. Counted'
        BY <2>3 DEF Counted
    <2>8. NoZombieForgotten'
        BY <1>11, <1>t DEF Reap, Served, NoZombieForgotten, clock, signals, sleeper
    <2>9. Punctual'
        BY <1>11, <1>t, <1>a, <1>n, <1>g DEF Reap, Served, Reckoning, Decided, ToSleep, Punctual, Asleep,
           clock, signals, sleeper
    <2> QED
        BY <2>4, <2>5, <2>6, <2>7, <2>9, <2>8, TypeParts
<1>12. CASE Rest
    <2>1. Numbers'
        BY <1>12, <1>t, <1>a, <1>n DEF Rest, Numbers, Reckoning, Decided, ToSleep, Counted, Asleep,
           clock, signals, jobs
    <2>2. Flags'
        BY <1>12, TypeParts DEF Rest, Flags, Asleep, clock, signals, jobs
    <2>3. Reckoning' /\ Decided'
        BY <1>12, <1>t, <1>a, <1>g DEF Rest, Reckoning, Decided, ToSleep, Asleep, clock, signals, jobs
    <2>4. Counted'
        BY <1>12, <1>t, <1>n DEF Rest, Counted, clock, signals, jobs
    <2>5. NoZombieForgotten'
        BY <1>12, <1>t DEF Rest, NoZombieForgotten, clock, signals, jobs
    <2>6. Punctual'
        BY <1>12, <1>t, <1>a, <1>n, <1>g DEF Rest, Reckoning, Decided, ToSleep, Punctual, Asleep, clock,
           signals, jobs
    <2> QED
        BY <2>1, <2>2, <2>3, <2>4, <2>6, <2>5, TypeParts
<1>13. CASE set_time
    <2>1. timeRunning' \in 0..Minute(Horizon)
        BY <1>13, <1>t, MinuteOrder DEF set_time
    <2> QED
        BY <1>13, <2>1 DEF set_time, TypeOK, Reckoning, Decided, Counted, Punctual, Asleep,
           NoZombieForgotten, clock, signals, jobs, sleeper
<1>14. CASE Work
    <2>1. children' \in children..(MaxChildren - zombies)
        BY <1>14 DEF Work
    <2>2. zombies' = zombies
        BY <1>14 DEF Work
    <2>3. children' \in 0..MaxChildren /\ children' + zombies' <= MaxChildren
        <3>1. ASSUME NEW c \in children..(MaxChildren - zombies)
              PROVE  c \in 0..MaxChildren /\ c + zombies <= MaxChildren
            BY <1>j
        <3> QED
            BY <2>1, <2>2, <3>1
    <2>4. Numbers'
        BY <1>14, <2>2, <2>3, <1>t DEF Work, Numbers, clock, signals, sleeper
    <2>5. Flags'
        BY <1>14, TypeParts DEF Work, Flags, Asleep, clock, signals, sleeper
    <2>6. Reckoning' /\ Decided'
        BY <1>14, <1>t, <1>a, <1>g DEF Work, Reckoning, Decided, ToSleep, Asleep, clock, signals, sleeper
    <2>7. Counted'
        BY <2>3 DEF Counted
    <2>8. NoZombieForgotten'
        BY <1>14, <1>t DEF Work, NoZombieForgotten, clock, signals, sleeper
    <2>9. Punctual'
        BY <1>14, <1>t, <1>a, <1>n, <1>g DEF Work, Reckoning, Decided, ToSleep, Punctual, Asleep, clock,
           signals, sleeper
    <2> QED
        BY <2>4, <2>5, <2>6, <2>7, <2>9, <2>8, TypeParts
<1>15. CASE UNCHANGED vars
    BY <1>15, <1>g DEF vars, TypeOK, Reckoning, Decided, ToSleep, Counted, Punctual, NoZombieForgotten,
       clock, signals, jobs, sleeper
<1> QED
    BY <1>1, <1>2, <1>3, <1>4, <1>5, <1>6, <1>7, <1>8, <1>9, <1>10, <1>11, <1>12, <1>13, <1>14, <1>15
       DEF Next, Daemon

-----------------------------------------------------------------------------
(* The theorems.                                                             *)

\* What cron_sleep() and the loop of main() around it know, at every step and
\* whatever signals and clock changes come between.
THEOREM SleepInvariant ==
    ASSUME CronSleepConstants
    PROVE  Spec => []SleepInv
    BY SleepInit, SleepStep, PTL DEF Spec

\* Every variable keeps its type: sleep() is never called with a negative time
\* or with more than the limit.
THEOREM SleepTypeCorrect ==
    ASSUME CronSleepConstants
    PROVE  Spec => []TypeOK
<1>1. SleepInv => TypeOK
    BY DEF SleepInv
<1> QED
    BY SleepInvariant, <1>1, PTL

\* A dead job is never forgotten, however SIGCHLD coalesces and wherever in the
\* service of an earlier one it comes, for any number of jobs.
THEOREM NoZombieForgottenCorrect ==
    ASSUME CronSleepConstants
    PROVE  Spec => []NoZombieForgotten
<1>1. SleepInv => NoZombieForgotten
    BY DEF SleepInv
<1> QED
    BY SleepInvariant, <1>1, PTL

\* The loop of main() never spins: for every limit that exceeds a minute and a
\* second, a cron_sleep() that does not sleep leaves the minute.
THEOREM NoBusyWaitCorrect ==
    ASSUME CronSleepConstants
    PROVE  Spec => []NoBusyWait
<1>1. SleepInv => NoBusyWait
    <2> SUFFICES ASSUME SleepInv, pc = "back", now = t1, Minute(now) = timeRunning PROVE FALSE
        BY DEF NoBusyWait
    <2>1. now \in Nat /\ now < (timeRunning + 1) * SecondsPerMinute
          /\ timeRunning * SecondsPerMinute <= now
        BY MinuteBounds DEF SleepInv, TypeOK
    <2>2. Target = timeRunning * SecondsPerMinute + SecondsPerMinute /\ timeRunning \in Nat
        BY <2>1, MinuteBounds DEF CronSleepConstants, Target
    <2>3. wait = Target + 1 - now /\ ~ToSleep
        BY DEF SleepInv, Reckoning, Decided, Asleep
    <2>4. Target \in Int /\ now < Target /\ Target <= now + SecondsPerMinute
        BY <2>1, <2>2 DEF CronSleepConstants, Target
    <2> QED
        BY <2>1, <2>3, <2>4 DEF CronSleepConstants, ToSleep
<1> QED
    BY SleepInvariant, <1>1, PTL

\* If nobody sets the clock cron_sleep() returns at the first second of its
\* minute, late only by the time spent outside sleep(), however often signals cut
\* a sleep() short.
THEOREM WakesOnTimeCorrect ==
    ASSUME CronSleepConstants
    PROVE  Spec => []WakesOnTime
<1>1. SleepInv => WakesOnTime
    <2> SUFFICES ASSUME SleepInv, pc = "back", slept, steady
                 PROVE  Target < t1 /\ t1 <= Target + 1 + late
        BY DEF WakesOnTime
    <2>1. Target \in Int /\ t1 \in Int
        BY TargetBounds DEF SleepInv, TypeOK
    <2>2. wait = Target + 1 - t1 /\ ~ToSleep /\ wait < Limit /\ t1 <= Target + 1 + late
        BY DEF SleepInv, Reckoning, Decided, Punctual, Asleep
    <2> QED
        BY <2>1, <2>2 DEF CronSleepConstants, ToSleep
<1> QED
    BY SleepInvariant, <1>1, PTL
=============================================================================
