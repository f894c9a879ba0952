----------------------------- MODULE CronClock -----------------------------
(***************************************************************************)
(* The scheduling loop of the cron daemon: main(), find_jobs(), set_time()  *)
(* and the job queue of job.c, against a wall clock that ticks, jumps       *)
(* forward and is set back (administrator, daylight saving time).           *)
(*                                                                          *)
(* All times are whole minutes "since the epoch, adjusted for timezone".    *)
(* An entry of the crontab database is a constant; whether it is a wildcard *)
(* entry (MIN_STAR or HR_STAR) and the minutes its five bit fields select   *)
(* are given by Wild and Due (module CronEntry computes both from a         *)
(* crontab line).  Daemon states between two reads of shared state are      *)
(* merged: `wall' is the only thing the environment changes here.           *)
(***************************************************************************)
EXTENDS Integers, FiniteSets

CONSTANTS
    Entries,      \* the entries of every loaded crontab
    Wild,         \* those with MIN_STAR or HR_STAR in e->flags
    Reboot,       \* those with WHEN_REBOOT in e->flags (@reboot)
    Due,          \* Due[e]: the minutes the bit fields of e select
    Unlucky,      \* entries for which malloc() or fork() may fail
    SmallMax,     \* 5 in main(): the largest "woke up late" difference
    LargeMin,     \* 3*MINUTE_COUNT in main(): beyond it, "clock jumped"
    Horizon,      \* bound: the last minute of the modelled clock
    MaxJumps,     \* bound: how often the clock is set during a behaviour
    MaxCrashes    \* bound: how often the daemon dies and is started again

Minutes == 0..Horizon
Jobs == Entries \X Minutes

ASSUME ClockConstants ==
    /\ Wild \subseteq Entries
    /\ Reboot \subseteq Entries \ Wild
    /\ Unlucky \subseteq Entries
    /\ Due \in [Entries -> SUBSET Minutes]
    /\ \A e \in Reboot : Due[e] = {}  \* load_entry() sets no bit for @reboot
    /\ Horizon \in Nat
    /\ SmallMax \in Nat /\ SmallMax > 0
    /\ LargeMin \in Nat /\ LargeMin > SmallMax
    /\ MaxJumps \in Nat
    /\ MaxCrashes \in Nat

VARIABLES
    wall,         \* what time() plus GMToff would give now, in minutes
    clockTime,    \* the time when set_time was last called
    timeRunning,  \* the time cron last awakened
    virtualTime,  \* the time it would be had cron always woken promptly
    queue,        \* jhead..jtail: pairs of an entry and the minute it is for
    pc,           \* where main() is
    runs,         \* history: how often do_command() started a job
    lost,         \* history: how often one was dropped: malloc(), fork(), death
    first,        \* history: the first minute cron is answerable for
    awake,        \* history: cron has served a wake-up since it started
    jumps, crashes

clocks == <<clockTime, timeRunning, virtualTime>>
history == <<runs, lost, first, awake>>
vars == <<wall, clocks, queue, pc, history, jumps, crashes>>

Timed == Entries \ (Wild \cup Reboot)
Zero == [j \in Jobs |-> 0]

TypeOK ==
    /\ wall \in Minutes
    /\ clockTime \in Minutes
    /\ timeRunning \in Minutes
    /\ virtualTime \in Minutes
    /\ queue \in SUBSET Jobs
    /\ pc \in {"wait", "dispatch", "small", "medium", "run", "down"}
    /\ runs \in [Jobs -> Nat]
    /\ lost \in [Jobs -> Nat]
    /\ first \in 0..(Horizon + 1)
    /\ awake \in BOOLEAN
    /\ jumps \in 0..MaxJumps
    /\ crashes \in 0..MaxCrashes

-----------------------------------------------------------------------------
(* The job queue, job.c.                                                     *)

\* Bookkeeping: count once more every job of S.
In(j, S) == IF j \in S THEN 1 ELSE 0
Bump(f, S) == [j \in Jobs |-> f[j] + In(j, S)]

\* job_add() for each pair of S: an entry already queued is not queued again,
\* whatever minute it was queued for, and a failing malloc() drops it.
\* q is the queue it is called on, lo the history of lost jobs it extends.
job_add(q, lo, S) ==
    LET new == {j \in S : \A k \in q : k[1] # j[1]}
    IN  \E failed \in SUBSET {j \in new : j[1] \in Unlucky} :
            /\ queue' = q \cup (new \ failed)
            /\ lost' = Bump(lo, failed)

\* The jobs find_jobs(m, db, doWild, doNonWild) hands to job_add().
find_jobs(m, doWild, doNonWild) ==
    {j \in Jobs : /\ j[2] = m
                  /\ m \in Due[j[1]]
                  /\ \/ doWild /\ j[1] \in Wild
                     \/ doNonWild /\ j[1] \notin Wild}

\* The jobs whose fork() in do_command() may fail: a log line and nothing else.
Forkless == SUBSET {j \in queue : j[1] \in Unlucky}

\* job_runqueue() hands every queued job to do_command().
job_runqueue(failed) == runs' = Bump(runs, queue \ failed)

\* run_reboot_jobs() queues the @reboot entries, for no particular minute.
run_reboot_jobs == Reboot \X {wall}

\* set_time(): the wall clock, adjusted to local time, in whole minutes.
set_time == wall

-----------------------------------------------------------------------------
(* The environment: time passes, and somebody sets the clock.                *)

Tick ==
    /\ wall < Horizon
    /\ wall' = wall + 1
    /\ UNCHANGED <<clocks, queue, pc, history, jumps, crashes>>

SetClock(t) ==
    /\ jumps < MaxJumps
    /\ t # wall
    /\ wall' = t
    /\ jumps' = jumps + 1
    /\ UNCHANGED <<clocks, queue, pc, history, crashes>>

-----------------------------------------------------------------------------
(* The daemon.                                                               *)

\* Start-up: set_time(TRUE), run_reboot_jobs(), timeRunning = virtualTime =
\* clockTime.  The minute cron starts in is not scheduled.  The history
\* forgets what ran when the new virtual clock is behind the old one.
Start ==
    LET done == IF wall < virtualTime THEN Zero ELSE runs
        gone == IF wall < virtualTime THEN Zero ELSE lost
        boot == run_reboot_jobs
    IN  /\ pc = "down"
        /\ clockTime' = set_time /\ timeRunning' = set_time /\ virtualTime' = set_time
        /\ \E failed \in SUBSET {j \in boot : j[1] \in Unlucky} :
               /\ runs' = Bump(done, boot \ failed)
               /\ lost' = Bump(gone, failed)
        /\ first' = wall + 1
        /\ awake' = FALSE
        /\ pc' = "wait"
        /\ UNCHANGED <<wall, queue, jumps, crashes>>

\* do { cron_sleep(timeRunning + 1); set_time(FALSE); }
\* while (clockTime == timeRunning); timeRunning = clockTime;
WakeUp ==
    /\ pc = "wait"
    /\ clockTime' = set_time
    /\ timeRunning' = set_time
    /\ pc' = IF set_time = timeRunning THEN "wait" ELSE "dispatch"
    /\ UNCHANGED <<wall, virtualTime, queue, history, jumps, crashes>>

timeDiff == timeRunning - virtualTime

\* Mutant: the medium case is missing and falls into the default of the chain.
wakeupKindNoMedium ==
    CASE timeDiff = 1 -> "normal"
      [] timeDiff > LargeMin \/ timeDiff < -LargeMin -> "large"
      [] timeDiff > 1 /\ timeDiff <= SmallMax -> "small"
      [] OTHER -> "negative"

\* wakeupKind; "normal" is the shortcut for the most common case.
wakeupKind ==
    CASE timeDiff = 1 -> "normal"
      [] timeDiff > LargeMin \/ timeDiff < -LargeMin -> "large"
      [] timeDiff > SmallMax /\ timeDiff <= LargeMin -> "medium"
      [] timeDiff > 1 /\ timeDiff <= SmallMax -> "small"
      [] OTHER -> "negative"

Normal ==
    /\ pc = "dispatch" /\ wakeupKind = "normal"
    /\ virtualTime' = timeRunning
    /\ job_add(queue, lost, find_jobs(timeRunning, TRUE, TRUE))
    /\ pc' = "run"
    /\ UNCHANGED <<wall, clockTime, timeRunning, runs, first, awake, jumps, crashes>>

Small ==
    /\ pc = "dispatch" /\ wakeupKind = "small"
    /\ pc' = "small"
    /\ UNCHANGED <<wall, clocks, queue, history, jumps, crashes>>

\* One turn of the "woke up late" loop: every job for the next virtual minute.
SmallStep ==
    /\ pc = "small"
    /\ virtualTime' = virtualTime + 1
    /\ \E failed \in Forkless :
           /\ job_runqueue(failed)
           /\ job_add({}, Bump(lost, failed), find_jobs(virtualTime + 1, TRUE, TRUE))
    /\ pc' = IF virtualTime + 1 < timeRunning THEN "small" ELSE "run"
    /\ UNCHANGED <<wall, clockTime, timeRunning, first, awake, jumps, crashes>>

\* Mutant: the wildcard jobs of the current minute are forgotten.
MediumNoWild ==
    /\ pc = "dispatch" /\ wakeupKind = "medium"
    /\ pc' = "medium"
    /\ UNCHANGED <<wall, clocks, queue, history, jumps, crashes>>

\* Run wildcard jobs for the current minute ...
Medium ==
    /\ pc = "dispatch" /\ wakeupKind = "medium"
    /\ job_add(queue, lost, find_jobs(timeRunning, TRUE, FALSE))
    /\ pc' = "medium"
    /\ UNCHANGED <<wall, clocks, runs, first, awake, jumps, crashes>>

\* Mutant: the catch-up loop only looks at the clock.
MediumStepNoEnd ==
    /\ pc = "medium"
    /\ virtualTime' = virtualTime + 1
    /\ runs' = Bump(runs, queue)
    /\ job_add({}, lost, find_jobs(virtualTime + 1, FALSE, TRUE))
    /\ clockTime' = wall
    /\ pc' = IF wall = timeRunning THEN "medium" ELSE "run"
    /\ UNCHANGED <<wall, timeRunning, first, awake, jumps, crashes>>

\* ... then fixed-time jobs for each minute missed, until cron has caught up
\* or set_time() finds that the minute is over.
MediumStep ==
    /\ pc = "medium"
    /\ virtualTime' = virtualTime + 1
    /\ \E failed \in Forkless :
           /\ job_runqueue(failed)
           /\ job_add({}, Bump(lost, failed), find_jobs(virtualTime + 1, FALSE, TRUE))
    /\ clockTime' = set_time
    /\ pc' = IF virtualTime + 1 < timeRunning /\ set_time = timeRunning
             THEN "medium" ELSE "run"
    /\ UNCHANGED <<wall, timeRunning, first, awake, jumps, crashes>>

\* Mutants: the clock was set back, and fixed-time jobs run again; or virtual
\* time follows it.
NegativeAll ==
    /\ pc = "dispatch" /\ wakeupKind = "negative"
    /\ job_add(queue, lost, find_jobs(timeRunning, TRUE, TRUE))
    /\ pc' = "run"
    /\ UNCHANGED <<wall, clocks, runs, first, awake, jumps, crashes>>

NegativeFollows ==
    /\ pc = "dispatch" /\ wakeupKind = "negative"
    /\ virtualTime' = timeRunning
    /\ job_add(queue, lost, find_jobs(timeRunning, TRUE, FALSE))
    /\ pc' = "run"
    /\ UNCHANGED <<wall, clockTime, timeRunning, runs, first, awake, jumps, crashes>>

\* Just the wildcard jobs; virtual time does not change.
Negative ==
    /\ pc = "dispatch" /\ wakeupKind = "negative"
    /\ job_add(queue, lost, find_jobs(timeRunning, TRUE, FALSE))
    /\ pc' = "run"
    /\ UNCHANGED <<wall, clocks, runs, first, awake, jumps, crashes>>

\* Mutant: the jump skips the fixed-time jobs of the minute it lands on.
LargeWildOnly ==
    /\ pc = "dispatch" /\ wakeupKind = "large"
    /\ virtualTime' = timeRunning
    /\ LET back == timeRunning < virtualTime
       IN  /\ runs' = IF back THEN Zero ELSE runs
           /\ job_add(queue, IF back THEN Zero ELSE lost,
                      find_jobs(timeRunning, TRUE, FALSE))
    /\ first' = timeRunning
    /\ pc' = "run"
    /\ UNCHANGED <<wall, clockTime, timeRunning, awake, jumps, crashes>>

\* Jump virtual time, and run everything.
Large ==
    /\ pc = "dispatch" /\ wakeupKind = "large"
    /\ virtualTime' = timeRunning
    /\ LET back == timeRunning < virtualTime
       IN  /\ runs' = IF back THEN Zero ELSE runs
           /\ job_add(queue, IF back THEN Zero ELSE lost,
                      find_jobs(timeRunning, TRUE, TRUE))
    /\ first' = timeRunning
    /\ pc' = "run"
    /\ UNCHANGED <<wall, clockTime, timeRunning, awake, jumps, crashes>>

\* "Jobs to be run (if any) are loaded; clear the queue."  The database is
\* reloaded next (module CronDatabase) and the loop starts over.
RunQueue ==
    /\ pc = "run"
    /\ \E failed \in Forkless :
           /\ job_runqueue(failed)
           /\ lost' = Bump(lost, failed)
    /\ queue' = {}
    /\ awake' = TRUE
    /\ pc' = "wait"
    /\ UNCHANGED <<wall, clocks, first, jumps, crashes>>

\* quit() on SIGINT or SIGTERM, or any other death of the daemon: what is
\* still queued is lost.
Crash ==
    /\ pc # "down"
    /\ crashes < MaxCrashes
    /\ crashes' = crashes + 1
    /\ lost' = Bump(lost, queue)
    /\ queue' = {}
    /\ pc' = "down"
    /\ UNCHANGED <<wall, clocks, runs, first, awake, jumps>>

-----------------------------------------------------------------------------

Init ==
    /\ wall \in Minutes
    /\ clockTime = wall /\ timeRunning = wall /\ virtualTime = wall
    /\ queue = {}
    /\ pc = "down"
    /\ runs = Zero /\ lost = Zero
    /\ first = wall + 1
    /\ awake = FALSE
    /\ jumps = 0 /\ crashes = 0

Daemon ==
    \/ Start \/ WakeUp
    \/ Normal \/ Small \/ SmallStep \/ Medium \/ MediumStep \/ Negative \/ Large
    \/ RunQueue

Next ==
    \/ Daemon
    \/ Crash
    \/ Tick
    \/ \E t \in Minutes : SetClock(t)

Spec == Init /\ [][Next]_vars

-----------------------------------------------------------------------------
(* Properties.                                                               *)

\* A job find_jobs() selected is run, dropped by a failure, or still queued.
Handled(j) == runs[j] + lost[j] + In(j, queue)

\* Across late wake-ups, DST changes, clocks set back and restarts, main()
\* runs a fixed-time entry for a minute at most once as long as virtualTime
\* was not itself moved back; and for every minute virtualTime has passed
\* since cron last synchronised with the clock, exactly once if it is due.
FixedJobsOnce ==
    \A e \in Timed, m \in Minutes :
        /\ Handled(<<e, m>>) <= 1
        /\ m > virtualTime => Handled(<<e, m>>) = 0
        /\ m \in first..virtualTime => Handled(<<e, m>>) = (IF m \in Due[e] THEN 1 ELSE 0)

\* Whatever the clock did, once a wake-up has been served the wildcard jobs
\* due in the minute cron woke up in have been run: no case of the switch in
\* main() leaves them out.
WildcardJobsServed ==
    pc = "wait" /\ awake =>
        \A e \in Wild : timeRunning \in Due[e] => Handled(<<e, timeRunning>>) > 0

\* "virtualTime ... is monotonically increasing... unless a timejump happens":
\* it moves one minute at a time, except by more than LargeMin or at start-up.
VirtualTimeSteps ==
    [][ \/ virtualTime' \in {virtualTime, virtualTime + 1}
        \/ pc = "down"
        \/ virtualTime' > virtualTime + LargeMin
        \/ virtualTime > virtualTime' + LargeMin ]_vars

\* Once the clock stops changing cron catches up with it and its queue is
\* empty: no minute is left behind by a loop that was cut short.
CatchesUp == <>[](virtualTime = Horizon /\ timeRunning = Horizon /\ queue = {})

-----------------------------------------------------------------------------
(* What the loop implements: a clock that visits the minutes one at a time   *)
(* and deals with each fixed-time job of a minute as it passes.              *)

Promise == INSTANCE CronPromise WITH
    vt <- virtualTime,
    up <- (pc # "down"),
    handled <- [j \in Timed \X Minutes |-> Handled(j)]

\* Every step of the daemon, the clock and a crash is a step of CronPromise
\* or leaves its state alone.
ImplementsPromise == Promise!Spec

=============================================================================
