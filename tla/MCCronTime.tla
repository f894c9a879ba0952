---------------------------- MODULE MCCronTime ----------------------------
(***************************************************************************)
(* The two scales of time in cron's main(), for TLC: the minutes it works   *)
(* off (CronClock), and the seconds of the wait for the next one            *)
(* (CronSleep).  `scale' is the one looked at; the other stays in an        *)
(* initial state of its own.                                                *)
(***************************************************************************)
EXTENDS MCCronClock

CONSTANTS SecondsPerMinute, Limit, Seconds, MaxSets, MaxLate, MaxChildren  \* of CronSleep

VARIABLES
    scale,
    now, minute, spc, t1, wait, left, got_sighup, got_sigchld, children, zombies, sets, steady,
    slept, late                                                            \* of CronSleep

Sleep == INSTANCE CronSleep WITH Horizon <- Seconds, timeRunning <- minute, pc <- spc

ofSleep == <<now, minute, spc, t1, wait, left, got_sighup, got_sigchld, children, zombies, sets,
             steady, slept, late>>
all == <<scale, vars, ofSleep>>

ASSUME TimeConstants == Sleep!CronSleepConstants

-----------------------------------------------------------------------------

ClockRests == wall = 0
SleepRests == now = 0 /\ children = 0

AllInit ==
    /\ scale \in {"minutes", "seconds"}
    /\ Init /\ Sleep!Init
    /\ scale # "minutes" => ClockRests
    /\ scale # "seconds" => SleepRests

OfClock(A) == scale = "minutes" /\ A /\ UNCHANGED <<scale, ofSleep>>
OfSleep(A) == scale = "seconds" /\ A /\ UNCHANGED <<scale, vars>>

AllNext == OfClock(Next) \/ OfSleep(Sleep!Next)
AllSpec == AllInit /\ [][AllNext]_all

-----------------------------------------------------------------------------

\* The variables of the wait keep their types, and sleep() is given no more
\* than the limit (CronSleep).
SleepTypeOK == Sleep!TypeOK

\* sigchld_reaper(): a dead job is never forgotten (CronSleep).
NoZombieForgotten == Sleep!NoZombieForgotten

\* cron_sleep(): the loop around it does not spin (CronSleep).
NoBusyWait == Sleep!NoBusyWait

\* cron_sleep(): cron wakes in the first second of the minute (CronSleep).
WakesOnTime == Sleep!WakesOnTime
=============================================================================
