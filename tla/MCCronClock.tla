--------------------------- MODULE MCCronClock ---------------------------
(* CronClock for TLC: one fixed-time and one wildcard entry due every       *)
(* minute, so that a run missed or repeated in any minute shows, and one    *)
(* @reboot entry.                                                           *)
EXTENDS CronClock

CONSTANTS fixed, wild, reboot

MCEntries == {fixed, wild, reboot}
MCWild == {wild}
MCReboot == {reboot}
MCDue == [e \in MCEntries |-> IF e = reboot THEN {} ELSE 0..Horizon]
MCNone == {}
MCUnlucky == {fixed}
MCNoWild == {fixed, reboot}
MCNoWildDue == [e \in MCNoWild |-> IF e = reboot THEN {} ELSE 0..Horizon]

\* For liveness at the bounded horizon: the clock is set neither to nor from
\* the last minute, so that one fresh minute follows every clock change, as in
\* reality one always does.
LiveNext ==
    \/ Daemon
    \/ Crash
    \/ Tick
    \/ wall # Horizon /\ \E t \in 0..(Horizon - 1) : SetClock(t)

LiveSpec == Init /\ [][LiveNext]_vars /\ WF_vars(Daemon) /\ WF_vars(Tick)
=============================================================================
