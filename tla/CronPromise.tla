---------------------------- MODULE CronPromise ----------------------------
(***************************************************************************)
(* What cron's scheduling loop promises to the owner of a fixed-time        *)
(* crontab entry, without wall clock, queue or wake-ups: a virtual clock    *)
(* visits the minutes one after the other and deals with every entry due in *)
(* the minute it enters.  It leaves this sequence only to resynchronise     *)
(* with a clock that is more than LargeMin minutes away, or at start-up.    *)
(***************************************************************************)
EXTENDS Integers

CONSTANTS Timed,     \* the fixed-time entries
          Due,       \* Due[e]: the minutes e is due in
          Horizon,   \* bound: the last minute
          LargeMin   \* the distance beyond which cron resynchronises

VARIABLES vt,        \* the minute the virtual clock is in
          handled,   \* how often each job has been dealt with
          up         \* a daemon is running

Key == Timed \X (0..Horizon)

\* The record h after the jobs due in minute m have been dealt with.
Deal(h, m) ==
    [j \in Key |-> h[j] + (IF j[2] = m /\ m \in Due[j[1]] THEN 1 ELSE 0)]

\* The record that counts for a virtual clock moved to t: a clock moved back
\* starts afresh.
Kept(t) == IF t < vt THEN [j \in Key |-> 0] ELSE handled

Init ==
    /\ vt \in 0..Horizon
    /\ handled = [j \in Key |-> 0]
    /\ up = FALSE

\* The next minute: each job due in it, once.
Advance ==
    /\ up
    /\ vt < Horizon
    /\ vt' = vt + 1
    /\ handled' = Deal(handled, vt + 1)
    /\ UNCHANGED up

\* The clock has changed "a *lot*": go there and deal with the minute.
Resync(t) ==
    /\ up
    /\ t > vt + LargeMin \/ vt > t + LargeMin
    /\ vt' = t
    /\ handled' = Deal(Kept(t), t)
    /\ UNCHANGED up

\* A new daemon starts with the present minute behind it.
Restart(t) ==
    /\ ~up
    /\ up' = TRUE
    /\ vt' = t
    /\ handled' = Kept(t)

\* The daemon dies; a job already dealt with stays so.
Die ==
    /\ up
    /\ up' = FALSE
    /\ UNCHANGED <<vt, handled>>

Next ==
    \/ Advance \/ Die
    \/ \E t \in 0..Horizon : Resync(t) \/ Restart(t)

Spec == Init /\ [][Next]_<<vt, handled, up>>
=============================================================================
