------------------------------ MODULE Timeout ------------------------------
(***************************************************************************)
(* timeout(1): a command under a time limit.  Outside sigsuspend() every    *)
(* signal of interest is blocked, but only from a moment after fork() on;   *)
(* what a handler did is looked at only after the next sigsuspend(), which  *)
(* delivers one signal.  setpgid() returns 0, so that killpg(pgid, sig)     *)
(* also reaches timeout itself, and sig_ign is there to ignore that one.    *)
(***************************************************************************)
EXTENDS Integers, FiniteSets

CONSTANTS
    Intervals,    \* durations for the time limit and for -k
    MaxSignals,   \* bound: signals sent to timeout from outside
    MaxStops      \* bound: how often the command is stopped

\* What is assumed of the constants.
TimeoutConstants ==
    /\ Intervals \subseteq Nat /\ IsFiniteSet(Intervals)
    /\ MaxSignals \in Nat /\ MaxStops \in Nat

VARIABLES
    opt,          \* foreground, preserve, do_second_kill, first_kill, second_kill,
                  \* killsig, and whether there is a child from before exec
    pc,
    flags,        \* sig_chld, sig_alrm, sig_term and sig_ign
    pending,      \* signals that are blocked
    timer,        \* ITIMER_REAL; 0: not set
    killsig, second_kill, timedout,
    child, status, \* the command, and what wait() has to say of it
    other,        \* a child from before exec
    pstat,        \* the status main() returns, or is about to
    sent, stops,
    since, hasty  \* history: ticks since the first signal to the command (-1:
                  \* none yet); a second one was sent before its time

limits == <<timer, killsig, second_kill, timedout>>
family == <<child, status, other, stops>>
history == <<since, hasty>>
vars == <<opt, pc, flags, pending, limits, family, pstat, sent, history>>

No == "none"
Number == [TERM |-> 15, HUP |-> 1, USR1 |-> 10, KILL |-> 9]
Terms == {"TERM", "HUP"}   \* and SIGINT, SIGQUIT, which are treated the same
EXIT_TIMEOUT == 124
EX_UNAVAILABLE == 69
EX_OSERR == 71

Exits(n) == [how |-> "exit", n |-> n]
Dies(sig) == [how |-> "signal", n |-> Number[sig]]

Gone == {"exited", "killed"}
Ours == {"forked", "running", "stopped"}   \* states of a process that is alive

Init ==
    /\ opt \in [fg : BOOLEAN, preserve : BOOLEAN, k : BOOLEAN, other : BOOLEAN,
                first : Intervals, second : Intervals, sig : {"TERM", "USR1", "KILL"}]
    /\ opt.k \/ \A i \in Intervals : opt.second <= i
    /\ pc = "fork"
    /\ flags = [chld |-> FALSE, alrm |-> FALSE, term |-> No, ign |-> No]
    /\ pending = {}
    /\ timer = 0 /\ killsig = opt.sig /\ second_kill = opt.second /\ timedout = FALSE
    /\ child = No /\ status = Exits(0) /\ stops = 0
    /\ other = IF opt.other THEN "running" ELSE No
    /\ pstat = -1 /\ sent = 0
    /\ since = -1 /\ hasty = FALSE

TypeOK ==
    /\ pc \in {"fork", "block", "suspend", "woke", "wait", "final", "status"} \cup Gone
    /\ flags \in [chld : BOOLEAN, alrm : BOOLEAN, term : Terms \cup {No},
                  ign : DOMAIN Number \cup {No}]
    /\ pending \subseteq (DOMAIN Number \ {"KILL"}) \cup {"CHLD", "ALRM"}
    /\ timer \in Nat /\ second_kill \in Intervals \cup {0} /\ timedout \in BOOLEAN
    /\ killsig \in {opt.sig, "KILL"}
    /\ child \in Ours \cup {No, "zombie", "reaped"}
    /\ other \in {No, "running", "zombie", "reaped"}
    /\ pstat \in -1..255

-----------------------------------------------------------------------------
(* Signals.                                                                  *)

\* Mutant: timeout does not know its own signal when it comes back.
sig_handler_all(sig) ==
    [flags EXCEPT !.term = IF sig \in Terms THEN sig ELSE @,
                  !.chld = @ \/ sig = "CHLD",
                  !.alrm = @ \/ sig = "ALRM"]

sig_handler(sig) ==
    IF sig = flags.ign THEN [flags EXCEPT !.ign = No]
    ELSE [flags EXCEPT !.term = IF sig \in Terms THEN sig ELSE @,
                       !.chld = @ \/ sig = "CHLD",
                       !.alrm = @ \/ sig = "ALRM"]

\* A signal is sent to timeout: before sigprocmask() the handler runs at once.
Raise(sig) ==
    IF pc \in {"fork", "block"}
    THEN flags' = sig_handler(sig) /\ UNCHANGED pending
    ELSE pending' = pending \cup {sig} /\ UNCHANGED flags

\* setitimer(): 0 stops the timer.
set_interval(iv) == timer' = iv

\* What `sig' does to the command: before exec our own handler takes it, unless
\* it is SIGKILL; the command may die of it or not, a stopped one not now.
Struck(sig) ==
    \/ /\ child \in Ours /\ (sig = "KILL" \/ child = "running")
       /\ child' = "zombie" /\ status' = Dies(sig)
    \/ ~(child \in Ours /\ sig = "KILL") /\ UNCHANGED <<child, status>>

\* kill(pid, sig), or killpg(0, sig), which reaches timeout as well.
Kill(sig, group) ==
    /\ Struck(sig)
    /\ pending' = pending \cup (IF child' # child THEN {"CHLD"} ELSE {})
                          \cup (IF group /\ sig # "KILL" THEN {sig} ELSE {})

-----------------------------------------------------------------------------
(* main().                                                                   *)

Fork ==
    /\ pc = "fork"
    /\ pc' = "block"
    /\ child' = "forked"
    /\ UNCHANGED <<opt, flags, pending, limits, status, other, stops, pstat, sent, history>>

ForkFails ==
    /\ pc = "fork"
    /\ pc' = "exited" /\ pstat' = EX_OSERR
    /\ UNCHANGED <<opt, flags, pending, limits, family, sent, history>>

\* sigprocmask(SIG_BLOCK), and the timer is set.
Block ==
    /\ pc = "block"
    /\ pc' = "suspend"
    /\ set_interval(opt.first)
    /\ UNCHANGED <<opt, flags, pending, killsig, second_kill, timedout, family, pstat, sent, history>>

\* sigsuspend(): one signal is delivered; its handler blocks the others.
Suspend ==
    /\ pc = "suspend"
    /\ \E sig \in pending :
          /\ pending' = pending \ {sig}
          /\ flags' = sig_handler(sig)
    /\ pc' = "woke"
    /\ UNCHANGED <<opt, limits, family, pstat, sent, history>>

Chld ==
    /\ pc = "woke" /\ flags.chld
    /\ flags' = [flags EXCEPT !.chld = FALSE]
    /\ pc' = "wait"
    /\ UNCHANGED <<opt, pending, limits, family, pstat, sent, history>>

\* wait() blocks until a child has ended, all signals blocked with it; SIGCHLD
\* may have come for a child that only stopped.
Reap ==
    /\ pc = "wait"
    /\ \/ child = "zombie" /\ child' = "reaped" /\ pc' = "status" /\ UNCHANGED other
       \/ other = "zombie" /\ other' = "reaped" /\ pc' = "suspend" /\ UNCHANGED child
    /\ UNCHANGED <<opt, flags, pending, limits, status, stops, pstat, sent, history>>

\* Mutant: the second signal is the first one again.
AgainSame ==
    IF opt.k
    THEN /\ set_interval(second_kill) /\ second_kill' = 0
         /\ flags' = [flags EXCEPT !.alrm = FALSE, !.ign = killsig]
         /\ UNCHANGED killsig
         /\ pc' = IF ~opt.fg /\ killsig = "KILL" THEN "killed" ELSE "suspend"
    ELSE /\ flags' = [flags EXCEPT !.alrm = FALSE]
         /\ pc' = IF ~opt.fg /\ killsig = "KILL" THEN "killed" ELSE "final"
         /\ UNCHANGED <<timer, second_kill, killsig>>

\* if (do_second_kill) ... else break; and SIGKILL to the group is our end, too.
\* (SIGALRM is looked at before SIGTERM: sig_alrm is FALSE after either.)
Again ==
    IF opt.k
    THEN /\ set_interval(second_kill) /\ second_kill' = 0
         /\ flags' = [flags EXCEPT !.alrm = FALSE, !.ign = killsig]
         /\ killsig' = "KILL"
         /\ pc' = IF ~opt.fg /\ killsig = "KILL" THEN "killed" ELSE "suspend"
    ELSE /\ flags' = [flags EXCEPT !.alrm = FALSE]
         /\ pc' = IF ~opt.fg /\ killsig = "KILL" THEN "killed" ELSE "final"
         /\ UNCHANGED <<timer, second_kill, killsig>>

\* The history of what is sent: the second signal must not come too early.
Remember(sig) ==
    /\ since' = IF since = -1 THEN 0 ELSE since
    /\ hasty' = (hasty \/ (since # -1 /\ sig = "KILL" /\ since < opt.second))

Alarm ==
    /\ pc = "woke" /\ ~flags.chld /\ flags.alrm
    /\ timedout' = TRUE
    /\ Kill(killsig, ~opt.fg)
    /\ Again
    /\ Remember(killsig)
    /\ UNCHANGED <<opt, other, stops, pstat, sent>>

\* sig_term is not reset.  In the foreground the signal itself is passed on.
Term ==
    /\ pc = "woke" /\ ~flags.chld /\ ~flags.alrm /\ flags.term # No
    /\ LET sig == IF opt.fg THEN flags.term ELSE killsig
       IN  Kill(sig, ~opt.fg) /\ Remember(sig)
    /\ Again
    /\ UNCHANGED <<opt, timedout, other, stops, pstat, sent>>

Nothing ==
    /\ pc = "woke" /\ ~flags.chld /\ ~flags.alrm /\ flags.term = No
    /\ pc' = "suspend"
    /\ UNCHANGED <<opt, flags, pending, limits, family, pstat, sent, history>>

\* Mutant: nobody is waited for after the loop.
FinalNot ==
    /\ pc = "final"
    /\ pc' = "status"
    /\ UNCHANGED <<opt, flags, pending, limits, family, pstat, sent, history>>

\* The wait() behind the loop takes any child.
Final ==
    /\ pc = "final"
    /\ \/ child = "zombie" /\ child' = "reaped" /\ UNCHANGED <<other, status>>
       \/ other = "zombie" /\ other' = "reaped" /\ status' = Exits(0) /\ UNCHANGED child
    /\ pc' = "status"
    /\ UNCHANGED <<opt, flags, pending, limits, stops, pstat, sent, history>>

Returned ==
    IF timedout /\ ~opt.preserve THEN EXIT_TIMEOUT
    ELSE IF status.how = "signal" THEN 128 + status.n ELSE status.n

Return ==
    /\ pc = "status"
    /\ pc' = "exited"
    /\ pstat' = Returned
    /\ UNCHANGED <<opt, flags, pending, limits, family, sent, history>>

Main == Fork \/ ForkFails \/ Block \/ Suspend \/ Chld \/ Reap \/ Alarm \/ Term \/ Nothing
        \/ Final \/ Return

-----------------------------------------------------------------------------
(* The command, the clock, other processes.                                  *)

Exec ==
    /\ child = "forked" /\ child' = "running"
    /\ UNCHANGED <<opt, pc, flags, pending, limits, status, other, stops, pstat, sent, history>>

\* The command ends, or could not be executed.
CommandEnds ==
    /\ \/ child = "forked" /\ status' = Exits(EX_UNAVAILABLE)
       \/ child = "running" /\ \E w \in {Exits(0), Dies("HUP")} : status' = w
    /\ child' = "zombie"
    /\ Raise("CHLD")
    /\ UNCHANGED <<opt, pc, limits, other, stops, pstat, sent, history>>

OtherEnds ==
    /\ other = "running" /\ other' = "zombie"
    /\ Raise("CHLD")
    /\ UNCHANGED <<opt, pc, limits, child, status, stops, pstat, sent, history>>

CommandStops ==
    /\ child = "running" /\ stops < MaxStops
    /\ child' = "stopped" /\ stops' = stops + 1
    /\ Raise("CHLD")
    /\ UNCHANGED <<opt, pc, limits, status, other, pstat, sent, history>>

CommandContinues ==
    /\ child = "stopped" /\ child' = "running"
    /\ Raise("CHLD")
    /\ UNCHANGED <<opt, pc, limits, status, other, stops, pstat, sent, history>>

Tick ==
    /\ pc \notin Gone /\ timer > 0
    /\ timer' = timer - 1
    /\ since' = IF since = -1 THEN -1 ELSE since + 1
    /\ IF timer = 1 THEN Raise("ALRM") ELSE UNCHANGED <<flags, pending>>
    /\ UNCHANGED <<opt, pc, killsig, second_kill, timedout, family, pstat, sent, hasty>>

Signal ==
    /\ pc \notin Gone /\ sent < MaxSignals
    /\ \E sig \in Terms : Raise(sig)
    /\ sent' = sent + 1
    /\ UNCHANGED <<opt, pc, limits, family, pstat, history>>

Next ==
    \/ Main
    \/ pc \notin Gone /\ (Exec \/ CommandEnds \/ OtherEnds \/ CommandStops \/ CommandContinues)
    \/ Tick \/ Signal

Spec == Init /\ [][Next]_vars

\* timeout runs when it can and the timer runs; nothing is assumed of the
\* command, which may ignore whatever can be ignored.
FairSpec == Spec /\ WF_vars(Main) /\ WF_vars(Tick)

-----------------------------------------------------------------------------

\* Whichever of SIGCHLD and SIGALRM came first, and whatever was still pending,
\* the command has ended and its status is returned, or 124 if the time was up
\* and --preserve-status was not given.  (wait() may take a child from before
\* exec for the command, and then the command may be left behind.)
StatusRight ==
    pc = "exited" /\ child # No =>
        /\ child = "reaped" \/ other = "reaped"
        /\ child = "reaped" =>
           pstat = IF timedout /\ ~opt.preserve THEN 124
                   ELSE status.n + IF status.how = "signal" THEN 128 ELSE 0

\* "Send a second kill signal if command is still running after time after the
\* first signal was sent": not before.
GraceKept == ~hasty

\* If only the time limit is at work the second signal keeps its distance,
\* although the first comes back to timeout itself.
GraceOfTimer == sent = 0 => GraceKept

\* With a time limit and -k the command is dead in the end, whatever it does
\* with the first signal, and even if it ends before SIGCHLD is blocked.  (It
\* must not be stopped, which makes timeout wait() with the alarm blocked, and
\* no signal may come from outside, the second of which stops the timer.)
TimesOut ==
    <>(\/ child \notin Ours /\ pc \in Gone
       \/ opt.first = 0 \/ ~opt.k \/ opt.second = 0
       \/ sent > 0 \/ stops > 0 \/ opt.other)
=============================================================================
