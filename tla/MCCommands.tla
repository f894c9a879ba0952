---------------------------- MODULE MCCommands ----------------------------
(***************************************************************************)
(* The three programs that run a command for somebody and must see to its   *)
(* end, for TLC: daemon(8) (InitDaemon), timeout(1) (Timeout) and cron's    *)
(* child_process() (CronJob).  `program' is the one looked at; the others   *)
(* stay in an initial state of theirs.                                      *)
(***************************************************************************)
EXTENDS InitDaemon

CONSTANTS
    Intervals, MaxInterrupts, MaxStops,  \* of Timeout
    Capacity, MaxInput, MaxOutput        \* of CronJob

VARIABLES
    program,
    (* of Timeout *)
    topt, tpc, flags, pending, timer, killsig, second_kill, timedout, child, status, other,
    pstat, interrupts, stops, since, hasty,
    (* of CronJob *)
    jpc, rd, wr, buf, children, hold, input, greedy, wrote, mailed, mailto, reaped

T == INSTANCE Timeout WITH opt <- topt, pc <- tpc, sent <- interrupts, MaxSignals <- MaxInterrupts
J == INSTANCE CronJob WITH pc <- jpc, sent <- mailed

ofTimeout == <<topt, tpc, flags, pending, timer, killsig, second_kill, timedout, child, status,
               other, pstat, interrupts, stops, since, hasty>>
ofJob == <<jpc, rd, wr, buf, children, hold, input, greedy, wrote, mailed, mailto, reaped>>
all == <<program, vars, ofTimeout, ofJob>>

\* No path to wait for, a file in the root, a file in a directory, also one of
\* the same name.
MCPaths == {<<>>, <<"a">>, <<"a", "b">>, <<"a", "a">>}

ASSUME CommandsConstants == T!TimeoutConstants /\ J!CronJobConstants

-----------------------------------------------------------------------------

\* An initial state to stay in.
DaemonRests == opt = [p |-> FALSE, r |-> FALSE, l |-> FALSE, w |-> <<>>, noise |-> 0]
TimeoutRests == topt \in [fg : {FALSE}, preserve : {FALSE}, k : {FALSE}, other : {FALSE},
                          first : {0}, second : {0}, sig : {"TERM"}]
JobRests == input = 0 /\ greedy = FALSE /\ mailto = "nobody"

AllInit ==
    /\ program \in {"daemon", "timeout", "job"}
    /\ Init /\ T!Init /\ J!Init
    /\ program # "daemon" => DaemonRests
    /\ program # "timeout" => TimeoutRests
    /\ program # "job" => JobRests
    /\ topt.other => ~topt.preserve  \* fewer combinations; they do not meet in the code

OfDaemon(A) == program = "daemon" /\ A /\ UNCHANGED <<program, ofTimeout, ofJob>>
OfTimeout(A) == program = "timeout" /\ A /\ UNCHANGED <<program, vars, ofJob>>
OfJob(A) == program = "job" /\ A /\ UNCHANGED <<program, vars, ofTimeout>>

AllNext == OfDaemon(Next) \/ OfTimeout(T!Next) \/ OfJob(J!Next)

\* Each program runs when it can, and time passes.  Of the commands only the
\* job's is assumed to end; see the modules.
AllSpec ==
    /\ AllInit /\ [][AllNext]_all
    /\ WF_all(OfDaemon(Daemon))
    /\ WF_all(OfTimeout(T!Main)) /\ WF_all(OfTimeout(T!Tick))
    /\ WF_all(OfJob(J!MStep)) /\ WF_all(OfJob(J!FStep))
    /\ WF_all(OfJob(J!CommandGet)) /\ WF_all(OfJob(J!CommandExit))
    /\ WF_all(OfJob(J!BackgroundExit))
    /\ WF_all(OfJob(J!MailerGet)) /\ WF_all(OfJob(J!MailerExit))

-----------------------------------------------------------------------------

\* All variables of the three programs keep their types.
AllTypeOK == TypeOK /\ T!TypeOK /\ J!TypeOK

\* timeout(1): the command has ended, and the right status is returned (Timeout).
StatusRight == T!StatusRight

\* timeout(1): the second signal keeps its distance from the first (Timeout).
GraceOfTimer == T!GraceOfTimer

\* timeout(1): the command is dead in the end (Timeout).
TimesOut == program = "timeout" => T!TimesOut

\* child_process(): every child is waited for before it ends (CronJob).
AllChildrenReaped == J!AllChildrenReaped

\* child_process(): all output reaches the mailer (CronJob).
OutputMailed == J!OutputMailed

\* child_process(): no cycle of processes waits on pipes for ever (CronJob).
JobEnds == program = "job" => J!JobEnds
=============================================================================
