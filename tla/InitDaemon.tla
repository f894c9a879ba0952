---------------------------- MODULE InitDaemon ----------------------------
(***************************************************************************)
(* daemon(8) of the init system: it takes a pid file (-p), goes into the    *)
(* background, starts a logger (-l), waits for a path (-w), and runs a      *)
(* command, which it starts again when it dies (-r) and to which it passes  *)
(* signals on.  A signal may come between any two steps: fork() has made a  *)
(* process before command.pid knows it, and wait() has taken one away while *)
(* command.pid still names it.                                              *)
(***************************************************************************)
EXTENDS Integers, Sequences, FiniteSets

CONSTANTS
    Names,        \* of files
    Paths,        \* the paths to wait for, as sequences of names; <<>>: no -w
    Grace,        \* the 5 seconds of main(), scaled
    MaxStarts,    \* bound: how often the command is started
    MaxSignals,   \* bound: signals sent
    MaxNoise      \* bound: other files that appear in a directory watched

ASSUME InitDaemonConstants ==
    /\ Paths \subseteq Seq(Names)
    /\ Names \cap {"other", "ignored"} = {}  \* which stand for other events
    /\ {Grace, MaxStarts} \subseteq Nat \ {0}
    /\ {MaxSignals, MaxNoise} \subseteq Nat

VARIABLES
    opt,          \* the options p, r, l and w, and how much noise there may be
    pc,           \* where main() is
    pidfile,      \* what has the name: "none", an "empty" file, or our "pid"
    made,         \* how many names of the path exist
    level, watch, \* the name await() is at, and the one whose directory is watched
    events,       \* what inotify has to say
    noise,        \* how many other files appeared
    logger,       \* the logger process
    restart, killed, pid,  \* of command
    kids,         \* the processes forked to run the command
    age,          \* seconds since `started', up to Grace
    sent,         \* how many signals came
    quiet, told, late, termed, broken
                  \* history: no signal since killed = 0; SIGTERM came; commands
                  \* started after it; it came with a command running; a process
                  \* we had forked failed before its exec

command == <<restart, killed, pid>>
waiting == <<made, level, watch, events, noise>>
history == <<quiet, told, late, termed, broken>>
vars == <<opt, pc, pidfile, waiting, logger, command, kids, age, sent, history>>

Started == {n \in 1..MaxStarts : kids[n] # "none"}
Alive == {n \in 1..MaxStarts : kids[n] \in {"forked", "running"}}
Latest == Cardinality(Started)
Depth == Len(opt.w)

Loop == {"clear", "fork", "assign", "wait", "check", "forkfailed"}
Gone == {"exited", "killed", "replaced"}

Init ==
    /\ opt \in [p : BOOLEAN, r : BOOLEAN, l : BOOLEAN, w : Paths, noise : 0..MaxNoise]
    /\ Depth = 0 => opt.noise = 0
    /\ pc = "open"
    /\ pidfile = "none"
    /\ made \in 0..Depth
    /\ level = Depth - 1 /\ watch = 0 /\ events = <<>> /\ noise = 0
    /\ logger = "none"
    /\ restart = opt.r /\ killed = FALSE /\ pid = 0
    /\ kids = [n \in 1..MaxStarts |-> "none"]
    /\ age = 0 /\ sent = 0
    /\ quiet = TRUE /\ told = FALSE /\ late = 0 /\ termed = FALSE /\ broken = FALSE

TypeOK ==
    /\ opt \in [p : BOOLEAN, r : BOOLEAN, l : BOOLEAN, w : Paths, noise : 0..MaxNoise]
    /\ pc \in {"open", "background", "logger", "write", "descend", "watch", "look", "read",
               "run"} \cup Loop \cup Gone
    /\ pidfile \in {"none", "empty", "pid"}
    /\ made \in 0..Depth /\ level \in -1..Depth /\ watch \in 0..Depth
    /\ events \in Seq(Names \cup {"other", "ignored"}) /\ noise \in Nat
    /\ logger \in {"none", "forked", "alive", "zombie", "reaped"}
    /\ restart \in BOOLEAN /\ killed \in BOOLEAN /\ pid \in -1..MaxStarts
    /\ kids \in [1..MaxStarts -> {"none", "forked", "running", "zombie", "reaped"}]
    /\ age \in 0..Grace /\ sent \in 0..MaxSignals
    /\ late \in Nat /\ {quiet, told, termed, broken} \subseteq BOOLEAN

-----------------------------------------------------------------------------
(* Start-up.                                                                 *)

\* exit(): the pid file, if it is ours, is closed and removed.
pidfile_close == pidfile' = IF opt.p THEN "none" ELSE pidfile

\* Taken and emptied; or locked by another daemon, whose file it stays.
pidfile_open ==
    /\ pc = "open"
    /\ \/ pc' = "background" /\ pidfile' = IF opt.p THEN "empty" ELSE "none"
       \/ opt.p /\ pc' = "exited" /\ UNCHANGED pidfile
    /\ UNCHANGED <<opt, waiting, logger, command, kids, age, sent, history>>

\* Mutant: the process in the foreground leaves by exit().
BackgroundExit ==
    /\ pc = "background"
    /\ pc' = "logger"
    /\ pidfile_close
    /\ UNCHANGED <<opt, waiting, logger, command, kids, age, sent, history>>

\* fork(); the process in the foreground leaves by _exit().
Background ==
    /\ pc = "background"
    /\ pc' = "logger"
    /\ UNCHANGED <<opt, pidfile, waiting, logger, command, kids, age, sent, history>>

logger_start ==
    /\ pc = "logger"
    /\ pc' = "write"
    /\ logger' = IF opt.l THEN "forked" ELSE "none"
    /\ UNCHANGED <<opt, pidfile, waiting, command, kids, age, sent, history>>

pidfile_write ==
    /\ pc = "write"
    /\ pc' = IF Depth > 0 THEN "descend" ELSE "run"
    /\ pidfile' = IF opt.p /\ pidfile = "empty" THEN "pid" ELSE pidfile
    /\ UNCHANGED <<opt, waiting, logger, command, kids, age, sent, history>>

\* err(): a fork(), a pipe(), a chdir() fails.
StartFails ==
    /\ pc \in {"background", "logger", "write", "watch", "look", "read", "run"}
    /\ pc' = "exited"
    /\ pidfile_close
    /\ UNCHANGED <<opt, waiting, logger, command, kids, age, sent, history>>

-----------------------------------------------------------------------------
(* await().                                                                  *)

\* The recursion: if the whole parent is there already it is entered at once,
\* else its own parent is waited for first.
Descend ==
    /\ pc = "descend"
    /\ IF level > 0 /\ made < level
       THEN level' = level - 1 /\ UNCHANGED pc
       ELSE level' = level + 1 /\ pc' = "watch"
    /\ UNCHANGED <<opt, pidfile, made, watch, events, noise, logger, command, kids, age, sent, history>>

\* Mutant: the level is counted on after the last name.
LeavePast(unread) ==
    /\ watch' = 0
    /\ level' = level + 1
    /\ IF level = Depth
       THEN pc' = "run" /\ events' = <<>>
       ELSE pc' = "watch" /\ events' = Append(unread, "ignored")

\* out: inotify_rm_watch(), which leaves an event without a name.
Leave(unread) ==
    /\ watch' = 0
    /\ IF level = Depth
       THEN pc' = "run" /\ events' = <<>> /\ UNCHANGED level
       ELSE pc' = "watch" /\ level' = level + 1 /\ events' = Append(unread, "ignored")

\* Mutant: the directory is not watched.
WatchNot ==
    /\ pc = "watch"
    /\ pc' = "look"
    /\ UNCHANGED <<opt, pidfile, waiting, logger, command, kids, age, sent, history>>

\* inotify_add_watch().
Watch ==
    /\ pc = "watch"
    /\ pc' = "look"
    /\ watch' = level
    /\ UNCHANGED <<opt, pidfile, made, level, events, noise, logger, command, kids, age, sent, history>>

\* "Check if it already exists after setting watch to avoid a race."
Look ==
    /\ pc = "look"
    /\ IF made >= level THEN Leave(events)
       ELSE pc' = "read" /\ UNCHANGED <<level, watch, events>>
    /\ UNCHANGED <<opt, pidfile, made, noise, logger, command, kids, age, sent, history>>

\* Mutant: any event will do.
ReadAny ==
    /\ pc = "read" /\ events # <<>>
    /\ Leave(<<>>)
    /\ UNCHANGED <<opt, pidfile, made, noise, logger, command, kids, age, sent, history>>

\* One read() returns all the events there are; the first is looked at.
Read ==
    /\ pc = "read" /\ events # <<>>
    /\ IF Head(events) = opt.w[level] /\ (level = Depth \/ made >= level)
       THEN Leave(<<>>)
       ELSE events' = <<>> /\ UNCHANGED <<pc, level, watch>>
    /\ UNCHANGED <<opt, pidfile, made, noise, logger, command, kids, age, sent, history>>

\* The next name of the path appears, or another one in the directory watched.
Appears ==
    /\ pc \notin Gone
    /\ \/ /\ made < Depth /\ made' = made + 1
          /\ events' = IF watch = made + 1 THEN Append(events, opt.w[made + 1]) ELSE events
          /\ UNCHANGED noise
       \/ /\ watch # 0 /\ made >= watch - 1 /\ noise < opt.noise
          /\ noise' = noise + 1
          /\ events' = Append(events, "other")
          /\ UNCHANGED made
    /\ UNCHANGED <<opt, pc, pidfile, level, watch, logger, command, kids, age, sent, history>>

-----------------------------------------------------------------------------
(* Supervision.                                                              *)

\* Without -r and -p there is nothing to supervise: exec, or err().
Run ==
    /\ pc = "run"
    /\ IF opt.r \/ opt.p
       THEN pc' = "clear"
       ELSE pc' \in {"replaced", "exited"}
    /\ UNCHANGED <<opt, pidfile, waiting, logger, command, kids, age, sent, history>>

\* Mutant: command.killed is never reset.
ClearNot ==
    /\ pc = "clear"
    /\ pc' = "fork"
    /\ quiet' = TRUE
    /\ UNCHANGED <<opt, pidfile, waiting, logger, command, kids, age, sent, told, late, termed, broken>>

\* "Have we signalled the child?"
Clear ==
    /\ pc = "clear"
    /\ pc' = "fork"
    /\ killed' = FALSE
    /\ quiet' = TRUE
    /\ UNCHANGED <<opt, pidfile, waiting, logger, restart, pid, kids, age, sent, told, late, termed, broken>>

\* The new process is there, with all our handlers ...
Fork ==
    /\ pc = "fork" /\ Latest < MaxStarts
    /\ pc' = "assign"
    /\ kids' = [kids EXCEPT ![Latest + 1] = "forked"]
    /\ late' = IF told THEN late + 1 ELSE late
    /\ UNCHANGED <<opt, pidfile, waiting, logger, command, age, sent, quiet, told, termed, broken>>

\* ... and command.pid learns of it; then `started' is set.
Assign ==
    /\ pc = "assign"
    /\ pc' = "wait"
    /\ pid' = Latest
    /\ age' = 0
    /\ UNCHANGED <<opt, pidfile, waiting, logger, restart, killed, kids, sent, history>>

\* fork() fails: command.pid, which is unsigned, is all ones until err() is done.
ForkFails ==
    /\ pc = "fork"
    /\ pc' = "forkfailed"
    /\ pid' = -1
    /\ UNCHANGED <<opt, pidfile, waiting, logger, restart, killed, kids, age, sent, history>>

ForkExits ==
    /\ pc = "forkfailed"
    /\ pc' = "exited"
    /\ pidfile_close
    /\ UNCHANGED <<opt, waiting, logger, command, kids, age, sent, history>>

\* Mutant: the death of any child ends the wait.
WaitAny ==
    /\ pc = "wait"
    /\ pc' = "check"
    /\ \/ /\ kids[pid] = "zombie"
          /\ kids' = [kids EXCEPT ![pid] = "reaped"] /\ UNCHANGED logger
       \/ logger = "zombie" /\ logger' = "reaped" /\ UNCHANGED kids
    /\ UNCHANGED <<opt, pidfile, waiting, command, age, sent, history>>

\* wait() until it returns command.pid; the logger may die, too.
Wait ==
    /\ pc = "wait"
    /\ \/ /\ kids[pid] = "zombie"
          /\ kids' = [kids EXCEPT ![pid] = "reaped"]
          /\ pc' = "check"
          /\ UNCHANGED logger
       \/ /\ logger = "zombie"
          /\ logger' = "reaped"
          /\ UNCHANGED <<pc, kids>>
    /\ UNCHANGED <<opt, pidfile, waiting, command, age, sent, history>>

\* "Try to avoid restarting a crashing command in a tight loop."
Check ==
    /\ pc = "check"
    /\ IF restart /\ (killed \/ age >= Grace)
       THEN pc' = "clear" /\ UNCHANGED pidfile
       ELSE pc' = "exited" /\ pidfile_close
    /\ UNCHANGED <<opt, waiting, logger, command, kids, age, sent, history>>

Daemon ==
    \/ pidfile_open \/ Background \/ logger_start \/ pidfile_write
    \/ Descend \/ Watch \/ Look \/ Read
    \/ Run \/ Clear \/ Fork \/ Assign \/ ForkFails \/ ForkExits \/ Wait \/ Check

-----------------------------------------------------------------------------
(* Signals, the command and the rest of the world.                           *)

\* Mutant: the signal is not passed on.
HitNobody(sig) == FALSE

\* Whom kill(command.pid, sig) reaches: a running command dies of SIGTERM, and
\* as it likes of the others; a process that has not called exec yet runs our
\* own handler, whose command.pid is 0, and nothing happens.
Hit(sig) == sig = "TERM" /\ pid > 0 /\ kids[pid] = "running"

\* Mutant: SIGTERM is passed on like the others, and that is all.
handlerPasses(sig) ==
    /\ pc \in Loop /\ sent < MaxSignals
    /\ sent' = sent + 1 /\ quiet' = FALSE /\ told' = (told \/ sig = "TERM")
    /\ termed' = (termed \/ (sig = "TERM" /\ pid > 0 /\ kids[pid] = "running"))
    /\ UNCHANGED restart
    /\ killed' = (killed \/ pid # 0)
    /\ kids' = IF Hit(sig) THEN [kids EXCEPT ![pid] = "zombie"] ELSE kids
    /\ UNCHANGED <<opt, pc, pidfile, waiting, logger, pid, age, late, broken>>

handler(sig) ==
    /\ pc \in Loop /\ sent < MaxSignals
    /\ sent' = sent + 1 /\ quiet' = FALSE /\ told' = (told \/ sig = "TERM")
    /\ termed' = (termed \/ (sig = "TERM" /\ pid > 0 /\ kids[pid] = "running"))
    /\ restart' = (restart /\ sig # "TERM")
    /\ killed' = (killed \/ pid # 0)
    /\ kids' = IF Hit(sig) THEN [kids EXCEPT ![pid] = "zombie"] ELSE kids
    /\ UNCHANGED <<opt, pc, pidfile, waiting, logger, pid, age, late, broken>>

Hangup == handler("HUP")     \* and SIGINT, SIGUSR1, SIGUSR2
Terminate == handler("TERM")

\* SIGKILL, or SIGTERM before there are handlers.
Killed ==
    /\ pc \notin Gone /\ sent < MaxSignals
    /\ sent' = sent + 1
    /\ pc' = "killed"
    /\ UNCHANGED <<opt, pidfile, waiting, logger, command, kids, age, history>>

Exec ==
    /\ \E n \in Started : kids[n] = "forked" /\ kids' = [kids EXCEPT ![n] = "running"]
    /\ UNCHANGED <<opt, pc, pidfile, waiting, logger, command, age, sent, history>>

\* setgid(), setuid() or exec fails in the new process: err() there calls
\* exit(), and with it our pidfile_close().
ExecFails ==
    /\ \E n \in Started : kids[n] = "forked" /\ kids' = [kids EXCEPT ![n] = "zombie"]
    /\ pidfile_close
    /\ broken' = TRUE
    /\ UNCHANGED <<opt, pc, waiting, logger, command, age, sent, quiet, told, late, termed>>

CommandDies ==
    /\ \E n \in Started : kids[n] = "running" /\ kids' = [kids EXCEPT ![n] = "zombie"]
    /\ UNCHANGED <<opt, pc, pidfile, waiting, logger, command, age, sent, history>>

LoggerExec ==
    /\ logger = "forked"
    /\ logger' = "alive"
    /\ UNCHANGED <<opt, pc, pidfile, waiting, command, kids, age, sent, history>>

\* chdir(), dup2() or exec fails in the logger's process: the same err(), even
\* before pidfile_write(), which then writes into a file without a name.
LoggerFails ==
    /\ logger = "forked"
    /\ logger' = "zombie"
    /\ pidfile_close
    /\ broken' = TRUE
    /\ UNCHANGED <<opt, pc, waiting, command, kids, age, sent, quiet, told, late, termed>>

LoggerDies ==
    /\ logger = "alive" /\ pc \notin Gone
    /\ logger' = "zombie"
    /\ UNCHANGED <<opt, pc, pidfile, waiting, command, kids, age, sent, history>>

Tick ==
    /\ pc \in Loop /\ age < Grace
    /\ age' = age + 1
    /\ UNCHANGED <<opt, pc, pidfile, waiting, logger, command, kids, sent, history>>

Next ==
    \/ Daemon \/ StartFails \/ Appears
    \/ Hangup \/ Terminate \/ Killed
    \/ Exec \/ ExecFails \/ CommandDies \/ LoggerExec \/ LoggerFails \/ LoggerDies
    \/ Tick

Spec == Init /\ [][Next]_vars

\* The daemon runs when it can; no call need fail.  Nothing is assumed of the command but that it
\* dies of SIGTERM, which is in Hit.
FairSpec == Spec /\ WF_vars(Daemon)

-----------------------------------------------------------------------------

\* The command is not started before the path exists, every name of it, in
\* whichever order events come and are read.  (Two names of the path must not
\* be the same: of a/a the event for the first, left unread, is taken for the
\* second.)
NamesDiffer == \A i, j \in 1..Depth : opt.w[i] = opt.w[j] => i = j
AwaitSound == NamesDiffer /\ pc \in Loop \cup {"replaced"} => made = Depth

\* At most one process runs the command, and none when the supervisor has
\* ended in its own way, whatever other children die and however often the
\* command is started again.
OneCommand ==
    /\ Cardinality(Alive) <= 1
    /\ pc = "exited" => Alive = {}

\* After SIGTERM the command is started at most once more: a signal that comes
\* between the test of command.restart and fork() is too late for that start.
AtMostOneMore == late <= 1

\* From pidfile_write() until the supervisor ends the pid file holds its pid,
\* though pidfile_close() is an exit handler that every process it is forked
\* from and forks has, too.  Excepted is a child, logger or command, that fails
\* before its exec: it leaves by err(), and takes the file with it.
PidFileHeld ==
    opt.p /\ ~broken /\ pc \in Loop \cup {"descend", "watch", "look", "read", "run"}
        => pidfile = "pid"

\* A command that died young is started again only if a signal came since, also
\* when an earlier one was signalled: no tight loop.
RestartsSpaced == [][pc = "check" /\ pc' = "clear" => ~quiet \/ age >= Grace]_vars

\* If SIGTERM comes while a command is running, the supervisor ends.
TermHeeded == termed ~> pc \in Gone

\* If the path is one name, and nothing else appears beside it, its appearance
\* is not missed, whether it comes before, between or after the watch and the
\* look.  (Of events that are read together only the first is looked at.)
AwaitEnds == (pc = "read" /\ made = Depth /\ opt.noise = 0 /\ Depth = 1) ~> pc # "read"
=============================================================================
