------------------------------ MODULE CronLock ------------------------------
(***************************************************************************)
(* The pid file: acquire_daemonlock() with its two calls from main() and    *)
(* the one from do_command(), quit(), and several cron daemons started and  *)
(* stopped at any time.                                                     *)
(*                                                                          *)
(* Starting cron makes a parent, which forks the daemon (or, with -n or -x, *)
(* becomes it); the daemon forks jobs.  flock() belongs to the open file,   *)
(* which a fork shares: the lock is gone when the last copy of the          *)
(* descriptor is closed.  A file keeps its lock and text when it is         *)
(* unlinked.                                                                *)
(***************************************************************************)
EXTENDS Integers

CONSTANTS
    Daemons,      \* starts of cron
    Files,        \* the files _PATH_CRON_PID can be the name of
    NoFile,       \* no such file
    Nobody,       \* no daemon, no process
    Signalled     \* the roles that are ever sent SIGINT or SIGTERM

Roles == {"parent", "daemon", "job"}
Procs == Daemons \X Roles
Parent(d) == <<d, "parent">>
Daemon(d) == <<d, "daemon">>
Job(d) == <<d, "job">>

ASSUME CronLockConstants ==
    /\ NoFile \notin Files
    /\ Nobody \notin Daemons \cup Procs
    /\ Signalled \subseteq Roles

VARIABLES
    path,         \* the file named _PATH_CRON_PID, or NoFile
    used,         \* the files made so far
    text,         \* the pid in a file
    lock,         \* the start of cron that has a file locked
    fd,           \* the file a process has open
    pc            \* where a process is

vars == <<path, used, text, lock, fd, pc>>

Points == {"off", "begun", "opened", "locked", "named", "exiting", "child",
           "run", "inherited", "job", "dead"}

TypeOK ==
    /\ path \in Files \cup {NoFile}
    /\ used \subseteq Files
    /\ text \in [Files -> Procs \cup {Nobody}]
    /\ lock \in [Files -> Daemons \cup {Nobody}]
    /\ fd \in [Procs -> Files \cup {NoFile}]
    /\ pc \in [Procs -> Points]

Init ==
    /\ path = NoFile
    /\ used = {}
    /\ text = [f \in Files |-> Nobody]
    /\ lock = [f \in Files |-> Nobody]
    /\ fd = [p \in Procs |-> NoFile]
    /\ pc = [p \in Procs |-> "off"]

Goto(p, l) == pc' = [pc EXCEPT ![p] = l]

\* p closes its descriptor, by close() or by dying: the lock goes with the
\* last copy.
Close(p) ==
    /\ fd' = [fd EXCEPT ![p] = NoFile]
    /\ lock' = [f \in Files |->
                  IF /\ lock[f] = p[1] /\ f = fd[p]
                     /\ \A r \in Roles : <<p[1], r>> # p => fd[<<p[1], r>>] # f
                  THEN Nobody ELSE lock[f]]

-----------------------------------------------------------------------------
(* main() up to the loop.                                                    *)

\* The signal handlers are set.
Begin(d) ==
    /\ pc[Parent(d)] = "off"
    /\ Goto(Parent(d), "begun")
    /\ UNCHANGED <<path, used, text, lock, fd>>

\* open(pidfile, O_RDWR|O_CREAT).
Open(d) ==
    LET p == Parent(d)
    IN  /\ pc[p] = "begun"
        /\ \/ path # NoFile /\ UNCHANGED <<path, used>>
           \/ path = NoFile /\ \E f \in Files \ used : path' = f /\ used' = used \cup {f}
        /\ fd' = [fd EXCEPT ![p] = path']
        /\ Goto(p, "opened")
        /\ UNCHANGED <<text, lock>>

\* flock(fd, LOCK_EX|LOCK_NB) ...
Flock(d) ==
    LET p == Parent(d)
    IN  /\ pc[p] = "opened"
        /\ lock[fd[p]] = Nobody
        /\ lock' = [lock EXCEPT ![fd[p]] = d]
        /\ Goto(p, "locked")
        /\ UNCHANGED <<path, used, text, fd>>

\* ... fails: report the pid in the file, if it has one, and exit.
Refused(d) ==
    LET p == Parent(d)
    IN  /\ pc[p] = "opened"
        /\ lock[fd[p]] # Nobody
        /\ Close(p)
        /\ Goto(p, "dead")
        /\ UNCHANGED <<path, used, text>>

\* The pid is written, before the fork ...
WritePid(d) ==
    LET p == Parent(d)
    IN  /\ pc[p] = "locked"
        /\ text' = [text EXCEPT ![fd[p]] = p]
        /\ Goto(p, "named")
        /\ UNCHANGED <<path, used, lock, fd>>

\* ... the daemon is forked, and inherits the descriptor ...
Fork(d) ==
    /\ pc[Parent(d)] = "named" /\ pc[Daemon(d)] = "off"
    /\ pc' = [pc EXCEPT ![Parent(d)] = "exiting", ![Daemon(d)] = "child"]
    /\ fd' = [fd EXCEPT ![Daemon(d)] = fd[Parent(d)]]
    /\ UNCHANGED <<path, used, text, lock>>

\* ... or is the parent itself: -n, or -x ...
NoFork(d) ==
    /\ pc[Parent(d)] = "named"
    /\ Goto(Parent(d), "child")
    /\ UNCHANGED <<path, used, text, lock, fd>>

\* ... or cannot be forked: exit(0).
ForkFails(d) ==
    /\ pc[Parent(d)] = "named"
    /\ Close(Parent(d))
    /\ Goto(Parent(d), "dead")
    /\ UNCHANGED <<path, used, text>>

\* After the fork "parent process should just die".
ParentExit(d) ==
    LET p == Parent(d)
    IN  /\ pc[p] = "exiting"
        /\ Close(p)
        /\ Goto(p, "dead")
        /\ UNCHANGED <<path, used, text>>

\* Mutant: the daemon does not rewrite the pid after the fork.
RewritePidNot(p) ==
    /\ pc[p] = "child"
    /\ Goto(p, "run")
    /\ UNCHANGED <<path, used, text, lock, fd>>

\* acquire_daemonlock() again, after the fork; then the daemon does its work.
RewritePid(p) ==
    /\ pc[p] = "child"
    /\ text' = [text EXCEPT ![fd[p]] = p]
    /\ Goto(p, "run")
    /\ UNCHANGED <<path, used, lock, fd>>

-----------------------------------------------------------------------------
(* do_command(): a job is a fork of the daemon, and closes the descriptor.   *)

ForkJob(p) ==
    LET j == Job(p[1])
    IN  /\ pc[p] = "run" /\ pc[j] = "off"
        /\ fd' = [fd EXCEPT ![j] = fd[p]]
        /\ Goto(j, "inherited")
        /\ UNCHANGED <<path, used, text, lock>>

\* Mutant: the job keeps the descriptor.
JobCloseNot(d) ==
    /\ pc[Job(d)] = "inherited"
    /\ Goto(Job(d), "job")
    /\ UNCHANGED <<path, used, text, lock, fd>>

\* acquire_daemonlock(1).
JobClose(d) ==
    /\ pc[Job(d)] = "inherited"
    /\ Close(Job(d))
    /\ Goto(Job(d), "job")
    /\ UNCHANGED <<path, used, text>>

\* The job is over; another may follow.
JobExit(d) ==
    /\ pc[Job(d)] = "job"
    /\ Goto(Job(d), "off")
    /\ UNCHANGED <<path, used, text, lock, fd>>

-----------------------------------------------------------------------------

Alive(p) == pc[p] \notin {"off", "dead"}

\* SIGINT or SIGTERM: every process forked from cron has this handler.
quit(p) ==
    /\ Alive(p) /\ p[2] \in Signalled
    /\ path' = NoFile
    /\ Close(p)
    /\ Goto(p, "dead")
    /\ UNCHANGED <<used, text>>

\* Any other death: SIGKILL, or an exit() on an error.
Die(p) ==
    /\ Alive(p)
    /\ Close(p)
    /\ Goto(p, "dead")
    /\ UNCHANGED <<path, used, text>>

Start(d) ==
    \/ Begin(d) \/ Open(d) \/ Flock(d) \/ Refused(d) \/ WritePid(d) \/ Fork(d) \/ NoFork(d)
    \/ ForkFails(d)

Next ==
    \/ \E d \in Daemons : Start(d) \/ ParentExit(d) \/ JobClose(d) \/ JobExit(d)
    \/ \E p \in Procs : RewritePid(p) \/ ForkJob(p) \/ quit(p) \/ Die(p)

Spec == Init /\ [][Next]_vars

\* A forked parent exits and a forked job closes its descriptor at once;
\* nothing in between can block.
FairSpec ==
    Spec /\ \A d \in Daemons : WF_vars(ParentExit(d)) /\ WF_vars(JobClose(d))

-----------------------------------------------------------------------------

\* misc.c: the pid is written "unless another daemon is already running, which
\* we detect here".  At most one daemon is at work.
AtMostOneDaemon ==
    \A p, q \in Procs : pc[p] = "run" /\ pc[q] = "run" => p = q

\* The pid file names the daemon that is at work, not the parent it was
\* forked from and not another one.  (Proved in CronLockProofs for a cron
\* that is never sent SIGINT or SIGTERM; quit() unlinks the file.)
PidFileNamesDaemon ==
    \A p \in Procs : pc[p] = "run" => path # NoFile /\ text[path] = p

\* Whatever is signalled or dies, a daemon at work holds the lock on the file
\* it opened, and that file has its pid in it.
DaemonHoldsLock ==
    \A p \in Procs : pc[p] = "run" =>
        fd[p] # NoFile /\ lock[fd[p]] = p[1] /\ text[fd[p]] = p

\* A lock whose daemon is dead is given up: a job that still runs, or a parent
\* that has forked, never keeps a new daemon from starting.
LockGivenUp ==
    \A f \in Files, d \in Daemons :
        lock[f] = d ~> \/ lock[f] # d
                       \/ \E r \in {"parent", "daemon"} : Alive(<<d, r>>)
=============================================================================
