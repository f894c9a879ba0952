--------------------------- MODULE CronLockProofs ---------------------------
(***************************************************************************)
(* For any number of starts, files, forks, jobs, signals and deaths, a      *)
(* daemon at work holds the lock on the file it opened.  quit() is the only *)
(* place that unlinks the pid file: without it the name keeps meaning one   *)
(* file, so at most one daemon is at work and the pid file names it.        *)
(***************************************************************************)
EXTENDS CronLock, TLAPS

\* Where a process has the descriptor of the file its start has locked.
Holding == {"locked", "named", "exiting", "child", "run", "inherited"}

Opened == \A p \in Procs : pc[p] = "opened" => fd[p] \in Files

\* A process at work on behalf of a start of cron holds that start's lock.
Locked == \A p \in Procs : pc[p] \in Holding => fd[p] \in Files /\ lock[fd[p]] = p[1]

\* Parent, daemon and job take turns as main() and do_command() have them.
Turns == \A d \in Daemons :
            /\ pc[Parent(d)] \in Points \ {"inherited", "job"}
            /\ pc[Daemon(d)] \in {"off", "child", "run", "dead"}
            /\ pc[Job(d)] \in {"off", "inherited", "job", "dead"}
            /\ pc[Daemon(d)] # "off" => pc[Parent(d)] \in {"exiting", "dead"}

Named == \A p \in Procs : pc[p] = "run" => text[fd[p]] = p

LockInv == TypeOK /\ Opened /\ Locked /\ Turns /\ Named

\* Every descriptor is open on the file the name stands for: kept by every
\* step but quit().
OneFile == \A p \in Procs : fd[p] = path \/ fd[p] = NoFile

-----------------------------------------------------------------------------

\* The processes of a start, by role.
LEMMA ProcsByRole ==
    /\ \A d \in Daemons : Parent(d) \in Procs /\ Daemon(d) \in Procs /\ Job(d) \in Procs
    /\ \A d \in Daemons : Parent(d)[1] = d /\ Daemon(d)[1] = d /\ Job(d)[1] = d
    /\ \A p \in Procs : /\ p[1] \in Daemons
                        /\ p = Parent(p[1]) \/ p = Daemon(p[1]) \/ p = Job(p[1])
    /\ \A d, e \in Daemons : Parent(d) # Daemon(e) /\ Parent(d) # Job(e) /\ Daemon(d) # Job(e)
    /\ \A d, e \in Daemons : /\ Parent(d) = Parent(e) => d = e
                             /\ Daemon(d) = Daemon(e) => d = e
                             /\ Job(d) = Job(e) => d = e
BY DEF Procs, Roles, Parent, Daemon, Job

\* Closing a descriptor takes the lock only from a start that has no other.
LEMMA CloseKeeps ==
    ASSUME LockInv, NEW p \in Procs, Close(p),
           NEW q \in Procs, q # p, pc[q] \in Holding
    PROVE  fd'[q] = fd[q] /\ lock'[fd[q]] = q[1]
<1>1. fd[q] \in Files /\ lock[fd[q]] = q[1] /\ fd'[q] = fd[q]
  BY DEF LockInv, Locked, TypeOK, Close
<1>2. q = <<q[1], q[2]>> /\ q[2] \in Roles
  BY DEF Procs
<1>3. CASE q[1] = p[1]
  BY <1>1, <1>2, <1>3 DEF Close
<1>4. CASE q[1] # p[1]
  BY <1>1, <1>4 DEF Close
<1>. QED BY <1>1, <1>3, <1>4

\* What every death, and a job that closes its descriptor, has in common.
LEMMA CloseInv ==
    ASSUME LockInv, NEW p \in Procs, NEW l, Close(p), Goto(p, l),
           pc[p] # "off",
           l = "dead" \/ (l = "job" /\ p = Job(p[1])),
           path' \in Files \cup {NoFile}, UNCHANGED <<used, text>>
    PROVE  LockInv'
<1>. USE ProcsByRole, CronLockConstants
     DEF TypeOK, Opened, Locked, Turns, Named, Holding, Points, Goto
<1>1. TypeOK'
  BY DEF LockInv, Close
<1>2. Opened'
  BY DEF LockInv, Close
<1>3. Locked'
  <2>. SUFFICES ASSUME NEW q \in Procs, pc'[q] \in Holding
                PROVE  fd'[q] \in Files /\ lock'[fd'[q]] = q[1]
    OBVIOUS
  <2>1. q # p /\ pc[q] \in Holding
    BY DEF LockInv
  <2>2. fd'[q] = fd[q] /\ lock'[fd[q]] = q[1]
    BY <2>1, CloseKeeps
  <2>3. fd[q] \in Files
    BY <2>1 DEF LockInv
  <2>. QED BY <2>2, <2>3
<1>4. Turns'
  BY DEF LockInv
<1>5. Named'
  BY DEF LockInv, Close
<1>. QED BY <1>1, <1>2, <1>3, <1>4, <1>5 DEF LockInv

\* The signal handlers are set.
LEMMA BeginInv ==
    ASSUME LockInv, NEW d \in Daemons, Begin(d)
    PROVE  LockInv'
<1>. USE ProcsByRole, CronLockConstants
     DEF LockInv, TypeOK, Opened, Locked, Turns, Named, Holding, Points, Goto
<1>1. TypeOK'
  BY DEF Begin
<1>2. Opened'
  BY DEF Begin
<1>3. Locked'
  BY DEF Begin
<1>4. Turns'
  BY DEF Begin
<1>5. Named'
  BY DEF Begin
<1>. QED BY <1>1, <1>2, <1>3, <1>4, <1>5

\* The file is opened, and made if the name stands for none.
LEMMA OpenInv ==
    ASSUME LockInv, NEW d \in Daemons, Open(d)
    PROVE  LockInv'
<1>. USE ProcsByRole, CronLockConstants
     DEF LockInv, TypeOK, Opened, Locked, Turns, Named, Holding, Points, Goto
<1>1. TypeOK'
  BY DEF Open
<1>2. Opened'
  BY DEF Open
<1>3. Locked'
  BY DEF Open
<1>4. Turns'
  BY DEF Open
<1>5. Named'
  BY DEF Open
<1>. QED BY <1>1, <1>2, <1>3, <1>4, <1>5

\* The lock is free, so nobody holds it and nobody is at work.
LEMMA FlockInv ==
    ASSUME LockInv, NEW d \in Daemons, Flock(d)
    PROVE  LockInv'
<1>. USE ProcsByRole, CronLockConstants
     DEF LockInv, TypeOK, Opened, Locked, Turns, Named, Holding, Points, Goto
<1>1. TypeOK'
  BY DEF Flock
<1>2. Opened'
  BY DEF Flock
<1>3. Locked'
  BY DEF Flock
<1>4. Turns'
  BY DEF Flock
<1>5. Named'
  BY DEF Flock
<1>. QED BY <1>1, <1>2, <1>3, <1>4, <1>5

\* The parent writes its pid: its daemon is not there yet.
LEMMA WritePidInv ==
    ASSUME LockInv, NEW d \in Daemons, WritePid(d)
    PROVE  LockInv'
<1>. USE ProcsByRole, CronLockConstants
     DEF LockInv, TypeOK, Opened, Locked, Turns, Named, Holding, Points, Goto
<1>1. TypeOK'
  BY DEF WritePid
<1>2. Opened'
  BY DEF WritePid
<1>3. Locked'
  BY DEF WritePid
<1>4. Turns'
  BY DEF WritePid
<1>5. Named'
  BY DEF WritePid
<1>. QED BY <1>1, <1>2, <1>3, <1>4, <1>5

\* The daemon shares the parent's descriptor, and so the lock.
LEMMA ForkInv ==
    ASSUME LockInv, NEW d \in Daemons, Fork(d)
    PROVE  LockInv'
<1>. USE ProcsByRole, CronLockConstants
     DEF LockInv, TypeOK, Opened, Locked, Turns, Named, Holding, Points, Goto
<1>1. TypeOK'
  BY DEF Fork
<1>2. Opened'
  BY DEF Fork
<1>3. Locked'
  BY DEF Fork
<1>4. Turns'
  BY DEF Fork
<1>5. Named'
  BY DEF Fork
<1>. QED BY <1>1, <1>2, <1>3, <1>4, <1>5

\* The parent becomes the daemon.
LEMMA NoForkInv ==
    ASSUME LockInv, NEW d \in Daemons, NoFork(d)
    PROVE  LockInv'
<1>. USE ProcsByRole, CronLockConstants
     DEF LockInv, TypeOK, Opened, Locked, Turns, Named, Holding, Points, Goto
<1>1. TypeOK'
  BY DEF NoFork
<1>2. Opened'
  BY DEF NoFork
<1>3. Locked'
  BY DEF NoFork
<1>4. Turns'
  BY DEF NoFork
<1>5. Named'
  BY DEF NoFork
<1>. QED BY <1>1, <1>2, <1>3, <1>4, <1>5

\* A job has no descriptor.
LEMMA JobExitInv ==
    ASSUME LockInv, NEW d \in Daemons, JobExit(d)
    PROVE  LockInv'
<1>. USE ProcsByRole, CronLockConstants
     DEF LockInv, TypeOK, Opened, Locked, Turns, Named, Holding, Points, Goto
<1>1. TypeOK'
  BY DEF JobExit
<1>2. Opened'
  BY DEF JobExit
<1>3. Locked'
  BY DEF JobExit
<1>4. Turns'
  BY DEF JobExit
<1>5. Named'
  BY DEF JobExit
<1>. QED BY <1>1, <1>2, <1>3, <1>4, <1>5

\* The daemon writes its pid: the only one of its start at work.
LEMMA RewritePidInv ==
    ASSUME LockInv, NEW p \in Procs, RewritePid(p)
    PROVE  LockInv'
<1>. USE ProcsByRole, CronLockConstants
     DEF LockInv, TypeOK, Opened, Locked, Turns, Named, Holding, Points, Goto
<1>1. TypeOK'
  BY DEF RewritePid
<1>2. Opened'
  BY DEF RewritePid
<1>3. Locked'
  BY DEF RewritePid
<1>4. Turns'
  BY DEF RewritePid
<1>5. Named'
  BY DEF RewritePid
<1>. QED BY <1>1, <1>2, <1>3, <1>4, <1>5

\* A job shares the daemon's descriptor until it closes it.
LEMMA ForkJobInv ==
    ASSUME LockInv, NEW p \in Procs, ForkJob(p)
    PROVE  LockInv'
<1>. USE ProcsByRole, CronLockConstants
     DEF LockInv, TypeOK, Opened, Locked, Turns, Named, Holding, Points, Goto
<1>1. TypeOK'
  BY DEF ForkJob
<1>2. Opened'
  BY DEF ForkJob
<1>3. Locked'
  BY DEF ForkJob
<1>4. Turns'
  BY DEF ForkJob
<1>5. Named'
  BY DEF ForkJob
<1>. QED BY <1>1, <1>2, <1>3, <1>4, <1>5

-----------------------------------------------------------------------------

\* Every step keeps the invariant.
LEMMA NextInv ==
    ASSUME LockInv, [Next]_vars
    PROVE  LockInv'
<1>0. path \in Files \cup {NoFile}
  BY DEF LockInv, TypeOK
<1>1. CASE UNCHANGED vars
  BY <1>1 DEF vars, LockInv, TypeOK, Opened, Locked, Turns, Named
<1>2. ASSUME NEW d \in Daemons, Start(d) \/ ParentExit(d) \/ JobClose(d) \/ JobExit(d)
      PROVE  LockInv'
  <2>1. CASE Begin(d) BY <2>1, BeginInv
  <2>2. CASE Open(d) BY <2>2, OpenInv
  <2>3. CASE Flock(d) BY <2>3, FlockInv
  <2>4. CASE Refused(d)
    BY <1>0, <2>4, CloseInv, ProcsByRole DEF Refused
  <2>5. CASE WritePid(d) BY <2>5, WritePidInv
  <2>6. CASE Fork(d) BY <2>6, ForkInv
  <2>7. CASE NoFork(d) BY <2>7, NoForkInv
  <2>8. CASE ForkFails(d)
    BY <1>0, <2>8, CloseInv, ProcsByRole DEF ForkFails
  <2>9. CASE ParentExit(d)
    BY <1>0, <2>9, CloseInv, ProcsByRole DEF ParentExit
  <2>10. CASE JobClose(d)
    BY <1>0, <2>10, CloseInv, ProcsByRole DEF JobClose
  <2>11. CASE JobExit(d) BY <2>11, JobExitInv
  <2>. QED BY <1>2, <2>1, <2>2, <2>3, <2>4, <2>5, <2>6, <2>7, <2>8, <2>9, <2>10, <2>11 DEF Start
<1>3. ASSUME NEW p \in Procs, RewritePid(p) \/ ForkJob(p) \/ quit(p) \/ Die(p)
      PROVE  LockInv'
  <2>1. CASE RewritePid(p) BY <2>1, RewritePidInv
  <2>2. CASE ForkJob(p) BY <2>2, ForkJobInv
  <2>3. CASE Die(p)
    BY <1>0, <2>3, CloseInv DEF Die, Alive
  <2>4. CASE quit(p)
    BY <2>4, CloseInv DEF quit, Alive
  <2>. QED BY <1>3, <2>1, <2>2, <2>3, <2>4
<1>. QED BY <1>1, <1>2, <1>3 DEF Next

\* Initially nothing is open and nothing runs.
LEMMA InitInv == Init => LockInv
BY ProcsByRole, CronLockConstants
   DEF Init, LockInv, TypeOK, Opened, Locked, Turns, Named, Holding, Points

\* The invariant of the descriptors and locks holds always.
THEOREM LockInvariant == Spec => []LockInv
<1>1. Init => LockInv
  BY InitInv
<1>2. LockInv /\ [Next]_vars => LockInv'
  BY NextInv
<1>. QED BY <1>1, <1>2, PTL DEF Spec

\* Whatever is started, forked, signalled or killed, the lock that
\* acquire_daemonlock() took is held, and the pid is in the file, as long as
\* the daemon works.
THEOREM DaemonHoldsLockCorrect == Spec => []DaemonHoldsLock
<1>1. LockInv => DaemonHoldsLock
  BY CronLockConstants DEF LockInv, Locked, Named, Holding, DaemonHoldsLock
<1>. QED BY <1>1, LockInvariant, PTL

-----------------------------------------------------------------------------

\* Only quit() makes the name stand for another file than the open ones.
LEMMA NextOneFile ==
    ASSUME Signalled = {}, LockInv, OneFile, [Next]_vars
    PROVE  OneFile'
<1>. USE ProcsByRole, CronLockConstants DEF OneFile
<1>1. CASE UNCHANGED vars
  BY <1>1 DEF vars
<1>2. ASSUME NEW d \in Daemons, Open(d)
      PROVE  OneFile'
  BY <1>2 DEF Open, LockInv, TypeOK
<1>3. ASSUME NEW p \in Procs, Close(p), UNCHANGED path
      PROVE  OneFile'
  BY <1>3 DEF Close, LockInv, TypeOK
<1>4. ASSUME NEW d \in Daemons, Start(d) \/ ParentExit(d) \/ JobClose(d) \/ JobExit(d)
      PROVE  OneFile'
  <2>1. CASE Begin(d) \/ Flock(d) \/ WritePid(d) \/ NoFork(d) \/ JobExit(d)
    BY <2>1 DEF Begin, Flock, WritePid, NoFork, JobExit
  <2>2. CASE Refused(d) \/ ForkFails(d) \/ ParentExit(d) \/ JobClose(d)
    BY <1>3, <2>2 DEF Refused, ForkFails, ParentExit, JobClose
  <2>3. CASE Fork(d)
    BY <2>3 DEF Fork, LockInv, TypeOK
  <2>. QED BY <1>2, <1>4, <2>1, <2>2, <2>3 DEF Start
<1>5. ASSUME NEW p \in Procs, RewritePid(p) \/ ForkJob(p) \/ quit(p) \/ Die(p)
      PROVE  OneFile'
  <2>1. CASE RewritePid(p)
    BY <2>1 DEF RewritePid
  <2>2. CASE ForkJob(p)
    BY <2>2 DEF ForkJob, LockInv, TypeOK
  <2>3. CASE Die(p)
    BY <1>3, <2>3 DEF Die
  <2>4. ~quit(p)
    BY DEF quit
  <2>. QED BY <1>5, <2>1, <2>2, <2>3, <2>4
<1>. QED BY <1>1, <1>4, <1>5 DEF Next

\* Without quit() the descriptors stay on one file.
LEMMA OneFileInvariant == ASSUME Signalled = {} PROVE Spec => [](LockInv /\ OneFile)
<1>1. Init => OneFile
  BY DEF Init, OneFile
<1>2. LockInv /\ OneFile /\ [Next]_vars => OneFile'
  BY NextOneFile
<1>. QED BY <1>1, <1>2, LockInvariant, PTL DEF Spec

\* acquire_daemonlock() keeps a second daemon from working as long as nobody
\* unlinks the pid file, whatever is started, forked or killed.
THEOREM OneDaemonCorrect == ASSUME Signalled = {} PROVE Spec => []AtMostOneDaemon
<1>1. LockInv /\ OneFile => AtMostOneDaemon
  <2>. SUFFICES ASSUME LockInv, OneFile,
                       NEW p \in Procs, NEW q \in Procs, pc[p] = "run", pc[q] = "run"
                PROVE  p = q
    BY DEF AtMostOneDaemon
  <2>1. fd[p] = path /\ fd[q] = path
    BY CronLockConstants DEF LockInv, Locked, Holding, OneFile
  <2>. QED BY <2>1 DEF LockInv, Named
<1>. QED BY <1>1, OneFileInvariant, PTL

\* Under the same condition the pid file always names the daemon at work.
THEOREM PidFileCorrect == ASSUME Signalled = {} PROVE Spec => []PidFileNamesDaemon
<1>1. LockInv /\ OneFile => PidFileNamesDaemon
  BY CronLockConstants DEF LockInv, OneFile, Named, Locked, Holding, PidFileNamesDaemon
<1>. QED BY <1>1, OneFileInvariant, PTL
=============================================================================
