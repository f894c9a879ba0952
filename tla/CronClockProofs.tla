-------------------------- MODULE CronClockProofs --------------------------
(***************************************************************************)
(* Proofs about CronClock, for every set of entries, every Due, every       *)
(* threshold and every horizon.  The inductive invariant adds to the        *)
(* properties what main() knows at each point of its loop: the queue is     *)
(* empty outside the catch-up loops and the final job_runqueue(), and a     *)
(* catch-up loop still has a minute to go.  The last part carries this, and *)
(* what CronSleepProofs proves of the wait, over to the two scales of       *)
(* MCCronTime.                                                              *)
(***************************************************************************)
EXTENDS MCCronTime, TLAPS

\* What main() knows about queue and clocks at each control point.
ControlInv ==
    /\ pc \in {"wait", "dispatch", "down"} => queue = {}
    /\ pc \in {"small", "medium"} => virtualTime < timeRunning

LoopInv == TypeOK /\ ControlInv

-----------------------------------------------------------------------------
(* Bookkeeping lemmas.                                                       *)

\* Counting the jobs of S once more leaves a job history a job history.
LEMMA BumpType ==
    ASSUME NEW f \in [Jobs -> Nat], NEW S
    PROVE  /\ Bump(f, S) \in [Jobs -> Nat]
           /\ \A j \in Jobs : Bump(f, S)[j] = f[j] + In(j, S)
BY DEF Bump, In

\* On an empty queue job_add() accounts for every job it is given: it is
\* queued, or counted as lost.
LEMMA JobAdd ==
    ASSUME NEW lo \in [Jobs -> Nat], NEW S \in SUBSET Jobs, job_add({}, lo, S)
    PROVE  /\ queue' \in SUBSET Jobs
           /\ lost' \in [Jobs -> Nat]
           /\ \A j \in Jobs : lost'[j] + In(j, queue') = lo[j] + In(j, S)
<1> DEFINE new == {j \in S : \A k \in {} : k[1] # j[1]}
<1>1. new = S
  OBVIOUS
<1>2. PICK failed \in SUBSET {j \in S : j[1] \in Unlucky} :
          queue' = S \ failed /\ lost' = Bump(lo, failed)
  BY <1>1 DEF job_add
<1>3. lost' \in [Jobs -> Nat] /\ \A j \in Jobs : lost'[j] = lo[j] + In(j, failed)
  BY <1>2, BumpType
<1>4. \A j \in Jobs : In(j, failed) + In(j, queue') = In(j, S)
  BY <1>2 DEF In
<1> QED
  BY <1>2, <1>3, <1>4 DEF In

\* Running the queue moves every queued job to runs or to lost.
LEMMA RunAll ==
    ASSUME TypeOK, NEW failed \in Forkless
    PROVE  /\ Bump(runs, queue \ failed) \in [Jobs -> Nat]
           /\ Bump(lost, failed) \in [Jobs -> Nat]
           /\ \A j \in Jobs : Bump(runs, queue \ failed)[j] + Bump(lost, failed)[j] = Handled(j)
<1>1. /\ Bump(runs, queue \ failed) \in [Jobs -> Nat]
      /\ \A j \in Jobs : Bump(runs, queue \ failed)[j] = runs[j] + In(j, queue \ failed)
  BY BumpType DEF TypeOK
<1>2. /\ Bump(lost, failed) \in [Jobs -> Nat]
      /\ \A j \in Jobs : Bump(lost, failed)[j] = lost[j] + In(j, failed)
  BY BumpType DEF TypeOK
<1>3. ASSUME NEW j \in Jobs
      PROVE  Bump(runs, queue \ failed)[j] + Bump(lost, failed)[j] = Handled(j)
  <2>1. runs[j] \in Nat /\ lost[j] \in Nat
    BY DEF TypeOK
  <2>2. CASE j \in failed
    BY <2>1, <2>2 DEF Handled, In, Forkless, Bump
  <2>3. CASE j \notin failed
    BY <2>1, <2>3 DEF Handled, In, Forkless, Bump
  <2> QED
    BY <2>2, <2>3
<1> QED
  BY <1>1, <1>2, <1>3

\* find_jobs() returns jobs, and among the jobs of a timed entry the one due.
LEMMA FindJobs ==
    ASSUME NEW m \in Minutes, NEW w \in BOOLEAN, NEW f \in BOOLEAN
    PROVE  /\ find_jobs(m, w, f) \in SUBSET Jobs
           /\ \A e \in Timed, n \in Minutes :
                  In(<<e, n>>, find_jobs(m, w, f)) = (IF f /\ n = m /\ m \in Due[e] THEN 1 ELSE 0)
BY DEF find_jobs, In, Jobs, Timed

\* The values wakeupKind takes, and what two of them say about the clocks.
LEMMA Kinds ==
    ASSUME TypeOK
    PROVE  /\ wakeupKind = "normal" => timeRunning = virtualTime + 1
           /\ wakeupKind \in {"small", "medium"} => virtualTime < timeRunning
           /\ wakeupKind = "large" => \/ timeRunning > virtualTime + LargeMin
                                      \/ virtualTime > timeRunning + LargeMin
<1> USE ClockConstants DEF Minutes, TypeOK
<1>1. timeRunning \in Int /\ virtualTime \in Int /\ LargeMin \in Int /\ SmallMax \in Int
  OBVIOUS
<1> QED
  BY <1>1 DEF wakeupKind, timeDiff

-----------------------------------------------------------------------------
(* Types and control.                                                        *)

\* The loop invariant holds before cron is started.
LEMMA LoopInit == Init => LoopInv
<1> SUFFICES ASSUME Init PROVE LoopInv
  OBVIOUS
<1> USE ClockConstants DEF Init
<1>1. wall \in Minutes /\ first \in 0..(Horizon + 1)
  BY DEF Minutes
<1>2. runs \in [Jobs -> Nat] /\ lost \in [Jobs -> Nat]
  BY DEF Zero
<1>3. awake \in BOOLEAN
  BY Zenon
<1>4. jumps \in 0..MaxJumps /\ crashes \in 0..MaxCrashes
  OBVIOUS
<1>5. ControlInv
  BY DEF ControlInv
<1>6. TypeOK
  BY <1>1, <1>2, <1>3, <1>4 DEF TypeOK
<1> QED
  BY <1>5, <1>6 DEF LoopInv

\* Every step of the loop, the clock and the environment keeps it.
LEMMA LoopStep == LoopInv /\ [Next]_vars => LoopInv'
<1> SUFFICES ASSUME LoopInv, [Next]_vars PROVE LoopInv'
  OBVIOUS
<1> USE ClockConstants DEF LoopInv
<1>1. CASE Tick
  BY <1>1 DEF Tick, TypeOK, ControlInv, clocks, history, Minutes
<1>2. ASSUME NEW t \in Minutes, SetClock(t) PROVE LoopInv'
  BY <1>2 DEF SetClock, TypeOK, ControlInv, clocks, history
<1>3. CASE Start
  <2>1. first' \in 0..(Horizon + 1)
    BY <1>3 DEF Start, TypeOK, Minutes, set_time, run_reboot_jobs
  <2>2. runs' \in [Jobs -> Nat] /\ lost' \in [Jobs -> Nat]
    BY <1>3, BumpType DEF Start, TypeOK, Zero, set_time, run_reboot_jobs
  <2> QED
    BY <1>3, <2>1, <2>2 DEF Start, TypeOK, ControlInv, set_time, run_reboot_jobs
<1>4. CASE WakeUp
  BY <1>4 DEF WakeUp, TypeOK, ControlInv, history, set_time
<1>5. CASE Normal
  <2>1. queue = {} /\ lost \in [Jobs -> Nat] /\ timeRunning \in Minutes
    BY <1>5 DEF Normal, TypeOK, ControlInv
  <2>2. queue' \in SUBSET Jobs /\ lost' \in [Jobs -> Nat]
    BY <1>5, <2>1, JobAdd, FindJobs DEF Normal
  <2> QED
    BY <1>5, <2>2 DEF Normal, TypeOK, ControlInv
<1>6. CASE Small
  BY <1>6, Kinds DEF Small, TypeOK, ControlInv, clocks, history
<1>7. CASE SmallStep
  <2>1. virtualTime + 1 \in Minutes
    BY <1>7 DEF SmallStep, TypeOK, ControlInv, Minutes, job_runqueue
  <2>2. PICK failed \in Forkless :
          /\ runs' = Bump(runs, queue \ failed)
          /\ job_add({}, Bump(lost, failed), find_jobs(virtualTime + 1, TRUE, TRUE))
    BY <1>7 DEF SmallStep, job_runqueue
  <2>3. runs' \in [Jobs -> Nat] /\ Bump(lost, failed) \in [Jobs -> Nat]
    BY <2>2, RunAll
  <2>4. queue' \in SUBSET Jobs /\ lost' \in [Jobs -> Nat]
    BY <2>1, <2>2, <2>3, JobAdd, FindJobs
  <2> QED
    BY <1>7, <2>1, <2>3, <2>4 DEF SmallStep, TypeOK, ControlInv, job_runqueue
<1>8. CASE Medium
  <2>1. queue = {} /\ lost \in [Jobs -> Nat] /\ timeRunning \in Minutes
    BY <1>8 DEF Medium, TypeOK, ControlInv
  <2>2. queue' \in SUBSET Jobs /\ lost' \in [Jobs -> Nat]
    BY <1>8, <2>1, JobAdd, FindJobs DEF Medium
  <2> QED
    BY <1>8, <2>2, Kinds DEF Medium, TypeOK, ControlInv, clocks
<1>9. CASE MediumStep
  <2>1. virtualTime + 1 \in Minutes
    BY <1>9 DEF MediumStep, TypeOK, ControlInv, Minutes, job_runqueue, set_time
  <2>2. PICK failed \in Forkless :
          /\ runs' = Bump(runs, queue \ failed)
          /\ job_add({}, Bump(lost, failed), find_jobs(virtualTime + 1, FALSE, TRUE))
    BY <1>9 DEF MediumStep, job_runqueue, set_time
  <2>3. runs' \in [Jobs -> Nat] /\ Bump(lost, failed) \in [Jobs -> Nat]
    BY <2>2, RunAll
  <2>4. queue' \in SUBSET Jobs /\ lost' \in [Jobs -> Nat]
    BY <2>1, <2>2, <2>3, JobAdd, FindJobs
  <2> QED
    BY <1>9, <2>1, <2>3, <2>4 DEF MediumStep, TypeOK, ControlInv, job_runqueue, set_time
<1>10. CASE Negative
  <2>1. queue = {} /\ lost \in [Jobs -> Nat] /\ timeRunning \in Minutes
    BY <1>10 DEF Negative, TypeOK, ControlInv
  <2>2. queue' \in SUBSET Jobs /\ lost' \in [Jobs -> Nat]
    BY <1>10, <2>1, JobAdd, FindJobs DEF Negative
  <2> QED
    BY <1>10, <2>2 DEF Negative, TypeOK, ControlInv, clocks
<1>11. CASE Large
  <2> DEFINE back == timeRunning < virtualTime
             lo == IF back THEN Zero ELSE lost
  <2>1. queue = {} /\ lo \in [Jobs -> Nat] /\ timeRunning \in Minutes
    BY <1>11 DEF Large, TypeOK, ControlInv, Zero
  <2>2. job_add({}, lo, find_jobs(timeRunning, TRUE, TRUE))
    BY <1>11, <2>1 DEF Large
  <2>3. queue' \in SUBSET Jobs /\ lost' \in [Jobs -> Nat]
    <3> HIDE DEF lo
    <3> QED
      BY <2>1, <2>2, JobAdd, FindJobs
  <2> QED
    BY <1>11, <2>3 DEF Large, TypeOK, ControlInv, Zero, Minutes
<1>12. CASE RunQueue
  <2>1. runs' \in [Jobs -> Nat] /\ lost' \in [Jobs -> Nat]
    BY <1>12, RunAll DEF RunQueue, job_runqueue
  <2> QED
    BY <1>12, <2>1 DEF RunQueue, TypeOK, ControlInv, clocks, job_runqueue
<1>13. CASE Crash
  BY <1>13 DEF Crash, TypeOK, ControlInv, clocks, Bump, In
<1>14. CASE UNCHANGED vars
  BY <1>14 DEF vars, TypeOK, ControlInv, clocks, history
<1> QED
  BY <1>1, <1>2, <1>3, <1>4, <1>5, <1>6, <1>7, <1>8, <1>9, <1>10, <1>11,
     <1>12, <1>13, <1>14 DEF Next, Daemon

\* Every variable of the scheduling loop keeps its type, and the queue and the
\* clocks are as main() expects at each point of its loop.
THEOREM LoopCorrect == Spec => []LoopInv
<1>1. Init => LoopInv
  BY LoopInit
<1>2. LoopInv /\ [Next]_vars => LoopInv'
  BY LoopStep
<1> QED
  BY <1>1, <1>2, PTL DEF Spec

\* Type correctness of the scheduling loop.
THEOREM TypeCorrect == Spec => []TypeOK
BY LoopCorrect, PTL DEF LoopInv

-----------------------------------------------------------------------------
(* Accounting: what a step does to the jobs of the timed entries.            *)

\* The counts that survive moving the virtual clock to t.
KeptCount(t, j) == IF t < virtualTime THEN 0 ELSE Handled(j)

\* The four things a step of the specification can be to a timed entry.
KeepStep ==
    /\ pc = "down" => pc' = "down"
    /\ UNCHANGED <<virtualTime, first>>
    /\ \A e \in Timed, n \in Minutes : Handled(<<e, n>>)' = Handled(<<e, n>>)

AdvanceStep ==
    /\ pc # "down" /\ pc' # "down"
    /\ virtualTime < Horizon
    /\ virtualTime' = virtualTime + 1 /\ first' = first
    /\ \A e \in Timed, n \in Minutes :
           Handled(<<e, n>>)' = Handled(<<e, n>>)
                              + (IF n = virtualTime + 1 /\ n \in Due[e] THEN 1 ELSE 0)

ResyncStep ==
    /\ pc # "down" /\ pc' # "down"
    /\ virtualTime' > virtualTime + LargeMin \/ virtualTime > virtualTime' + LargeMin
    /\ first' = virtualTime'
    /\ \A e \in Timed, n \in Minutes :
           Handled(<<e, n>>)' = KeptCount(virtualTime', <<e, n>>)
                              + (IF n = virtualTime' /\ n \in Due[e] THEN 1 ELSE 0)

RestartStep ==
    /\ pc = "down" /\ pc' # "down"
    /\ first' = virtualTime' + 1
    /\ \A e \in Timed, n \in Minutes :
           Handled(<<e, n>>)' = KeptCount(virtualTime', <<e, n>>)

\* The count of a timed entry's job is a number.
LEMMA HandledType ==
    ASSUME TypeOK, NEW e \in Timed, NEW n \in Minutes
    PROVE  /\ <<e, n>> \in Jobs
           /\ Handled(<<e, n>>) \in Nat
BY DEF TypeOK, Handled, In, Timed, Jobs

\* job_add() of what find_jobs() finds for a minute, seen from one job of a
\* timed entry: the job is dealt with if it is due.
LEMMA AddDue ==
    ASSUME NEW lo \in [Jobs -> Nat], NEW m \in Minutes, NEW w \in BOOLEAN,
           job_add({}, lo, find_jobs(m, w, TRUE)),
           NEW e \in Timed, NEW n \in Minutes
    PROVE  /\ lost'[<<e, n>>] \in Nat
           /\ In(<<e, n>>, queue') \in Nat
           /\ lost'[<<e, n>>] + In(<<e, n>>, queue')
                = lo[<<e, n>>] + (IF n = m /\ n \in Due[e] THEN 1 ELSE 0)
<1> DEFINE S == find_jobs(m, w, TRUE)
<1>1. S \in SUBSET Jobs
      /\ In(<<e, n>>, S) = (IF n = m /\ n \in Due[e] THEN 1 ELSE 0)
  BY DEF find_jobs, In, Jobs, Timed
<1>2. job_add({}, lo, S)
  OBVIOUS
<1>3. <<e, n>> \in Jobs
  BY DEF Timed, Jobs
<1> HIDE DEF S
<1>4. /\ lost' \in [Jobs -> Nat]
      /\ lost'[<<e, n>>] + In(<<e, n>>, queue') = lo[<<e, n>>] + In(<<e, n>>, S)
  BY <1>1, <1>2, <1>3, JobAdd
<1> QED
  BY <1>1, <1>3, <1>4 DEF In

\* The same for find_jobs() of the wildcard entries alone: nothing happens to
\* the job of a timed entry.
LEMMA AddWild ==
    ASSUME NEW lo \in [Jobs -> Nat], NEW m \in Minutes,
           job_add({}, lo, find_jobs(m, TRUE, FALSE)),
           NEW e \in Timed, NEW n \in Minutes
    PROVE  /\ lost'[<<e, n>>] \in Nat
           /\ In(<<e, n>>, queue') \in Nat
           /\ lost'[<<e, n>>] + In(<<e, n>>, queue') = lo[<<e, n>>]
<1> DEFINE S == find_jobs(m, TRUE, FALSE)
<1>1. S \in SUBSET Jobs /\ In(<<e, n>>, S) = 0
  BY DEF find_jobs, In, Jobs, Timed
<1>2. job_add({}, lo, S)
  OBVIOUS
<1>3. <<e, n>> \in Jobs
  BY DEF Timed, Jobs
<1> HIDE DEF S
<1>4. /\ lost' \in [Jobs -> Nat]
      /\ lost'[<<e, n>>] + In(<<e, n>>, queue') = lo[<<e, n>>] + In(<<e, n>>, S)
  BY <1>1, <1>2, <1>3, JobAdd
<1> QED
  BY <1>1, <1>3, <1>4 DEF In

\* Every step is one of the four kinds.
LEMMA Accounting ==
    ASSUME LoopInv, LoopInv', [Next]_vars
    PROVE  KeepStep \/ AdvanceStep \/ ResyncStep \/ RestartStep
<1> USE ClockConstants DEF LoopInv
<1>1. CASE /\ pc = "down" => pc' = "down"
           /\ UNCHANGED <<virtualTime, first, queue, runs, lost>>
  BY <1>1 DEF KeepStep, Handled
<1>2. CASE Start
  <2>1. /\ pc = "down" /\ pc' = "wait" /\ virtualTime' = wall
        /\ first' = wall + 1 /\ queue = {} /\ queue' = {}
    BY <1>2 DEF Start, ControlInv, set_time, run_reboot_jobs
  <2>2. ASSUME NEW e \in Timed, NEW n \in Minutes
        PROVE  Handled(<<e, n>>)' = KeptCount(wall, <<e, n>>)
    <3>1. <<e, n>> \in Jobs /\ <<e, n>> \notin Reboot \X {wall}
      BY HandledType DEF Timed
    <3>2. CASE wall < virtualTime
      BY <1>2, <2>1, <3>1, <3>2 DEF Start, Handled, In, Bump, Zero, KeptCount, set_time, run_reboot_jobs
    <3>3. CASE ~(wall < virtualTime)
      <4>1. runs'[<<e, n>>] = runs[<<e, n>>] /\ lost'[<<e, n>>] = lost[<<e, n>>]
        BY <1>2, <3>1, <3>3 DEF Start, In, Bump, TypeOK, set_time, run_reboot_jobs
      <4> QED
        BY <2>1, <3>3, <4>1 DEF Handled, KeptCount
    <3> QED
      BY <3>2, <3>3
  <2> QED
    BY <2>1, <2>2 DEF RestartStep
<1>3. CASE Normal
  <2>1. /\ queue = {} /\ lost \in [Jobs -> Nat] /\ timeRunning \in Minutes
        /\ pc = "dispatch" /\ pc' = "run" /\ first' = first /\ runs' = runs
    BY <1>3 DEF Normal, TypeOK, ControlInv
  <2>2. job_add({}, lost, find_jobs(timeRunning, TRUE, TRUE))
    BY <1>3, <2>1 DEF Normal
  <2>3. ASSUME NEW e \in Timed, NEW n \in Minutes
        PROVE  Handled(<<e, n>>)' = Handled(<<e, n>>)
                   + (IF n = timeRunning /\ n \in Due[e] THEN 1 ELSE 0)
    <3>1. runs[<<e, n>>] \in Nat /\ lost[<<e, n>>] \in Nat
      BY HandledType DEF TypeOK
    <3>2. /\ lost'[<<e, n>>] \in Nat /\ In(<<e, n>>, queue') \in Nat
          /\ lost'[<<e, n>>] + In(<<e, n>>, queue') = lost[<<e, n>>]
              + (IF n = timeRunning /\ n \in Due[e] THEN 1 ELSE 0)
      BY <2>1, <2>2, AddDue
    <3>3. In(<<e, n>>, queue) = 0
      BY <2>1 DEF In
    <3> QED
      BY <2>1, <3>1, <3>2, <3>3 DEF Handled
  <2>4. virtualTime' = timeRunning /\ timeRunning = virtualTime + 1 /\ virtualTime < Horizon
    BY <1>3, Kinds DEF Normal, TypeOK, Minutes
  <2> QED
    BY <2>1, <2>3, <2>4 DEF AdvanceStep
<1>4. CASE SmallStep
  <2>1. /\ virtualTime + 1 \in Minutes /\ virtualTime < Horizon
        /\ pc # "down" /\ pc' # "down"
        /\ virtualTime' = virtualTime + 1 /\ first' = first
    BY <1>4 DEF SmallStep, TypeOK, ControlInv, Minutes, job_runqueue
  <2>2. PICK failed \in Forkless :
          /\ runs' = Bump(runs, queue \ failed)
          /\ job_add({}, Bump(lost, failed), find_jobs(virtualTime + 1, TRUE, TRUE))
    BY <1>4 DEF SmallStep, job_runqueue
  <2>3. ASSUME NEW e \in Timed, NEW n \in Minutes
        PROVE  Handled(<<e, n>>)' = Handled(<<e, n>>)
                   + (IF n = virtualTime + 1 /\ n \in Due[e] THEN 1 ELSE 0)
    <3> DEFINE lo == Bump(lost, failed)
    <3>1. /\ lo \in [Jobs -> Nat] /\ <<e, n>> \in Jobs
          /\ runs'[<<e, n>>] \in Nat /\ lo[<<e, n>>] \in Nat
          /\ runs'[<<e, n>>] + lo[<<e, n>>] = Handled(<<e, n>>)
      BY <2>2, HandledType, RunAll DEF TypeOK
    <3> DEFINE m == virtualTime + 1
    <3>2. m \in Minutes /\ job_add({}, lo, find_jobs(m, TRUE, TRUE))
      BY <2>1, <2>2
    <3> HIDE DEF lo, m
    <3>3. /\ lost'[<<e, n>>] \in Nat /\ In(<<e, n>>, queue') \in Nat
          /\ lost'[<<e, n>>] + In(<<e, n>>, queue') = lo[<<e, n>>]
              + (IF n = m /\ n \in Due[e] THEN 1 ELSE 0)
      BY <3>1, <3>2, AddDue
    <3> QED
      BY <3>1, <3>3 DEF Handled, m
  <2> QED
    BY <2>1, <2>3 DEF AdvanceStep
<1>5. CASE Medium
  <2>1. /\ queue = {} /\ lost \in [Jobs -> Nat] /\ timeRunning \in Minutes
        /\ UNCHANGED <<virtualTime, first, runs>> /\ pc # "down"
    BY <1>5 DEF Medium, TypeOK, ControlInv, clocks
  <2>2. job_add({}, lost, find_jobs(timeRunning, TRUE, FALSE))
    BY <1>5, <2>1 DEF Medium
  <2>3. ASSUME NEW e \in Timed, NEW n \in Minutes
        PROVE  Handled(<<e, n>>)' = Handled(<<e, n>>)
    <3>1. runs[<<e, n>>] \in Nat /\ lost[<<e, n>>] \in Nat
      BY HandledType DEF TypeOK
    <3>2. /\ lost'[<<e, n>>] \in Nat /\ In(<<e, n>>, queue') \in Nat
          /\ lost'[<<e, n>>] + In(<<e, n>>, queue') = lost[<<e, n>>]
      BY <2>1, <2>2, AddWild
    <3>3. In(<<e, n>>, queue) = 0
      BY <2>1 DEF In
    <3> QED
      BY <2>1, <3>1, <3>2, <3>3 DEF Handled
  <2> QED
    BY <2>1, <2>3 DEF KeepStep
<1>6. CASE MediumStep
  <2>1. /\ virtualTime + 1 \in Minutes /\ virtualTime < Horizon
        /\ pc # "down" /\ pc' # "down"
        /\ virtualTime' = virtualTime + 1 /\ first' = first
    BY <1>6 DEF MediumStep, TypeOK, ControlInv, Minutes, job_runqueue, set_time
  <2>2. PICK failed \in Forkless :
          /\ runs' = Bump(runs, queue \ failed)
          /\ job_add({}, Bump(lost, failed), find_jobs(virtualTime + 1, FALSE, TRUE))
    BY <1>6 DEF MediumStep, job_runqueue, set_time
  <2>3. ASSUME NEW e \in Timed, NEW n \in Minutes
        PROVE  Handled(<<e, n>>)' = Handled(<<e, n>>)
                   + (IF n = virtualTime + 1 /\ n \in Due[e] THEN 1 ELSE 0)
    <3> DEFINE lo == Bump(lost, failed)
    <3>1. /\ lo \in [Jobs -> Nat] /\ <<e, n>> \in Jobs
          /\ runs'[<<e, n>>] \in Nat /\ lo[<<e, n>>] \in Nat
          /\ runs'[<<e, n>>] + lo[<<e, n>>] = Handled(<<e, n>>)
      BY <2>2, HandledType, RunAll DEF TypeOK
    <3> DEFINE m == virtualTime + 1
    <3>2. m \in Minutes /\ job_add({}, lo, find_jobs(m, FALSE, TRUE))
      BY <2>1, <2>2
    <3> HIDE DEF lo, m
    <3>3. /\ lost'[<<e, n>>] \in Nat /\ In(<<e, n>>, queue') \in Nat
          /\ lost'[<<e, n>>] + In(<<e, n>>, queue') = lo[<<e, n>>]
              + (IF n = m /\ n \in Due[e] THEN 1 ELSE 0)
      BY <3>1, <3>2, AddDue
    <3> QED
      BY <3>1, <3>3 DEF Handled, m
  <2> QED
    BY <2>1, <2>3 DEF AdvanceStep
<1>7. CASE Negative
  <2>1. /\ queue = {} /\ lost \in [Jobs -> Nat] /\ timeRunning \in Minutes
        /\ UNCHANGED <<virtualTime, first, runs>> /\ pc # "down"
    BY <1>7 DEF Negative, TypeOK, ControlInv, clocks
  <2>2. job_add({}, lost, find_jobs(timeRunning, TRUE, FALSE))
    BY <1>7, <2>1 DEF Negative
  <2>3. ASSUME NEW e \in Timed, NEW n \in Minutes
        PROVE  Handled(<<e, n>>)' = Handled(<<e, n>>)
    <3>1. runs[<<e, n>>] \in Nat /\ lost[<<e, n>>] \in Nat
      BY HandledType DEF TypeOK
    <3>2. /\ lost'[<<e, n>>] \in Nat /\ In(<<e, n>>, queue') \in Nat
          /\ lost'[<<e, n>>] + In(<<e, n>>, queue') = lost[<<e, n>>]
      BY <2>1, <2>2, AddWild
    <3>3. In(<<e, n>>, queue) = 0
      BY <2>1 DEF In
    <3> QED
      BY <2>1, <3>1, <3>2, <3>3 DEF Handled
  <2> QED
    BY <2>1, <2>3 DEF KeepStep
<1>8. CASE Large
  <2> DEFINE back == timeRunning < virtualTime
             lo == IF back THEN Zero ELSE lost
  <2>1. /\ queue = {} /\ lo \in [Jobs -> Nat] /\ timeRunning \in Minutes
        /\ virtualTime' = timeRunning /\ first' = timeRunning
        /\ runs' = (IF back THEN Zero ELSE runs)
        /\ pc # "down" /\ pc' # "down"
        /\ timeRunning > virtualTime + LargeMin \/ virtualTime > timeRunning + LargeMin
    BY <1>8, Kinds DEF Large, TypeOK, ControlInv, Zero
  <2>2. job_add({}, lo, find_jobs(timeRunning, TRUE, TRUE))
    BY <1>8, <2>1 DEF Large
  <2>3. ASSUME NEW e \in Timed, NEW n \in Minutes
        PROVE  Handled(<<e, n>>)' = KeptCount(timeRunning, <<e, n>>)
                   + (IF n = timeRunning /\ n \in Due[e] THEN 1 ELSE 0)
    <3>1. /\ <<e, n>> \in Jobs /\ runs[<<e, n>>] \in Nat /\ lost[<<e, n>>] \in Nat
          /\ In(<<e, n>>, queue) = 0
      BY <2>1, HandledType DEF TypeOK, In
    <3>2. /\ runs'[<<e, n>>] \in Nat /\ lo[<<e, n>>] \in Nat
          /\ runs'[<<e, n>>] + lo[<<e, n>>] = KeptCount(timeRunning, <<e, n>>)
      BY <2>1, <3>1 DEF KeptCount, Handled, Zero
    <3> HIDE DEF lo
    <3>3. /\ lost'[<<e, n>>] \in Nat /\ In(<<e, n>>, queue') \in Nat
          /\ lost'[<<e, n>>] + In(<<e, n>>, queue') = lo[<<e, n>>]
              + (IF n = timeRunning /\ n \in Due[e] THEN 1 ELSE 0)
      BY <2>1, <2>2, AddDue
    <3> QED
      BY <3>2, <3>3 DEF Handled
  <2> QED
    BY <2>1, <2>3 DEF ResyncStep
<1>9. CASE RunQueue
  <2>1. UNCHANGED <<virtualTime, first>> /\ queue' = {} /\ pc # "down"
    BY <1>9 DEF RunQueue, clocks, job_runqueue
  <2>2. ASSUME NEW e \in Timed, NEW n \in Minutes
        PROVE  Handled(<<e, n>>)' = Handled(<<e, n>>)
    <3>1. PICK failed \in Forkless :
              runs' = Bump(runs, queue \ failed) /\ lost' = Bump(lost, failed)
      BY <1>9 DEF RunQueue, job_runqueue
    <3>2. /\ runs'[<<e, n>>] + lost'[<<e, n>>] = Handled(<<e, n>>)
          /\ runs'[<<e, n>>] \in Nat /\ lost'[<<e, n>>] \in Nat
      BY <3>1, HandledType, RunAll DEF TypeOK
    <3> QED
      BY <2>1, <3>2 DEF Handled, In
  <2> QED
    BY <2>1, <2>2 DEF KeepStep
<1>10. CASE Crash
  <2>1. /\ UNCHANGED <<virtualTime, first, runs>> /\ queue' = {} /\ pc' = "down"
        /\ lost' = Bump(lost, queue)
    BY <1>10 DEF Crash, clocks
  <2>2. ASSUME NEW e \in Timed, NEW n \in Minutes
        PROVE  Handled(<<e, n>>)' = Handled(<<e, n>>)
    BY <2>1, HandledType DEF Handled, In, Bump, TypeOK
  <2> QED
    BY <2>1, <2>2 DEF KeepStep
<1> QED
  BY <1>1, <1>2, <1>3, <1>4, <1>5, <1>6, <1>7, <1>8, <1>9, <1>10
     DEF Next, Daemon, Tick, SetClock, WakeUp, Small, vars, clocks, history, set_time

\* A minute further away than a distance is not here.
LEMMA Further == \A a, b \in Int, d \in Nat : a > b + d => a > b
OBVIOUS

\* No minute lies from the one after b to b.
LEMMA NoMinuteBetween == \A b, m \in Int : ~(m \in (b + 1)..b)
OBVIOUS

-----------------------------------------------------------------------------
(* The theorems.                                                             *)

\* Every step keeps FixedJobsOnce, by the four effects of Accounting.
LEMMA OnceStep ==
    ASSUME LoopInv, LoopInv', FixedJobsOnce, [Next]_vars
    PROVE  FixedJobsOnce'
<1> SUFFICES ASSUME NEW e \in Timed, NEW m \in Minutes
             PROVE  /\ Handled(<<e, m>>)' <= 1
                    /\ m > virtualTime' => Handled(<<e, m>>)' = 0
                    /\ m \in first'..virtualTime'
                         => Handled(<<e, m>>)' = (IF m \in Due[e] THEN 1 ELSE 0)
  BY DEF FixedJobsOnce
<1> DEFINE h == Handled(<<e, m>>)
           hp == Handled(<<e, m>>)'
<1>1. /\ h \in Nat
      /\ virtualTime \in Int /\ virtualTime' \in Int /\ m \in Int
      /\ first \in Int /\ first' \in Int
  BY HandledType, ClockConstants DEF LoopInv, TypeOK, Minutes
<1>2. /\ h <= 1
      /\ m > virtualTime => h = 0
      /\ m \in first..virtualTime => h = (IF m \in Due[e] THEN 1 ELSE 0)
  BY DEF FixedJobsOnce
<1>3. CASE KeepStep
  BY <1>2, <1>3 DEF KeepStep
<1>4. CASE AdvanceStep
  <2>1. hp = h + (IF m = virtualTime + 1 /\ m \in Due[e] THEN 1 ELSE 0)
    BY <1>4 DEF AdvanceStep
  <2>2. virtualTime' = virtualTime + 1 /\ first' = first
    BY <1>4 DEF AdvanceStep
  <2> HIDE DEF h, hp
  <2>3. CASE m = virtualTime + 1
    BY <1>1, <1>2, <2>1, <2>2, <2>3 DEF hp
  <2>4. CASE m # virtualTime + 1
    BY <1>1, <1>2, <2>1, <2>2, <2>4 DEF hp
  <2> QED
    BY <2>3, <2>4
<1>5. CASE ResyncStep
  <2>1. hp = (IF virtualTime' < virtualTime THEN 0 ELSE h)
                 + (IF m = virtualTime' /\ m \in Due[e] THEN 1 ELSE 0)
    BY <1>5 DEF ResyncStep, KeptCount
  <2>2. /\ first' = virtualTime'
        /\ virtualTime' > virtualTime + LargeMin \/ virtualTime > virtualTime' + LargeMin
    BY <1>5 DEF ResyncStep
  <2>3. LargeMin \in Nat
    BY ClockConstants
  <2>4. virtualTime' > virtualTime \/ virtualTime > virtualTime'
    BY <1>1, <2>2, <2>3, Further
  <2> HIDE DEF h, hp
  <2> QED
    BY <1>1, <1>2, <2>1, <2>2, <2>4 DEF hp
<1>6. CASE RestartStep
  <2>1. hp = (IF virtualTime' < virtualTime THEN 0 ELSE h)
    BY <1>6 DEF RestartStep, KeptCount
  <2>2. first' = virtualTime' + 1
    BY <1>6 DEF RestartStep
  <2> HIDE DEF h, hp
  <2>3. ~(m \in first'..virtualTime')
    <3>1. m \in Int /\ virtualTime' \in Int
      BY <1>1
    <3> QED
      BY <2>2, <3>1, NoMinuteBetween
  <2>4. CASE virtualTime' < virtualTime
    BY <2>1, <2>3, <2>4 DEF hp
  <2>5. CASE ~(virtualTime' < virtualTime)
    <3>1. hp = h /\ (m > virtualTime' => m > virtualTime)
      BY <1>1, <2>1, <2>5
    <3> QED
      BY <1>2, <2>3, <3>1 DEF hp
  <2> QED
    BY <2>4, <2>5
<1> QED
  BY <1>3, <1>4, <1>5, <1>6, Accounting

\* For every crontab, every pair of thresholds and whatever the clock does:
\* main() runs a fixed-time job at most once unless it moves virtualTime back,
\* and exactly once for each minute virtualTime has passed.
THEOREM FixedJobsOnceCorrect == Spec => []FixedJobsOnce
<1>1. Init => FixedJobsOnce
  <2> SUFFICES ASSUME Init, NEW e \in Timed, NEW m \in Minutes
               PROVE  /\ Handled(<<e, m>>) <= 1
                      /\ m > virtualTime => Handled(<<e, m>>) = 0
                      /\ m \in first..virtualTime
                           => Handled(<<e, m>>) = (IF m \in Due[e] THEN 1 ELSE 0)
    BY DEF FixedJobsOnce
  <2>1. <<e, m>> \in Jobs
    BY DEF Jobs, Timed
  <2>2. Handled(<<e, m>>) = 0
    BY <2>1 DEF Init, Handled, Zero, In
  <2>3. m \notin first..virtualTime
    BY ClockConstants DEF Init, Minutes
  <2> QED
    BY <2>2, <2>3
<1>2. LoopInv /\ LoopInv' /\ FixedJobsOnce /\ [Next]_vars => FixedJobsOnce'
  BY OnceStep
<1> QED
  BY <1>1, <1>2, LoopCorrect, PTL DEF Spec

\* virtualTime moves one minute at a time, except when main() finds the clock
\* more than LargeMin minutes away, or a new daemon starts.
THEOREM VirtualTimeStepsCorrect == Spec => VirtualTimeSteps
<1>1. LoopInv /\ LoopInv' /\ [Next]_vars =>
        [ \/ virtualTime' \in {virtualTime, virtualTime + 1}
          \/ pc = "down"
          \/ virtualTime' > virtualTime + LargeMin
          \/ virtualTime > virtualTime' + LargeMin ]_vars
  BY Accounting DEF KeepStep, AdvanceStep, ResyncStep, RestartStep
<1> QED
  BY <1>1, LoopCorrect, PTL DEF Spec, VirtualTimeSteps

-----------------------------------------------------------------------------
(* Wildcard jobs: served in every case of the switch.                        *)

\* The wildcard jobs due in minute t are queued, run or lost to a failure.
Served(t) == \A e \in Wild : t \in Due[e] => Handled(<<e, t>>) > 0

\* From the moment the switch has dealt with the minute of the wake-up to the
\* next wake-up its wildcard jobs are accounted for; the "woke up late" loop
\* comes to that minute last.
WildInv == pc \in {"run", "medium"} \/ (pc = "wait" /\ awake) => Served(timeRunning)

\* job_add() with doWild serves the minute it is called for.
LEMMA AddServes ==
    ASSUME NEW lo \in [Jobs -> Nat], NEW m \in Minutes, NEW f \in BOOLEAN,
           job_add({}, lo, find_jobs(m, TRUE, f)), runs' \in [Jobs -> Nat],
           NEW e \in Wild, m \in Due[e]
    PROVE  Handled(<<e, m>>)' > 0
<1> DEFINE S == find_jobs(m, TRUE, f)
<1>1. <<e, m>> \in Jobs
  BY ClockConstants DEF Jobs
<1>2. S \in SUBSET Jobs /\ In(<<e, m>>, S) = 1 /\ job_add({}, lo, S)
  BY <1>1 DEF find_jobs, In
<1> HIDE DEF S
<1>3. /\ lost' \in [Jobs -> Nat]
      /\ lost'[<<e, m>>] + In(<<e, m>>, queue') = lo[<<e, m>>] + 1
  BY <1>1, <1>2, JobAdd
<1>4. runs'[<<e, m>>] \in Nat /\ lo[<<e, m>>] \in Nat
  BY <1>1
<1>5. lost'[<<e, m>>] \in Nat /\ In(<<e, m>>, queue') \in Nat
  BY <1>1, <1>3 DEF In
<1> QED
  BY <1>3, <1>4, <1>5 DEF Handled

\* Running the queue and refilling it forgets no job.
LEMMA RunForgetsNothing ==
    ASSUME TypeOK, NEW failed \in Forkless,
           runs' = Bump(runs, queue \ failed),
           NEW S \in SUBSET Jobs, job_add({}, Bump(lost, failed), S),
           NEW j \in Jobs
    PROVE  Handled(j)' >= Handled(j)
<1> DEFINE lo == Bump(lost, failed)
<1>1. /\ lo \in [Jobs -> Nat] /\ runs' \in [Jobs -> Nat]
      /\ runs'[j] + lo[j] = Handled(j)
  BY RunAll
<1> HIDE DEF lo
<1>2. lost' \in [Jobs -> Nat] /\ lost'[j] + In(j, queue') = lo[j] + In(j, S)
  BY <1>1, JobAdd DEF lo
<1>3. In(j, S) \in Nat /\ In(j, queue') \in Nat
  BY DEF In
<1>4. runs'[j] \in Nat /\ lo[j] \in Nat /\ lost'[j] \in Nat
  BY <1>1, <1>2
<1> QED
  BY <1>1, <1>2, <1>3, <1>4 DEF Handled

\* Every step keeps WildInv.
LEMMA WildStep ==
    ASSUME LoopInv, LoopInv', WildInv, [Next]_vars
    PROVE  WildInv'
<1>t. TypeOK /\ TypeOK' /\ ControlInv
  BY DEF LoopInv
<1>k. \A e \in Wild, m \in Minutes : <<e, m>> \in Jobs
  BY ClockConstants DEF Jobs
<1>0. ASSUME Served(timeRunning), timeRunning' = timeRunning,
             \A j \in Jobs : Handled(j)' >= Handled(j)
      PROVE  Served(timeRunning)'
  <2>1. ASSUME NEW e \in Wild, NEW m \in Minutes, Handled(<<e, m>>) > 0
        PROVE  Handled(<<e, m>>)' > 0
    <3>1. <<e, m>> \in Jobs /\ Handled(<<e, m>>)' >= Handled(<<e, m>>)
      BY <1>0, <1>k
    <3>2. Handled(<<e, m>>) \in Nat /\ Handled(<<e, m>>)' \in Nat
      BY <1>t, <3>1 DEF TypeOK, Handled, In
    <3> QED
      BY <2>1, <3>1, <3>2
  <2> QED
    BY <1>0, <1>t, <2>1 DEF Served, TypeOK
<1>1. CASE /\ pc' = pc /\ awake' = awake
           /\ UNCHANGED <<timeRunning, queue, runs, lost>>
  BY <1>1 DEF WildInv, Served, Handled
<1>2. CASE Start \/ Small \/ Crash
  BY <1>2 DEF Start, Small, Crash, WildInv
<1>3. CASE WakeUp
  <2>1. CASE set_time = timeRunning
    BY <1>3, <2>1 DEF WakeUp, history, WildInv, Served, Handled
  <2>2. CASE set_time # timeRunning
    BY <1>3, <2>2 DEF WakeUp, WildInv
  <2> QED
    BY <2>1, <2>2
<1>4. ASSUME NEW lo \in [Jobs -> Nat], NEW f \in BOOLEAN,
             job_add({}, lo, find_jobs(timeRunning, TRUE, f)),
             timeRunning' = timeRunning
      PROVE  Served(timeRunning)'
  BY <1>4, <1>t, AddServes DEF Served, TypeOK
<1>5. CASE Normal
  <2>1. /\ queue = {} /\ lost \in [Jobs -> Nat] /\ timeRunning' = timeRunning
    BY <1>5, <1>t DEF Normal, TypeOK, ControlInv
  <2>2. job_add({}, lost, find_jobs(timeRunning, TRUE, TRUE))
    BY <1>5, <2>1 DEF Normal
  <2> QED
    BY <1>4, <2>1, <2>2 DEF WildInv
<1>6. CASE Medium \/ Negative
  <2>1. /\ queue = {} /\ lost \in [Jobs -> Nat] /\ timeRunning' = timeRunning
    BY <1>6, <1>t DEF Medium, Negative, TypeOK, ControlInv, clocks
  <2>2. job_add({}, lost, find_jobs(timeRunning, TRUE, FALSE))
    BY <1>6, <2>1 DEF Medium, Negative
  <2> QED
    BY <1>4, <2>1, <2>2 DEF WildInv
<1>7. CASE Large
  <2> DEFINE lo == IF timeRunning < virtualTime THEN Zero ELSE lost
  <2>1. queue = {} /\ lo \in [Jobs -> Nat] /\ timeRunning' = timeRunning
    BY <1>7, <1>t DEF Large, TypeOK, ControlInv, Zero
  <2>2. job_add({}, lo, find_jobs(timeRunning, TRUE, TRUE))
    BY <1>7, <2>1 DEF Large
  <2> HIDE DEF lo
  <2> QED
    BY <1>4, <2>1, <2>2 DEF WildInv
<1>8. CASE SmallStep
  <2>1. /\ pc = "small" /\ timeRunning' = timeRunning
        /\ pc' = IF virtualTime + 1 < timeRunning THEN "small" ELSE "run"
    BY <1>8 DEF SmallStep
  <2>2. PICK failed \in Forkless :
            job_add({}, Bump(lost, failed), find_jobs(virtualTime + 1, TRUE, TRUE))
    BY <1>8 DEF SmallStep
  <2>3. CASE virtualTime + 1 < timeRunning
    BY <2>1, <2>3 DEF WildInv
  <2>4. CASE ~(virtualTime + 1 < timeRunning)
    <3>1. virtualTime \in Int /\ timeRunning \in Int /\ virtualTime < timeRunning
      BY <1>t, <2>1, ClockConstants DEF TypeOK, ControlInv, Minutes
    <3>2. virtualTime + 1 = timeRunning
      BY <2>4, <3>1
    <3>3. Bump(lost, failed) \in [Jobs -> Nat]
      BY <1>t, RunAll
    <3> QED
      BY <1>4, <2>1, <2>2, <3>2, <3>3 DEF WildInv
  <2> QED
    BY <2>3, <2>4
<1>9. CASE MediumStep
  <2>0. pc = "medium" /\ timeRunning' = timeRunning
    BY <1>9 DEF MediumStep
  <2>1. virtualTime + 1 \in Minutes
    BY <2>0, <1>t, ClockConstants DEF TypeOK, ControlInv, Minutes
  <2>2. PICK failed \in Forkless :
            /\ runs' = Bump(runs, queue \ failed)
            /\ job_add({}, Bump(lost, failed), find_jobs(virtualTime + 1, FALSE, TRUE))
    BY <1>9 DEF MediumStep, job_runqueue
  <2>3. find_jobs(virtualTime + 1, FALSE, TRUE) \in SUBSET Jobs
    BY <2>1, FindJobs
  <2>4. \A j \in Jobs : Handled(j)' >= Handled(j)
    BY <1>t, <2>2, <2>3, RunForgetsNothing
  <2> QED
    BY <1>0, <2>0, <2>4 DEF WildInv
<1>10. CASE RunQueue
  <2>1. pc = "run" /\ timeRunning' = timeRunning /\ queue' = {}
    BY <1>10 DEF RunQueue, clocks
  <2>2. PICK failed \in Forkless :
            runs' = Bump(runs, queue \ failed) /\ lost' = Bump(lost, failed)
    BY <1>10 DEF RunQueue, job_runqueue
  <2>3. ASSUME NEW j \in Jobs
        PROVE  Handled(j)' >= Handled(j)
    <3>1. runs'[j] + lost'[j] = Handled(j)
      BY <1>t, <2>2, RunAll
    <3>2. runs'[j] \in Nat /\ lost'[j] \in Nat /\ In(j, queue') = 0
      BY <1>t, <2>1 DEF TypeOK, In
    <3> QED
      BY <3>1, <3>2 DEF Handled
  <2> QED
    BY <1>0, <2>1, <2>3 DEF WildInv
<1> QED
  BY <1>1, <1>2, <1>3, <1>5, <1>6, <1>7, <1>8, <1>9, <1>10
  DEF Next, Daemon, Tick, SetClock, vars, clocks, history

\* Whatever the clock did, the wildcard jobs due in the minute cron woke up in
\* have been dealt with when it goes back to sleep, for every crontab and every
\* pair of thresholds.
THEOREM WildcardJobsServedCorrect == Spec => []WildcardJobsServed
<1>1. Init => WildInv
  BY DEF Init, WildInv
<1>2. LoopInv /\ LoopInv' /\ WildInv /\ [Next]_vars => WildInv'
  BY WildStep
<1>3. WildInv => WildcardJobsServed
  BY DEF WildInv, Served, WildcardJobsServed
<1> QED
  BY <1>1, <1>2, <1>3, LoopCorrect, PTL DEF Spec

-----------------------------------------------------------------------------
(* The refinement.                                                           *)

\* What CronPromise calls handled, and the shape of its steps.
TimedHandled == [j \in Timed \X Minutes |-> Handled(j)]

\* Every step of the loop is a step of CronPromise, or a stutter.
LEMMA PromiseStep ==
    ASSUME LoopInv, LoopInv', [Next]_vars
    PROVE  [Promise!Next]_<<virtualTime, TimedHandled, pc # "down">>
<1> DEFINE up == pc # "down"
           key == Timed \X Minutes
<1>1. CASE KeepStep
  <2>1. TimedHandled' = TimedHandled
    <3>1. ASSUME NEW j \in key PROVE Handled(j)' = Handled(j)
      <4>1. PICK e \in Timed, n \in Minutes : j = <<e, n>>
        OBVIOUS
      <4> QED
        BY <1>1, <4>1 DEF KeepStep
    <3> QED
      BY <3>1 DEF TimedHandled
  <2>2. virtualTime' = virtualTime
    BY <1>1 DEF KeepStep
  <2>3. CASE up' = up
    BY <2>1, <2>2, <2>3
  <2>4. CASE up /\ ~up'
    BY <2>1, <2>2, <2>4 DEF Promise!Next, Promise!Die, TimedHandled
  <2> QED
    BY <1>1, <2>3, <2>4 DEF KeepStep
<1>2. CASE AdvanceStep
  <2>1. TimedHandled' = Promise!Deal(TimedHandled, virtualTime + 1)
    <3>1. ASSUME NEW j \in key
          PROVE  Handled(j)' = TimedHandled[j]
                   + (IF j[2] = virtualTime + 1 /\ virtualTime + 1 \in Due[j[1]] THEN 1 ELSE 0)
      <4>1. PICK e \in Timed, n \in Minutes : j = <<e, n>>
        OBVIOUS
      <4> QED
        BY <1>2, <4>1 DEF AdvanceStep, TimedHandled
    <3> QED
      BY <3>1 DEF TimedHandled, Promise!Deal, Promise!Key, Minutes
  <2> QED
    BY <1>2, <2>1 DEF AdvanceStep, Promise!Next, Promise!Advance, TimedHandled
<1>3. CASE ResyncStep
  <2> DEFINE t == virtualTime'
  <2>1. TimedHandled' = Promise!Deal(Promise!Kept(t), t)
    <3>1. ASSUME NEW j \in key
          PROVE  Handled(j)' = Promise!Kept(t)[j]
                   + (IF j[2] = t /\ t \in Due[j[1]] THEN 1 ELSE 0)
      <4>1. PICK e \in Timed, n \in Minutes : j = <<e, n>>
        OBVIOUS
      <4>2. Promise!Kept(t)[j] = KeptCount(t, <<e, n>>)
        BY <4>1 DEF Promise!Kept, Promise!Key, KeptCount, Minutes
      <4> QED
        BY <1>3, <4>1, <4>2 DEF ResyncStep
    <3> QED
      BY <3>1 DEF TimedHandled, Promise!Deal, Promise!Key, Minutes
  <2>2. t \in 0..Horizon
    BY DEF LoopInv, TypeOK, Minutes
  <2> QED
    BY <1>3, <2>1, <2>2 DEF ResyncStep, Promise!Next, Promise!Resync, TimedHandled
<1>4. CASE RestartStep
  <2> DEFINE t == virtualTime'
  <2>1. TimedHandled' = Promise!Kept(t)
    <3>1. ASSUME NEW j \in key
          PROVE  Handled(j)' = KeptCount(t, j)
      <4>1. PICK e \in Timed, n \in Minutes : j = <<e, n>>
        OBVIOUS
      <4> QED
        BY <1>4, <4>1 DEF RestartStep
    <3> QED
      BY <3>1 DEF TimedHandled, Promise!Kept, Promise!Key, KeptCount, Minutes
  <2>2. t \in 0..Horizon
    BY DEF LoopInv, TypeOK, Minutes
  <2> QED
    BY <1>4, <2>1, <2>2 DEF RestartStep, Promise!Next, Promise!Restart, TimedHandled
<1> QED
  BY <1>1, <1>2, <1>3, <1>4, Accounting

\* The scheduling loop implements CronPromise: a clock that visits the minutes
\* in order and deals with the jobs of the minute it enters.
THEOREM ImplementsPromiseCorrect == Spec => ImplementsPromise
<1>1. Init => Promise!Init
  <2> SUFFICES ASSUME Init PROVE Promise!Init
    OBVIOUS
  <2>1. ASSUME NEW j \in Timed \X Minutes PROVE Handled(j) = 0
    BY DEF Init, Handled, Zero, In, Jobs, Timed
  <2> QED
    BY <2>1, ClockConstants DEF Init, Promise!Init, Promise!Key, Minutes
<1>2. LoopInv /\ LoopInv' /\ [Next]_vars
        => [Promise!Next]_<<virtualTime, TimedHandled, pc # "down">>
  BY PromiseStep
<1> QED
  BY <1>1, <1>2, LoopCorrect, PTL DEF Spec, ImplementsPromise, Promise!Spec, TimedHandled

-----------------------------------------------------------------------------
(* The two scales of time (MCCronTime).                                      *)

SP == INSTANCE CronSleepProofs WITH Horizon <- Seconds, timeRunning <- minute, pc <- spc

\* What is assumed of the constants of the wait.
LEMMA SleepConstants == SP!CronSleepConstants
    BY TimeConstants DEF Sleep!CronSleepConstants, SP!CronSleepConstants

\* The wait as MCCronTime has it is the one that is proved about.
LEMMA SameSleep ==
    /\ Sleep!Init => SP!Init
    /\ [Sleep!Next]_(Sleep!vars) => [SP!Next]_(SP!vars)
<1> USE DEF Sleep!clock, SP!clock, Sleep!jobs, SP!jobs, Sleep!signals, SP!signals,
            Sleep!sleeper, SP!sleeper
<1>1. Sleep!Init => SP!Init
    BY DEF Sleep!Init, SP!Init, Sleep!Minute, SP!Minute
<1>2. /\ Sleep!Tick => SP!Tick
      /\ \A t \in 0..Seconds : Sleep!SetClock(t) => SP!SetClock(t)
    BY DEF Sleep!Tick, SP!Tick, Sleep!SetClock, SP!SetClock
<1>3. /\ Sleep!sighup_handler => SP!sighup_handler
      /\ Sleep!sigchld_handler => SP!sigchld_handler
    BY DEF Sleep!sighup_handler, SP!sighup_handler, Sleep!sigchld_handler, SP!sigchld_handler,
       Sleep!Interrupt, SP!Interrupt
<1>4. /\ (Sleep!Call => SP!Call) /\ (Sleep!Test => SP!Test) /\ (Sleep!Enter => SP!Enter)
      /\ (Sleep!Wake => SP!Wake)
    BY DEF Sleep!Call, SP!Call, Sleep!Test, SP!Test, Sleep!Enter, SP!Enter, Sleep!Wake, SP!Wake,
       Sleep!Target, SP!Target, Sleep!ToSleep, SP!ToSleep
<1>5. /\ (Sleep!ServeHup => SP!ServeHup) /\ (Sleep!ServeChld => SP!ServeChld)
      /\ (Sleep!Reap => SP!Reap)
    BY DEF Sleep!ServeHup, SP!ServeHup, Sleep!ServeChld, SP!ServeChld, Sleep!Reap, SP!Reap,
       Sleep!Served, SP!Served
<1>6. /\ (Sleep!Rest => SP!Rest) /\ (Sleep!set_time => SP!set_time) /\ (Sleep!Work => SP!Work)
    BY DEF Sleep!Rest, SP!Rest, Sleep!set_time, SP!set_time, Sleep!Work, SP!Work,
       Sleep!Minute, SP!Minute
<1>7. UNCHANGED Sleep!vars => UNCHANGED SP!vars
    BY DEF Sleep!vars, SP!vars
<1> QED
    BY <1>1, <1>2, <1>3, <1>4, <1>5, <1>6, <1>7
    DEF Sleep!Next, SP!Next, Sleep!Daemon, SP!Daemon

\* The step of one scale is a stuttering step of the other.
LEMMA OneScale == [AllNext]_all => [Next]_vars /\ [SP!Next]_(SP!vars)
<1>1. UNCHANGED ofSleep => UNCHANGED Sleep!vars
    BY DEF ofSleep, Sleep!vars, Sleep!clock, Sleep!jobs, Sleep!signals, Sleep!sleeper
<1>2. [AllNext]_all => [Next]_vars /\ [Sleep!Next]_(Sleep!vars)
    BY <1>1 DEF AllNext, OfClock, OfSleep, all
<1> QED
    BY <1>2, SameSleep

\* Whichever scale is looked at, main() behaves as CronClock says in minutes, and
\* as CronSleep says in seconds.
THEOREM EachScaleImplemented == AllSpec => Spec /\ SP!Spec
<1>1. AllInit => Init /\ SP!Init
    BY SameSleep DEF AllInit
<1> QED
    BY <1>1, OneScale, PTL DEF AllSpec, Spec, SP!Spec

\* The variables of cron_sleep() and of the loop around it keep their types: no
\* sleep() is asked for more than the limit.
THEOREM AllSleepTypes == AllSpec => []SleepTypeOK
<1>1. SP!Spec => []SP!TypeOK
    BY SleepConstants, SP!SleepTypeCorrect
<1>2. SP!TypeOK => SleepTypeOK
    BY DEF SleepTypeOK, Sleep!TypeOK, SP!TypeOK, Sleep!Minute, SP!Minute
<1> QED
    BY EachScaleImplemented, <1>1, <1>2, PTL

\* sigchld_reaper() is sure to come while a dead job has not been waited for.
THEOREM AllZombiesNoted == AllSpec => []NoZombieForgotten
<1>1. SP!Spec => []SP!NoZombieForgotten
    BY SleepConstants, SP!NoZombieForgottenCorrect
<1>2. SP!NoZombieForgotten => NoZombieForgotten
    BY DEF NoZombieForgotten, Sleep!NoZombieForgotten, SP!NoZombieForgotten
<1> QED
    BY EachScaleImplemented, <1>1, <1>2, PTL

\* The loop around cron_sleep() does not spin, whatever the clock does.
THEOREM AllNoBusyWait == AllSpec => []NoBusyWait
<1>1. SP!Spec => []SP!NoBusyWait
    BY SleepConstants, SP!NoBusyWaitCorrect
<1>2. SP!NoBusyWait => NoBusyWait
    BY DEF NoBusyWait, Sleep!NoBusyWait, SP!NoBusyWait, Sleep!Minute, SP!Minute
<1> QED
    BY EachScaleImplemented, <1>1, <1>2, PTL

\* cron_sleep() wakes main() in the first second of the minute if nobody sets the
\* clock, however often a signal cuts sleep() short.
THEOREM AllWakesOnTime == AllSpec => []WakesOnTime
<1>1. SP!Spec => []SP!WakesOnTime
    BY SleepConstants, SP!WakesOnTimeCorrect
<1>2. SP!WakesOnTime => WakesOnTime
    BY DEF WakesOnTime, Sleep!WakesOnTime, SP!WakesOnTime, Sleep!Target, SP!Target
<1> QED
    BY EachScaleImplemented, <1>1, <1>2, PTL
=============================================================================
