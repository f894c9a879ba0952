-------------------------- MODULE CommandsProofs --------------------------
(***************************************************************************)
(* Theorems about daemon(8), and about MCCommands, the specification of the *)
(* three programs whose invariants TLC checks.                              *)
(*                                                                          *)
(* The first part is about InitDaemon, for every set of paths, every delay  *)
(* and any number of starts, signals and other files.  The invariant has a  *)
(* part for each thing that can go wrong: the processes forked (Family),    *)
(* the path (Arriving), SIGTERM (Stopping), the flag `killed' (Signalled)   *)
(* and the pid file (File).  Each part is inductive with TypeOK alone, and  *)
(* TypeOK with Family (command.pid is a process that was started) and       *)
(* Arriving (the level is one of the path).                                 *)
(*                                                                          *)
(* The second part is about child_process(), the instance J of MCCommands.  *)
(* The invariant says what M's count is at each point (Counted), that it is *)
(* never below the number of children still to be waited for (Awaited), and *)
(* where the output is (Conserved).  What the other processes do leaves all *)
(* three alone (Bystanders), so only M's own steps need an argument.        *)
(*                                                                          *)
(* The third part carries these theorems, and those of TimeoutProofs, over  *)
(* to MCCommands.  A step of AllNext is a step of one program and leaves    *)
(* the variables of the others alone, so AllSpec implements the             *)
(* specification of each.  The instance T of MCCommands is of the module    *)
(* without the proofs; TP is the same with them.                            *)
(***************************************************************************)
EXTENDS MCCommands, FiniteSetTheorems, SequenceTheorems, TLAPS

\* The processes are numbered without a gap; only the last may be alive, and
\* only until wait() has returned it.
Family ==
    /\ Latest \in 0..MaxStarts /\ Started = 1..Latest
    /\ Alive \subseteq {Latest}
    /\ pc \notin {"assign", "wait", "killed"} => Alive = {}
    /\ pc \in {"assign", "wait"} => Latest > 0
    /\ pc = "wait" => pid = Latest

\* What inotify may report.
EventNames == Names \cup {"other", "ignored"}

\* Of the events ev those with a name of the path are for one of the first m.
Known(ev, m) == \A i \in 1..Len(ev) : \A k \in 1..Depth : ev[i] = opt.w[k] => k <= m

\* Where await() is, and that an event with a name of the path stands for a name
\* that is there.
Arriving ==
    /\ pc = "descend" => level \in 0..(Depth - 1)
    /\ pc \in {"watch", "look", "read"} => level \in 1..Depth
    /\ pc = "write" => level = Depth - 1
    /\ pc \in {"open", "background", "logger"} => level = Depth - 1
    /\ NamesDiffer =>
          /\ Known(events, made)
          /\ pc \in Loop \cup {"run", "replaced"} => made = Depth

\* A command is started after SIGTERM only if the test came before it.
Stopping ==
    /\ told => ~restart
    /\ late > 0 => /\ late = 1 /\ told
                   /\ pc \in {"assign", "wait", "check", "exited", "killed"}

\* `killed' is not left over from an earlier command.
Signalled == pc \in {"fork", "assign", "wait", "check"} /\ killed => ~quiet

File ==
    opt.p /\ ~broken =>
        /\ pc \in {"background", "logger", "write"} => pidfile = "empty"
        /\ pc \in Loop \cup {"descend", "watch", "look", "read", "run"} => pidfile = "pid"

-----------------------------------------------------------------------------
(* Types.                                                                    *)

\* handler() and the options keep the types; the rest is by cases on the action.
LEMMA TypeStep == TypeOK /\ Arriving /\ Family /\ [Next]_vars => TypeOK'
<1> SUFFICES ASSUME TypeOK, Arriving, Family, [Next]_vars PROVE TypeOK'
    OBVIOUS
<1>w. /\ opt.w \in Seq(Names) /\ Depth = Len(opt.w) /\ Depth \in Nat
      /\ made \in 0..Depth /\ level \in -1..Depth /\ watch \in 0..Depth
      /\ events \in Seq(EventNames) /\ noise \in Nat
    BY InitDaemonConstants DEF TypeOK, Depth, EventNames
<1>c. MaxStarts \in Nat /\ Grace \in Nat /\ MaxSignals \in Nat
    BY InitDaemonConstants
<1>l. /\ pc = "descend" => level \in 0..(Depth - 1)
      /\ pc \in {"watch", "look", "read"} => level \in 1..Depth
    BY DEF Arriving
<1>d. ASSUME UNCHANGED opt PROVE Depth' = Depth
    BY <1>d DEF Depth
<1>1. CASE pidfile_open \/ Background \/ logger_start \/ pidfile_write \/ StartFails
    BY <1>1, <1>w DEF TypeOK, pidfile_open, Background, logger_start, pidfile_write, StartFails,
       pidfile_close, Loop, Gone, waiting, command, history, Depth
<1>2. CASE Descend \/ Watch \/ Look \/ Read
    <2>1. level' \in -1..Depth /\ watch' \in 0..Depth
          /\ pc' \in {"descend", "watch", "look", "read", "run"}
        <3>1. CASE Descend
            BY <1>w, <1>l, <3>1 DEF Descend
        <3>2. CASE Watch
            BY <1>w, <1>l, <3>2 DEF Watch
        <3>3. CASE Look
            BY <1>w, <1>l, <3>3 DEF Look, Leave
        <3>4. CASE Read
            BY <1>w, <1>l, <3>4 DEF Read, Leave
        <3> QED
            BY <1>2, <3>1, <3>2, <3>3, <3>4
    <2>2. events' \in Seq(EventNames)
        <3>1. events' \in {events, <<>>, Append(events, "ignored"), Append(<<>>, "ignored")}
            BY <1>2 DEF Descend, Watch, Look, Read, Leave
        <3>2. "ignored" \in EventNames /\ <<>> \in Seq(EventNames)
            BY DEF EventNames
        <3>3. /\ Append(events, "ignored") \in Seq(EventNames)
              /\ Append(<<>>, "ignored") \in Seq(EventNames)
            BY <1>w, <3>2, AppendProperties, Zenon
        <3> QED
            BY <1>w, <3>1, <3>2, <3>3, Zenon
    <2>3. UNCHANGED <<opt, pidfile, made, noise, logger, command, kids, age, sent, history>>
        BY <1>2 DEF Descend, Watch, Look, Read
    <2> QED
        BY <1>d, <2>1, <2>2, <2>3 DEF TypeOK, command, history, EventNames
<1>4. CASE Appears
    <2>1. made' \in 0..Depth /\ noise' \in Nat /\ events' \in Seq(EventNames)
        <3>1. CASE made < Depth /\ made' = made + 1 /\ UNCHANGED noise
                   /\ events' = IF watch = made + 1 THEN Append(events, opt.w[made + 1]) ELSE events
            <4>1. made + 1 \in 1..Len(opt.w)
                BY <1>w, <3>1
            <4>2. opt.w[made + 1] \in EventNames
                BY <1>w, <4>1 DEF EventNames
            <4> QED
                BY <1>w, <3>1, <4>1, <4>2
        <3>2. CASE noise' = noise + 1 /\ events' = Append(events, "other") /\ UNCHANGED made
            BY <1>w, <3>2 DEF EventNames
        <3> QED
            BY <1>4, <3>1, <3>2 DEF Appears
    <2>2. UNCHANGED <<opt, pc, pidfile, level, watch, logger, command, kids, age, sent, history>>
        BY <1>4 DEF Appears
    <2> QED
        BY <1>d, <2>1, <2>2 DEF TypeOK, command, history, EventNames
<1>5. CASE Run \/ Clear \/ ForkFails \/ ForkExits \/ Check
    <2>1. pc' \in Loop \cup Gone /\ pidfile' \in {"none", "empty", "pid"}
        BY <1>c, <1>5 DEF TypeOK, Run, Clear, ForkFails, ForkExits, Check, pidfile_close, Loop, Gone
    <2>2. pid' \in {pid, -1} /\ killed' \in {killed, FALSE} /\ quiet' \in {quiet, TRUE}
        BY <1>5, Zenon DEF Run, Clear, ForkFails, ForkExits, Check, command, history
    <2>4. pid' \in -1..MaxStarts
        BY <1>c, <2>2 DEF TypeOK
    <2>5. killed' \in BOOLEAN /\ quiet' \in BOOLEAN
        BY <2>2, Zenon DEF TypeOK
    <2>3. UNCHANGED <<opt, waiting, logger, restart, kids, age, sent, told, late, termed, broken>>
        BY <1>5 DEF Run, Clear, ForkFails, ForkExits, Check, command, history
    <2> QED
        BY <1>d, <2>1, <2>3, <2>4, <2>5 DEF TypeOK, waiting
<1>6. CASE Fork
    BY <1>c, <1>6, <1>d DEF TypeOK, Fork, Family, Loop, Gone, waiting, command
<1>7. CASE Assign
    BY <1>c, <1>7, <1>d DEF TypeOK, Assign, Family, Loop, Gone, waiting, history
<1>8. CASE Wait
    BY <1>c, <1>8, <1>d DEF TypeOK, Wait, Family, Loop, Gone, waiting, command, history
<1>9. CASE Hangup \/ Terminate
    <2>1. PICK sig \in {"HUP", "TERM"} : handler(sig)
        BY <1>9 DEF Hangup, Terminate
    <2>2. kids' \in [1..MaxStarts -> {"none", "forked", "running", "zombie", "reaped"}]
        BY <1>c, <2>1 DEF TypeOK, handler
    <2>3. sent' \in 0..MaxSignals
        BY <1>c, <2>1 DEF TypeOK, handler
    <2>4. /\ quiet' \in BOOLEAN /\ told' \in BOOLEAN /\ termed' \in BOOLEAN
          /\ restart' \in BOOLEAN /\ killed' \in BOOLEAN
        BY <2>1, Zenon DEF handler
    <2>5. UNCHANGED <<opt, pc, pidfile, waiting, logger, pid, age, late, broken>>
        BY <2>1 DEF handler
    <2> QED
        BY <1>d, <2>2, <2>3, <2>4, <2>5 DEF TypeOK, waiting
<1>10. CASE Killed \/ LoggerExec \/ LoggerDies \/ Tick
    <2>1. /\ pc' \in {pc, "killed"} /\ logger' \in {logger, "alive", "zombie"}
          /\ age' \in 0..Grace /\ sent' \in 0..MaxSignals
        BY <1>c, <1>10 DEF TypeOK, Killed, LoggerExec, LoggerDies, Tick
    <2>2. UNCHANGED <<opt, pidfile, waiting, command, kids, history>>
        BY <1>10 DEF Killed, LoggerExec, LoggerDies, Tick
    <2> QED
        BY <1>d, <2>1, <2>2 DEF TypeOK, waiting, command, history, Gone
<1>11. CASE Exec \/ ExecFails \/ CommandDies \/ LoggerFails
    BY <1>11, <1>d DEF TypeOK, Exec, ExecFails, CommandDies, LoggerFails, pidfile_close, Started,
       waiting, command, history
<1>12. CASE UNCHANGED vars
    BY <1>12 DEF TypeOK, vars, waiting, command, history, Depth
<1> QED
    BY <1>1, <1>2, <1>4, <1>5, <1>6, <1>7, <1>8, <1>9, <1>10, <1>11, <1>12 DEF Next, Daemon

-----------------------------------------------------------------------------
(* The processes.                                                            *)

\* Processes that change their state, but do not come into being or to life,
\* disturb nothing.
LEMMA FamilyShrinks ==
    ASSUME \A n \in 1..MaxStarts :
              /\ kids[n] = "none" <=> kids'[n] = "none"
              /\ kids'[n] \in {"forked", "running"} => kids[n] \in {"forked", "running"}
    PROVE  Latest' = Latest /\ Started' = Started /\ Alive' \subseteq Alive
<1>1. Started' = Started
    BY DEF Started
<1>2. Latest' = Latest
    BY <1>1 DEF Latest
<1>3. Alive' \subseteq Alive
    BY DEF Alive
<1> QED
    BY <1>1, <1>2, <1>3

\* fork() makes the next process only when none is alive, and a signal or wait()
\* makes none.
LEMMA FamilyStep == TypeOK /\ Family /\ [Next]_vars => Family'
<1> SUFFICES ASSUME TypeOK, Family, [Next]_vars PROVE Family'
    OBVIOUS
<1> USE InitDaemonConstants
<1>a. ASSUME UNCHANGED kids PROVE Latest' = Latest /\ Started' = Started /\ Alive' = Alive
    BY <1>a DEF Latest, Started, Alive
<1>1. CASE \/ pidfile_open \/ Background \/ logger_start \/ pidfile_write \/ StartFails
           \/ Descend \/ Watch \/ Look \/ Read \/ Appears \/ Run \/ Clear \/ ForkFails
           \/ ForkExits \/ Check \/ Killed \/ LoggerExec \/ LoggerFails \/ LoggerDies \/ Tick
    <2>1. UNCHANGED kids
        BY <1>1 DEF pidfile_open, Background, logger_start, pidfile_write, StartFails, Descend, Watch,
           Look, Read, Appears, Run, Clear, ForkFails, ForkExits, Check, Killed, LoggerExec, LoggerFails,
           LoggerDies, Tick
    <2>2. /\ pc' \in {"assign", "wait"} => pc' = pc /\ pid' = pid
          /\ pc' # "killed" => pc' \in {"assign", "wait"} \/ pc \notin {"assign", "wait", "killed"}
        BY <1>1 DEF TypeOK, pidfile_open, Background, logger_start, pidfile_write, StartFails, Descend,
           Watch, Look, Read, Leave, Appears, Run, Clear, ForkFails, ForkExits, Check, Killed,
           LoggerExec, LoggerFails, LoggerDies, Tick, command, Loop, Gone
    <2> QED
        BY <1>a, <2>1, <2>2 DEF Family
<1>2. CASE Fork
    <2>1. Latest + 1 \in 1..MaxStarts /\ Alive = {}
        BY <1>2 DEF Family, Fork
    <2>2. Started' = 1..(Latest + 1)
        <3>1. \A n \in 1..MaxStarts : kids[n] # "none" <=> n \in 1..Latest
            BY DEF Family, Started
        <3>2. \A n \in 1..MaxStarts : kids'[n] # "none" <=> n \in 1..Latest \/ n = Latest + 1
            BY <1>2, <2>1, <3>1 DEF Fork, TypeOK
        <3>3. Latest \in 0..MaxStarts
            BY DEF Family
        <3> QED
            BY <2>1, <3>2, <3>3 DEF Started
    <2>3. Latest' = Latest + 1
        <3>1. Cardinality(1..(Latest + 1)) = Latest + 1
            BY <2>1, FS_Interval DEF Family
        <3> QED
            BY <2>2, <3>1 DEF Latest
    <2>4. Alive' \subseteq {Latest + 1}
        BY <1>2, <2>1 DEF Fork, Alive, TypeOK
    <2> QED
        BY <1>2, <2>1, <2>2, <2>3, <2>4 DEF Fork, Family
<1>3. CASE Assign
    BY <1>3, <1>a DEF Assign, Family
<1>4. CASE Wait
    <2>1. CASE logger = "zombie" /\ UNCHANGED <<pc, kids>>
        BY <1>4, <2>1, <1>a DEF Wait, Family, command
    <2>2. CASE kids[pid] = "zombie" /\ kids' = [kids EXCEPT ![pid] = "reaped"] /\ pc' = "check"
        <3>1. pid \in 1..MaxStarts
            BY <1>4 DEF Family, Wait
        <3>2. \A n \in 1..MaxStarts :
                 /\ kids[n] = "none" <=> kids'[n] = "none"
                 /\ kids'[n] \in {"forked", "running"} => kids[n] \in {"forked", "running"}
            BY <2>2, <3>1 DEF TypeOK
        <3>3. Alive = {}
            BY <1>4, <2>2 DEF Wait, Family, Alive
        <3>4. Latest' = Latest /\ Started' = Started /\ Alive' \subseteq Alive
            BY <3>2, FamilyShrinks
        <3> QED
            BY <2>2, <3>3, <3>4 DEF Family
    <2> QED
        BY <1>4, <2>1, <2>2 DEF Wait
<1>5. CASE Hangup \/ Terminate
    <2>1. PICK sig \in {"HUP", "TERM"} : handler(sig)
        BY <1>5 DEF Hangup, Terminate
    <2>2. Latest' = Latest /\ Started' = Started /\ Alive' \subseteq Alive
        <3>1. CASE Hit(sig)
            <4>1. pid \in 1..MaxStarts /\ kids[pid] = "running"
                BY <3>1 DEF Hit, TypeOK
            <4>2. kids' = [kids EXCEPT ![pid] = "zombie"]
                BY <2>1, <3>1 DEF handler
            <4>3. \A n \in 1..MaxStarts :
                     /\ kids[n] = "none" <=> kids'[n] = "none"
                     /\ kids'[n] \in {"forked", "running"} => kids[n] \in {"forked", "running"}
                BY <4>1, <4>2 DEF TypeOK
            <4> QED
                BY <4>3, FamilyShrinks
        <3>2. CASE ~Hit(sig)
            BY <2>1, <3>2, <1>a DEF handler
        <3> QED
            BY <3>1, <3>2
    <2> QED
        BY <2>1, <2>2 DEF handler, Family
<1>6. CASE Exec \/ ExecFails \/ CommandDies
    <2>1. PICK n \in Started, s \in {"running", "zombie"} :
              kids[n] \in {"forked", "running"} /\ kids' = [kids EXCEPT ![n] = s]
        BY <1>6 DEF Exec, ExecFails, CommandDies
    <2>2. Latest' = Latest /\ Started' = Started /\ Alive' \subseteq Alive
        <3>1. n \in 1..MaxStarts
            BY <2>1 DEF Started
        <3>2. \A m \in 1..MaxStarts :
                 /\ kids[m] = "none" <=> kids'[m] = "none"
                 /\ kids'[m] \in {"forked", "running"} => kids[m] \in {"forked", "running"}
            BY <2>1, <3>1 DEF TypeOK
        <3> QED
            BY <3>2, FamilyShrinks
    <2>3. UNCHANGED <<pc, pid>>
        BY <1>6 DEF Exec, ExecFails, CommandDies, command
    <2> QED
        BY <2>2, <2>3 DEF Family
<1>7. CASE UNCHANGED vars
    BY <1>7, <1>a DEF vars, command, Family
<1> QED
    BY <1>1, <1>2, <1>3, <1>4, <1>5, <1>6, <1>7 DEF Next, Daemon

-----------------------------------------------------------------------------
(* The path.                                                                 *)

\* An event that is a name of the path, when it is appended, is one that exists.
LEMMA EventAppended ==
    ASSUME opt.w \in Seq(Names), NamesDiffer, NEW ev \in Seq(EventNames),
           NEW m \in 0..Depth, NEW m2 \in m..Depth, NEW e \in EventNames,
           Known(ev, m), e \in Names => \E j \in 1..m2 : e = opt.w[j]
    PROVE  Known(Append(ev, e), m2)
<1> SUFFICES ASSUME NEW i \in 1..Len(Append(ev, e)), NEW k \in 1..Depth, Append(ev, e)[i] = opt.w[k]
             PROVE  k <= m2
    BY DEF Known
<1>0. Depth = Len(opt.w) /\ Depth \in Nat
    BY DEF Depth
<1>1. Len(Append(ev, e)) = Len(ev) + 1 /\ Len(ev) \in Nat
    OBVIOUS
<1>2. CASE i \in 1..Len(ev)
    <2>1. ev[i] = opt.w[k]
        BY <1>2
    <2>2. k <= m
        BY <1>2, <2>1 DEF Known
    <2> QED
        BY <1>0, <2>2
<1>3. CASE i = Len(ev) + 1
    <2>1. e = opt.w[k] /\ e \in Names
        BY <1>0, <1>3
    <2>2. PICK j \in 1..m2 : e = opt.w[j]
        BY <2>1
    <2>3. j \in 1..Depth
        BY <1>0, <2>2
    <2>4. j = k
        BY <2>1, <2>2, <2>3 DEF NamesDiffer
    <2> QED
        BY <2>2, <2>4
<1> QED
    BY <1>1, <1>2, <1>3

\* await() goes on to the command only when the last name is there: it looked, or
\* it read an event with that name.
LEMMA ArrivingStep == TypeOK /\ Arriving /\ [Next]_vars => Arriving'
<1> SUFFICES ASSUME TypeOK, Arriving, [Next]_vars PROVE Arriving'
    OBVIOUS
<1>w. /\ opt.w \in Seq(Names) /\ Depth = Len(opt.w) /\ Depth \in Nat
      /\ made \in 0..Depth /\ level \in -1..Depth
      /\ events \in Seq(EventNames)
    BY InitDaemonConstants DEF TypeOK, Depth, EventNames
<1>d. ASSUME UNCHANGED opt PROVE Depth' = Depth /\ NamesDiffer' = NamesDiffer
    BY <1>d DEF Depth, NamesDiffer
<1>k. ASSUME UNCHANGED <<opt, made, events>> PROVE Known(events, made)' = Known(events, made)
    BY <1>k DEF Known, Depth
<1>e. "other" \in EventNames \ Names /\ "ignored" \in EventNames \ Names
    BY InitDaemonConstants DEF EventNames
<1>1. CASE pidfile_open \/ Background \/ logger_start \/ pidfile_write \/ StartFails
    <2>1. UNCHANGED <<opt, made, level, events>>
        BY <1>1 DEF pidfile_open, Background, logger_start, pidfile_write, StartFails, waiting
    <2>2. \/ pc \in {"open", "background", "logger"} /\ pc' \in {"background", "logger", "write"}
          \/ pc' = "exited"
          \/ pc = "write" /\ pc' = IF Depth > 0 THEN "descend" ELSE "run"
        BY <1>1 DEF pidfile_open, Background, logger_start, pidfile_write, StartFails
    <2>3. Depth = 0 => made = Depth
        BY <1>w
    <2> QED
        BY <1>w, <1>d, <1>k, <2>1, <2>2, <2>3 DEF Arriving, Loop
<1>2. CASE Descend \/ Watch
    <2>1. UNCHANGED <<opt, made, events>>
        BY <1>2 DEF Descend, Watch
    <2>2. /\ pc' = "descend" => level' \in 0..(Depth - 1)
          /\ pc' \in {"watch", "look", "read"} => level' \in 1..Depth
          /\ pc' \in {"descend", "watch", "look"}
        <3>1. /\ pc = "descend" => level \in 0..(Depth - 1)
              /\ pc = "watch" => level \in 1..Depth
            BY DEF Arriving
        <3> QED
            BY <1>2, <1>w, <3>1 DEF Descend, Watch
    <2> QED
        BY <1>d, <1>k, <2>1, <2>2 DEF Arriving, Loop
<1>3. CASE Look \/ Read
    <2>1. UNCHANGED <<opt, made>> /\ pc \in {"look", "read"} /\ level \in 1..Depth
        BY <1>3 DEF Look, Read, Arriving
    <2>2. /\ pc' \in {"watch", "read", "run"}
          /\ pc' # "run" => level' \in 1..Depth
        BY <1>3, <1>w, <2>1 DEF Look, Read, Leave
    <2>3. ASSUME NamesDiffer, pc' = "run" PROVE made = Depth
        <3>1. level = Depth
            BY <1>3, <2>1, <2>3 DEF Look, Read, Leave
        <3>2. CASE Look
            BY <1>w, <2>3, <3>1, <3>2 DEF Look
        <3>3. CASE Read
            <4>1. events # <<>> /\ Head(events) = opt.w[Depth]
                BY <2>3, <3>1, <3>3 DEF Read
            <4>2. 1 \in 1..Len(events) /\ events[1] = opt.w[Depth]
                BY <1>w, <4>1
            <4>3. Depth <= made
                BY <2>1, <2>3, <3>1, <4>2 DEF Arriving, Known
            <4> QED
                BY <1>w, <4>3
        <3> QED
            BY <1>3, <3>2, <3>3
    <2>4. ASSUME NamesDiffer PROVE Known(events', made)
        <3>1. events' \in {events, <<>>, Append(events, "ignored"), Append(<<>>, "ignored")}
            BY <1>3 DEF Look, Read, Leave
        <3>2. Known(events, made)
            BY <2>4 DEF Arriving
        <3>3. <<>> \in Seq(EventNames) /\ Known(<<>>, made)
            BY DEF Known
        <3>4. made \in 0..Depth /\ made \in made..Depth
            BY <1>w
        <3>5. Known(Append(events, "ignored"), made)
            BY <1>w, <1>e, <2>4, <3>2, <3>4, EventAppended
        <3>6. Known(Append(<<>>, "ignored"), made)
            BY <1>w, <1>e, <2>4, <3>3, <3>4, EventAppended
        <3> QED
            BY <3>1, <3>2, <3>3, <3>5, <3>6
    <2>5. NamesDiffer => Known(events, made)'
        BY <2>1, <2>4 DEF Known, Depth
    <2> QED
        BY <1>d, <2>1, <2>2, <2>3, <2>5 DEF Arriving, Loop
<1>4. CASE Appears
    <2>1. UNCHANGED <<opt, pc, level>> /\ made' \in made..Depth
        BY <1>4, <1>w DEF Appears
    <2>2. ASSUME NamesDiffer PROVE Known(events', made')
        <3>1. Known(events, made) /\ made \in 0..Depth
            BY <1>w, <2>2 DEF Arriving
        <3>2. CASE events' = events
            BY <1>w, <2>1, <3>1, <3>2 DEF Known
        <3>3. CASE made < Depth /\ made' = made + 1 /\ events' = Append(events, opt.w[made + 1])
            <4>1. made + 1 \in 1..Depth /\ made + 1 \in made..Depth /\ made + 1 \in 1..(made + 1)
                BY <1>w, <3>3
            <4>2. opt.w[made + 1] \in EventNames
                BY <1>w, <4>1 DEF EventNames
            <4>3. \E j \in 1..(made + 1) : opt.w[made + 1] = opt.w[j]
                BY <4>1
            <4>4. Known(Append(events, opt.w[made + 1]), made + 1)
                BY <1>w, <2>2, <3>1, <4>1, <4>2, <4>3, EventAppended
            <4> QED
                BY <3>3, <4>4
        <3>4. CASE made' = made /\ events' = Append(events, "other")
            <4>1. made \in made..Depth
                BY <1>w
            <4>2. Known(Append(events, "other"), made)
                BY <1>w, <1>e, <2>2, <3>1, <4>1, EventAppended
            <4> QED
                BY <3>4, <4>2
        <3> QED
            BY <1>4, <3>2, <3>3, <3>4 DEF Appears
    <2>3. NamesDiffer => Known(events, made)'
        BY <2>1, <2>2 DEF Known, Depth
    <2> QED
        BY <1>w, <1>d, <2>1, <2>3 DEF Arriving
<1>5. CASE \/ Run \/ Clear \/ Fork \/ Assign \/ ForkFails \/ ForkExits \/ Wait \/ Check
           \/ Hangup \/ Terminate \/ Killed \/ Exec \/ ExecFails \/ CommandDies
           \/ LoggerExec \/ LoggerFails \/ LoggerDies \/ Tick
    <2>1. UNCHANGED <<opt, waiting>>
        BY <1>5 DEF Run, Clear, Fork, Assign, ForkFails, ForkExits, Wait, Check, Hangup, Terminate,
           handler, Killed, Exec, ExecFails, CommandDies, LoggerExec, LoggerFails, LoggerDies, Tick
    <2>2. \/ pc' = pc
          \/ pc' \in {"exited", "killed"}
          \/ pc \in Loop \cup {"run"} /\ pc' \in Loop \cup {"replaced"}
        BY <1>5 DEF Run, Clear, Fork, Assign, ForkFails, ForkExits, Wait, Check, Hangup, Terminate,
           handler, Killed, Exec, ExecFails, CommandDies, LoggerExec, LoggerFails, LoggerDies, Tick,
           Loop
    <2> QED
        BY <1>d, <1>k, <2>1, <2>2 DEF Arriving, waiting, Loop
<1>6. CASE UNCHANGED vars
    BY <1>6, <1>d, <1>k DEF vars, waiting, Arriving
<1> QED
    BY <1>1, <1>2, <1>3, <1>4, <1>5, <1>6 DEF Next, Daemon

-----------------------------------------------------------------------------
(* SIGTERM, the flag `killed' and the pid file.                              *)

\* After SIGTERM no test of command.restart succeeds, so that fork() is reached
\* at most once more.
LEMMA StoppingStep == TypeOK /\ Stopping /\ [Next]_vars => Stopping'
<1> SUFFICES ASSUME TypeOK, Stopping, [Next]_vars PROVE Stopping'
    OBVIOUS
<1>t. late \in Nat
    BY DEF TypeOK
<1>1. CASE Fork
    <2>1. UNCHANGED <<told, restart>> /\ pc = "fork" /\ pc' = "assign"
          /\ late' = IF told THEN late + 1 ELSE late
        BY <1>1 DEF Fork, command
    <2>2. late = 0
        BY <1>t, <2>1 DEF Stopping
    <2> QED
        BY <2>1, <2>2 DEF Stopping
<1>2. CASE Hangup \/ Terminate
    <2>1. PICK sig \in {"HUP", "TERM"} : handler(sig)
        BY <1>2 DEF Hangup, Terminate
    <2>2. /\ told' = (told \/ sig = "TERM") /\ restart' = (restart /\ sig # "TERM")
          /\ UNCHANGED <<pc, late>>
        BY <2>1 DEF handler
    <2> QED
        BY <2>2 DEF Stopping
<1>3. CASE Check
    <2>1. UNCHANGED <<told, late, restart>> /\ pc = "check" /\ (pc' = "exited" \/ restart)
        BY <1>3 DEF Check, command, history
    <2> QED
        BY <1>t, <2>1 DEF Stopping
<1>4. CASE \/ pidfile_open \/ Background \/ logger_start \/ pidfile_write \/ StartFails
           \/ Descend \/ Watch \/ Look \/ Read \/ Appears \/ Run \/ Clear \/ ForkFails
           \/ ForkExits \/ Assign \/ Wait \/ Killed \/ Exec \/ ExecFails \/ CommandDies
           \/ LoggerExec \/ LoggerFails \/ LoggerDies \/ Tick
    <2>1. UNCHANGED <<told, late, restart>>
        BY <1>4 DEF pidfile_open, Background, logger_start, pidfile_write, StartFails, Descend, Watch,
           Look, Read, Appears, Run, Clear, ForkFails, ForkExits, Assign, Wait, Killed, Exec, ExecFails,
           CommandDies, LoggerExec, LoggerFails, LoggerDies, Tick, command, history
    <2>2. pc \in {"assign", "wait", "check", "exited", "killed"}
              => pc' \in {"assign", "wait", "check", "exited", "killed"}
        BY <1>4 DEF pidfile_open, Background, logger_start, pidfile_write, StartFails, Descend, Watch,
           Look, Read, Appears, Run, Clear, ForkFails, ForkExits, Assign, Wait, Killed, Exec, ExecFails,
           CommandDies, LoggerExec, LoggerFails, LoggerDies, Tick
    <2> QED
        BY <2>1, <2>2 DEF Stopping
<1>5. CASE UNCHANGED vars
    BY <1>5 DEF vars, command, history, Stopping
<1> QED
    BY <1>1, <1>2, <1>3, <1>4, <1>5 DEF Next, Daemon

\* Only a signal sets `killed', and it ends the quiet that began when it was reset.
LEMMA SignalledStep == TypeOK /\ Signalled /\ [Next]_vars => Signalled'
<1> SUFFICES ASSUME TypeOK, Signalled, [Next]_vars PROVE Signalled'
    OBVIOUS
<1>1. CASE Hangup \/ Terminate
    BY <1>1 DEF Hangup, Terminate, handler, Signalled
<1>2. CASE Clear
    BY <1>2 DEF Clear, Signalled
<1>3. CASE \/ pidfile_open \/ Background \/ logger_start \/ pidfile_write \/ StartFails
           \/ Descend \/ Watch \/ Look \/ Read \/ Appears \/ Run \/ Fork \/ ForkFails
           \/ ForkExits \/ Assign \/ Wait \/ Check \/ Killed \/ Exec \/ ExecFails \/ CommandDies
           \/ LoggerExec \/ LoggerFails \/ LoggerDies \/ Tick
    <2>1. UNCHANGED <<killed, quiet>>
        BY <1>3 DEF pidfile_open, Background, logger_start, pidfile_write, StartFails, Descend, Watch,
           Look, Read, Appears, Run, Fork, ForkFails, ForkExits, Assign, Wait, Check, Killed, Exec,
           ExecFails, CommandDies, LoggerExec, LoggerFails, LoggerDies, Tick, command, history
    <2>2. pc' \in {"fork", "assign", "wait", "check"} => pc \in {"fork", "assign", "wait", "check"}
        BY <1>3 DEF pidfile_open, Background, logger_start, pidfile_write, StartFails, Descend, Watch,
           Look, Read, Leave, Appears, Run, Fork, ForkFails, ForkExits, Assign, Wait, Check, Killed, Exec,
           ExecFails, CommandDies, LoggerExec, LoggerFails, LoggerDies, Tick
    <2> QED
        BY <2>1, <2>2 DEF Signalled
<1>4. CASE UNCHANGED vars
    BY <1>4 DEF vars, command, history, Signalled
<1> QED
    BY <1>1, <1>2, <1>3, <1>4 DEF Next, Daemon

\* The pid file is removed only on the way to "exited", or by a child
\* that failed before its exec.
LEMMA FileStep == TypeOK /\ File /\ [Next]_vars => File'
<1> SUFFICES ASSUME TypeOK, File, [Next]_vars PROVE File'
    OBVIOUS
<1>1. CASE pidfile_open
    BY <1>1 DEF pidfile_open, history, File, Loop
<1>2. CASE pidfile_write
    BY <1>2 DEF pidfile_write, history, File, Loop
<1>3. CASE Background \/ logger_start \/ Descend \/ Watch \/ Look \/ Read \/ Appears \/ Run
           \/ Clear \/ Fork \/ Assign \/ ForkFails \/ Wait \/ Hangup \/ Terminate \/ Killed \/ Exec
           \/ CommandDies \/ LoggerExec \/ LoggerDies \/ Tick
    <2>1. UNCHANGED <<opt, pidfile, broken>>
        BY <1>3 DEF Background, logger_start, Descend, Watch, Look, Read, Appears, Run, Clear, Fork,
           Assign, ForkFails, Wait, Hangup, Terminate, handler, Killed, Exec, CommandDies,
           LoggerExec, LoggerDies, Tick, history
    <2>2. \/ pc' = pc \/ pc' \in Gone
          \/ pc \in {"background", "logger"} /\ pc' \in {"logger", "write"}
          \/ /\ pc \in Loop \cup {"descend", "watch", "look", "read", "run"}
             /\ pc' \in Loop \cup {"descend", "watch", "look", "read", "run"}
        BY <1>3 DEF Background, logger_start, Descend, Watch, Look, Read, Leave, Appears, Run, Clear,
           Fork, Assign, ForkFails, Wait, Hangup, Terminate, handler, Killed, Exec, CommandDies,
           LoggerExec, LoggerDies, Tick, Loop, Gone
    <2> QED
        BY <2>1, <2>2 DEF File, Loop, Gone
<1>4. CASE StartFails \/ ForkExits
    BY <1>4 DEF StartFails, ForkExits, File, Loop
<1>5. CASE Check
    BY <1>5 DEF Check, File, Loop, history
<1>6. CASE ExecFails \/ LoggerFails
    BY <1>6 DEF ExecFails, LoggerFails, File
<1>7. CASE UNCHANGED vars
    BY <1>7 DEF vars, history, File
<1> QED
    BY <1>1, <1>2, <1>3, <1>4, <1>5, <1>6, <1>7 DEF Next, Daemon

-----------------------------------------------------------------------------
(* The theorems.                                                             *)

\* main() begins with no command, no event and no pid file.
LEMMA InitHolds == Init => TypeOK /\ Family /\ Arriving /\ Stopping /\ Signalled /\ File
<1> SUFFICES ASSUME Init PROVE TypeOK /\ Family /\ Arriving /\ Stopping /\ Signalled /\ File
    OBVIOUS
<1>c. MaxStarts \in Nat /\ Grace \in Nat /\ MaxSignals \in Nat /\ MaxNoise \in Nat
    BY InitDaemonConstants
<1>w. opt.w \in Seq(Names) /\ Depth = Len(opt.w) /\ Depth \in Nat
    BY InitDaemonConstants DEF Init, Depth
<1>1. TypeOK
    <2>1. events \in Seq(EventNames)
        BY DEF Init
    <2>2. opt \in [p : BOOLEAN, r : BOOLEAN, l : BOOLEAN, w : Paths, noise : 0..MaxNoise]
        BY DEF Init
    <2>3. restart \in BOOLEAN /\ killed \in BOOLEAN /\ {quiet, told, termed, broken} \subseteq BOOLEAN
        BY <2>2 DEF Init
    <2>4. /\ made \in 0..Depth /\ level \in -1..Depth /\ watch \in 0..Depth /\ noise \in Nat
          /\ pid \in -1..MaxStarts /\ age \in 0..Grace /\ sent \in 0..MaxSignals /\ late \in Nat
          /\ pc = "open" /\ pidfile = "none" /\ logger = "none"
          /\ kids \in [1..MaxStarts -> {"none", "forked", "running", "zombie", "reaped"}]
        BY <1>c, <1>w DEF Init
    <2> QED
        BY <2>1, <2>2, <2>3, <2>4 DEF TypeOK, EventNames
<1>2. Family
    <2>1. Started = {} /\ Alive = {}
        BY DEF Init, Started, Alive
    <2>2. Latest = 0
        BY <2>1, FS_EmptySet DEF Latest
    <2> QED
        BY <1>c, <2>1, <2>2 DEF Init, Family
<1>3. Arriving
    BY <1>w DEF Init, Arriving, Known, Loop
<1>4. Stopping /\ Signalled /\ File
    BY DEF Init, Stopping, Signalled, File, Loop
<1> QED
    BY <1>1, <1>2, <1>3, <1>4

\* The parts together are an invariant of daemon(8).
THEOREM DaemonInvariant ==
    Spec => [](TypeOK /\ Family /\ Arriving /\ Stopping /\ Signalled /\ File)
<1>1. TypeOK /\ Family /\ Arriving /\ Stopping /\ Signalled /\ File /\ [Next]_vars
          => (TypeOK /\ Family /\ Arriving /\ Stopping /\ Signalled /\ File)'
    BY TypeStep, FamilyStep, ArrivingStep, StoppingStep, SignalledStep, FileStep
<1> QED
    BY InitHolds, <1>1, PTL DEF Spec

\* The values of the variables of main() stay in their types: command.pid names a
\* process that was started, and the level a name of the path.
THEOREM DaemonTypeCorrect == Spec => []TypeOK
    BY DaemonInvariant, PTL

\* The command is not started before every name of the path exists (-w), for a
\* path of any length with names that differ.
THEOREM AwaitSoundCorrect == Spec => []AwaitSound
<1>1. Arriving => AwaitSound
    BY DEF Arriving, AwaitSound
<1> QED
    BY DaemonInvariant, <1>1, PTL

\* At most one process runs the command, and none is left when the supervisor has
\* ended in its own way, for any number of starts and signals.
THEOREM OneCommandCorrect == Spec => []OneCommand
<1>1. TypeOK /\ Family => OneCommand
    <2> SUFFICES ASSUME TypeOK, Family PROVE OneCommand
        OBVIOUS
    <2>1. Cardinality(Alive) <= 1
        <3>1. IsFiniteSet({Latest}) /\ Cardinality({Latest}) = 1
            BY FS_Singleton
        <3>2. Alive \subseteq {Latest}
            BY DEF Family
        <3> QED
            BY <3>1, <3>2, FS_Subset
    <2>2. pc = "exited" => Alive = {}
        BY DEF Family
    <2> QED
        BY <2>1, <2>2 DEF OneCommand
<1> QED
    BY DaemonInvariant, <1>1, PTL

\* After SIGTERM the command is started at most once more, whatever the number of
\* signals.
THEOREM AtMostOneMoreCorrect == Spec => []AtMostOneMore
<1>1. TypeOK /\ Stopping => AtMostOneMore
    BY DEF TypeOK, Stopping, AtMostOneMore
<1> QED
    BY DaemonInvariant, <1>1, PTL

\* From pidfile_write() until the supervisor ends the pid file holds its pid,
\* unless a child, logger or command, failed before its exec.
THEOREM PidFileHeldCorrect == Spec => []PidFileHeld
<1>1. File => PidFileHeld
    BY DEF File, PidFileHeld
<1> QED
    BY DaemonInvariant, <1>1, PTL

\* A command that died before Grace is started again only if a signal came since
\* `killed' was reset: no tight loop, for every Grace.
THEOREM RestartsSpacedCorrect == Spec => RestartsSpaced
<1>1. TypeOK /\ Signalled /\ [Next]_vars
          => [pc = "check" /\ pc' = "clear" => ~quiet \/ age >= Grace]_vars
    <2> SUFFICES ASSUME TypeOK, Signalled, Next, pc = "check", pc' = "clear"
                 PROVE  ~quiet \/ age >= Grace
        OBVIOUS
    <2>1. Check
        BY DEF Next, Daemon, pidfile_open, Background, logger_start, pidfile_write, StartFails, Descend,
           Watch, Look, Read, Appears, Run, Clear, Fork, Assign, ForkFails, ForkExits, Wait, Hangup,
           Terminate, handler, Killed, Exec, ExecFails, CommandDies, LoggerExec,
           LoggerFails, LoggerDies, Tick
    <2>2. killed \/ age >= Grace
        BY <2>1 DEF Check
    <2> QED
        BY <2>2 DEF Signalled
<1> QED
    BY DaemonInvariant, <1>1, PTL DEF Spec, RestartsSpaced

-----------------------------------------------------------------------------
(* child_process(), for pipes of any capacity and any amount of input and    *)
(* output.                                                                   *)

Labels == {"none", "start", "forked", "closed", "fed", "first", "mail", "copy", "pclose",
           "waitmail", "close", "wait", "done", "killed", "run", "zombie"}

\* The count M has at each point up to its last wait(); until then only the
\* mailer can have been waited for, and a mailer is waited for before that.
Counted ==
    /\ jpc["M"] \in {"start", "forked"} => children = 0
    /\ jpc["M"] \in {"closed", "fed"} => children = 1
    /\ jpc["M"] \in {"first", "mail", "copy", "pclose", "waitmail", "close"} => children = 2
    /\ jpc["M"] \notin {"wait", "done"} => reaped \subseteq {"S"}
    /\ jpc["S"] # "none" => /\ mailto = "safe"
                           /\ \/ jpc["M"] \in {"copy", "pclose", "waitmail", "killed"}
                              \/ "S" \in reaped

\* In the last loop the count is not below the number of children to come.
Awaited ==
    /\ jpc["M"] = "wait" /\ children = 0 => J!Unwaited = {}
    /\ jpc["M"] = "wait" /\ children = 1 => "C" \notin J!Unwaited \/ "F" \notin J!Unwaited
    /\ jpc["M"] = "done" => J!Unwaited = {}

Held == IF hold THEN 1 ELSE 0

\* What was written was passed on, or is the character M holds, or is in the
\* pipe.  M leaves its loop at the end of file, and then nobody can write.
Conserved ==
    /\ mailto = "safe" /\ jpc["M"] # "killed" => wrote = mailed + Held + buf["stdout"]
    /\ mailto # "safe" => mailed = 0
    /\ jpc["M"] \in {"start", "forked", "closed", "fed", "first"} => ~hold
    /\ jpc["M"] \in {"pclose", "waitmail", "close", "wait", "done"} =>
           wr["stdout"] = {} /\ buf["stdout"] = 0 /\ ~hold

JobInv == J!TypeOK /\ Counted /\ Awaited /\ Conserved

-----------------------------------------------------------------------------
(* child_process(): types.                                                   *)

\* Every step keeps the types; the count needs Counted, the output Conserved.
LEMMA JobTypeStep ==
    ASSUME J!CronJobConstants, JobInv, J!Next
    PROVE  J!TypeOK'
<1>t. J!TypeOK /\ Counted /\ Conserved
  BY DEF JobInv
<1>x. ASSUME NEW p \in J!Procs, J!Exit(p)
      PROVE  /\ jpc' \in [J!Procs -> Labels]
             /\ rd' \in [J!Pipes -> SUBSET J!Procs] /\ wr' \in [J!Pipes -> SUBSET J!Procs]
  BY <1>x, <1>t DEF J!Exit, J!Goto, J!Drop, J!TypeOK, Labels
<1>g. ASSUME NEW q \in J!Pipes, J!Get(q)
      PROVE  buf' \in [J!Pipes -> 0..Capacity]
  BY <1>g, <1>t DEF J!Get, J!TypeOK, J!CronJobConstants
<1>p. ASSUME NEW q \in J!Pipes, J!Put(q)
      PROVE  buf' \in [J!Pipes -> 0..Capacity]
  BY <1>p, <1>t DEF J!Put, J!TypeOK, J!CronJobConstants
<1>c. Capacity \in Nat /\ MaxInput \in Nat /\ MaxOutput \in Nat
  BY DEF J!CronJobConstants
<1> USE <1>t DEF J!data, J!Procs, J!Pipes
<1>1. CASE J!Vfork
  BY <1>1 DEF J!Vfork, J!TypeOK, Labels, J!Goto
<1>2. CASE J!VforkFails
  BY <1>2, <1>x DEF J!VforkFails, J!TypeOK, Labels
<1>3. CASE J!CloseEnds
  <2>1. children' \in 0..2
    BY <1>3 DEF J!CloseEnds, J!At, Counted
  <2> QED
    BY <1>3, <2>1 DEF J!CloseEnds, J!Goto, J!TypeOK, Labels
<1>4. CASE J!ForkFeeder
  BY <1>4 DEF J!ForkFeeder, J!TypeOK, Labels, J!Goto
<1>5. CASE J!CloseIn
  <2>1. children' \in 0..2
    BY <1>5 DEF J!CloseIn, J!At, Counted
  <2> QED
    BY <1>5, <2>1 DEF J!CloseIn, J!Goto, J!TypeOK, Labels
<1>6. CASE J!ReadFirst
  <2>1. buf' \in [J!Pipes -> 0..Capacity]
    BY <1>6, <1>g DEF J!ReadFirst, J!TypeOK
  <2>2. jpc' \in [J!Procs -> Labels] /\ hold' \in BOOLEAN
    BY <1>6 DEF J!ReadFirst, J!Goto, J!TypeOK, Labels
  <2> QED
    BY <1>6, <2>1, <2>2 DEF J!ReadFirst, J!TypeOK, Labels
<1>7. CASE J!OpenMail
  BY <1>7 DEF J!OpenMail, J!TypeOK, Labels, J!Goto
<1>8. CASE J!OpenMailFails
  BY <1>8, <1>x DEF J!OpenMailFails, J!TypeOK, Labels
<1>9. CASE J!NoMail
  BY <1>9 DEF J!NoMail, J!TypeOK, Labels, J!Goto
<1>10. CASE J!ReadMore
  BY <1>10, <1>g DEF J!ReadMore, J!TypeOK, Labels, J!Goto
<1>11. CASE J!PutMail
  <2>1. buf' \in [J!Pipes -> 0..Capacity]
    BY <1>11, <1>p DEF J!PutMail
  <2>2. mailed \in Nat /\ wrote \in 0..MaxOutput /\ buf["stdout"] \in Nat
    BY <1>c DEF J!TypeOK
  <2>3. wrote = mailed + 1 + buf["stdout"]
    BY <1>11 DEF J!PutMail, J!At, Conserved, Held
  <2>4. mailed' \in 0..MaxOutput
    BY <1>11, <1>c, <2>2, <2>3 DEF J!PutMail
  <2> QED
    BY <1>11, <2>1, <2>4 DEF J!PutMail, J!TypeOK
<1>12. CASE J!PutMailPipe
  BY <1>12, <1>x DEF J!PutMailPipe, J!TypeOK, Labels
<1>13. CASE J!PutMailWild
  BY <1>13, <1>x DEF J!PutMailWild, J!TypeOK, Labels
<1>14. CASE J!ClosePipe
  BY <1>14 DEF J!ClosePipe, J!TypeOK, Labels, J!Goto
<1>15. CASE J!ClosePipeNone
  BY <1>15 DEF J!ClosePipeNone, J!TypeOK, Labels, J!Goto
<1>16. CASE J!WaitMail
  BY <1>16 DEF J!WaitMail, J!TypeOK, Labels, J!Goto
<1>17. CASE J!CloseOut
  BY <1>17 DEF J!CloseOut, J!TypeOK, Labels, J!Goto
<1>18. CASE J!WaitChild
  <2>1. children' \in 0..2
    BY <1>18 DEF J!WaitChild, J!TypeOK
  <2>2. reaped' \subseteq {"C", "F", "S"}
    BY <1>18 DEF J!WaitChild, J!Unwaited, J!TypeOK
  <2> QED
    BY <1>18, <2>1, <2>2 DEF J!WaitChild, J!TypeOK
<1>19. CASE J!WaitOver
  BY <1>19 DEF J!WaitOver, J!TypeOK, Labels, J!Goto, J!Drop
<1>20. CASE J!FeedStart
  BY <1>20 DEF J!FeedStart, J!TypeOK, Labels, J!Goto
<1>21. CASE J!FeedPut
  <2>1. buf' \in [J!Pipes -> 0..Capacity]
    BY <1>21, <1>p DEF J!FeedPut
  <2>2. input' \in 0..MaxInput
    BY <1>21, <1>c DEF J!FeedPut, J!TypeOK
  <2> QED
    BY <1>21, <2>1, <2>2 DEF J!FeedPut, J!TypeOK
<1>22. CASE J!FeedExit
  BY <1>22, <1>x DEF J!FeedExit, J!TypeOK, Labels
<1>23. CASE J!CommandGet
  BY <1>23, <1>g DEF J!CommandGet, J!TypeOK, Labels, J!Goto
<1>24. CASE J!Output("C")
  <2>1. buf' \in [J!Pipes -> 0..Capacity]
    BY <1>24, <1>p DEF J!Output
  <2>2. wrote' \in 0..MaxOutput
    BY <1>24, <1>c DEF J!Output, J!TypeOK
  <2> QED
    BY <1>24, <2>1, <2>2 DEF J!Output, J!TypeOK
<1>25. CASE J!Output("B")
  <2>1. buf' \in [J!Pipes -> 0..Capacity]
    BY <1>25, <1>p DEF J!Output
  <2>2. wrote' \in 0..MaxOutput
    BY <1>25, <1>c DEF J!Output, J!TypeOK
  <2> QED
    BY <1>25, <2>1, <2>2 DEF J!Output, J!TypeOK
<1>26. CASE J!Redirect
  BY <1>26 DEF J!Redirect, J!TypeOK, Labels, J!Goto
<1>27. CASE J!Background
  BY <1>27 DEF J!Background, J!TypeOK, Labels, J!Goto
<1>28. CASE J!CommandExit
  BY <1>28, <1>x DEF J!CommandExit, J!TypeOK, Labels
<1>29. CASE J!BackgroundExit
  BY <1>29, <1>x DEF J!BackgroundExit, J!TypeOK, Labels
<1>30. CASE J!MailerGet
  BY <1>30, <1>g DEF J!MailerGet, J!TypeOK, Labels, J!Goto
<1>31. CASE J!MailerExit
  BY <1>31, <1>x DEF J!MailerExit, J!TypeOK, Labels
<1>32. CASE J!MailerFails
  BY <1>32, <1>x DEF J!MailerFails, J!TypeOK, Labels
<1> QED
  BY <1>1, <1>2, <1>3, <1>4, <1>5, <1>6, <1>7, <1>8, <1>9, <1>10, <1>11, <1>12, <1>13,
     <1>14, <1>15, <1>16, <1>17, <1>18, <1>19, <1>20, <1>21, <1>22, <1>23, <1>24,
     <1>25, <1>26, <1>27, <1>28, <1>29, <1>30, <1>31, <1>32 DEF J!Next, J!MStep, J!FStep

-----------------------------------------------------------------------------
(* child_process(): what the other processes leave alone.                    *)

\* M is where it was, nobody is forked for it, and of the output only what is in
\* the pipe grows, while somebody can write to it.
Bystander ==
    /\ UNCHANGED <<children, hold, mailed, mailto, reaped>>
    /\ jpc'["M"] = jpc["M"]
    /\ \A p \in {"C", "F", "S"} : jpc'[p] = "none" <=> jpc[p] = "none"
    /\ wrote' - buf'["stdout"] = wrote - buf["stdout"]
    /\ wr["stdout"] = {} => wr'["stdout"] = {} /\ buf'["stdout"] = buf["stdout"]

\* Every step that is not M's has no other effect.
LEMMA Bystanders ==
    ASSUME J!CronJobConstants, J!TypeOK, J!Next, ~J!MStep
    PROVE  Bystander
<1> USE DEF J!data, J!Procs, J!Pipes, J!At, Bystander
<1>1. CASE J!FeedStart
  BY <1>1 DEF J!FeedStart, J!Goto
<1>2. CASE J!FeedPut
  BY <1>2 DEF J!FeedPut, J!Put
<1>3. CASE J!FeedExit
  BY <1>3 DEF J!FeedExit, J!Exit, J!Goto, J!Drop
<1>4. CASE J!CommandGet
  BY <1>4 DEF J!CommandGet, J!Get
<1>5. CASE J!Output("C")
  BY <1>5 DEF J!Output, J!Goto, J!Put, J!TypeOK
<1>6. CASE J!Output("B")
  BY <1>6 DEF J!Output, J!Goto, J!Put, J!TypeOK
<1>7. CASE J!Redirect
  BY <1>7 DEF J!Redirect
<1>8. CASE J!Background
  BY <1>8 DEF J!Background, J!Goto
<1>9. CASE J!CommandExit
  BY <1>9 DEF J!CommandExit, J!Exit, J!Goto, J!Drop
<1>10. CASE J!BackgroundExit
  BY <1>10 DEF J!BackgroundExit, J!Exit, J!Goto, J!Drop
<1>11. CASE J!MailerGet
  BY <1>11 DEF J!MailerGet, J!Get
<1>12. CASE J!MailerExit
  BY <1>12 DEF J!MailerExit, J!Exit, J!Goto, J!Drop
<1>13. CASE J!MailerFails
  BY <1>13 DEF J!MailerFails, J!Exit, J!Goto, J!Drop
<1> QED
  BY <1>1, <1>2, <1>3, <1>4, <1>5, <1>6, <1>7, <1>8, <1>9, <1>10, <1>11, <1>12, <1>13
     DEF J!Next, J!FStep

\* Counted and Awaited are kept: no child is left when the count is down to 0.
LEMMA CountStep ==
    ASSUME J!TypeOK, Counted, Awaited, J!MStep
    PROVE  Counted' /\ Awaited'
<1> USE DEF J!data, J!Procs, J!Pipes
<1>1. CASE J!Vfork
  BY <1>1 DEF J!Vfork, J!At, J!TypeOK, Counted, Awaited
<1>2. CASE J!VforkFails
  BY <1>2 DEF J!VforkFails, J!Exit, J!At, J!Goto, Counted, Awaited
<1>3. CASE J!CloseEnds
  BY <1>3 DEF J!CloseEnds, J!At, J!Goto, J!TypeOK, Counted, Awaited
<1>4. CASE J!ForkFeeder
  BY <1>4 DEF J!ForkFeeder, J!At, J!Goto, J!TypeOK, Counted, Awaited
<1>5. CASE J!CloseIn
  BY <1>5 DEF J!CloseIn, J!At, J!Goto, J!TypeOK, Counted, Awaited
<1>6. CASE J!ReadFirst
  BY <1>6 DEF J!ReadFirst, J!At, J!Goto, J!TypeOK, Counted, Awaited
<1>7. CASE J!OpenMail
  BY <1>7 DEF J!OpenMail, J!At, J!TypeOK, Counted, Awaited
<1>8. CASE J!OpenMailFails
  BY <1>8 DEF J!OpenMailFails, J!Exit, J!At, J!Goto, Counted, Awaited
<1>9. CASE J!NoMail
  BY <1>9 DEF J!NoMail, J!At, J!Goto, Counted, Awaited
<1>10. CASE J!ReadMore
  BY <1>10 DEF J!ReadMore, J!At, J!Goto, J!TypeOK, Counted, Awaited
<1>11. CASE J!PutMail
  BY <1>11 DEF J!PutMail, J!At, Counted, Awaited
<1>12. CASE J!PutMailPipe
  BY <1>12 DEF J!PutMailPipe, J!Exit, J!At, J!Goto, Counted, Awaited
<1>13. CASE J!PutMailWild
  BY <1>13 DEF J!PutMailWild, J!Exit, J!At, J!Goto, J!TypeOK, Counted, Awaited
<1>14. CASE J!ClosePipe
  BY <1>14 DEF J!ClosePipe, J!At, J!Goto, Counted, Awaited
<1>15. CASE J!ClosePipeNone
  BY <1>15 DEF J!ClosePipeNone, J!At, J!Goto, Counted, Awaited
<1>16. CASE J!WaitMail
  BY <1>16 DEF J!WaitMail, J!At, J!Goto, Counted, Awaited
<1>17. CASE J!CloseOut
  BY <1>17 DEF J!CloseOut, J!At, J!Goto, Counted, Awaited
<1>18. CASE J!WaitChild
  BY <1>18 DEF J!WaitChild, J!At, Counted, Awaited, J!Unwaited
<1>19. CASE J!WaitOver
  BY <1>19 DEF J!WaitOver, J!At, J!Goto, Counted, Awaited, J!Unwaited
<1> QED
  BY <1>1, <1>2, <1>3, <1>4, <1>5, <1>6, <1>7, <1>8, <1>9, <1>10, <1>11, <1>12, <1>13,
     <1>14, <1>15, <1>16, <1>17, <1>18, <1>19 DEF J!MStep

\* No output is lost or invented on its way through the pipe and M.
LEMMA ConserveStep ==
    ASSUME J!CronJobConstants, J!TypeOK, Conserved, J!MStep
    PROVE  Conserved'
<1> USE DEF J!data, J!Procs, J!Pipes
<1>1. CASE J!Vfork
  BY <1>1 DEF J!Vfork, J!At, J!Goto, J!TypeOK, Conserved, Held
<1>2. CASE J!VforkFails
  BY <1>2 DEF J!VforkFails, J!Exit, J!Goto, J!TypeOK, Conserved
<1>3. CASE J!CloseEnds
  BY <1>3 DEF J!CloseEnds, J!At, J!Goto, Conserved, Held
<1>4. CASE J!ForkFeeder
  BY <1>4 DEF J!ForkFeeder, J!At, J!Goto, J!TypeOK, Conserved, Held
<1>5. CASE J!CloseIn
  BY <1>5 DEF J!CloseIn, J!At, J!Goto, Conserved, Held
<1>6. CASE J!ReadFirst
  BY <1>6 DEF J!ReadFirst, J!Get, J!Eof, J!At, J!Goto, J!TypeOK, Conserved, Held
<1>7. CASE J!OpenMail
  BY <1>7 DEF J!OpenMail, J!At, J!Goto, J!TypeOK, Conserved, Held
<1>8. CASE J!OpenMailFails
  BY <1>8 DEF J!OpenMailFails, J!Exit, J!Goto, J!TypeOK, Conserved
<1>9. CASE J!NoMail
  BY <1>9 DEF J!NoMail, J!Goto, Conserved
<1>10. CASE J!ReadMore
  <2>1. /\ jpc["M"] = "copy" /\ ~hold /\ wrote' = wrote /\ mailed' = mailed
        /\ mailto' = mailto /\ wr' = wr
    BY <1>10 DEF J!ReadMore, J!At
  <2>2. wrote \in Nat /\ mailed \in Nat /\ buf["stdout"] \in Nat
    BY DEF J!TypeOK, J!CronJobConstants
  <2>3. CASE J!Get("stdout") /\ hold' = (mailto # "nobody") /\ jpc' = jpc
    <3>1. buf["stdout"] > 0 /\ buf'["stdout"] = buf["stdout"] - 1
      BY <2>3 DEF J!Get, J!TypeOK
    <3>2. mailto = "safe" => Held = 0 /\ Held' = 1
      BY <2>1, <2>3 DEF Held
    <3> QED
      BY <2>1, <2>2, <2>3, <3>1, <3>2 DEF Conserved
  <2>4. CASE /\ J!Eof("stdout") /\ UNCHANGED <<buf, hold>>
             /\ J!Goto("M", IF mailto # "nobody" THEN "pclose" ELSE "close")
    <3>1. jpc'["M"] \in {"pclose", "close"}
      BY <2>4 DEF J!Goto, J!TypeOK
    <3> QED
      BY <2>1, <2>4, <3>1 DEF Conserved, Held, J!Eof
  <2> QED
    BY <1>10, <2>3, <2>4 DEF J!ReadMore
<1>11. CASE J!PutMail
  BY <1>11 DEF J!PutMail, J!Put, Conserved, Held
<1>12. CASE J!PutMailPipe
  BY <1>12 DEF J!PutMailPipe, J!Exit, J!Goto, J!TypeOK, Conserved
<1>13. CASE J!PutMailWild
  BY <1>13 DEF J!PutMailWild, J!Exit, J!Goto, J!TypeOK, Conserved
<1>14. CASE J!ClosePipe
  BY <1>14 DEF J!ClosePipe, J!At, Conserved, Held
<1>15. CASE J!ClosePipeNone
  BY <1>15 DEF J!ClosePipeNone, J!At, Conserved
<1>16. CASE J!WaitMail
  BY <1>16 DEF J!WaitMail, J!At, Conserved, Held
<1>17. CASE J!CloseOut
  BY <1>17 DEF J!CloseOut, J!At, Conserved, Held
<1>18. CASE J!WaitChild
  BY <1>18 DEF J!WaitChild, Conserved, Held
<1>19. CASE J!WaitOver
  BY <1>19 DEF J!WaitOver, J!Drop, J!At, Conserved, Held
<1> QED
  BY <1>1, <1>2, <1>3, <1>4, <1>5, <1>6, <1>7, <1>8, <1>9, <1>10, <1>11, <1>12, <1>13,
     <1>14, <1>15, <1>16, <1>17, <1>18, <1>19 DEF J!MStep

\* The parts together are kept by every step.
LEMMA JobStep == J!CronJobConstants /\ JobInv /\ [J!Next]_(J!vars) => JobInv'
<1> SUFFICES ASSUME J!CronJobConstants, JobInv, [J!Next]_(J!vars)
             PROVE  JobInv'
  OBVIOUS
<1>t. J!TypeOK /\ Counted /\ Awaited /\ Conserved
  BY DEF JobInv
<1>1. CASE J!MStep
  <2>1. J!TypeOK'
    BY <1>1, JobTypeStep DEF J!Next
  <2> QED
    BY <1>1, <1>t, <2>1, CountStep, ConserveStep DEF JobInv
<1>2. CASE J!Next /\ ~J!MStep
  <2>1. J!TypeOK' /\ Bystander
    BY <1>2, <1>t, JobTypeStep, Bystanders
  <2>2. J!Unwaited' = J!Unwaited
    BY <2>1 DEF Bystander, J!Unwaited
  <2>3. Counted' /\ Awaited'
    BY <1>t, <2>1, <2>2 DEF Bystander, Counted, Awaited
  <2>4. /\ wrote \in Nat /\ wrote' \in Nat /\ mailed \in Nat /\ Held \in Nat
        /\ buf["stdout"] \in Nat /\ buf'["stdout"] \in Nat
    BY <1>t, <2>1 DEF J!TypeOK, J!Pipes, Held
  <2>5. Held' = Held /\ mailed' = mailed /\ jpc'["M"] = jpc["M"] /\ mailto' = mailto
        /\ hold' = hold
    BY <2>1 DEF Bystander, Held
  <2>6. wrote' - buf'["stdout"] = wrote - buf["stdout"]
    BY <2>1 DEF Bystander
  <2>7. Conserved'
    BY <1>t, <2>1, <2>4, <2>5, <2>6 DEF Bystander, Conserved
  <2> QED
    BY <2>1, <2>3, <2>7 DEF JobInv
<1>3. CASE UNCHANGED J!vars
  BY <1>3, <1>t DEF J!vars, J!data, JobInv, J!TypeOK, Counted, Awaited, J!Unwaited, Conserved,
     Held
<1> QED
  BY <1>1, <1>2, <1>3

\* child_process() begins with no child, no output and empty pipes.
LEMMA JobInit == J!CronJobConstants /\ J!Init => JobInv
<1> SUFFICES ASSUME J!CronJobConstants, J!Init
             PROVE  JobInv
  OBVIOUS
<1>c. Capacity \in Nat /\ MaxInput \in Nat /\ MaxOutput \in Nat
  BY DEF J!CronJobConstants
<1>1. J!TypeOK
  <2>1. jpc \in [J!Procs -> Labels] /\ hold \in BOOLEAN /\ greedy \in BOOLEAN
    BY DEF J!Init, Labels
  <2>2. rd \in [J!Pipes -> SUBSET J!Procs] /\ wr \in [J!Pipes -> SUBSET J!Procs]
    BY DEF J!Init, J!Procs
  <2>3. /\ buf \in [J!Pipes -> 0..Capacity] /\ children \in 0..2
        /\ wrote \in 0..MaxOutput /\ mailed \in 0..MaxOutput /\ input \in 0..MaxInput
    BY <1>c DEF J!Init
  <2>4. mailto \in {"nobody", "safe", "unsafe"} /\ reaped \subseteq {"C", "F", "S"}
    BY DEF J!Init
  <2> QED
    BY <2>1, <2>2, <2>3, <2>4 DEF J!TypeOK, Labels
<1>2. jpc["M"] = "start" /\ jpc["S"] = "none"
  BY DEF J!Init, J!Procs
<1>3. Counted /\ Awaited
  BY <1>2 DEF J!Init, Counted, Awaited
<1>4. Conserved
  BY <1>2 DEF J!Init, Conserved, Held, J!Pipes
<1> QED
  BY <1>1, <1>3, <1>4 DEF JobInv

\* The inductive invariant of a job: types, the count of children, and where
\* the output of the command is.
THEOREM JobInvariant ==
    ASSUME J!CronJobConstants
    PROVE  J!Spec => []JobInv
<1>1. JobInv /\ [J!Next]_(J!vars) => JobInv'
  BY JobStep
<1> QED
  BY <1>1, JobInit, PTL DEF J!Spec

\* Processes, pipes and counts keep their types: no pipe holds more than its
\* capacity, and M never counts more than two children.
THEOREM JobTypeCorrect ==
    ASSUME J!CronJobConstants
    PROVE  J!Spec => []J!TypeOK
<1>1. JobInv => J!TypeOK
  BY DEF JobInv
<1> QED
  BY <1>1, JobInvariant, PTL

\* A job that runs to its end leaves no child behind that it has not waited
\* for, in whatever order its children die, and whether or not there is a
\* process that feeds the command and a mailer.
THEOREM AllChildrenReapedCorrect ==
    ASSUME J!CronJobConstants
    PROVE  J!Spec => []J!AllChildrenReaped
<1>1. JobInv => J!AllChildrenReaped
  BY DEF JobInv, Awaited, J!AllChildrenReaped
<1> QED
  BY <1>1, JobInvariant, PTL

\* A job that runs to its end has passed on to the mailer every unit of output
\* of the command and of what the command left behind, for pipes of any
\* capacity.
THEOREM OutputMailedCorrect ==
    ASSUME J!CronJobConstants
    PROVE  J!Spec => []J!OutputMailed
<1>1. JobInv => J!OutputMailed
  <2> SUFFICES ASSUME JobInv, jpc["M"] = "done", mailto = "safe"
               PROVE  mailed = wrote
    BY DEF J!OutputMailed
  <2>1. mailed \in Nat
    BY DEF JobInv, J!TypeOK
  <2> QED
    BY <2>1 DEF JobInv, Conserved, Held
<1> QED
  BY <1>1, JobInvariant, PTL

-----------------------------------------------------------------------------
(* The three programs together.                                              *)

TP == INSTANCE TimeoutProofs
          WITH opt <- topt, pc <- tpc, sent <- interrupts, MaxSignals <- MaxInterrupts

-----------------------------------------------------------------------------
(* The instances agree.                                                      *)

\* The constants of the two programs meet their assumptions.
LEMMA SameConstants == TP!TimeoutConstants /\ J!CronJobConstants
<1>1. T!TimeoutConstants => TP!TimeoutConstants
    BY DEF T!TimeoutConstants, TP!TimeoutConstants, T!IsFiniteSet, TP!IsFiniteSet
<1> QED
    BY <1>1, CommandsConstants

\* They start in the same states.
LEMMA SameInit == AllInit => Init /\ TP!Init /\ J!Init
    BY DEF AllInit, T!Init, TP!Init, T!Exits, TP!Exits, T!No, TP!No

\* Timeout and TimeoutProofs take the same steps.
LEMMA SameTimeout == [T!Next]_(T!vars) => [TP!Next]_(TP!vars)
<1>1. /\ (T!Fork => TP!Fork) /\ (T!ForkFails => TP!ForkFails) /\ (T!Block => TP!Block)
    BY DEF T!Fork, TP!Fork, T!ForkFails, TP!ForkFails, T!Block, TP!Block, T!set_interval,
       TP!set_interval, T!EX_OSERR, TP!EX_OSERR, T!limits, TP!limits, T!family, TP!family,
       T!history, TP!history
<1>2. /\ (T!Suspend => TP!Suspend) /\ (T!Chld => TP!Chld) /\ (T!Reap => TP!Reap)
      /\ (T!Nothing => TP!Nothing)
    BY DEF T!Suspend, TP!Suspend, T!Chld, TP!Chld, T!Reap, TP!Reap, T!Nothing, TP!Nothing,
       T!sig_handler, TP!sig_handler, T!Terms, TP!Terms, T!No, TP!No, T!limits, TP!limits,
       T!family, TP!family, T!history, TP!history
<1>3. /\ (T!Alarm => TP!Alarm) /\ (T!Term => TP!Term)
    BY DEF T!Alarm, TP!Alarm, T!Term, TP!Term, T!Kill, TP!Kill, T!Struck, TP!Struck, T!Again,
       TP!Again, T!Remember, TP!Remember, T!set_interval, TP!set_interval, T!Dies, TP!Dies,
       T!Number, TP!Number, T!Ours, TP!Ours, T!No, TP!No
<1>4. /\ (T!Final => TP!Final) /\ (T!Return => TP!Return)
    BY DEF T!Final, TP!Final, T!Return, TP!Return, T!Returned, TP!Returned, T!Exits, TP!Exits,
       T!EXIT_TIMEOUT, TP!EXIT_TIMEOUT, T!limits, TP!limits, T!family, TP!family, T!history,
       TP!history
<1>5. /\ (T!Exec => TP!Exec) /\ (T!CommandEnds => TP!CommandEnds)
      /\ (T!OtherEnds => TP!OtherEnds)
    BY DEF T!Exec, TP!Exec, T!CommandEnds, TP!CommandEnds, T!OtherEnds, TP!OtherEnds, T!Exits,
       TP!Exits, T!Dies, TP!Dies, T!Number, TP!Number, T!EX_UNAVAILABLE, TP!EX_UNAVAILABLE,
       T!Raise, TP!Raise, T!sig_handler, TP!sig_handler, T!Terms, TP!Terms, T!No, TP!No, T!limits,
       TP!limits, T!family, TP!family, T!history, TP!history
<1>6. /\ (T!CommandStops => TP!CommandStops) /\ (T!CommandContinues => TP!CommandContinues)
    BY DEF T!CommandStops, TP!CommandStops, T!CommandContinues, TP!CommandContinues, T!Raise,
       TP!Raise, T!sig_handler, TP!sig_handler, T!Terms, TP!Terms, T!No, TP!No, T!limits,
       TP!limits, T!family, TP!family, T!history, TP!history
<1>7. /\ (T!Tick => TP!Tick) /\ (T!Signal => TP!Signal)
    BY DEF T!Tick, TP!Tick, T!Signal, TP!Signal, T!Gone, TP!Gone, T!Raise, TP!Raise,
       T!sig_handler, TP!sig_handler, T!Terms, TP!Terms, T!No, TP!No, T!limits, TP!limits,
       T!family, TP!family, T!history, TP!history
<1>8. UNCHANGED T!vars => UNCHANGED TP!vars
    BY DEF T!vars, TP!vars, T!limits, TP!limits, T!family, TP!family, T!history, TP!history
<1> QED
    BY <1>1, <1>2, <1>3, <1>4, <1>5, <1>6, <1>7, <1>8 DEF T!Next, TP!Next, T!Main, TP!Main,
       T!Gone, TP!Gone

-----------------------------------------------------------------------------
(* AllSpec implements the specification of each program.                     *)

\* The step of one program is a stuttering step of the others.
LEMMA OneAtATime == [AllNext]_all => [Next]_vars /\ [TP!Next]_(TP!vars) /\ [J!Next]_(J!vars)
<1>1. [AllNext]_all => [Next]_vars /\ [T!Next]_(T!vars) /\ [J!Next]_(J!vars)
    <2>1. UNCHANGED ofTimeout => UNCHANGED T!vars
        BY DEF ofTimeout, T!vars, T!limits, T!family, T!history
    <2>2. UNCHANGED ofJob => UNCHANGED J!vars
        BY DEF ofJob, J!vars, J!data
    <2> QED
        BY <2>1, <2>2 DEF AllNext, OfDaemon, OfTimeout, OfJob, all
<1> QED
    BY <1>1, SameTimeout

\* Whatever program is looked at, each of the three behaves as its own
\* specification says: daemon(8), timeout(1) and child_process().
THEOREM EachProgramImplemented == AllSpec => Spec /\ TP!Spec /\ J!Spec
    BY SameInit, OneAtATime, PTL DEF AllSpec, Spec, TP!Spec, J!Spec

\* The variables of the three programs keep their types.
THEOREM AllTypeCorrect == AllSpec => []AllTypeOK
<1>1. TP!Spec => []TP!TypeOK
    BY SameConstants, TP!TimeoutTypeCorrect
<1>2. J!Spec => []J!TypeOK
    BY SameConstants, JobTypeCorrect
<1>3. TP!TypeOK => T!TypeOK
    BY DEF TP!TypeOK, T!TypeOK, TP!Gone, T!Gone, TP!Terms, T!Terms, TP!No, T!No, TP!Number,
       T!Number, TP!Ours, T!Ours
<1>4. TypeOK /\ TP!TypeOK /\ J!TypeOK => AllTypeOK
    BY <1>3 DEF AllTypeOK
<1> QED
    BY EachProgramImplemented, DaemonTypeCorrect, <1>1, <1>2, <1>4, PTL

\* When timeout(1) returns, a child has been waited for, and if it was the command
\* the status is 124 after a timeout and else what wait() said of the command.
THEOREM AllStatusRight == AllSpec => []StatusRight
<1>1. TP!Spec => []TP!StatusRight
    BY SameConstants, TP!StatusRightCorrect
<1>2. TP!StatusRight => StatusRight
    BY DEF StatusRight, T!StatusRight, TP!StatusRight, T!No, TP!No
<1> QED
    BY EachProgramImplemented, <1>1, <1>2, PTL

\* While no signal comes from outside, timeout(1) sends SIGKILL no sooner than -k
\* says, for every pair of durations.
THEOREM AllGraceOfTimer == AllSpec => []GraceOfTimer
<1>1. TP!Spec => []TP!GraceOfTimer
    BY SameConstants, TP!GraceOfTimerCorrect
<1>2. TP!GraceOfTimer => GraceOfTimer
    BY DEF GraceOfTimer, T!GraceOfTimer, TP!GraceOfTimer, T!GraceKept, TP!GraceKept
<1> QED
    BY EachProgramImplemented, <1>1, <1>2, PTL

\* A job of cron that runs to its end has waited for every child it had.
THEOREM AllReaped == AllSpec => []AllChildrenReaped
<1>1. J!Spec => []J!AllChildrenReaped
    BY SameConstants, AllChildrenReapedCorrect
<1> QED
    BY EachProgramImplemented, <1>1, PTL DEF AllChildrenReaped

\* A job of cron that runs to its end has passed all output on to the mailer, for
\* pipes of any capacity.
THEOREM AllMailed == AllSpec => []OutputMailed
<1>1. J!Spec => []J!OutputMailed
    BY SameConstants, OutputMailedCorrect
<1> QED
    BY EachProgramImplemented, <1>1, PTL DEF OutputMailed

\* What is proved about daemon(8) holds in the specification of the three: the
\* command is not started before its path is there, at most one process runs it,
\* SIGTERM ends the restarts, and the pid file is held.
THEOREM AllDaemon ==
    AllSpec => [](AwaitSound /\ OneCommand /\ AtMostOneMore /\ PidFileHeld)
    BY EachProgramImplemented, AwaitSoundCorrect, OneCommandCorrect, AtMostOneMoreCorrect,
       PidFileHeldCorrect, PTL

=============================================================================
