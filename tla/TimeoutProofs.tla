--------------------------- MODULE TimeoutProofs ---------------------------
(***************************************************************************)
(* Theorems about timeout(1), for any durations, any number of signals from *)
(* outside and any number of stops of the command.                          *)
(*                                                                          *)
(* The invariant has the types in three parts, one for each kind of value   *)
(* (Numbers, Words, Bools), Progress, which StatusRight needs, and Alone,   *)
(* which GraceOfTimer needs.                                                *)
(***************************************************************************)
EXTENDS Timeout, TLAPS

Signals == {"TERM", "HUP", "USR1", "KILL"}
Masked == (Signals \ {"KILL"}) \cup {"CHLD", "ALRM"}  \* those that can be pending
Pcs == {"fork", "block", "suspend", "woke", "wait", "final", "status"} \cup Gone

Options == [fg : BOOLEAN, preserve : BOOLEAN, k : BOOLEAN, other : BOOLEAN,
            first : Intervals, second : Intervals, sig : {"TERM", "USR1", "KILL"}]

\* The timer, the durations and the history.
Numbers ==
    /\ timer \in Nat /\ second_kill \in Nat
    /\ second_kill \in Intervals \cup {0}
    /\ opt.first \in Nat /\ opt.second \in Nat
    /\ sent \in Nat
    /\ since \in Int /\ since >= -1
    /\ pstat \in -1..255
    /\ status.n \in 0..127

Flags == [chld : BOOLEAN, alrm : BOOLEAN, term : Terms \cup {No},
          ign : Signals \cup {No}]

Words ==
    /\ pc \in Pcs
    /\ flags \in Flags
    /\ pending \subseteq Masked
    /\ opt \in Options
    /\ killsig \in {opt.sig, "KILL"}
    /\ child \in Ours \cup {No, "zombie", "reaped"}
    /\ other \in {No, "running", "zombie", "reaped"}

Bools == timedout \in BOOLEAN /\ hasty \in BOOLEAN

\* Nothing happened yet before the signals are blocked and the timer is set;
\* and main() looks at a status only if wait() gave it one.
Progress ==
    /\ pc = "fork" => child = No
    /\ pc \in {"fork", "block"} => timer = 0 /\ pending = {}
    /\ pc = "status" => child = "reaped" \/ other = "reaped"

\* The loop in main(), where signals to the command are sent.
Looping == pc \in {"fork", "block", "suspend", "woke", "wait"}

\* If no signal comes from outside: SIGTERM can only be timeout's own, and
\* sig_ign is waiting for it; the alarm is running, or pending, or noticed, and
\* only one of these; before the first signal to the command the second
\* duration is still to be used, after it the time passed and the time left
\* make up that duration.
Alone ==
    sent = 0 =>
        /\ ~hasty
        /\ flags.term = No
        /\ pc \in {"fork", "block"} => ~flags.alrm /\ since = -1
        /\ Looping =>
            /\ \A s \in Terms \cap pending : ~opt.fg /\ flags.ign = s
            /\ "ALRM" \in pending => timer = 0 /\ ~flags.alrm
            /\ flags.alrm => timer = 0
            /\ since = -1 => second_kill = opt.second /\ flags.ign = No
            /\ since # -1 => /\ killsig = "KILL"
                             /\ \/ since >= opt.second
                                \/ timer > 0 /\ timer + since = opt.second

TimeoutInv == Numbers /\ Words /\ Bools /\ Progress /\ Alone /\ StatusRight

\* Every signal that is sent has a number a status can hold.
LEMMA SignalNumbers ==
    /\ DOMAIN Number = Signals
    /\ \A s \in Signals : Number[s] \in 0..127
BY DEF Number, Signals

\* What the handler does with one signal; SIGCHLD and SIGALRM are never the
\* signal that sig_ign is waiting for.
LEMMA HandlerType ==
    ASSUME flags \in Flags, NEW sig \in Masked
    PROVE  /\ sig_handler(sig) \in Flags
           /\ sig = "CHLD" => /\ sig_handler(sig).alrm = flags.alrm
                              /\ sig_handler(sig).term = flags.term
                              /\ sig_handler(sig).ign = flags.ign
BY DEF sig_handler, Flags, Signals, Terms

\* A signal that arrives leaves flags and pending signals well typed.
LEMMA RaiseType ==
    ASSUME flags \in Flags, pending \subseteq Masked, NEW sig \in Masked, Raise(sig)
    PROVE  flags' \in Flags /\ pending' \subseteq Masked
BY HandlerType DEF Raise

\* So does killpg(), whether or not it comes back to timeout itself.
LEMMA KillType ==
    ASSUME pending \subseteq Masked, child \in Ours \cup {No, "zombie", "reaped"},
           NEW sig \in Signals, NEW group \in BOOLEAN, Kill(sig, group)
    PROVE  pending' \subseteq Masked /\ child' \in Ours \cup {No, "zombie", "reaped"}
BY DEF Kill, Struck, Masked

\* The status of a command that was killed is one wait() can give.
LEMMA KillStatus ==
    ASSUME status.n \in 0..127,
           NEW sig \in Signals, NEW group \in BOOLEAN, Kill(sig, group)
    PROVE  status'.n \in 0..127
<1>1. Dies(sig).n \in 0..127
  BY SignalNumbers DEF Dies
<1>2. status' = Dies(sig) \/ status' = status
  BY DEF Kill, Struck
<1> QED
  BY <1>1, <1>2

\* The second half of the alarm's branch keeps the types.
LEMMA AgainType ==
    ASSUME flags \in Flags, killsig \in Signals, killsig \in {opt.sig, "KILL"}, Again
    PROVE  flags' \in Flags /\ killsig' \in {opt.sig, "KILL"} /\ pc' \in Pcs
BY DEF Again, Flags, Pcs, Gone

\* Timer, durations and history stay numbers.
LEMMA NumbersStep ==
    ASSUME TimeoutConstants, Numbers, Words, [Next]_vars
    PROVE  Numbers'
<1> USE DEF limits, family, history
<1>1. CASE Fork
  BY <1>1 DEF Fork, Numbers
<1>2. CASE ForkFails
  BY <1>2 DEF ForkFails, EX_OSERR, Numbers
<1>3. CASE Block
  BY <1>3 DEF Block, set_interval, Numbers
<1>4. CASE Suspend
  BY <1>4 DEF Suspend, Numbers
<1>5. CASE Chld
  BY <1>5 DEF Chld, Numbers
<1>6. CASE Reap
  BY <1>6 DEF Reap, Numbers
<1>7. CASE Alarm
  <2>1. PICK sig \in Signals : Kill(sig, ~opt.fg)
    BY <1>7 DEF Alarm, Words, Options, Signals
  <2>2. status'.n \in 0..127
    BY <2>1, KillStatus DEF Numbers
  <2>3. /\ timer' \in Nat /\ second_kill' \in Nat
        /\ second_kill' \in Intervals \cup {0}
    BY <1>7 DEF Alarm, Again, set_interval, Numbers
  <2>4. since' \in Int /\ since' >= -1
    BY <1>7 DEF Alarm, Remember, Numbers
  <2> QED
    BY <1>7, <2>2, <2>3, <2>4 DEF Alarm, Numbers
<1>8. CASE Term
  <2>1. PICK sig \in Signals : Kill(sig, ~opt.fg)
    BY <1>8 DEF Term, Words, Options, Flags, Signals, Terms
  <2>2. status'.n \in 0..127
    BY <2>1, KillStatus DEF Numbers
  <2>3. /\ timer' \in Nat /\ second_kill' \in Nat
        /\ second_kill' \in Intervals \cup {0}
    BY <1>8 DEF Term, Again, set_interval, Numbers
  <2>4. since' \in Int /\ since' >= -1
    BY <1>8 DEF Term, Remember, Numbers
  <2> QED
    BY <1>8, <2>2, <2>3, <2>4 DEF Term, Numbers
<1>9. CASE Nothing
  BY <1>9 DEF Nothing, Numbers
<1>10. CASE Final
  BY <1>10 DEF Final, Exits, Numbers
<1>11. CASE Return
  BY <1>11 DEF Return, Returned, EXIT_TIMEOUT, Numbers
<1>12. CASE Exec /\ pc \notin Gone
  BY <1>12 DEF Exec, Numbers
<1>13. CASE CommandEnds /\ pc \notin Gone
  <2>1. status' \in {Exits(EX_UNAVAILABLE), Exits(0), Dies("HUP")}
    BY <1>13 DEF CommandEnds
  <2>2. status'.n \in 0..127
    BY <2>1 DEF Exits, Dies, EX_UNAVAILABLE, Number
  <2> QED
    BY <1>13, <2>2 DEF CommandEnds, Numbers
<1>14. CASE OtherEnds /\ pc \notin Gone
  BY <1>14 DEF OtherEnds, Numbers
<1>15. CASE CommandStops /\ pc \notin Gone
  BY <1>15 DEF CommandStops, Numbers
<1>16. CASE CommandContinues /\ pc \notin Gone
  BY <1>16 DEF CommandContinues, Numbers
<1>17. CASE Tick
  BY <1>17 DEF Tick, Numbers
<1>18. CASE Signal
  BY <1>18 DEF Signal, Numbers
<1>19. CASE UNCHANGED vars
  BY <1>19 DEF vars, Numbers
<1> QED
  BY <1>1, <1>2, <1>3, <1>4, <1>5, <1>6, <1>7, <1>8, <1>9, <1>10, <1>11, <1>12, <1>13,
     <1>14, <1>15, <1>16, <1>17, <1>18, <1>19 DEF Next, Main

\* Places, flags and the states of processes stay in their types.
LEMMA WordsStep ==
    ASSUME TimeoutConstants, Words, [Next]_vars
    PROVE  Words' /\ (Bools => Bools')
<1> USE DEF limits, family, history
<1>1. CASE Fork
  BY <1>1 DEF Fork, Words, Bools, Pcs, Ours
<1>2. CASE ForkFails
  BY <1>2 DEF ForkFails, Words, Bools, Pcs, Gone
<1>3. CASE Block
  BY <1>3 DEF Block, Words, Bools, Pcs
<1>4. CASE Suspend
  <2>1. PICK sig \in pending : pending' = pending \ {sig} /\ flags' = sig_handler(sig)
    BY <1>4 DEF Suspend
  <2>2. flags' \in Flags
    BY <2>1, HandlerType DEF Words
  <2> QED
    BY <1>4, <2>1, <2>2 DEF Suspend, Words, Bools, Pcs
<1>5. CASE Chld
  BY <1>5 DEF Chld, Words, Bools, Pcs, Flags
<1>6. CASE Reap
  BY <1>6 DEF Reap, Words, Bools, Pcs
<1>7. CASE Alarm
  <2>1. PICK sig \in Signals : Kill(sig, ~opt.fg)
    BY <1>7 DEF Alarm, Words, Options, Signals
  <2>2. killsig \in Signals /\ flags \in Flags
    BY DEF Words, Options, Signals
  <2>3. pending' \subseteq Masked /\ child' \in Ours \cup {No, "zombie", "reaped"}
    BY <2>1, KillType DEF Words
  <2>4. flags' \in Flags /\ killsig' \in {opt.sig, "KILL"} /\ pc' \in Pcs
    BY <1>7, <2>2, AgainType DEF Alarm, Words
  <2>5. Bools => Bools'
    BY <1>7 DEF Alarm, Remember, Bools
  <2> QED
    BY <1>7, <2>3, <2>4, <2>5 DEF Alarm, Words
<1>8. CASE Term
  <2>1. PICK sig \in Signals : Kill(sig, ~opt.fg)
    BY <1>8 DEF Term, Words, Options, Flags, Signals, Terms
  <2>2. killsig \in Signals /\ flags \in Flags
    BY DEF Words, Options, Signals
  <2>3. pending' \subseteq Masked /\ child' \in Ours \cup {No, "zombie", "reaped"}
    BY <2>1, KillType DEF Words
  <2>4. flags' \in Flags /\ killsig' \in {opt.sig, "KILL"} /\ pc' \in Pcs
    BY <1>8, <2>2, AgainType DEF Term, Words
  <2>5. Bools => Bools'
    BY <1>8 DEF Term, Remember, Bools
  <2> QED
    BY <1>8, <2>3, <2>4, <2>5 DEF Term, Words
<1>9. CASE Nothing
  BY <1>9 DEF Nothing, Words, Bools, Pcs
<1>10. CASE Final
  BY <1>10 DEF Final, Words, Bools, Pcs
<1>11. CASE Return
  BY <1>11 DEF Return, Words, Bools, Pcs, Gone
<1>12. CASE Exec /\ pc \notin Gone
  BY <1>12 DEF Exec, Words, Bools, Ours
<1>13. CASE CommandEnds /\ pc \notin Gone
  <2>1. flags' \in Flags /\ pending' \subseteq Masked
    BY <1>13, RaiseType DEF CommandEnds, Words, Masked, Terms
  <2> QED
    BY <1>13, <2>1 DEF CommandEnds, Words, Bools
<1>14. CASE OtherEnds /\ pc \notin Gone
  <2>1. flags' \in Flags /\ pending' \subseteq Masked
    BY <1>14, RaiseType DEF OtherEnds, Words, Masked, Terms
  <2> QED
    BY <1>14, <2>1 DEF OtherEnds, Words, Bools
<1>15. CASE CommandStops /\ pc \notin Gone
  <2>1. flags' \in Flags /\ pending' \subseteq Masked
    BY <1>15, RaiseType DEF CommandStops, Words, Masked, Terms
  <2> QED
    BY <1>15, <2>1 DEF CommandStops, Words, Bools, Ours
<1>16. CASE CommandContinues /\ pc \notin Gone
  <2>1. flags' \in Flags /\ pending' \subseteq Masked
    BY <1>16, RaiseType DEF CommandContinues, Words, Masked, Terms
  <2> QED
    BY <1>16, <2>1 DEF CommandContinues, Words, Bools, Ours
<1>17. CASE Tick
  <2>1. flags' \in Flags /\ pending' \subseteq Masked
    BY <1>17, RaiseType DEF Tick, Words, Masked
  <2> QED
    BY <1>17, <2>1 DEF Tick, Words, Bools
<1>18. CASE Signal
  <2>1. flags' \in Flags /\ pending' \subseteq Masked
    BY <1>18, RaiseType DEF Signal, Words, Masked, Signals, Terms
  <2> QED
    BY <1>18, <2>1 DEF Signal, Words, Bools
<1>19. CASE UNCHANGED vars
  BY <1>19 DEF vars, Words, Bools
<1> QED
  BY <1>1, <1>2, <1>3, <1>4, <1>5, <1>6, <1>7, <1>8, <1>9, <1>10, <1>11, <1>12, <1>13,
     <1>14, <1>15, <1>16, <1>17, <1>18, <1>19 DEF Next, Main

\* Progress is kept, and StatusRight with it: main() returns only what wait() gave.
LEMMA ProgressStep ==
    ASSUME TimeoutConstants, Numbers, Words, Progress, StatusRight, [Next]_vars
    PROVE  Progress' /\ StatusRight'
<1> USE DEF limits, family, history
<1>1. CASE Fork
  BY <1>1 DEF Fork, Progress, StatusRight
<1>2. CASE ForkFails
  BY <1>2 DEF ForkFails, Progress, StatusRight
<1>3. CASE Block
  BY <1>3 DEF Block, Progress, StatusRight
<1>4. CASE Suspend
  BY <1>4 DEF Suspend, Progress, StatusRight
<1>5. CASE Chld
  BY <1>5 DEF Chld, Progress, StatusRight
<1>6. CASE Reap
  BY <1>6 DEF Reap, Progress, StatusRight
<1>7. CASE Alarm
  BY <1>7 DEF Alarm, Again, Progress, StatusRight
<1>8. CASE Term
  BY <1>8 DEF Term, Again, Progress, StatusRight
<1>9. CASE Nothing
  BY <1>9 DEF Nothing, Progress, StatusRight
<1>10. CASE Final
  BY <1>10 DEF Final, Progress, StatusRight
<1>11. CASE Return
  BY <1>11 DEF Return, Returned, EXIT_TIMEOUT, Numbers, Progress, StatusRight
<1>12. CASE Exec /\ pc \notin Gone
  BY <1>12 DEF Exec, Progress, StatusRight, No
<1>13. CASE CommandEnds /\ pc \notin Gone
  BY <1>13 DEF CommandEnds, Raise, Progress, StatusRight, No
<1>14. CASE OtherEnds /\ pc \notin Gone
  BY <1>14 DEF OtherEnds, Raise, Progress, StatusRight
<1>15. CASE CommandStops /\ pc \notin Gone
  BY <1>15 DEF CommandStops, Raise, Progress, StatusRight, No
<1>16. CASE CommandContinues /\ pc \notin Gone
  BY <1>16 DEF CommandContinues, Raise, Progress, StatusRight, No
<1>17. CASE Tick
  BY <1>17 DEF Tick, Progress, StatusRight
<1>18. CASE Signal
  BY <1>18 DEF Signal, Raise, Progress, StatusRight
<1>19. CASE UNCHANGED vars
  BY <1>19 DEF vars, Progress, StatusRight
<1> QED
  BY <1>1, <1>2, <1>3, <1>4, <1>5, <1>6, <1>7, <1>8, <1>9, <1>10, <1>11, <1>12, <1>13,
     <1>14, <1>15, <1>16, <1>17, <1>18, <1>19 DEF Next, Main

\* SIGCHLD has no part in it.
LEMMA AloneChld ==
    ASSUME Words, Progress, Alone, Raise("CHLD"),
           UNCHANGED <<opt, pc, limits, sent, history>>
    PROVE  Alone'
<1>1. /\ flags'.alrm = flags.alrm /\ flags'.term = flags.term /\ flags'.ign = flags.ign
      /\ pending' \subseteq pending \cup {"CHLD"}
  BY HandlerType DEF Raise, Words, Masked
<1> QED
  BY <1>1 DEF Alone, Looping, limits, history, Terms

\* Alone is kept by every step.
LEMMA AloneStep ==
    ASSUME TimeoutConstants, Numbers, Words, Progress, Alone, [Next]_vars
    PROVE  Alone'
<1> USE DEF limits, family, history
<1>1. CASE Fork
  BY <1>1 DEF Fork, Alone, Looping
<1>2. CASE ForkFails
  BY <1>2 DEF ForkFails, Alone, Looping
<1>3. CASE Block
  BY <1>3 DEF Block, Progress, Alone, Looping
<1>4. CASE Suspend
  BY <1>4 DEF Suspend, sig_handler, Words, Alone, Looping, Flags
<1>5. CASE Chld
  BY <1>5 DEF Chld, Alone, Looping
<1>6. CASE Reap
  BY <1>6 DEF Reap, Alone, Looping
<1>7. CASE Alarm
  <2> SUFFICES ASSUME sent = 0
               PROVE  Alone'
    BY <1>7 DEF Alarm, Alone
  <2>a. /\ ~hasty /\ flags.term = No /\ flags.alrm /\ timer = 0
        /\ "ALRM" \notin pending
        /\ \A s \in Terms \cap pending : ~opt.fg /\ flags.ign = s
        /\ since = -1 => second_kill = opt.second /\ flags.ign = No
        /\ since # -1 => killsig = "KILL" /\ since >= opt.second
    BY <1>7 DEF Alarm, Alone, Looping
  <2>f. flags \in Flags /\ killsig \in Signals /\ opt.second \in Nat /\ since \in Int
    BY DEF Words, Numbers, Options, Signals
  <2>1. ~hasty'
    <3>1. ~(since # -1 /\ killsig = "KILL" /\ since < opt.second)
      BY <2>a, <2>f
    <3>2. hasty' = (hasty \/ (since # -1 /\ killsig = "KILL" /\ since < opt.second))
      BY <1>7 DEF Alarm, Remember
    <3> QED
      BY <2>a, <3>1, <3>2, Zenon
  <2>2. flags'.term = No /\ ~flags'.alrm /\ (opt.k => flags'.ign = killsig)
    BY <1>7, <2>a, <2>f DEF Alarm, Again, Flags
  <2>3. CASE pc' = "suspend"
    <3>1. /\ opt.k /\ killsig' = "KILL" /\ timer' = second_kill
          /\ opt.fg \/ killsig # "KILL"
      BY <1>7, <2>3 DEF Alarm, Again, set_interval
    <3>2. "ALRM" \notin pending'
      BY <1>7, <2>a, <2>f DEF Alarm, Kill, Signals
    <3>3. \A s \in Terms \cap pending' : ~opt.fg /\ flags'.ign = s
      BY <1>7, <2>a, <2>2, <3>1 DEF Alarm, Kill, Terms, No
    <3>4. since' = IF since = -1 THEN 0 ELSE since
      BY <1>7 DEF Alarm, Remember
    <3>5. since' >= opt.second \/ (timer' > 0 /\ timer' + since' = opt.second)
      BY <2>a, <2>f, <3>1, <3>4
    <3>6. since' # -1
      BY <2>f, <3>4
    <3>7. opt' = opt /\ sent' = sent
      BY <1>7 DEF Alarm
    <3> QED
      BY <2>1, <2>2, <2>3, <3>1, <3>2, <3>3, <3>5, <3>6, <3>7 DEF Alone, Looping
  <2>4. CASE pc' \in {"killed", "final"}
    BY <2>1, <2>2, <2>4 DEF Alone, Looping
  <2> QED
    BY <1>7, <2>3, <2>4 DEF Alarm, Again
<1>8. CASE Term
  BY <1>8 DEF Term, Alone
<1>9. CASE Nothing
  BY <1>9 DEF Nothing, Alone, Looping
<1>10. CASE Final
  BY <1>10 DEF Final, Alone, Looping
<1>11. CASE Return
  BY <1>11 DEF Return, Alone, Looping
<1>12. CASE Exec /\ pc \notin Gone
  BY <1>12 DEF Exec, Alone, Looping
<1>13. CASE CommandEnds /\ pc \notin Gone
  <2>1. Raise("CHLD") /\ UNCHANGED <<opt, pc, limits, sent, history>>
    BY <1>13 DEF CommandEnds
  <2> QED
    BY <2>1, AloneChld
<1>14. CASE OtherEnds /\ pc \notin Gone
  <2>1. Raise("CHLD") /\ UNCHANGED <<opt, pc, limits, sent, history>>
    BY <1>14 DEF OtherEnds
  <2> QED
    BY <2>1, AloneChld
<1>15. CASE CommandStops /\ pc \notin Gone
  <2>1. Raise("CHLD") /\ UNCHANGED <<opt, pc, limits, sent, history>>
    BY <1>15 DEF CommandStops
  <2> QED
    BY <2>1, AloneChld
<1>16. CASE CommandContinues /\ pc \notin Gone
  <2>1. Raise("CHLD") /\ UNCHANGED <<opt, pc, limits, sent, history>>
    BY <1>16 DEF CommandContinues
  <2> QED
    BY <2>1, AloneChld
<1>17. CASE Tick
  BY <1>17 DEF Tick, Raise, Numbers, Progress, Alone, Looping, Terms
<1>18. CASE Signal
  BY <1>18 DEF Signal, Numbers, Alone
<1>19. CASE UNCHANGED vars
  BY <1>19 DEF vars, Alone, Looping
<1> QED
  BY <1>1, <1>2, <1>3, <1>4, <1>5, <1>6, <1>7, <1>8, <1>9, <1>10, <1>11, <1>12, <1>13,
     <1>14, <1>15, <1>16, <1>17, <1>18, <1>19 DEF Next, Main

\* The invariant holds when main() comes to fork().
LEMMA TimeoutInit == TimeoutConstants /\ Init => TimeoutInv
<1> SUFFICES ASSUME TimeoutConstants, Init
             PROVE  TimeoutInv
  OBVIOUS
<1>1. opt \in Options
  BY DEF Init, Options
<1>2. Numbers
  <2>1. opt.first \in Intervals /\ opt.second \in Intervals
    BY <1>1 DEF Options
  <2>2. status.n = 0
    BY DEF Init, Exits
  <2>3. opt.first \in Nat /\ opt.second \in Nat
    BY <2>1 DEF TimeoutConstants
  <2>4. timer = 0 /\ second_kill = opt.second /\ pstat = -1 /\ sent = 0 /\ since = -1
    BY DEF Init
  <2> QED
    BY <2>1, <2>2, <2>3, <2>4 DEF Numbers
<1>3. Words
  <2>1. flags \in Flags
    BY DEF Init, Flags
  <2> QED
    BY <1>1, <2>1 DEF Init, Words, Pcs
<1>4. Bools
  BY Zenon DEF Init, Bools
<1>5. Progress /\ StatusRight
  BY DEF Init, Progress, StatusRight
<1>6. Alone
  BY DEF Init, Alone
<1> QED
  BY <1>2, <1>3, <1>4, <1>5, <1>6 DEF TimeoutInv

\* The inductive invariant: types, what main() has done at each point, and how
\* timer, alarm and history hang together while nobody interferes.
THEOREM TimeoutInvariant ==
    ASSUME TimeoutConstants
    PROVE  Spec => []TimeoutInv
<1>1. TimeoutInv /\ [Next]_vars => TimeoutInv'
  BY NumbersStep, WordsStep, ProgressStep, AloneStep DEF TimeoutInv
<1> QED
  BY <1>1, TimeoutInit, PTL DEF Spec

\* The state of timeout(1) keeps its types: only signals that can be blocked
\* are ever pending, and the status returned is one a process can return.
THEOREM TimeoutTypeCorrect ==
    ASSUME TimeoutConstants
    PROVE  Spec => []TypeOK
<1>1. TimeoutInv => TypeOK
  <2> SUFFICES ASSUME TimeoutInv
               PROVE  TypeOK
    OBVIOUS
  <2>1. /\ timer \in Nat /\ second_kill \in Intervals \cup {0}
        /\ pstat \in -1..255
    BY DEF TimeoutInv, Numbers
  <2>2. timedout \in BOOLEAN
    BY DEF TimeoutInv, Bools
  <2> QED
    BY <2>1, <2>2, SignalNumbers DEF TimeoutInv, Words, TypeOK, Pcs, Flags, Masked
<1> QED
  BY <1>1, TimeoutInvariant, PTL

\* When timeout returns, a child has been waited for; if it is the command, the
\* status is the command's, or 124 if the time was up and --preserve-status was
\* not given, whatever was pending and in whatever order it was delivered.
THEOREM StatusRightCorrect ==
    ASSUME TimeoutConstants
    PROVE  Spec => []StatusRight
<1>1. TimeoutInv => StatusRight
  BY DEF TimeoutInv
<1> QED
  BY <1>1, TimeoutInvariant, PTL

\* While no signal comes from outside, SIGKILL follows the first signal after
\* the duration given with -k and not before, for every pair of durations.
THEOREM GraceOfTimerCorrect ==
    ASSUME TimeoutConstants
    PROVE  Spec => []GraceOfTimer
<1>1. TimeoutInv => GraceOfTimer
  BY DEF TimeoutInv, Alone, GraceOfTimer, GraceKept
<1> QED
  BY <1>1, TimeoutInvariant, PTL
=============================================================================
