----------------------------- MODULE CronSpool -----------------------------
(***************************************************************************)
(* The daemon's database and the crontab(1) processes over one spool        *)
(* directory, with an administrator who edits SYSCRONTAB in place.          *)
(***************************************************************************)
EXTENDS Crontab

CONSTANTS NoPasswd, Unfit, Sys, MayFail  \* see CronDatabase

\* "*system*", the name of SYSCRONTAB in the database, is no user's.
ASSUME SpoolConstants == Sys \notin Users

VARIABLES sys, db, lpc, st, newdb, todo

DB == INSTANCE CronDatabase

loadVars == <<db, lpc, st, newdb, todo>>
allVars == <<crontabVars, sys, loadVars>>

SpoolInit ==
    /\ Init
    /\ DB!LoadInit
    /\ sys = None

\* The administrator writes SYSCRONTAB in place.
EditSys ==
    /\ version < MaxVersion
    /\ Stamp
    /\ version' = version + 1
    /\ sys' = NewText(now', TRUE)
    /\ UNCHANGED <<tabs, spoolMtime, pc, user, edit, base, mode, temp, loadVars>>

RemoveSys ==
    /\ sys # None
    /\ sys' = None
    /\ UNCHANGED <<crontabVars, loadVars>>

SpoolNext ==
    \/ Next /\ UNCHANGED <<sys, loadVars>>
    \/ DB!LoadStep /\ UNCHANGED <<crontabVars, sys>>
    \/ EditSys
    \/ RemoveSys

SpoolSpec == SpoolInit /\ [][SpoolNext]_allVars

\* The daemon calls load_database() at the end of every turn of its loop.
FairSpoolSpec ==
    SpoolSpec /\ WF_allVars(DB!LoadStep /\ UNCHANGED <<crontabVars, sys>>)

\* The early return of load_database() is sound against crontab(1) and the
\* administrator at work; see CronDatabase.
EarlyReturnSound == DB!EarlyReturnSound

\* Whatever was last installed, deleted or edited is what the daemon ends up
\* running; see CronDatabase.
EventuallyLoaded == DB!EventuallyLoaded
=============================================================================
