---------------------------- MODULE CronDatabase ----------------------------
(***************************************************************************)
(* load_database() and process_crontab(): the daemon's copy of the          *)
(* crontabs, refreshed once a minute while crontab(1) and the administrator *)
(* change the files.  Every system call that looks at a file is a step of   *)
(* its own.  The doubly linked list of users is the function db.loaded.     *)
(***************************************************************************)
EXTENDS Integers, FiniteSets

CONSTANTS
    Users,        \* user names: the files in SPOOL_DIR
    NoPasswd,     \* those getpwnam() does not know
    Unfit,        \* those whose file is not regular, 0600, owned well, nlink 1
    Sys,          \* "*system*": the crontab SYSCRONTAB
    MayFail,      \* names for which open(), malloc() ... may fail
    None          \* the text that is not there

VARIABLES
    tabs,         \* SPOOL_DIR/<user>, shared with crontab(1)
    spoolMtime,   \* st_mtime of SPOOL_DIR, likewise
    sys,          \* SYSCRONTAB: its text, or None
    db,           \* the database: its mtime, and what is loaded for each name
    lpc,          \* where load_database() is
    st,           \* statbuf.st_mtime: what stat(SPOOL_DIR) said, while it matters
    newdb,        \* new_db
    todo          \* the directory entries readdir() has yet to return

load == <<db, lpc, st, newdb, todo>>
Names == Users \cup {Sys}
Empty == [n \in Names |-> None]

TMAX(a, b) == IF a > b THEN a ELSE b
File(n) == IF n = Sys THEN sys ELSE tabs[n]

LoadInit ==
    /\ db = [mtime |-> 0, loaded |-> Empty]
    /\ lpc = "idle"
    /\ st = 0
    /\ newdb = [mtime |-> 0, loaded |-> Empty]
    /\ todo = {}

\* stat(SPOOL_DIR), before anything is read.
StatSpool ==
    /\ lpc = "idle"
    /\ st' = spoolMtime
    /\ lpc' = "stat"
    /\ UNCHANGED <<db, newdb, todo>>

\* Mutant: SPOOL_DIR's time is not looked at.
StatSysAlone ==
    /\ lpc = "stat"
    /\ st' = 0
    /\ IF db.mtime = sys.mtime
       THEN lpc' = "idle" /\ UNCHANGED <<newdb, todo>>
       ELSE /\ lpc' = "load"
            /\ newdb' = [mtime |-> sys.mtime, loaded |-> Empty]
            /\ todo' = Users \cup (IF sys.mtime # 0 THEN {Sys} ELSE {})
    /\ UNCHANGED db

\* stat(SYSCRONTAB), 0 if it is not there; return if nothing is new.
StatSys ==
    LET m == TMAX(st, sys.mtime)
    IN  /\ lpc = "stat"
        /\ st' = 0
        /\ IF db.mtime = m
           THEN lpc' = "idle" /\ UNCHANGED <<newdb, todo>>
           ELSE /\ lpc' = "load"
                /\ newdb' = [mtime |-> m, loaded |-> Empty]
                /\ todo' = Users \cup (IF sys.mtime # 0 THEN {Sys} ELSE {})
        /\ UNCHANGED db

\* process_crontab() accepts the file: the owner exists, it can be opened, and
\* type, mode, owner and link count are as they must be.
Accepts(n) == n \notin NoPasswd \cup Unfit /\ File(n) # None

\* The user structure process_crontab() links into the new database: the old
\* one if its mtime is the file's, else what load_user() reads now.
Fresh(n) == IF db.loaded[n] # None /\ db.loaded[n].mtime = File(n).mtime
            THEN db.loaded[n] ELSE File(n)

\* One call of process_crontab(): SYSCRONTAB first, then the directory.
process_crontab(n) ==
    /\ lpc = "load" /\ n \in todo
    /\ Sys \in todo => n = Sys
    /\ todo' = todo \ {n}
    /\ \/ /\ Accepts(n)
          /\ newdb' = [newdb EXCEPT !.loaded[n] = Fresh(n)]
       \/ /\ ~Accepts(n) \/ n \in MayFail
          /\ UNCHANGED newdb
    /\ UNCHANGED <<db, lpc, st>>

\* Mutant: the directory's time is taken when the load is over.
ReplaceRestat ==
    /\ lpc = "load" /\ todo = {}
    /\ db' = [newdb EXCEPT !.mtime = TMAX(spoolMtime, sys.mtime)]
    /\ lpc' = "idle"
    /\ newdb' = [mtime |-> 0, loaded |-> Empty]
    /\ UNCHANGED <<st, todo>>

\* Users left in the old database are freed; the new one takes its place.
Replace ==
    /\ lpc = "load" /\ todo = {}
    /\ db' = newdb
    /\ lpc' = "idle"
    /\ newdb' = [mtime |-> 0, loaded |-> Empty]
    /\ UNCHANGED <<st, todo>>

LoadStep == StatSpool \/ StatSys \/ (\E n \in Names : process_crontab(n)) \/ Replace

-----------------------------------------------------------------------------

\* What ought to be loaded for n.
OnDisk(n) == IF Accepts(n) THEN File(n).id ELSE None.id

\* The database holds what is on disk for n.
Current(n) == db.loaded[n].id = OnDisk(n)

\* When load_database() would return early, no crontab has changed and no file
\* that exists goes unnoticed: the time stamps are a sound test for "we don't
\* need to fiddle with the database".  (A removed SYSCRONTAB is left out: only
\* the larger of the two stamps is compared, and its going unnoticed is what
\* the code does.)
EarlyReturnSound ==
    lpc = "idle" /\ db.mtime = TMAX(spoolMtime, sys.mtime)
        => \A n \in Names \ MayFail : n \in Users \/ sys # None => Current(n)

\* After the last change of a crontab the daemon comes to run exactly what is
\* on disk, and keeps doing so.
EventuallyLoaded ==
    <>[](\A n \in Names \ MayFail : n \in Users \/ sys # None => Current(n))
=============================================================================
