------------------------------ MODULE Crontab ------------------------------
(***************************************************************************)
(* crontab(1): installing, deleting and editing a user's crontab in the     *)
(* spool directory, by several processes at once, with every error return   *)
(* and with signals.  Only the steps other processes can see are separate.  *)
(*                                                                          *)
(* A crontab's text is a version number with three bits: `whole' (it was    *)
(* written completely), `valid' (load_entry() accepts every line) and, as   *)
(* history, `lost' (an I/O error of its copying or checking went unnoticed, *)
(* and `valid' says what the check made of what was left).  Time is the     *)
(* st_mtime clock; an operation that stamps a file may or may not happen in *)
(* a second of its own (SameSecond).                                        *)
(***************************************************************************)
EXTENDS Integers, FiniteSets

CONSTANTS
    Users,        \* owners of crontabs, with a passwd entry
    Procs,        \* crontab processes
    Flaky,        \* those whose reads and writes may fail unnoticed
    SameSecond,   \* BOOLEAN: two operations may carry the same st_mtime
    MaxVersion,   \* bound: how many texts are written
    MaxTime       \* bound: the last time stamp

None == [id |-> 0, mtime |-> 0, whole |-> FALSE, valid |-> FALSE, lost |-> FALSE]
Texts == [id : 0..MaxVersion, mtime : 0..MaxTime,
          whole : BOOLEAN, valid : BOOLEAN, lost : BOOLEAN]

ASSUME CrontabConstants ==
    /\ SameSecond \in BOOLEAN
    /\ MaxVersion \in Nat
    /\ MaxTime \in Nat \ {0}

VARIABLES
    now,          \* the clock that stamps files
    tabs,         \* SPOOL_DIR/<user>: its text, or None
    spoolMtime,   \* st_mtime of SPOOL_DIR
    version,      \* the last version number used
    pc,           \* where a process is
    user,         \* User: whose crontab
    edit,         \* in edit_cmd(): the copy in /tmp being edited, or None
    base,         \* in edit_cmd(): the text copied (utimebuf.modtime is its time)
    mode,         \* Option: "replace" or "edit"
    temp          \* TempFilename: the file in SPOOL_DIR, or None

spool == <<now, tabs, spoolMtime>>
proc == <<version, pc, user, edit, base, mode, temp>>
crontabVars == <<spool, proc>>

TypeOK ==
    /\ now \in 1..MaxTime /\ spoolMtime \in 1..MaxTime
    /\ tabs \in [Users -> Texts]
    /\ version \in 0..MaxVersion
    /\ pc \in [Procs -> {"idle", "edit", "exited", "install", "temp", "checked",
                         "failed", "renamed", "rejected"}]
    /\ user \in [Procs -> Users]
    /\ edit \in [Procs -> Texts]
    /\ base \in [Procs -> Texts]
    /\ mode \in [Procs -> {"replace", "edit"}]
    /\ temp \in [Procs -> Texts]

Init ==
    /\ now = 1 /\ spoolMtime = 1
    /\ tabs = [u \in Users |-> None]
    /\ version = 0
    /\ pc = [p \in Procs |-> "idle"]
    /\ user \in [Procs -> Users]
    /\ edit = [p \in Procs |-> None]
    /\ base = [p \in Procs |-> None]
    /\ mode = [p \in Procs |-> "replace"]
    /\ temp = [p \in Procs |-> None]

-----------------------------------------------------------------------------

\* The clock as an operation that stamps something finds it.
Stamp == /\ now' \in IF SameSecond THEN {now, now + 1} ELSE {now + 1}
         /\ now' <= MaxTime

Goto(p, l) == pc' = [pc EXCEPT ![p] = l]

\* The process is over, and with it what it knew.
Quit(p) ==
    /\ Goto(p, "idle")
    /\ edit' = [edit EXCEPT ![p] = None]
    /\ base' = [base EXCEPT ![p] = None]
    /\ mode' = [mode EXCEPT ![p] = "replace"]

\* The user has a new text: the file given to replace, or an editor's save.
NewText(t, valid) ==
    [id |-> version + 1, mtime |-> t, whole |-> TRUE, valid |-> valid, lost |-> FALSE]

-----------------------------------------------------------------------------
(* delete_cmd(): unlink, then poke_daemon().                                 *)

delete_cmd(p) ==
    /\ pc[p] = "idle"
    /\ tabs[user[p]] # None
    /\ Stamp
    /\ tabs' = [tabs EXCEPT ![user[p]] = None]
    /\ spoolMtime' = now'
    /\ Goto(p, "renamed")
    /\ UNCHANGED <<version, user, edit, base, mode, temp>>

-----------------------------------------------------------------------------
(* edit_cmd().                                                               *)

\* Copy the crontab (or nothing) to a file in /tmp and give the copy the
\* original's time stamp; /dev/null's stands for a missing crontab.
BeginEdit(p) ==
    /\ pc[p] = "idle"
    /\ edit' = [edit EXCEPT ![p] = tabs[user[p]]]
    /\ base' = [base EXCEPT ![p] = tabs[user[p]]]
    /\ mode' = [mode EXCEPT ![p] = "edit"]
    /\ Goto(p, "edit")
    /\ UNCHANGED <<spool, version, user, temp>>

\* The user's editor writes the file.
Save(p, valid) ==
    /\ pc[p] = "edit" /\ version < MaxVersion
    /\ Stamp
    /\ version' = version + 1
    /\ edit' = [edit EXCEPT ![p] = NewText(now', valid)]
    /\ UNCHANGED <<tabs, spoolMtime, pc, user, base, mode, temp>>

\* Mutant: the wrong file is asked for its time stamp.
EditorDoneWrongFile(p) ==
    /\ pc[p] = "edit"
    /\ IF tabs[user[p]].mtime = base[p].mtime
       THEN Goto(p, "exited")
       ELSE Goto(p, "install")
    /\ UNCHANGED <<spool, version, user, edit, base, mode, temp>>

\* The editor exits with status 0: the copy's time stamp decides whether
\* there is anything to install.
EditorDone(p) ==
    /\ pc[p] = "edit"
    /\ IF edit[p].mtime = base[p].mtime
       THEN Goto(p, "exited")
       ELSE Goto(p, "install")
    /\ UNCHANGED <<spool, version, user, edit, base, mode, temp>>

\* The editor fails or is killed; the copy is removed ("fatal:").
EditorFails(p) ==
    /\ pc[p] = "edit"
    /\ Quit(p)
    /\ UNCHANGED <<spool, version, user, temp>>

\* "no changes made to crontab", then the copy is unlinked ("remove:").
RemoveEdit(p) ==
    /\ pc[p] = "exited"
    /\ Quit(p)
    /\ UNCHANGED <<spool, version, user, temp>>

\* replace_cmd() returned -1: retry the same edit, or leave it in /tmp.
Rejected(p, again) ==
    /\ pc[p] = "rejected"
    /\ again => mode[p] = "edit"
    /\ IF again THEN Goto(p, "edit") /\ UNCHANGED <<edit, base, mode>> ELSE Quit(p)
    /\ UNCHANGED <<spool, version, user, temp>>

-----------------------------------------------------------------------------
(* replace_cmd().                                                            *)

\* crontab file: NewCrontab is a text of the user's, whose time is not asked.
BeginReplace(p, valid) ==
    /\ pc[p] = "idle" /\ version < MaxVersion
    /\ version' = version + 1
    /\ edit' = [edit EXCEPT ![p] = NewText(0, valid)]
    /\ Goto(p, "install")
    /\ UNCHANGED <<spool, user, base, mode, temp>>

\* mkstemp() in SPOOL_DIR ...
MakeTemp(p) ==
    /\ pc[p] = "install"
    /\ Stamp
    /\ spoolMtime' = now'
    /\ temp' = [temp EXCEPT ![p] = [edit[p] EXCEPT !.mtime = now', !.whole = FALSE]]
    /\ Goto(p, "temp")
    /\ UNCHANGED <<tabs, version, user, edit, base, mode>>

\* ... or env_init(), glue_strings(), mkstemp() or fdopen() fails.
MakeTempFails(p) ==
    /\ pc[p] = "install"
    /\ Quit(p)
    /\ UNCHANGED <<spool, version, user, temp>>

\* Mutant: CheckErrorCount is not looked at.
CheckTempIgnored(t) == "checked"

\* The syntax check: load_env() and load_entry() over the whole file.
CheckTemp(t) == IF t.valid THEN "checked" ELSE "failed"

\* What copying and checking make of the file: all of the text, or less.  A
\* failing getc() is taken for the end of the text or of the file, and the
\* error indicator a failing putc() or fflush() sets is cleared by rewind()
\* just before ferror() asks for it, so that nobody hears of either.
Copies(p) ==
    {[temp[p] EXCEPT !.whole = TRUE]}
        \cup {[temp[p] EXCEPT !.lost = TRUE, !.valid = v] :
                 v \in {w \in BOOLEAN : p \in Flaky}}

\* Header and text are copied and flushed, and the text is checked.
WriteTemp(p) ==
    /\ pc[p] = "temp"
    /\ Stamp
    /\ \E t \in Copies(p) :
          /\ temp' = [temp EXCEPT ![p] = [t EXCEPT !.mtime = now']]
          /\ Goto(p, CheckTemp(t))
    /\ UNCHANGED <<tabs, spoolMtime, version, user, edit, base, mode>>

\* rename() puts the file in place.
Rename(p) ==
    /\ pc[p] = "checked"
    /\ Stamp
    /\ tabs' = [tabs EXCEPT ![user[p]] = temp[p]]
    /\ spoolMtime' = now'
    /\ temp' = [temp EXCEPT ![p] = None]
    /\ Goto(p, "renamed")
    /\ UNCHANGED <<version, user, edit, base, mode>>

\* fchown(), fclose(), glue_strings() or rename() fails: "done:" unlinks
\* TempFilename, and an edit is left in /tmp.
InstallFails(p) ==
    /\ pc[p] = "checked"
    /\ Stamp
    /\ spoolMtime' = now'
    /\ temp' = [temp EXCEPT ![p] = None]
    /\ Quit(p)
    /\ UNCHANGED <<tabs, version, user>>

\* The same for a syntax error, which is the caller's to handle.
Cleanup(p) ==
    /\ pc[p] = "failed"
    /\ Stamp
    /\ spoolMtime' = now'
    /\ temp' = [temp EXCEPT ![p] = None]
    /\ Goto(p, "rejected")
    /\ UNCHANGED <<tabs, version, user, edit, base, mode>>

\* Mutant: the directory is stamped with a time that has not come.
poke_daemonAhead(p) ==
    /\ pc[p] = "renamed"
    /\ Stamp /\ spoolMtime' = now' + 1
    /\ Quit(p)
    /\ UNCHANGED <<tabs, version, user, temp>>

\* poke_daemon(): utime(SPOOL_DIR), which may fail; the process is done.
poke_daemon(p) ==
    /\ pc[p] = "renamed"
    /\ \/ Stamp /\ spoolMtime' = now'
       \/ UNCHANGED <<now, spoolMtime>>
    /\ Quit(p)
    /\ UNCHANGED <<tabs, version, user, temp>>

\* SIGHUP, SIGINT or SIGQUIT while replace_cmd() is at work.
die(p) ==
    /\ pc[p] \in {"temp", "checked", "failed", "renamed"}
    /\ IF temp[p] # None THEN Stamp /\ spoolMtime' = now'
                         ELSE UNCHANGED <<now, spoolMtime>>
    /\ temp' = [temp EXCEPT ![p] = None]
    /\ Quit(p)
    /\ UNCHANGED <<tabs, version, user>>

\* Any other death, or one before the handlers are set: the temporary file
\* stays in SPOOL_DIR under a name no user has, and cron skips it.
Killed(p) ==
    /\ pc[p] \in {"temp", "checked", "failed"}
    /\ temp' = [temp EXCEPT ![p] = None]
    /\ Quit(p)
    /\ UNCHANGED <<spool, version, user>>

Step(p) ==
    \/ delete_cmd(p)
    \/ BeginEdit(p) \/ EditorDone(p) \/ EditorFails(p) \/ RemoveEdit(p)
    \/ \E valid \in BOOLEAN : Save(p, valid) \/ BeginReplace(p, valid)
    \/ \E again \in BOOLEAN : Rejected(p, again)
    \/ MakeTemp(p) \/ MakeTempFails(p) \/ WriteTemp(p)
    \/ Rename(p) \/ InstallFails(p) \/ Cleanup(p) \/ poke_daemon(p)
    \/ die(p) \/ Killed(p)

Next == \E p \in Procs : Step(p)

-----------------------------------------------------------------------------
(* Properties.                                                               *)

\* A crontab in the spool is complete and passed the syntax check at every
\* moment, whatever fails or dies in the middle of replace_cmd(): the file is
\* built under another name and moved into place by rename().  An I/O error of
\* its copying is excepted: replace_cmd() does not notice one, against its
\* message "error while writing new crontab to %s".
SpoolAlwaysValid ==
    \A u \in Users : tabs[u] # None => tabs[u].lost \/ (tabs[u].whole /\ tabs[u].valid)

\* crontab.1 on -e: "After you exit from the editor, the modified crontab will
\* be installed automatically."  edit_cmd() says "no changes made" only of a
\* copy the editor did not change.
EditNeverDropped ==
    \A p \in Procs : pc[p] = "exited" => edit[p].id = base[p].id
=============================================================================
