------------------------------ MODULE CronJob ------------------------------
(***************************************************************************)
(* One job: child_process() and the processes and pipes around it.          *)
(*                                                                          *)
(*   M  the child of cron that runs child_process()                         *)
(*   C  the user's command (the "grandchild"); B  a process C leaves behind *)
(*   F  the process that writes the input behind a % to C                   *)
(*   S  the mailer started by cron_popen()                                  *)
(*                                                                          *)
(* A pipe is who can read it, who can write it and how much is in it: a     *)
(* reader waits for data and sees EOF when nobody can write, a writer waits *)
(* for room and gets SIGPIPE when nobody can read.                          *)
(***************************************************************************)
EXTENDS Integers, FiniteSets

CONSTANTS
    Capacity,     \* of a pipe
    MaxInput,     \* bound: units of input behind the %
    MaxOutput     \* bound: units of output

\* What is assumed of the constants.
CronJobConstants == {Capacity, MaxInput, MaxOutput} \subseteq Nat /\ Capacity > 0

Procs == {"M", "C", "B", "F", "S"}
Pipes == {"stdin", "stdout", "mail"}

VARIABLES
    pc,           \* where a process is; "none" before it is forked
    rd, wr,       \* who has the read and the write end of a pipe
    buf,          \* what is in it
    children,     \* M's count
    hold,         \* M has read a character and not yet dealt with it
    input,        \* what F has yet to write
    greedy,       \* C reads its input to the end before it exits
    wrote, sent,  \* how much C and B wrote, and M passed on to S
    mailto,       \* "nobody": MAILTO=""; "safe", "unsafe": what safe_p() says
    reaped        \* children M has waited for

data == <<children, hold, input, greedy, wrote, sent, mailto, reaped>>
vars == <<pc, rd, wr, buf, data>>

TypeOK ==
    /\ pc \in [Procs -> {"none", "start", "forked", "closed", "fed", "first", "mail",
                         "copy", "pclose", "waitmail", "close", "wait", "done",
                         "killed", "run", "zombie"}]
    /\ rd \in [Pipes -> SUBSET Procs] /\ wr \in [Pipes -> SUBSET Procs]
    /\ buf \in [Pipes -> 0..Capacity]
    /\ children \in 0..2
    /\ hold \in BOOLEAN /\ greedy \in BOOLEAN
    /\ input \in 0..MaxInput
    /\ wrote \in 0..MaxOutput /\ sent \in 0..MaxOutput
    /\ mailto \in {"nobody", "safe", "unsafe"}
    /\ reaped \subseteq {"C", "F", "S"}

\* The pipes to the command have been made.
Init ==
    /\ pc = [p \in Procs |-> IF p = "M" THEN "start" ELSE "none"]
    /\ rd = [q \in Pipes |-> IF q = "mail" THEN {} ELSE {"M"}]
    /\ wr = rd
    /\ buf = [q \in Pipes |-> 0]
    /\ children = 0 /\ hold = FALSE
    /\ wrote = 0 /\ sent = 0 /\ reaped = {}
    /\ input \in 0..MaxInput
    /\ greedy \in BOOLEAN
    /\ mailto \in {"nobody", "safe", "unsafe"}

-----------------------------------------------------------------------------

At(p, l) == pc[p] = l
Goto(p, l) == pc' = [pc EXCEPT ![p] = l]
Drop(ends, p) == [q \in Pipes |-> ends[q] \ {p}]

\* p is gone and all its descriptors with it; a child of M awaits wait().
Exit(p) ==
    /\ Goto(p, CASE p = "M" -> "killed" [] p = "B" -> "done" [] OTHER -> "zombie")
    /\ rd' = Drop(rd, p) /\ wr' = Drop(wr, p)

Eof(q) == buf[q] = 0 /\ wr[q] = {}
Get(q) == buf[q] > 0 /\ buf' = [buf EXCEPT ![q] = @ - 1]
Put(q) == rd[q] # {} /\ buf[q] < Capacity /\ buf' = [buf EXCEPT ![q] = @ + 1]

-----------------------------------------------------------------------------
(* M: child_process().                                                       *)

\* vfork(): when M runs again C has closed the ends that are M's.
Vfork ==
    /\ At("M", "start")
    /\ pc' = [pc EXCEPT !["M"] = "forked", !["C"] = "run"]
    /\ rd' = [rd EXCEPT !["stdin"] = @ \cup {"C"}]
    /\ wr' = [wr EXCEPT !["stdout"] = @ \cup {"C"}]
    /\ UNCHANGED <<buf, data>>

VforkFails ==
    /\ At("M", "start")
    /\ Exit("M")
    /\ UNCHANGED <<buf, data>>

\* "close the ends of the pipe that will only be referenced in the grandchild".
CloseEnds ==
    /\ At("M", "forked")
    /\ rd' = [rd EXCEPT !["stdin"] = @ \ {"M"}]
    /\ wr' = [wr EXCEPT !["stdout"] = @ \ {"M"}]
    /\ children' = children + 1
    /\ Goto("M", "closed")
    /\ UNCHANGED <<buf, hold, input, greedy, wrote, sent, mailto, reaped>>

\* if (*input_data && fork() == 0): F is there, or not, or fork() fails.
ForkFeeder ==
    /\ At("M", "closed")
    /\ \/ /\ input > 0
          /\ pc' = [pc EXCEPT !["M"] = "fed", !["F"] = "start"]
          /\ rd' = [rd EXCEPT !["stdout"] = @ \cup {"F"}]
          /\ wr' = [wr EXCEPT !["stdin"] = @ \cup {"F"}]
       \/ Goto("M", "fed") /\ UNCHANGED <<rd, wr>>
    /\ UNCHANGED <<buf, data>>

\* Mutant: M keeps the pipe to C's stdin open.
CloseInKept ==
    /\ At("M", "fed")
    /\ children' = children + 1
    /\ Goto("M", "first")
    /\ UNCHANGED <<rd, wr, buf, hold, input, greedy, wrote, sent, mailto, reaped>>

\* Mutant: the process that feeds C is not counted.
CloseInUncounted ==
    /\ At("M", "fed")
    /\ wr' = [wr EXCEPT !["stdin"] = @ \ {"M"}]
    /\ Goto("M", "first")
    /\ UNCHANGED <<rd, buf, data>>

\* close(stdin_pipe[WRITE_PIPE]); children++.
CloseIn ==
    /\ At("M", "fed")
    /\ wr' = [wr EXCEPT !["stdin"] = @ \ {"M"}]
    /\ children' = children + 1
    /\ Goto("M", "first")
    /\ UNCHANGED <<rd, buf, hold, input, greedy, wrote, sent, mailto, reaped>>

\* ch = getc(in).
ReadFirst ==
    /\ At("M", "first")
    /\ \/ Get("stdout") /\ hold' = TRUE /\ Goto("M", "mail")
       \/ Eof("stdout") /\ Goto("M", "close") /\ UNCHANGED <<buf, hold>>
    /\ UNCHANGED <<rd, wr, children, input, greedy, wrote, sent, mailto, reaped>>

\* Mutant: the character that was read to see whether there is output is lost.
OpenMailDropsFirst ==
    /\ At("M", "mail") /\ mailto = "safe"
    /\ pc' = [pc EXCEPT !["M"] = "copy", !["S"] = "run"]
    /\ rd' = [rd EXCEPT !["mail"] = {"S"}, !["stdout"] = @ \cup {"S"}]
    /\ wr' = [wr EXCEPT !["mail"] = {"M"}]
    /\ hold' = FALSE
    /\ UNCHANGED <<buf, children, input, greedy, wrote, sent, mailto, reaped>>

\* cron_popen(): S has the mail pipe, and a copy of M's end of stdout.
OpenMail ==
    /\ At("M", "mail") /\ mailto = "safe"
    /\ pc' = [pc EXCEPT !["M"] = "copy", !["S"] = "run"]
    /\ rd' = [rd EXCEPT !["mail"] = {"S"}, !["stdout"] = @ \cup {"S"}]
    /\ wr' = [wr EXCEPT !["mail"] = {"M"}]
    /\ UNCHANGED <<buf, data>>

\* cron_popen() fails: _exit(ERROR_EXIT).
OpenMailFails ==
    /\ At("M", "mail") /\ mailto = "safe"
    /\ Exit("M")
    /\ UNCHANGED <<buf, data>>

\* No mail: MAILTO is empty, or safe_p() does not like the name.
NoMail ==
    /\ At("M", "mail") /\ mailto # "safe"
    /\ hold' = FALSE
    /\ Goto("M", "copy")
    /\ UNCHANGED <<rd, wr, buf, children, input, greedy, wrote, sent, mailto, reaped>>

\* while (EOF != (ch = getc(in))).
ReadMore ==
    /\ At("M", "copy") /\ ~hold
    /\ \/ /\ Get("stdout")
          /\ hold' = (mailto # "nobody")
          /\ UNCHANGED pc
       \/ /\ Eof("stdout")
          /\ Goto("M", IF mailto # "nobody" THEN "pclose" ELSE "close")
          /\ UNCHANGED <<buf, hold>>
    /\ UNCHANGED <<rd, wr, children, input, greedy, wrote, sent, mailto, reaped>>

\* putc(ch, mail) ...
PutMail ==
    /\ At("M", "copy") /\ hold /\ mailto = "safe"
    /\ Put("mail")
    /\ sent' = sent + 1
    /\ hold' = FALSE
    /\ UNCHANGED <<pc, rd, wr, children, input, greedy, wrote, mailto, reaped>>

\* ... to a mailer that is gone ...
PutMailPipe ==
    /\ At("M", "copy") /\ hold /\ mailto = "safe"
    /\ rd["mail"] = {}
    /\ Exit("M")
    /\ UNCHANGED <<buf, data>>

\* ... or, if safe_p() said no, to a stream that was never opened: M crashes,
\* or happens to go on.
PutMailWild ==
    /\ At("M", "copy") /\ hold /\ mailto = "unsafe"
    /\ hold' = FALSE
    /\ Exit("M") \/ UNCHANGED <<pc, rd, wr>>
    /\ UNCHANGED <<buf, children, input, greedy, wrote, sent, mailto, reaped>>

\* cron_pclose(): close the pipe and wait for S ...
ClosePipe ==
    /\ At("M", "pclose") /\ mailto = "safe"
    /\ wr' = [wr EXCEPT !["mail"] = @ \ {"M"}]
    /\ Goto("M", "waitmail")
    /\ UNCHANGED <<rd, buf, data>>

\* ... or return -1, as nothing was popened for an unsafe name.
ClosePipeNone ==
    /\ At("M", "pclose") /\ mailto = "unsafe"
    /\ Goto("M", "close")
    /\ UNCHANGED <<rd, wr, buf, data>>

WaitMail ==
    /\ At("M", "waitmail") /\ At("S", "zombie")
    /\ reaped' = reaped \cup {"S"}
    /\ Goto("M", "close")
    /\ UNCHANGED <<rd, wr, buf, children, hold, input, greedy, wrote, sent, mailto>>

\* fclose(in).
CloseOut ==
    /\ At("M", "close")
    /\ rd' = [rd EXCEPT !["stdout"] = @ \ {"M"}]
    /\ Goto("M", "wait")
    /\ UNCHANGED <<wr, buf, data>>

Unwaited == {p \in {"C", "F", "S"} : pc[p] # "none"} \ reaped

\* for (; children > 0; children--) wait(): any child that is dead ...
WaitChild ==
    /\ At("M", "wait") /\ children > 0
    /\ \E p \in Unwaited : At(p, "zombie") /\ reaped' = reaped \cup {p}
    /\ children' = children - 1
    /\ UNCHANGED <<pc, rd, wr, buf, hold, input, greedy, wrote, sent, mailto>>

\* ... until the count is down or wait() finds no child.
WaitOver ==
    /\ At("M", "wait")
    /\ children = 0 \/ Unwaited = {}
    /\ Goto("M", "done")
    /\ rd' = Drop(rd, "M") /\ wr' = Drop(wr, "M")
    /\ UNCHANGED <<buf, data>>

MStep ==
    \/ Vfork \/ VforkFails \/ CloseEnds \/ ForkFeeder \/ CloseIn
    \/ ReadFirst \/ OpenMail \/ OpenMailFails \/ NoMail
    \/ ReadMore \/ PutMail \/ PutMailPipe \/ PutMailWild \/ ClosePipe \/ ClosePipeNone \/ WaitMail
    \/ CloseOut \/ WaitChild \/ WaitOver

-----------------------------------------------------------------------------
(* F: "child2 sending data to grandchild".                                   *)

FeedStart ==
    /\ At("F", "start")
    /\ rd' = [rd EXCEPT !["stdout"] = @ \ {"F"}]
    /\ Goto("F", "run")
    /\ UNCHANGED <<wr, buf, data>>

FeedPut ==
    /\ At("F", "run") /\ input > 0
    /\ Put("stdin")
    /\ input' = input - 1
    /\ UNCHANGED <<pc, rd, wr, children, hold, greedy, wrote, sent, mailto, reaped>>

\* fclose(out), exit(0); or SIGPIPE.
FeedExit ==
    /\ At("F", "run")
    /\ input = 0 \/ rd["stdin"] = {}
    /\ Exit("F")
    /\ UNCHANGED <<buf, data>>

FStep == FeedStart \/ FeedPut \/ FeedExit

-----------------------------------------------------------------------------
(* The command, what it leaves behind, and the mailer.                       *)

CommandGet ==
    /\ At("C", "run") /\ Get("stdin")
    /\ UNCHANGED <<pc, rd, wr, data>>

Output(p) ==
    /\ At(p, "run") /\ p \in wr["stdout"] /\ wrote < MaxOutput
    /\ Put("stdout")
    /\ wrote' = wrote + 1
    /\ UNCHANGED <<pc, rd, wr, children, hold, input, greedy, sent, mailto, reaped>>

\* C closes or redirects its output and goes on.
Redirect ==
    /\ At("C", "run") /\ "C" \in wr["stdout"]
    /\ wr' = [wr EXCEPT !["stdout"] = @ \ {"C"}]
    /\ UNCHANGED <<pc, rd, buf, data>>

Background ==
    /\ At("C", "run") /\ At("B", "none")
    /\ Goto("B", "run")
    /\ rd' = [q \in Pipes |-> rd[q] \cup IF "C" \in rd[q] THEN {"B"} ELSE {}]
    /\ wr' = [q \in Pipes |-> wr[q] \cup IF "C" \in wr[q] THEN {"B"} ELSE {}]
    /\ UNCHANGED <<buf, data>>

CommandExit ==
    /\ At("C", "run") /\ (greedy => Eof("stdin"))
    /\ Exit("C")
    /\ UNCHANGED <<buf, data>>

BackgroundExit ==
    /\ At("B", "run")
    /\ Exit("B")
    /\ UNCHANGED <<buf, data>>

MailerGet ==
    /\ At("S", "run") /\ Get("mail")
    /\ UNCHANGED <<pc, rd, wr, data>>

MailerExit ==
    /\ At("S", "run") /\ Eof("mail")
    /\ Exit("S")
    /\ UNCHANGED <<buf, data>>

\* The mailer fails, or cannot be executed.
MailerFails ==
    /\ At("S", "run") /\ ~Eof("mail")
    /\ Exit("S")
    /\ UNCHANGED <<buf, data>>

Next ==
    \/ MStep \/ FStep
    \/ CommandGet \/ Output("C") \/ Output("B") \/ Redirect \/ Background
    \/ CommandExit \/ BackgroundExit
    \/ MailerGet \/ MailerExit \/ MailerFails

Spec == Init /\ [][Next]_vars

\* Every process runs when it can; the user's command and what it leaves
\* behind end at some time.
FairSpec ==
    /\ Spec
    /\ WF_vars(MStep) /\ WF_vars(FStep)
    /\ WF_vars(CommandGet) /\ WF_vars(CommandExit) /\ WF_vars(BackgroundExit)
    /\ WF_vars(MailerGet) /\ WF_vars(MailerExit)

-----------------------------------------------------------------------------

\* Nobody waits for ever: if the command and what it leaves behind end, so
\* does the job, whether or not the command reads its input, fills the pipe,
\* closes its output, or the mailer fails.
JobEnds == <>(pc["M"] \in {"done", "killed"})

\* A job that runs to its end has waited for each of its children: the count
\* of child_process() is never below the number of those still to come.
AllChildrenReaped == pc["M"] = "done" => Unwaited = {}

\* Whatever the command and its background processes wrote is passed on to the
\* mailer, all of it, before the job ends.
OutputMailed == pc["M"] = "done" /\ mailto = "safe" => sent = wrote
=============================================================================
