----------------------------- MODULE CronEntry -----------------------------
(***************************************************************************)
(* load_entry() and the test of find_jobs(): from a crontab line to the     *)
(* minutes in which its command runs.  The five bit strings of an entry lie *)
(* behind one another in memory, and the bitstring(3) macros are called     *)
(* with one bit too many (a count where the last bit is wanted): `mem' is   *)
(* that piece of memory.  How a field's text becomes numbers is CronField's *)
(* subject; here a field is what it says, and how it was written.           *)
(***************************************************************************)
EXTENDS Integers, Sequences

CONSTANTS
    Lines,        \* the crontab lines considered
    Dates         \* the moments at which find_jobs() looks

First == [minute |-> 0, hour |-> 0, dom |-> 1, month |-> 1, dow |-> 0]
Last == [minute |-> 59, hour |-> 23, dom |-> 31, month |-> 12, dow |-> 7]
Fields == {"minute", "hour", "dom", "month", "dow"}
Specials == {"reboot", "yearly", "monthly", "weekly", "daily", "hourly"}

\* A line is "@special" or five fields, a user name if it is SYSCRONTAB's, and
\* the text behind them, up to its newline.  A field is written "*", "*/n" or as
\* a list, has a set of numbers, and parses or not.  The name is the spool
\* file's own, one getpwnam() knows or not, or stands alone on the line.
UserNames == {"own", "known", "unknown", "alone"}
Newline == "newline"
Blank == " "
Chars == {"-", "q", "x", "*", Blank, Newline}

S == INSTANCE SequencesExt

\* What is assumed of the constants.
CronEntryConstants ==
    /\ \A l \in Lines : /\ l.special \in Specials \cup {"", "other"}
                        /\ l.user \in UserNames
                        /\ l.text \in Seq(Chars)
                        /\ l.memory \in BOOLEAN  \* no malloc() fails
                        /\ \A f \in Fields : /\ l.fields[f].text \in {"*", "*/n", "list"}
                                             /\ l.fields[f].set \subseteq First[f]..Last[f]
                                             /\ l.fields[f].ok \in BOOLEAN
    /\ \A d \in Dates : \A f \in Fields : d[f] \in First[f]..Last[f]
    /\ \A d \in Dates : d["dow"] # 7

VARIABLES
    line,         \* the line being read
    mem,          \* the bits of e->minute ... e->dow that are set, by address
    flags,        \* e->flags
    at,           \* the next thing to parse: 1..5 a field, 6 the name, 7 the text
    rest,         \* the text get_char() has yet to return
    cmd,          \* e->cmd
    result        \* "reading", "entry" or "NULL"

vars == <<line, mem, flags, at, rest, cmd, result>>

-----------------------------------------------------------------------------
(* bitstring.h over the layout of struct _entry.                             *)

Bytes(f) == (Last[f] - First[f]) \div 8 + 1
Base == LET hour == 8 * Bytes("minute")
            dom == hour + 8 * Bytes("hour")
            month == dom + 8 * Bytes("dom")
            dow == month + 8 * Bytes("month")
        IN  [minute |-> 0, hour |-> hour, dom |-> dom, month |-> month, dow |-> dow]

Bit(f, v) == Base[f] + v - First[f]

\* bit_nset() and bit_nclear() go up to and including their last argument,
\* and load_entry() and get_list() pass the number of values.
Span(f) == Base[f]..(Base[f] + (Last[f] - First[f] + 1))

bit_test(f, v) == Bit(f, v) \in mem

-----------------------------------------------------------------------------

Init ==
    /\ line \in Lines
    /\ mem = {}
    /\ flags = {}
    /\ at = 1
    /\ rest = line.text
    /\ cmd = <<>>
    /\ result = "reading"

TypeOK ==
    /\ line \in Lines
    /\ mem \subseteq 0..(Base["dow"] + 8)
    /\ flags \subseteq {"MIN_STAR", "HR_STAR", "DOM_STAR", "DOW_STAR", "WHEN_REBOOT", "DONT_LOG"}
    /\ at \in 1..7
    /\ rest \in Seq(Chars) /\ cmd \in Seq(Chars \ {Newline})
    /\ result \in {"reading", "entry", "NULL"}

\* The @specials: bit_set() of one bit, bit_nset() of a whole field.
OneBit(f) == {Base[f]}
Bits(s) ==
    CASE s = "yearly" -> OneBit("minute") \cup OneBit("hour") \cup OneBit("dom")
                         \cup OneBit("month") \cup Span("dow")
      [] s = "monthly" -> OneBit("minute") \cup OneBit("hour") \cup OneBit("dom")
                          \cup Span("month") \cup Span("dow")
      [] s = "weekly" -> OneBit("minute") \cup OneBit("hour") \cup Span("dom")
                         \cup Span("month") \cup OneBit("dow")
      [] s = "daily" -> OneBit("minute") \cup OneBit("hour") \cup Span("dom")
                        \cup Span("month") \cup Span("dow")
      [] s = "hourly" -> OneBit("minute") \cup Span("hour") \cup Span("dom")
                         \cup Span("month") \cup Span("dow")
      [] OTHER -> {}

Flags(s) ==
    CASE s = "reboot" -> {"WHEN_REBOOT"}
      [] s = "hourly" -> {"HR_STAR"}
      [] s \in {"yearly", "monthly", "weekly"} -> {"DOW_STAR"}
      [] OTHER -> {}

Special ==
    /\ result = "reading" /\ at = 1
    /\ line.special \in Specials
    /\ mem' = Bits(line.special)
    /\ flags' = Flags(line.special)
    /\ at' = 6
    /\ UNCHANGED <<line, rest, cmd, result>>

\* Mutant: the day of the month is read before the hour.
FieldsDomFirst == <<"minute", "dom", "hour", "month", "dow">>

\* The order in which load_entry() calls get_list().
FieldOrder == <<"minute", "hour", "dom", "month", "dow">>
StarFlag == [minute |-> {"MIN_STAR"}, hour |-> {"HR_STAR"}, dom |-> {"DOM_STAR"},
             month |-> {}, dow |-> {"DOW_STAR"}]

\* get_list() clears the field, then sets one bit for each number.
Field ==
    LET f == FieldOrder[at]
        t == line.fields[f]
    IN  /\ result = "reading" /\ at <= 5 /\ line.special = ""
        /\ t.ok
        /\ mem' = (mem \ Span(f)) \cup {Bit(f, v) : v \in t.set}
        /\ flags' = flags \cup IF t.text # "list" THEN StarFlag[f] ELSE {}
        /\ at' = at + 1
        /\ UNCHANGED <<line, rest, cmd, result>>

\* e_timespec, e_minute ... e_dow.
BadTime ==
    /\ result = "reading" /\ at <= 5
    /\ \/ line.special = "other"
       \/ line.special = "" /\ ~line.fields[FieldOrder[at]].ok
    /\ result' = "NULL"
    /\ UNCHANGED <<line, mem, flags, at, rest, cmd>>

\* "make sundays equivalent".
Sundays(m) ==
    IF {Bit("dow", 0), Bit("dow", 7)} \cap m # {}
    THEN m \cup {Bit("dow", 0), Bit("dow", 7)} ELSE m

\* The text begins like a command: neither at its end nor with the typo "*".
Begins == line.text # <<>> /\ line.text[1] \notin {Newline, "*"}

\* The user is known: his environment is copied and completed.
User ==
    /\ result = "reading" /\ at = 6
    /\ mem' = Sundays(mem)
    /\ line.user = "known" \/ (line.user = "own" /\ Begins)
    /\ line.memory
    /\ at' = 7
    /\ UNCHANGED <<line, flags, rest, cmd, result>>

\* e_cmd, e_username or e_memory: everything is freed.
BadUser ==
    /\ result = "reading" /\ at = 6
    /\ \/ line.user \in {"unknown", "alone"}
       \/ line.user = "own" /\ ~Begins
       \/ ~line.memory
    /\ result' = "NULL"
    /\ UNCHANGED <<line, mem, flags, at, rest, cmd>>

From(s, i) == IF i = 0 THEN <<>> ELSE SubSeq(s, i, Len(s))
Skip_Nonblanks(s) == From(s, S!SelectInSeq(s, LAMBDA c : c \in {Blank, Newline}))
Skip_Blanks(s) == From(s, S!SelectInSeq(s, LAMBDA c : c # Blank))
Dash == rest # <<>> /\ rest[1] = "-"

\* while ((ch = get_char(file)) == '-'): an option and the blanks behind it are
\* skipped.  ch is then the next character, and the condition reads another.
Option ==
    LET next == Skip_Blanks(Skip_Nonblanks(Tail(rest)))
    IN  /\ result = "reading" /\ at = 7 /\ Dash
        /\ Len(rest) > 1 /\ rest[2] = "q"
        /\ flags' = flags \cup {"DONT_LOG"}
        /\ IF next = <<>> \/ next[1] = Newline
           THEN result' = "NULL" /\ UNCHANGED rest
           ELSE rest' = Tail(next) /\ UNCHANGED result
        /\ UNCHANGED <<line, mem, at, cmd>>

\* e_option; or e_cmd, as the newline is missing.
BadCommand ==
    /\ result = "reading" /\ at = 7
    /\ IF Dash THEN ~(Len(rest) > 1 /\ rest[2] = "q")
               ELSE Newline \notin S!Range(rest)
    /\ result' = "NULL"
    /\ UNCHANGED <<line, mem, flags, at, rest, cmd>>

\* "Everything up to the next \n or EOF is part of the command".
Command ==
    /\ result = "reading" /\ at = 7 /\ ~Dash
    /\ Newline \in S!Range(rest)
    /\ cmd' = SubSeq(rest, 1, S!SelectInSeq(rest, LAMBDA c : c = Newline) - 1)
    /\ result' = "entry"
    /\ UNCHANGED <<line, mem, flags, at, rest>>

Next == Special \/ Field \/ BadTime \/ User \/ BadUser \/ Option \/ BadCommand \/ Command

Spec == Init /\ [][Next]_vars

-----------------------------------------------------------------------------
(* find_jobs(): the test on an entry.                                        *)

runs(d) ==
    /\ \A f \in {"minute", "hour", "month"} : bit_test(f, d[f])
    /\ IF {"DOM_STAR", "DOW_STAR"} \cap flags # {}
       THEN bit_test("dow", d["dow"]) /\ bit_test("dom", d["dom"])
       ELSE bit_test("dow", d["dow"]) \/ bit_test("dom", d["dom"])

-----------------------------------------------------------------------------
(* The reference: the manual's reading of a line, with its day rule.         *)

\* The numbers a field names; 0 and 7 are both Sunday.
Named(f) == LET s == line.fields[f].set
            IN  IF f = "dow" /\ {0, 7} \cap s # {} THEN s \cup {0, 7} ELSE s
Matches(f, d) == d[f] \in Named(f)
DaysMatch(d, restricted) ==
    IF restricted THEN Matches("dom", d) \/ Matches("dow", d)
                  ELSE Matches("dom", d) /\ Matches("dow", d)
TimeMatches(d) == \A f \in {"minute", "hour", "month"} : Matches(f, d)

\* What the @specials abbreviate.
SpecialMatches(s, d) ==
    CASE s = "yearly" -> d["minute"] = 0 /\ d["hour"] = 0 /\ d["dom"] = 1 /\ d["month"] = 1
      [] s = "monthly" -> d["minute"] = 0 /\ d["hour"] = 0 /\ d["dom"] = 1
      [] s = "weekly" -> d["minute"] = 0 /\ d["hour"] = 0 /\ d["dow"] = 0
      [] s = "daily" -> d["minute"] = 0 /\ d["hour"] = 0
      [] s = "hourly" -> d["minute"] = 0
      [] OTHER -> FALSE

\* The minutes a line stands for.  crontab.5: "If both fields are restricted
\* (ie, aren't *), the command will be run when either field matches".
Restricted(f) == line.fields[f].text # "*"
Meant(d) ==
    IF line.special # "" THEN SpecialMatches(line.special, d)
    ELSE TimeMatches(d) /\ DaysMatch(d, Restricted("dom") /\ Restricted("dow"))

\* Both day fields are restricted, one of them by steps through an asterisk.
\* load_entry() takes that one for a star, and both have to match.
StarredStep ==
    /\ line.special = "" /\ Restricted("dom") /\ Restricted("dow")
    /\ \E f \in {"dom", "dow"} : line.fields[f].text = "*/n"

\* The command never runs in a minute its line does not stand for, and is never
\* left out in one it does, Sunday under either number; a line in which the code
\* and the manual differ on the days (StarredStep) may run less often.
RunsWhenMeant ==
    result = "entry" => \A d \in Dates :
        /\ runs(d) => Meant(d)
        /\ Meant(d) => runs(d) \/ StarredStep

\* crontab.5: "The ``sixth'' field (the rest of the line) specifies the command
\* to be run"; entry.c: "If the first character of the command is '-' it is a
\* cron option."  So the command is all the text behind the options.
CommandWhole ==
    LET q == <<"-", "q", Blank>>
    IN  result = "entry" => \E options \in {<<>>, q, q \o q} :
            line.text = options \o cmd \o <<Newline>>
=============================================================================
