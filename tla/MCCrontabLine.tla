-------------------------- MODULE MCCrontabLine --------------------------
(***************************************************************************)
(* The three readers of a crontab line for TLC: get_list() on one field     *)
(* (CronField), load_entry() on the whole line (CronEntry), and             *)
(* child_process() on the command's text (CronInput).  They read characters *)
(* of different kinds and share no state: `reader' says whose line it is.   *)
(***************************************************************************)
EXTENDS Integers, Sequences

CONSTANTS
    Low, High, NameCount, IntMax, Texts,  \* of CronField
    Numbers, Wide, Months, RawLength,     \* what its texts are made of
    Lines, Dates,                         \* of CronEntry
    MaxLength                             \* of CronInput

VARIABLES
    reader,
    text, pos, bits, status,
    line, mem, flags, at, rest, cmd, result,
    command, buffer, input_data, p, escaped, need_newline, out, pc

F == INSTANCE CronField
E == INSTANCE CronEntry
I == INSTANCE CronInput WITH text <- command, cmd <- buffer

\* The characters and field names of the two modules, to write texts and lines in.
FC == INSTANCE CronField WITH Texts <- {}
EC == INSTANCE CronEntry WITH Lines <- {}, Dates <- {}

ofField == <<text, pos, bits, status>>
ofLine == <<line, mem, flags, at, rest, cmd, result>>
ofCommand == <<command, buffer, input_data, p, escaped, need_newline, out, pc>>
vars == <<reader, ofField, ofLine, ofCommand>>

-----------------------------------------------------------------------------
(* Fields: every text of up to RawLength tokens, every well-formed range and *)
(* every list of two, steps included; in the first two also numbers (Wide)   *)
(* that an int does not hold.                                                *)

Names == {FC!NameBase - m : m \in Months}
Alphabet == Numbers \cup Wide \cup Names \cup {FC!Star, FC!Comma, FC!Dash, FC!Slash, FC!Junk}

\* Digits next to digits would be one number, letters next to letters one word.
Tokenised(t) ==
    \A i \in 1..(Len(t) - 1) :
        /\ ~(FC!Digits(t[i]) /\ FC!Digits(t[i + 1]))
        /\ ~(t[i] \in Names /\ t[i + 1] \in Names)

Raw == {t \in UNION {[1..n -> Alphabet] : n \in 1..RawLength} : Tokenised(t)}

OneRange(numbers) ==
    LET values == numbers \cup Names
    IN  {<<a>> : a \in values \cup {FC!Star}}
        \cup {<<FC!Star, FC!Slash, s>> : s \in numbers}
        \cup {<<a, FC!Dash, b>> : a, b \in values}
        \cup {<<a, FC!Dash, b, FC!Slash, s>> : a, b \in values, s \in numbers}

MCTexts == Raw \cup OneRange(Numbers \cup Wide)
               \cup {a \o <<FC!Comma>> \o b : a, b \in OneRange(Numbers)}

-----------------------------------------------------------------------------
(* Lines: every combination of a few ways to write each field, with the      *)
(* first and last value of the field among them.                             *)

Text(how, set) == [text |-> how, set |-> set, ok |-> TRUE]
Whole(f) == EC!First[f]..EC!Last[f]
Bad == [text |-> "list", set |-> {}, ok |-> FALSE]

MCFieldTexts ==
    [minute |-> {Text("*", Whole("minute")), Text("list", {0}), Bad},
     hour |-> {Text("*", Whole("hour")), Text("list", {0, 23}),
               Text("*/n", {h \in Whole("hour") : h % 2 = 0})},
     dom |-> {Text("*", Whole("dom")), Text("list", {1}), Text("list", {15, 31}),
              Text("*/n", {d \in Whole("dom") : d % 2 = 1})},
     month |-> {Text("*", Whole("month")), Text("list", {1, 12})},
     dow |-> {Text("*", Whole("dow")), Text("list", {0}), Text("list", {7}),
              Text("list", {1, 5}), Text("*/n", {0, 2, 4, 6}), Bad}]

FiveFields == {f \in [EC!Fields -> UNION {MCFieldTexts[f] : f \in EC!Fields}] :
                  \A g \in EC!Fields : f[g] \in MCFieldTexts[g]}
AnyFields == [f \in EC!Fields |-> Text("*", Whole(f))]

Cmd == <<"x", EC!Newline>>
Q == <<"-", "q", EC!Blank>>
Commands == {Cmd, Q \o Cmd, Q \o Q \o Cmd, <<"-", "q", EC!Newline>>, <<"-", "x", EC!Blank>> \o Cmd,
             <<EC!Blank>> \o Q \o Cmd, <<"-">>, <<"x">>, <<EC!Newline>>, <<"*", EC!Newline>>, <<>>}

MCLines ==
    [special : {""}, fields : FiveFields, user : {"own"}, text : {Cmd}, memory : {TRUE}]
    \cup [special : EC!Specials \cup {"", "other"}, fields : {AnyFields},
           user : EC!UserNames, text : Commands, memory : BOOLEAN]

MCDates ==
    [minute : {0, 59}, hour : {0, 1, 23}, dom : {1, 2, 15, 31}, month : {1, 2, 12}, dow : 0..6]

ASSUME LineConstants == F!CronFieldConstants /\ E!CronEntryConstants

-----------------------------------------------------------------------------

NoField == text = <<>> /\ pos = 1 /\ bits = {} /\ status = "idle"
NoLine == /\ line \in [special : {""}, fields : {AnyFields}, user : {"own"}, text : {<<>>},
                        memory : {FALSE}]
          /\ mem = {} /\ flags = {} /\ at = 1
          /\ rest = <<>> /\ cmd = <<>> /\ result = "idle"
NoCommand == /\ command = <<>> /\ buffer = <<>> /\ input_data = 1 /\ p = 1 /\ escaped = FALSE
             /\ need_newline = FALSE /\ out = <<>> /\ pc = "idle"

Init ==
    \/ reader = "get_list" /\ F!Init /\ NoLine /\ NoCommand
    \/ reader = "load_entry" /\ E!Init /\ NoField /\ NoCommand
    \/ reader = "child_process" /\ I!Init /\ NoField /\ NoLine

Next ==
    \/ reader = "get_list" /\ F!Next /\ UNCHANGED <<reader, ofLine, ofCommand>>
    \/ reader = "load_entry" /\ E!Next /\ UNCHANGED <<reader, ofField, ofCommand>>
    \/ reader = "child_process" /\ I!Next /\ UNCHANGED <<reader, ofField, ofLine>>

Spec == Init /\ [][Next]_vars

-----------------------------------------------------------------------------

\* The readers stay within the field's numbers, the entry's bits and the
\* command's buffer.
TypeOK ==
    /\ reader = "get_list" => F!TypeOK
    /\ reader = "load_entry" => E!TypeOK
    /\ reader = "child_process" => I!TypeOK

\* get_list(): a field the manual allows is not refused, and a field that
\* parses stands for exactly the numbers its ranges name, if an int can hold
\* them (CronField).
FieldRight == reader = "get_list" => F!FieldExact /\ F!FieldAccepted

\* load_entry() and find_jobs(): the command runs in no minute but those the
\* manual's line stands for, and in all of them but for the days of a field
\* like "*/2" (CronEntry).
RunsWhenMeant == reader = "load_entry" => E!RunsWhenMeant

\* load_entry(): the command is all the text behind the options (CronEntry).
CommandWhole == reader = "load_entry" => E!CommandWhole

\* child_process(): the shell gets the text up to the first percent sign that
\* is not escaped, and the command's standard input is what the text behind it
\* stands for (CronInput).
CommandSplit == reader = "child_process" => I!CommandRight /\ I!InputRight
=============================================================================
