----------------------------- MODULE CronInput -----------------------------
(***************************************************************************)
(* The percent signs of a command: child_process() splits the text at the   *)
(* first unescaped one, in place, and the process it forks sends the rest   *)
(* to the command's standard input, translated.  One step per character.    *)
(***************************************************************************)
EXTENDS Integers, Sequences, SequencesExt

CONSTANT MaxLength  \* bound: the longest command text

bs == "backslash"
pct == "percent"
nl == "newline"
nul == "nul"
Chars == {bs, pct, "x"}

VARIABLES
    text,         \* the command field of the crontab line
    cmd,          \* e->cmd, a string that ends in nul
    input_data, p, \* indices into cmd
    escaped,
    need_newline,
    out,          \* what is written to the pipe
    pc            \* "split", "feed" or "done"

vars == <<text, cmd, input_data, p, escaped, need_newline, out, pc>>

Init ==
    /\ text \in BoundedSeq(Chars, MaxLength)
    /\ cmd = Append(text, nul)
    /\ input_data = 1 /\ p = 1
    /\ escaped = FALSE /\ need_newline = FALSE
    /\ out = <<>>
    /\ pc = "split"

TypeOK ==
    /\ cmd \in Seq(Chars \cup {nul}) /\ Len(cmd) = Len(text) + 1
    /\ p \in 1..input_data /\ input_data \in 1..Len(cmd)
    /\ escaped \in BOOLEAN /\ need_newline \in BOOLEAN
    /\ out \in Seq(Chars \cup {nl})
    /\ pc \in {"split", "feed", "done"}

-----------------------------------------------------------------------------
(* for (input_data = p = e->cmd; ...) *)

ch == cmd[input_data]
Moved == [cmd EXCEPT ![p] = ch]

SplitEscaped ==
    /\ pc = "split" /\ escaped /\ ch # nul
    /\ IF ch = pct THEN cmd' = [Moved EXCEPT ![p - 1] = pct] /\ p' = p
                   ELSE cmd' = Moved /\ p' = p + 1
    /\ escaped' = FALSE
    /\ input_data' = input_data + 1
    /\ UNCHANGED <<text, need_newline, out, pc>>

SplitOther ==
    /\ pc = "split" /\ ~escaped /\ ch \notin {nul, pct}
    /\ cmd' = Moved
    /\ escaped' = (ch = bs)
    /\ p' = p + 1 /\ input_data' = input_data + 1
    /\ UNCHANGED <<text, need_newline, out, pc>>

\* *input_data++ = '\0'; break; and *p = '\0'.
SplitPercent ==
    /\ pc = "split" /\ ~escaped /\ ch = pct
    /\ cmd' = [cmd EXCEPT ![input_data] = nul, ![p] = nul]
    /\ input_data' = input_data + 1
    /\ pc' = "feed"
    /\ UNCHANGED <<text, p, escaped, need_newline, out>>

SplitEnd ==
    /\ pc = "split" /\ ch = nul
    /\ cmd' = [cmd EXCEPT ![p] = nul]
    /\ escaped' = FALSE
    /\ pc' = "feed"
    /\ UNCHANGED <<text, p, input_data, need_newline, out>>

-----------------------------------------------------------------------------
(* while ((ch = *input_data++) != '\0'), in the process that feeds the pipe. *)

\* What this character puts out: the backslash held back, if it was not for a
\* percent sign, and the character, unless it is a backslash.
Held == IF escaped /\ ch # pct THEN <<bs>> ELSE <<>>
Translated == IF ch = pct /\ ~escaped THEN nl ELSE ch

FeedChar ==
    /\ pc = "feed" /\ ch # nul
    /\ escaped' = (ch = bs)
    /\ out' = out \o Held \o IF ch = bs THEN <<>> ELSE <<Translated>>
    /\ need_newline' = IF ch = bs THEN need_newline ELSE Translated # nl
    /\ input_data' = input_data + 1
    /\ UNCHANGED <<text, cmd, p, pc>>

\* Mutant: the newline is added whatever the last character was.
FeedEndAlways ==
    /\ pc = "feed" /\ ch = nul
    /\ out' = out \o (IF escaped THEN <<bs>> ELSE <<>>) \o <<nl>>
    /\ pc' = "done"
    /\ UNCHANGED <<text, cmd, p, input_data, escaped, need_newline>>

FeedEnd ==
    /\ pc = "feed" /\ ch = nul
    /\ out' = out \o (IF escaped THEN <<bs>> ELSE <<>>)
                  \o (IF need_newline THEN <<nl>> ELSE <<>>)
    /\ pc' = "done"
    /\ UNCHANGED <<text, cmd, p, input_data, escaped, need_newline>>

Next == SplitEscaped \/ SplitOther \/ SplitPercent \/ SplitEnd \/ FeedChar \/ FeedEnd

Spec == Init /\ [][Next]_vars

-----------------------------------------------------------------------------
(* The reference: a character is escaped if an odd number of backslashes     *)
(* stands before it; no step of the loops is repeated here.                  *)

Backslashes(s, i) ==
    IF \A j \in 1..(i - 1) : s[j] = bs THEN i - 1
    ELSE i - 1 - CHOOSE j \in 1..(i - 1) : s[j] # bs /\ \A k \in (j + 1)..(i - 1) : s[k] = bs
Escaped(s, i) == Backslashes(s, i) % 2 = 1

\* s with each escaped percent sign's backslash dropped: the characters that are
\* kept, in their order.
Kept(s) == {i \in 1..Len(s) : ~(i < Len(s) /\ s[i + 1] = pct /\ Escaped(s, i + 1))}
Unescaped(s) ==
    [k \in 1..Cardinality(Kept(s)) |->
        s[CHOOSE i \in Kept(s) : Cardinality({j \in Kept(s) : j <= i}) = k]]

Percents == {i \in 1..Len(text) : text[i] = pct /\ ~Escaped(text, i)}
Cut == CHOOSE i \in 1..(Len(text) + 1) :
          /\ i \in Percents \/ (Percents = {} /\ i = Len(text) + 1)
          /\ \A j \in Percents : i <= j

Input == SubSeq(text, Cut + 1, Len(text))

\* "\% -> %", "% -> \n", "\x -> \x for all x != %", and "if some characters
\* were written and the last one wasn't a newline, write a newline".
Newlined(s) == [i \in 1..Len(s) |-> IF s[i] = pct /\ ~Escaped(s, i) THEN nl ELSE s[i]]
Meant == LET m == Unescaped(Newlined(Input))
         IN  IF m # <<>> /\ m[Len(m)] # nl THEN Append(m, nl) ELSE m

NoDoubleBackslash(s) ==
    /\ \A i \in 1..(Len(s) - 1) : ~(s[i] = bs /\ s[i + 1] = bs)
    /\ s # <<>> => s[Len(s)] # bs

\* The string left for the shell is the text up to the first unescaped percent
\* sign with the escaping backslashes gone, although it is cut and compacted
\* within the one buffer the input is then read from.
CommandRight ==
    pc # "split" => SubSeq(cmd, 1, (CHOOSE i \in DOMAIN cmd :
                        cmd[i] = nul /\ \A j \in 1..(i - 1) : cmd[j] # nul) - 1)
                    = Unescaped(SubSeq(text, 1, Cut - 1))

\* The command's standard input is what the text behind the first percent sign
\* stands for (no backslash before a backslash or at the end of it).
InputRight == pc = "done" /\ NoDoubleBackslash(Input) => out = Meant
=============================================================================
