----------------------------- MODULE CronField -----------------------------
(***************************************************************************)
(* One time field of a crontab line: get_list(), get_range(), get_number()  *)
(* and set_element() of entry.c, one step per turn of get_list()'s loop.    *)
(*                                                                          *)
(* A field's text is a sequence of tokens: a run of digits is the number it *)
(* writes, however large, a run of letters is NameBase minus its place in   *)
(* the field's table of names, or less if it is not there, any other        *)
(* character is one of the negative numbers between.                        *)
(***************************************************************************)
EXTENDS Integers, Sequences, FiniteSets

CONSTANTS
    Low, High,    \* FIRST_x and LAST_x of the field
    NameCount,    \* entries of MonthNames or DowNames; 0 for PPC_NULL
    IntMax,       \* the largest int, scaled
    Texts         \* the texts considered

Star == -1        \* '*'
Comma == -2       \* ','
Dash == -3        \* '-'
Slash == -4       \* '/'
Junk == -5        \* a character with no meaning here, or MAX_TEMPSTR digits
Blank == -6       \* the space or tab after the field
Eof == -7
NameBase == -8
Tokens == Int \ {Blank, Eof}

\* What is assumed of the constants.
CronFieldConstants ==
    /\ Low \in Nat /\ High \in Nat /\ Low <= High /\ High < IntMax
    /\ NameCount \in Nat /\ IntMax \in Nat
    /\ \A t \in Texts : t \in Seq(Tokens)

VARIABLES
    text,         \* what stands between two blanks
    pos,          \* the token in ch
    bits,         \* the field's bit string, as the set of numbers
    status        \* "parse", or what get_list() returned: "ok", or "eof"

vars == <<text, pos, bits, status>>

Init ==
    /\ text \in Texts
    /\ pos = 1
    /\ bits = {}
    /\ status = "parse"

TypeOK ==
    /\ text \in Seq(Tokens)
    /\ pos \in 1..(Len(text) + 2)
    /\ bits \subseteq Low..High
    /\ status \in {"parse", "ok", "eof"}

-----------------------------------------------------------------------------

Ch(i) == IF i <= Len(text) THEN text[i] ELSE Blank

Digits(c) == c >= 0
IsName(c) == NameBase - NameCount < c /\ c <= NameBase

\* atoi() does not look for overflow: what does not fit into an int wraps.
atoi(c) == ((c + IntMax + 1) % (2 * (IntMax + 1))) - (IntMax + 1)

\* get_number(): a run of digits, or a name if the field has names, and one of
\* the characters `terms' behind it.
NumberAt(i, names, terms) ==
    /\ Digits(Ch(i)) \/ (names /\ IsName(Ch(i)))
    /\ Ch(i + 1) \in terms
Value(i, low) == IF IsName(Ch(i)) THEN NameBase - Ch(i) + low ELSE atoi(Ch(i))

\* The numbers get_range() runs through, and whether `i += num3' leaves the
\* range of int on the way out, which C leaves undefined.
Elements(num1, num2, num3) == {i \in num1..num2 : (i - num1) % num3 = 0}
Overflows(num1, num2, num3) ==
    \E i \in Elements(num1, num2, num3) : i + num3 > IntMax

\* Every way get_range() can read a range at i: the three numbers, and where
\* ch is afterwards.
Range(num1, num2, num3, next) ==
    [num1 |-> num1, num2 |-> num2, num3 |-> num3, next |-> next]

\* Behind "first-last" at i: the step, if there is one.
Steps(num1, num2, i) ==
    IF Ch(i) # Slash THEN {Range(num1, num2, 1, i)}
    ELSE IF NumberAt(i + 1, FALSE, {Comma, Blank}) /\ atoi(Ch(i + 1)) # 0
    THEN {Range(num1, num2, atoi(Ch(i + 1)), i + 2)} ELSE {}

get_range(i) ==
    IF Ch(i) = Star THEN Steps(Low, High, i + 1)
    ELSE IF ~NumberAt(i, TRUE, {Comma, Dash, Blank}) THEN {}
    ELSE IF Ch(i + 1) # Dash
    THEN {Range(Value(i, Low), Value(i, Low), 1, i + 1)}
    ELSE IF /\ NumberAt(i + 2, TRUE, {Slash, Comma, Blank})
            /\ Value(i, Low) <= Value(i + 2, Low)
    THEN Steps(Value(i, Low), Value(i + 2, Low), i + 3) ELSE {}

\* A step that has wrapped to a negative one runs down out of the field, which
\* set_element() refuses in the end.
Rising(i) == {r \in get_range(i) : r.num3 > 0}

\* Mutant: set_element() forgets the upper end.
InFieldLow(s) == \A i \in s : i >= Low

\* set_element() refuses a number outside the field.
InField(s) == s \subseteq Low..High

-----------------------------------------------------------------------------

\* Mutant: the upper end of a range is left out.
RangeStepExclusive ==
    /\ status = "parse"
    /\ \E r \in Rising(pos) :
         LET set == Elements(r.num1, r.num2, r.num3) IN
         /\ InField(set)
         /\ bits' = bits \cup IF Cardinality(set) > 1 THEN set \ {r.num2} ELSE set
         /\ IF Ch(r.next) = Comma
            THEN pos' = r.next + 1 /\ UNCHANGED status
            ELSE pos' = Len(text) + 1 /\ status' = "ok"
    /\ UNCHANGED text

\* One range is read: a comma leads to the next one, anything else is skipped
\* up to a blank and get_list() is done.
RangeStep ==
    /\ status = "parse"
    /\ \E r \in Rising(pos) :
         LET set == Elements(r.num1, r.num2, r.num3) IN
         /\ InField(set)
         /\ bits' = bits \cup set
         /\ IF Ch(r.next) = Comma
            THEN pos' = r.next + 1 /\ UNCHANGED status
            ELSE pos' = Len(text) + 1 /\ status' = "ok"
    /\ UNCHANGED text

\* No range is there, or it leaves the field, or the step leaves int.
BadRange ==
    /\ status = "parse"
    /\ \A r \in Rising(pos) :
         \/ ~InField(Elements(r.num1, r.num2, r.num3))
         \/ Overflows(r.num1, r.num2, r.num3)
    /\ status' = "eof"
    /\ UNCHANGED <<text, pos, bits>>

Next == RangeStep \/ BadRange

Spec == Init /\ [][Next]_vars

-----------------------------------------------------------------------------
(* The reference: "list = range {"," range}" and "range = number | number   *)
(* "-" number [ "/" number ]", with '*' for "first-last".  Its numbers are  *)
(* those an int can hold: the code takes larger ones modulo 2^32.           *)

IsNumber(c) == 0 <= c /\ c <= IntMax
IsValue(c) == IsNumber(c) \/ IsName(c)
ValueOf(c) == IF IsName(c) THEN NameBase - c + Low ELSE c

\* What one range stands for: its ends and step, or nothing at all.
PieceRange(p) ==
    CASE Len(p) = 1 /\ p[1] = Star -> {<<Low, High, 1>>}
      [] Len(p) = 3 /\ p[1] = Star /\ p[2] = Slash /\ IsNumber(p[3]) ->
            {<<Low, High, p[3]>>}
      [] Len(p) = 1 /\ IsValue(p[1]) -> {<<ValueOf(p[1]), ValueOf(p[1]), 1>>}
      [] Len(p) = 3 /\ IsValue(p[1]) /\ p[2] = Dash /\ IsValue(p[3]) ->
            {<<ValueOf(p[1]), ValueOf(p[3]), 1>>}
      [] Len(p) = 5 /\ IsValue(p[1]) /\ p[2] = Dash /\ IsValue(p[3])
                    /\ p[4] = Slash /\ IsNumber(p[5]) ->
            {<<ValueOf(p[1]), ValueOf(p[3]), p[5]>>}
      [] OTHER -> {}

\* The text between two neighbouring commas, or the ends.
Cuts == {0, Len(text) + 1} \cup {i \in 1..Len(text) : text[i] = Comma}
Neighbours == {c \in Cuts \X Cuts : c[1] < c[2] /\ \A d \in Cuts : d <= c[1] \/ d >= c[2]}
Pieces == {SubSeq(text, c[1] + 1, c[2] - 1) : c \in Neighbours}

Grammatical == \A p \in Pieces : PieceRange(p) # {}
Ranges == UNION {PieceRange(p) : p \in Pieces}

\* Every range rises, stays in the field and has a step.
Sensible == \A r \in Ranges : Low <= r[1] /\ r[1] <= r[2] /\ r[2] <= High /\ r[3] > 0
StepFits == \A r \in Ranges : High + r[3] <= IntMax

Meaning == UNION {{i \in r[1]..r[2] : \E k \in 0..r[2] : i = r[1] + k * r[3]} : r \in Ranges}

\* crontab.5: "Ranges or lists of names are not allowed."
NamesAlone == (\E i \in 1..Len(text) : IsName(text[i])) => Len(text) = 1

\* A field that parses stands for exactly the numbers its ranges name, both
\* ends included, whatever mixture of lists, ranges, steps and names it is, and
\* none of its ranges falls.  (get_range() refuses a number outside the field,
\* not an end outside it: "1-13/5" is a month field.)
FieldExact ==
    status = "ok" /\ Grammatical => bits = Meaning /\ \A r \in Ranges : r[1] <= r[2]

\* A field the manual allows, with rising ranges inside the field, is never
\* refused (unless a step is so large that the addition overflows).
FieldAccepted ==
    status = "eof" /\ Grammatical /\ NamesAlone /\ StepFits => ~Sensible
=============================================================================
