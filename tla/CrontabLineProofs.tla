------------------------- MODULE CrontabLineProofs -------------------------
(***************************************************************************)
(* Theorems about the three readers of a crontab line, for every set of     *)
(* fields, lines, dates and command texts.                                  *)
(*                                                                          *)
(* load_entry(): EntryInv says which bits and which flags the line's fields *)
(* up to `at' have set (FieldsRead, StarsRead, SpecialRead).  The bits of   *)
(* two fields do not meet (BitsApart), so the bits asked for on a date are  *)
(* those of the field itself, and RunsWhenMeant follows from Layout.        *)
(*                                                                          *)
(* get_list(): FieldInv says that the bits set so far are the numbers of    *)
(* the ranges between the commas passed (PiecesRead); a step reads exactly  *)
(* one piece, and no piece is between two neighbouring commas but that one. *)
(*                                                                          *)
(* child_process(): InputInv says that what was copied is the text read     *)
(* without the backslashes that escape a percent sign, in both passes over  *)
(* the one buffer (SplitRead, FeedRead).  The characters kept are counted   *)
(* by an increasing function (Counts), which a step extends by one element  *)
(* or changes in the last; counting by rank in the reference gives the same *)
(* function (CountsRank).                                                   *)
(*                                                                          *)
(* Only one reader is looked at, and the others' variables stay alone, so   *)
(* the three invariants make up that of the specification TLC checks.       *)
(***************************************************************************)
EXTENDS MCCrontabLine, FiniteSetTheorems, SequenceTheorems, WellFoundedInduction, TLAPS

\* A set of natural numbers that is not empty has a least element.
LEMMA Least == ASSUME NEW T, T \subseteq Nat, T # {}
               PROVE  \E x \in T : \A y \in T : x <= y
<1>1. PICK x \in T : \A y \in T : ~(<<y, x>> \in OpToRel(<, Nat))
    BY NatLessThanWellFounded, WFMin, Zenon
<1>2. ASSUME NEW y \in T PROVE x <= y
    <2>1. ~(<<y, x>> \in {ss \in Nat \X Nat : ss[1] < ss[2]})
        BY <1>1 DEF OpToRel
    <2> QED
        BY <2>1
<1> QED
    BY <1>2

\* What SequencesExt's Min() chooses.
LEMMA LeastChosen ==
    ASSUME NEW T, T \subseteq Nat, T # {}
    PROVE  E!S!Min(T) \in T /\ \A y \in T : E!S!Min(T) <= y
    BY Least, Zenon DEF E!S!Min

-----------------------------------------------------------------------------
(* load_entry().                                                             *)

\* e->flags.
FlagNames == {"MIN_STAR", "HR_STAR", "DOM_STAR", "DOW_STAR", "WHEN_REBOOT", "DONT_LOG"}

\* The line has five fields.
Plain == line.special = ""

\* What the bits of a field that was read are to say.
Wanted(f) == IF at = 7 THEN E!Named(f) ELSE line.fields[f].set

\* Of the five fields those before `at' have their bits, and no later field has
\* taken one away.
FieldsRead ==
    Plain => \A k \in 1..5 : k < at =>
        LET f == E!FieldOrder[k]
        IN  \A v \in E!First[f]..E!Last[f] : E!Bit(f, v) \in mem <=> v \in Wanted(f)

\* The flags find_jobs() looks at.
StarsRead ==
    Plain =>
        /\ "DOM_STAR" \in flags <=> at > 3 /\ line.fields["dom"].text # "list"
        /\ "DOW_STAR" \in flags <=> at > 5 /\ line.fields["dow"].text # "list"

\* The same for the @specials.
SpecialRead ==
    ~Plain /\ at # 1 =>
        /\ at > 5 /\ line.special \in E!Specials
        /\ mem = IF at = 7 THEN E!Sundays(E!Bits(line.special)) ELSE E!Bits(line.special)
        /\ "DOM_STAR" \notin flags
        /\ "DOW_STAR" \in flags <=> line.special \in {"yearly", "monthly", "weekly"}

EntryInv ==
    /\ E!TypeOK /\ FieldsRead /\ StarsRead /\ SpecialRead
    /\ result = "entry" => at = 7

\* Where the five bit strings lie.
LEMMA Layout ==
    /\ E!Base = [minute |-> 0, hour |-> 64, dom |-> 88, month |-> 120, dow |-> 136]
    /\ E!Fields = {"minute", "hour", "dom", "month", "dow"}
    /\ \A v : /\ E!Bit("minute", v) = 0 + v - 0
              /\ E!Bit("hour", v) = 64 + v - 0
              /\ E!Bit("dom", v) = 88 + v - 1
              /\ E!Bit("month", v) = 120 + v - 1
              /\ E!Bit("dow", v) = 136 + v - 0
    /\ E!Span("minute") = 0..60
    /\ E!Span("hour") = 64..88
    /\ E!Span("dom") = 88..119
    /\ E!Span("month") = 120..132
    /\ E!Span("dow") = 136..144
<1>1. /\ E!Bytes("minute") = 8 /\ E!Bytes("hour") = 3 /\ E!Bytes("dom") = 4
      /\ E!Bytes("month") = 2
    BY DEF E!Bytes, E!First, E!Last
<1>2. E!Base = [minute |-> 0, hour |-> 64, dom |-> 88, month |-> 120, dow |-> 136]
    BY <1>1 DEF E!Base
<1> QED
    BY <1>2 DEF E!Bit, E!Span, E!First, E!Last, E!Fields

\* What the constants are assumed to be.
LEMMA LineFields ==
    ASSUME NEW l \in Lines
    PROVE  /\ l.text \in Seq(E!Chars)
           /\ \A f \in E!Fields : l.fields[f].set \subseteq E!First[f]..E!Last[f]
    BY LineConstants DEF E!CronEntryConstants

\* Skipping characters leaves an end of the string.
LEMMA FromType ==
    ASSUME NEW s \in Seq(E!Chars), NEW i \in 0..Len(s)
    PROVE  E!From(s, i) \in Seq(E!Chars)
<1>1. CASE i = 0
    BY <1>1 DEF E!From
<1>2. CASE i # 0
    <2>1. \A j \in i..Len(s) : s[j] \in E!Chars
        BY <1>2
    <2>2. SubSeq(s, i, Len(s)) \in Seq(E!Chars)
        BY <2>1, SubSeqProperties, LenProperties
    <2> QED
        BY <1>2, <2>2 DEF E!From
<1> QED
    BY <1>1, <1>2

\* The place SelectInSeq() finds.
LEMMA PlaceType ==
    ASSUME NEW n \in Nat, NEW T, T \subseteq 1..n
    PROVE  (IF T # {} THEN E!S!Min(T) ELSE 0) \in 0..n
<1>1. CASE T # {}
    <2>1. T \subseteq Nat
        OBVIOUS
    <2>2. E!S!Min(T) \in T
        BY <1>1, <2>1, LeastChosen
    <2>3. E!S!Min(T) \in 1..n
        BY <2>2
    <2> QED
        BY <1>1, <2>3
<1> QED
    BY <1>1

\* Skip_Nonblanks and Skip_Blanks.
LEMMA SkipType ==
    ASSUME NEW s \in Seq(E!Chars)
    PROVE  E!Skip_Nonblanks(s) \in Seq(E!Chars) /\ E!Skip_Blanks(s) \in Seq(E!Chars)
<1>n. Len(s) \in Nat
    BY LenProperties
<1>2. E!S!SelectInSeq(s, LAMBDA c : c \in {E!Blank, E!Newline}) \in 0..Len(s)
    <2> DEFINE T == {i \in 1..Len(s) : s[i] \in {E!Blank, E!Newline}}
    <2>1. T \subseteq 1..Len(s)
        OBVIOUS
    <2>2. E!S!SelectInSeq(s, LAMBDA c : c \in {E!Blank, E!Newline})
          = IF T # {} THEN E!S!Min(T) ELSE 0
        BY DEF E!S!SelectInSeq
    <2> QED
        BY <1>n, <2>1, <2>2, PlaceType, Zenon
<1>3. E!S!SelectInSeq(s, LAMBDA c : c # E!Blank) \in 0..Len(s)
    <2> DEFINE T == {i \in 1..Len(s) : s[i] # E!Blank}
    <2>1. T \subseteq 1..Len(s)
        OBVIOUS
    <2>2. E!S!SelectInSeq(s, LAMBDA c : c # E!Blank) = IF T # {} THEN E!S!Min(T) ELSE 0
        BY DEF E!S!SelectInSeq
    <2> QED
        BY <1>n, <2>1, <2>2, PlaceType, Zenon
<1> QED
    BY <1>2, <1>3, FromType DEF E!Skip_Nonblanks, E!Skip_Blanks

\* The command ends before the first newline.
LEMMA CommandType ==
    ASSUME NEW s \in Seq(E!Chars), E!Newline \in E!S!Range(s)
    PROVE  SubSeq(s, 1, E!S!SelectInSeq(s, LAMBDA c : c = E!Newline) - 1)
           \in Seq(E!Chars \ {E!Newline})
<1> DEFINE T == {i \in 1..Len(s) : s[i] = E!Newline}
<1>n. Len(s) \in Nat /\ DOMAIN s = 1..Len(s)
    BY LenProperties
<1>1. T \subseteq Nat /\ T # {}
    BY <1>n DEF E!S!Range
<1>2. E!S!SelectInSeq(s, LAMBDA c : c = E!Newline) = E!S!Min(T)
    BY <1>1 DEF E!S!SelectInSeq
<1>3. PICK n \in T : n = E!S!Min(T) /\ \A y \in T : n <= y
    BY <1>1, LeastChosen
<1>4. \A j \in 1..(n - 1) : s[j] \in E!Chars \ {E!Newline}
    BY <1>n, <1>3
<1>5. SubSeq(s, 1, n - 1) \in Seq(E!Chars \ {E!Newline})
    BY <1>n, <1>3, <1>4, SubSeqProperties
<1> QED
    BY <1>2, <1>3, <1>5

\* The bits of an @special lie within the entry.
LEMMA BitsType == \A s : E!Bits(s) \subseteq 0..144
<1>1. /\ E!OneBit("minute") = {0} /\ E!OneBit("hour") = {64} /\ E!OneBit("dom") = {88}
      /\ E!OneBit("month") = {120} /\ E!OneBit("dow") = {136}
    BY Layout DEF E!OneBit
<1>2. \A f \in E!Fields : E!OneBit(f) \subseteq 0..144 /\ E!Span(f) \subseteq 0..144
    BY <1>1, Layout
<1> SUFFICES ASSUME NEW s PROVE E!Bits(s) \subseteq 0..144
    OBVIOUS
<1> HIDE DEF E!OneBit, E!Span
<1> QED
    BY <1>2, Layout, Zenon DEF E!Bits, E!Fields

\* The types of load_entry()'s variables.
LEMMA EntryType == E!TypeOK /\ [E!Next]_(E!vars) => E!TypeOK'
<1> SUFFICES ASSUME E!TypeOK, [E!Next]_(E!vars) PROVE E!TypeOK'
    OBVIOUS
<1>b. /\ mem \subseteq 0..144 /\ line \in Lines /\ rest \in Seq(E!Chars)
    <2>1. E!Base["dow"] = 136
        BY Layout
    <2> QED
        BY <2>1 DEF E!TypeOK
<1>t. /\ cmd \in Seq(E!Chars \ {E!Newline}) /\ result \in {"reading", "entry", "NULL"}
      /\ at \in 1..7 /\ flags \subseteq FlagNames
    BY DEF E!TypeOK, FlagNames
<1>s. ASSUME line' \in Lines, mem' \subseteq 0..144, flags' \subseteq FlagNames, at' \in 1..7,
             rest' \in Seq(E!Chars), cmd' \in Seq(E!Chars \ {E!Newline}),
             result' \in {"reading", "entry", "NULL"}
      PROVE  E!TypeOK'
    <2>1. mem' \subseteq 0..(E!Base["dow"] + 8)
        BY <1>s, Layout
    <2> QED
        BY <1>s, <2>1, Zenon DEF E!TypeOK, FlagNames
<1>1. CASE E!Special
    <2>1. E!Bits(line.special) \subseteq 0..144
        BY BitsType
    <2>2. E!Flags(line.special) \subseteq {"HR_STAR", "DOW_STAR", "WHEN_REBOOT"}
        BY DEF E!Flags
    <2> QED
        <3>1. flags' \subseteq FlagNames
            BY <1>1, <2>2, Zenon DEF E!Special, FlagNames
        <3>2. mem' \subseteq 0..144 /\ at' = 6 /\ UNCHANGED <<line, rest, cmd, result>>
            BY <1>1, <2>1, Zenon DEF E!Special
        <3> QED
            BY <1>b, <1>t, <1>s, <3>1, <3>2
<1>2. CASE E!Field
    <2>1. at \in 1..5
        <3>1. at <= 5
            BY <1>2, Zenon DEF E!Field
        <3> QED
            BY <1>t, <3>1
    <2>2. PICK f \in E!Fields : f = E!FieldOrder[at]
        BY <2>1 DEF E!FieldOrder, E!Fields
    <2>3. line.fields[f].set \subseteq E!First[f]..E!Last[f]
        BY <1>b, LineFields
    <2>4. {E!Bit(f, v) : v \in line.fields[f].set} \subseteq 0..144
        BY <2>2, <2>3, Layout DEF E!Fields, E!First, E!Last
    <2>5. mem' \subseteq 0..144
        BY <1>2, <1>b, <2>2, <2>4 DEF E!Field
    <2>6. flags' \subseteq flags \cup {"MIN_STAR", "HR_STAR", "DOM_STAR", "DOW_STAR"}
        <3>1. E!StarFlag[f] \subseteq {"MIN_STAR", "HR_STAR", "DOM_STAR", "DOW_STAR"}
            BY <2>2 DEF E!StarFlag, E!Fields
        <3> QED
            BY <1>2, <2>2, <3>1 DEF E!Field
    <2>7. at' \in 1..7 /\ UNCHANGED <<line, rest, cmd, result>>
        <3>1. at' = at + 1 /\ UNCHANGED <<line, rest, cmd, result>>
            BY <1>2, Zenon DEF E!Field
        <3> QED
            BY <2>1, <3>1
    <2>8. flags' \subseteq FlagNames
        BY <1>t, <2>6 DEF FlagNames
    <2> QED
        BY <1>b, <1>t, <1>s, <2>5, <2>7, <2>8
<1>3. CASE E!User
    <2>1. E!Sundays(mem) \subseteq 0..144
        <3>1. E!Bit("dow", 0) \in 0..144 /\ E!Bit("dow", 7) \in 0..144
            BY Layout
        <3> QED
            BY <1>b, <3>1, Zenon DEF E!Sundays
    <2> QED
        <3>1. mem' \subseteq 0..144 /\ at' = 7 /\ UNCHANGED <<line, flags, rest, cmd, result>>
            BY <1>3, <2>1, Zenon DEF E!User
        <3> QED
            BY <1>b, <1>t, <1>s, <3>1
<1>4. CASE E!BadTime \/ E!BadUser \/ E!BadCommand
    BY <1>4 DEF E!TypeOK, E!BadTime, E!BadUser, E!BadCommand
<1>5. CASE E!Option
    <2> DEFINE next == E!Skip_Blanks(E!Skip_Nonblanks(Tail(rest)))
    <2>1. rest # <<>> /\ rest' \in {rest, Tail(next)}
          /\ (rest' = Tail(next) => next # <<>> \/ rest' = rest)
        BY <1>5 DEF E!Option, E!Dash
    <2>2. Tail(rest) \in Seq(E!Chars)
        BY <1>b, <2>1, HeadTailProperties
    <2>3. next \in Seq(E!Chars)
        BY <2>2, SkipType
    <2>4. rest' \in Seq(E!Chars)
        BY <1>b, <2>1, <2>3, HeadTailProperties
    <2>5. flags' = flags \cup {"DONT_LOG"} /\ UNCHANGED <<line, mem, at, cmd>>
          /\ result' \in {result, "NULL"}
        BY <1>5 DEF E!Option
    <2> QED
        BY <2>4, <2>5 DEF E!TypeOK
<1>6. CASE E!Command
    BY <1>6, <1>b, CommandType DEF E!TypeOK, E!Command
<1>7. CASE UNCHANGED E!vars
    BY <1>7 DEF E!TypeOK, E!vars
<1> QED
    BY <1>1, <1>2, <1>3, <1>4, <1>5, <1>6, <1>7 DEF E!Next

\* The fields in the order of their bits.
LEMMA BitsApart ==
    ASSUME NEW k \in 1..5, NEW v \in E!First[E!FieldOrder[k]]..E!Last[E!FieldOrder[k]]
    PROVE  LET f == E!FieldOrder[k]
           IN  /\ f \in E!Fields
               /\ E!Bit(f, v) \in Int /\ E!Bit(f, v) \in E!Span(f)
               /\ \A w \in E!First[f]..E!Last[f] : E!Bit(f, w) = E!Bit(f, v) => w = v
               /\ \A m \in 1..5 : k < m =>
                      /\ \A b \in E!Span(E!FieldOrder[m]) : E!Bit(f, v) < b
<1>1. k = 1 \/ k = 2 \/ k = 3 \/ k = 4 \/ k = 5
    OBVIOUS
<1>2. E!FieldOrder[k] \in E!Fields
    BY <1>1 DEF E!FieldOrder, E!Fields
<1>3. /\ E!Bit(E!FieldOrder[k], v) \in Int
      /\ E!Bit(E!FieldOrder[k], v) \in E!Span(E!FieldOrder[k])
    BY <1>1, Layout DEF E!FieldOrder, E!First, E!Last
<1>4. \A w \in E!First[E!FieldOrder[k]]..E!Last[E!FieldOrder[k]] :
          E!Bit(E!FieldOrder[k], w) = E!Bit(E!FieldOrder[k], v) => w = v
    BY <1>1, Layout DEF E!FieldOrder, E!First, E!Last
<1>5. ASSUME NEW m \in 1..5, k < m, NEW b \in E!Span(E!FieldOrder[m])
      PROVE  E!Bit(E!FieldOrder[k], v) < b
    <2>1. m = 2 \/ m = 3 \/ m = 4 \/ m = 5
        BY <1>5
    <2> QED
        BY <1>1, <1>5, <2>1, Layout DEF E!FieldOrder, E!First, E!Last
<1> QED
    BY <1>2, <1>3, <1>4, <1>5

\* What get_list() changes.
LEMMA FieldEffect ==
    ASSUME E!TypeOK, E!Field
    PROVE  LET f == E!FieldOrder[at]
           IN  /\ at \in 1..5 /\ at' = at + 1 /\ Plain /\ Plain' /\ UNCHANGED <<line, result>>
               /\ mem' = (mem \ E!Span(f)) \cup {E!Bit(f, v) : v \in line.fields[f].set}
               /\ flags' = flags \cup IF line.fields[f].text # "list" THEN E!StarFlag[f] ELSE {}
               /\ result = "reading"
<1>1. at <= 5
    BY Zenon DEF E!Field
<1>2. at \in 1..7
    BY DEF E!TypeOK
<1>3. at \in 1..5
    BY <1>1, <1>2
<1> QED
    BY <1>3, Zenon DEF E!Field, Plain

\* The steps that leave the bits alone.
LEMMA OtherEffect ==
    ASSUME E!BadTime \/ E!BadUser \/ E!BadCommand \/ E!Option \/ E!Command \/ UNCHANGED E!vars
    PROVE  /\ UNCHANGED <<line, mem, at>> /\ Plain' = Plain
           /\ flags' = flags \/ flags' = flags \cup {"DONT_LOG"}
           /\ result' = "entry" => result = "entry" \/ at = 7
    BY Zenon DEF E!BadTime, E!BadUser, E!BadCommand, E!Option, E!Command, E!vars, Plain

\* A field's bits are set by its own get_list() and stay: the one bit too many
\* that get_list() clears is the first of the field it reads next.
LEMMA FieldsStep == E!TypeOK /\ FieldsRead /\ [E!Next]_(E!vars) => FieldsRead'
<1> SUFFICES ASSUME E!TypeOK, FieldsRead, [E!Next]_(E!vars) PROVE FieldsRead'
    OBVIOUS
<1>l. line \in Lines /\ at \in 1..7
    BY DEF E!TypeOK
<1>1. CASE E!Field
    <2>e. /\ at \in 1..5 /\ at' = at + 1 /\ Plain /\ Plain' /\ UNCHANGED line
          /\ mem' = (mem \ E!Span(E!FieldOrder[at]))
                    \cup {E!Bit(E!FieldOrder[at], v) : v \in line.fields[E!FieldOrder[at]].set}
        BY <1>1, FieldEffect, Zenon
    <2>w. \A g : Wanted(g)' = IF at = 6 THEN Wanted(g)' ELSE line.fields[g].set
        BY <2>e DEF Wanted
    <2>1. PICK f : f = E!FieldOrder[at]
        OBVIOUS
    <2>2. ASSUME NEW k \in 1..5, k < at + 1,
                  NEW v \in E!First[E!FieldOrder[k]]..E!Last[E!FieldOrder[k]]
          PROVE  E!Bit(E!FieldOrder[k], v) \in mem' <=> v \in line.fields[E!FieldOrder[k]].set
        <3>f. /\ f \in E!Fields
              /\ line.fields[f].set \subseteq E!First[f]..E!Last[f]
            <4>1. f \in E!Fields
                BY <2>e, <2>1 DEF E!FieldOrder, E!Fields
            <4> QED
                BY <1>l, <4>1, LineFields
        <3>1. CASE k = at
            <4>1. /\ E!Bit(f, v) \in E!Span(f)
                  /\ \A w \in E!First[f]..E!Last[f] : E!Bit(f, w) = E!Bit(f, v) => w = v
                BY <2>1, <3>1, BitsApart, Zenon
            <4> HIDE DEF E!Bit, E!Span
            <4> QED
                BY <2>e, <2>1, <3>f, <3>1, <4>1, Zenon
        <3>2. CASE k < at
            <4>1. /\ E!Bit(E!FieldOrder[k], v) \in Int
                  /\ \A b \in E!Span(f) : E!Bit(E!FieldOrder[k], v) < b
                BY <2>e, <2>1, <3>2, BitsApart, Zenon
            <4>2. E!Bit(E!FieldOrder[k], v) \notin E!Span(f)
                BY <4>1
            <4>3. ASSUME NEW w \in line.fields[f].set
                  PROVE  E!Bit(f, w) # E!Bit(E!FieldOrder[k], v)
                <5>1. E!Bit(f, w) \in E!Span(f)
                    BY <2>e, <2>1, <3>f, BitsApart, Zenon
                <5> QED
                    BY <4>2, <5>1, Zenon
            <4>4. E!Bit(E!FieldOrder[k], v) \in mem <=> v \in line.fields[E!FieldOrder[k]].set
                <5>1. Wanted(E!FieldOrder[k]) = line.fields[E!FieldOrder[k]].set
                    BY <2>e DEF Wanted
                <5> QED
                    BY <2>e, <3>2, <5>1, Zenon DEF FieldsRead
            <4> QED
                BY <2>e, <2>1, <4>2, <4>3, <4>4, Zenon
        <3> QED
            BY <2>e, <2>2, <3>1, <3>2
    <2>3. \A k : Wanted(E!FieldOrder[k])' = line.fields[E!FieldOrder[k]].set
        BY <2>e DEF Wanted
    <2> QED
        BY <2>e, <2>2, <2>3, Zenon DEF FieldsRead
<1>2. CASE E!User
    <2>e. at = 6 /\ at' = 7 /\ mem' = E!Sundays(mem) /\ UNCHANGED line /\ Plain' = Plain
        BY <1>2, Zenon DEF E!User, Plain
    <2> SUFFICES ASSUME Plain, NEW k \in 1..5,
                        NEW v \in E!First[E!FieldOrder[k]]..E!Last[E!FieldOrder[k]]
                 PROVE  E!Bit(E!FieldOrder[k], v) \in mem' <=> v \in E!Named(E!FieldOrder[k])
        <3>1. \A g : Wanted(g)' = E!Named(g)
            BY <2>e DEF Wanted, E!Named
        <3> QED
            BY <2>e, <3>1 DEF FieldsRead
    <2>1. \A m \in 1..5 : \A w \in E!First[E!FieldOrder[m]]..E!Last[E!FieldOrder[m]] :
              E!Bit(E!FieldOrder[m], w) \in mem <=> w \in line.fields[E!FieldOrder[m]].set
        BY <2>e DEF FieldsRead, Wanted
    <2>2. CASE k = 5
        <3>1. E!FieldOrder[5] = "dow" /\ E!First["dow"] = 0 /\ E!Last["dow"] = 7
            BY DEF E!FieldOrder, E!First, E!Last
        <3>2. \A w \in 0..7 : E!Bit("dow", w) \in mem <=> w \in line.fields["dow"].set
            BY <2>1, <3>1
        <3>3. /\ E!Bit("dow", 0) \in mem <=> 0 \in line.fields["dow"].set
              /\ E!Bit("dow", 7) \in mem <=> 7 \in line.fields["dow"].set
            BY <3>2
        <3>4. E!Named("dow") = IF {0, 7} \cap line.fields["dow"].set # {}
                               THEN line.fields["dow"].set \cup {0, 7} ELSE line.fields["dow"].set
            BY DEF E!Named
        <3>5. /\ E!Bit("dow", v) = E!Bit("dow", 0) <=> v = 0
              /\ E!Bit("dow", v) = E!Bit("dow", 7) <=> v = 7
            BY <2>2, <3>1, Layout
        <3>6. v \in 0..7
            BY <2>2, <3>1
        <3>7. v \in E!Named("dow") <=>
                  \/ v \in line.fields["dow"].set
                  \/ v \in {0, 7} /\ (0 \in line.fields["dow"].set \/ 7 \in line.fields["dow"].set)
            BY <3>4, Zenon
        <3>8. E!Bit("dow", v) \in mem' <=>
                  \/ E!Bit("dow", v) \in mem
                  \/ /\ E!Bit("dow", v) \in {E!Bit("dow", 0), E!Bit("dow", 7)}
                     /\ E!Bit("dow", 0) \in mem \/ E!Bit("dow", 7) \in mem
            BY <2>e, Zenon DEF E!Sundays
        <3> QED
            BY <2>2, <3>1, <3>2, <3>3, <3>5, <3>6, <3>7, <3>8
    <2>3. CASE k < 5
        <3>1. E!FieldOrder[k] # "dow"
            BY <2>3 DEF E!FieldOrder
        <3>2. E!FieldOrder[5] = "dow"
            BY DEF E!FieldOrder
        <3>3. /\ E!Bit(E!FieldOrder[k], v) \in Int
              /\ \A b \in E!Span("dow") : E!Bit(E!FieldOrder[k], v) < b
            BY <2>3, <3>2, BitsApart
        <3>4. E!Bit("dow", 0) \in E!Span("dow") /\ E!Bit("dow", 7) \in E!Span("dow")
            BY Layout
        <3>5. E!Bit(E!FieldOrder[k], v) \notin {E!Bit("dow", 0), E!Bit("dow", 7)}
            BY <3>3, <3>4
        <3>6. E!Named(E!FieldOrder[k]) = line.fields[E!FieldOrder[k]].set
            BY <3>1 DEF E!Named
        <3> HIDE DEF E!Bit
        <3> QED
            BY <2>e, <2>1, <3>5, <3>6, Zenon DEF E!Sundays
    <2> QED
        BY <2>2, <2>3
<1>3. CASE E!Special
    <2>1. ~Plain'
        BY <1>3, Zenon DEF E!Special, E!Specials, Plain
    <2> QED
        BY <2>1 DEF FieldsRead
<1>4. CASE E!BadTime \/ E!BadUser \/ E!BadCommand \/ E!Option \/ E!Command \/ UNCHANGED E!vars
    <2>1. UNCHANGED <<line, mem, at>> /\ Plain' = Plain
        BY <1>4, OtherEffect, Zenon
    <2> QED
        BY <2>1 DEF FieldsRead, Wanted, E!Named
<1> QED
    BY <1>1, <1>2, <1>3, <1>4, Zenon DEF E!Next

\* The flags of the fields read.
LEMMA StarsStep == E!TypeOK /\ StarsRead /\ [E!Next]_(E!vars) => StarsRead'
<1> SUFFICES ASSUME E!TypeOK, StarsRead, [E!Next]_(E!vars) PROVE StarsRead'
    OBVIOUS
<1>1. CASE E!Field
    <2>e. /\ at \in 1..5 /\ at' = at + 1 /\ Plain /\ Plain' /\ UNCHANGED line
          /\ flags' = flags \cup IF line.fields[E!FieldOrder[at]].text # "list"
                                 THEN E!StarFlag[E!FieldOrder[at]] ELSE {}
        BY <1>1, FieldEffect, Zenon
    <2>1. at = 1 \/ at = 2 \/ at = 3 \/ at = 4 \/ at = 5
        BY <2>e
    <2>2. CASE at = 3
        BY <2>e, <2>2 DEF StarsRead, E!FieldOrder, E!StarFlag
    <2>3. CASE at = 5
        BY <2>e, <2>3 DEF StarsRead, E!FieldOrder, E!StarFlag
    <2>4. CASE at \in {1, 2, 4}
        <3>1. E!StarFlag[E!FieldOrder[at]] \cap {"DOM_STAR", "DOW_STAR"} = {}
            BY <2>4 DEF E!FieldOrder, E!StarFlag
        <3>2. /\ "DOM_STAR" \in flags' <=> "DOM_STAR" \in flags
              /\ "DOW_STAR" \in flags' <=> "DOW_STAR" \in flags
            BY <2>e, <3>1
        <3>3. (at' > 3 <=> at > 3) /\ (at' > 5 <=> at > 5)
            BY <2>e, <2>4
        <3> QED
            BY <2>e, <3>2, <3>3 DEF StarsRead
    <2> QED
        BY <2>1, <2>2, <2>3, <2>4
<1>2. CASE E!User
    <2>1. at = 6 /\ at' = 7 /\ Plain' = Plain /\ UNCHANGED <<line, flags>>
        BY <1>2, Zenon DEF E!User, Plain
    <2> QED
        BY <2>1 DEF StarsRead
<1>3. CASE E!Special
    <2>1. ~Plain'
        BY <1>3, Zenon DEF E!Special, E!Specials, Plain
    <2> QED
        BY <2>1 DEF StarsRead
<1>4. CASE E!BadTime \/ E!BadUser \/ E!BadCommand \/ E!Option \/ E!Command \/ UNCHANGED E!vars
    <2>1. UNCHANGED <<line, at>> /\ Plain' = Plain
          /\ (flags' = flags \/ flags' = flags \cup {"DONT_LOG"})
        BY <1>4, OtherEffect, Zenon
    <2> QED
        BY <2>1 DEF StarsRead
<1> QED
    BY <1>1, <1>2, <1>3, <1>4, Zenon DEF E!Next

\* The @specials keep what the first step gave them.
LEMMA SpecialStep == E!TypeOK /\ SpecialRead /\ [E!Next]_(E!vars) => SpecialRead'
<1> SUFFICES ASSUME E!TypeOK, SpecialRead, [E!Next]_(E!vars), ~Plain', at' # 1 PROVE SpecialRead'
    BY DEF SpecialRead
<1>1. CASE E!Field
    <2>1. Plain'
        BY <1>1, FieldEffect, Zenon
    <2> QED
        BY <2>1
<1>2. CASE E!User
    <2>1. at = 6 /\ at' = 7 /\ mem' = E!Sundays(mem) /\ Plain' = Plain /\ UNCHANGED <<line, flags>>
        BY <1>2, Zenon DEF E!User, Plain
    <2> QED
        BY <2>1 DEF SpecialRead
<1>3. CASE E!Special
    <2>1. /\ at' = 6 /\ mem' = E!Bits(line.special) /\ flags' = E!Flags(line.special)
          /\ line' = line /\ line.special \in E!Specials
        BY <1>3, Zenon DEF E!Special
    <2>2. /\ "DOM_STAR" \notin E!Flags(line.special)
          /\ "DOW_STAR" \in E!Flags(line.special)
             <=> line.special \in {"yearly", "monthly", "weekly"}
        BY DEF E!Flags
    <2> QED
        BY <2>1, <2>2 DEF SpecialRead
<1>4. CASE E!BadTime \/ E!BadUser \/ E!BadCommand \/ E!Option \/ E!Command \/ UNCHANGED E!vars
    <2>1. /\ UNCHANGED <<line, mem, at>> /\ Plain' = Plain
          /\ flags' = flags \/ flags' = flags \cup {"DONT_LOG"}
        BY <1>4, OtherEffect, Zenon
    <2> QED
        BY <2>1 DEF SpecialRead
<1> QED
    BY <1>1, <1>2, <1>3, <1>4, Zenon DEF E!Next

\* load_entry() is correct at its first character.
LEMMA EntryInit == E!Init => EntryInv
<1> SUFFICES ASSUME E!Init PROVE EntryInv
    OBVIOUS
<1>1. /\ line \in Lines /\ mem = {} /\ flags = {} /\ at = 1 /\ rest = line.text /\ cmd = <<>>
      /\ result = "reading"
    BY DEF E!Init
<1>2. rest \in Seq(E!Chars)
    BY <1>1, LineFields
<1>3. E!TypeOK
    BY <1>1, <1>2 DEF E!TypeOK
<1> QED
    BY <1>1, <1>3 DEF EntryInv, FieldsRead, StarsRead, SpecialRead

\* And stays so.
LEMMA EntryStep == EntryInv /\ [E!Next]_(E!vars) => EntryInv'
<1> SUFFICES ASSUME EntryInv, [E!Next]_(E!vars) PROVE EntryInv'
    OBVIOUS
<1>1. E!TypeOK /\ FieldsRead /\ StarsRead /\ SpecialRead /\ (result = "entry" => at = 7)
    BY DEF EntryInv
<1>2. E!TypeOK' /\ FieldsRead' /\ StarsRead' /\ SpecialRead'
    BY <1>1, EntryType, FieldsStep, StarsStep, SpecialStep
<1>3. (result = "entry" => at = 7)'
    <2>1. CASE E!Field
        <3>1. result' = "reading"
            BY <1>1, <2>1, FieldEffect, Zenon
        <3> QED
            BY <3>1
    <2>2. CASE E!User \/ E!Special
        <3>1. result = "reading" /\ result' = result
            BY <2>2, Zenon DEF E!User, E!Special
        <3> QED
            BY <3>1
    <2>3. CASE E!BadTime \/ E!BadUser \/ E!BadCommand \/ E!Option \/ E!Command \/ UNCHANGED E!vars
        <3>1. at' = at /\ (result' = "entry" => result = "entry" \/ at = 7)
            BY <2>3, OtherEffect, Zenon
        <3> QED
            BY <1>1, <3>1
    <2> QED
        BY <2>1, <2>2, <2>3, Zenon DEF E!Next
<1> QED
    BY <1>2, <1>3 DEF EntryInv

\* A moment's numbers are in the fields.
LEMMA DateType ==
    ASSUME NEW d \in Dates
    PROVE  /\ d["minute"] \in 0..59 /\ d["hour"] \in 0..23 /\ d["dom"] \in 1..31
           /\ d["month"] \in 1..12 /\ d["dow"] \in 0..6
<1>1. /\ d["minute"] \in E!First["minute"]..E!Last["minute"]
      /\ d["hour"] \in E!First["hour"]..E!Last["hour"]
      /\ d["dom"] \in E!First["dom"]..E!Last["dom"]
      /\ d["month"] \in E!First["month"]..E!Last["month"]
      /\ d["dow"] \in E!First["dow"]..E!Last["dow"] /\ d["dow"] # 7
    BY LineConstants, Zenon DEF E!CronEntryConstants, E!Fields
<1> QED
    BY <1>1 DEF E!First, E!Last

\* find_jobs() on a line with five fields.
LEMMA PlainRuns ==
    ASSUME EntryInv, Plain, at = 7, NEW d \in Dates
    PROVE  E!runs(d) <=>
               /\ E!TimeMatches(d)
               /\ E!DaysMatch(d, \A f \in {"dom", "dow"} : line.fields[f].text = "list")
<1>1. ASSUME NEW k \in 1..5,
             d[E!FieldOrder[k]] \in E!First[E!FieldOrder[k]]..E!Last[E!FieldOrder[k]]
      PROVE  E!bit_test(E!FieldOrder[k], d[E!FieldOrder[k]]) <=> E!Matches(E!FieldOrder[k], d)
    BY <1>1 DEF EntryInv, FieldsRead, Wanted, E!bit_test, E!Matches
<1>2. /\ E!FieldOrder[1] = "minute" /\ E!FieldOrder[2] = "hour" /\ E!FieldOrder[3] = "dom"
      /\ E!FieldOrder[4] = "month" /\ E!FieldOrder[5] = "dow"
    BY DEF E!FieldOrder
<1>3. \A f \in E!Fields : d[f] \in E!First[f]..E!Last[f]
    BY LineConstants, Zenon DEF E!CronEntryConstants
<1>4. \A k \in 1..5 : E!FieldOrder[k] \in E!Fields
    BY <1>2 DEF E!Fields
<1>5. /\ E!bit_test("minute", d["minute"]) <=> E!Matches("minute", d)
      /\ E!bit_test("hour", d["hour"]) <=> E!Matches("hour", d)
      /\ E!bit_test("dom", d["dom"]) <=> E!Matches("dom", d)
      /\ E!bit_test("month", d["month"]) <=> E!Matches("month", d)
      /\ E!bit_test("dow", d["dow"]) <=> E!Matches("dow", d)
    <2>1. 1 \in 1..5 /\ 2 \in 1..5 /\ 3 \in 1..5 /\ 4 \in 1..5 /\ 5 \in 1..5
        OBVIOUS
    <2> QED
        BY <1>1, <1>2, <1>3, <1>4, <2>1
<1>6. {"DOM_STAR", "DOW_STAR"} \cap flags = {}
      <=> \A f \in {"dom", "dow"} : line.fields[f].text = "list"
    BY DEF EntryInv, StarsRead
<1> QED
    BY <1>5, <1>6, Zenon DEF E!runs, E!TimeMatches, E!DaysMatch

\* find_jobs() on an @special.
LEMMA SpecialRuns ==
    ASSUME EntryInv, ~Plain, at = 7, NEW d \in Dates
    PROVE  E!runs(d) <=> E!SpecialMatches(line.special, d)
<1>d. /\ d["minute"] \in 0..59 /\ d["hour"] \in 0..23 /\ d["dom"] \in 1..31
      /\ d["month"] \in 1..12 /\ d["dow"] \in 0..6
    BY DateType
<1>m. /\ line.special \in E!Specials
      /\ mem = E!Sundays(E!Bits(line.special))
      /\ {"DOM_STAR", "DOW_STAR"} \cap flags # {}
         <=> line.special \in {"yearly", "monthly", "weekly"}
    BY DEF EntryInv, SpecialRead
<1>o. /\ E!OneBit("minute") = {0} /\ E!OneBit("hour") = {64} /\ E!OneBit("dom") = {88}
      /\ E!OneBit("month") = {120} /\ E!OneBit("dow") = {136}
    BY Layout DEF E!OneBit
<1>t. /\ E!bit_test("minute", d["minute"]) <=> d["minute"] \in mem
      /\ E!bit_test("hour", d["hour"]) <=> 64 + d["hour"] \in mem
      /\ E!bit_test("dom", d["dom"]) <=> 87 + d["dom"] \in mem
      /\ E!bit_test("month", d["month"]) <=> 119 + d["month"] \in mem
      /\ E!bit_test("dow", d["dow"]) <=> 136 + d["dow"] \in mem
    BY <1>d, Layout DEF E!bit_test
<1>s. E!Bit("dow", 0) = 136 /\ E!Bit("dow", 7) = 143
    BY Layout
<1>u. \A b : b \in E!Sundays(E!Bits(line.special)) <=>
                 \/ b \in E!Bits(line.special)
                 \/ b \in {136, 143} /\ {136, 143} \cap E!Bits(line.special) # {}
    BY <1>s DEF E!Sundays
<1>1. CASE line.special = "reboot"
    <2>1. E!Bits(line.special) = {}
        BY <1>1 DEF E!Bits
    <2> QED
        BY <1>1, <1>d, <1>m, <1>t, <1>u, <2>1 DEF E!SpecialMatches, E!runs
<1>2. CASE line.special = "yearly"
    <2>1. E!Bits(line.special) = {0} \cup {64} \cup {88} \cup {120} \cup (136..144)
        BY <1>2, <1>o, Layout DEF E!Bits
    <2>2. \A b \in 0..150 :
          b \in mem <=> b \in {0} \cup {64} \cup {88} \cup {120} \cup (136..144) \/ b = 143
        BY <1>m, <1>u, <2>1
    <2>3. E!SpecialMatches(line.special, d)
          <=> d["minute"] = 0 /\ d["hour"] = 0 /\ d["dom"] = 1 /\ d["month"] = 1
        BY <1>2 DEF E!SpecialMatches
    <2> QED
        BY <1>2, <1>d, <1>m, <1>t, <2>2, <2>3 DEF E!runs
<1>3. CASE line.special = "monthly"
    <2>1. E!Bits(line.special) = {0} \cup {64} \cup {88} \cup (120..132) \cup (136..144)
        BY <1>3, <1>o, Layout DEF E!Bits
    <2>2. \A b \in 0..150 :
          b \in mem <=> b \in {0} \cup {64} \cup {88} \cup (120..132) \cup (136..144) \/ b = 143
        BY <1>m, <1>u, <2>1
    <2>3. E!SpecialMatches(line.special, d) <=> d["minute"] = 0 /\ d["hour"] = 0 /\ d["dom"] = 1
        BY <1>3 DEF E!SpecialMatches
    <2> QED
        BY <1>3, <1>d, <1>m, <1>t, <2>2, <2>3 DEF E!runs
<1>4. CASE line.special = "weekly"
    <2>1. E!Bits(line.special) = {0} \cup {64} \cup (88..119) \cup (120..132) \cup {136}
        BY <1>4, <1>o, Layout DEF E!Bits
    <2>2. \A b \in 0..150 :
          b \in mem <=> b \in {0} \cup {64} \cup (88..119) \cup (120..132) \cup {136} \/ b = 143
        BY <1>m, <1>u, <2>1
    <2>3. E!SpecialMatches(line.special, d) <=> d["minute"] = 0 /\ d["hour"] = 0 /\ d["dow"] = 0
        BY <1>4 DEF E!SpecialMatches
    <2> QED
        BY <1>4, <1>d, <1>m, <1>t, <2>2, <2>3 DEF E!runs
<1>5. CASE line.special = "daily"
    <2>1. E!Bits(line.special) = {0} \cup {64} \cup (88..119) \cup (120..132) \cup (136..144)
        BY <1>5, <1>o, Layout DEF E!Bits
    <2>2. \A b \in 0..150 :
          b \in mem <=> b \in {0} \cup {64} \cup (88..119) \cup (120..132) \cup (136..144) \/ b = 143
        BY <1>m, <1>u, <2>1
    <2>3. E!SpecialMatches(line.special, d) <=> d["minute"] = 0 /\ d["hour"] = 0
        BY <1>5 DEF E!SpecialMatches
    <2> QED
        BY <1>5, <1>d, <1>m, <1>t, <2>2, <2>3 DEF E!runs
<1>6. CASE line.special = "hourly"
    <2>1. E!Bits(line.special) = {0} \cup (64..88) \cup (88..119) \cup (120..132) \cup (136..144)
        BY <1>6, <1>o, Layout DEF E!Bits
    <2>2. \A b \in 0..150 :
          b \in mem <=> b \in {0} \cup (64..88) \cup (88..119) \cup (120..132) \cup (136..144) \/ b = 143
        BY <1>m, <1>u, <2>1
    <2>3. E!SpecialMatches(line.special, d) <=> d["minute"] = 0
        BY <1>6 DEF E!SpecialMatches
    <2> QED
        BY <1>6, <1>d, <1>m, <1>t, <2>2, <2>3 DEF E!runs
<1> QED
    BY <1>m, <1>1, <1>2, <1>3, <1>4, <1>5, <1>6 DEF E!Specials

\* By find_jobs()'s test on the star flags and by the manual's: the code's lets
\* a command run less often, and only if a star is followed by a step.
LEMMA DayRules ==
    ASSUME line \in Lines, Plain, NEW d \in Dates
    PROVE  LET starless == \A f \in {"dom", "dow"} : line.fields[f].text = "list"
           IN  /\ E!TimeMatches(d) /\ E!DaysMatch(d, starless) => E!Meant(d)
               /\ E!Meant(d) => \/ E!TimeMatches(d) /\ E!DaysMatch(d, starless)
                               \/ E!StarredStep
<1>1. \A f \in {"dom", "dow"} : line.fields[f].text \in {"*", "*/n", "list"}
    BY LineConstants, Zenon DEF E!CronEntryConstants, E!Fields
<1> QED
    BY <1>1 DEF Plain, E!Meant, E!DaysMatch, E!Restricted, E!StarredStep

\* A line that was accepted runs when it should.
LEMMA EntryRuns == EntryInv => E!RunsWhenMeant
<1> SUFFICES ASSUME EntryInv, result = "entry", NEW d \in Dates
             PROVE  /\ E!runs(d) => E!Meant(d)
                    /\ E!Meant(d) => E!runs(d) \/ E!StarredStep
    BY Zenon DEF E!RunsWhenMeant
<1>1. at = 7 /\ line \in Lines
    BY DEF EntryInv, E!TypeOK
<1>2. CASE Plain
    <2>1. E!runs(d) <=>
              /\ E!TimeMatches(d)
              /\ E!DaysMatch(d, \A f \in {"dom", "dow"} : line.fields[f].text = "list")
        BY <1>1, <1>2, PlainRuns, Zenon
    <2> QED
        BY <1>1, <1>2, <2>1, DayRules, Zenon
<1>3. CASE ~Plain
    <2>1. E!Meant(d) <=> E!SpecialMatches(line.special, d)
        BY <1>3, Zenon DEF Plain, E!Meant
    <2> QED
        BY <1>1, <1>3, <2>1, SpecialRuns, Zenon
<1> QED
    BY <1>2, <1>3

-----------------------------------------------------------------------------
(* get_list().                                                               *)

\* The numbers that ranges stand for.
Numbered(R) == UNION {{i \in r[1]..r[2] : \E k \in 0..r[2] : i = r[1] + k * r[3]} : r \in R}

\* The ranges of the pieces that end before n.
Before(n) == {c \in F!Neighbours : c[2] < n}
RangesBefore(n) == UNION {F!PieceRange(SubSeq(text, c[1] + 1, c[2] - 1)) : c \in Before(n)}

\* While a field written by the grammar is read, get_list() is behind a comma (or
\* at the start), and its bits are those of the ranges before it.
PiecesRead ==
    status = "parse" /\ F!Grammatical =>
        /\ pos - 1 \in F!Cuts /\ pos <= Len(text) + 1
        /\ bits = Numbered(RangesBefore(pos))
        /\ \A r \in RangesBefore(pos) : r[1] <= r[2]

FieldInv == F!TypeOK /\ PiecesRead /\ F!FieldExact /\ F!FieldAccepted

\* The constants.
LEMMA FieldNumbers ==
    /\ Low \in Nat /\ High \in Nat /\ Low <= High /\ High < IntMax
    /\ NameCount \in Nat /\ IntMax \in Nat /\ F!NameBase = -8
    /\ F!Star = -1 /\ F!Comma = -2 /\ F!Dash = -3 /\ F!Slash = -4 /\ F!Junk = -5 /\ F!Blank = -6
    BY LineConstants, Zenon DEF F!CronFieldConstants, F!NameBase, F!Star, F!Comma, F!Dash, F!Slash,
       F!Junk, F!Blank

\* atoi() of a number that an int can hold.
LEMMA Converted ==
    ASSUME NEW c \in Int, F!IsNumber(c)
    PROVE  F!atoi(c) = c /\ c \in Nat /\ F!Digits(c)
<1>1. IntMax \in Nat /\ c \in 0..IntMax
    BY FieldNumbers DEF F!IsNumber
<1> QED
    BY <1>1 DEF F!atoi, F!Digits

\* k multiples of d.
LEMMA Multiples ==
    ASSUME NEW n \in Nat, NEW d \in Nat \ {0}
    PROVE  n % d = 0 <=> \E k \in 0..n : n = k * d
<1>1. n = d * (n \div d) + (n % d)
    OBVIOUS
<1>4. n \div d \in Nat
    OBVIOUS
<1>2. ASSUME n % d = 0 PROVE \E k \in 0..n : n = k * d
    <2>1. PICK q \in Nat : q = n \div d
        BY <1>4
    <2>2. n = q * d
        BY <1>1, <1>2, <2>1
    <2>3. q <= n
        BY <2>2
    <2> QED
        BY <2>2, <2>3
<1>3. ASSUME NEW k \in 0..n, n = k * d PROVE n % d = 0
    BY <1>3
<1> QED
    BY <1>2, <1>3

\* The numbers get_range() runs through are those of the range.
LEMMA ElementsMeant ==
    ASSUME NEW a \in Nat, NEW b \in Nat, NEW d \in Nat \ {0}
    PROVE  F!Elements(a, b, d) = {i \in a..b : \E k \in 0..b : i = a + k * d}
<1>1. ASSUME NEW i \in a..b PROVE (i - a) % d = 0 <=> \E k \in 0..b : i = a + k * d
    <2>1. (i - a) % d = 0 <=> \E k \in 0..(i - a) : i - a = k * d
        <3>1. PICK m \in Nat : m = i - a
            OBVIOUS
        <3> QED
            BY <3>1, Multiples
    <2>2. ASSUME NEW k \in 0..(i - a), i - a = k * d PROVE \E j \in 0..b : i = a + j * d
        <3>1. k \in 0..b /\ k * d \in Int
            OBVIOUS
        <3>2. i = a + k * d
            BY <2>2, <3>1
        <3> QED
            BY <3>1, <3>2
    <2>3. ASSUME NEW k \in 0..b, i = a + k * d PROVE \E j \in 0..(i - a) : i - a = j * d
        <3>1. i - a = k * d
            BY <2>3
        <3>2. k <= k * d
            OBVIOUS
        <3> QED
            BY <3>1, <3>2
    <2> QED
        BY <2>1, <2>2, <2>3
<1> QED
    BY <1>1 DEF F!Elements

\* What a piece of the grammar is made of.
LEMMA PieceForms ==
    ASSUME NEW q, Len(q) \in Nat, F!PieceRange(q) # {}
    PROVE  \/ Len(q) = 1 /\ q[1] = F!Star /\ F!PieceRange(q) = {<<Low, High, 1>>}
           \/ /\ Len(q) = 3 /\ q[1] = F!Star /\ q[2] = F!Slash /\ F!IsNumber(q[3])
              /\ F!PieceRange(q) = {<<Low, High, q[3]>>}
           \/ /\ Len(q) = 1 /\ F!IsValue(q[1])
              /\ F!PieceRange(q) = {<<F!ValueOf(q[1]), F!ValueOf(q[1]), 1>>}
           \/ /\ Len(q) = 3 /\ F!IsValue(q[1]) /\ q[2] = F!Dash /\ F!IsValue(q[3])
              /\ F!PieceRange(q) = {<<F!ValueOf(q[1]), F!ValueOf(q[3]), 1>>}
           \/ /\ Len(q) = 5 /\ F!IsValue(q[1]) /\ q[2] = F!Dash /\ F!IsValue(q[3])
              /\ q[4] = F!Slash /\ F!IsNumber(q[5])
              /\ F!PieceRange(q) = {<<F!ValueOf(q[1]), F!ValueOf(q[3]), q[5]>>}
<1>1. \A x : F!IsValue(x) => x # F!Star
    BY FieldNumbers DEF F!IsValue, F!IsNumber, F!IsName
<1> QED
    BY <1>1 DEF F!PieceRange

\* The text's characters, and what stands behind a piece.
LEMMA TextTokens ==
    ASSUME F!TypeOK
    PROVE  /\ Len(text) \in Nat
           /\ \A i \in 1..Len(text) : text[i] \in Int /\ text[i] # F!Blank /\ F!Ch(i) = text[i]
           /\ \A i \in Nat : i > Len(text) => F!Ch(i) = F!Blank
<1>1. text \in Seq(F!Tokens)
    BY DEF F!TypeOK
<1>2. Len(text) \in Nat /\ \A i \in 1..Len(text) : text[i] \in F!Tokens
    BY <1>1, LenProperties
<1>3. \A i \in 1..Len(text) : text[i] \in Int /\ text[i] # F!Blank
    BY <1>2, FieldNumbers DEF F!Tokens
<1> QED
    BY <1>2, <1>3 DEF F!Ch

\* Where the pieces of a field begin and end: in front of it, at its commas and behind it.
LEMMA CutsType ==
    ASSUME F!TypeOK
    PROVE  /\ F!Cuts \subseteq 0..(Len(text) + 1) /\ 0 \in F!Cuts /\ Len(text) + 1 \in F!Cuts
           /\ \A b \in F!Cuts : b # 0 => F!Ch(b) \in {F!Comma, F!Blank}
           /\ \A b \in F!Cuts : F!Ch(b) # F!Comma /\ b # 0 => b = Len(text) + 1
           /\ \A b \in F!Cuts : F!Ch(b) = F!Comma /\ b # 0 => b <= Len(text)
<1>1. Len(text) \in Nat
    BY TextTokens
<1>2. \A b \in F!Cuts : b = 0 \/ b = Len(text) + 1 \/ (b \in 1..Len(text) /\ text[b] = F!Comma)
    BY DEF F!Cuts
<1>3. F!Ch(Len(text) + 1) = F!Blank
    BY <1>1, TextTokens
<1>4. \A b \in 1..Len(text) : F!Ch(b) = text[b]
    BY TextTokens
<1>5. F!Comma # F!Blank
    BY FieldNumbers
<1>6. F!Cuts \subseteq 0..(Len(text) + 1) /\ 0 \in F!Cuts /\ Len(text) + 1 \in F!Cuts
    BY <1>1 DEF F!Cuts
<1>7. ASSUME NEW b \in F!Cuts, b # 0
      PROVE  /\ F!Ch(b) \in {F!Comma, F!Blank}
             /\ F!Ch(b) # F!Comma => b = Len(text) + 1
             /\ F!Ch(b) = F!Comma => b <= Len(text)
    BY <1>1, <1>2, <1>3, <1>4, <1>5, <1>7
<1> QED
    BY <1>6, <1>7

\* The step of a range, if one is written.
LEMMA StepsRead ==
    ASSUME NEW x, NEW y, NEW i \in Int, F!Ch(i) = F!Slash => F!Ch(i + 1) \in Int
    PROVE  /\ F!Ch(i) \in {F!Comma, F!Blank} => F!Steps(x, y, i) = {F!Range(x, y, 1, i)}
           /\ F!Ch(i) = F!Slash /\ F!IsNumber(F!Ch(i + 1)) /\ F!Ch(i + 2) \in {F!Comma, F!Blank} =>
                  F!Steps(x, y, i) = IF F!Ch(i + 1) # 0
                                     THEN {F!Range(x, y, F!Ch(i + 1), i + 2)} ELSE {}
<1>1. F!Slash \notin {F!Comma, F!Blank}
    BY FieldNumbers
<1>2. F!Ch(i) \in {F!Comma, F!Blank} => F!Steps(x, y, i) = {F!Range(x, y, 1, i)}
    BY <1>1, Zenon DEF F!Steps
<1>3. ASSUME F!Ch(i) = F!Slash, F!IsNumber(F!Ch(i + 1)), F!Ch(i + 2) \in {F!Comma, F!Blank}
      PROVE  F!Steps(x, y, i) = IF F!Ch(i + 1) # 0
                                THEN {F!Range(x, y, F!Ch(i + 1), i + 2)} ELSE {}
    <2>1. i + 1 + 1 = i + 2
        OBVIOUS
    <2>2. F!atoi(F!Ch(i + 1)) = F!Ch(i + 1) /\ F!Digits(F!Ch(i + 1))
        BY <1>3, Converted
    <2>3. F!NumberAt(i + 1, FALSE, {F!Comma, F!Blank})
        BY <1>3, <2>1, <2>2 DEF F!NumberAt
    <2> QED
        BY <1>3, <2>2, <2>3, Zenon DEF F!Steps
<1> QED
    BY <1>2, <1>3

\* What get_range() reads at the start of a piece of the grammar: the range the
\* piece stands for, up to its end, or nothing if the range falls or its step is 0.
LEMMA RangeRead ==
    ASSUME F!TypeOK, NEW a \in F!Cuts, NEW b \in F!Cuts, a < b,
           F!PieceRange(SubSeq(text, a + 1, b - 1)) # {}
    PROVE  \E x \in Nat, y \in Nat, z \in Nat :
               /\ F!PieceRange(SubSeq(text, a + 1, b - 1)) = {<<x, y, z>>}
               /\ F!get_range(a + 1) = IF x <= y /\ z # 0 THEN {F!Range(x, y, z, b)} ELSE {}
<1> DEFINE q == SubSeq(text, a + 1, b - 1)
<1>n. /\ Len(text) \in Nat /\ a \in 0..Len(text) /\ b \in 1..(Len(text) + 1)
      /\ Low \in Nat /\ High \in Nat /\ Low <= High /\ IntMax \in Nat /\ NameCount \in Nat
    BY TextTokens, CutsType, FieldNumbers
<1>q. /\ Len(q) = b - 1 - a /\ Len(q) \in Nat
      /\ \A i \in 1..Len(q) : q[i] = F!Ch(a + i) /\ F!Ch(a + i) \in Int
    <2>1. \A i \in (a + 1)..(b - 1) : text[i] \in Int /\ F!Ch(i) = text[i]
        BY <1>n, TextTokens
    <2>2. /\ Len(q) = IF a + 1 <= b - 1 THEN b - 1 - (a + 1) + 1 ELSE 0
          /\ \A i \in 1..(b - 1 - (a + 1) + 1) : q[i] = text[a + 1 + i - 1]
        BY <1>n, <2>1, SubSeqProperties
    <2>3. Len(q) = b - 1 - a
        BY <1>n, <2>2
    <2> HIDE DEF q
    <2>4. ASSUME NEW i \in 1..Len(q) PROVE q[i] = F!Ch(a + i) /\ F!Ch(a + i) \in Int
        <3>1. a + i \in (a + 1)..(b - 1) /\ i \in 1..(b - 1 - (a + 1) + 1) /\ a + 1 + i - 1 = a + i
            BY <1>n, <2>3
        <3> QED
            BY <2>1, <2>2, <3>1
    <2> QED
        BY <1>n, <2>3, <2>4
<1>e. F!Ch(b) \in {F!Comma, F!Blank}
    BY <1>n, CutsType
<1>v. ASSUME NEW i, F!IsValue(F!Ch(i)), F!Ch(i) \in Int
      PROVE  /\ F!Value(i, Low) = F!ValueOf(F!Ch(i))
             /\ F!Digits(F!Ch(i)) \/ F!IsName(F!Ch(i))
    BY <1>v, Converted, Zenon DEF F!Value, F!ValueOf, F!IsValue
<1>t. \A c \in Int : F!IsValue(c) => F!ValueOf(c) \in Nat /\ c # F!Star
    BY <1>n, FieldNumbers DEF F!IsValue, F!ValueOf, F!IsNumber, F!IsName
<1>s. \A c \in Int : F!IsNumber(c) => c \in Nat
    BY DEF F!IsNumber
<1>p. F!PieceRange(q) # {}
    OBVIOUS
<1> SUFFICES \E x \in Nat, y \in Nat, z \in Nat :
                 /\ F!PieceRange(q) = {<<x, y, z>>}
                 /\ F!get_range(a + 1) = IF x <= y /\ z # 0 THEN {F!Range(x, y, z, b)} ELSE {}
    BY Zenon
<1> HIDE DEF q
<1>r. ASSUME NEW x \in Nat, NEW y \in Nat, NEW z \in Nat, F!PieceRange(q) = {<<x, y, z>>},
             F!get_range(a + 1) = IF x <= y /\ z # 0 THEN {F!Range(x, y, z, b)} ELSE {}
      PROVE  \E u \in Nat, v \in Nat, w \in Nat :
                 /\ F!PieceRange(q) = {<<u, v, w>>}
                 /\ F!get_range(a + 1) = IF u <= v /\ w # 0 THEN {F!Range(u, v, w, b)} ELSE {}
    BY <1>r, Zenon
<1>l. b = a + Len(q) + 1
    BY <1>n, <1>q
<1>z. /\ a + 1 + 1 = a + 2 /\ a + 3 + 1 = a + 4 /\ a + 5 + 1 = a + 6
      /\ a + 2 \in Int /\ a + 4 \in Int /\ a + 6 \in Int
    BY <1>n
<1>i. \A i \in 1..Len(q) : F!Ch(a + i) = q[i]
    BY <1>q
<1>k. a + 0 = a /\ (a + 1) + 1 = a + 2 /\ (a + 1) + 2 = a + 3 /\ (a + 1) + 3 = a + 4
      /\ (a + 4) + 1 = a + 5 /\ (a + 4) + 2 = a + 6 /\ (a + 2) + 1 = a + 3 /\ (a + 2) + 2 = a + 4
      /\ (a + 3) + 1 = a + 4
    BY <1>n
<1>d. F!Dash \notin {F!Comma, F!Blank} /\ F!Dash # F!Slash /\ F!Slash \notin {F!Comma, F!Blank}
    BY FieldNumbers
<1>1. CASE Len(q) = 1 /\ q[1] = F!Star /\ F!PieceRange(q) = {<<Low, High, 1>>}
    <2>1. b = a + 2
        BY <1>l, <1>z, <1>1, Zenon
    <2>2. F!Ch(a + 1) = F!Star
        BY <1>i, <1>1
    <2>3. F!get_range(a + 1) = F!Steps(Low, High, b)
        BY <1>k, <2>1, <2>2, Zenon DEF F!get_range
    <2>4. F!Steps(Low, High, b) = {F!Range(Low, High, 1, b)}
        BY <1>d, <1>e, <1>z, <2>1, StepsRead
    <2>5. F!get_range(a + 1) = IF Low <= High /\ 1 # 0 THEN {F!Range(Low, High, 1, b)} ELSE {}
        BY <1>n, <2>3, <2>4
    <2> QED
        BY <1>n, <1>r, <1>1, <2>5
<1>2. CASE /\ Len(q) = 3 /\ q[1] = F!Star /\ q[2] = F!Slash /\ F!IsNumber(q[3])
           /\ F!PieceRange(q) = {<<Low, High, q[3]>>}
    <2>1. b = a + 4
        BY <1>l, <1>z, <1>2, Zenon
    <2>2. F!Ch(a + 1) = F!Star /\ F!Ch(a + 2) = F!Slash /\ F!Ch(a + 3) = q[3] /\ q[3] \in Int
        <3>1. Len(q) = 3 /\ 1 \in 1..3 /\ 2 \in 1..3 /\ 3 \in 1..3
            BY <1>2
        <3> QED
            BY <1>q, <1>2, <3>1, Zenon
    <2>3. F!get_range(a + 1) = F!Steps(Low, High, a + 2)
        BY <1>k, <2>2, Zenon DEF F!get_range
    <2>4. F!Steps(Low, High, a + 2) = IF q[3] # 0 THEN {F!Range(Low, High, q[3], b)} ELSE {}
        <3>1. /\ F!Ch(a + 2) = F!Slash /\ F!IsNumber(F!Ch(a + 2 + 1))
              /\ F!Ch(a + 2 + 2) \in {F!Comma, F!Blank} /\ F!Ch(a + 2 + 1) = q[3] /\ a + 2 + 2 = b
            BY <1>e, <1>k, <1>2, <2>1, <2>2, Zenon
        <3>2. a + 2 \in Int /\ F!Ch(a + 2 + 1) \in Int
            BY <1>z, <2>2, <3>1
        <3>3. F!Steps(Low, High, a + 2) = IF F!Ch(a + 2 + 1) # 0
                  THEN {F!Range(Low, High, F!Ch(a + 2 + 1), a + 2 + 2)} ELSE {}
            BY <3>1, <3>2, StepsRead
        <3> QED
            BY <3>1, <3>3, Zenon
    <2>5. /\ q[3] \in Nat
          /\ F!get_range(a + 1) =
                                   IF Low <= High /\ q[3] # 0 THEN {F!Range(Low, High, q[3], b)} ELSE {}
        BY <1>n, <1>s, <1>2, <2>2, <2>3, <2>4
    <2> QED
        BY <1>n, <1>r, <1>2, <2>5, Zenon
<1>3. CASE /\ Len(q) = 1 /\ F!IsValue(q[1])
           /\ F!PieceRange(q) = {<<F!ValueOf(q[1]), F!ValueOf(q[1]), 1>>}
    <2>1. b = a + 2
        BY <1>l, <1>z, <1>3, Zenon
    <2>2. F!Ch(a + 1) = q[1] /\ q[1] \in Int
        BY <1>i, <1>q, <1>3
    <2>3. F!ValueOf(q[1]) \in Nat /\ F!Ch(a + 1) # F!Star
        BY <1>t, <1>3, <2>2
    <2>4. F!NumberAt(a + 1, TRUE, {F!Comma, F!Dash, F!Blank})
        BY <1>e, <1>k, <1>v, <1>3, <2>1, <2>2, Zenon DEF F!NumberAt
    <2>5. F!get_range(a + 1) = {F!Range(F!ValueOf(q[1]), F!ValueOf(q[1]), 1, b)}
        BY <1>e, <1>d, <1>k, <1>v, <1>3, <2>1, <2>2, <2>3, <2>4, Zenon DEF F!get_range
    <2>6. PICK x \in Nat : x = F!ValueOf(q[1])
        BY <2>3
    <2>7. F!get_range(a + 1) = IF x <= x /\ 1 # 0 THEN {F!Range(x, x, 1, b)} ELSE {}
        <3>1. x <= x /\ 1 # 0
            OBVIOUS
        <3> QED
            BY <2>5, <2>6, <3>1, Zenon
    <2> QED
        BY <1>r, <1>3, <2>6, <2>7
<1>4. CASE /\ Len(q) = 3 /\ F!IsValue(q[1]) /\ q[2] = F!Dash /\ F!IsValue(q[3])
           /\ F!PieceRange(q) = {<<F!ValueOf(q[1]), F!ValueOf(q[3]), 1>>}
    <2>1. b = a + 4
        BY <1>l, <1>z, <1>4, Zenon
    <2>2. /\ F!Ch(a + 1) = q[1] /\ F!Ch(a + 2) = F!Dash /\ F!Ch(a + 3) = q[3]
          /\ q[1] \in Int /\ q[3] \in Int
        <3>1. Len(q) = 3 /\ 1 \in 1..3 /\ 2 \in 1..3 /\ 3 \in 1..3
            BY <1>4
        <3> QED
            BY <1>q, <1>4, <3>1, Zenon
    <2>3. F!ValueOf(q[1]) \in Nat /\ F!ValueOf(q[3]) \in Nat /\ F!Ch(a + 1) # F!Star
        BY <1>t, <1>4, <2>2
    <2>4. /\ F!NumberAt(a + 1, TRUE, {F!Comma, F!Dash, F!Blank})
          /\ F!NumberAt(a + 3, TRUE, {F!Slash, F!Comma, F!Blank})
        BY <1>e, <1>k, <1>v, <1>4, <2>1, <2>2, Zenon DEF F!NumberAt
    <2>5. F!get_range(a + 1) = IF F!ValueOf(q[1]) <= F!ValueOf(q[3])
                               THEN F!Steps(F!ValueOf(q[1]), F!ValueOf(q[3]), a + 4) ELSE {}
        BY <1>k, <1>v, <1>4, <2>2, <2>3, <2>4, Zenon DEF F!get_range
    <2>6. PICK x \in Nat, y \in Nat : x = F!ValueOf(q[1]) /\ y = F!ValueOf(q[3])
        BY <2>3
    <2>7. F!Steps(x, y, a + 4) = {F!Range(x, y, 1, b)}
        BY <1>d, <1>e, <1>z, <2>1, StepsRead, Zenon
    <2>8. F!get_range(a + 1) = IF x <= y /\ 1 # 0 THEN {F!Range(x, y, 1, b)} ELSE {}
        <3>1. 1 # 0
            OBVIOUS
        <3> QED
            BY <2>5, <2>6, <2>7, <3>1, Zenon
    <2> QED
        BY <1>r, <1>4, <2>6, <2>8
<1>5. CASE /\ Len(q) = 5 /\ F!IsValue(q[1]) /\ q[2] = F!Dash /\ F!IsValue(q[3])
           /\ q[4] = F!Slash /\ F!IsNumber(q[5])
           /\ F!PieceRange(q) = {<<F!ValueOf(q[1]), F!ValueOf(q[3]), q[5]>>}
    <2>1. b = a + 6
        BY <1>l, <1>z, <1>5, Zenon
    <2>2. /\ F!Ch(a + 1) = q[1] /\ F!Ch(a + 2) = F!Dash /\ F!Ch(a + 3) = q[3]
          /\ F!Ch(a + 4) = F!Slash /\ F!Ch(a + 5) = q[5]
          /\ q[1] \in Int /\ q[3] \in Int /\ q[5] \in Int
        <3>1. /\ Len(q) = 5 /\ 1 \in 1..5 /\ 2 \in 1..5 /\ 3 \in 1..5
              /\ 4 \in 1..5 /\ 5 \in 1..5
            BY <1>5
        <3> QED
            BY <1>q, <1>5, <3>1, Zenon
    <2>3. /\ F!ValueOf(q[1]) \in Nat /\ F!ValueOf(q[3]) \in Nat /\ F!Ch(a + 1) # F!Star
          /\ q[5] \in Nat
        BY <1>s, <1>t, <1>5, <2>2
    <2>4. /\ F!NumberAt(a + 1, TRUE, {F!Comma, F!Dash, F!Blank})
          /\ F!NumberAt(a + 3, TRUE, {F!Slash, F!Comma, F!Blank})
        BY <1>k, <1>v, <1>5, <2>2, Zenon DEF F!NumberAt
    <2>5. F!get_range(a + 1) = IF F!ValueOf(q[1]) <= F!ValueOf(q[3])
                               THEN F!Steps(F!ValueOf(q[1]), F!ValueOf(q[3]), a + 4) ELSE {}
        BY <1>k, <1>v, <1>5, <2>2, <2>3, <2>4, Zenon DEF F!get_range
    <2>6. PICK x \in Nat, y \in Nat, z \in Nat :
              x = F!ValueOf(q[1]) /\ y = F!ValueOf(q[3]) /\ z = q[5]
        BY <2>3
    <2>7. F!Steps(x, y, a + 4) = IF z # 0 THEN {F!Range(x, y, z, b)} ELSE {}
        <3>1. /\ F!Ch(a + 4) = F!Slash /\ F!IsNumber(F!Ch(a + 4 + 1))
              /\ F!Ch(a + 4 + 2) \in {F!Comma, F!Blank} /\ F!Ch(a + 4 + 1) = z /\ a + 4 + 2 = b
            BY <1>e, <1>k, <1>5, <2>1, <2>2, <2>6, Zenon
        <3>2. a + 4 \in Int /\ F!Ch(a + 4 + 1) \in Int
            BY <1>z, <2>2, <2>6, <3>1
        <3>3. F!Steps(x, y, a + 4) = IF F!Ch(a + 4 + 1) # 0
                  THEN {F!Range(x, y, F!Ch(a + 4 + 1), a + 4 + 2)} ELSE {}
            BY <3>1, <3>2, StepsRead
        <3> QED
            BY <3>1, <3>3, Zenon
    <2>8. F!get_range(a + 1) = IF x <= y /\ z # 0 THEN {F!Range(x, y, z, b)} ELSE {}
        BY <2>5, <2>6, <2>7
    <2> QED
        BY <1>r, <1>5, <2>6, <2>8, Zenon
<1> QED
    BY <1>p, <1>q, <1>1, <1>2, <1>3, <1>4, <1>5, PieceForms, Zenon

\* get_range() goes on.
LEMMA RangeGoesOn ==
    ASSUME NEW i \in Nat, NEW r \in F!get_range(i)
    PROVE  r.next \in Nat
<1>1. ASSUME NEW x, NEW y, NEW j \in Nat, NEW s \in F!Steps(x, y, j) PROVE s.next \in Nat
    <2>1. s = F!Range(x, y, 1, j) \/ s = F!Range(x, y, F!atoi(F!Ch(j + 1)), j + 2)
        BY Zenon DEF F!Steps
    <2> QED
        BY <2>1 DEF F!Range
<1>2. \/ \E x, y : r \in F!Steps(x, y, i + 1) \/ r \in F!Steps(x, y, i + 3)
      \/ \E x : r = F!Range(x, x, 1, i + 1)
    BY Zenon DEF F!get_range
<1>3. CASE \E x, y : r \in F!Steps(x, y, i + 1) \/ r \in F!Steps(x, y, i + 3)
    BY <1>1, <1>3
<1>4. CASE \E x : r = F!Range(x, x, 1, i + 1)
    BY <1>4 DEF F!Range
<1> QED
    BY <1>2, <1>3, <1>4

\* The types of get_list()'s variables.
LEMMA FieldType == F!TypeOK /\ [F!Next]_(F!vars) => F!TypeOK'
<1> SUFFICES ASSUME F!TypeOK, [F!Next]_(F!vars) PROVE F!TypeOK'
    OBVIOUS
<1>t. /\ text \in Seq(F!Tokens) /\ pos \in Nat /\ pos \in 1..(Len(text) + 2)
      /\ bits \subseteq Low..High /\ status \in {"parse", "ok", "eof"} /\ Len(text) \in Nat
    BY TextTokens DEF F!TypeOK
<1>s. ASSUME text' = text, pos' \in 1..(Len(text) + 2), bits' \subseteq Low..High,
             status' \in {"parse", "ok", "eof"}
      PROVE  F!TypeOK'
    BY <1>t, <1>s, Zenon DEF F!TypeOK
<1>1. CASE F!RangeStep
    <2>1. PICK r \in F!Rising(pos) :
              /\ F!InField(F!Elements(r.num1, r.num2, r.num3))
              /\ bits' = bits \cup F!Elements(r.num1, r.num2, r.num3)
              /\ IF F!Ch(r.next) = F!Comma
                 THEN pos' = r.next + 1 /\ UNCHANGED status
                 ELSE pos' = Len(text) + 1 /\ status' = "ok"
        BY <1>1, Zenon DEF F!RangeStep
    <2>2. text' = text
        BY <1>1 DEF F!RangeStep
    <2>3. bits' \subseteq Low..High
        BY <1>t, <2>1, Zenon DEF F!InField
    <2>4. r.next \in Nat
        BY <1>t, RangeGoesOn DEF F!Rising
    <2>5. F!Ch(r.next) = F!Comma => r.next <= Len(text)
        BY <1>t, <2>4, TextTokens, FieldNumbers
    <2>6. pos' \in 1..(Len(text) + 2) /\ status' \in {"parse", "ok", "eof"}
        <3>1. CASE F!Ch(r.next) = F!Comma
            BY <1>t, <2>1, <2>4, <2>5, <3>1
        <3>2. CASE F!Ch(r.next) # F!Comma
            BY <1>t, <2>1, <3>2
        <3> QED
            BY <3>1, <3>2
    <2> QED
        BY <1>s, <2>2, <2>3, <2>6
<1>2. CASE F!BadRange
    <2>1. status' = "eof" /\ UNCHANGED <<text, pos, bits>>
        BY <1>2, Zenon DEF F!BadRange
    <2> QED
        BY <1>t, <1>s, <2>1
<1>3. CASE UNCHANGED F!vars
    BY <1>t, <1>s, <1>3 DEF F!vars
<1> QED
    BY <1>1, <1>2, <1>3, Zenon DEF F!Next

\* The next cut.
LEMMA NextCut ==
    ASSUME F!TypeOK, NEW a \in F!Cuts, a <= Len(text)
    PROVE  \E b \in F!Cuts : /\ a < b /\ \A d \in F!Cuts : d <= a \/ d >= b
                             /\ <<a, b>> \in F!Neighbours
<1>n. Len(text) \in Nat /\ F!Cuts \subseteq 0..(Len(text) + 1) /\ Len(text) + 1 \in F!Cuts
    BY TextTokens, CutsType
<1> DEFINE T == {d \in F!Cuts : d > a}
<1>1. T \subseteq Nat /\ Len(text) + 1 \in T
    <2>1. a \in Nat /\ Len(text) + 1 > a
        BY <1>n
    <2>2. F!Cuts \subseteq Nat
        BY <1>n
    <2> QED
        BY <1>n, <2>1, <2>2
<1>2. PICK b \in T : \A d \in T : b <= d
    BY <1>1, Least
<1>3. b \in F!Cuts /\ a < b /\ a \in Nat /\ b \in Nat
    BY <1>n, <1>2
<1>4. \A d \in F!Cuts : d <= a \/ d >= b
    BY <1>n, <1>2, <1>3
<1>5. <<a, b>> \in F!Neighbours
    BY <1>3, <1>4 DEF F!Neighbours
<1> QED
    BY <1>3, <1>4, <1>5

\* One piece more.
LEMMA OnePieceMore ==
    ASSUME F!TypeOK, NEW a \in F!Cuts, NEW b \in F!Cuts, a < b,
           \A d \in F!Cuts : d <= a \/ d >= b, <<a, b>> \in F!Neighbours
    PROVE  RangesBefore(b + 1) = RangesBefore(a + 1) \cup F!PieceRange(SubSeq(text, a + 1, b - 1))
<1>n. F!Cuts \subseteq Nat /\ a \in Nat /\ b \in Nat
    BY TextTokens, CutsType
<1>1. Before(b + 1) = Before(a + 1) \cup {<<a, b>>}
    <2>1. ASSUME NEW c \in F!Neighbours, c[2] < b + 1 PROVE c[2] < a + 1 \/ c = <<a, b>>
        <3>1. /\ c \in F!Cuts \X F!Cuts /\ c[1] \in F!Cuts /\ c[2] \in F!Cuts /\ c[1] < c[2]
              /\ \A d \in F!Cuts : d <= c[1] \/ d >= c[2]
            BY DEF F!Neighbours
        <3>2. PICK x \in Nat, y \in Nat : x = c[1] /\ y = c[2]
            BY <1>n, <3>1
        <3>3. x \in F!Cuts /\ y \in F!Cuts /\ x < y /\ y < b + 1
            BY <2>1, <3>1, <3>2
        <3>4. (a <= x \/ a >= y) /\ (x <= a \/ x >= b) /\ (y <= a \/ y >= b)
            BY <3>1, <3>2, <3>3
        <3>5. y < a + 1 \/ (x = a /\ y = b)
            BY <1>n, <3>3, <3>4
        <3> QED
            BY <3>1, <3>2, <3>5
    <2>2. ASSUME NEW c \in F!Neighbours, c[2] < a + 1 PROVE c[2] < b + 1
        <3>1. c[2] \in Nat
            BY <1>n DEF F!Neighbours
        <3> QED
            BY <1>n, <2>2, <3>1
    <2>3. <<a, b>>[2] < b + 1
        BY <1>n
    <2> QED
        BY <2>1, <2>2, <2>3 DEF Before
<1>2. <<a, b>>[1] = a /\ <<a, b>>[2] = b
    OBVIOUS
<1> QED
    BY <1>1, <1>2, Zenon DEF RangesBefore

\* What the ranges stand for, piece by piece.
LEMMA NumberedUnion ==
    ASSUME NEW R, NEW x \in Nat, NEW y \in Nat, NEW z \in Nat \ {0}
    PROVE  Numbered(R \cup {<<x, y, z>>}) = Numbered(R) \cup F!Elements(x, y, z)
<1>1. <<x, y, z>>[1] = x /\ <<x, y, z>>[2] = y /\ <<x, y, z>>[3] = z
    OBVIOUS
<1>2. F!Elements(x, y, z) = {i \in x..y : \E k \in 0..y : i = x + k * z}
    BY ElementsMeant
<1> DEFINE E1(r) == {i \in r[1]..r[2] : \E k \in 0..r[2] : i = r[1] + k * r[3]}
<1>3. E1(<<x, y, z>>) = F!Elements(x, y, z)
    BY <1>1, <1>2, Zenon
<1>4. Numbered(R \cup {<<x, y, z>>}) = UNION {E1(r) : r \in R \cup {<<x, y, z>>}}
    BY Zenon DEF Numbered
<1>5. Numbered(R) = UNION {E1(r) : r \in R}
    BY Zenon DEF Numbered
<1> HIDE DEF E1
<1> QED
    BY <1>3, <1>4, <1>5, Zenon

\* Behind the last piece all ranges are read.
LEMMA AllPieces ==
    ASSUME F!TypeOK
    PROVE  RangesBefore(Len(text) + 2) = F!Ranges
<1>1. ASSUME NEW c \in F!Neighbours PROVE c[2] < Len(text) + 2
    <2>1. c[2] \in 0..(Len(text) + 1) /\ Len(text) \in Nat
        BY CutsType, TextTokens DEF F!Neighbours
    <2> QED
        BY <2>1
<1>2. Before(Len(text) + 2) = F!Neighbours
    BY <1>1 DEF Before
<1> QED
    BY <1>2, Zenon DEF RangesBefore, F!Ranges, F!Pieces

\* A turn of get_list()'s loop on a field written by the grammar.
LEMMA PieceStep ==
    ASSUME F!TypeOK, PiecesRead, F!Grammatical, status = "parse"
    PROVE  \E b \in F!Cuts, x \in Nat, y \in Nat, z \in Nat :
               /\ b # 0 /\ <<x, y, z>> \in F!Ranges
               /\ F!get_range(pos) = IF x <= y /\ z # 0 THEN {F!Range(x, y, z, b)} ELSE {}
               /\ RangesBefore(b + 1) = RangesBefore(pos) \cup {<<x, y, z>>}
<1>n. Len(text) \in Nat /\ F!Cuts \subseteq Nat /\ pos \in Nat
    BY TextTokens, CutsType DEF F!TypeOK
<1>1. PICK a \in F!Cuts : a = pos - 1 /\ a <= Len(text) /\ pos = a + 1
    BY <1>n DEF PiecesRead
<1>2. PICK b \in F!Cuts : /\ a < b /\ \A d \in F!Cuts : d <= a \/ d >= b
                          /\ <<a, b>> \in F!Neighbours
    BY <1>1, NextCut
<1>3. SubSeq(text, a + 1, b - 1) \in F!Pieces
    <2>1. <<a, b>>[1] = a /\ <<a, b>>[2] = b
        OBVIOUS
    <2> QED
        BY <1>2, <2>1, Zenon DEF F!Pieces
<1>4. F!PieceRange(SubSeq(text, a + 1, b - 1)) # {}
    BY <1>3, Zenon DEF F!Grammatical
<1>5. PICK x \in Nat, y \in Nat, z \in Nat :
          /\ F!PieceRange(SubSeq(text, a + 1, b - 1)) = {<<x, y, z>>}
          /\ F!get_range(a + 1) = IF x <= y /\ z # 0 THEN {F!Range(x, y, z, b)} ELSE {}
    BY <1>2, <1>4, RangeRead, Zenon
<1>6. <<x, y, z>> \in F!Ranges
    BY <1>3, <1>5, Zenon DEF F!Ranges
<1>7. RangesBefore(b + 1) = RangesBefore(a + 1) \cup F!PieceRange(SubSeq(text, a + 1, b - 1))
    BY <1>2, OnePieceMore, Zenon
<1>8. b # 0
    BY <1>n, <1>2
<1>9. /\ F!get_range(pos) = IF x <= y /\ z # 0 THEN {F!Range(x, y, z, b)} ELSE {}
      /\ RangesBefore(b + 1) = RangesBefore(pos) \cup {<<x, y, z>>}
    BY <1>1, <1>5, <1>7, Zenon
<1> QED
    BY <1>6, <1>8, <1>9, Zenon

\* The operators of the reference are about the text alone.
LEMMA TextFixed ==
    ASSUME text' = text
    PROVE  /\ F!Grammatical' = F!Grammatical /\ F!Ranges' = F!Ranges /\ F!Cuts' = F!Cuts
           /\ \A n : RangesBefore(n)' = RangesBefore(n)
           /\ F!Meaning' = F!Meaning /\ F!StepFits' = F!StepFits /\ F!Sensible' = F!Sensible
           /\ F!NamesAlone' = F!NamesAlone
<1>1. F!Cuts' = F!Cuts
    BY DEF F!Cuts
<1>2. F!Neighbours' = F!Neighbours
    BY <1>1 DEF F!Neighbours
<1>3. F!Pieces' = F!Pieces
    BY <1>2 DEF F!Pieces
<1>4. F!Ranges' = F!Ranges
    BY <1>3 DEF F!Ranges, F!PieceRange, F!IsValue, F!ValueOf, F!IsName, F!IsNumber
<1>5. F!Grammatical' = F!Grammatical
    BY <1>3 DEF F!Grammatical, F!PieceRange, F!IsValue, F!ValueOf, F!IsName, F!IsNumber
<1>6. ASSUME NEW n PROVE RangesBefore(n)' = RangesBefore(n)
    <2>1. Before(n)' = Before(n)
        BY <1>2 DEF Before
    <2> QED
        BY <2>1 DEF RangesBefore, F!PieceRange, F!IsValue, F!ValueOf, F!IsName, F!IsNumber
<1>7. F!Meaning' = F!Meaning
    BY <1>4 DEF F!Meaning
<1>8. F!StepFits' = F!StepFits /\ F!Sensible' = F!Sensible
    BY <1>4 DEF F!StepFits, F!Sensible
<1>9. F!NamesAlone' = F!NamesAlone
    BY DEF F!NamesAlone, F!IsName
<1> QED
    BY <1>1, <1>4, <1>5, <1>6, <1>7, <1>8, <1>9

\* get_list() starts with no bits before its first range.
LEMMA FieldInit == F!Init => FieldInv
<1> SUFFICES ASSUME F!Init PROVE FieldInv
    OBVIOUS
<1>1. text \in Texts /\ pos = 1 /\ bits = {} /\ status = "parse"
    BY DEF F!Init
<1>2. text \in Seq(F!Tokens)
    BY <1>1, LineConstants, Zenon DEF F!CronFieldConstants
<1>3. F!TypeOK
    BY <1>1, <1>2, LenProperties DEF F!TypeOK
<1>4. Before(1) = {}
    <2>1. ASSUME NEW c \in F!Neighbours PROVE ~(c[2] < 1)
        <3>1. c[1] \in Nat /\ c[2] \in Nat /\ c[1] < c[2]
            BY <1>3, CutsType, TextTokens DEF F!Neighbours
        <3> QED
            BY <3>1
    <2> QED
        BY <2>1 DEF Before
<1>5. RangesBefore(1) = {}
    BY <1>4, Zenon DEF RangesBefore
<1>6. Numbered({}) = {}
    BY Zenon DEF Numbered
<1>7. 1 - 1 \in F!Cuts /\ 1 <= Len(text) + 1
    BY <1>3, CutsType, TextTokens
<1>8. PiecesRead
    BY <1>1, <1>5, <1>6, <1>7 DEF PiecesRead
<1> QED
    BY <1>1, <1>3, <1>8 DEF FieldInv, F!FieldExact, F!FieldAccepted

\* One range is read, and no acceptable one is refused.
LEMMA FieldStep == FieldInv /\ [F!Next]_(F!vars) => FieldInv'
<1> SUFFICES ASSUME FieldInv, [F!Next]_(F!vars) PROVE FieldInv'
    OBVIOUS
<1>i. F!TypeOK /\ PiecesRead /\ F!FieldExact /\ F!FieldAccepted
    BY DEF FieldInv
<1>t. F!TypeOK'
    BY <1>i, FieldType
<1>x. text' = text
    BY Zenon DEF F!Next, F!RangeStep, F!BadRange, F!vars
<1>f. /\ F!Grammatical' = F!Grammatical /\ F!Ranges' = F!Ranges /\ F!Cuts' = F!Cuts
      /\ \A n : RangesBefore(n)' = RangesBefore(n)
      /\ F!Meaning' = F!Meaning /\ F!StepFits' = F!StepFits /\ F!Sensible' = F!Sensible
      /\ F!NamesAlone' = F!NamesAlone
    BY <1>x, TextFixed, Zenon
<1>1. CASE F!RangeStep /\ F!Grammatical
    <2>0. status = "parse"
        BY <1>1 DEF F!RangeStep
    <2>1. PICK r \in F!Rising(pos) :
              /\ F!InField(F!Elements(r.num1, r.num2, r.num3))
              /\ bits' = bits \cup F!Elements(r.num1, r.num2, r.num3)
              /\ IF F!Ch(r.next) = F!Comma
                 THEN pos' = r.next + 1 /\ UNCHANGED status
                 ELSE pos' = Len(text) + 1 /\ status' = "ok"
        BY <1>1, Zenon DEF F!RangeStep
    <2>2. PICK b \in F!Cuts, x \in Nat, y \in Nat, z \in Nat :
               /\ b # 0 /\ <<x, y, z>> \in F!Ranges
               /\ F!get_range(pos) = IF x <= y /\ z # 0 THEN {F!Range(x, y, z, b)} ELSE {}
               /\ RangesBefore(b + 1) = RangesBefore(pos) \cup {<<x, y, z>>}
        BY <1>i, <1>1, <2>0, PieceStep, Zenon
    <2>3. x <= y /\ z # 0 /\ r = F!Range(x, y, z, b)
        BY <2>1, <2>2, Zenon DEF F!Rising
    <2>4. r.num1 = x /\ r.num2 = y /\ r.num3 = z /\ r.next = b
        BY <2>3 DEF F!Range
    <2>5. /\ bits = Numbered(RangesBefore(pos))
          /\ \A s \in RangesBefore(pos) : s[1] <= s[2]
        BY <1>i, <1>1, <2>0, Zenon DEF PiecesRead
    <2>6. bits' = Numbered(RangesBefore(b + 1))
        <3>1. z \in Nat \ {0}
            BY <2>3
        <3>2. PICK R : R = RangesBefore(pos)
            OBVIOUS
        <3>3. Numbered(R \cup {<<x, y, z>>}) = Numbered(R) \cup F!Elements(x, y, z)
            BY <3>1, NumberedUnion
        <3> QED
            BY <2>1, <2>2, <2>4, <2>5, <3>2, <3>3, Zenon
    <2>7. \A s \in RangesBefore(b + 1) : s[1] <= s[2]
        BY <2>2, <2>3, <2>5
    <2>8. CASE F!Ch(b) = F!Comma
        <3>1. pos' = b + 1 /\ status' = "parse"
            BY <2>0, <2>1, <2>4, <2>8
        <3>2. b <= Len(text) /\ b \in Nat /\ Len(text) \in Nat
            BY <1>i, <2>2, <2>8, CutsType, TextTokens
        <3>3. pos' - 1 \in F!Cuts /\ pos' <= Len(text) + 1
            BY <3>1, <3>2
        <3>4. PiecesRead'
            BY <1>f, <1>x, <2>6, <2>7, <3>1, <3>3 DEF PiecesRead
        <3> QED
            BY <1>t, <3>1, <3>4 DEF FieldInv, F!FieldExact, F!FieldAccepted
    <2>9. CASE F!Ch(b) # F!Comma
        <3>1. status' = "ok"
            BY <2>1, <2>4, <2>9
        <3>2. b = Len(text) + 1 /\ Len(text) \in Nat /\ b + 1 = Len(text) + 2
            BY <1>i, <2>2, <2>9, CutsType, TextTokens
        <3>3. RangesBefore(b + 1) = F!Ranges
            BY <1>i, <3>2, AllPieces
        <3>4. bits' = F!Meaning /\ \A s \in F!Ranges : s[1] <= s[2]
            BY <2>6, <2>7, <3>3, Zenon DEF Numbered, F!Meaning
        <3>5. F!FieldExact'
            BY <1>f, <3>4 DEF F!FieldExact
        <3> QED
            BY <1>t, <3>1, <3>5 DEF FieldInv, PiecesRead, F!FieldAccepted
    <2> QED
        BY <2>8, <2>9
<1>2. CASE F!RangeStep /\ ~F!Grammatical
    BY <1>f, <1>t, <1>2 DEF FieldInv, PiecesRead, F!FieldExact, F!FieldAccepted
<1>3. CASE F!BadRange
    <2>0. status = "parse" /\ status' = "eof"
        BY <1>3 DEF F!BadRange
    <2>1. ASSUME F!Grammatical, F!StepFits, F!Sensible PROVE FALSE
        <3>1. PICK b \in F!Cuts, x \in Nat, y \in Nat, z \in Nat :
                   /\ b # 0 /\ <<x, y, z>> \in F!Ranges
                   /\ F!get_range(pos) = IF x <= y /\ z # 0 THEN {F!Range(x, y, z, b)} ELSE {}
                   /\ RangesBefore(b + 1) = RangesBefore(pos) \cup {<<x, y, z>>}
            BY <1>i, <2>0, <2>1, PieceStep, Zenon
        <3>2. <<x, y, z>>[1] = x /\ <<x, y, z>>[2] = y /\ <<x, y, z>>[3] = z
            OBVIOUS
        <3>3. Low <= x /\ x <= y /\ y <= High /\ z > 0 /\ High + z <= IntMax
            BY <2>1, <3>1, <3>2, Zenon DEF F!Sensible, F!StepFits
        <3>4. z # 0
            BY <3>3
        <3>5. F!Range(x, y, z, b) \in F!get_range(pos)
            BY <3>1, <3>3, <3>4, Zenon
        <3>6. PICK r : r = F!Range(x, y, z, b)
            OBVIOUS
        <3>7. r.num1 = x /\ r.num2 = y /\ r.num3 = z /\ r.num3 > 0
            BY <3>3, <3>6 DEF F!Range
        <3>r. r \in F!Rising(pos)
            BY <3>5, <3>6, <3>7 DEF F!Rising
        <3>8. F!InField(F!Elements(x, y, z))
            BY <3>3, FieldNumbers DEF F!InField, F!Elements
        <3>9. ~F!Overflows(x, y, z)
            BY <3>3, FieldNumbers DEF F!Overflows, F!Elements
        <3> QED
            BY <1>3, <3>r, <3>7, <3>8, <3>9, Zenon DEF F!BadRange
    <2> QED
        BY <1>f, <1>t, <2>0, <2>1 DEF FieldInv, PiecesRead, F!FieldExact, F!FieldAccepted
<1>4. CASE UNCHANGED F!vars
    <2>1. UNCHANGED <<pos, bits, status>>
        BY <1>4 DEF F!vars
    <2> QED
        BY <1>f, <1>i, <1>t, <1>x, <2>1 DEF FieldInv, PiecesRead, F!FieldExact, F!FieldAccepted
<1> QED
    BY <1>1, <1>2, <1>3, <1>4, Zenon DEF F!Next

-----------------------------------------------------------------------------
(* child_process().                                                          *)

\* g counts the elements of K upwards.
Counts(g, n, K) ==
    /\ n \in Nat /\ g \in [1..n -> K]
    /\ \A i \in 1..n : \A j \in 1..n : i < j => g[i] < g[j]
    /\ \A x \in K : \E i \in 1..n : g[i] = x

\* The characters kept of the first n of s.
KeptOf(s, n) == {i \in 1..n : ~(i < n /\ s[i + 1] = I!pct /\ I!Escaped(s, i + 1))}

\* CronInput counts with the same operator.
LEMMA SameCardinality == \A S : I!Cardinality(S) = Cardinality(S)
    BY DEF I!Cardinality, Cardinality

\* A set that is counted has that many elements, and they can be told by rank.
LEMMA CountsRank ==
    ASSUME NEW g, NEW n, NEW K, K \subseteq Nat, Counts(g, n, K)
    PROVE  /\ Cardinality(K) = n
           /\ \A k \in 1..n : Cardinality({j \in K : j <= g[k]}) = k
<1>1. n \in Nat /\ g \in [1..n -> K]
    BY DEF Counts
<1>2. ASSUME NEW k \in 0..n, NEW S, S = {g[i] : i \in 1..k} PROVE Cardinality(S) = k
    <2> DEFINE h == [i \in 1..k |-> g[i]]
    <2>1. h \in [1..k -> S]
        BY <1>1, <1>2
    <2>2. \A i \in 1..k : \A j \in 1..k : i # j => h[i] # h[j]
        <3> SUFFICES ASSUME NEW i \in 1..k, NEW j \in 1..k, i # j PROVE g[i] # g[j]
            OBVIOUS
        <3>1. i \in 1..n /\ j \in 1..n
            BY <1>1
        <3>2. g[i] \in Nat /\ g[j] \in Nat
            BY <1>1, <3>1
        <3>3. i < j \/ j < i
            BY <3>1
        <3>4. g[i] < g[j] \/ g[j] < g[i]
            BY <3>1, <3>3 DEF Counts
        <3> QED
            BY <3>2, <3>4
    <2>3. \A x \in S : \E i \in 1..k : h[i] = x
        BY <1>2
    <2> HIDE DEF h
    <2>4. h \in Bijection(1..k, S)
        BY <2>1, <2>2, <2>3 DEF Bijection, Injection, Surjection, IsInjective
    <2>5. ExistsBijection(1..k, S)
        BY <2>4 DEF ExistsBijection
    <2>6. IsFiniteSet(1..k) /\ Cardinality(1..k) = k
        BY FS_Interval, <1>1
    <2> QED
        BY <2>5, <2>6, FS_Bijection
<1>3. K = {g[i] : i \in 1..n}
    BY <1>1 DEF Counts
<1>4. Cardinality(K) = n
    BY <1>1, <1>2, <1>3
<1>5. ASSUME NEW k \in 1..n PROVE Cardinality({j \in K : j <= g[k]}) = k
    <2>1. {j \in K : j <= g[k]} = {g[i] : i \in 1..k}
        <3>1. ASSUME NEW i \in 1..n PROVE g[i] <= g[k] <=> i \in 1..k
            <4>1. g[i] \in Nat /\ g[k] \in Nat
                BY <1>1
            <4>2. i < k => g[i] < g[k]
                BY DEF Counts
            <4>3. k < i => g[k] < g[i]
                BY DEF Counts
            <4> QED
                BY <1>1, <4>1, <4>2, <4>3
        <3>2. {j \in K : j <= g[k]} = {g[i] : i \in {i \in 1..n : g[i] <= g[k]}}
            BY <1>1, <1>3
        <3>3. {i \in 1..n : g[i] <= g[k]} = 1..k
            BY <1>1, <3>1
        <3> QED
            BY <3>2, <3>3
    <2> QED
        BY <1>2, <2>1
<1> QED
    BY <1>4, <1>5

\* The characters kept, in their order.
LEMMA UnescapedCounted ==
    ASSUME NEW s, NEW g, NEW n, Len(s) \in Nat, Counts(g, n, KeptOf(s, Len(s)))
    PROVE  I!Unescaped(s) = [k \in 1..n |-> s[g[k]]]
<1> DEFINE K == I!Kept(s)
<1>1. K = KeptOf(s, Len(s)) /\ K \subseteq Nat
    BY DEF KeptOf, I!Kept
<1>2. Counts(g, n, K)
    BY <1>1, Zenon
<1>3. /\ n \in Nat /\ g \in [1..n -> K]
      /\ \A x \in K : \E i \in 1..n : g[i] = x
    BY <1>2 DEF Counts
<1>4. /\ I!Cardinality(K) = n
      /\ \A k \in 1..n : I!Cardinality({j \in K : j <= g[k]}) = k
    <2>1. /\ Cardinality(K) = n
          /\ \A k \in 1..n : Cardinality({j \in K : j <= g[k]}) = k
        BY <1>1, <1>2, CountsRank
    <2> QED
        BY <2>1, SameCardinality
<1>5. ASSUME NEW k \in 1..n
      PROVE  (CHOOSE i \in K : I!Cardinality({j \in K : j <= i}) = k) = g[k]
    <2>1. g[k] \in K /\ I!Cardinality({j \in K : j <= g[k]}) = k
        BY <1>3, <1>4
    <2>2. ASSUME NEW i \in K, I!Cardinality({j \in K : j <= i}) = k PROVE i = g[k]
        BY <1>3, <1>4, <2>2
    <2> QED
        BY <2>1, <2>2
<1>6. I!Unescaped(s) = [k \in 1..I!Cardinality(K) |->
                           s[CHOOSE i \in K : I!Cardinality({j \in K : j <= i}) = k]]
    BY DEF I!Unescaped
<1> HIDE DEF K
<1> QED
    BY <1>4, <1>5, <1>6

\* One element more behind the others.
LEMMA CountsMore ==
    ASSUME NEW g, NEW n, NEW K, NEW m \in Nat, K \subseteq 1..m, Counts(g, n, K)
    PROVE  Counts([i \in 1..(n + 1) |-> IF i = n + 1 THEN m + 1 ELSE g[i]], n + 1, K \cup {m + 1})
<1> DEFINE h == [i \in 1..(n + 1) |-> IF i = n + 1 THEN m + 1 ELSE g[i]]
<1>1. n \in Nat /\ g \in [1..n -> K] /\ n + 1 \in Nat
    BY DEF Counts
<1>k. \A x \in K : x \in Nat /\ x < m + 1
    OBVIOUS
<1>g. \A i \in 1..n : i # n + 1 /\ i \in 1..(n + 1) /\ g[i] \in K
    BY <1>1
<1>2. /\ h[n + 1] = m + 1
      /\ \A i \in 1..n : h[i] = g[i] /\ h[i] \in K /\ h[i] \in Nat /\ h[i] < m + 1
    <2>1. h[n + 1] = m + 1
        BY <1>1
    <2>2. \A i \in 1..n : h[i] = g[i]
        BY <1>g
    <2> QED
        BY <1>g, <1>k, <2>1, <2>2, Zenon
<1>3. h \in [1..(n + 1) -> K \cup {m + 1}]
    BY <1>1
<1> HIDE DEF h
<1>4. ASSUME NEW i \in 1..(n + 1), NEW j \in 1..(n + 1), i < j PROVE h[i] < h[j]
    <2>1. i \in 1..n
        BY <1>1, <1>4
    <2>2. CASE j = n + 1
        BY <1>2, <2>1, <2>2
    <2>3. CASE j \in 1..n
        BY <1>2, <1>4, <2>1, <2>3 DEF Counts
    <2> QED
        BY <1>1, <2>2, <2>3
<1>5. ASSUME NEW x \in K \cup {m + 1} PROVE \E i \in 1..(n + 1) : h[i] = x
    <2>1. CASE x = m + 1
        BY <1>1, <1>2, <2>1
    <2>2. CASE x \in K
        <3>1. PICK i \in 1..n : g[i] = x
            BY <2>2 DEF Counts
        <3> QED
            BY <1>1, <1>2, <3>1
    <2> QED
        BY <2>1, <2>2
<1>6. Counts(h, n + 1, K \cup {m + 1})
    BY <1>1, <1>3, <1>4, <1>5 DEF Counts
<1> QED
    BY <1>6 DEF h

\* The last element is replaced.
LEMMA CountsLast ==
    ASSUME NEW g, NEW n, NEW K, NEW m \in Nat, K \subseteq 1..m, m \in K, Counts(g, n, K)
    PROVE  /\ n > 0 /\ g[n] = m
           /\ Counts([g EXCEPT ![n] = m + 1], n, (K \ {m}) \cup {m + 1})
<1> DEFINE h == [g EXCEPT ![n] = m + 1]
<1>1. n \in Nat /\ g \in [1..n -> K] /\ \A i \in 1..n : g[i] \in K /\ g[i] \in Nat /\ g[i] <= m
    <2>1. \A x \in K : x \in Nat /\ x <= m
        OBVIOUS
    <2>2. n \in Nat /\ g \in [1..n -> K]
        BY DEF Counts
    <2>3. \A i \in 1..n : g[i] \in K
        BY <2>2
    <2> QED
        BY <2>1, <2>2, <2>3, Zenon
<1>2. PICK l \in 1..n : g[l] = m
    BY DEF Counts
<1>3. l = n /\ n \in 1..n
    <2>1. n \in 1..n /\ n > 0
        BY <1>1, <1>2
    <2>2. l < n => g[l] < g[n]
        BY <2>1 DEF Counts
    <2> QED
        BY <1>1, <1>2, <2>1, <2>2
<1>4. /\ h[n] = m + 1
      /\ \A i \in 1..n : i # n => h[i] = g[i] /\ h[i] \in K /\ h[i] \in Nat /\ h[i] < m
    <2>1. h[n] = m + 1
        BY <1>1, <1>3
    <2>2. ASSUME NEW i \in 1..n, i # n PROVE h[i] = g[i] /\ h[i] \in K /\ h[i] \in Nat /\ h[i] < m
        <3>1. i < n
            BY <1>1, <2>2
        <3>2. g[i] < g[n]
            BY <1>3, <3>1 DEF Counts
        <3> QED
            BY <1>1, <1>2, <1>3, <2>2, <3>2
    <2> QED
        BY <2>1, <2>2
<1>5. DOMAIN h = 1..n
    BY <1>1
<1>5a. h = [i \in 1..n |-> h[i]]
    BY <1>1
<1> HIDE DEF h
<1>6. \A i \in 1..n : h[i] \in (K \ {m}) \cup {m + 1}
    BY <1>4
<1>7. h \in [1..n -> (K \ {m}) \cup {m + 1}]
    BY <1>5a, <1>6
<1>8. ASSUME NEW i \in 1..n, NEW j \in 1..n, i < j PROVE h[i] < h[j]
    <2>1. i # n
        BY <1>1, <1>8
    <2>2. CASE j = n
        BY <1>4, <2>1, <2>2
    <2>3. CASE j # n
        BY <1>4, <1>8, <2>1, <2>3 DEF Counts
    <2> QED
        BY <2>2, <2>3
<1>9. ASSUME NEW x \in (K \ {m}) \cup {m + 1} PROVE \E i \in 1..n : h[i] = x
    <2>1. CASE x = m + 1
        BY <1>3, <1>4, <2>1
    <2>2. CASE x \in K \ {m}
        <3>1. PICK i \in 1..n : g[i] = x
            BY <2>2 DEF Counts
        <3>2. i # n
            BY <1>2, <1>3, <2>2, <3>1
        <3> QED
            BY <1>4, <3>1, <3>2
    <2> QED
        BY <2>1, <2>2
<1>10. Counts(h, n, (K \ {m}) \cup {m + 1})
    BY <1>1, <1>7, <1>8, <1>9 DEF Counts
<1> QED
    BY <1>1, <1>2, <1>3, <1>10 DEF h

\* A set of natural numbers with a bound has a greatest element.
LEMMA Greatest ==
    ASSUME NEW n \in Nat, NEW T, T \subseteq 0..n, T # {}
    PROVE  \E x \in T : \A y \in T : y <= x
<1> DEFINE U == {m \in 0..n : n - m \in T}
<1>1. U \subseteq Nat
    OBVIOUS
<1>2. U # {}
    <2>1. PICK x \in T : TRUE
        OBVIOUS
    <2>2. n - x \in 0..n /\ n - (n - x) = x
        OBVIOUS
    <2>3. n - x \in U
        BY <2>1, <2>2
    <2> QED
        BY <2>3
<1>3. PICK m \in U : \A l \in U : m <= l
    BY <1>1, <1>2, Least, Zenon
<1>4. ASSUME NEW y \in T PROVE y <= n - m
    <2>1. y \in 0..n /\ n - y \in 0..n /\ n - (n - y) = y
        OBVIOUS
    <2>2. n - y \in U
        BY <2>1
    <2>3. m <= n - y
        BY <1>3, <2>2
    <2>4. m \in 0..n
        BY <1>3
    <2> QED
        BY <2>1, <2>3, <2>4
<1>5. n - m \in T
    BY <1>3
<1> QED
    BY <1>4, <1>5

\* The number of backslashes before a character, if another stands before them.
LEMMA BackslashesBehind ==
    ASSUME NEW s, NEW i \in Nat \ {0}, NEW j \in 1..(i - 1), s[j] # I!bs,
           \A k \in (j + 1)..(i - 1) : s[k] = I!bs
    PROVE  I!Backslashes(s, i) = i - 1 - j
<1> DEFINE P(l) == s[l] # I!bs /\ \A k \in (l + 1)..(i - 1) : s[k] = I!bs
<1>1. ~(\A l \in 1..(i - 1) : s[l] = I!bs)
    OBVIOUS
<1>2. P(j)
    OBVIOUS
<1>3. ASSUME NEW l \in 1..(i - 1), P(l) PROVE l = j
    <2>1. CASE l < j
        <3>1. j \in (l + 1)..(i - 1)
            BY <2>1
        <3> QED
            BY <1>3, <3>1
    <2>2. CASE j < l
        <3>1. l \in (j + 1)..(i - 1)
            BY <2>2
        <3> QED
            BY <1>3, <3>1
    <2> QED
        BY <2>1, <2>2
<1>4. I!Backslashes(s, i) = i - 1 - CHOOSE l \in 1..(i - 1) : P(l)
    BY <1>1, Zenon DEF I!Backslashes
<1> HIDE DEF P
<1>5. (CHOOSE l \in 1..(i - 1) : P(l)) = j
    BY <1>2, <1>3, Zenon
<1> QED
    BY <1>4, <1>5

\* Where the last other character is.
LEMMA LastOther ==
    ASSUME NEW s, NEW i \in Nat \ {0}, ~(\A j \in 1..(i - 1) : s[j] = I!bs)
    PROVE  \E j \in 1..(i - 1) : s[j] # I!bs /\ \A k \in (j + 1)..(i - 1) : s[k] = I!bs
<1> DEFINE T == {j \in 1..(i - 1) : s[j] # I!bs}
<1>1. i - 1 \in Nat /\ T \subseteq 0..(i - 1) /\ T # {}
    OBVIOUS
<1>2. PICK j \in T : \A l \in T : l <= j
    BY <1>1, Greatest
<1>3. ASSUME NEW k \in (j + 1)..(i - 1) PROVE s[k] = I!bs
    <2>1. k \in 1..(i - 1) /\ k > j
        BY <1>2
    <2>2. k \notin T
        BY <1>2, <2>1
    <2> QED
        BY <2>1, <2>2
<1> QED
    BY <1>2, <1>3

\* A character is escaped if the one before it is a backslash that is not.
LEMMA EscapedNext ==
    ASSUME NEW s, NEW i \in Nat \ {0}
    PROVE  I!Escaped(s, i + 1) <=> s[i] = I!bs /\ ~I!Escaped(s, i)
<1>1. CASE s[i] # I!bs
    <2>1. i \in 1..(i + 1 - 1) /\ \A k \in (i + 1)..(i + 1 - 1) : s[k] = I!bs
        OBVIOUS
    <2>2. I!Backslashes(s, i + 1) = i + 1 - 1 - i
        BY <1>1, <2>1, BackslashesBehind
    <2> QED
        BY <1>1, <2>2 DEF I!Escaped
<1>2. CASE s[i] = I!bs /\ \A j \in 1..(i - 1) : s[j] = I!bs
    <2>1. \A j \in 1..(i + 1 - 1) : s[j] = I!bs
        BY <1>2
    <2>2. I!Backslashes(s, i) = i - 1 /\ I!Backslashes(s, i + 1) = i + 1 - 1
        BY <1>2, <2>1 DEF I!Backslashes
    <2> QED
        BY <1>2, <2>2 DEF I!Escaped
<1>3. CASE s[i] = I!bs /\ ~(\A j \in 1..(i - 1) : s[j] = I!bs)
    <2>1. PICK j \in 1..(i - 1) : s[j] # I!bs /\ \A k \in (j + 1)..(i - 1) : s[k] = I!bs
        BY <1>3, LastOther, Zenon
    <2>2. I!Backslashes(s, i) = i - 1 - j
        BY <2>1, BackslashesBehind
    <2>3. j \in 1..(i + 1 - 1) /\ \A k \in (j + 1)..(i + 1 - 1) : s[k] = I!bs
        BY <1>3, <2>1
    <2>4. I!Backslashes(s, i + 1) = i + 1 - 1 - j
        BY <2>1, <2>3, BackslashesBehind
    <2> QED
        BY <1>3, <2>2, <2>4 DEF I!Escaped
<1> QED
    BY <1>1, <1>2, <1>3

\* The first character is not.
LEMMA EscapedFirst == \A s : ~I!Escaped(s, 1)
<1>1. \A s : I!Backslashes(s, 1) = 0
    BY DEF I!Backslashes
<1> QED
    BY <1>1 DEF I!Escaped

\* Only the backslashes matter.
LEMMA EscapedSame ==
    ASSUME NEW s, NEW t, NEW i \in Nat \ {0}, \A j \in 1..(i - 1) : s[j] = I!bs <=> t[j] = I!bs
    PROVE  I!Escaped(s, i) <=> I!Escaped(t, i)
<1>1. CASE \A j \in 1..(i - 1) : s[j] = I!bs
    <2>1. I!Backslashes(s, i) = i - 1 /\ I!Backslashes(t, i) = i - 1
        BY <1>1, Zenon DEF I!Backslashes
    <2> QED
        BY <2>1 DEF I!Escaped
<1>2. CASE ~(\A j \in 1..(i - 1) : s[j] = I!bs)
    <2>1. PICK j \in 1..(i - 1) : s[j] # I!bs /\ \A k \in (j + 1)..(i - 1) : s[k] = I!bs
        BY <1>2, LastOther, Zenon
    <2>2. t[j] # I!bs /\ \A k \in (j + 1)..(i - 1) : t[k] = I!bs
        BY <2>1
    <2>3. I!Backslashes(s, i) = i - 1 - j /\ I!Backslashes(t, i) = i - 1 - j
        BY <2>1, <2>2, BackslashesBehind
    <2> QED
        BY <2>3 DEF I!Escaped
<1> QED
    BY <1>1, <1>2

\* What is kept when one character more is looked at.
LEMMA KeptNext ==
    ASSUME NEW s, NEW n \in Nat
    PROVE  /\ KeptOf(s, n) \subseteq 1..n /\ KeptOf(s, 0) = {}
           /\ n > 0 => n \in KeptOf(s, n)
           /\ KeptOf(s, n + 1) = IF s[n + 1] = I!pct /\ I!Escaped(s, n + 1)
                                 THEN (KeptOf(s, n) \ {n}) \cup {n + 1}
                                 ELSE KeptOf(s, n) \cup {n + 1}
<1> DEFINE Drop(i) == s[i + 1] = I!pct /\ I!Escaped(s, i + 1)
<1>1. \A m : KeptOf(s, m) = {i \in 1..m : ~(i < m /\ Drop(i))}
    BY DEF KeptOf
<1>2. (s[n + 1] = I!pct /\ I!Escaped(s, n + 1)) <=> Drop(n)
    OBVIOUS
<1> HIDE DEF Drop
<1>3. \A i \in 1..(n + 1) : i < n + 1 <=> i < n \/ i = n
    OBVIOUS
<1>4. CASE Drop(n)
    <2>1. ASSUME NEW i
          PROVE  i \in KeptOf(s, n + 1) <=> i \in (KeptOf(s, n) \ {n}) \cup {n + 1}
        <3>1. i \in KeptOf(s, n + 1) <=> i \in 1..(n + 1) /\ ~(i < n + 1 /\ Drop(i))
            BY <1>1
        <3>2. i \in KeptOf(s, n) <=> i \in 1..n /\ ~(i < n /\ Drop(i))
            BY <1>1
        <3> QED
            BY <1>4, <3>1, <3>2
    <2> QED
        BY <1>1, <1>2, <1>4, <2>1
<1>5. CASE ~Drop(n)
    BY <1>1, <1>2, <1>3, <1>5
<1> QED
    BY <1>4, <1>5

\* The text has no nul, and the buffer's last character is one.
Buffer ==
    /\ I!TypeOK /\ command \in Seq(I!Chars)
    /\ buffer[Len(command) + 1] = I!nul

\* child_process() has compacted the text before input_data into what is before p.
SplitRead ==
    pc = "split" =>
        /\ \E g : /\ Counts(g, p - 1, KeptOf(command, input_data - 1))
                  /\ \A k \in 1..(p - 1) : buffer[k] = command[g[k]]
        /\ \A j \in input_data..Len(command) : buffer[j] = command[j]
        /\ escaped <=> I!Escaped(command, input_data)
        /\ \A j \in 1..(input_data - 1) : j \notin I!Percents
        /\ need_newline = FALSE /\ out = <<>>

\* The sizes, and the character at hand.
LEMMA Sizes ==
    ASSUME Buffer
    PROVE  /\ Len(command) \in Nat /\ Len(buffer) = Len(command) + 1
           /\ input_data \in 1..(Len(command) + 1) /\ p \in 1..input_data
           /\ I!ch \in I!Chars \cup {I!nul}
           /\ I!ch # I!nul => input_data \in 1..Len(command) /\ I!ch \in I!Chars
           /\ \A j \in 1..Len(command) : command[j] \in I!Chars
<1>1. /\ command \in Seq(I!Chars) /\ buffer \in Seq(I!Chars \cup {I!nul})
      /\ Len(buffer) = Len(command) + 1
      /\ p \in 1..input_data /\ input_data \in 1..Len(buffer)
      /\ buffer[Len(command) + 1] = I!nul
    BY DEF Buffer, I!TypeOK
<1>2. Len(command) \in Nat /\ \A j \in 1..Len(command) : command[j] \in I!Chars
    BY <1>1, LenProperties, ElementOfSeq
<1>3. buffer[input_data] \in I!Chars \cup {I!nul}
    BY <1>1, ElementOfSeq
<1>4. buffer[input_data] # I!nul => input_data # Len(command) + 1
    BY <1>1, Zenon
<1> QED
    BY <1>1, <1>2, <1>3, <1>4 DEF I!ch

\* One character of the buffer is overwritten.
LEMMA Overwritten ==
    ASSUME Buffer, NEW i \in 1..(Len(command) + 1), NEW c \in I!Chars \cup {I!nul}
    PROVE  /\ [buffer EXCEPT ![i] = c] \in Seq(I!Chars \cup {I!nul})
           /\ Len([buffer EXCEPT ![i] = c]) = Len(command) + 1
           /\ \A j \in 1..(Len(command) + 1) :
                  [buffer EXCEPT ![i] = c][j] = IF j = i THEN c ELSE buffer[j]
<1>1. /\ buffer \in Seq(I!Chars \cup {I!nul}) /\ Len(buffer) = Len(command) + 1
      /\ Len(command) \in Nat
    BY Sizes DEF Buffer, I!TypeOK
<1>2. i \in 1..Len(buffer)
    BY <1>1
<1> QED
    BY <1>1, <1>2, ExceptSeq

\* The loop goes on to the next character.
LEMMA SplitOn ==
    ASSUME Buffer, SplitRead, pc = "split", input_data \in 1..Len(command),
           buffer' \in Seq(I!Chars \cup {I!nul}), Len(buffer') = Len(command) + 1,
           \A j \in (input_data + 1)..(Len(command) + 1) : buffer'[j] = buffer[j],
           input_data' = input_data + 1, p' \in 1..(input_data + 1),
           \E g : /\ Counts(g, p' - 1, KeptOf(command, input_data))
                  /\ \A k \in 1..(p' - 1) : buffer'[k] = command[g[k]],
           escaped' \in BOOLEAN, escaped' <=> I!Escaped(command, input_data + 1),
           input_data \notin I!Percents, UNCHANGED <<command, need_newline, out, pc>>
    PROVE  Buffer' /\ SplitRead'
<1>1. /\ Len(command) \in Nat /\ command' = command /\ pc' = "split"
      /\ need_newline' = need_newline /\ out' = out
    BY Sizes
<1>2. Buffer'
    <2>1. /\ command \in Seq(I!Chars) /\ buffer[Len(command) + 1] = I!nul
          /\ out \in Seq(I!Chars \cup {I!nl}) /\ need_newline \in BOOLEAN
        BY DEF Buffer, I!TypeOK
    <2>2. buffer'[Len(command) + 1] = I!nul
        BY <1>1, <2>1
    <2>3. p' \in 1..input_data' /\ input_data' \in 1..Len(buffer')
        BY <1>1
    <2> QED
        BY <1>1, <2>1, <2>2, <2>3, Zenon DEF Buffer, I!TypeOK
<1>3. I!Percents' = I!Percents
    BY <1>1, Zenon DEF I!Percents
<1>4. input_data' - 1 = input_data
    BY <1>1
<1>5. /\ \A j \in input_data..Len(command) : buffer[j] = command[j]
      /\ \A j \in 1..(input_data - 1) : j \notin I!Percents
      /\ need_newline = FALSE /\ out = <<>>
    BY DEF SplitRead
<1>6. \A j \in (input_data + 1)..Len(command) : buffer'[j] = command[j]
    BY <1>1, <1>5
<1>7. \A j \in 1..input_data : j \notin I!Percents
    BY <1>1, <1>5
<1>8. \E g : /\ Counts(g, p' - 1, KeptOf(command', input_data' - 1))
             /\ \A k \in 1..(p' - 1) : buffer'[k] = command'[g[k]]
    BY <1>1, <1>4, Zenon
<1>9. escaped' <=> I!Escaped(command', input_data')
    BY <1>1, Zenon
<1> QED
    BY <1>1, <1>2, <1>3, <1>4, <1>5, <1>6, <1>7, <1>8, <1>9, Zenon DEF SplitRead

\* "\%" becomes "%", and any other character is moved.
LEMMA SplitMoves ==
    ASSUME Buffer, SplitRead, I!SplitEscaped \/ I!SplitOther
    PROVE  Buffer' /\ SplitRead'
<1>p. /\ pc = "split" /\ I!ch # I!nul /\ input_data' = input_data + 1
      /\ UNCHANGED <<command, need_newline, out, pc>>
    BY Zenon DEF I!SplitEscaped, I!SplitOther
<1>s. /\ Len(command) \in Nat /\ Len(buffer) = Len(command) + 1 /\ input_data \in 1..Len(command)
      /\ p \in 1..input_data /\ I!ch \in I!Chars /\ p \in 1..(Len(command) + 1)
    BY <1>p, Sizes
<1>r. /\ \A j \in input_data..Len(command) : buffer[j] = command[j]
      /\ escaped <=> I!Escaped(command, input_data)
    BY <1>p DEF SplitRead
<1>c. I!ch = command[input_data]
    BY <1>r, <1>s DEF I!ch
<1>g. PICK g : /\ Counts(g, p - 1, KeptOf(command, input_data - 1))
               /\ \A k \in 1..(p - 1) : buffer[k] = command[g[k]]
    BY <1>p, Zenon DEF SplitRead
<1>m. PICK m \in Nat : m = input_data - 1 /\ input_data = m + 1
    BY <1>s
<1>k. /\ KeptOf(command, m) \subseteq 1..m
      /\ m > 0 => m \in KeptOf(command, m)
      /\ KeptOf(command, m + 1) = IF command[m + 1] = I!pct /\ I!Escaped(command, m + 1)
                                  THEN (KeptOf(command, m) \ {m}) \cup {m + 1}
                                  ELSE KeptOf(command, m) \cup {m + 1}
    BY KeptNext
<1>n. PICK n \in Nat : n = p - 1 /\ p = n + 1
    BY <1>s
<1>o. Counts(g, n, KeptOf(command, m))
    BY <1>g, <1>m, <1>n
<1>e. I!Escaped(command, input_data + 1)
      <=> command[input_data] = I!bs /\ ~I!Escaped(command, input_data)
    BY <1>s, EscapedNext
<1>x. I!bs # I!pct
    BY DEF I!bs, I!pct
<1>B. PICK B : B = [buffer EXCEPT ![p] = I!ch]
    OBVIOUS
<1>b. /\ B \in Seq(I!Chars \cup {I!nul}) /\ Len(B) = Len(command) + 1
      /\ \A j \in 1..(Len(command) + 1) : B[j] = IF j = p THEN I!ch ELSE buffer[j]
    BY <1>s, <1>B, Overwritten
<1>1. CASE I!SplitEscaped /\ I!ch = I!pct
    <2>1. /\ buffer' = [B EXCEPT ![p - 1] = I!pct] /\ p' = p /\ escaped /\ escaped' = FALSE
        BY <1>1, <1>B, Zenon DEF I!SplitEscaped, I!Moved
    <2>2. m > 0
        <3>1. m # 0
            BY <1>m, <1>r, <2>1, EscapedFirst
        <3> QED
            BY <3>1
    <2>3. n > 0 /\ Counts([g EXCEPT ![n] = m + 1], n, (KeptOf(command, m) \ {m}) \cup {m + 1})
        BY <1>k, <1>o, <2>2, CountsLast
    <2>4. KeptOf(command, m + 1) = (KeptOf(command, m) \ {m}) \cup {m + 1}
        BY <1>k, <1>c, <1>m, <1>r, <1>1, <2>1, Zenon
    <2>5. /\ buffer' \in Seq(I!Chars \cup {I!nul}) /\ Len(buffer') = Len(command) + 1
          /\ \A j \in 1..(Len(command) + 1) : buffer'[j] = IF j = n THEN I!pct ELSE B[j]
        <3>1. n \in 1..Len(B) /\ I!pct \in I!Chars \cup {I!nul}
            BY <1>b, <1>n, <1>s, <2>3 DEF I!Chars
        <3> QED
            BY <1>b, <1>n, <2>1, <3>1, ExceptSeq
    <2>6. PICK h : h = [g EXCEPT ![n] = m + 1]
        OBVIOUS
    <2>7. \A k \in 1..n : h[k] = IF k = n THEN m + 1 ELSE g[k]
        BY <1>o, <2>6 DEF Counts
    <2>8. \A k \in 1..n : buffer'[k] = command[h[k]]
        <3> SUFFICES ASSUME NEW k \in 1..n PROVE buffer'[k] = command[h[k]]
            OBVIOUS
        <3>1. CASE k = n
            <4>1. k \in 1..(Len(command) + 1)
                BY <1>n, <1>s
            <4> QED
                BY <1>c, <1>m, <1>1, <2>5, <2>7, <3>1, <4>1
        <3>2. CASE k # n
            <4>1. k \in 1..(Len(command) + 1) /\ k # p /\ k \in 1..(p - 1)
                BY <1>n, <1>s
            <4> QED
                BY <1>b, <1>g, <2>5, <2>7, <3>2, <4>1
        <3> QED
            BY <3>1, <3>2
    <2>9. \A j \in (input_data + 1)..(Len(command) + 1) : buffer'[j] = buffer[j]
        BY <1>b, <1>n, <1>s, <2>5
    <2>10. \E f : /\ Counts(f, p' - 1, KeptOf(command, input_data))
                  /\ \A k \in 1..(p' - 1) : buffer'[k] = command[f[k]]
        <3>1. Counts(h, p' - 1, KeptOf(command, input_data))
            BY <1>m, <1>n, <2>1, <2>3, <2>4, <2>6, Zenon
        <3>2. \A k \in 1..(p' - 1) : buffer'[k] = command[h[k]]
            BY <1>n, <2>1, <2>8, Zenon
        <3> QED
            BY <3>1, <3>2
    <2>11. input_data \notin I!Percents
        BY <1>r, <2>1, Zenon DEF I!Percents
    <2>12. escaped' \in BOOLEAN /\ (escaped' <=> I!Escaped(command, input_data + 1))
        BY <1>e, <1>r, <2>1
    <2>13. p' \in 1..(input_data + 1)
        BY <1>s, <2>1
    <2> QED
        BY <1>p, <1>s, <2>5, <2>9, <2>10, <2>11, <2>12, <2>13, SplitOn, Zenon
<1>2. CASE I!SplitOther \/ (I!SplitEscaped /\ I!ch # I!pct)
    <2>1. /\ buffer' = B /\ p' = p + 1 /\ I!ch # I!pct
          /\ escaped' = (I!ch = I!bs /\ ~escaped)
        BY <1>2, <1>B DEF I!SplitEscaped, I!SplitOther, I!Moved
    <2>2. PICK h : h = [i \in 1..(n + 1) |-> IF i = n + 1 THEN m + 1 ELSE g[i]]
        OBVIOUS
    <2>3. Counts(h, n + 1, KeptOf(command, m) \cup {m + 1})
        BY <1>k, <1>o, <2>2, CountsMore
    <2>4. KeptOf(command, m + 1) = KeptOf(command, m) \cup {m + 1}
        BY <1>k, <1>c, <1>m, <2>1, Zenon
    <2>5. \A k \in 1..(n + 1) : B[k] = command[h[k]]
        <3> SUFFICES ASSUME NEW k \in 1..(n + 1) PROVE B[k] = command[h[k]]
            OBVIOUS
        <3>0. k \in 1..(Len(command) + 1) /\ h[k] = IF k = n + 1 THEN m + 1 ELSE g[k]
            BY <1>n, <1>s, <2>2
        <3>1. CASE k = n + 1
            BY <1>b, <1>c, <1>m, <1>n, <3>0, <3>1
        <3>2. CASE k # n + 1
            <4>1. k # p /\ k \in 1..(p - 1)
                BY <1>n, <3>2
            <4> QED
                BY <1>b, <1>g, <3>0, <3>2, <4>1
        <3> QED
            BY <3>1, <3>2
    <2>6. p' - 1 = n + 1 /\ p' \in 1..(input_data + 1)
        BY <1>n, <1>s, <2>1
    <2>7. \E f : /\ Counts(f, p' - 1, KeptOf(command, input_data))
                 /\ \A k \in 1..(p' - 1) : buffer'[k] = command[f[k]]
        <3>1. Counts(h, p' - 1, KeptOf(command, input_data))
            BY <1>m, <2>3, <2>4, <2>6, Zenon
        <3>2. \A k \in 1..(p' - 1) : buffer'[k] = command[h[k]]
            BY <2>1, <2>5, <2>6, Zenon
        <3> QED
            BY <3>1, <3>2
    <2>8. \A j \in (input_data + 1)..(Len(command) + 1) : buffer'[j] = buffer[j]
        BY <1>b, <1>s, <2>1
    <2>9. input_data \notin I!Percents
        BY <1>c, <2>1, Zenon DEF I!Percents
    <2>10. escaped' \in BOOLEAN /\ (escaped' <=> I!Escaped(command, input_data + 1))
        BY <1>c, <1>e, <1>r, <2>1
    <2>11. buffer' \in Seq(I!Chars \cup {I!nul}) /\ Len(buffer') = Len(command) + 1
        BY <1>b, <2>1
    <2> QED
        BY <1>p, <1>s, <2>6, <2>7, <2>8, <2>9, <2>10, <2>11, SplitOn, Zenon
<1> QED
    BY <1>1, <1>2

\* How much of the text is in front of the input.
Start == IF I!Cut <= Len(command) THEN I!Cut ELSE Len(command)

\* The translation of the input, of which the loop has read m characters and
\* written those that are kept, but for a backslash that is held back.
Written(m) ==
    /\ escaped <=> m > 0 /\ I!Input[m] = I!bs
    /\ need_newline <=> out # <<>> /\ out[Len(out)] # I!nl
    /\ \E g : /\ Counts(g, Len(out) + (IF escaped THEN 1 ELSE 0), KeptOf(I!Newlined(I!Input), m))
              /\ \A k \in 1..Len(out) : out[k] = I!Newlined(I!Input)[g[k]]

\* The process that feeds the pipe has read the input up to input_data.
FeedRead ==
    pc = "feed" =>
        /\ input_data > Start
        /\ \A j \in input_data..Len(command) : buffer[j] = command[j]
        /\ I!NoDoubleBackslash(I!Input) => Written(input_data - 1 - Start)

InputInv == Buffer /\ SplitRead /\ FeedRead /\ I!CommandRight /\ I!InputRight

\* Nothing is counted by no numbers.
LEMMA CountsNone == ASSUME NEW g PROVE Counts([i \in 1..0 |-> g], 0, {})
<1>1. [i \in 1..0 |-> g] \in [1..0 -> {}]
    OBVIOUS
<1>2. \A i \in 1..0 : FALSE
    OBVIOUS
<1> QED
    BY <1>1, <1>2 DEF Counts

\* The first percent sign that is not escaped is where the text is cut.
LEMMA CutAt ==
    ASSUME NEW c \in 1..(Len(command) + 1), Len(command) \in Nat,
           c \in I!Percents \/ (I!Percents = {} /\ c = Len(command) + 1),
           \A j \in I!Percents : c <= j
    PROVE  I!Cut = c
<1> DEFINE P(i) == /\ i \in I!Percents \/ (I!Percents = {} /\ i = Len(command) + 1)
                   /\ \A j \in I!Percents : i <= j
<1>1. P(c)
    OBVIOUS
<1>2. ASSUME NEW i \in 1..(Len(command) + 1), P(i) PROVE i = c
    <2>1. CASE I!Percents = {}
        BY <1>2, <2>1
    <2>2. CASE I!Percents # {}
        <3>1. i \in I!Percents /\ c \in I!Percents
            BY <1>2, <2>2
        <3>2. i <= c /\ c <= i
            BY <1>2, <3>1
        <3> QED
            BY <3>2
    <2> QED
        BY <2>1, <2>2
<1>3. I!Cut = CHOOSE i \in 1..(Len(command) + 1) : P(i)
    BY Zenon DEF I!Cut
<1> HIDE DEF P
<1> QED
    BY <1>1, <1>2, <1>3, Zenon

\* There is one, or the text is not cut.
LEMMA CutType ==
    ASSUME Len(command) \in Nat PROVE I!Cut \in 1..(Len(command) + 1)
<1>0. I!Percents \subseteq 1..Len(command)
    BY DEF I!Percents
<1>1. CASE I!Percents = {}
    <2>1. Len(command) + 1 \in 1..(Len(command) + 1)
        OBVIOUS
    <2> QED
        BY <1>1, <2>1, CutAt
<1>2. CASE I!Percents # {}
    <2>1. I!Percents \subseteq Nat
        BY <1>0
    <2>2. PICK c \in I!Percents : \A j \in I!Percents : c <= j
        BY <1>2, <2>1, Least, Zenon
    <2>3. c \in 1..(Len(command) + 1)
        BY <1>0
    <2> QED
        BY <2>2, <2>3, CutAt
<1> QED
    BY <1>1, <1>2

\* The input is the text behind the cut.
LEMMA InputIs ==
    ASSUME command \in Seq(I!Chars)
    PROVE  /\ Start \in 0..Len(command) /\ I!Input \in Seq(I!Chars)
           /\ Len(I!Input) = Len(command) - Start
           /\ \A k \in 1..Len(I!Input) : I!Input[k] = command[Start + k] /\ I!Input[k] \in I!Chars
<1>1. Len(command) \in Nat /\ \A j \in 1..Len(command) : command[j] \in I!Chars
    BY LenProperties, ElementOfSeq
<1>2. PICK c \in 1..(Len(command) + 1) : c = I!Cut
    BY <1>1, CutType
<1>3. PICK n \in Nat : n = Len(command)
    BY <1>1
<1>4. I!Input = SubSeq(command, c + 1, n)
    BY <1>2, <1>3 DEF I!Input
<1>5. \A i \in (c + 1)..n : command[i] \in I!Chars
    BY <1>1, <1>3
<1>6. c + 1 \in Int /\ n \in Int
    OBVIOUS
<1>7. /\ I!Input \in Seq(I!Chars)
      /\ Len(I!Input) = IF c + 1 <= n THEN n - (c + 1) + 1 ELSE 0
      /\ \A i \in 1..(n - (c + 1) + 1) : I!Input[i] = command[c + 1 + i - 1]
    BY <1>4, <1>5, <1>6, SubSeqProperties
<1>8. Start = IF c <= n THEN c ELSE n
    BY <1>2, <1>3 DEF Start
<1>9. Start \in 0..n /\ Len(I!Input) = n - Start
    <2>1. CASE c <= n
        BY <1>7, <1>8, <2>1
    <2>2. CASE ~(c <= n)
        BY <1>7, <1>8, <2>2
    <2> QED
        BY <2>1, <2>2
<1>10. ASSUME NEW k \in 1..Len(I!Input)
       PROVE I!Input[k] = command[Start + k] /\ I!Input[k] \in I!Chars
    <2>1. c <= n /\ Start = c /\ k \in 1..(n - (c + 1) + 1) /\ c + 1 + k - 1 = Start + k
        BY <1>3, <1>7, <1>8
    <2> QED
        BY <1>7, <2>1, ElementOfSeq
<1> QED
    BY <1>3, <1>7, <1>9, <1>10

\* The text of the field is read from its beginning.
LEMMA InputInit == I!Init => InputInv
<1> SUFFICES ASSUME I!Init PROVE InputInv
    OBVIOUS
<1>1. /\ buffer = Append(command, I!nul) /\ input_data = 1 /\ p = 1
      /\ escaped = FALSE /\ need_newline = FALSE /\ out = <<>> /\ pc = "split"
      /\ command \in I!BoundedSeq(I!Chars, MaxLength)
    BY Zenon DEF I!Init
<1>2. command \in Seq(I!Chars)
    BY <1>1 DEF I!BoundedSeq, I!SeqOf
<1>3. Len(command) \in Nat /\ command \in Seq(I!Chars \cup {I!nul})
    BY <1>2
<1>4. /\ buffer \in Seq(I!Chars \cup {I!nul}) /\ Len(buffer) = Len(command) + 1
      /\ buffer[Len(command) + 1] = I!nul
      /\ \A j \in 1..Len(command) : buffer[j] = command[j]
    BY <1>1, <1>3
<1>5. Buffer
    <2>1. 1 \in 1..1 /\ 1 \in 1..Len(buffer) /\ out \in Seq(I!Chars \cup {I!nl})
        BY <1>1, <1>3, <1>4
    <2> QED
        BY <1>1, <1>2, <1>4, <2>1 DEF Buffer, I!TypeOK
<1>6. SplitRead
    <2>0. 0 \in Nat
        OBVIOUS
    <2>1. KeptOf(command, 0) = {} /\ input_data - 1 = 0 /\ p - 1 = 0
        <3>1. KeptOf(command, 0) = {}
            BY <2>0, KeptNext, Zenon
        <3> QED
            BY <1>1, <3>1
    <2>2. \E g : Counts(g, 0, {})
        BY CountsNone
    <2>3. \E g : /\ Counts(g, p - 1, KeptOf(command, input_data - 1))
                 /\ \A k \in 1..(p - 1) : buffer[k] = command[g[k]]
        <3>1. \A k \in 1..(p - 1) : FALSE
            BY <2>1
        <3>2. \E g : Counts(g, p - 1, KeptOf(command, input_data - 1))
            BY <2>1, <2>2, Zenon
        <3> QED
            BY <3>1, <3>2, Zenon
    <2>4. \A j \in 1..(input_data - 1) : j \notin I!Percents
        BY <2>1
    <2>5. ~I!Escaped(command, input_data)
        BY <1>1, EscapedFirst
    <2>6. \A j \in input_data..Len(command) : buffer[j] = command[j]
        BY <1>1, <1>4
    <2> QED
        BY <1>1, <2>3, <2>4, <2>5, <2>6 DEF SplitRead
<1>7. FeedRead /\ I!CommandRight /\ I!InputRight
    BY <1>1 DEF FeedRead, I!CommandRight, I!InputRight
<1> QED
    BY <1>5, <1>6, <1>7 DEF InputInv

\* What is kept of a part of the text depends on that part.
LEMMA KeptSame ==
    ASSUME NEW s, NEW t, NEW n \in Nat, \A i \in 1..n : s[i] = t[i]
    PROVE  KeptOf(s, n) = KeptOf(t, n)
<1>1. ASSUME NEW i \in 1..n, i < n
      PROVE  s[i + 1] = t[i + 1] /\ (I!Escaped(s, i + 1) <=> I!Escaped(t, i + 1))
    <2>1. i + 1 \in Nat \ {0} /\ i + 1 \in 1..n
        BY <1>1
    <2>2. \A j \in 1..(i + 1 - 1) : s[j] = I!bs <=> t[j] = I!bs
        BY <1>1
    <2> QED
        BY <2>1, <2>2, EscapedSame
<1> QED
    BY <1>1 DEF KeptOf

\* The command ends where p is.
LEMMA SplitCut ==
    ASSUME Buffer, SplitRead, pc = "split", I!Cut = input_data,
           buffer' \in Seq(I!Chars \cup {I!nul}), Len(buffer') = Len(command) + 1,
           buffer'[p] = I!nul, \A k \in 1..(p - 1) : buffer'[k] = buffer[k],
           command' = command
    PROVE  I!CommandRight'
<1>s. /\ Len(command) \in Nat /\ input_data \in 1..(Len(command) + 1) /\ p \in 1..input_data
      /\ \A j \in 1..Len(command) : command[j] \in I!Chars
    BY Sizes
<1>m. PICK m \in Nat : m = input_data - 1 /\ m <= Len(command)
    BY <1>s
<1>n. PICK n \in Nat : n = p - 1 /\ p = n + 1
    BY <1>s
<1>g. PICK g : /\ Counts(g, n, KeptOf(command, m))
               /\ \A k \in 1..n : buffer[k] = command[g[k]]
    BY <1>m, <1>n, Zenon DEF SplitRead
<1>d. /\ DOMAIN buffer' = 1..(Len(command) + 1) /\ p \in 1..(Len(command) + 1)
    BY <1>s
<1>k. KeptOf(command, m) \subseteq 1..m
    BY KeptNext
<1>1. \A k \in 1..n : g[k] \in 1..m /\ buffer'[k] = command[g[k]] /\ buffer'[k] \in I!Chars
    <2> SUFFICES ASSUME NEW k \in 1..n
                 PROVE  g[k] \in 1..m /\ buffer'[k] = command[g[k]] /\ buffer'[k] \in I!Chars
        OBVIOUS
    <2>1. g[k] \in 1..m
        BY <1>g, <1>k DEF Counts
    <2>2. g[k] \in 1..Len(command)
        BY <1>s, <1>m, <2>1
    <2>3. buffer'[k] = command[g[k]]
        BY <1>g, <1>n
    <2> QED
        BY <1>s, <2>1, <2>2, <2>3
<1>2. I!nul \notin I!Chars
    BY DEF I!nul, I!Chars, I!bs, I!pct
<1>3. (CHOOSE i \in DOMAIN buffer' : buffer'[i] = I!nul /\ \A j \in 1..(i - 1) : buffer'[j] # I!nul)
      = p
    <2> DEFINE P(i) == buffer'[i] = I!nul /\ \A j \in 1..(i - 1) : buffer'[j] # I!nul
    <2>1. P(p)
        BY <1>n, <1>1, <1>2
    <2>2. ASSUME NEW i \in 1..(Len(command) + 1), P(i) PROVE i = p
        <3>1. CASE i < p
            BY <1>n, <1>1, <1>2, <2>2, <3>1
        <3>2. CASE p < i
            BY <1>d, <2>2, <3>2
        <3> QED
            BY <1>d, <3>1, <3>2
    <2> HIDE DEF P
    <2>3. (CHOOSE i \in DOMAIN buffer' : P(i)) = p
        BY <1>d, <2>1, <2>2, Zenon
    <2> QED
        BY <2>3, Zenon DEF P
<1>4. PICK S : S = SubSeq(command, 1, m)
    OBVIOUS
<1>5. S \in Seq(I!Chars) /\ Len(S) = m /\ \A i \in 1..m : S[i] = command[i]
    <2>1. \A i \in 1..m : command[i] \in I!Chars
        BY <1>s, <1>m
    <2>2. 1 \in Int /\ m \in Int /\ (IF 1 <= m THEN m - 1 + 1 ELSE 0) = m /\ 1..(m - 1 + 1) = 1..m
        OBVIOUS
    <2>3. \A i \in 1..m : 1 + i - 1 = i
        OBVIOUS
    <2>4. /\ S \in Seq(I!Chars) /\ Len(S) = IF 1 <= m THEN m - 1 + 1 ELSE 0
          /\ \A i \in 1..(m - 1 + 1) : S[i] = command[1 + i - 1]
        BY <1>4, <2>1, <2>2, SubSeqProperties
    <2> QED
        BY <2>2, <2>3, <2>4
<1>6. Counts(g, n, KeptOf(S, Len(S)))
    BY <1>g, <1>5, KeptSame
<1>7. I!Unescaped(S) = [k \in 1..n |-> S[g[k]]]
    BY <1>5, <1>6, UnescapedCounted
<1>8. SubSeq(buffer', 1, p - 1) = [k \in 1..n |-> S[g[k]]]
    <2>1. SubSeq(buffer', 1, n) = [k \in 1..n |-> buffer'[k]]
        BY <1>d, <1>n
    <2>2. \A k \in 1..n : buffer'[k] = S[g[k]]
        BY <1>1, <1>5
    <2> QED
        BY <1>n, <2>1, <2>2
<1>9. I!Cut' = I!Cut
    BY Zenon DEF I!Cut, I!Percents
<1>10. SubSeq(command', 1, I!Cut' - 1) = S
    BY <1>4, <1>9, <1>m
<1> QED
    BY <1>3, <1>7, <1>8, <1>10, Zenon DEF I!CommandRight

\* The first percent sign that is not escaped ends the command, or the text's end does.
LEMMA SplitEnds ==
    ASSUME Buffer, SplitRead, I!SplitPercent \/ I!SplitEnd
    PROVE  InputInv'
<1>s. /\ Len(command) \in Nat /\ Len(buffer) = Len(command) + 1
      /\ input_data \in 1..(Len(command) + 1) /\ p \in 1..input_data
      /\ \A j \in 1..Len(command) : command[j] \in I!Chars
    BY Sizes
<1>p. /\ pc = "split" /\ pc' = "feed" /\ p' = p /\ escaped' = FALSE
      /\ command' = command /\ need_newline' = need_newline /\ out' = out
    BY DEF I!SplitPercent, I!SplitEnd
<1>r. /\ \A j \in input_data..Len(command) : buffer[j] = command[j]
      /\ escaped <=> I!Escaped(command, input_data)
      /\ \A j \in 1..(input_data - 1) : j \notin I!Percents
      /\ need_newline = FALSE /\ out = <<>>
    BY <1>p DEF SplitRead
<1>x. I!nul \notin I!Chars /\ I!pct # I!nul
    BY DEF I!nul, I!Chars, I!bs, I!pct
<1>0. I!Percents \subseteq 1..Len(command)
    BY DEF I!Percents
<1>1. /\ I!Cut = input_data /\ input_data' = Start + 1
      /\ buffer' \in Seq(I!Chars \cup {I!nul}) /\ Len(buffer') = Len(command) + 1
      /\ buffer'[p] = I!nul
      /\ \A j \in 1..(Len(command) + 1) : j # p /\ j # input_data => buffer'[j] = buffer[j]
    <2>1. CASE I!SplitPercent
        <3>1. /\ ~escaped /\ I!ch = I!pct /\ input_data' = input_data + 1
              /\ buffer' = [[buffer EXCEPT ![input_data] = I!nul] EXCEPT ![p] = I!nul]
            BY <2>1 DEF I!SplitPercent
        <3>2. input_data \in 1..Len(command) /\ command[input_data] = I!pct
            <4>1. input_data \in 1..Len(command)
                BY <1>x, <3>1, Sizes
            <4> QED
                BY <1>r, <3>1, <4>1 DEF I!ch
        <3>3. input_data \in I!Percents
            BY <1>r, <3>1, <3>2 DEF I!Percents
        <3>4. \A j \in I!Percents : input_data <= j
            BY <1>0, <1>r, <1>s
        <3>5. I!Cut = input_data
            BY <1>s, <3>3, <3>4, CutAt
        <3>6. input_data' = Start + 1
            BY <3>1, <3>2, <3>5 DEF Start
        <3>7. PICK B : B = [buffer EXCEPT ![input_data] = I!nul]
            OBVIOUS
        <3>8. /\ B \in Seq(I!Chars \cup {I!nul}) /\ Len(B) = Len(command) + 1
              /\ \A j \in 1..(Len(command) + 1) : B[j] = IF j = input_data THEN I!nul ELSE buffer[j]
            BY <1>s, <3>7, Overwritten
        <3>9. p \in 1..Len(B) /\ buffer' = [B EXCEPT ![p] = I!nul]
            BY <1>s, <3>1, <3>7, <3>8
        <3>10. /\ buffer' \in Seq(I!Chars \cup {I!nul}) /\ Len(buffer') = Len(B)
               /\ \A j \in 1..Len(B) : buffer'[j] = IF j = p THEN I!nul ELSE B[j]
            BY <3>8, <3>9, ExceptSeq
        <3> QED
            BY <3>5, <3>6, <3>8, <3>9, <3>10
    <2>2. CASE I!SplitEnd
        <3>1. I!ch = I!nul /\ input_data' = input_data /\ buffer' = [buffer EXCEPT ![p] = I!nul]
            BY <2>2 DEF I!SplitEnd
        <3>2. input_data = Len(command) + 1
            <4>1. ASSUME input_data \in 1..Len(command) PROVE FALSE
                BY <1>r, <1>s, <1>x, <3>1, <4>1 DEF I!ch
            <4> QED
                BY <1>s, <4>1
        <3>3. I!Percents = {}
            BY <1>0, <1>r, <1>s, <3>2
        <3>4. I!Cut = input_data
            BY <1>s, <3>2, <3>3, CutAt
        <3>5. input_data' = Start + 1
            BY <1>s, <3>1, <3>2, <3>4 DEF Start
        <3>6. /\ buffer' \in Seq(I!Chars \cup {I!nul}) /\ Len(buffer') = Len(command) + 1
              /\ \A j \in 1..(Len(command) + 1) : buffer'[j] = IF j = p THEN I!nul ELSE buffer[j]
            <4>1. p \in 1..(Len(command) + 1)
                BY <1>s
            <4> QED
                BY <3>1, <4>1, Overwritten
        <3>7. p \in 1..(Len(command) + 1)
            BY <1>s
        <3> QED
            BY <3>4, <3>5, <3>6, <3>7
    <2> QED
        BY <2>1, <2>2
<1>2. I!CommandRight'
    <2>1. \A k \in 1..(p - 1) : buffer'[k] = buffer[k]
        BY <1>s, <1>1
    <2> QED
        BY <1>p, <1>1, <2>1, SplitCut
<1>3. command \in Seq(I!Chars) /\ buffer[Len(command) + 1] = I!nul
    BY DEF Buffer
<1>4. Start \in 0..Len(command) /\ Start' = Start /\ I!Input' = I!Input
    <2>1. I!Cut' = I!Cut
        BY <1>p, Zenon DEF I!Cut, I!Percents
    <2> QED
        BY <1>p, <1>3, <2>1, InputIs DEF Start, I!Input
<1>5. input_data <= input_data'
    BY <1>s, <1>1, <1>4 DEF Start
<1>6. Buffer'
    <2>1. buffer'[Len(command) + 1] = I!nul
        <3>1. CASE p = Len(command) + 1
            BY <1>1, <3>1
        <3>2. CASE p # Len(command) + 1 /\ input_data # Len(command) + 1
            BY <1>s, <1>1, <1>3, <3>2
        <3>3. CASE p # Len(command) + 1 /\ input_data = Len(command) + 1
            <4>1. I!SplitEnd
                <5>1. I!ch = I!nul
                    BY <1>3, <3>3 DEF I!ch
                <5> QED
                    BY <1>x, <5>1 DEF I!SplitPercent
            <4>2. buffer' = [buffer EXCEPT ![p] = I!nul] /\ p \in 1..(Len(command) + 1)
                BY <1>s, <4>1 DEF I!SplitEnd
            <4>3. Len(command) + 1 \in 1..(Len(command) + 1)
                BY <1>s
            <4> QED
                BY <1>3, <3>3, <4>2, <4>3, Overwritten
        <3> QED
            BY <3>1, <3>2, <3>3
    <2>2. p' \in 1..input_data' /\ input_data' \in 1..Len(buffer')
        BY <1>s, <1>p, <1>1, <1>4, <1>5
    <2>3. out' \in Seq(I!Chars \cup {I!nl}) /\ need_newline' \in BOOLEAN
        BY <1>p DEF Buffer, I!TypeOK
    <2> QED
        BY <1>p, <1>1, <1>3, <2>1, <2>2, <2>3, Zenon DEF Buffer, I!TypeOK
<1>7. FeedRead'
    <2>1. input_data' > Start'
        BY <1>1, <1>4
    <2>2. \A j \in input_data'..Len(command') : buffer'[j] = command'[j]
        <3> SUFFICES ASSUME NEW j \in input_data'..Len(command) PROVE buffer'[j] = command[j]
            BY <1>p, Zenon
        <3>1. j \in input_data..Len(command) /\ j > Start
            BY <1>s, <1>1, <1>4, <1>5
        <3>2. j # input_data /\ j # p /\ j \in 1..(Len(command) + 1)
            BY <1>s, <1>1, <3>1 DEF Start
        <3> QED
            BY <1>r, <1>1, <3>1, <3>2
    <2>3. Written(input_data - 1 - Start)'
        <3>1. input_data' - 1 - Start' = 0 /\ out' = <<>>
              /\ escaped' = FALSE /\ need_newline' = FALSE
            BY <1>p, <1>r, <1>1, <1>4
        <3>2. 0 \in Nat
            OBVIOUS
        <3>3. KeptOf(I!Newlined(I!Input)', 0) = {}
            BY <3>2, KeptNext, Zenon
        <3>4. PICK g : Counts(g, 0, {})
            BY CountsNone
        <3>5. Len(out') + (IF escaped' THEN 1 ELSE 0) = 0 /\ 1..Len(out') = {}
            BY <3>1
        <3>6. Counts(g, Len(out') + (IF escaped' THEN 1 ELSE 0), KeptOf(I!Newlined(I!Input)', 0))
            BY <3>3, <3>4, <3>5, Zenon
        <3>7. \A k \in 1..Len(out') : out'[k] = I!Newlined(I!Input)'[g[k]]
            BY <3>5
        <3> QED
            BY <3>1, <3>6, <3>7 DEF Written
    <2> QED
        BY <1>p, <1>r, <2>1, <2>2, <2>3 DEF FeedRead
<1>8. SplitRead' /\ I!InputRight'
    BY <1>p DEF SplitRead, I!InputRight
<1> QED
    BY <1>2, <1>6, <1>7, <1>8 DEF InputInv

\* If no backslash stands before a backslash, one before a character escapes it.
LEMMA SingleEscape ==
    ASSUME NEW s, NEW m \in Nat, Len(s) \in Nat, m <= Len(s), I!NoDoubleBackslash(s)
    PROVE  I!Escaped(s, m + 1) <=> m > 0 /\ s[m] = I!bs
<1>1. CASE m = 0
    <2>1. m + 1 = 1
        BY <1>1
    <2> QED
        BY <1>1, <2>1, EscapedFirst
<1>2. CASE m = 1
    BY <1>2, EscapedFirst, EscapedNext
<1>3. CASE m > 1
    <2>1. PICK l \in Nat \ {0} : m = l + 1 /\ l \in 1..(Len(s) - 1)
        BY <1>3
    <2>2. ~(s[l] = I!bs /\ s[l + 1] = I!bs)
        BY <2>1 DEF I!NoDoubleBackslash
    <2>3. I!Escaped(s, l + 1) => s[l] = I!bs
        BY EscapedNext
    <2>4. m \in Nat \ {0}
        BY <1>3
    <2>5. I!Escaped(s, m + 1) <=> s[m] = I!bs /\ ~I!Escaped(s, m)
        BY <2>4, EscapedNext
    <2> QED
        BY <1>3, <2>1, <2>2, <2>3, <2>5
<1> QED
    BY <1>1, <1>2, <1>3

\* The newlines in the translation are the percent signs that are not escaped.
LEMMA NewlinedIs ==
    ASSUME NEW s \in Seq(I!Chars)
    PROVE  /\ Len(I!Newlined(s)) = Len(s)
           /\ \A i \in 1..Len(s) :
                 /\ I!Newlined(s)[i] = IF s[i] = I!pct /\ ~I!Escaped(s, i) THEN I!nl ELSE s[i]
                 /\ I!Newlined(s)[i] = I!bs <=> s[i] = I!bs
                 /\ I!Escaped(I!Newlined(s), i) <=> I!Escaped(s, i)
<1> DEFINE N == I!Newlined(s)
<1>0. Len(s) \in Nat
    OBVIOUS
<1>1. N = [i \in 1..Len(s) |-> IF s[i] = I!pct /\ ~I!Escaped(s, i) THEN I!nl ELSE s[i]]
    BY DEF I!Newlined
<1> HIDE DEF N
<1>2. Len(N) = Len(s)
    BY <1>0, <1>1
<1>3. I!bs # I!pct /\ I!nl # I!bs
    BY DEF I!bs, I!pct, I!nl
<1>4. \A i \in 1..Len(s) :
        /\ N[i] = IF s[i] = I!pct /\ ~I!Escaped(s, i) THEN I!nl ELSE s[i]
        /\ N[i] = I!bs <=> s[i] = I!bs
    BY <1>1, <1>3
<1>5. ASSUME NEW i \in 1..Len(s) PROVE I!Escaped(N, i) <=> I!Escaped(s, i)
    <2>1. i \in Nat \ {0} /\ \A j \in 1..(i - 1) : j \in 1..Len(s)
        BY <1>0
    <2>2. \A j \in 1..(i - 1) : N[j] = I!bs <=> s[j] = I!bs
        BY <1>4, <2>1
    <2> QED
        BY <2>1, <2>2, EscapedSame
<1> QED
    BY <1>2, <1>4, <1>5 DEF N

\* One character of the input is translated.
LEMMA WrittenMore ==
    ASSUME NEW m \in Nat, Buffer, I!FeedChar, m < Len(I!Input), I!Input[m + 1] = I!ch,
           I!NoDoubleBackslash(I!Input), Written(m), I!Input' = I!Input
    PROVE  Written(m + 1)'
<1> DEFINE A == I!Input
           N == I!Newlined(I!Input)
           K == KeptOf(I!Newlined(I!Input), m)
<1>a. /\ A \in Seq(I!Chars) /\ Len(A) \in Nat /\ m + 1 \in 1..Len(A)
    BY InputIs DEF Buffer
<1>f. /\ escaped' = (I!ch = I!bs) /\ escaped \in BOOLEAN /\ out \in Seq(I!Chars \cup {I!nl})
      /\ need_newline' = IF I!ch = I!bs THEN need_newline ELSE I!Translated # I!nl
      /\ out' = out \o I!Held \o IF I!ch = I!bs THEN <<>> ELSE <<I!Translated>>
    BY DEF I!FeedChar, Buffer, I!TypeOK
<1>x. I!bs # I!pct /\ I!nl # I!bs /\ I!nl # I!pct /\ I!ch \in I!Chars
    <2>1. I!ch \in I!Chars
        BY <1>a, ElementOfSeq
    <2> QED
        BY <2>1 DEF I!bs, I!pct, I!nl
<1>e. /\ escaped <=> m > 0 /\ A[m] = I!bs
      /\ I!Escaped(A, m + 1) <=> escaped
    <2>1. escaped <=> m > 0 /\ A[m] = I!bs
        BY DEF Written
    <2>2. I!Escaped(A, m + 1) <=> m > 0 /\ A[m] = I!bs
        BY <1>a, SingleEscape
    <2> QED
        BY <2>1, <2>2
<1>g. PICK g : /\ Counts(g, Len(out) + (IF escaped THEN 1 ELSE 0), K)
               /\ \A k \in 1..Len(out) : out[k] = N[g[k]]
    BY Zenon DEF Written
<1>n. /\ N[m + 1] = IF I!ch = I!pct /\ ~escaped THEN I!nl ELSE I!ch
      /\ I!Escaped(N, m + 1) <=> escaped
      /\ \A i \in 1..Len(A) : N[i] = I!bs <=> A[i] = I!bs
    BY <1>a, <1>e, NewlinedIs
<1>k. /\ K \subseteq 1..m /\ (m > 0 => m \in K)
      /\ KeptOf(N, m + 1) = IF I!ch = I!pct /\ escaped THEN (K \ {m}) \cup {m + 1}
                              ELSE K \cup {m + 1}
    <2>1. N[m + 1] = I!pct /\ I!Escaped(N, m + 1) <=> I!ch = I!pct /\ escaped
        BY <1>n, <1>x
    <2>2. /\ K \subseteq 1..m /\ (m > 0 => m \in K)
          /\ KeptOf(N, m + 1) = IF N[m + 1] = I!pct /\ I!Escaped(N, m + 1)
                                THEN (K \ {m}) \cup {m + 1} ELSE K \cup {m + 1}
        BY KeptNext
    <2> QED
        BY <2>1, <2>2
<1>t. N[m + 1] = I!Translated /\ I!Translated \in I!Chars \cup {I!nl}
    BY <1>n, <1>x DEF I!Translated
<1>l. PICK n \in Nat : n = Len(out)
    BY <1>f
<1>N. I!Newlined(I!Input)' = N
    BY Zenon DEF I!Newlined
<1>A. I!Input'[m + 1] = I!ch
    OBVIOUS
<1>w. ASSUME NEW h, Counts(h, Len(out') + (IF I!ch = I!bs THEN 1 ELSE 0), KeptOf(N, m + 1)),
             \A k \in 1..Len(out') : out'[k] = N[h[k]],
             IF I!ch = I!bs THEN out' = out ELSE out' # <<>> /\ out'[Len(out')] = I!Translated
      PROVE  Written(m + 1)'
    <2>1. escaped' <=> m + 1 > 0 /\ I!Input'[m + 1] = I!bs
        <3>1. m + 1 > 0
            OBVIOUS
        <3> QED
            BY <1>f, <1>A, <3>1, Zenon
    <2>2. Counts(h, Len(out') + (IF escaped' THEN 1 ELSE 0), KeptOf(N, m + 1))
        BY <1>f, <1>w, Zenon
    <2>3. need_newline' <=> out' # <<>> /\ out'[Len(out')] # I!nl
        <3>1. need_newline <=> out # <<>> /\ out[Len(out)] # I!nl
            BY DEF Written
        <3>2. CASE I!ch = I!bs
            BY <1>f, <1>w, <3>1, <3>2, Zenon
        <3>3. CASE I!ch # I!bs
            BY <1>f, <1>w, <3>3, Zenon
        <3> QED
            BY <3>2, <3>3
    <2> QED
        BY <1>N, <1>w, <2>1, <2>2, <2>3, Zenon DEF Written
<1>h. Counts([i \in 1..(n + 1) |-> IF i = n + 1 THEN m + 1 ELSE g[i]], n + 1, K \cup {m + 1})
      \/ escaped
    <2>1. CASE ~escaped
        <3>1. Counts(g, n, K)
            BY <1>g, <1>l, <2>1
        <3> QED
            BY <1>k, <3>1, CountsMore
    <2> QED
        BY <2>1
<1> HIDE DEF A, N, K
<1>1. CASE I!ch = I!bs
    <2>1. ~escaped
        <3>1. ASSUME escaped PROVE FALSE
            <4>1. m \in 1..(Len(A) - 1) /\ A[m] = I!bs /\ A[m + 1] = I!bs
                BY <1>a, <1>e, <1>1, <3>1 DEF A
            <4> QED
                BY <4>1 DEF I!NoDoubleBackslash, A
        <3> QED
            BY <3>1
    <2>2. out' = out
        <3>1. I!Held = <<>>
            BY <2>1 DEF I!Held
        <3> QED
            BY <1>f, <1>1, <3>1
    <2>3. PICK h : h = [i \in 1..(n + 1) |-> IF i = n + 1 THEN m + 1 ELSE g[i]]
        OBVIOUS
    <2>4. KeptOf(N, m + 1) = K \cup {m + 1}
        BY <1>k, <2>1
    <2>5. Counts(h, n + 1, KeptOf(N, m + 1))
        BY <1>h, <2>1, <2>3, <2>4
    <2>6. \A k \in 1..n : out[k] = N[h[k]]
        BY <1>g, <1>l, <2>3
    <2> QED
        BY <1>l, <1>w, <1>1, <2>2, <2>5, <2>6
<1>2. CASE I!ch # I!bs /\ ~escaped
    <2>2. out' = Append(out, N[m + 1])
        <3>1. I!Held = <<>>
            BY <1>2 DEF I!Held
        <3> QED
            BY <1>f, <1>2, <1>t, <3>1
    <2>3. PICK h : h = [i \in 1..(n + 1) |-> IF i = n + 1 THEN m + 1 ELSE g[i]]
        OBVIOUS
    <2>4. KeptOf(N, m + 1) = K \cup {m + 1}
        BY <1>k, <1>2
    <2>5. Counts(h, n + 1, KeptOf(N, m + 1))
        BY <1>h, <1>2, <2>3, <2>4
    <2>6. Len(out') = n + 1
          /\ \A k \in 1..(n + 1) : out'[k] = IF k = n + 1 THEN N[m + 1] ELSE out[k]
        BY <1>f, <1>l, <1>t, <2>2
    <2>7. \A k \in 1..(n + 1) : out'[k] = N[h[k]]
        BY <1>g, <1>l, <2>3, <2>6
    <2>8. out' # <<>> /\ out'[Len(out')] = I!Translated
        BY <1>f, <1>t, <2>2
    <2> QED
        BY <1>w, <1>2, <2>5, <2>6, <2>7, <2>8
<1>3. CASE I!ch = I!pct /\ escaped
    <2>1. m \in Nat /\ m \in K
        BY <1>e, <1>k, <1>3
    <2>2. Counts(g, n + 1, K)
        BY <1>g, <1>l, <1>3
    <2>3. PICK h : h = [g EXCEPT ![n + 1] = m + 1]
        OBVIOUS
    <2>4. Counts(h, n + 1, KeptOf(N, m + 1))
        <3>1. Counts(h, n + 1, (K \ {m}) \cup {m + 1})
            BY <1>k, <2>1, <2>2, <2>3, CountsLast
        <3> QED
            BY <1>k, <1>3, <3>1
    <2>5. \A k \in 1..(n + 1) : h[k] = IF k = n + 1 THEN m + 1 ELSE g[k]
        BY <2>2, <2>3 DEF Counts
    <2>6. out' = Append(out, N[m + 1])
        <3>1. I!Held = <<>>
            BY <1>3 DEF I!Held
        <3> QED
            BY <1>f, <1>t, <1>x, <1>3, <3>1
    <2>7. Len(out') = n + 1
          /\ \A k \in 1..(n + 1) : out'[k] = IF k = n + 1 THEN N[m + 1] ELSE out[k]
        BY <1>f, <1>l, <1>t, <2>6
    <2>8. \A k \in 1..(n + 1) : out'[k] = N[h[k]]
        BY <1>g, <1>l, <2>5, <2>7
    <2>9. out' # <<>> /\ out'[Len(out')] = I!Translated
        BY <1>f, <1>t, <2>6
    <2> QED
        BY <1>w, <1>x, <1>3, <2>4, <2>7, <2>8, <2>9
<1>4. CASE I!ch # I!pct /\ I!ch # I!bs /\ escaped
    <2>1. m \in Nat /\ m \in K /\ m \in 1..Len(A) /\ N[m] = I!bs
        BY <1>a, <1>e, <1>k, <1>n, <1>4
    <2>2. Counts(g, n + 1, K)
        BY <1>g, <1>l, <1>4
    <2>3. g[n + 1] = m
        BY <1>k, <2>1, <2>2, CountsLast
    <2>4. PICK h : h = [i \in 1..(n + 1 + 1) |-> IF i = n + 1 + 1 THEN m + 1 ELSE g[i]]
        OBVIOUS
    <2>5. Counts(h, n + 1 + 1, KeptOf(N, m + 1))
        <3>1. Counts(h, n + 1 + 1, K \cup {m + 1})
            BY <1>k, <2>2, <2>4, CountsMore
        <3> QED
            BY <1>k, <1>4, <3>1
    <2>6. out' = Append(Append(out, I!bs), N[m + 1])
        <3>1. I!Held = <<I!bs>>
            BY <1>4 DEF I!Held
        <3>2. I!bs \in I!Chars \cup {I!nl}
            BY DEF I!Chars
        <3> QED
            BY <1>f, <1>t, <1>4, <3>1, <3>2
    <2>7. Len(out') = n + 1 + 1
          /\ \A k \in 1..(n + 1 + 1) :
                out'[k] = IF k = n + 1 + 1 THEN N[m + 1] ELSE IF k = n + 1 THEN N[m] ELSE out[k]
        <3>1. I!bs \in I!Chars \cup {I!nl}
            BY DEF I!Chars
        <3> QED
            BY <1>f, <1>l, <1>t, <2>1, <2>6, <3>1
    <2>8. \A k \in 1..(n + 1 + 1) : out'[k] = N[h[k]]
        BY <1>g, <1>l, <2>3, <2>4, <2>7
    <2>9. out' # <<>> /\ out'[Len(out')] = I!Translated
        BY <1>f, <1>l, <1>t, <2>6, <2>7
    <2> QED
        BY <1>w, <1>4, <2>5, <2>7, <2>8, <2>9
<1> QED
    BY <1>1, <1>2, <1>3, <1>4

\* In the feeding process nothing moves the command, the cut or the input.
LEMMA CommandStays ==
    ASSUME I!CommandRight, pc # "split", command' = command, buffer' = buffer
    PROVE  I!Cut' = I!Cut /\ Start' = Start /\ I!Input' = I!Input /\ I!CommandRight'
<1>1. I!Cut' = I!Cut
    BY Zenon DEF I!Cut, I!Percents
<1>2. Start' = Start /\ I!Input' = I!Input
    BY <1>1, Zenon DEF Start, I!Input
<1>3. I!CommandRight'
    BY <1>1, Zenon DEF I!CommandRight
<1> QED
    BY <1>1, <1>2, <1>3

\* A character of the input is read.
LEMMA FeedCharStep == ASSUME InputInv, I!FeedChar PROVE InputInv'
<1>i. Buffer /\ FeedRead /\ I!CommandRight
    BY DEF InputInv
<1>p. /\ pc = "feed" /\ pc' = "feed" /\ I!ch # I!nul /\ input_data' = input_data + 1
      /\ command' = command /\ buffer' = buffer /\ p' = p
      /\ escaped' = (I!ch = I!bs)
      /\ out' = out \o I!Held \o IF I!ch = I!bs THEN <<>> ELSE <<I!Translated>>
      /\ need_newline' = IF I!ch = I!bs THEN need_newline ELSE I!Translated # I!nl
    BY DEF I!FeedChar
<1>s. /\ Len(command) \in Nat /\ Len(buffer) = Len(command) + 1
      /\ input_data \in 1..Len(command) /\ p \in 1..input_data /\ I!ch \in I!Chars
    BY <1>i, <1>p, Sizes
<1>c. Start' = Start /\ I!Input' = I!Input /\ I!CommandRight'
    BY <1>i, <1>p, CommandStays
<1>r. /\ input_data > Start
      /\ \A j \in input_data..Len(command) : buffer[j] = command[j]
      /\ I!NoDoubleBackslash(I!Input) => Written(input_data - 1 - Start)
    BY <1>i, <1>p, Zenon DEF FeedRead
<1>t. /\ command \in Seq(I!Chars) /\ buffer \in Seq(I!Chars \cup {I!nul})
      /\ buffer[Len(command) + 1] = I!nul /\ out \in Seq(I!Chars \cup {I!nl})
      /\ need_newline \in BOOLEAN /\ escaped \in BOOLEAN
    BY <1>i DEF Buffer, I!TypeOK
<1>u. /\ Start \in 0..Len(command) /\ Len(I!Input) = Len(command) - Start
      /\ \A k \in 1..Len(I!Input) : I!Input[k] = command[Start + k]
    BY <1>t, InputIs
<1>b. I!bs \in I!Chars \cup {I!nl} /\ I!nl # I!bs /\ I!bs # I!pct
    BY DEF I!Chars, I!bs, I!nl, I!pct
<1>v. I!Translated \in I!Chars \cup {I!nl}
    BY <1>s DEF I!Translated
<1>m. PICK m \in Nat : /\ m = input_data - 1 - Start /\ m < Len(I!Input)
                       /\ Start + (m + 1) = input_data /\ m + 1 = input_data' - 1 - Start
                       /\ m + 1 \in 1..Len(I!Input)
    <2>0. PICK d \in 0..Len(command) : d = Start
        BY <1>u, Zenon
    <2>1. PICK l \in Nat : l = Len(I!Input) /\ l = Len(command) - d
        <3>1. Len(command) - d \in Nat
            BY <1>s
        <3> QED
            BY <1>u, <2>0, <3>1, Zenon
    <2>2. input_data \in Nat /\ input_data > d /\ input_data - 1 - d < l
        BY <1>r, <1>s, <2>0, <2>1
    <2>3. PICK m \in Nat : m = input_data - 1 - d
        BY <2>2
    <2>4. m < l /\ d + (m + 1) = input_data /\ m + 1 = input_data + 1 - 1 - d /\ m + 1 \in 1..l
        BY <2>1, <2>2, <2>3
    <2>5. Start + (m + 1) = input_data /\ m = input_data - 1 - Start
        BY <2>0, <2>3, <2>4, Zenon
    <2>6. m + 1 = input_data' - 1 - Start
        <3>1. input_data' = input_data + 1
            BY <1>p
        <3>2. m + 1 = input_data' - 1 - d
            BY <2>4, <3>1
        <3> QED
            BY <2>0, <3>2, Zenon
    <2>7. m < Len(I!Input) /\ m + 1 \in 1..Len(I!Input)
        BY <2>1, <2>4, Zenon
    <2> QED
        BY <2>5, <2>6, <2>7, Zenon
<1>1. I!NoDoubleBackslash(I!Input') => Written(m + 1)'
    <2> SUFFICES ASSUME I!NoDoubleBackslash(I!Input) PROVE Written(m + 1)'
        BY <1>c, Zenon
    <2>1. Written(m)
        BY <1>r, <1>m, Zenon
    <2>2. I!ch = command[input_data]
        BY <1>r, <1>s DEF I!ch
    <2>3. I!Input[m + 1] = I!ch
        BY <1>u, <1>m, <2>2
    <2> QED
        BY <1>i, <1>c, <1>m, <2>1, <2>3, WrittenMore
<1>2. out' \in Seq(I!Chars \cup {I!nl})
    <2>1. I!Held \in Seq(I!Chars \cup {I!nl})
        <3>1. <<I!bs>> \in Seq(I!Chars \cup {I!nl}) /\ <<>> \in Seq(I!Chars \cup {I!nl})
            BY <1>b
        <3> QED
            BY <3>1, Zenon DEF I!Held
    <2>2. PICK o \in Seq(I!Chars \cup {I!nl}) : o = out \o I!Held
        BY <1>t, <2>1, ConcatProperties
    <2>3. CASE I!ch = I!bs
        BY <1>p, <2>2, <2>3
    <2>4. CASE I!ch # I!bs
        BY <1>p, <1>v, <2>2, <2>4
    <2> QED
        BY <2>3, <2>4
<1>3. Buffer'
    <2>1. p' \in 1..input_data' /\ input_data' \in 1..Len(buffer')
        BY <1>p, <1>s
    <2>2. escaped' \in BOOLEAN /\ need_newline' \in BOOLEAN
        BY <1>p, <1>t
    <2> QED
        BY <1>p, <1>s, <1>t, <1>2, <2>1, <2>2, Zenon DEF Buffer, I!TypeOK
<1>4. FeedRead'
    <2>1. input_data' > Start'
        BY <1>c, <1>p, <1>r, <1>s, <1>u
    <2>2. \A j \in input_data'..Len(command') : buffer'[j] = command'[j]
        BY <1>p, <1>r, <1>s
    <2>3. I!NoDoubleBackslash(I!Input') => Written(input_data - 1 - Start)'
        BY <1>c, <1>m, <1>1, Zenon DEF Written
    <2> QED
        BY <1>p, <2>1, <2>2, <2>3, Zenon DEF FeedRead
<1>5. SplitRead' /\ I!InputRight'
    BY <1>p DEF SplitRead, I!InputRight
<1> QED
    BY <1>c, <1>3, <1>4, <1>5 DEF InputInv

\* The input ends.
LEMMA FeedEndStep == ASSUME InputInv, I!FeedEnd PROVE InputInv'
<1>i. Buffer /\ FeedRead /\ I!CommandRight
    BY DEF InputInv
<1>p. /\ pc = "feed" /\ pc' = "done" /\ I!ch = I!nul /\ input_data' = input_data
      /\ command' = command /\ buffer' = buffer /\ p' = p
      /\ escaped' = escaped /\ need_newline' = need_newline
      /\ out' = out \o (IF escaped THEN <<I!bs>> ELSE <<>>)
                    \o (IF need_newline THEN <<I!nl>> ELSE <<>>)
    BY DEF I!FeedEnd
<1>s. /\ Len(command) \in Nat /\ Len(buffer) = Len(command) + 1
      /\ input_data \in 1..(Len(command) + 1) /\ p \in 1..input_data
      /\ \A j \in 1..Len(command) : command[j] \in I!Chars
    BY <1>i, Sizes
<1>c. Start' = Start /\ I!Input' = I!Input /\ I!CommandRight'
    BY <1>i, <1>p, CommandStays
<1>r. /\ input_data > Start
      /\ \A j \in input_data..Len(command) : buffer[j] = command[j]
      /\ I!NoDoubleBackslash(I!Input) => Written(input_data - 1 - Start)
    BY <1>i, <1>p, Zenon DEF FeedRead
<1>t. /\ command \in Seq(I!Chars) /\ buffer \in Seq(I!Chars \cup {I!nul})
      /\ buffer[Len(command) + 1] = I!nul /\ out \in Seq(I!Chars \cup {I!nl})
      /\ need_newline \in BOOLEAN /\ escaped \in BOOLEAN
    BY <1>i DEF Buffer, I!TypeOK
<1>u. /\ Start \in 0..Len(command) /\ Len(I!Input) = Len(command) - Start
      /\ I!Input \in Seq(I!Chars)
    BY <1>t, InputIs
<1>b. I!bs \in I!Chars \cup {I!nl} /\ I!nul \notin I!Chars
    BY DEF I!Chars, I!bs, I!pct, I!nul
<1>1. out' \in Seq(I!Chars \cup {I!nl})
    <2>0. <<I!bs>> \in Seq(I!Chars \cup {I!nl}) /\ <<I!nl>> \in Seq(I!Chars \cup {I!nl})
          /\ <<>> \in Seq(I!Chars \cup {I!nl})
        BY <1>b
    <2>1. PICK a \in Seq(I!Chars \cup {I!nl}) : a = IF escaped THEN <<I!bs>> ELSE <<>>
        BY <2>0, Zenon
    <2>2. PICK b \in Seq(I!Chars \cup {I!nl}) : b = IF need_newline THEN <<I!nl>> ELSE <<>>
        BY <2>0, Zenon
    <2> QED
        BY <1>p, <1>t, <2>1, <2>2, ConcatProperties
<1>2. Buffer'
    <2>1. p' \in 1..input_data' /\ input_data' \in 1..Len(buffer')
        BY <1>p, <1>s
    <2> QED
        BY <1>p, <1>s, <1>t, <1>1, <2>1, Zenon DEF Buffer, I!TypeOK
<1>3. input_data = Len(command) + 1
    <2>1. ASSUME input_data \in 1..Len(command) PROVE FALSE
        BY <1>b, <1>p, <1>r, <1>s, <2>1 DEF I!ch
    <2> QED
        BY <1>s, <2>1
<1>4. I!InputRight'
    <2> SUFFICES ASSUME I!NoDoubleBackslash(I!Input) PROVE out' = I!Meant'
        BY <1>c, Zenon DEF I!InputRight
    <2>1. PICK m \in Nat : m = Len(I!Input) /\ m = input_data - 1 - Start
        BY <1>s, <1>u, <1>3
    <2>2. Written(m)
        BY <1>r, <2>1, Zenon
    <2>3. ~escaped
        <3>1. I!Input # <<>> => I!Input[m] # I!bs
            BY <2>1 DEF I!NoDoubleBackslash
        <3>2. m > 0 => I!Input # <<>>
            BY <1>u, <2>1
        <3> QED
            BY <2>2, <3>1, <3>2 DEF Written
    <2>4. PICK N : N = I!Newlined(I!Input)
        OBVIOUS
    <2>5. Len(N) = m
        BY <1>u, <2>1, <2>4, NewlinedIs
    <2>6. PICK g : /\ Counts(g, Len(out), KeptOf(N, Len(N)))
                   /\ \A k \in 1..Len(out) : out[k] = N[g[k]]
        <3>1. PICK g : /\ Counts(g, Len(out) + (IF escaped THEN 1 ELSE 0), KeptOf(N, m))
                       /\ \A k \in 1..Len(out) : out[k] = N[g[k]]
            BY <2>2, <2>4, Zenon DEF Written
        <3>2. Len(out) + (IF escaped THEN 1 ELSE 0) = Len(out)
            BY <1>t, <2>3
        <3> QED
            BY <2>5, <3>1, <3>2, Zenon
    <2>7. I!Unescaped(N) = [k \in 1..Len(out) |-> N[g[k]]]
        BY <2>5, <2>6, UnescapedCounted
    <2>8. I!Unescaped(N) = out
        BY <1>t, <2>6, <2>7
    <2>9. I!Meant = IF out # <<>> /\ out[Len(out)] # I!nl THEN Append(out, I!nl) ELSE out
        BY <2>4, <2>8, Zenon DEF I!Meant
    <2>10. out' = I!Meant
        <3>0. need_newline <=> out # <<>> /\ out[Len(out)] # I!nl
            BY <2>2 DEF Written
        <3>1. CASE need_newline
            <4>1. out' = out \o <<>> \o <<I!nl>>
                BY <1>p, <2>3, <3>1
            <4> QED
                BY <1>t, <2>9, <3>0, <3>1, <4>1
        <3>2. CASE ~need_newline
            <4>1. out' = out \o <<>> \o <<>>
                BY <1>p, <2>3, <3>2
            <4> QED
                BY <1>t, <2>9, <3>0, <3>2, <4>1
        <3> QED
            BY <3>1, <3>2
    <2>11. I!Meant' = I!Meant
        BY <1>c, Zenon DEF I!Meant
    <2> QED
        BY <2>10, <2>11
<1>5. SplitRead' /\ FeedRead'
    BY <1>p DEF SplitRead, FeedRead
<1> QED
    BY <1>c, <1>2, <1>4, <1>5 DEF InputInv

\* Every step keeps the invariant.
LEMMA InputStep == InputInv /\ [I!Next]_(I!vars) => InputInv'
<1> SUFFICES ASSUME InputInv, [I!Next]_(I!vars) PROVE InputInv'
    OBVIOUS
<1>1. CASE I!SplitEscaped \/ I!SplitOther
    <2>1. Buffer' /\ SplitRead' /\ pc' = "split"
        <3>1. pc' = "split"
            BY <1>1 DEF I!SplitEscaped, I!SplitOther
        <3> QED
            BY <1>1, <3>1, SplitMoves DEF InputInv
    <2> QED
        BY <2>1 DEF InputInv, FeedRead, I!CommandRight, I!InputRight
<1>2. CASE I!SplitPercent \/ I!SplitEnd
    BY <1>2, SplitEnds DEF InputInv
<1>3. CASE I!FeedChar
    BY <1>3, FeedCharStep
<1>4. CASE I!FeedEnd
    BY <1>4, FeedEndStep
<1>5. CASE UNCHANGED I!vars
    <2>1. /\ command' = command /\ buffer' = buffer /\ input_data' = input_data /\ p' = p
          /\ escaped' = escaped /\ need_newline' = need_newline /\ out' = out /\ pc' = pc
        BY <1>5 DEF I!vars
    <2>2. Buffer' /\ SplitRead'
        BY <2>1, Zenon DEF InputInv, Buffer, I!TypeOK, SplitRead, I!Percents
    <2>3. FeedRead'
        <3>1. Start' = Start /\ I!Input' = I!Input
            <4>1. I!Cut' = I!Cut
                BY <2>1, Zenon DEF I!Cut, I!Percents
            <4> QED
                BY <2>1, <4>1, Zenon DEF Start, I!Input
        <3>2. I!Newlined(I!Input)' = I!Newlined(I!Input)
            BY <3>1, Zenon DEF I!Newlined
        <3>3. Written(input_data - 1 - Start) => Written(input_data - 1 - Start)'
            BY <2>1, <3>1, <3>2, Zenon DEF Written
        <3> QED
            BY <2>1, <3>1, <3>3, Zenon DEF InputInv, FeedRead
    <2>4. I!CommandRight' /\ I!InputRight'
        BY <2>1, Zenon
           DEF InputInv, I!CommandRight, I!InputRight, I!Meant, I!Input, I!Cut, I!Percents
    <2> QED
        BY <2>2, <2>3, <2>4 DEF InputInv
<1> QED
    BY <1>1, <1>2, <1>3, <1>4, <1>5, Zenon DEF I!Next

-----------------------------------------------------------------------------
(* The three readers together.                                               *)

LineInv ==
    /\ reader = "get_list" => FieldInv
    /\ reader = "load_entry" => EntryInv
    /\ reader = "child_process" => InputInv

\* Whichever reader it is, its line is read from the beginning.
LEMMA LineInit == Init => LineInv
<1>1. CASE reader = "get_list" /\ F!Init
    BY <1>1, FieldInit DEF LineInv
<1>2. CASE reader = "load_entry" /\ E!Init
    BY <1>2, EntryInit DEF LineInv
<1>3. CASE reader = "child_process" /\ I!Init
    BY <1>3, InputInit DEF LineInv
<1> QED
    BY <1>1, <1>2, <1>3 DEF Init

\* A step is one of the reader looked at, or changes nothing of it.
LEMMA LineStep == LineInv /\ [Next]_vars => LineInv'
<1> SUFFICES ASSUME LineInv, [Next]_vars PROVE LineInv'
    OBVIOUS
<1>1. /\ reader' = reader
      /\ reader = "get_list" => [F!Next]_(F!vars)
      /\ reader = "load_entry" => [E!Next]_(E!vars)
      /\ reader = "child_process" => [I!Next]_(I!vars)
    BY DEF Next, vars, ofField, ofLine, ofCommand, F!vars, E!vars, I!vars
<1>2. CASE reader = "get_list"
    BY <1>1, <1>2, FieldStep DEF LineInv
<1>3. CASE reader = "load_entry"
    BY <1>1, <1>3, EntryStep DEF LineInv
<1>4. CASE reader = "child_process"
    BY <1>1, <1>4, InputStep DEF LineInv
<1> QED
    BY <1>1, <1>2, <1>3, <1>4 DEF LineInv

\* The inductive invariant of get_list(), load_entry() and child_process(): what
\* each has made of the part of the line it has read.
THEOREM LineInvariant == Spec => []LineInv
    BY LineInit, LineStep, PTL DEF Spec

\* get_list(), load_entry() and child_process() stay within the field's numbers,
\* the entry's bits and the command's buffer, whatever the line.
THEOREM LineTypeCorrect == Spec => []TypeOK
<1>1. LineInv => TypeOK
    BY DEF LineInv, TypeOK, FieldInv, EntryInv, InputInv, Buffer
<1> QED
    BY <1>1, LineInvariant, PTL

\* get_list() accepts every field the manual allows whose numbers an int can
\* hold, with any number of ranges, and sets exactly the bits its ranges name.
THEOREM FieldRightCorrect == Spec => []FieldRight
<1>1. LineInv => FieldRight
    BY DEF LineInv, FieldRight, FieldInv
<1> QED
    BY <1>1, LineInvariant, PTL

\* What load_entry() makes of a line it accepts is run by find_jobs() in no minute
\* but those the manual's line stands for, the rule for dom and dow included, and
\* in all of them unless a day field is an asterisk with a step.
THEOREM RunsWhenMeantCorrect == Spec => []RunsWhenMeant
<1>1. LineInv => RunsWhenMeant
    BY EntryRuns DEF LineInv, RunsWhenMeant
<1> QED
    BY <1>1, LineInvariant, PTL

\* child_process() leaves the shell the text up to the first percent sign that is
\* not escaped, and feeds the command what the text behind it stands for, for
\* texts of any length.
THEOREM CommandSplitCorrect == Spec => []CommandSplit
<1>1. LineInv => CommandSplit
    BY DEF LineInv, CommandSplit, InputInv
<1> QED
    BY <1>1, LineInvariant, PTL
=============================================================================
