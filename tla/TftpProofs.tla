---------------------------- MODULE TftpProofs ----------------------------
(***************************************************************************)
(* Theorems about a transfer of tftp, in octet and in netascii mode, for    *)
(* every file, block size, number of block numbers, number of tries and of  *)
(* server processes, and every network that loses, delays and reorders.     *)
(*                                                                          *)
(* The blocks are those of what travels, task.wire.  How far the file has   *)
(* been read or written is said by ReadTo and WroteTo: in netascii mode a   *)
(* character that takes two places may be cut in two by a block's end, and  *)
(* `newline' and `prevchar' carry it over.  Place says where on the wire a  *)
(* character of the file ends.                                              *)
(*                                                                          *)
(* The loops of read_ahead(), write_behind() and of the reference (Netascii)*)
(* are recursive functions.  What they compute is shown by induction, which *)
(* is stated for sets (Induction), since then it needs no operator.         *)
(***************************************************************************)
EXTENDS Tftp, SequenceTheorems, FiniteSetTheorems, WellFoundedInduction, TLAPS

Least(a, b) == IF a <= b THEN a ELSE b

\* The first n blocks of what travels, and where they end.
End(n) == Least(n * SEGSIZE, Len(task.wire))
Upto(n) == SubSeq(task.wire, 1, End(n))

\* The characters that take two places in netascii.
Double(c) == task.convert /\ c \in {cr, lf}

\* Where the first k characters of the file end on the wire.
Place(k) == k + Cardinality({i \in 1..k : Double(task.file[i])})

Bufs == [state : {"free", "alloc", "data", "error"}, data : Seq(Chars)]

Tasks == [file : Seq(Chars), mode : {"put", "get"}, convert : BOOLEAN, tries : 1..Tries,
          wire : Seq(Chars)]

Ios == [bfs : [{0, 1} -> Bufs], current : {0, 1}, nextone : {0, 1}, newline : BOOLEAN,
        prevchar : Chars \cup {"none"}, pos : Nat, out : Seq(Chars), failed : BOOLEAN]

TaskOK ==
    /\ task \in Tasks
    /\ task.wire = IF task.convert THEN Netascii(task.file) ELSE task.file

\* What is transferred, and the variables of tftpsubs.c.
DataOK == TaskOK /\ io \in Ios /\ io.pos <= Len(task.file)

\* The file was read up to place e of the wire; if that cuts a character in two,
\* the second half is still to be sent.
ReadTo(b, e) ==
    IF b.newline
    THEN /\ b.pos > 0 /\ Double(task.file[b.pos]) /\ b.prevchar = task.file[b.pos]
         /\ e = Place(b.pos) - 1
    ELSE e = Place(b.pos)

\* The first k characters were written, or also the cr that the next begins with.
Wrote(out, k, e) ==
    \/ e = Place(k) /\ out = SubSeq(task.file, 1, k)
    \/ /\ k < Len(task.file) /\ Double(task.file[k + 1])
       /\ e = Place(k) + 1 /\ out = Append(SubSeq(task.file, 1, k), cr)

\* What was received up to place e of the wire is written.
WroteTo(b, e) ==
    /\ task.convert => b.prevchar = IF e = 0 THEN "none" ELSE task.wire[e]
    /\ \E k \in 0..Len(task.file) : Wrote(b.out, k, e)

\* The client's other variables, and where packets go.
ControlOK ==
    /\ pc \in {"request", "fill", "wait", "ended"}
    /\ outcome \in {"none", "ok", "error", "timeout"}
    /\ outcome = "ok" => pc = "ended"
    /\ block \in 0..Word /\ timeout \in 0..(Tries - 1)
    /\ ~put => block > 0
    /\ pc = "request" => block = IF put THEN 0 ELSE 1
    /\ pc = "fill" => block > 0 /\ (~put => block < Word)
    /\ port \in Servers \cup {Well} /\ masked \in BOOLEAN
    /\ queue \in Seq(Packets) /\ \A i \in 1..Len(queue) : queue[i].from \in Servers
    /\ \A p \in net : p \in Packets /\ (p.to = Own => p.from \in Servers)
    /\ srv \in [Servers -> [state : {"off", "up", "down"}, blk : Nat, got : Seq(Chars)]]
    /\ \A s \in Servers : /\ srv[s].state = "off" => srv[s].blk = 0
                          /\ srv[s].state = "up" /\ ~put => srv[s].blk > 0

\* The block that is in the current buffer of sendfile(): the one under way, or
\* the one that was acknowledged last.
Held == IF pc = "fill" THEN block - 1 ELSE block

\* In netascii mode a failing getc() counts as the end of the file, and nothing is
\* known of what is sent from then on.
Cut(b) == task.convert /\ b.failed

\* sendfile(): the current buffer holds its block, the other one the next, or the
\* news that it could not be read; read_ahead() finds no free buffer before
\* readit() frees one.
Reading ==
    put /\ pc # "ended" /\ ~Cut(io) =>
        LET cur == io.current
            next == io.bfs[1 - cur]
        IN  /\ io.bfs[cur] = IF Held = 0 THEN BF_ALLOC ELSE Buf("data", Segment(Held))
            /\ pc = "request" => next = BF_FREE /\ io.nextone = 1 - cur /\ ReadTo(io, 0)
            /\ pc # "request" =>
                  /\ io.nextone = cur
                  /\ \/ next = Buf("data", Segment(Held + 1)) /\ ReadTo(io, End(Held + 1))
                     \/ next = Buf("error", <<>>) /\ io.failed

\* recvfile(): at most one block is received and not yet written.
Writing ==
    ~put /\ pc # "ended" =>
        /\ io.bfs[io.current] = BF_ALLOC
        /\ ~io.failed => WroteTo(io, End(block - 1))
        /\ IF pc = "fill"
           THEN io.nextone = 1 - io.current /\ io.bfs[io.nextone] = Buf("data", Segment(block))
           ELSE io.nextone = io.current /\ io.bfs[1 - io.current] = BF_FREE

\* A packet of a put: a block that was sent, or an acknowledgement of one that its
\* server has.
PutPacket(p) ==
    /\ p.op = "data" => p.blk \in 1..Held /\ p.data = Segment(p.blk)
    /\ p.op = "ack" => p.to = Own /\ p.from \in Servers /\ p.blk <= srv[p.from].blk

\* A put of which everything is known: the packet's number is the block's, and the
\* file was read as it is.
Known == put /\ block < Word /\ ~Cut(io)

\* No server is ahead of the client, and what a server has is what travels, up to
\* its block.
Putting ==
    pc # "ended" /\ Known =>
        /\ \A p \in net : PutPacket(p)
        /\ \A i \in 1..Len(queue) : PutPacket(queue[i])
        /\ \A s \in Servers : srv[s].blk <= Held /\ srv[s].got = Upto(srv[s].blk)

\* A packet of a get: a block that its server has come to, or an acknowledgement
\* of one that was received.
GetPacket(p) ==
    /\ p.op = "data" => /\ p.to = Own /\ p.from \in Servers
                        /\ \E a \in 1..srv[p.from].blk : p.blk = a % Word /\ p.data = Segment(a)
    /\ p.op = "ack" => p.blk \in 1..(block - 1)

\* No server is ahead of the client.
Getting ==
    ~put /\ pc # "ended" =>
        /\ \A p \in net : GetPacket(p)
        /\ \A i \in 1..Len(queue) : GetPacket(queue[i])
        /\ \A s \in Servers : srv[s].blk <= block

\* The inductive invariant.
TransferInv ==
    /\ DataOK /\ ControlOK
    /\ Reading /\ Writing /\ Putting /\ Getting
    /\ SentWhole /\ WrittenRight

-----------------------------------------------------------------------------
(* Induction, and where the characters of the file are on the wire.          *)

\* Induction over the natural numbers, for the set of those that have a property.
LEMMA Induction ==
    ASSUME NEW T, 0 \in T, \A n \in Nat : n \in T => n + 1 \in T
    PROVE  \A n \in Nat : n \in T
<1> DEFINE S == Nat \ T
<1> SUFFICES ASSUME S # {} PROVE FALSE
    OBVIOUS
<1>1. S \subseteq Nat
    OBVIOUS
<1> HIDE DEF S
<1>2. PICK x \in S : \A y \in S : ~(<<y, x>> \in OpToRel(<, Nat))
    BY <1>1, NatLessThanWellFounded, WFMin, Zenon
<1>3. x \in Nat /\ x \notin T /\ x # 0
    BY DEF S
<1>4. x - 1 \in Nat /\ x - 1 < x /\ (x - 1) + 1 = x
    BY <1>3
<1>5. x - 1 \in S
    BY <1>3, <1>4 DEF S
<1>6. <<x - 1, x>> \in {ss \in Nat \X Nat : ss[1] < ss[2]}
    BY <1>3, <1>4
<1> QED
    BY <1>2, <1>5, <1>6 DEF OpToRel

\* Each character takes one place more, or two.
LEMMA PlaceNext ==
    ASSUME NEW k \in Nat
    PROVE  /\ Place(0) = 0 /\ Place(k) \in Nat
           /\ Place(k + 1) = Place(k) + (IF Double(task.file[k + 1]) THEN 2 ELSE 1)
<1> DEFINE D(n) == {i \in 1..n : Double(task.file[i])}
<1>1. \A n \in Nat : IsFiniteSet(D(n)) /\ Cardinality(D(n)) \in Nat
    <2> SUFFICES ASSUME NEW n \in Nat PROVE IsFiniteSet(D(n)) /\ Cardinality(D(n)) \in Nat
        OBVIOUS
    <2>1. IsFiniteSet(1..n) /\ D(n) \subseteq 1..n
        BY FS_Interval
    <2> QED
        BY <2>1, FS_Subset, FS_CardinalityType
<1>8. Cardinality(D(k)) \in Nat
    BY <1>1
<1>2. D(0) = {}
    OBVIOUS
<1>3. k + 1 \in Nat /\ k + 1 \notin D(k)
    OBVIOUS
<1>4. D(k + 1) = D(k) \cup (IF Double(task.file[k + 1]) THEN {k + 1} ELSE {})
    OBVIOUS
<1>5. Cardinality(D(k + 1)) = Cardinality(D(k)) + (IF Double(task.file[k + 1]) THEN 1 ELSE 0)
    <2>1. CASE Double(task.file[k + 1])
        <3>1. D(k + 1) = D(k) \cup {k + 1}
            BY <1>4, <2>1
        <3>2. Cardinality(D(k) \cup {k + 1}) = Cardinality(D(k)) + 1
            BY <1>1, <1>3, FS_AddElement
        <3> QED
            BY <2>1, <3>1, <3>2
    <2>2. CASE ~Double(task.file[k + 1])
        <3>1. D(k + 1) = D(k)
            BY <1>4, <2>2
        <3> QED
            BY <1>8, <2>2, <3>1
    <2> QED
        BY <2>1, <2>2
<1>6. Cardinality(D(0)) = 0
    BY <1>2, FS_EmptySet
<1>7. \A n : Place(n) = n + Cardinality(D(n))
    BY DEF Place
<1> HIDE DEF D
<1>9. Place(k + 1) = (k + 1) + (Cardinality(D(k)) + (IF Double(task.file[k + 1]) THEN 1 ELSE 0))
    BY <1>5, <1>7
<1> QED
    BY <1>6, <1>7, <1>8, <1>9

\* A later character is on a later place.
LEMMA PlaceGrows ==
    ASSUME NEW j \in Nat
    PROVE  \A k \in Nat : j <= k => Place(j) + (k - j) <= Place(k)
<1> DEFINE T == {d \in Nat : Place(j) + d <= Place(j + d)}
<1>1. 0 \in T
    BY PlaceNext
<1>2. ASSUME NEW d \in Nat, d \in T PROVE d + 1 \in T
    <2>1. Place(j) \in Nat /\ Place(j + d) \in Nat /\ Place(j) + d <= Place(j + d)
        BY <1>2, PlaceNext
    <2>2. Place((j + d) + 1) >= Place(j + d) + 1 /\ Place((j + d) + 1) \in Nat
        <3>1. j + d \in Nat
            BY <1>2
        <3>2. Place((j + d) + 1) = Place(j + d) + (IF Double(task.file[(j + d) + 1]) THEN 2 ELSE 1)
            BY <3>1, PlaceNext
        <3> QED
            BY <2>1, <3>2
    <2>3. j + (d + 1) = (j + d) + 1
        BY <1>2
    <2> QED
        BY <1>2, <2>1, <2>2, <2>3
<1> HIDE DEF T
<1>3. \A d \in Nat : d \in T
    BY <1>1, <1>2, Induction
<1>4. ASSUME NEW k \in Nat, j <= k PROVE Place(j) + (k - j) <= Place(k)
    <2>1. k - j \in Nat /\ j + (k - j) = k
        BY <1>4
    <2> QED
        BY <1>3, <2>1 DEF T
<1> QED
    BY <1>4

\* What a character becomes.
Expanded(c) == CASE c = lf -> <<cr, lf>> [] c = cr -> <<cr, nul>> [] OTHER -> <<c>>

\* A character that takes two places begins with cr; any other stays as it is.
LEMMA ExpandedIs ==
    ASSUME NEW c \in Chars, task.convert
    PROVE  /\ Expanded(c) \in Seq(Chars)
           /\ Double(c) => /\ Len(Expanded(c)) = 2 /\ Expanded(c)[1] = cr
                           /\ Expanded(c)[2] = IF c = lf THEN lf ELSE nul
           /\ ~Double(c) => Len(Expanded(c)) = 1 /\ Expanded(c)[1] = c
<1>0. cr \in Chars /\ lf \in Chars /\ nul \in Chars /\ cr # lf
    BY DEF Chars, cr, lf, nul
<1>1. CASE c = lf
    BY <1>0, <1>1 DEF Expanded, Double
<1>2. CASE c = cr
    <2>1. Expanded(c) = <<cr, nul>>
        BY <1>0, <1>2 DEF Expanded
    <2> QED
        BY <1>0, <1>2, <2>1 DEF Double
<1>3. CASE c # lf /\ c # cr
    <2>1. Expanded(c) = <<c>>
        BY <1>3 DEF Expanded
    <2> QED
        BY <1>3, <2>1 DEF Double
<1> QED
    BY <1>1, <1>2, <1>3

\* The function that FlattenSeq() is defined by exists.
LEMMA FlattenExists ==
    ASSUME NEW xs
    PROVE  \A n \in Nat : \E g : g = [i \in 1..n |-> IF i = 1 THEN xs[i] ELSE g[i - 1] \o xs[i]]
<1> DEFINE Is(g, n) == g = [i \in 1..n |-> IF i = 1 THEN xs[i] ELSE g[i - 1] \o xs[i]]
           T == {n \in Nat : \E g : Is(g, n)}
<1>1. 0 \in T
    <2>1. Is([i \in 1..0 |-> xs], 0)
        OBVIOUS
    <2> QED
        BY <2>1
<1>2. ASSUME NEW n \in Nat, n \in T PROVE n + 1 \in T
    <2>1. PICK g : Is(g, n)
        BY <1>2
    <2> DEFINE new == IF n = 0 THEN xs[1] ELSE g[n] \o xs[n + 1]
               h == [i \in 1..(n + 1) |-> IF i = n + 1 THEN new ELSE g[i]]
    <2>2. ASSUME NEW i \in 1..(n + 1) PROVE h[i] = IF i = 1 THEN xs[i] ELSE h[i - 1] \o xs[i]
        <3>1. CASE i = n + 1
            <4>1. h[i] = new
                BY <3>1
            <4>2. CASE n = 0
                BY <3>1, <4>1, <4>2
            <4>3. CASE n # 0
                <5>1. i - 1 \in 1..(n + 1) /\ i - 1 # n + 1 /\ i - 1 = n /\ i # 1
                    BY <3>1, <4>3
                <5>2. h[i - 1] = g[n]
                    BY <5>1
                <5> HIDE DEF h
                <5> QED
                    BY <3>1, <4>1, <4>3, <5>1, <5>2
            <4> QED
                BY <4>2, <4>3
        <3>2. CASE i # n + 1
            <4>1. i \in 1..n /\ (i # 1 => i - 1 \in 1..n /\ i - 1 # n + 1)
                BY <3>2
            <4>2. h[i] = g[i] /\ (i # 1 => h[i - 1] = g[i - 1])
                BY <3>2, <4>1
            <4>3. g[i] = IF i = 1 THEN xs[i] ELSE g[i - 1] \o xs[i]
                BY <2>1, <4>1
            <4> HIDE DEF h
            <4> QED
                BY <4>2, <4>3
        <3> QED
            BY <3>1, <3>2
    <2>3. Is(h, n + 1)
        BY <2>2
    <2> HIDE DEF h, Is
    <2> QED
        BY <2>3
<1> HIDE DEF T
<1>3. \A n \in Nat : n \in T
    BY <1>1, <1>2, Induction
<1> QED
    BY <1>3 DEF T

\* The first n characters of the file are in w, each on its place.
OnWire(w, n) ==
    \A k \in 0..(n - 1) :
        IF Double(task.file[k + 1])
        THEN /\ w[Place(k) + 1] = cr
             /\ w[Place(k) + 2] = IF task.file[k + 1] = lf THEN lf ELSE nul
        ELSE w[Place(k) + 1] = task.file[k + 1]

\* One character more.
LEMMA OneMore ==
    ASSUME task.file \in Seq(Chars), task.convert, NEW n \in Nat, n < Len(task.file),
           NEW w \in Seq(Chars), Len(w) = Place(n), OnWire(w, n),
           NEW v, v = w \o Expanded(task.file[n + 1])
    PROVE  v \in Seq(Chars) /\ Len(v) = Place(n + 1) /\ OnWire(v, n + 1)
<1>0. PICK c, x : c = task.file[n + 1] /\ x = Expanded(c)
    OBVIOUS
<1>1. c \in Chars /\ n + 1 \in 1..Len(task.file)
    <2>1. n + 1 \in 1..Len(task.file)
        BY LenProperties
    <2> QED
        BY <1>0, <2>1
<1>2. /\ x \in Seq(Chars)
      /\ Double(c) => /\ Len(x) = 2 /\ x[1] = cr /\ x[2] = IF c = lf THEN lf ELSE nul
      /\ ~Double(c) => Len(x) = 1 /\ x[1] = c
    BY <1>0, <1>1, ExpandedIs
<1>l. Len(x) = IF Double(c) THEN 2 ELSE 1
    BY <1>2, Zenon
<1>3. Place(n) \in Nat /\ Place(n + 1) = Place(n) + (IF Double(c) THEN 2 ELSE 1)
    BY <1>0, PlaceNext
<1>4. v = w \o x
    BY <1>0
<1>5. /\ v \in Seq(Chars) /\ Len(v) = Len(w) + Len(x)
      /\ \A i \in 1..Len(w) : v[i] = w[i]
      /\ \A i \in 1..Len(x) : v[Len(w) + i] = x[i]
    <2>1. x \in Seq(Chars)
        BY <1>2, Zenon
    <2>2. /\ v \in Seq(Chars) /\ Len(v) = Len(w) + Len(x)
          /\ \A i \in 1..(Len(w) + Len(x)) : v[i] = IF i <= Len(w) THEN w[i] ELSE x[i - Len(w)]
        BY <1>4, <2>1, ConcatProperties
    <2>3. Len(w) \in Nat /\ Len(x) \in Nat
        BY <2>1, LenProperties
    <2>4. ASSUME NEW i \in 1..Len(w) PROVE v[i] = w[i]
        <3>1. i \in 1..(Len(w) + Len(x)) /\ i <= Len(w)
            BY <2>3
        <3> QED
            BY <2>2, <3>1, Zenon
    <2>5. ASSUME NEW i \in 1..Len(x) PROVE v[Len(w) + i] = x[i]
        <3>1. /\ Len(w) + i \in 1..(Len(w) + Len(x)) /\ ~(Len(w) + i <= Len(w))
              /\ (Len(w) + i) - Len(w) = i
            BY <2>3
        <3> QED
            BY <2>2, <3>1, Zenon
    <2> QED
        BY <2>2, <2>4, <2>5
<1>6. Len(v) = Place(n + 1)
    BY <1>2, <1>3, <1>5
<1>7. ASSUME NEW k \in 0..n
      PROVE  IF Double(task.file[k + 1])
             THEN /\ v[Place(k) + 1] = cr
                  /\ v[Place(k) + 2] = IF task.file[k + 1] = lf THEN lf ELSE nul
             ELSE v[Place(k) + 1] = task.file[k + 1]
    <2>1. CASE k = n
        <3>1. CASE Double(c)
            <4>1. 1 \in 1..Len(x) /\ 2 \in 1..Len(x)
                BY <1>l, <3>1
            <4> QED
                BY <1>0, <1>2, <1>5, <2>1, <3>1, <4>1
        <3>2. CASE ~Double(c)
            <4>1. 1 \in 1..Len(x)
                BY <1>l, <3>2
            <4> QED
                BY <1>0, <1>2, <1>5, <2>1, <3>2, <4>1
        <3> QED
            BY <3>1, <3>2
    <2>2. CASE k # n
        <3>1. k \in 0..(n - 1) /\ k \in Nat /\ k + 1 \in Nat /\ k + 1 <= n
            BY <2>2
        <3>2. /\ Place(k) \in Nat
              /\ Place(k + 1) = Place(k) + (IF Double(task.file[k + 1]) THEN 2 ELSE 1)
            BY <3>1, PlaceNext
        <3>3. Place(k + 1) + (n - (k + 1)) <= Place(n)
            BY <3>1, PlaceGrows
        <3>4. /\ Place(k) + 1 \in 1..Len(w)
              /\ Double(task.file[k + 1]) => Place(k) + 2 \in 1..Len(w)
            BY <1>3, <3>1, <3>2, <3>3
        <3>5. /\ v[Place(k) + 1] = w[Place(k) + 1]
              /\ Double(task.file[k + 1]) => v[Place(k) + 2] = w[Place(k) + 2]
            BY <1>5, <3>4
        <3> QED
            BY <3>1, <3>5 DEF OnWire
    <2> QED
        BY <2>1, <2>2
<1>8. n = (n + 1) - 1
    OBVIOUS
<1> QED
    BY <1>5, <1>6, <1>7, <1>8 DEF OnWire

\* What Netascii() makes of the file.
LEMMA Flattened ==
    ASSUME task.file \in Seq(Chars), task.convert, NEW w, w = Netascii(task.file)
    PROVE  w \in Seq(Chars) /\ Len(w) = Place(Len(task.file)) /\ OnWire(w, Len(task.file))
<1> DEFINE l == Len(task.file)
           xs == [i \in 1..l |-> Expanded(task.file[i])]
<1>1. l \in Nat /\ Place(0) = 0
    BY LenProperties, PlaceNext
<1>2. w = FlattenSeq(xs)
    BY DEF Netascii, Expanded
<1>3. Len(xs) = l
    BY <1>1
<1>4. CASE l = 0
    <2>1. w = xs /\ xs = <<>>
        BY <1>2, <1>3, <1>4 DEF FlattenSeq
    <2> HIDE DEF xs
    <2>2. w \in Seq(Chars) /\ Len(w) = 0
        BY <2>1
    <2> QED
        BY <1>1, <1>4, <2>2 DEF OnWire
<1>5. CASE l # 0
    <2> DEFINE Is(g) == g = [i \in 1..l |-> IF i = 1 THEN xs[i] ELSE g[i - 1] \o xs[i]]
               h == CHOOSE g : Is(g)
    <2>1. \E g : Is(g)
        BY <1>1, FlattenExists
    <2>2. Is(h)
        BY <2>1
    <2>3. w = h[l]
        BY <1>2, <1>3, <1>5 DEF FlattenSeq
    <2>4. \A i \in 1..l : xs[i] = Expanded(task.file[i])
        OBVIOUS
    <2> HIDE DEF h, xs
    <2>5. \A i \in 1..l : h[i] = IF i = 1 THEN xs[i] ELSE h[i - 1] \o xs[i]
        BY <2>2
    <2> HIDE DEF Is
    <2> DEFINE OK(v, n) == v \in Seq(Chars) /\ Len(v) = Place(n) /\ OnWire(v, n)
               T == {n \in Nat : n < l => OK(h[n + 1], n + 1)}
    <2>6. ASSUME NEW n \in Nat, n < l, NEW u, OK(u, n), NEW v, v = u \o xs[n + 1]
          PROVE  OK(v, n + 1)
        <3>0. n + 1 \in 1..l
            BY <1>1, <2>6
        <3>1. v = u \o Expanded(task.file[n + 1])
            BY <2>4, <2>6, <3>0
        <3> QED
            BY <2>6, <3>1, OneMore
    <2>7. 0 \in T
        <3>1. OK(<<>>, 0)
            BY <1>1 DEF OnWire
        <3>2. 1 \in 1..l /\ 0 < l /\ 0 \in Nat
            BY <1>1, <1>5
        <3>3. h[1] = xs[1] /\ xs[1] = Expanded(task.file[1])
            BY <2>4, <2>5, <3>2
        <3>4. task.file[1] \in Chars
            BY <3>2
        <3>5. xs[1] \in Seq(Chars)
            BY <3>3, <3>4, ExpandedIs
        <3>6. xs[1] = <<>> \o xs[0 + 1]
            BY <3>5
        <3>7. OK(xs[1], 0 + 1)
            <4> HIDE DEF OK
            <4> QED
                BY <2>6, <3>1, <3>2, <3>6
        <3> HIDE DEF OK
        <3> QED
            BY <3>2, <3>3, <3>7
    <2>8. ASSUME NEW n \in Nat, n \in T PROVE n + 1 \in T
        <3> SUFFICES ASSUME n + 1 < l PROVE OK(h[(n + 1) + 1], (n + 1) + 1)
            BY <2>8
        <3>1. OK(h[n + 1], n + 1)
            BY <1>1, <2>8
        <3> HIDE DEF OK, T
        <3>2. /\ (n + 1) + 1 \in 1..l /\ (n + 1) + 1 # 1 /\ ((n + 1) + 1) - 1 = n + 1
              /\ n + 1 \in Nat
            BY <1>1, <2>8
        <3>3. h[(n + 1) + 1] = h[n + 1] \o xs[(n + 1) + 1]
            BY <2>5, <3>2
        <3> QED
            BY <2>6, <3>1, <3>2, <3>3
    <2> HIDE DEF T, OK
    <2>9. \A n \in Nat : n \in T
        BY <2>7, <2>8, Induction
    <2>10. l - 1 \in Nat /\ l - 1 < l /\ (l - 1) + 1 = l
        BY <1>1, <1>5
    <2>11. OK(h[(l - 1) + 1], (l - 1) + 1)
        <3>1. l - 1 \in T
            BY <2>9, <2>10
        <3> QED
            BY <2>10, <3>1 DEF T
    <2>12. OK(w, l)
        BY <2>3, <2>10, <2>11
    <2> QED
        BY <2>12 DEF OK
<1> QED
    BY <1>4, <1>5

\* The wire of a transfer, in either mode.
LEMMA Wire ==
    ASSUME TaskOK
    PROVE  /\ Len(task.file) \in Nat /\ task.wire \in Seq(Chars)
           /\ Len(task.wire) = Place(Len(task.file)) /\ OnWire(task.wire, Len(task.file))
           /\ ~task.convert => \A k \in Nat : Place(k) = k
<1>0. task.file \in Seq(Chars) /\ task.wire \in Seq(Chars) /\ Len(task.file) \in Nat
    BY LenProperties DEF TaskOK, Tasks
<1>1. CASE task.convert
    BY <1>0, <1>1, Flattened DEF TaskOK
<1>2. CASE ~task.convert
    <2>1. task.wire = task.file
        BY <1>2 DEF TaskOK
    <2>2. \A c : ~Double(c)
        BY <1>2 DEF Double
    <2>3. \A k \in Nat : Place(k) = k
        <3> SUFFICES ASSUME NEW k \in Nat PROVE Place(k) = k
            OBVIOUS
        <3>1. {i \in 1..k : Double(task.file[i])} = {}
            BY <2>2
        <3> QED
            BY <3>1, FS_EmptySet DEF Place
    <2>4. OnWire(task.wire, Len(task.file))
        BY <1>0, <2>1, <2>2, <2>3 DEF OnWire
    <2> QED
        BY <1>0, <2>1, <2>3, <2>4
<1> QED
    BY <1>1, <1>2

-----------------------------------------------------------------------------
(* read_ahead()'s loop in netascii mode.                                     *)

\* The variables of the loop.
Turns == [newline : BOOLEAN, prevchar : Chars \cup {"none"}, pos : Nat, data : Seq(Chars),
          limit : Nat]

TurnOK(s) == s \in Turns /\ s.pos <= s.limit /\ s.limit <= Len(task.file)

\* The loop goes on within the file.
LEMMA TurnType ==
    ASSUME TaskOK, NEW s, TurnOK(s), NEW t, t = NetasciiChar(s)
    PROVE  TurnOK(t) /\ t.limit = s.limit
<1>0. /\ s \in Turns /\ s.pos \in Nat /\ s.limit \in Nat /\ s.data \in Seq(Chars)
      /\ s.pos <= s.limit /\ s.limit <= Len(task.file)
    BY DEF TurnOK, Turns
<1>c. cr \in Chars /\ lf \in Chars /\ nul \in Chars
    BY DEF Chars, cr, lf, nul
<1>d. \A c \in Chars : Append(s.data, c) \in Seq(Chars)
    BY <1>0, AppendProperties
<1>1. CASE s.newline
    <2>1. PICK c : c = IF s.prevchar = lf THEN lf ELSE nul
        OBVIOUS
    <2>2. t = [s EXCEPT !.newline = FALSE, !.data = Append(@, c)]
        BY <1>1, <2>1 DEF NetasciiChar
    <2>3. Append(s.data, c) \in Seq(Chars)
        BY <1>c, <1>d, <2>1
    <2> QED
        BY <1>0, <2>2, <2>3 DEF TurnOK, Turns
<1>2. CASE ~s.newline /\ s.pos = s.limit
    BY <1>2 DEF NetasciiChar, TurnOK
<1>3. CASE ~s.newline /\ s.pos # s.limit
    <2>1. PICK c : c = task.file[s.pos + 1]
        OBVIOUS
    <2>2. s.pos + 1 \in 1..Len(task.file) /\ s.pos + 1 <= s.limit /\ s.pos + 1 \in Nat
        BY <1>0, <1>3, Wire
    <2>3. c \in Chars
        BY <2>1, <2>2 DEF TaskOK, Tasks
    <2>4. CASE c \in {cr, lf}
        <3>1. t = [s EXCEPT !.pos = @ + 1, !.prevchar = c, !.newline = TRUE, !.data = Append(@, cr)]
            BY <1>3, <2>1, <2>4 DEF NetasciiChar
        <3>2. Append(s.data, cr) \in Seq(Chars)
            BY <1>c, <1>d
        <3> QED
            BY <1>0, <2>2, <2>3, <3>1, <3>2 DEF TurnOK, Turns
    <2>5. CASE c \notin {cr, lf}
        <3>1. t = [s EXCEPT !.pos = @ + 1, !.data = Append(@, c)]
            BY <1>3, <2>1, <2>5 DEF NetasciiChar
        <3>2. Append(s.data, c) \in Seq(Chars)
            BY <1>d, <2>3
        <3> QED
            BY <1>0, <2>2, <2>3, <3>1, <3>2 DEF TurnOK, Turns
    <2> QED
        BY <2>4, <2>5
<1> QED
    BY <1>1, <1>2, <1>3

\* A turn reads what is on the next place of the wire, if there is one.
LEMMA TurnReads ==
    ASSUME TaskOK, task.convert, NEW s, TurnOK(s), s.limit = Len(task.file),
           NEW e, ReadTo(s, e), NEW t, t = NetasciiChar(s)
    PROVE  /\ e \in 0..Len(task.wire)
           /\ IF e < Len(task.wire)
              THEN ReadTo(t, e + 1) /\ t.data = Append(s.data, task.wire[e + 1])
              ELSE t = s
<1>0. /\ s \in Turns /\ s.pos \in Nat /\ s.pos <= Len(task.file)
    BY DEF TurnOK, Turns
<1>w. /\ Len(task.file) \in Nat
      /\ Len(task.wire) = Place(Len(task.file)) /\ OnWire(task.wire, Len(task.file))
    BY Wire
<1>g. \A k \in 0..Len(task.file) : Place(k) \in Nat /\ Place(k) <= Len(task.wire)
    <2> SUFFICES ASSUME NEW k \in 0..Len(task.file)
                 PROVE  Place(k) \in Nat /\ Place(k) <= Len(task.wire)
        OBVIOUS
    <2>1. k \in Nat /\ k <= Len(task.file)
        BY <1>w
    <2>2. Place(k) \in Nat /\ Place(Len(task.file)) \in Nat
        BY <1>w, <2>1, PlaceNext
    <2>3. Place(k) + (Len(task.file) - k) <= Place(Len(task.file))
        BY <1>w, <2>1, PlaceGrows
    <2> QED
        BY <1>w, <2>1, <2>2, <2>3
<1>1. CASE s.newline
    <2>1. /\ s.pos > 0 /\ Double(task.file[s.pos]) /\ s.prevchar = task.file[s.pos]
          /\ e = Place(s.pos) - 1
        BY <1>1 DEF ReadTo
    <2>2. /\ s.pos - 1 \in Nat /\ s.pos - 1 \in 0..(Len(task.file) - 1) /\ (s.pos - 1) + 1 = s.pos
          /\ s.pos \in 0..Len(task.file)
        BY <1>0, <1>w, <2>1
    <2>3. /\ Place(s.pos - 1) \in Nat
          /\ Place((s.pos - 1) + 1)
                = Place(s.pos - 1) + (IF Double(task.file[(s.pos - 1) + 1]) THEN 2 ELSE 1)
        BY <2>2, PlaceNext
    <2>4. Place(s.pos) = Place(s.pos - 1) + 2
        BY <2>1, <2>2, <2>3
    <2>5. Place(s.pos) \in Nat /\ Place(s.pos) <= Len(task.wire)
        BY <1>g, <2>2
    <2>6. e \in 0..Len(task.wire) /\ e < Len(task.wire) /\ e + 1 = Place(s.pos - 1) + 2
        BY <1>w, <2>1, <2>3, <2>4, <2>5
    <2>7. task.wire[Place(s.pos - 1) + 2] = IF task.file[(s.pos - 1) + 1] = lf THEN lf ELSE nul
        BY <1>w, <2>1, <2>2 DEF OnWire
    <2>8. task.wire[e + 1] = IF s.prevchar = lf THEN lf ELSE nul
        BY <2>1, <2>2, <2>6, <2>7
    <2>9. PICK c : c = IF s.prevchar = lf THEN lf ELSE nul
        OBVIOUS
    <2>10. t = [s EXCEPT !.newline = FALSE, !.data = Append(@, c)]
        BY <1>1, <2>9 DEF NetasciiChar
    <2>11. t.newline = FALSE /\ t.pos = s.pos /\ t.data = Append(s.data, c)
        BY <1>0, <2>10 DEF Turns
    <2>12. e + 1 = Place(t.pos)
        BY <2>4, <2>6, <2>11
    <2> QED
        BY <2>6, <2>8, <2>9, <2>11, <2>12 DEF ReadTo
<1>2. CASE ~s.newline /\ s.pos = s.limit
    <2>1. t = s
        BY <1>2 DEF NetasciiChar
    <2>2. e = Place(s.pos)
        BY <1>2 DEF ReadTo
    <2>3. e = Len(task.wire) /\ e \in Nat
        BY <1>2, <1>g, <1>w, <2>2
    <2> QED
        BY <2>1, <2>3
<1>3. CASE ~s.newline /\ s.pos # s.limit
    <2>1. PICK c : c = task.file[s.pos + 1]
        OBVIOUS
    <2>2. /\ s.pos + 1 \in 1..Len(task.file) /\ s.pos + 1 \in 0..Len(task.file)
          /\ s.pos \in 0..(Len(task.file) - 1)
        BY <1>0, <1>3, <1>w
    <2>3. e = Place(s.pos)
        BY <1>3 DEF ReadTo
    <2>4. e \in Nat /\ Place(s.pos + 1) = e + (IF Double(c) THEN 2 ELSE 1)
        BY <1>0, <2>1, <2>3, PlaceNext
    <2>5. Place(s.pos + 1) \in Nat /\ Place(s.pos + 1) <= Len(task.wire)
        BY <1>g, <2>2
    <2>6. e \in 0..Len(task.wire) /\ e < Len(task.wire)
        BY <2>4, <2>5
    <2>7. Double(c) <=> c \in {cr, lf}
        BY DEF Double
    <2>8. CASE c \in {cr, lf}
        <3>1. t = [s EXCEPT !.pos = @ + 1, !.prevchar = c, !.newline = TRUE, !.data = Append(@, cr)]
            BY <1>3, <2>1, <2>8 DEF NetasciiChar
        <3>2. /\ t.pos = s.pos + 1 /\ t.prevchar = c /\ t.newline = TRUE
              /\ t.data = Append(s.data, cr)
            BY <1>0, <3>1 DEF Turns
        <3>3. task.wire[e + 1] = cr
            BY <1>w, <2>1, <2>2, <2>3, <2>7, <2>8 DEF OnWire
        <3>4. e + 1 = Place(t.pos) - 1
            BY <2>4, <2>7, <2>8, <3>2
        <3>5. t.pos > 0 /\ Double(task.file[t.pos]) /\ t.prevchar = task.file[t.pos]
            BY <1>0, <2>1, <2>7, <2>8, <3>2
        <3>6. ReadTo(t, e + 1)
            BY <3>2, <3>4, <3>5 DEF ReadTo
        <3> QED
            BY <2>6, <3>2, <3>3, <3>6
    <2>9. CASE c \notin {cr, lf}
        <3>1. t = [s EXCEPT !.pos = @ + 1, !.data = Append(@, c)]
            BY <1>3, <2>1, <2>9 DEF NetasciiChar
        <3>2. t.pos = s.pos + 1 /\ t.newline = s.newline /\ t.data = Append(s.data, c)
            BY <1>0, <3>1 DEF Turns
        <3>3. task.wire[e + 1] = c
            BY <1>w, <2>1, <2>2, <2>3, <2>7, <2>9 DEF OnWire
        <3>4. e + 1 = Place(t.pos)
            BY <2>4, <2>7, <2>9, <3>2
        <3>5. ReadTo(t, e + 1)
            BY <1>3, <3>2, <3>4 DEF ReadTo
        <3> QED
            BY <2>6, <3>2, <3>3, <3>5
    <2> QED
        BY <2>8, <2>9
<1> QED
    BY <1>1, <1>2, <1>3

\* The function that the loop is defined by exists.
LEMMA ReadExists ==
    ASSUME NEW s
    PROVE  \A n \in Nat : \E g : g = [i \in 0..n |-> IF i = 0 THEN s ELSE NetasciiChar(g[i - 1])]
<1> DEFINE Is(g, n) == g = [i \in 0..n |-> IF i = 0 THEN s ELSE NetasciiChar(g[i - 1])]
           T == {n \in Nat : \E g : Is(g, n)}
<1>1. 0 \in T
    <2>1. Is([i \in 0..0 |-> s], 0)
        OBVIOUS
    <2> QED
        BY <2>1
<1>2. ASSUME NEW n \in Nat, n \in T PROVE n + 1 \in T
    <2>1. PICK g : Is(g, n)
        BY <1>2
    <2> DEFINE h == [i \in 0..(n + 1) |-> IF i = n + 1 THEN NetasciiChar(g[n]) ELSE g[i]]
    <2>2. ASSUME NEW i \in 0..(n + 1) PROVE h[i] = IF i = 0 THEN s ELSE NetasciiChar(h[i - 1])
        <3>1. CASE i = n + 1
            <4>1. i - 1 \in 0..(n + 1) /\ i - 1 # n + 1 /\ i - 1 = n /\ i # 0
                BY <3>1
            <4>2. h[i - 1] = g[n] /\ h[i] = NetasciiChar(g[n])
                BY <3>1, <4>1
            <4> HIDE DEF h
            <4> QED
                BY <4>1, <4>2
        <3>2. CASE i # n + 1
            <4>1. i \in 0..n /\ (i # 0 => i - 1 \in 0..n /\ i - 1 # n + 1)
                BY <3>2
            <4>2. h[i] = g[i] /\ (i # 0 => h[i - 1] = g[i - 1])
                BY <3>2, <4>1
            <4>3. g[i] = IF i = 0 THEN s ELSE NetasciiChar(g[i - 1])
                BY <2>1, <4>1
            <4> HIDE DEF h
            <4> QED
                BY <4>2, <4>3
        <3> QED
            BY <3>1, <3>2
    <2>3. Is(h, n + 1)
        BY <2>2
    <2> HIDE DEF h, Is
    <2> QED
        BY <2>3
<1> HIDE DEF T
<1>3. \A n \in Nat : n \in T
    BY <1>1, <1>2, Induction
<1> QED
    BY <1>3 DEF T

\* One element more of a subsequence.
LEMMA SubSeqMore ==
    ASSUME NEW w \in Seq(Chars), NEW i \in Nat, NEW j \in Nat, i <= j, j < Len(w)
    PROVE  Append(SubSeq(w, i + 1, j), w[j + 1]) = SubSeq(w, i + 1, j + 1)
<1>0. Len(w) \in Nat
    BY LenProperties
<1>1. \A k \in (i + 1)..j : w[k] \in Chars
    BY <1>0
<1>2. \A k \in (i + 1)..(j + 1) : w[k] \in Chars
    BY <1>0
<1>3. /\ SubSeq(w, i + 1, j) \in Seq(Chars) /\ Len(SubSeq(w, i + 1, j)) = j - i
      /\ \A k \in 1..(j - i) : SubSeq(w, i + 1, j)[k] = w[i + k]
    BY <1>0, <1>1, SubSeqProperties
<1>4. /\ SubSeq(w, i + 1, j + 1) \in Seq(Chars) /\ Len(SubSeq(w, i + 1, j + 1)) = (j + 1) - i
      /\ \A k \in 1..((j + 1) - i) : SubSeq(w, i + 1, j + 1)[k] = w[i + k]
    BY <1>0, <1>2, SubSeqProperties
<1>5. PICK u, v, c : u = SubSeq(w, i + 1, j) /\ v = SubSeq(w, i + 1, j + 1) /\ c = w[j + 1]
    OBVIOUS
<1>6. c \in Chars
    BY <1>0, <1>5
<1>7. /\ Append(u, c) \in Seq(Chars) /\ Len(Append(u, c)) = Len(u) + 1
      /\ Append(u, c)[Len(u) + 1] = c
      /\ \A k \in 1..Len(u) : Append(u, c)[k] = u[k]
    BY <1>3, <1>5, <1>6, AppendProperties
<1>8. Len(Append(u, c)) = Len(v) /\ Len(u) = j - i
    BY <1>3, <1>4, <1>5, <1>7
<1>9. ASSUME NEW k \in 1..Len(v) PROVE Append(u, c)[k] = v[k]
    <2>1. Len(v) = (j + 1) - i
        BY <1>4, <1>5
    <2>2. CASE k = (j + 1) - i
        <3>1. i + k = j + 1 /\ k = Len(u) + 1 /\ k \in 1..((j + 1) - i)
            BY <1>8, <2>1, <2>2
        <3>2. v[k] = w[j + 1]
            BY <1>4, <1>5, <3>1
        <3> QED
            BY <1>5, <1>7, <3>1, <3>2
    <2>3. CASE k # (j + 1) - i
        <3>1. k \in 1..(j - i) /\ k \in 1..((j + 1) - i) /\ k \in 1..Len(u)
            BY <1>8, <2>1, <2>3
        <3>2. v[k] = w[i + k] /\ u[k] = w[i + k]
            BY <1>3, <1>4, <1>5, <3>1
        <3> QED
            BY <1>7, <3>1, <3>2
    <2> QED
        BY <2>2, <2>3
<1>10. Append(u, c) = v
    BY <1>4, <1>5, <1>7, <1>8, <1>9, SeqEqual
<1> QED
    BY <1>5, <1>10

\* What the loop is defined by.
LEMMA ReadIs ==
    ASSUME NEW s
    PROVE  \E h : /\ h[0] = s /\ NetasciiRead(s) = h[SEGSIZE]
                  /\ \A i \in Nat : i < SEGSIZE => h[i + 1] = NetasciiChar(h[i])
<1> DEFINE Is(g) == g = [i \in 0..SEGSIZE |-> IF i = 0 THEN s ELSE NetasciiChar(g[i - 1])]
           h == CHOOSE g : Is(g)
<1>1. SEGSIZE \in Nat
    BY TftpConstants
<1>2. \E g : Is(g)
    BY <1>1, ReadExists
<1>3. Is(h)
    BY <1>2
<1>4. NetasciiRead(s) = h[SEGSIZE]
    BY DEF NetasciiRead
<1> HIDE DEF h
<1>5. \A i \in 0..SEGSIZE : h[i] = IF i = 0 THEN s ELSE NetasciiChar(h[i - 1])
    BY <1>3
<1>6. ASSUME NEW i \in Nat, i < SEGSIZE PROVE h[i + 1] = NetasciiChar(h[i])
    <2>1. i + 1 \in 0..SEGSIZE /\ i + 1 # 0 /\ (i + 1) - 1 = i
        BY <1>1, <1>6
    <2> QED
        BY <1>5, <2>1
<1>7. 0 \in 0..SEGSIZE
    BY <1>1
<1>8. h[0] = s
    BY <1>5, <1>7
<1> HIDE DEF Is
<1> QED
    BY <1>4, <1>6, <1>8

\* The loop stays within the file.
LEMMA LoopType ==
    ASSUME TaskOK, NEW s, TurnOK(s), NEW r, r = NetasciiRead(s)
    PROVE  TurnOK(r) /\ r.limit = s.limit
<1>1. SEGSIZE \in Nat
    BY TftpConstants
<1>2. PICK h : /\ h[0] = s /\ NetasciiRead(s) = h[SEGSIZE]
               /\ \A i \in Nat : i < SEGSIZE => h[i + 1] = NetasciiChar(h[i])
    BY ReadIs
<1> DEFINE T == {i \in Nat : i <= SEGSIZE => TurnOK(h[i]) /\ h[i].limit = s.limit}
<1>3. 0 \in T
    BY <1>2
<1>4. ASSUME NEW i \in Nat, i \in T PROVE i + 1 \in T
    <2> SUFFICES ASSUME i + 1 <= SEGSIZE PROVE TurnOK(h[i + 1]) /\ h[i + 1].limit = s.limit
        BY <1>4
    <2>1. i < SEGSIZE /\ i <= SEGSIZE
        BY <1>1, <1>4
    <2>2. TurnOK(h[i]) /\ h[i].limit = s.limit /\ h[i + 1] = NetasciiChar(h[i])
        BY <1>2, <1>4, <2>1
    <2> HIDE DEF T
    <2> QED
        BY <2>2, TurnType
<1> HIDE DEF T
<1>5. \A i \in Nat : i \in T
    BY <1>3, <1>4, Induction
<1>6. SEGSIZE \in T
    BY <1>1, <1>5
<1> QED
    BY <1>1, <1>2, <1>6 DEF T

\* i turns after place e.
Turned(u, e, i) ==
    /\ TurnOK(u) /\ u.limit = Len(task.file)
    /\ ReadTo(u, Least(e + i, Len(task.wire)))
    /\ u.data = SubSeq(task.wire, e + 1, Least(e + i, Len(task.wire)))

\* One more turn of read_ahead()'s loop puts the next character of the wire into the
\* buffer, or nothing at the end of the file.
LEMMA OneTurn ==
    ASSUME TaskOK, task.convert, NEW e \in 0..Len(task.wire), NEW i \in Nat,
           NEW u, Turned(u, e, i), NEW t, t = NetasciiChar(u)
    PROVE  Turned(t, e, i + 1)
<1>0. Len(task.wire) \in Nat /\ task.wire \in Seq(Chars)
    BY Wire, LenProperties
<1>1. PICK a : a = Least(e + i, Len(task.wire))
    OBVIOUS
<1>2. TurnOK(u) /\ u.limit = Len(task.file) /\ ReadTo(u, a) /\ u.data = SubSeq(task.wire, e + 1, a)
    BY <1>1 DEF Turned
<1>3. TurnOK(t) /\ t.limit = u.limit
    BY <1>2, TurnType
<1>4. /\ a < Len(task.wire) => ReadTo(t, a + 1) /\ t.data = Append(u.data, task.wire[a + 1])
      /\ ~(a < Len(task.wire)) => t = u
    BY <1>2, TurnReads
<1>5. /\ a \in Nat /\ e <= a /\ a <= Len(task.wire) /\ e \in Nat
      /\ Least(e + (i + 1), Len(task.wire)) = IF a < Len(task.wire) THEN a + 1 ELSE a
    BY <1>0, <1>1 DEF Least
<1>6. CASE a < Len(task.wire)
    <2>1. Append(SubSeq(task.wire, e + 1, a), task.wire[a + 1]) = SubSeq(task.wire, e + 1, a + 1)
        BY <1>0, <1>5, <1>6, SubSeqMore
    <2>2. ReadTo(t, a + 1) /\ t.data = SubSeq(task.wire, e + 1, a + 1)
        BY <1>2, <1>4, <1>6, <2>1
    <2>3. Least(e + (i + 1), Len(task.wire)) = a + 1
        BY <1>5, <1>6
    <2> QED
        BY <1>2, <1>3, <2>2, <2>3 DEF Turned
<1>7. CASE ~(a < Len(task.wire))
    <2>1. Least(e + (i + 1), Len(task.wire)) = a /\ t = u
        BY <1>4, <1>5, <1>7
    <2> QED
        BY <1>2, <2>1 DEF Turned
<1> QED
    BY <1>6, <1>7

\* The loop reads as much of the wire as the buffer holds, and if the file is at its
\* end, what there is.
LEMMA LoopReads ==
    ASSUME TaskOK, task.convert, NEW s, TurnOK(s), s.limit = Len(task.file),
           s.data = <<>>, NEW e, ReadTo(s, e), NEW r, r = NetasciiRead(s),
           NEW end, end = Least(e + SEGSIZE, Len(task.wire))
    PROVE  /\ e \in 0..Len(task.wire)
           /\ TurnOK(r) /\ ReadTo(r, end) /\ r.data = SubSeq(task.wire, e + 1, end)
<1>1. SEGSIZE \in Nat
    BY TftpConstants
<1>2. PICK h : /\ h[0] = s /\ NetasciiRead(s) = h[SEGSIZE]
               /\ \A i \in Nat : i < SEGSIZE => h[i + 1] = NetasciiChar(h[i])
    BY ReadIs
<1>3. PICK t : t = NetasciiChar(s)
    OBVIOUS
<1>4. e \in 0..Len(task.wire)
    BY <1>3, TurnReads
<1>5. Len(task.wire) \in Nat /\ task.wire \in Seq(Chars)
    BY Wire, LenProperties
<1> DEFINE T == {i \in Nat : i <= SEGSIZE => Turned(h[i], e, i)}
<1>6. 0 \in T
    <2>1. Least(e + 0, Len(task.wire)) = e
        BY <1>4, <1>5 DEF Least
    <2>2. SubSeq(task.wire, e + 1, e) = <<>>
        BY <1>4, <1>5, SubSeqEmpty
    <2> QED
        BY <1>2, <2>1, <2>2 DEF Turned
<1>7. ASSUME NEW i \in Nat, i \in T PROVE i + 1 \in T
    <2> SUFFICES ASSUME i + 1 <= SEGSIZE PROVE Turned(h[i + 1], e, i + 1)
        BY <1>7
    <2>1. i < SEGSIZE /\ i <= SEGSIZE
        BY <1>1, <1>7
    <2>2. Turned(h[i], e, i) /\ h[i + 1] = NetasciiChar(h[i])
        BY <1>2, <1>7, <2>1
    <2> HIDE DEF T
    <2> QED
        BY <1>4, <2>2, OneTurn
<1> HIDE DEF T
<1>8. \A i \in Nat : i \in T
    BY <1>6, <1>7, Induction
<1>9. Turned(h[SEGSIZE], e, SEGSIZE)
    BY <1>1, <1>8 DEF T
<1> QED
    BY <1>2, <1>4, <1>9 DEF Turned

-----------------------------------------------------------------------------
(* write_behind()'s loop in netascii mode.                                   *)

IsWrite(g, s, data, n) ==
    g = [i \in 0..n |-> IF i = 0 THEN s ELSE WriteChar(g[i - 1], data[i])]

\* The function that the loop is defined by exists.
LEMMA WriteExists ==
    ASSUME NEW s, NEW data
    PROVE  \A n \in Nat : \E g : IsWrite(g, s, data, n)
<1> DEFINE Is(g, n) == g = [i \in 0..n |-> IF i = 0 THEN s ELSE WriteChar(g[i - 1], data[i])]
           T == {n \in Nat : \E g : Is(g, n)}
<1>1. 0 \in T
    <2>1. Is([i \in 0..0 |-> s], 0)
        OBVIOUS
    <2> QED
        BY <2>1
<1>2. ASSUME NEW n \in Nat, n \in T PROVE n + 1 \in T
    <2>1. PICK g : Is(g, n)
        BY <1>2
    <2> DEFINE h == [i \in 0..(n + 1) |-> IF i = n + 1 THEN WriteChar(g[n], data[n + 1]) ELSE g[i]]
    <2>2. ASSUME NEW i \in 0..(n + 1)
          PROVE  h[i] = IF i = 0 THEN s ELSE WriteChar(h[i - 1], data[i])
        <3>1. CASE i = n + 1
            <4>1. i - 1 \in 0..(n + 1) /\ i - 1 # n + 1 /\ i - 1 = n /\ i # 0
                BY <3>1
            <4>2. h[i - 1] = g[n] /\ h[i] = WriteChar(g[n], data[n + 1])
                BY <3>1, <4>1
            <4> HIDE DEF h
            <4> QED
                BY <3>1, <4>1, <4>2
        <3>2. CASE i # n + 1
            <4>1. i \in 0..n /\ (i # 0 => i - 1 \in 0..n /\ i - 1 # n + 1)
                BY <3>2
            <4>2. h[i] = g[i] /\ (i # 0 => h[i - 1] = g[i - 1])
                BY <3>2, <4>1
            <4>3. g[i] = IF i = 0 THEN s ELSE WriteChar(g[i - 1], data[i])
                BY <2>1, <4>1
            <4> HIDE DEF h
            <4> QED
                BY <4>2, <4>3
        <3> QED
            BY <3>1, <3>2
    <2>3. Is(h, n + 1)
        BY <2>2
    <2> HIDE DEF h, Is
    <2> QED
        BY <2>3
<1> HIDE DEF T
<1>3. \A n \in Nat : n \in T
    BY <1>1, <1>2, Induction
<1> QED
    BY <1>3 DEF T, IsWrite

\* What the loop is defined by.
WriteLoop(h, s, data) ==
    /\ h[0] = s /\ NetasciiWrite(s, data) = h[Len(data)]
    /\ \A i \in Nat : i < Len(data) => h[i + 1] = WriteChar(h[i], data[i + 1])

\* write_behind()'s loop is what its turns make of what was there before.
LEMMA WriteIs ==
    ASSUME NEW s, NEW data \in Seq(Chars)
    PROVE  \E h : WriteLoop(h, s, data)
<1> DEFINE l == Len(data)
           Is(g) == g = [i \in 0..l |-> IF i = 0 THEN s ELSE WriteChar(g[i - 1], data[i])]
           h == CHOOSE g : Is(g)
<1>1. l \in Nat
    BY LenProperties
<1>2. \E g : Is(g)
    <2> HIDE DEF l
    <2>1. \E g : IsWrite(g, s, data, l)
        BY <1>1, WriteExists
    <2> QED
        BY <2>1 DEF IsWrite
<1>3. Is(h)
    BY <1>2
<1>4. NetasciiWrite(s, data) = h[l]
    BY DEF NetasciiWrite
<1> HIDE DEF h
<1>5. \A i \in 0..l : h[i] = IF i = 0 THEN s ELSE WriteChar(h[i - 1], data[i])
    BY <1>3
<1>6. ASSUME NEW i \in Nat, i < l PROVE h[i + 1] = WriteChar(h[i], data[i + 1])
    <2>1. i + 1 \in 0..l /\ i + 1 # 0 /\ (i + 1) - 1 = i
        BY <1>1, <1>6
    <2> QED
        BY <1>5, <2>1
<1>7. 0 \in 0..l
    BY <1>1
<1>8. h[0] = s
    BY <1>5, <1>7
<1> HIDE DEF Is
<1> QED
    BY <1>4, <1>6, <1>8 DEF WriteLoop

OutOK(s) == s.prevchar \in Chars \cup {"none"} /\ s.out \in Seq(Chars)

\* One turn of write_behind()'s loop writes characters, whatever came before.
LEMMA WriteCharType ==
    ASSUME NEW s, OutOK(s), NEW c \in Chars, NEW t, t = WriteChar(s, c)
    PROVE  OutOK(t)
<1>1. t.prevchar = c
    BY DEF WriteChar
<1>2. t.out = IF s.prevchar = cr /\ c = lf THEN Append(Front(s.out), lf)
              ELSE IF s.prevchar = cr /\ c = nul THEN s.out
              ELSE Append(s.out, c)
    BY DEF WriteChar
<1>3. s.out \in Seq(Chars)
    BY DEF OutOK
<1>4. PICK out : out = s.out
    OBVIOUS
<1>5. out \in Seq(Chars) /\ Len(out) \in Nat
    BY <1>3, <1>4, LenProperties
<1>6. Front(out) \in Seq(Chars)
    <2>1. \A k \in 1..(Len(out) - 1) : out[k] \in Chars
        BY <1>5
    <2>2. SubSeq(out, 1, Len(out) - 1) \in Seq(Chars)
        BY <1>5, <2>1, SubSeqProperties
    <2> QED
        BY <2>2 DEF Front
<1>7. lf \in Chars
    BY DEF Chars, lf
<1>8. t.out \in Seq(Chars)
    BY <1>2, <1>4, <1>5, <1>6, <1>7, AppendProperties
<1> QED
    BY <1>1, <1>8 DEF OutOK

\* The loop writes characters.
LEMMA LoopWritesType ==
    ASSUME NEW s, OutOK(s), NEW data \in Seq(Chars), NEW r, r = NetasciiWrite(s, data)
    PROVE  OutOK(r)
<1>1. Len(data) \in Nat
    BY LenProperties
<1>2. PICK h : WriteLoop(h, s, data)
    BY WriteIs
<1> DEFINE T == {i \in Nat : i <= Len(data) => OutOK(h[i])}
<1>3. 0 \in T
    BY <1>2 DEF WriteLoop
<1>4. ASSUME NEW i \in Nat, i \in T PROVE i + 1 \in T
    <2> SUFFICES ASSUME i + 1 <= Len(data) PROVE OutOK(h[i + 1])
        BY <1>4
    <2>1. i < Len(data) /\ i <= Len(data) /\ i + 1 \in 1..Len(data)
        BY <1>1, <1>4
    <2>2. OutOK(h[i]) /\ h[i + 1] = WriteChar(h[i], data[i + 1]) /\ data[i + 1] \in Chars
        BY <1>2, <1>4, <2>1 DEF WriteLoop
    <2> HIDE DEF T
    <2> QED
        BY <2>2, WriteCharType
<1> HIDE DEF T
<1>5. \A i \in Nat : i \in T
    BY <1>3, <1>4, Induction
<1>6. Len(data) \in T
    BY <1>1, <1>5
<1> QED
    BY <1>1, <1>2, <1>6 DEF T, WriteLoop

\* A place up to which whole characters go does not hold a cr.
LEMMA NoHalf ==
    ASSUME TaskOK, task.convert, NEW k \in 1..Len(task.file)
    PROVE  Place(k) \in Nat /\ Place(k) > 0 /\ task.wire[Place(k)] # cr
<1>0. Len(task.file) \in Nat /\ OnWire(task.wire, Len(task.file))
    BY Wire
<1>1. k - 1 \in Nat /\ k - 1 \in 0..(Len(task.file) - 1) /\ (k - 1) + 1 = k /\ k \in Nat
    BY <1>0
<1>2. /\ Place(k - 1) \in Nat /\ Place(k) \in Nat
      /\ Place((k - 1) + 1) = Place(k - 1) + (IF Double(task.file[(k - 1) + 1]) THEN 2 ELSE 1)
    BY <1>1, PlaceNext
<1>3. cr # lf /\ cr # nul
    BY DEF cr, lf, nul
<1>4. CASE Double(task.file[k])
    <2>1. Place(k) = Place(k - 1) + 2
        BY <1>1, <1>2, <1>4
    <2>2. task.wire[Place(k - 1) + 2] \in {lf, nul}
        BY <1>0, <1>1, <1>4 DEF OnWire
    <2> QED
        BY <1>2, <1>3, <2>1, <2>2
<1>5. CASE ~Double(task.file[k])
    <2>1. Place(k) = Place(k - 1) + 1
        BY <1>1, <1>2, <1>5
    <2>2. task.wire[Place(k - 1) + 1] = task.file[k]
        BY <1>0, <1>1, <1>5 DEF OnWire
    <2>3. task.file[k] # cr
        BY <1>5 DEF Double
    <2> QED
        BY <1>2, <2>1, <2>2, <2>3
<1> QED
    BY <1>4, <1>5

\* A turn writes what is on the next place of the wire.
LEMMA TurnWrites ==
    ASSUME TaskOK, task.convert, NEW e \in Nat, e < Len(task.wire), NEW s, WroteTo(s, e),
           NEW t, t = WriteChar(s, task.wire[e + 1])
    PROVE  WroteTo(t, e + 1)
<1>0. /\ Len(task.file) \in Nat /\ task.file \in Seq(Chars)
      /\ Len(task.wire) = Place(Len(task.file)) /\ OnWire(task.wire, Len(task.file))
    BY Wire DEF TaskOK, Tasks
<1>1. s.prevchar = IF e = 0 THEN "none" ELSE task.wire[e]
    BY DEF WroteTo
<1>2. PICK k \in 0..Len(task.file) : Wrote(s.out, k, e)
    BY DEF WroteTo
<1>3. PICK c : c = task.wire[e + 1]
    OBVIOUS
<1>4. /\ t.prevchar = c
      /\ t.out = IF s.prevchar = cr /\ c = lf THEN Append(Front(s.out), lf)
                 ELSE IF s.prevchar = cr /\ c = nul THEN s.out
                 ELSE Append(s.out, c)
    BY <1>3 DEF WriteChar
<1>5. e + 1 # 0 /\ t.prevchar = task.wire[e + 1]
    BY <1>3, <1>4
<1>6. k \in Nat /\ Place(k) \in Nat
    <2>1. k \in Nat
        BY <1>0
    <2> QED
        BY <2>1, PlaceNext
<1>m. ASSUME k < Len(task.file)
      PROVE  Append(SubSeq(task.file, 1, k), task.file[k + 1]) = SubSeq(task.file, 1, k + 1)
    <2>1. Append(SubSeq(task.file, 0 + 1, k), task.file[k + 1]) = SubSeq(task.file, 0 + 1, k + 1)
        BY <1>0, <1>6, <1>m, SubSeqMore
    <2> QED
        BY <2>1
<1>7. CASE e = Place(k) /\ s.out = SubSeq(task.file, 1, k)
    <2>1. k < Len(task.file) /\ k \in 0..(Len(task.file) - 1)
        BY <1>0, <1>6, <1>7
    <2>2. s.prevchar # cr
        <3>1. CASE k = 0
            <4>1. e = 0 /\ cr # "none"
                BY <1>7, <3>1, PlaceNext DEF cr
            <4> QED
                BY <1>1, <4>1
        <3>2. CASE k # 0
            <4>1. k \in 1..Len(task.file)
                BY <3>2
            <4>2. Place(k) > 0 /\ task.wire[Place(k)] # cr
                BY <4>1, NoHalf
            <4> QED
                BY <1>1, <1>6, <1>7, <4>2
        <3> QED
            BY <3>1, <3>2
    <2>3. t.out = Append(s.out, c)
        BY <1>4, <2>2
    <2>4. Place(k + 1) = Place(k) + (IF Double(task.file[k + 1]) THEN 2 ELSE 1)
        BY <1>6, PlaceNext
    <2>5. CASE Double(task.file[k + 1])
        <3>1. c = cr
            BY <1>0, <1>3, <1>7, <2>1, <2>5 DEF OnWire
        <3>2. Wrote(t.out, k, e + 1)
            BY <1>7, <2>1, <2>3, <2>5, <3>1 DEF Wrote
        <3> QED
            BY <1>5, <3>2 DEF WroteTo
    <2>6. CASE ~Double(task.file[k + 1])
        <3>1. c = task.file[k + 1]
            BY <1>0, <1>3, <1>7, <2>1, <2>6 DEF OnWire
        <3>2. e + 1 = Place(k + 1)
            BY <1>6, <1>7, <2>4, <2>6
        <3>3. t.out = SubSeq(task.file, 1, k + 1)
            BY <1>7, <1>m, <2>1, <2>3, <3>1
        <3>4. Wrote(t.out, k + 1, e + 1) /\ k + 1 \in 0..Len(task.file)
            BY <1>0, <2>1, <3>2, <3>3 DEF Wrote
        <3> QED
            BY <1>5, <3>4 DEF WroteTo
    <2> QED
        BY <2>5, <2>6
<1>8. CASE /\ k < Len(task.file) /\ Double(task.file[k + 1])
           /\ e = Place(k) + 1 /\ s.out = Append(SubSeq(task.file, 1, k), cr)
    <2>1. k \in 0..(Len(task.file) - 1) /\ k + 1 \in 0..Len(task.file)
        BY <1>0, <1>8
    <2>2. /\ task.wire[Place(k) + 1] = cr
          /\ task.wire[Place(k) + 2] = IF task.file[k + 1] = lf THEN lf ELSE nul
        BY <1>0, <1>8, <2>1 DEF OnWire
    <2>3. s.prevchar = cr /\ c = IF task.file[k + 1] = lf THEN lf ELSE nul
        BY <1>1, <1>3, <1>6, <1>8, <2>2
    <2>4. Place(k + 1) = Place(k) + (IF Double(task.file[k + 1]) THEN 2 ELSE 1)
        BY <1>6, PlaceNext
    <2>5. e + 1 = Place(k + 1)
        BY <1>6, <1>8, <2>4
    <2>6. t.out = Append(SubSeq(task.file, 1, k), task.file[k + 1])
        <3>0. lf # nul
            BY DEF lf, nul
        <3>1. CASE task.file[k + 1] = lf
            <4>1. t.out = Append(Front(s.out), lf)
                BY <1>4, <2>3, <3>1
            <4>2. PICK w : w = SubSeq(task.file, 1, k)
                OBVIOUS
            <4>3. w \in Seq(Chars)
                <5>1. \A j \in 1..k : task.file[j] \in Chars
                    BY <1>0, <1>8
                <5> QED
                    BY <1>0, <4>2, <5>1, SubSeqProperties
            <4>4. Front(Append(w, cr)) = w
                <5>1. cr \in Chars
                    BY DEF Chars, cr
                <5>2. /\ Append(w, cr) \in Seq(Chars) /\ Len(Append(w, cr)) = Len(w) + 1
                      /\ \A j \in 1..Len(w) : Append(w, cr)[j] = w[j]
                    BY <4>3, <5>1, AppendProperties
                <5>3. Len(w) \in Nat
                    BY <4>3, LenProperties
                <5>4. PICK v : v = Append(w, cr)
                    OBVIOUS
                <5>5. \A j \in 1..Len(w) : v[j] \in Chars
                    BY <4>3, <5>2, <5>4
                <5>6. /\ SubSeq(v, 1, Len(w)) \in Seq(Chars) /\ Len(SubSeq(v, 1, Len(w))) = Len(w)
                      /\ \A j \in 1..Len(w) : SubSeq(v, 1, Len(w))[j] = v[j]
                    BY <5>2, <5>3, <5>4, <5>5, SubSeqProperties
                <5>7. SubSeq(v, 1, Len(w)) = w
                    BY <4>3, <5>2, <5>4, <5>6, SeqEqual
                <5>8. Len(v) - 1 = Len(w)
                    BY <5>2, <5>3, <5>4
                <5> QED
                    BY <5>4, <5>7, <5>8 DEF Front
            <4> QED
                BY <1>8, <3>1, <4>1, <4>2, <4>4
        <3>2. CASE task.file[k + 1] # lf
            <4>1. task.file[k + 1] = cr /\ c = nul
                BY <1>8, <2>3, <3>2 DEF Double
            <4> QED
                BY <1>4, <1>8, <2>3, <3>0, <4>1
        <3> QED
            BY <3>1, <3>2
    <2>7. Wrote(t.out, k + 1, e + 1)
        BY <1>8, <1>m, <2>5, <2>6 DEF Wrote
    <2> QED
        BY <1>5, <2>1, <2>7 DEF WroteTo
<1> QED
    BY <1>2, <1>7, <1>8 DEF Wrote

\* The loop writes what is in the buffer.
LEMMA LoopWrites ==
    ASSUME TaskOK, task.convert, NEW e \in Nat, NEW end \in Nat, e <= end, end <= Len(task.wire),
           NEW s, WroteTo(s, e), NEW data, data = SubSeq(task.wire, e + 1, end),
           NEW r, r = NetasciiWrite(s, data)
    PROVE  WroteTo(r, end)
<1>0. Len(task.wire) \in Nat /\ task.wire \in Seq(Chars)
    BY Wire, LenProperties
<1>1. \A j \in (e + 1)..end : task.wire[j] \in Chars
    BY <1>0
<1>2. /\ data \in Seq(Chars) /\ Len(data) = end - e
      /\ \A j \in 1..(end - e) : data[j] = task.wire[e + j]
    BY <1>0, <1>1, SubSeqProperties
<1>d. data \in Seq(Chars)
    BY <1>2
<1>3. PICK h : WriteLoop(h, s, data)
    BY <1>d, WriteIs
<1> DEFINE T == {i \in Nat : i <= end - e => WroteTo(h[i], e + i)}
<1>4. 0 \in T
    BY <1>3 DEF WriteLoop
<1>5. ASSUME NEW i \in Nat, i \in T PROVE i + 1 \in T
    <2> SUFFICES ASSUME i + 1 <= end - e PROVE WroteTo(h[i + 1], e + (i + 1))
        BY <1>5
    <2>1. /\ i < end - e /\ i <= end - e /\ i + 1 \in 1..(end - e) /\ e + i \in Nat
          /\ e + i < Len(task.wire) /\ (e + i) + 1 = e + (i + 1)
        BY <1>0, <1>5
    <2>2. /\ WroteTo(h[i], e + i) /\ h[i + 1] = WriteChar(h[i], data[i + 1])
          /\ data[i + 1] = task.wire[e + (i + 1)]
        BY <1>2, <1>3, <1>5, <2>1 DEF WriteLoop
    <2> HIDE DEF T
    <2>3. h[i + 1] = WriteChar(h[i], task.wire[(e + i) + 1])
        BY <2>1, <2>2
    <2>4. WroteTo(h[i + 1], (e + i) + 1)
        BY <2>1, <2>2, <2>3, TurnWrites
    <2> QED
        BY <2>1, <2>4
<1> HIDE DEF T
<1>6. \A i \in Nat : i \in T
    BY <1>4, <1>5, Induction
<1>7. end - e \in T /\ end - e \in Nat /\ e + (end - e) = end
    BY <1>6
<1> QED
    BY <1>2, <1>3, <1>7 DEF T, WriteLoop

\* When all that travels is written, the file is.
LEMMA WroteAll ==
    ASSUME TaskOK, NEW b, WroteTo(b, Len(task.wire))
    PROVE  b.out = task.file
<1>0. /\ Len(task.file) \in Nat /\ task.file \in Seq(Chars)
      /\ Len(task.wire) = Place(Len(task.file))
    BY Wire DEF TaskOK, Tasks
<1>1. PICK k \in 0..Len(task.file) : Wrote(b.out, k, Len(task.wire))
    BY DEF WroteTo
<1>2. k \in Nat /\ Place(k) \in Nat /\ Place(Len(task.file)) \in Nat
    BY <1>0, PlaceNext
<1>3. k = Len(task.file) /\ b.out = SubSeq(task.file, 1, k)
    <2>1. CASE Len(task.wire) = Place(k) /\ b.out = SubSeq(task.file, 1, k)
        <3>1. Place(k) + (Len(task.file) - k) <= Place(Len(task.file))
            BY <1>0, <1>2, PlaceGrows
        <3> QED
            BY <1>0, <1>2, <2>1, <3>1
    <2>2. CASE k < Len(task.file) /\ Double(task.file[k + 1]) /\ Len(task.wire) = Place(k) + 1
        <3>1. k + 1 \in Nat /\ k + 1 <= Len(task.file)
            BY <1>0, <1>2, <2>2
        <3>2. Place(k + 1) = Place(k) + (IF Double(task.file[k + 1]) THEN 2 ELSE 1)
            BY <1>2, PlaceNext
        <3>3. Place(k + 1) + (Len(task.file) - (k + 1)) <= Place(Len(task.file))
            BY <1>0, <3>1, PlaceGrows
        <3> QED
            BY <1>0, <1>2, <2>2, <3>1, <3>2, <3>3
    <2> QED
        BY <1>1, <2>1, <2>2 DEF Wrote
<1> QED
    BY <1>0, <1>3

-----------------------------------------------------------------------------
(* Blocks of what travels.                                                   *)

\* Min, for two numbers.
LEMMA MinIsLeast ==
    ASSUME NEW a \in Int, NEW b \in Int
    PROVE  Min({a, b}) = Least(a, b)
<1>1. Least(a, b) \in {a, b} /\ \A y \in {a, b} : Least(a, b) <= y
    BY DEF Least
<1>2. \A x \in {a, b} : (\A y \in {a, b} : x <= y) => x = Least(a, b)
    BY DEF Least
<1> QED
    BY <1>1, <1>2 DEF Min

\* Where a block begins and ends.
LEMMA Ends ==
    ASSUME TaskOK, NEW n \in Nat
    PROVE  /\ n * SEGSIZE \in Nat /\ (n + 1) * SEGSIZE = n * SEGSIZE + SEGSIZE
           /\ 0 * SEGSIZE = 0
           /\ Len(task.wire) \in Nat /\ End(n) \in 0..Len(task.wire)
<1>1. SEGSIZE \in Nat
    BY TftpConstants
<1>2. Len(task.wire) \in Nat
    BY DEF TaskOK, Tasks
<1>3. n * SEGSIZE \in Nat
    BY <1>1
<1>4. (n + 1) * SEGSIZE = n * SEGSIZE + SEGSIZE /\ 0 * SEGSIZE = 0
    BY <1>1
<1> QED
    BY <1>2, <1>3, <1>4 DEF End, Least

\* A block is what is read when all blocks before it have been.
LEMMA SegmentRead ==
    ASSUME TaskOK, NEW n \in Nat
    PROVE  /\ Segment(n + 1) = SubSeq(task.wire, End(n) + 1, End(n + 1))
           /\ Segment(n + 1) \in Seq(Chars)
           /\ Len(Segment(n + 1)) = End(n + 1) - End(n)
           /\ End(n) <= End(n + 1)
           /\ Min({End(n) + SEGSIZE, Len(task.wire)}) = End(n + 1)
<1> DEFINE k == n * SEGSIZE
           l == Len(task.wire)
<1>1. /\ k \in Nat /\ (n + 1) * SEGSIZE = k + SEGSIZE /\ l \in Nat
      /\ End(n) = Least(k, l) /\ End(n + 1) = Least(k + SEGSIZE, l)
    BY Ends DEF End
<1>2. SEGSIZE \in Nat
    BY TftpConstants
<1> HIDE DEF k, l
<1>3. Min({k + SEGSIZE, l}) = Least(k + SEGSIZE, l)
    BY <1>1, <1>2, MinIsLeast
<1>4. Segment(n + 1) = SubSeq(task.wire, k + 1, End(n + 1))
    <2>1. ((n + 1) - 1) * SEGSIZE = k
        BY DEF k
    <2>2. Segment(n + 1) = SubSeq(task.wire, ((n + 1) - 1) * SEGSIZE + 1, Min({(n + 1) * SEGSIZE, l}))
        BY Zenon DEF Segment, l
    <2> QED
        BY <1>1, <1>3, <2>1, <2>2, Zenon
<1>5. End(n) <= End(n + 1) /\ End(n) \in 0..l /\ End(n + 1) \in 0..l
    BY <1>1, <1>2 DEF Least
<1>6. SubSeq(task.wire, k + 1, End(n + 1)) = SubSeq(task.wire, End(n) + 1, End(n + 1))
    <2>1. CASE k <= l
        BY <1>1, <2>1 DEF Least
    <2>2. CASE k > l
        <3>1. End(n) = l /\ End(n + 1) = l
            BY <1>1, <1>2, <2>2 DEF Least
        <3>2. SubSeq(task.wire, k + 1, l) = <<>> /\ SubSeq(task.wire, l + 1, l) = <<>>
            BY <1>1, <2>2, SubSeqEmpty
        <3> QED
            BY <3>1, <3>2
    <2>3. k <= l \/ k > l
        BY <1>1
    <2> QED
        BY <2>1, <2>2, <2>3
<1>7. /\ SubSeq(task.wire, End(n) + 1, End(n + 1)) \in Seq(Chars)
      /\ Len(SubSeq(task.wire, End(n) + 1, End(n + 1))) = End(n + 1) - End(n)
    <2>1. \A i \in (End(n) + 1)..End(n + 1) : task.wire[i] \in Chars
        BY <1>1, <1>5 DEF TaskOK, Tasks, l
    <2> QED
        BY <1>1, <1>5, <2>1, SubSeqProperties
<1>8. Min({End(n) + SEGSIZE, l}) = End(n + 1)
    <2>1. Min({End(n) + SEGSIZE, l}) = Least(End(n) + SEGSIZE, l)
        BY <1>1, <1>2, <1>5, MinIsLeast
    <2> QED
        BY <1>1, <1>2, <2>1 DEF Least
<1> QED
    BY <1>4, <1>5, <1>6, <1>7, <1>8 DEF l

\* Block by block it grows, and a short block is its last.
LEMMA Blocks ==
    ASSUME TaskOK, NEW n \in Nat
    PROVE  /\ Upto(0) = <<>> /\ Upto(n) \in Seq(Chars)
           /\ Upto(n) \o Segment(n + 1) = Upto(n + 1)
           /\ Len(Segment(n + 1)) < SEGSIZE =>
                 Upto(n + 1) = task.wire /\ End(n + 1) = Len(task.wire)
<1>1. /\ End(n) \in 0..Len(task.wire) /\ End(n + 1) \in 0..Len(task.wire)
      /\ Len(task.wire) \in Nat /\ End(0) = 0
    <2>1. \A m \in Nat : End(m) \in 0..Len(task.wire)
        BY Ends
    <2>2. End(0) = 0 /\ Len(task.wire) \in Nat
        <3>1. 0 * SEGSIZE = 0 /\ Len(task.wire) \in Nat
            BY Ends
        <3> QED
            BY <3>1 DEF End, Least
    <2> QED
        BY <2>1, <2>2
<1>2. /\ Segment(n + 1) = SubSeq(task.wire, End(n) + 1, End(n + 1))
      /\ Len(Segment(n + 1)) = End(n + 1) - End(n)
      /\ End(n) <= End(n + 1)
    BY SegmentRead
<1>3. task.wire \in Seq(Chars)
    BY DEF TaskOK, Tasks
<1>4. Upto(n) \in Seq(Chars)
    <2>1. \A i \in 1..End(n) : task.wire[i] \in Chars
        BY <1>1, <1>3
    <2> QED
        BY <1>1, <2>1, SubSeqProperties DEF Upto
<1>5. Upto(n) \o Segment(n + 1) = Upto(n + 1)
    <2>1. 1 \in 1..(Len(task.wire) + 1) /\ End(n) \in (1 - 1)..Len(task.wire)
          /\ End(n + 1) \in End(n)..Len(task.wire)
        BY <1>1, <1>2
    <2>2. SubSeq(task.wire, 1, End(n)) \o SubSeq(task.wire, End(n) + 1, End(n + 1))
              = SubSeq(task.wire, 1, End(n + 1))
        BY <1>3, <2>1, ConcatAdjacentSubSeq
    <2> QED
        BY <1>2, <2>2 DEF Upto
<1>6. ASSUME Len(Segment(n + 1)) < SEGSIZE
      PROVE  Upto(n + 1) = task.wire /\ End(n + 1) = Len(task.wire)
    <2>1. End(n + 1) < End(n) + SEGSIZE
        BY <1>1, <1>2, <1>6, TftpConstants
    <2>2. Min({End(n) + SEGSIZE, Len(task.wire)}) = Least(End(n) + SEGSIZE, Len(task.wire))
        BY <1>1, TftpConstants, MinIsLeast
    <2>3. End(n + 1) = Len(task.wire)
        BY <1>1, <2>1, <2>2, SegmentRead DEF Least
    <2> QED
        BY <1>3, <2>3, SubSeqFull DEF Upto
<1>7. Upto(0) = <<>>
    BY <1>1, SubSeqEmpty DEF Upto
<1> QED
    BY <1>4, <1>5, <1>6, <1>7

-----------------------------------------------------------------------------
(* The two buffers.                                                          *)

\* The contents a buffer can have.
LEMMA BufTypes ==
    /\ BF_FREE \in Bufs /\ BF_FREE.state = "free"
    /\ BF_ALLOC \in Bufs /\ BF_ALLOC.state = "alloc"
    /\ Buf("error", <<>>) \in Bufs /\ Buf("error", <<>>).state = "error"
    /\ \A d \in Seq(Chars) : /\ Buf("data", d) \in Bufs /\ Buf("data", d).state = "data"
                             /\ Buf("data", d).data = d
    BY DEF Bufs, BF_FREE, BF_ALLOC, Buf

\* What changes when one of them gets a new content.
With(b, i, v) == [b EXCEPT !.bfs[i] = v]

\* The new content is there, and everything else is as it was.
LEMMA SetBuffer ==
    ASSUME NEW b \in Ios, NEW i \in {0, 1}, NEW v \in Bufs, NEW c, c = With(b, i, v)
    PROVE  /\ c \in Ios /\ c.bfs[i] = v /\ c.bfs[1 - i] = b.bfs[1 - i]
           /\ c.current = b.current /\ c.nextone = b.nextone /\ c.pos = b.pos
           /\ c.out = b.out /\ c.failed = b.failed /\ c.newline = b.newline /\ c.prevchar = b.prevchar
<1>1. c.bfs = [b.bfs EXCEPT ![i] = v] /\ b.bfs \in [{0, 1} -> Bufs]
    BY DEF Ios, With
<1>2. c.bfs[i] = v /\ c.bfs[1 - i] = b.bfs[1 - i]
    BY <1>1
<1> QED
    BY <1>2 DEF Ios, With

\* And when `current' or `nextone' goes to the other.
LEMMA Turn ==
    ASSUME NEW b \in Ios
    PROVE  /\ \A c : c = [b EXCEPT !.current = 1 - @]
                 => /\ c \in Ios /\ c.current = 1 - b.current /\ c.nextone = b.nextone
                    /\ c.bfs = b.bfs /\ c.pos = b.pos /\ c.out = b.out /\ c.failed = b.failed
                    /\ c.newline = b.newline /\ c.prevchar = b.prevchar
           /\ \A c : c = [b EXCEPT !.nextone = 1 - @]
                 => /\ c \in Ios /\ c.current = b.current /\ c.nextone = 1 - b.nextone
                    /\ c.bfs = b.bfs /\ c.pos = b.pos /\ c.out = b.out /\ c.failed = b.failed
                    /\ c.newline = b.newline /\ c.prevchar = b.prevchar
    BY DEF Ios

\* read_ahead()'s part of the work that fills the buffer: it stays within the file,
\* leaves the other buffer alone and remembers a failure.
LEMMA FilledType ==
    ASSUME TaskOK, NEW b \in Ios, b.pos <= Len(task.file), NEW fails \in BOOLEAN,
           NEW r, r = Filled(b, fails)
    PROVE  /\ r \in Ios /\ r.pos <= Len(task.file)
           /\ r.current = b.current /\ r.nextone = b.nextone
           /\ r.bfs[1 - b.nextone] = b.bfs[1 - b.nextone]
           /\ b.failed \/ fails => r.failed
<1>0. /\ Len(task.file) \in Nat /\ b.pos \in Nat /\ b.nextone \in {0, 1}
      /\ b.newline \in BOOLEAN /\ b.prevchar \in Chars \cup {"none"} /\ b.failed \in BOOLEAN
    BY Wire DEF Ios
<1>1. CASE task.convert
    <2>1. PICK s : s = [newline |-> b.newline, prevchar |-> b.prevchar, pos |-> b.pos,
                        data |-> <<>>, limit |-> IF fails THEN b.pos ELSE Len(task.file)]
        OBVIOUS
    <2>2. TurnOK(s)
        BY <1>0, <2>1 DEF TurnOK, Turns
    <2>3. PICK t : t = NetasciiRead(s)
        OBVIOUS
    <2>4. TurnOK(t)
        BY <2>2, <2>3, LoopType
    <2>5. /\ t.newline \in BOOLEAN /\ t.prevchar \in Chars \cup {"none"} /\ t.pos \in Nat
          /\ t.data \in Seq(Chars) /\ t.pos <= Len(task.file)
        BY <1>0, <2>4 DEF TurnOK, Turns
    <2>6. PICK c : c = With(b, b.nextone, Buf("data", t.data))
        OBVIOUS
    <2>7. /\ c \in Ios /\ c.bfs[1 - b.nextone] = b.bfs[1 - b.nextone]
          /\ c.current = b.current /\ c.nextone = b.nextone /\ c.failed = b.failed
        <3>1. b.nextone \in {0, 1} /\ Buf("data", t.data) \in Bufs
            BY <1>0, <2>5, BufTypes
        <3> QED
            BY <2>6, <3>1, SetBuffer
    <2>8. r = [c EXCEPT !.newline = t.newline, !.prevchar = t.prevchar, !.pos = t.pos,
                        !.failed = @ \/ fails]
        BY <1>1, <2>1, <2>3, <2>6 DEF Filled, With
    <2>9. /\ r.current = c.current /\ r.nextone = c.nextone /\ r.bfs = c.bfs /\ r.pos = t.pos
          /\ r.failed = (c.failed \/ fails) /\ r \in Ios
        BY <2>5, <2>7, <2>8 DEF Ios
    <2> QED
        BY <2>5, <2>7, <2>9
<1>2. CASE ~task.convert /\ fails
    <2>1. PICK c : c = With(b, b.nextone, Buf("error", <<>>))
        OBVIOUS
    <2>2. /\ c \in Ios /\ c.bfs[1 - b.nextone] = b.bfs[1 - b.nextone]
          /\ c.current = b.current /\ c.nextone = b.nextone /\ c.pos = b.pos
        <3>1. b.nextone \in {0, 1} /\ Buf("error", <<>>) \in Bufs
            BY <1>0, BufTypes
        <3> QED
            BY <2>1, <3>1, SetBuffer
    <2>3. r = [c EXCEPT !.failed = TRUE]
        BY <1>2, <2>1 DEF Filled, With
    <2> QED
        BY <2>2, <2>3 DEF Ios
<1>3. CASE ~task.convert /\ ~fails
    <2>1. PICK d : d = SubSeq(task.file, b.pos + 1, Min({b.pos + SEGSIZE, Len(task.file)}))
        OBVIOUS
    <2>2. SEGSIZE \in Nat /\ task.file \in Seq(Chars)
        BY TftpConstants DEF TaskOK, Tasks
    <2>3. PICK e : e = Least(b.pos + SEGSIZE, Len(task.file))
        OBVIOUS
    <2>4. e \in b.pos..Len(task.file) /\ d = SubSeq(task.file, b.pos + 1, e)
        <3>1. Min({b.pos + SEGSIZE, Len(task.file)}) = e
            BY <1>0, <2>2, <2>3, MinIsLeast
        <3>2. e \in b.pos..Len(task.file)
            BY <1>0, <2>2, <2>3 DEF Least
        <3> QED
            BY <2>1, <3>1, <3>2
    <2>5. d \in Seq(Chars) /\ Len(d) = e - b.pos
        <3>1. \A i \in (b.pos + 1)..e : task.file[i] \in Chars
            BY <1>0, <2>2, <2>4
        <3> QED
            BY <1>0, <2>4, <3>1, SubSeqProperties
    <2>6. PICK c : c = With(b, b.nextone, Buf("data", d))
        OBVIOUS
    <2>7. /\ c \in Ios /\ c.bfs[1 - b.nextone] = b.bfs[1 - b.nextone]
          /\ c.current = b.current /\ c.nextone = b.nextone /\ c.pos = b.pos
          /\ c.failed = b.failed
        <3>1. b.nextone \in {0, 1} /\ Buf("data", d) \in Bufs
            BY <1>0, <2>5, BufTypes
        <3> QED
            BY <2>6, <3>1, SetBuffer
    <2>8. r = [c EXCEPT !.pos = @ + Len(d)]
        BY <1>3, <2>1, <2>6 DEF Filled, With
    <2>9. b.pos + Len(d) \in Nat /\ b.pos + Len(d) <= Len(task.file)
        BY <1>0, <2>4, <2>5
    <2> QED
        BY <1>3, <2>7, <2>8, <2>9 DEF Ios
<1> QED
    BY <1>1, <1>2, <1>3

\* In octet mode the places of the wire are those of the file.
LEMMA OctetPlaces ==
    ASSUME TaskOK, ~task.convert
    PROVE  /\ task.wire = task.file
           /\ \A b \in Ios : \A e : ReadTo(b, e) <=> ~b.newline /\ e = b.pos
           /\ \A b : \A e \in 0..Len(task.file) : WroteTo(b, e) <=> b.out = SubSeq(task.file, 1, e)
<1>1. task.wire = task.file /\ \A c : ~Double(c)
    BY DEF TaskOK, Double
<1>2. \A k \in Nat : Place(k) = k
    BY Wire
<1>3. ASSUME NEW b \in Ios, NEW e PROVE ReadTo(b, e) <=> ~b.newline /\ e = b.pos
    <2>1. b.pos \in Nat /\ b.newline \in BOOLEAN
        BY DEF Ios
    <2> QED
        BY <1>1, <1>2, <2>1 DEF ReadTo
<1>4. ASSUME NEW b, NEW e \in 0..Len(task.file)
      PROVE  WroteTo(b, e) <=> b.out = SubSeq(task.file, 1, e)
    <2>1. Len(task.file) \in Nat
        BY Wire
    <2>2. \A k \in 0..Len(task.file) : Place(k) = k
        BY <1>2, <2>1
    <2>3. \A k \in 0..Len(task.file) : Wrote(b.out, k, e) <=> e = k /\ b.out = SubSeq(task.file, 1, k)
        BY <1>1, <2>2 DEF Wrote
    <2> QED
        BY <2>3 DEF WroteTo
<1> QED
    BY <1>1, <1>3, <1>4

\* It fills the buffer with the next block, or with the news that it cannot be read.
LEMMA FilledRight ==
    ASSUME TaskOK, NEW b \in Ios, b.pos <= Len(task.file), NEW n \in Nat, ReadTo(b, End(n)),
           NEW fails \in BOOLEAN, NEW r, r = Filled(b, fails), ~Cut(r)
    PROVE  \/ r.bfs[b.nextone] = Buf("data", Segment(n + 1)) /\ ReadTo(r, End(n + 1))
           \/ r.bfs[b.nextone] = Buf("error", <<>>) /\ r.failed
<1>0. /\ Len(task.file) \in Nat /\ b.pos \in Nat /\ b.nextone \in {0, 1}
      /\ b.newline \in BOOLEAN /\ b.prevchar \in Chars \cup {"none"} /\ b.failed \in BOOLEAN
      /\ SEGSIZE \in Nat
    BY Wire, TftpConstants DEF Ios
<1>s. /\ Segment(n + 1) = SubSeq(task.wire, End(n) + 1, End(n + 1))
      /\ Segment(n + 1) \in Seq(Chars)
      /\ Len(Segment(n + 1)) = End(n + 1) - End(n)
      /\ Min({End(n) + SEGSIZE, Len(task.wire)}) = End(n + 1)
    BY SegmentRead
<1>e. End(n) \in 0..Len(task.wire) /\ End(n + 1) \in 0..Len(task.wire) /\ Len(task.wire) \in Nat
    <2>1. n + 1 \in Nat
        OBVIOUS
    <2> QED
        BY <2>1, Ends
<1>l. Least(End(n) + SEGSIZE, Len(task.wire)) = End(n + 1)
    <2>1. End(n) + SEGSIZE \in Int /\ Len(task.wire) \in Int
        BY <1>0, <1>e
    <2> QED
        BY <1>s, <2>1, MinIsLeast
<1>1. CASE task.convert
    <2>f. ~r.failed
        BY <1>1 DEF Cut
    <2>g. ~fails
        BY <2>f, FilledType
    <2>1. PICK s : s = [newline |-> b.newline, prevchar |-> b.prevchar, pos |-> b.pos,
                        data |-> <<>>, limit |-> Len(task.file)]
        OBVIOUS
    <2>2. TurnOK(s) /\ s.limit = Len(task.file) /\ s.data = <<>>
        BY <1>0, <2>1 DEF TurnOK, Turns
    <2>3. ReadTo(s, End(n))
        BY <2>1 DEF ReadTo
    <2>4. PICK t, e, end : t = NetasciiRead(s) /\ e = End(n) /\ end = End(n + 1)
        OBVIOUS
    <2>5. TurnOK(t) /\ ReadTo(t, end) /\ t.data = SubSeq(task.wire, e + 1, end)
        BY <1>1, <1>l, <2>2, <2>3, <2>4, LoopReads
    <2>6. t.data = Segment(n + 1)
        BY <1>s, <2>4, <2>5
    <2>7. PICK c : c = With(b, b.nextone, Buf("data", Segment(n + 1)))
        OBVIOUS
    <2>8. c \in Ios /\ c.bfs[b.nextone] = Buf("data", Segment(n + 1))
        <3>1. b.nextone \in {0, 1} /\ Buf("data", Segment(n + 1)) \in Bufs
            BY <1>0, <1>s, BufTypes
        <3> QED
            BY <2>7, <3>1, SetBuffer
    <2>9. r = [c EXCEPT !.newline = t.newline, !.prevchar = t.prevchar, !.pos = t.pos,
                        !.failed = @ \/ fails]
        <3>1. s = [newline |-> b.newline, prevchar |-> b.prevchar, pos |-> b.pos, data |-> <<>>,
                   limit |-> IF fails THEN b.pos ELSE Len(task.file)]
            BY <2>1, <2>g
        <3> QED
            BY <1>1, <2>4, <2>6, <2>7, <3>1 DEF Filled, With
    <2>10. /\ r.newline = t.newline /\ r.prevchar = t.prevchar /\ r.pos = t.pos
           /\ r.bfs = c.bfs
        BY <2>8, <2>9 DEF Ios
    <2>11. ReadTo(r, End(n + 1))
        BY <2>4, <2>5, <2>10 DEF ReadTo
    <2> QED
        BY <2>8, <2>10, <2>11
<1>2. CASE ~task.convert
    <2>w. /\ task.wire = task.file /\ ~b.newline /\ End(n) = b.pos
          /\ \A x \in Ios : \A e : ReadTo(x, e) <=> ~x.newline /\ e = x.pos
        BY <1>2, OctetPlaces
    <2>1. CASE fails
        <3>1. PICK c : c = With(b, b.nextone, Buf("error", <<>>))
            OBVIOUS
        <3>2. c \in Ios /\ c.bfs[b.nextone] = Buf("error", <<>>)
            <4>1. b.nextone \in {0, 1} /\ Buf("error", <<>>) \in Bufs
                BY <1>0, BufTypes
            <4> QED
                BY <3>1, <4>1, SetBuffer
        <3>3. r = [c EXCEPT !.failed = TRUE]
            BY <1>2, <2>1, <3>1 DEF Filled, With
        <3> QED
            BY <3>2, <3>3 DEF Ios
    <2>2. CASE ~fails
        <3>1. PICK d : d = Segment(n + 1)
            OBVIOUS
        <3>2. d = SubSeq(task.file, b.pos + 1, Min({b.pos + SEGSIZE, Len(task.file)}))
            BY <1>s, <2>w, <3>1
        <3>3. b.pos + Len(d) = End(n + 1)
            BY <1>e, <1>s, <2>w, <3>1
        <3>4. PICK c : c = With(b, b.nextone, Buf("data", d))
            OBVIOUS
        <3>5. /\ c \in Ios /\ c.bfs[b.nextone] = Buf("data", d) /\ c.pos = b.pos
              /\ c.newline = b.newline
            <4>1. b.nextone \in {0, 1} /\ Buf("data", d) \in Bufs
                BY <1>0, <1>s, <3>1, BufTypes
            <4> QED
                BY <3>4, <4>1, SetBuffer
        <3>6. r = [c EXCEPT !.pos = @ + Len(d)]
            BY <1>2, <2>2, <3>2, <3>4 DEF Filled, With
        <3>7. /\ r.bfs = c.bfs /\ r.pos = End(n + 1) /\ r.newline = b.newline
            BY <3>3, <3>5, <3>6 DEF Ios
        <3>8. r \in Ios
            BY FilledType
        <3>9. ReadTo(r, End(n + 1))
            BY <2>w, <3>7, <3>8
        <3> QED
            BY <3>1, <3>5, <3>7, <3>9
    <2> QED
        BY <2>1, <2>2
<1> QED
    BY <1>1, <1>2

\* read_ahead() with a free buffer.
LEMMA AheadFree ==
    ASSUME TaskOK, NEW b \in Ios, b.pos <= Len(task.file), b.bfs[b.nextone].state = "free",
           NEW fails \in BOOLEAN, NEW r, r = read_ahead(b, fails)
    PROVE  /\ r \in Ios /\ r.pos <= Len(task.file)
           /\ r.current = b.current /\ r.nextone = 1 - b.nextone
           /\ r.bfs[1 - b.nextone] = b.bfs[1 - b.nextone]
           /\ b.failed => r.failed
           /\ \A n \in Nat : ReadTo(b, End(n)) /\ ~Cut(r) =>
                 \/ r.bfs[b.nextone] = Buf("data", Segment(n + 1)) /\ ReadTo(r, End(n + 1))
                 \/ r.bfs[b.nextone] = Buf("error", <<>>) /\ r.failed
<1>1. PICK f : f = Filled(b, fails)
    OBVIOUS
<1>2. /\ f \in Ios /\ f.pos <= Len(task.file)
      /\ f.current = b.current /\ f.nextone = b.nextone
      /\ f.bfs[1 - b.nextone] = b.bfs[1 - b.nextone]
      /\ b.failed => f.failed
    BY <1>1, FilledType
<1>3. r = [f EXCEPT !.nextone = 1 - @]
    BY <1>1 DEF read_ahead
<1>4. /\ r \in Ios /\ r.current = f.current /\ r.nextone = 1 - f.nextone /\ r.bfs = f.bfs
      /\ r.pos = f.pos /\ r.failed = f.failed /\ r.newline = f.newline /\ r.prevchar = f.prevchar
    BY <1>2, <1>3, Turn
<1>5. ASSUME NEW n \in Nat, ReadTo(b, End(n)), ~Cut(r)
      PROVE  \/ r.bfs[b.nextone] = Buf("data", Segment(n + 1)) /\ ReadTo(r, End(n + 1))
             \/ r.bfs[b.nextone] = Buf("error", <<>>) /\ r.failed
    <2>1. ~Cut(f)
        BY <1>4, <1>5 DEF Cut
    <2>2. \/ f.bfs[b.nextone] = Buf("data", Segment(n + 1)) /\ ReadTo(f, End(n + 1))
          \/ f.bfs[b.nextone] = Buf("error", <<>>) /\ f.failed
        BY <1>1, <1>5, <2>1, FilledRight
    <2>3. ReadTo(f, End(n + 1)) => ReadTo(r, End(n + 1))
        BY <1>4 DEF ReadTo
    <2> QED
        BY <1>4, <2>2, <2>3
<1> QED
    BY <1>2, <1>4, <1>5

\* Where no buffer is free it does nothing.
LEMMA AheadFull ==
    ASSUME NEW b, NEW fails, b.bfs[b.nextone].state # "free"
    PROVE  read_ahead(b, fails) = b
    BY DEF read_ahead

\* readit() frees the current buffer and goes to the other, which was read ahead.
LEMMA ReaditNext ==
    ASSUME NEW b \in Ios, NEW fails, b.bfs[1 - b.current].state # "free",
           NEW r, r = readit(b, fails)
    PROVE  /\ r \in Ios /\ r.current = 1 - b.current
           /\ r.bfs[b.current] = BF_FREE /\ r.bfs[1 - b.current] = b.bfs[1 - b.current]
           /\ r.nextone = b.nextone /\ r.pos = b.pos /\ r.failed = b.failed /\ r.out = b.out
           /\ r.newline = b.newline /\ r.prevchar = b.prevchar
<1> DEFINE c == [b EXCEPT !.bfs[b.current] = BF_FREE, !.current = 1 - @]
<1>1. /\ c \in Ios /\ c.current = 1 - b.current
      /\ c.bfs[b.current] = BF_FREE /\ c.bfs[1 - b.current] = b.bfs[1 - b.current]
      /\ c.nextone = b.nextone /\ c.pos = b.pos /\ c.failed = b.failed /\ c.out = b.out
      /\ c.newline = b.newline /\ c.prevchar = b.prevchar
    <2>0. PICK e : e = With(b, b.current, BF_FREE)
        OBVIOUS
    <2>1. b.current \in {0, 1} /\ BF_FREE \in Bufs
        BY BufTypes DEF Ios
    <2>2. /\ e \in Ios /\ e.bfs[b.current] = BF_FREE /\ e.bfs[1 - b.current] = b.bfs[1 - b.current]
          /\ e.current = b.current /\ e.nextone = b.nextone /\ e.pos = b.pos
          /\ e.out = b.out /\ e.failed = b.failed
          /\ e.newline = b.newline /\ e.prevchar = b.prevchar
        BY <2>0, <2>1, SetBuffer
    <2>3. c = [e EXCEPT !.current = 1 - @]
        BY <2>0 DEF With
    <2> HIDE DEF c
    <2> QED
        BY <2>2, <2>3, Turn
<1>2. c.bfs[c.current].state # "free"
    BY <1>1
<1>3. readit(b, fails) = c
    BY <1>2 DEF readit
<1> QED
    BY <1>1, <1>3

\* Whatever was read ahead, it stays within the file and remembers a failure.
LEMMA ReaditType ==
    ASSUME TaskOK, NEW b \in Ios, b.pos <= Len(task.file), NEW fails \in BOOLEAN,
           NEW r, r = readit(b, fails)
    PROVE  r \in Ios /\ r.pos <= Len(task.file) /\ (b.failed => r.failed)
<1>1. PICK e, c : e = With(b, b.current, BF_FREE) /\ c = [e EXCEPT !.current = 1 - @]
    OBVIOUS
<1>2. b.current \in {0, 1} /\ BF_FREE \in Bufs
    BY BufTypes DEF Ios
<1>3. e \in Ios /\ e.pos = b.pos /\ e.failed = b.failed
    BY <1>1, <1>2, SetBuffer
<1>4. c \in Ios /\ c.pos = b.pos /\ c.failed = b.failed
    BY <1>1, <1>3, Turn
<1>5. r = IF c.bfs[c.current].state = "free" THEN read_ahead(c, fails) ELSE c
    BY <1>1 DEF readit, With
<1>6. CASE r = c
    BY <1>4, <1>6
<1>7. CASE r = read_ahead(c, fails)
    <2>1. CASE c.bfs[c.nextone].state = "free"
        BY <1>4, <1>7, <2>1, AheadFree
    <2>2. CASE c.bfs[c.nextone].state # "free"
        BY <1>4, <1>7, <2>2, AheadFull
    <2> QED
        BY <2>1, <2>2
<1> QED
    BY <1>5, <1>6, <1>7

\* write_behind() with a full buffer: its content is written, unless that failed.
LEMMA BehindFull ==
    ASSUME NEW b \in Ios, NEW fails \in BOOLEAN, b.bfs[b.nextone].state = "data",
           NEW r, r = write_behind(b, fails)
    PROVE  /\ r \in Ios /\ r.current = b.current /\ r.nextone = 1 - b.nextone
           /\ r.bfs[b.nextone] = BF_FREE /\ r.bfs[1 - b.nextone] = b.bfs[1 - b.nextone]
           /\ r.pos = b.pos
           /\ ~r.failed =>
                 /\ ~b.failed
                 /\ ~task.convert => r.out = b.out \o b.bfs[b.nextone].data
                 /\ task.convert => /\ r.out = Write(b, b.bfs[b.nextone].data).out
                                    /\ r.prevchar = Write(b, b.bfs[b.nextone].data).prevchar
<1> DEFINE c == [b EXCEPT !.bfs[b.nextone] = BF_FREE, !.nextone = 1 - @]
<1>1. /\ c \in Ios /\ c.current = b.current /\ c.nextone = 1 - b.nextone
      /\ c.bfs[b.nextone] = BF_FREE /\ c.bfs[1 - b.nextone] = b.bfs[1 - b.nextone]
      /\ c.pos = b.pos /\ c.failed = b.failed /\ c.out = b.out
    <2>0. PICK e : e = With(b, b.nextone, BF_FREE)
        OBVIOUS
    <2>1. b.nextone \in {0, 1} /\ BF_FREE \in Bufs
        BY BufTypes DEF Ios
    <2>2. /\ e \in Ios /\ e.bfs[b.nextone] = BF_FREE /\ e.bfs[1 - b.nextone] = b.bfs[1 - b.nextone]
          /\ e.current = b.current /\ e.nextone = b.nextone /\ e.pos = b.pos
          /\ e.out = b.out /\ e.failed = b.failed
        BY <2>0, <2>1, SetBuffer
    <2>3. c = [e EXCEPT !.nextone = 1 - @]
        BY <2>0 DEF With
    <2> HIDE DEF c
    <2> QED
        BY <2>2, <2>3, Turn
<1>2. PICK data, s : data = b.bfs[b.nextone].data /\ s = Write(b, data)
    OBVIOUS
<1>3. data \in Seq(Chars) /\ OutOK([prevchar |-> b.prevchar, out |-> b.out])
    BY <1>2 DEF Ios, Bufs, OutOK
<1>4. s.prevchar \in Chars \cup {"none"} /\ s.out \in Seq(Chars)
    <2>1. OutOK(s)
        BY <1>2, <1>3, LoopWritesType DEF Write
    <2> QED
        BY <2>1 DEF OutOK
<1>5. b.out \o data \in Seq(Chars)
    BY <1>3, ConcatProperties DEF Ios
<1>6. r = IF fails THEN [c EXCEPT !.failed = TRUE]
          ELSE IF task.convert THEN [c EXCEPT !.out = s.out, !.prevchar = s.prevchar]
          ELSE [c EXCEPT !.out = @ \o data]
    BY <1>2 DEF write_behind
<1> HIDE DEF c
<1>7. CASE fails
    BY <1>1, <1>6, <1>7 DEF Ios
<1>8. CASE ~fails /\ task.convert
    <2>1. r = [c EXCEPT !.out = s.out, !.prevchar = s.prevchar]
        BY <1>6, <1>8
    <2>2. r \in Ios /\ r.current = c.current /\ r.nextone = c.nextone /\ r.bfs = c.bfs
        BY <1>1, <1>4, <2>1 DEF Ios
    <2>3. r.pos = c.pos /\ r.failed = c.failed /\ r.out = s.out /\ r.prevchar = s.prevchar
        BY <1>1, <2>1 DEF Ios
    <2> QED
        BY <1>1, <1>2, <1>8, <2>2, <2>3
<1>9. CASE ~fails /\ ~task.convert
    BY <1>1, <1>2, <1>5, <1>6, <1>9 DEF Ios
<1> QED
    BY <1>7, <1>8, <1>9

\* So what was received up to the end of a block is written.
LEMMA BehindWrote ==
    ASSUME TaskOK, NEW b \in Ios, NEW n \in Nat, b.bfs[b.nextone] = Buf("data", Segment(n + 1)),
           WroteTo(b, End(n)), NEW fails \in BOOLEAN, NEW r, r = write_behind(b, fails), ~r.failed
    PROVE  WroteTo(r, End(n + 1))
<1>s. /\ Segment(n + 1) = SubSeq(task.wire, End(n) + 1, End(n + 1))
      /\ Segment(n + 1) \in Seq(Chars) /\ End(n) <= End(n + 1)
    BY SegmentRead
<1>e. /\ End(n) \in 0..Len(task.wire) /\ End(n + 1) \in 0..Len(task.wire)
      /\ Len(task.wire) \in Nat
    <2>1. n + 1 \in Nat
        OBVIOUS
    <2> QED
        BY <2>1, Ends
<1>1. b.bfs[b.nextone].state = "data" /\ b.bfs[b.nextone].data = Segment(n + 1)
    BY <1>s, BufTypes
<1>2. ~task.convert => r.out = b.out \o b.bfs[b.nextone].data
    BY <1>1, BehindFull
<1>a. task.convert => r.out = Write(b, b.bfs[b.nextone].data).out
    BY <1>1, BehindFull
<1>b. task.convert => r.prevchar = Write(b, b.bfs[b.nextone].data).prevchar
    BY <1>1, BehindFull
<1>3. CASE task.convert
    <2>1. PICK u, data : u = [prevchar |-> b.prevchar, out |-> b.out] /\ data = Segment(n + 1)
        OBVIOUS
    <2>2. PICK s : s = NetasciiWrite(u, data)
        OBVIOUS
    <2>3. r.out = s.out /\ r.prevchar = s.prevchar
        BY <1>1, <1>a, <1>b, <1>3, <2>1, <2>2 DEF Write
    <2>4. WroteTo(u, End(n))
        BY <2>1 DEF WroteTo
    <2>5. PICK e, end : e = End(n) /\ end = End(n + 1)
        OBVIOUS
    <2>6. /\ e \in Nat /\ end \in Nat /\ e <= end /\ end <= Len(task.wire) /\ WroteTo(u, e)
          /\ data = SubSeq(task.wire, e + 1, end)
        BY <1>e, <1>s, <2>1, <2>4, <2>5
    <2>7. WroteTo(s, end)
        BY <1>3, <2>2, <2>6, LoopWrites
    <2> QED
        BY <2>3, <2>5, <2>7 DEF WroteTo
<1>4. CASE ~task.convert
    <2>1. /\ task.wire = task.file
          /\ \A x : \A e \in 0..Len(task.file) : WroteTo(x, e) <=> x.out = SubSeq(task.file, 1, e)
        BY <1>4, OctetPlaces
    <2>2. b.out = Upto(n)
        BY <1>e, <2>1 DEF Upto
    <2>3. r.out = Upto(n) \o Segment(n + 1)
        BY <1>1, <1>2, <1>4, <2>2
    <2>4. r.out = Upto(n + 1)
        BY <2>3, Blocks
    <2> QED
        BY <1>e, <2>1, <2>4 DEF Upto
<1> QED
    BY <1>3, <1>4

\* Where there is no full buffer it does nothing.
LEMMA BehindIdle ==
    ASSUME NEW b, NEW fails, b.bfs[b.nextone].state # "data"
    PROVE  write_behind(b, fails) = b
    BY DEF write_behind

\* writeit() keeps the block and hands out the other buffer.
LEMMA WriteitNext ==
    ASSUME NEW b \in Ios, NEW data \in Seq(Chars), NEW fails,
           b.bfs[1 - b.current] = BF_FREE,
           NEW r, r = writeit(b, data, fails)
    PROVE  /\ r \in Ios /\ r.current = 1 - b.current /\ r.nextone = b.nextone
           /\ r.bfs[b.current] = Buf("data", data) /\ r.bfs[1 - b.current] = BF_ALLOC
           /\ r.pos = b.pos /\ r.failed = b.failed /\ r.out = b.out /\ r.prevchar = b.prevchar
<1> DEFINE c == [b EXCEPT !.bfs[b.current] = Buf("data", data), !.current = 1 - @]
<1>1. /\ c \in Ios /\ c.current = 1 - b.current /\ c.nextone = b.nextone
      /\ c.bfs[b.current] = Buf("data", data) /\ c.bfs[1 - b.current] = BF_FREE
      /\ c.pos = b.pos /\ c.failed = b.failed /\ c.out = b.out /\ c.prevchar = b.prevchar
    <2>0. PICK e : e = With(b, b.current, Buf("data", data))
        OBVIOUS
    <2>1. b.current \in {0, 1} /\ Buf("data", data) \in Bufs
        BY BufTypes DEF Ios
    <2>2. /\ e \in Ios /\ e.bfs[b.current] = Buf("data", data)
          /\ e.bfs[1 - b.current] = b.bfs[1 - b.current]
          /\ e.current = b.current /\ e.nextone = b.nextone /\ e.pos = b.pos
          /\ e.out = b.out /\ e.failed = b.failed /\ e.prevchar = b.prevchar
        BY <2>0, <2>1, SetBuffer
    <2>3. c = [e EXCEPT !.current = 1 - @]
        BY <2>0 DEF With
    <2> HIDE DEF c
    <2> QED
        BY <2>2, <2>3, Turn
<1>2. c.bfs[c.current].state = "free"
    BY <1>1 DEF BF_FREE, Buf
<1>3. r = With(c, c.current, BF_ALLOC)
    BY <1>2 DEF writeit, With
<1> HIDE DEF c
<1>4. QED
    <2>1. c.current \in {0, 1} /\ b.current = 1 - c.current /\ BF_ALLOC \in Bufs
        BY <1>1, BufTypes DEF Ios
    <2>2. /\ r \in Ios /\ r.bfs[c.current] = BF_ALLOC /\ r.bfs[1 - c.current] = c.bfs[1 - c.current]
          /\ r.current = c.current /\ r.nextone = c.nextone /\ r.pos = c.pos
          /\ r.out = c.out /\ r.failed = c.failed /\ r.prevchar = c.prevchar
        BY <1>1, <1>3, <2>1, SetBuffer
    <2> QED
        BY <1>1, <2>1, <2>2

-----------------------------------------------------------------------------
(* Packets and the socket.                                                   *)

\* The file stays the same, and with it its blocks and places.
LEMMA SameTask ==
    ASSUME task' = task
    PROVE  /\ (put' <=> put) /\ (TaskOK' <=> TaskOK)
           /\ \A n : Segment(n)' = Segment(n) /\ End(n)' = End(n) /\ Upto(n)' = Upto(n)
           /\ \A b : Cut(b)' <=> Cut(b)
           /\ \A b, e : (ReadTo(b, e)' <=> ReadTo(b, e)) /\ (WroteTo(b, e)' <=> WroteTo(b, e))
    BY DEF put, TaskOK, Segment, End, Upto, Cut, ReadTo, WroteTo, Wrote, Place, Double

\* Block numbers below Word are not changed by the packet.
LEMMA Modulo ==
    ASSUME NEW n \in 0..Word
    PROVE  /\ n % Word \in 0..(Word - 1)
           /\ n < Word => n % Word = n
           /\ n = Word => n % Word = 0
<1>1. Word \in Nat /\ Word > 0
    BY TftpConstants
<1> QED
    BY <1>1

\* A packet is made of its parts.
LEMMA PacketType ==
    ASSUME NEW op \in {"request", "data", "ack", "error"}, NEW blk \in 0..(Word - 1),
           NEW data \in Seq(Chars), NEW from \in Servers \cup {Own},
           NEW to \in Servers \cup {Own, Well}
    PROVE  Packet(op, blk, data, from, to) \in Packets
    BY DEF Packet, Packets

\* Of the packets under way all were there before, but one.
LEMMA SentOne ==
    ASSUME NEW n, NEW p, NEW m \in Sent(n, p), NEW q \in m
    PROVE  q \in n \/ q = p
    BY DEF Sent

\* What is left in the socket was there before.
LEMMA QueueShrinks ==
    ASSUME queue \in Seq(Packets),
           queue' \in {queue, <<>>} \/ (queue # <<>> /\ queue' = Tail(queue))
    PROVE  /\ queue' \in Seq(Packets)
           /\ \A i \in 1..Len(queue') : \E j \in 1..Len(queue) : queue'[i] = queue[j]
<1>1. CASE queue' = queue
    BY <1>1
<1>2. CASE queue' = <<>>
    BY <1>2
<1>3. CASE queue # <<>> /\ queue' = Tail(queue)
    <2>1. /\ queue' \in Seq(Packets) /\ Len(queue') = Len(queue) - 1 /\ Len(queue) \in Nat
          /\ \A i \in 1..Len(queue') : queue'[i] = queue[i + 1]
        BY <1>3, HeadTailProperties, LenProperties
    <2>2. ASSUME NEW i \in 1..Len(queue')
          PROVE  i + 1 \in 1..Len(queue)
        BY <2>1
    <2> QED
        BY <2>1, <2>2
<1> QED
    BY <1>1, <1>2, <1>3

\* The client's packet, with what is in its buffer.
LEMMA PutOutgoing ==
    ASSUME put, block \in 0..Word, NEW to, NEW b
    PROVE  [Outgoing(b, block) EXCEPT !.to = to]
               = IF block = 0 THEN Packet("request", 0, <<>>, Own, to)
                 ELSE Packet("data", block % Word, b.bfs[b.current].data, Own, to)
    BY TftpConstants DEF Outgoing, Packet

\* It is a packet, with a number the field can hold, and it is no acknowledgement.
LEMMA PutOutgoingType ==
    ASSUME block \in 0..Word, NEW data \in Seq(Chars),
           NEW to \in Servers \cup {Well},
           NEW p, p = IF block = 0 THEN Packet("request", 0, <<>>, Own, to)
                      ELSE Packet("data", block % Word, data, Own, to)
    PROVE  /\ p \in Packets /\ p.from = Own /\ p.to = to
           /\ p.op \in {"request", "data"}
           /\ p.op = "data" => block > 0 /\ p.blk = block % Word /\ p.data = data
<1>0. Word \in Nat /\ Word > 0
    BY TftpConstants
<1>1. CASE block = 0
    <2>1. p = Packet("request", 0, <<>>, Own, to)
        BY <1>1
    <2>2. 0 \in 0..(Word - 1) /\ <<>> \in Seq(Chars)
        BY <1>0
    <2>3. p \in Packets
        BY <2>1, <2>2, PacketType
    <2> QED
        BY <2>1, <2>3 DEF Packet
<1>2. CASE block # 0
    <2>1. p = Packet("data", block % Word, data, Own, to)
        BY <1>2
    <2>2. block - 1 \in Nat /\ block = (block - 1) + 1 /\ block > 0
        BY <1>0, <1>2
    <2>3. block % Word \in 0..(Word - 1)
        BY Modulo
    <2>4. p \in Packets
        BY <2>1, <2>3, PacketType
    <2> QED
        BY <2>1, <2>2, <2>4 DEF Packet
<1> QED
    BY <1>1, <1>2

\* The request, or the acknowledgement of the block before blk.
LEMMA GetOutgoing ==
    ASSUME ~put, NEW to, NEW b, NEW blk \in 1..Word
    PROVE  [Outgoing(b, blk) EXCEPT !.to = to]
               = IF blk = 1 THEN Packet("request", 0, <<>>, Own, to)
                 ELSE Packet("ack", (blk - 1) % Word, <<>>, Own, to)
    BY DEF Outgoing, Packet

\* It is a packet, and it acknowledges a block that was received.
LEMMA GetOutgoingType ==
    ASSUME NEW to \in Servers \cup {Well}, NEW blk \in 1..Word,
           NEW p, p = IF blk = 1 THEN Packet("request", 0, <<>>, Own, to)
                      ELSE Packet("ack", (blk - 1) % Word, <<>>, Own, to)
    PROVE  /\ p \in Packets /\ p.from = Own /\ p.to = to
           /\ p.op \in {"request", "ack"}
           /\ p.op = "ack" => p.blk \in 1..(blk - 1)
<1>0. Word \in Nat /\ Word > 0 /\ <<>> \in Seq(Chars)
    BY TftpConstants
<1>1. CASE blk = 1
    <2>1. p = Packet("request", 0, <<>>, Own, to)
        BY <1>1
    <2>2. 0 \in 0..(Word - 1)
        BY <1>0
    <2>3. p \in Packets
        BY <1>0, <2>1, <2>2, PacketType
    <2> QED
        BY <2>1, <2>3 DEF Packet
<1>2. CASE blk # 1
    <2>1. (blk - 1) % Word = blk - 1 /\ blk - 1 \in 0..(Word - 1) /\ blk - 1 >= 1
        BY <1>0, <1>2, Modulo
    <2>2. p = Packet("ack", blk - 1, <<>>, Own, to)
        BY <1>2, <2>1
    <2>3. p \in Packets
        BY <1>0, <2>1, <2>2, PacketType
    <2> QED
        BY <2>1, <2>2, <2>3 DEF Packet
<1> QED
    BY <1>1, <1>2

-----------------------------------------------------------------------------
(* sendfile() at its sendto().                                               *)

\* The other buffer holds the next block, or an error.
Ahead(b) ==
    \/ b.bfs[1 - b.current] = Buf("data", Segment(block + 1)) /\ ReadTo(b, End(block + 1))
    \/ b.bfs[1 - b.current] = Buf("error", <<>>) /\ b.failed

Current(b) == b.bfs[b.current] = IF block = 0 THEN BF_ALLOC ELSE Buf("data", Segment(block))

\* The buffers with a block to send: the other one is free, or was read ahead.
ToSend(b) ==
    /\ Current(b)
    /\ \/ b.bfs[1 - b.current] = BF_FREE /\ b.nextone = 1 - b.current /\ ReadTo(b, End(block))
       \/ b.nextone = b.current /\ Ahead(b)

\* After read_ahead() the other one has been read, whether or not it had been before,
\* and the current one is as it was.
LEMMA ReadsAhead ==
    ASSUME TaskOK, put, block \in Nat, NEW b \in Ios, b.pos <= Len(task.file),
           NEW fails \in BOOLEAN, NEW r, r = Behind(b, fails)
    PROVE  /\ r \in Ios /\ r.pos <= Len(task.file) /\ (b.failed => r.failed)
           /\ ToSend(b) /\ ~Cut(r) => Current(r) /\ r.nextone = r.current /\ Ahead(r)
<1>1. r = read_ahead(b, fails)
    BY DEF Behind
<1>2. b.current \in {0, 1} /\ b.nextone \in {0, 1}
    BY DEF Ios
<1>3. CASE b.bfs[b.nextone].state = "free"
    <2>1. /\ r \in Ios /\ r.pos <= Len(task.file) /\ (b.failed => r.failed)
          /\ r.current = b.current /\ r.nextone = 1 - b.nextone
          /\ r.bfs[1 - b.nextone] = b.bfs[1 - b.nextone]
        BY <1>1, <1>3, AheadFree
    <2>2. ASSUME ToSend(b), ~Cut(r)
          PROVE  Current(r) /\ r.nextone = r.current /\ Ahead(r)
        <3>1. b.bfs[b.current].state # "free"
            <4>1. CASE block = 0
                BY <2>2, <4>1, BufTypes DEF ToSend, Current
            <4>2. CASE block # 0
                BY <2>2, <4>2 DEF ToSend, Current, Buf
            <4> QED
                BY <4>1, <4>2
        <3>2. b.nextone = 1 - b.current /\ ReadTo(b, End(block)) /\ 1 - b.nextone = b.current
            BY <1>2, <1>3, <2>2, <3>1 DEF ToSend
        <3>3. \/ r.bfs[b.nextone] = Buf("data", Segment(block + 1)) /\ ReadTo(r, End(block + 1))
              \/ r.bfs[b.nextone] = Buf("error", <<>>) /\ r.failed
            BY <1>1, <1>3, <2>2, <3>2, AheadFree
        <3> QED
            BY <2>1, <2>2, <3>2, <3>3 DEF ToSend, Current, Ahead
    <2> QED
        BY <2>1, <2>2
<1>4. CASE b.bfs[b.nextone].state # "free"
    <2>1. r = b
        BY <1>1, <1>4, AheadFull
    <2>2. ToSend(b) => b.nextone = b.current /\ Ahead(b)
        BY <1>4, BufTypes DEF ToSend
    <2> QED
        BY <2>1, <2>2 DEF ToSend
<1> QED
    BY <1>3, <1>4

\* A packet of a put stays right while servers and client go on.
LEMMA PutPacketKept ==
    ASSUME task' = task, NEW p \in Packets, PutPacket(p),
           Held \in Int, Held' \in Int, Held <= Held',
           \A s \in Servers : /\ srv[s].blk \in Nat /\ srv'[s].blk \in Nat
                              /\ srv[s].blk <= srv'[s].blk
    PROVE  PutPacket(p)'
<1>1. p.op = "data" => p.blk \in 1..Held' /\ p.data = Segment(p.blk)'
    BY SameTask DEF PutPacket
<1>2. p.op = "ack" => p.to = Own /\ p.from \in Servers /\ p.blk <= srv'[p.from].blk
    <2>1. p.blk \in Int
        BY TftpConstants DEF Packets
    <2> QED
        BY <2>1 DEF PutPacket
<1> QED
    BY <1>1, <1>2 DEF PutPacket

\* Whatever sends a block of a put: the request, a new block, an answer to a packet
\* that came again, the alarm.
LEMMA PutSends ==
    ASSUME DataOK, ControlOK, Putting, put, pc # "ended",
           task' = task, block' = block, srv' = srv,
           timeout' \in 0..(Tries - 1), port' \in Servers \cup {Well}, masked' \in BOOLEAN,
           queue' \in {queue, <<>>} \/ (queue # <<>> /\ queue' = Tail(queue)),
           NEW b \in Ios, b.pos <= Len(task.file), io.failed => b.failed,
           ~Cut(b) => ToSend(b), NEW to \in Servers \cup {Well}, Send(b, block, to)
    PROVE  DataOK' /\ ControlOK' /\ Reading' /\ Putting' /\ outcome' # "ok"
<1>t. TaskOK /\ block \in 0..Word
    BY DEF DataOK, ControlOK
<1>w. Word \in Nat /\ Word > 0 /\ block \in Nat
    BY <1>t, TftpConstants
<1>o. outcome # "ok"
    BY DEF ControlOK
<1>p. put' /\ TaskOK'
    BY <1>t, SameTask
<1>q. /\ queue' \in Seq(Packets)
      /\ \A i \in 1..Len(queue') : \E j \in 1..Len(queue) : queue'[i] = queue[j]
    BY QueueShrinks DEF ControlOK
<1>r. queue' \in Seq(Packets) /\ \A i \in 1..Len(queue') : queue'[i].from \in Servers
    BY <1>q DEF ControlOK
<1>1. CASE Abort("error", b, block, to)
    <2>1. outcome' = "error" /\ pc' = "ended" /\ net' = net /\ io' = b
        BY <1>1 DEF Abort
    <2>2. DataOK'
        BY <1>p, <2>1 DEF DataOK
    <2>3. ControlOK'
        BY <2>1, <1>p, <1>r DEF ControlOK
    <2> QED
        BY <2>1, <2>2, <2>3 DEF Reading, Putting, Known
<1>2. CASE ~Abort("error", b, block, to)
    <2>0. PICK m : m = [Outgoing(b, block) EXCEPT !.to = to]
        OBVIOUS
    <2>1. /\ net' \in Sent(net, m) /\ pc' = "wait" /\ outcome' = outcome
          /\ \E fails \in BOOLEAN : io' = Behind(b, fails)
        BY <1>2, <2>0 DEF Send, MayFail
    <2>2. /\ io' \in Ios /\ io'.pos <= Len(task.file) /\ (b.failed => io'.failed)
          /\ ToSend(b) /\ ~Cut(io') => Current(io') /\ io'.nextone = io'.current /\ Ahead(io')
        BY <1>t, <1>w, <2>1, ReadsAhead
    <2>d. PICK data : data = b.bfs[b.current].data
        OBVIOUS
    <2>e. data \in Seq(Chars)
        BY <2>d DEF Ios, Bufs
    <2>3. /\ m \in Packets /\ m.from = Own /\ m.to = to
          /\ m.op \in {"request", "data"}
          /\ m.op = "data" => block > 0 /\ m.blk = block % Word /\ m.data = data
        <3>1. m = IF block = 0 THEN Packet("request", 0, <<>>, Own, to)
                  ELSE Packet("data", block % Word, data, Own, to)
            BY <1>t, <2>0, <2>d, PutOutgoing
        <3> QED
            BY <1>t, <2>e, <3>1, PutOutgoingType
    <2>4. ASSUME ~Cut(io')
          PROVE  /\ ~Cut(io) /\ ToSend(b)
                 /\ Current(io') /\ io'.nextone = io'.current /\ Ahead(io')
                 /\ m.op = "data" => m.data = Segment(block)
        <3>1. ~Cut(b) /\ ~Cut(io)
            BY <2>2, <2>4 DEF Cut
        <3>2. ToSend(b)
            BY <3>1
        <3>3. m.op = "data" => b.bfs[b.current] = Buf("data", Segment(block))
            BY <1>w, <2>3, <3>2 DEF ToSend, Current
        <3>4. m.op = "data" => m.data = Segment(block)
            BY <2>3, <2>d, <3>3 DEF Buf
        <3> QED
            BY <2>2, <2>4, <3>1, <3>2, <3>4
    <2>5. DataOK'
        BY <1>p, <2>2 DEF DataOK
    <2>6. m.to # Own
        BY <2>3 DEF Own, Well, Servers
    <2>7. ControlOK'
        <3>1. \A p \in net' : p \in Packets /\ (p.to = Own => p.from \in Servers)
            BY <2>1, <2>3, <2>6, SentOne DEF ControlOK
        <3> QED
            BY <2>1, <1>p, <1>r, <1>o, <3>1 DEF ControlOK
    <2>h. Held' = block
        BY <2>1 DEF Held
    <2>8. Reading'
        <3> SUFFICES ASSUME ~Cut(io)' PROVE Reading'
            BY DEF Reading
        <3>1. ~Cut(io')
            BY DEF Cut
        <3>2. Current(io') /\ io'.nextone = io'.current /\ Ahead(io')
            BY <2>4, <3>1
        <3> QED
            BY <2>1, <2>h, <3>2, SameTask DEF Reading, Current, Ahead, BF_ALLOC, Buf
    <2>9. Putting'
        <3> SUFFICES ASSUME Known'
                     PROVE  /\ \A p \in net' : PutPacket(p)'
                            /\ \A i \in 1..Len(queue') : PutPacket(queue[i])'
                            /\ \A s \in Servers : srv'[s].blk <= Held' /\ srv'[s].got = Upto(srv[s].blk)'
            BY DEF Putting
        <3>a. ~Cut(io') /\ block < Word
            BY DEF Known, Cut
        <3>b. Known
            BY <2>4, <3>a DEF Known
        <3>0. /\ \A p \in net : PutPacket(p)
              /\ \A i \in 1..Len(queue) : PutPacket(queue[i])
              /\ \A s \in Servers : srv[s].blk <= Held /\ srv[s].got = Upto(srv[s].blk)
            BY <3>b DEF Putting
        <3>1. Held \in Int /\ Held <= block /\ Held' = block
            BY <1>w, <2>h DEF Held
        <3>2. \A s \in Servers : srv[s].blk \in Nat
            BY DEF ControlOK
        <3>3. ASSUME NEW p \in Packets, PutPacket(p) PROVE PutPacket(p)'
            BY <1>w, <3>1, <3>2, <3>3, PutPacketKept
        <3>4. ASSUME m.op = "data" PROVE m.blk = block /\ m.blk \in 1..block /\ m.data = Segment(m.blk)
            BY <1>w, <1>t, <2>3, <2>4, <3>4, <3>a, Modulo
        <3>5. PutPacket(m)'
            BY <2>3, <3>1, <3>4, SameTask DEF PutPacket
        <3>6. \A p \in net' : PutPacket(p)'
            <4> SUFFICES ASSUME NEW p \in net' PROVE PutPacket(p)'
                OBVIOUS
            <4>1. p = m \/ (p \in net /\ p \in Packets)
                BY <2>1, SentOne DEF ControlOK
            <4> QED
                BY <3>0, <3>3, <3>5, <4>1
        <3>7. \A i \in 1..Len(queue') : PutPacket(queue[i])'
            <4> SUFFICES ASSUME NEW i \in 1..Len(queue') PROVE PutPacket(queue[i])'
                OBVIOUS
            <4>1. PICK j \in 1..Len(queue) : queue'[i] = queue[j]
                BY <1>q
            <4>2. queue[j] \in Packets /\ PutPacket(queue[j])
                BY <3>0 DEF ControlOK
            <4> QED
                BY <3>3, <4>1, <4>2
        <3>8. \A s \in Servers : srv'[s].blk <= Held' /\ srv'[s].got = Upto(srv[s].blk)'
            BY <1>w, <3>0, <3>1, <3>2, SameTask
        <3> QED
            BY <3>6, <3>7, <3>8
    <2> QED
        BY <1>o, <2>1, <2>5, <2>7, <2>8, <2>9
<1> QED
    BY <1>1, <1>2

-----------------------------------------------------------------------------
(* recvfile() at its sendto() and at its end.                                *)

\* The buffers when n - 1 blocks are written.
Idle(b, n) ==
    /\ b.bfs[b.current] = BF_ALLOC
    /\ b.nextone = b.current /\ b.bfs[1 - b.current] = BF_FREE
    /\ ~b.failed => WroteTo(b, End(n - 1))

\* And when one of them is received and not yet written.
Full(b, n) ==
    /\ n > 1 /\ b.bfs[b.current] = BF_ALLOC
    /\ b.nextone = 1 - b.current /\ b.bfs[b.nextone] = Buf("data", Segment(n - 1))
    /\ ~b.failed => WroteTo(b, End(n - 2))

ToAck(b, n) == b \in Ios /\ b.pos <= Len(task.file) /\ (Idle(b, n) \/ Full(b, n))

\* write_behind() writes what there is to write.
LEMMA WritesBehind ==
    ASSUME TaskOK, NEW n \in Nat \ {0},
           NEW b, ToAck(b, n), NEW fails \in BOOLEAN, NEW r, r = write_behind(b, fails)
    PROVE  r \in Ios /\ r.pos <= Len(task.file) /\ Idle(r, n)
<1>1. b \in Ios /\ b.pos <= Len(task.file) /\ b.current \in {0, 1}
    BY DEF ToAck, Ios
<1>2. CASE Idle(b, n)
    <2>1. b.bfs[b.nextone].state # "data"
        BY <1>2, BufTypes DEF Idle
    <2> QED
        BY <1>1, <1>2, <2>1, BehindIdle
<1>3. CASE Full(b, n)
    <2>1. PICK k : k = n - 2
        OBVIOUS
    <2>2. k \in Nat /\ k + 1 = n - 1
        BY <1>3, <2>1 DEF Full
    <2>3. Segment(k + 1) \in Seq(Chars)
        BY <2>2, SegmentRead
    <2>4. b.bfs[b.nextone] = Buf("data", Segment(k + 1)) /\ (~b.failed => WroteTo(b, End(k)))
        BY <1>3, <2>1, <2>2 DEF Full
    <2>5. b.bfs[b.nextone].state = "data"
        BY <2>3, <2>4, BufTypes
    <2>6. /\ r \in Ios /\ r.current = b.current /\ r.nextone = 1 - b.nextone
          /\ r.bfs[b.nextone] = BF_FREE /\ r.bfs[1 - b.nextone] = b.bfs[1 - b.nextone]
          /\ r.pos = b.pos /\ (~r.failed => ~b.failed)
        BY <1>1, <2>5, BehindFull
    <2>7. ~r.failed => WroteTo(r, End(k + 1))
        BY <1>1, <2>2, <2>4, <2>6, BehindWrote
    <2>8. 1 - b.nextone = b.current /\ b.nextone = 1 - b.current
        BY <1>1, <1>3 DEF Full
    <2> QED
        BY <1>1, <1>3, <2>2, <2>6, <2>7, <2>8 DEF Full, Idle
<1> QED
    BY <1>2, <1>3 DEF ToAck

\* What is written up to a place of the wire is a beginning of the file, perhaps with
\* the first half of a newline behind it.
LEMMA WroteRight ==
    ASSUME TaskOK, NEW b, NEW e, WroteTo(b, e)
    PROVE  \E k \in 0..Len(task.file) :
              \/ b.out = SubSeq(task.file, 1, k)
              \/ /\ k < Len(task.file) /\ task.file[k + 1] = lf /\ task.convert
                 /\ b.out = Append(SubSeq(task.file, 1, k), cr)
<1>0. Len(task.file) \in Nat /\ task.file \in Seq(Chars)
    BY Wire DEF TaskOK, Tasks
<1>1. PICK k \in 0..Len(task.file) : Wrote(b.out, k, e)
    BY DEF WroteTo
<1>2. CASE b.out = SubSeq(task.file, 1, k)
    BY <1>2
<1>3. CASE /\ k < Len(task.file) /\ Double(task.file[k + 1])
           /\ b.out = Append(SubSeq(task.file, 1, k), cr)
    <2>1. CASE task.file[k + 1] = lf
        BY <1>3, <2>1 DEF Double
    <2>2. CASE task.file[k + 1] = cr
        <3>1. k \in Nat /\ k + 1 \in 0..Len(task.file)
            BY <1>0, <1>3
        <3>2. Append(SubSeq(task.file, 0 + 1, k), task.file[k + 1]) = SubSeq(task.file, 0 + 1, k + 1)
            BY <1>0, <1>3, <3>1, SubSeqMore
        <3>3. b.out = SubSeq(task.file, 1, k + 1)
            BY <1>3, <2>2, <3>2
        <3> QED
            BY <3>1, <3>3
    <2> QED
        BY <1>3, <2>1, <2>2 DEF Double
<1> QED
    BY <1>1, <1>2, <1>3 DEF Wrote

\* A packet of a get stays right while servers and client go on.
LEMMA GetPacketKept ==
    ASSUME task' = task, NEW p \in Packets, GetPacket(p),
           block \in Nat, block' \in Nat, block <= block',
           \A s \in Servers : /\ srv[s].blk \in Nat /\ srv'[s].blk \in Nat
                              /\ srv[s].blk <= srv'[s].blk
    PROVE  GetPacket(p)'
<1>1. ASSUME p.op = "data"
      PROVE  /\ p.to = Own /\ p.from \in Servers
             /\ \E a \in 1..srv'[p.from].blk : p.blk = a % Word /\ p.data = Segment(a)'
    <2>1. /\ p.to = Own /\ p.from \in Servers
          /\ \E a \in 1..srv[p.from].blk : p.blk = a % Word /\ p.data = Segment(a)
        BY <1>1 DEF GetPacket
    <2>2. PICK a \in 1..srv[p.from].blk : p.blk = a % Word /\ p.data = Segment(a)
        BY <2>1
    <2>3. a \in 1..srv'[p.from].blk
        BY <2>1, <2>2
    <2> QED
        BY <2>1, <2>2, <2>3, SameTask
<1>2. p.op = "ack" => p.blk \in 1..(block' - 1)
    BY DEF GetPacket
<1> QED
    BY <1>1, <1>2 DEF GetPacket

\* The label abort of recvfile(): what was received is written.
LEMMA GetEnds ==
    ASSUME DataOK, ControlOK, ~put,
           task' = task, block' \in 0..Word, block' > 0, srv' = srv,
           timeout' \in 0..(Tries - 1), port' \in Servers \cup {Well}, masked' \in BOOLEAN,
           queue' \in {queue, <<>>} \/ (queue # <<>> /\ queue' = Tail(queue)),
           NEW why \in {"ok", "error"}, NEW n \in Nat \ {0}, NEW b, ToAck(b, n),
           NEW blk \in 0..Word, NEW to \in Servers \cup {Well}, Abort(why, b, blk, to),
           why = "ok" => End(n - 1) = Len(task.wire)
    PROVE  DataOK' /\ ControlOK' /\ WrittenRight' /\ pc' = "ended"
<1>t. TaskOK
    BY DEF DataOK
<1>p. ~put' /\ TaskOK'
    BY <1>t, SameTask
<1>q. /\ queue' \in Seq(Packets)
      /\ \A i \in 1..Len(queue') : \E j \in 1..Len(queue) : queue'[i] = queue[j]
    BY QueueShrinks DEF ControlOK
<1>r. queue' \in Seq(Packets) /\ \A i \in 1..Len(queue') : queue'[i].from \in Servers
    BY <1>q DEF ControlOK
<1>1. /\ outcome' = why /\ pc' = "ended"
      /\ net' \in Sent(net, Packet("ack", blk % Word, <<>>, Own, to))
      /\ \E fails \in BOOLEAN : io' = write_behind(b, fails)
    BY DEF Abort, MayFail
<1>2. io' \in Ios /\ io'.pos <= Len(task.file) /\ Idle(io', n)
    BY <1>t, <1>1, WritesBehind
<1>3. DataOK'
    BY <1>p, <1>2 DEF DataOK
<1>4. ControlOK'
    <2>0. PICK m : m = Packet("ack", blk % Word, <<>>, Own, to)
        OBVIOUS
    <2>1. blk % Word \in 0..(Word - 1) /\ <<>> \in Seq(Chars)
        BY Modulo
    <2>2. m \in Packets
        BY <2>0, <2>1, PacketType
    <2>3. m.to # Own
        BY <2>0 DEF Packet, Own, Well, Servers
    <2>4. \A p \in net' : p \in Packets /\ (p.to = Own => p.from \in Servers)
        BY <1>1, <2>0, <2>2, <2>3, SentOne DEF ControlOK
    <2> QED
        BY <1>1, <1>p, <1>r, <2>4 DEF ControlOK
<1>5. WrittenRight'
    <2> SUFFICES ASSUME ~io'.failed
                 PROVE  /\ \E k \in 0..Len(task.file) :
                              \/ io'.out = SubSeq(task.file, 1, k)
                              \/ /\ k < Len(task.file) /\ task.file[k + 1] = lf /\ task.convert
                                 /\ io'.out = Append(SubSeq(task.file, 1, k), cr)
                        /\ outcome' = "ok" => io'.out = task.file
        BY DEF WrittenRight
    <2>1. WroteTo(io', End(n - 1))
        BY <1>2 DEF Idle
    <2>2. outcome' = "ok" => io'.out = task.file
        BY <1>t, <1>1, <2>1, WroteAll
    <2> QED
        BY <1>t, <2>1, <2>2, WroteRight
<1> QED
    BY <1>1, <1>3, <1>4, <1>5

\* Whatever sends an acknowledgement, or the request of a get.
LEMMA GetSends ==
    ASSUME DataOK, ControlOK, Getting, ~put, pc # "ended", srv' = srv,
           NEW blk \in 1..Word, task' = task, block' = blk, block <= blk,
           timeout' \in 0..(Tries - 1), port' \in Servers \cup {Well}, masked' \in BOOLEAN,
           queue' \in {queue, <<>>} \/ (queue # <<>> /\ queue' = Tail(queue)),
           NEW b, ToAck(b, blk), NEW to \in Servers \cup {Well}, Send(b, blk, to)
    PROVE  DataOK' /\ ControlOK' /\ Writing' /\ Getting' /\ WrittenRight'
<1>t. TaskOK
    BY DEF DataOK
<1>w. /\ Word \in Nat /\ Word > 0 /\ block \in Nat /\ blk \in Nat \ {0} /\ blk \in 0..Word
      /\ block > 0
    <2>1. Word \in Nat /\ Word > 0
        BY TftpConstants
    <2>2. block \in 0..Word /\ block > 0
        BY DEF ControlOK
    <2> QED
        BY <2>1, <2>2
<1>p. ~put' /\ TaskOK'
    BY <1>t, SameTask
<1>1. CASE Abort("error", b, blk, to)
    <2>1. DataOK' /\ ControlOK' /\ WrittenRight' /\ pc' = "ended"
        BY <1>1, <1>w, GetEnds
    <2> QED
        BY <2>1 DEF Writing, Getting
<1>2. CASE ~Abort("error", b, blk, to)
    <2>0. PICK m : m = [Outgoing(b, blk) EXCEPT !.to = to]
        OBVIOUS
    <2>1. /\ net' \in Sent(net, m) /\ pc' = "wait" /\ outcome' = outcome
          /\ \E fails \in BOOLEAN : io' = write_behind(b, fails)
        BY <1>2, <2>0 DEF Send, MayFail, Behind
    <2>2. m = IF blk = 1 THEN Packet("request", 0, <<>>, Own, to)
              ELSE Packet("ack", (blk - 1) % Word, <<>>, Own, to)
        BY <2>0, GetOutgoing
    <2>3. /\ m \in Packets /\ m.from = Own /\ m.to = to
          /\ m.op \in {"request", "ack"}
          /\ m.op = "ack" => m.blk \in 1..(blk - 1)
        BY <2>2, GetOutgoingType
    <2>4. io' \in Ios /\ io'.pos <= Len(task.file) /\ Idle(io', blk)
        BY <1>t, <1>w, <2>1, WritesBehind
    <2>5. DataOK'
        BY <1>p, <2>4 DEF DataOK
    <2>6. m.to # Own
        BY <2>3 DEF Own, Well, Servers
    <2>q. /\ queue' \in Seq(Packets)
          /\ \A i \in 1..Len(queue') : \E j \in 1..Len(queue) : queue'[i] = queue[j]
        BY QueueShrinks DEF ControlOK
    <2>r. queue' \in Seq(Packets) /\ \A i \in 1..Len(queue') : queue'[i].from \in Servers
        BY <2>q DEF ControlOK
    <2>o. outcome # "ok"
        BY DEF ControlOK
    <2>7. ControlOK'
        <3>1. \A p \in net' : p \in Packets /\ (p.to = Own => p.from \in Servers)
            BY <2>1, <2>3, <2>6, SentOne DEF ControlOK
        <3> QED
            BY <1>p, <1>w, <2>1, <2>r, <2>o, <3>1 DEF ControlOK
    <2>8. Writing'
        BY <2>1, <2>4, SameTask DEF Writing, Idle, BF_ALLOC, BF_FREE, Buf
    <2>9. WrittenRight'
        <3> SUFFICES ASSUME ~io'.failed
                     PROVE  \E k \in 0..Len(task.file) :
                               \/ io'.out = SubSeq(task.file, 1, k)
                               \/ /\ k < Len(task.file) /\ task.file[k + 1] = lf /\ task.convert
                                  /\ io'.out = Append(SubSeq(task.file, 1, k), cr)
            BY <2>1, <2>o DEF WrittenRight
        <3>1. WroteTo(io', End(blk - 1))
            BY <2>4 DEF Idle
        <3> QED
            BY <1>t, <3>1, WroteRight
    <2>10. Getting'
        <3>0. /\ \A p \in net : GetPacket(p)
              /\ \A i \in 1..Len(queue) : GetPacket(queue[i])
              /\ \A s \in Servers : srv[s].blk <= block /\ srv[s].blk \in Nat
            BY DEF Getting, ControlOK
        <3>1. ASSUME NEW p \in Packets, GetPacket(p) PROVE GetPacket(p)'
            BY <1>w, <3>0, <3>1, GetPacketKept
        <3>2. GetPacket(m)'
            BY <2>3 DEF GetPacket
        <3>3. \A p \in net' : GetPacket(p)'
            <4> SUFFICES ASSUME NEW p \in net' PROVE GetPacket(p)'
                OBVIOUS
            <4>1. p = m \/ (p \in net /\ p \in Packets)
                BY <2>1, SentOne DEF ControlOK
            <4> QED
                BY <3>0, <3>1, <3>2, <4>1
        <3>4. \A i \in 1..Len(queue') : GetPacket(queue[i])'
            <4> SUFFICES ASSUME NEW i \in 1..Len(queue') PROVE GetPacket(queue[i])'
                OBVIOUS
            <4>1. PICK j \in 1..Len(queue) : queue'[i] = queue[j]
                BY <2>q
            <4>2. queue[j] \in Packets /\ GetPacket(queue[j])
                BY <3>0 DEF ControlOK
            <4> QED
                BY <3>1, <4>1, <4>2
        <3>5. \A s \in Servers : srv'[s].blk <= block'
            BY <1>w, <3>0
        <3> QED
            BY <3>3, <3>4, <3>5 DEF Getting
    <2> QED
        BY <2>5, <2>7, <2>8, <2>9, <2>10
<1> QED
    BY <1>1, <1>2

-----------------------------------------------------------------------------
(* The client's steps.                                                       *)

\* What is left to show for a put.
LEMMA PutDone ==
    ASSUME put, task' = task, DataOK', ControlOK', Reading', Putting', SentWhole'
    PROVE  TransferInv'
    BY SameTask DEF TransferInv, Writing, Getting, WrittenRight

\* What is left to show for a get.
LEMMA GetDone ==
    ASSUME ~put, task' = task, DataOK', ControlOK', Writing', Getting', WrittenRight'
    PROVE  TransferInv'
    BY SameTask DEF TransferInv, Reading, Putting, Known, SentWhole

\* sendfile() can send its block whenever it waits for an answer.
LEMMA CanSend ==
    ASSUME TransferInv, put, ~Cut(io), pc \in {"request", "wait"}
    PROVE  ToSend(io)
<1>1. TaskOK
    BY DEF TransferInv, DataOK
<1>2. Held = block
    BY DEF Held
<1>3. Current(io)
    BY <1>2 DEF TransferInv, Reading, Current
<1>4. CASE pc = "request"
    <2>1. /\ io.bfs[1 - io.current] = BF_FREE /\ io.nextone = 1 - io.current /\ ReadTo(io, 0)
          /\ block = 0
        BY <1>4 DEF TransferInv, Reading, ControlOK
    <2>2. End(0) = 0
        <3>1. 0 * SEGSIZE = 0 /\ Len(task.wire) \in Nat
            BY <1>1, Ends
        <3> QED
            BY <3>1 DEF End, Least
    <2> QED
        BY <1>1, <1>3, <2>1, <2>2 DEF ToSend
<1>5. CASE pc = "wait"
    <2>1. io.nextone = io.current /\ Ahead(io)
        BY <1>2, <1>5 DEF TransferInv, Reading, Ahead
    <2> QED
        BY <1>1, <1>3, <2>1 DEF ToSend
<1> QED
    BY <1>4, <1>5

\* And recvfile() can acknowledge the block before, and at the top of its loop the
\* one it has.
LEMMA CanAck ==
    ASSUME TransferInv, ~put, pc # "ended"
    PROVE  /\ block \in 1..Word
           /\ pc \in {"request", "wait"} => ToAck(io, block)
           /\ pc = "fill" => block + 1 \in 1..Word /\ ToAck(io, block + 1)
<1>1. io \in Ios /\ io.pos <= Len(task.file)
    BY DEF TransferInv, DataOK
<1>2. block \in 1..Word /\ Word \in Nat
    <2>1. block \in 0..Word /\ block > 0 /\ Word \in Nat
        BY TftpConstants DEF TransferInv, ControlOK
    <2> QED
        BY <2>1
<1>3. ASSUME pc \in {"request", "wait"} PROVE ToAck(io, block)
    BY <1>1, <1>3 DEF TransferInv, Writing, ToAck, Idle
<1>4. ASSUME pc = "fill" PROVE block + 1 \in 1..Word /\ ToAck(io, block + 1)
    <2>1. block < Word
        BY <1>4 DEF TransferInv, ControlOK
    <2>2. /\ block + 1 > 1 /\ (block + 1) - 1 = block /\ (block + 1) - 2 = block - 1
          /\ block + 1 \in 1..Word
        BY <1>2, <2>1
    <2>3. /\ io.bfs[io.current] = BF_ALLOC
          /\ ~io.failed => WroteTo(io, End(block - 1))
          /\ io.nextone = 1 - io.current /\ io.bfs[io.nextone] = Buf("data", Segment(block))
        BY <1>4 DEF TransferInv, Writing
    <2>4. Full(io, block + 1)
        BY <2>2, <2>3 DEF Full
    <2> QED
        BY <1>1, <2>2, <2>4 DEF ToAck
<1> QED
    BY <1>2, <1>3, <1>4

\* The current packet is sent once more, or for the first time: nothing else changes.
LEMMA SendsAgain ==
    ASSUME TransferInv, pc \in {"request", "wait"},
           task' = task, block' = block, srv' = srv,
           timeout' \in 0..(Tries - 1), port' \in Servers \cup {Well}, masked' \in BOOLEAN,
           queue' \in {queue, <<>>} \/ (queue # <<>> /\ queue' = Tail(queue)),
           NEW to \in Servers \cup {Well}, Send(io, block, to)
    PROVE  TransferInv'
<1>0. PICK b, blk : b = io /\ blk = block
    OBVIOUS
<1>i. DataOK /\ ControlOK /\ Putting /\ Getting
    BY DEF TransferInv
<1>1. CASE put
    <2>1. /\ b \in Ios /\ b.pos <= Len(task.file) /\ (io.failed => b.failed)
          /\ ~Cut(b) => ToSend(b)
        BY <1>0, <1>1, <1>i, CanSend DEF DataOK
    <2>2. Send(b, block, to)
        BY <1>0
    <2>3. DataOK' /\ ControlOK' /\ Reading' /\ Putting' /\ outcome' # "ok"
        BY <1>i, <1>1, <2>1, <2>2, PutSends
    <2> QED
        BY <1>1, <2>3, PutDone DEF SentWhole
<1>2. CASE ~put
    <2>1. blk \in 1..Word /\ ToAck(b, blk)
        BY <1>0, <1>2, CanAck
    <2>2. Send(b, blk, to) /\ block' = blk /\ block <= blk
        BY <1>0, <2>1
    <2>3. DataOK' /\ ControlOK' /\ Writing' /\ Getting' /\ WrittenRight'
        BY <1>i, <1>2, <2>1, <2>2, GetSends
    <2> QED
        BY <1>2, <2>3, GetDone
<1> QED
    BY <1>1, <1>2

\* The first trip.
LEMMA RequestStep ==
    ASSUME TransferInv, MakeRequest
    PROVE  TransferInv'
<1>1. port \in Servers \cup {Well} /\ timeout \in 0..(Tries - 1) /\ masked \in BOOLEAN
    BY DEF TransferInv, ControlOK
<1>2. PICK to : to = port
    OBVIOUS
<1> QED
    BY <1>1, <1>2, SendsAgain DEF MakeRequest

\* The alarm.
LEMMA TimerStep ==
    ASSUME TransferInv, timer
    PROVE  TransferInv'
<1>0. /\ port \in Servers \cup {Well} /\ timeout \in 0..(Tries - 1) /\ Tries \in Nat
      /\ task.tries \in 1..Tries /\ queue \in Seq(Packets)
    BY TftpConstants DEF TransferInv, ControlOK, DataOK, TaskOK, Tasks
<1>1. masked' \in BOOLEAN
    BY <1>0 DEF timer
<1>2. queue' \in {queue, <<>>} \/ (queue # <<>> /\ queue' = Tail(queue))
    BY DEF timer
<1>3. task' = task /\ block' = block /\ port' = port /\ srv' = srv
    BY DEF timer
<1>4. CASE timeout + 1 >= task.tries
    <2>1. /\ outcome' = "timeout" /\ pc' = "ended" /\ timeout' = timeout
          /\ net' = net /\ io' = io
        BY <1>4 DEF timer
    <2>q. /\ queue' \in Seq(Packets)
          /\ \A i \in 1..Len(queue') : \E j \in 1..Len(queue) : queue'[i] = queue[j]
        BY <1>0, <1>2, QueueShrinks
    <2>r. \A i \in 1..Len(queue') : queue'[i].from \in Servers
        BY <2>q DEF TransferInv, ControlOK
    <2>p. (put' <=> put) /\ (TaskOK' <=> TaskOK)
        BY <1>3, SameTask
    <2>2. DataOK'
        BY <1>3, <2>1, <2>p DEF TransferInv, DataOK
    <2>3. ControlOK'
        BY <1>0, <1>1, <1>3, <2>1, <2>q, <2>r, <2>p DEF TransferInv, ControlOK
    <2>4. WrittenRight'
        BY <1>3, <2>1, <2>p DEF TransferInv, WrittenRight
    <2> QED
        BY <2>1, <2>2, <2>3, <2>4 DEF TransferInv, Reading, Writing, Putting, Getting, SentWhole
<1>5. CASE ~(timeout + 1 >= task.tries)
    <2>1. timeout' \in 0..(Tries - 1)
        BY <1>0, <1>5 DEF timer
    <2>2. PICK to : to = port
        OBVIOUS
    <2>3. Send(io, block, to) /\ pc = "wait"
        BY <1>5, <2>2 DEF timer
    <2> QED
        BY <1>0, <1>1, <1>2, <1>3, <2>1, <2>2, <2>3, SendsAgain
<1> QED
    BY <1>4, <1>5

\* The top of the loop.
LEMMA FillStep ==
    ASSUME TransferInv, Fill
    PROVE  TransferInv'
<1>0. /\ port \in Servers \cup {Well} /\ masked \in BOOLEAN /\ 0 \in 0..(Tries - 1)
      /\ block \in 0..Word /\ Word \in Nat /\ block > 0
    BY TftpConstants DEF TransferInv, ControlOK, Fill
<1>1. /\ task' = task /\ port' = port /\ masked' = masked /\ queue' = queue /\ srv' = srv
      /\ timeout' = 0 /\ pc = "fill"
    BY DEF Fill
<1>i. DataOK /\ ControlOK /\ Putting /\ Getting
    BY DEF TransferInv
<1>2. CASE put
    <2>0. PICK fails \in BOOLEAN : \E b :
              /\ b = readit(io, fails)
              /\ IF b.bfs[b.current].state = "error"
                 THEN /\ net' \in Sent(net, Packet("error", 0, <<>>, Own, port))
                      /\ outcome' = "error" /\ pc' = "ended" /\ io' = b
                 ELSE Send(b, block, port)
        BY <1>2 DEF Fill, MayFail
    <2>1. PICK b :
              /\ b = readit(io, fails)
              /\ IF b.bfs[b.current].state = "error"
                 THEN /\ net' \in Sent(net, Packet("error", 0, <<>>, Own, port))
                      /\ outcome' = "error" /\ pc' = "ended" /\ io' = b
                 ELSE Send(b, block, port)
        BY <2>0
    <2>2. block' = block
        BY <1>2 DEF Fill
    <2>3. /\ io \in Ios /\ io.current \in {0, 1} /\ io.pos <= Len(task.file)
          /\ TaskOK
        BY <1>i DEF DataOK, Ios
    <2>4. Held = block - 1 /\ Held + 1 = block
        BY <1>0, <1>1 DEF Held
    <2>5. b \in Ios /\ b.pos <= Len(task.file) /\ (io.failed => b.failed)
        BY <2>1, <2>3, ReaditType
    <2>6. ASSUME ~Cut(b), b.bfs[b.current].state # "error" PROVE ToSend(b)
        <3>0. ~Cut(io)
            BY <2>5, <2>6 DEF Cut
        <3>1. /\ io.nextone = io.current
              /\ \/ io.bfs[1 - io.current] = Buf("data", Segment(block)) /\ ReadTo(io, End(block))
                 \/ io.bfs[1 - io.current] = Buf("error", <<>>)
            BY <1>1, <1>2, <2>4, <3>0 DEF TransferInv, Reading
        <3>2. io.bfs[1 - io.current].state # "free"
            BY <3>1 DEF Buf
        <3>3. /\ b.current = 1 - io.current
              /\ b.bfs[io.current] = BF_FREE /\ b.bfs[1 - io.current] = io.bfs[1 - io.current]
              /\ b.nextone = io.nextone /\ b.pos = io.pos
              /\ b.newline = io.newline /\ b.prevchar = io.prevchar
            BY <2>1, <2>3, <3>2, ReaditNext
        <3>4. io.current = 1 - b.current
            BY <2>3, <3>3
        <3>5. io.bfs[1 - io.current] = Buf("data", Segment(block)) /\ ReadTo(io, End(block))
            BY <2>6, <3>1, <3>3 DEF Buf
        <3>6. ReadTo(b, End(block))
            BY <3>3, <3>5 DEF ReadTo
        <3> QED
            BY <1>0, <3>1, <3>3, <3>4, <3>5, <3>6 DEF ToSend, Current
    <2>9. CASE b.bfs[b.current].state = "error"
        <3>1. PICK m : m = Packet("error", 0, <<>>, Own, port)
            OBVIOUS
        <3>2. net' \in Sent(net, m) /\ outcome' = "error" /\ pc' = "ended" /\ io' = b
            BY <2>1, <2>9, <3>1
        <3>3. 0 \in 0..(Word - 1) /\ <<>> \in Seq(Chars)
            BY <1>0
        <3>4. m \in Packets
            BY <1>0, <3>1, <3>3, PacketType
        <3>5. m.to # Own
            BY <1>0, <3>1 DEF Packet, Own, Well, Servers
        <3>6. \A p \in net' : p \in Packets /\ (p.to = Own => p.from \in Servers)
            BY <1>i, <3>2, <3>4, <3>5, SentOne DEF ControlOK
        <3>p. put' /\ TaskOK'
            BY <1>1, <1>2, <2>3, SameTask
        <3>7. DataOK'
            BY <1>1, <2>5, <3>2, <3>p DEF DataOK
        <3>8. ControlOK'
            BY <1>i, <1>0, <1>1, <2>2, <3>2, <3>6, <3>p DEF ControlOK
        <3> QED
            BY <1>1, <1>2, <3>2, <3>7, <3>8, PutDone DEF Reading, Putting, Known, SentWhole
    <2>10. CASE b.bfs[b.current].state # "error"
        <3>1. PICK to : to = port
            OBVIOUS
        <3>2. Send(b, block, to)
            BY <2>1, <2>10, <3>1
        <3>4. ~Cut(b) => ToSend(b)
            BY <2>6, <2>10
        <3>5. DataOK' /\ ControlOK' /\ Reading' /\ Putting' /\ outcome' # "ok"
            BY <1>0, <1>1, <1>2, <1>i, <2>2, <2>5, <3>1, <3>2, <3>4, PutSends
        <3> QED
            BY <1>1, <1>2, <3>5, PutDone DEF SentWhole
    <2> QED
        BY <2>9, <2>10
<1>3. CASE ~put
    <2>1. PICK b, blk, to : b = io /\ blk = block + 1 /\ to = port
        OBVIOUS
    <2>2. Send(b, blk, to) /\ block' = blk
        BY <1>3, <2>1 DEF Fill
    <2>3. blk \in 1..Word /\ ToAck(b, blk)
        BY <1>1, <1>3, <2>1, CanAck
    <2>4. block <= blk
        BY <1>0, <2>1
    <2>5. DataOK' /\ ControlOK' /\ Writing' /\ Getting' /\ WrittenRight'
        BY <1>0, <1>1, <1>3, <1>i, <2>1, <2>2, <2>3, <2>4, GetSends
    <2> QED
        BY <1>1, <1>3, <2>5, GetDone
<1> QED
    BY <1>2, <1>3

\* What recvfrom() returns.
LEMMA FirstPacket ==
    ASSUME TransferInv, queue # <<>>, NEW p, p = Head(queue)
    PROVE  /\ p \in Packets /\ p.from \in Servers /\ p.blk \in 0..(Word - 1)
           /\ pc # "ended" /\ Known => PutPacket(p)
           /\ ~put /\ pc # "ended" => GetPacket(p)
<1>1. queue \in Seq(Packets) /\ \A i \in 1..Len(queue) : queue[i].from \in Servers
    BY DEF TransferInv, ControlOK
<1>2. p = queue[1] /\ 1 \in 1..Len(queue)
    BY <1>1, HeadTailProperties, LenProperties, EmptySeq
<1>3. p \in Packets /\ p.from \in Servers
    BY <1>1, <1>2
<1>4. p.blk \in 0..(Word - 1)
    BY <1>3 DEF Packets
<1> QED
    BY <1>2, <1>3, <1>4 DEF TransferInv, Putting, Getting

\* sendfile() gets the answer to its block.
LEMMA AnsweredPut ==
    ASSUME TransferInv, put, pc = "wait", queue # <<>>, NEW p, p = Head(queue),
           p.op = "ack", Answers(p, block), block' = block + 1, port' = p.from,
           queue' = Tail(queue), UNCHANGED <<task, timeout, masked, srv>>,
           IF block > 0 /\ Len(io.bfs[io.current].data) < SEGSIZE
           THEN Abort("ok", io, block, p.from)
           ELSE pc' = "fill" /\ UNCHANGED <<outcome, net, io>>
    PROVE  TransferInv'
<1>i. DataOK /\ ControlOK /\ Putting /\ Reading
    BY DEF TransferInv
<1>0. /\ p \in Packets /\ p.from \in Servers /\ p.blk \in 0..(Word - 1)
      /\ Known => PutPacket(p)
    BY FirstPacket
<1>1. /\ Word \in Nat /\ block \in Nat /\ block = p.blk /\ block < Word
      /\ block + 1 \in 0..Word /\ block + 1 > 0
    <2>1. Word \in Nat /\ block \in 0..Word /\ p.blk = block
        BY <1>i, TftpConstants DEF ControlOK, Answers
    <2> QED
        BY <1>0, <2>1
<1>2. /\ put' /\ (TaskOK' <=> TaskOK)
      /\ \A n : Segment(n)' = Segment(n) /\ End(n)' = End(n) /\ Upto(n)' = Upto(n)
    BY SameTask
<1>q. /\ queue' \in Seq(Packets)
      /\ \A i \in 1..Len(queue') : \E j \in 1..Len(queue) : queue'[i] = queue[j]
    BY <1>i, QueueShrinks DEF ControlOK
<1>r. \A i \in 1..Len(queue') : queue'[i].from \in Servers
    BY <1>i, <1>q DEF ControlOK
<1>3. TaskOK /\ outcome # "ok"
    BY <1>i DEF DataOK, ControlOK
<1>4. CASE block > 0 /\ Len(io.bfs[io.current].data) < SEGSIZE
    <2>1. outcome' = "ok" /\ pc' = "ended" /\ net' = net /\ io' = io
        BY <1>4 DEF Abort
    <2>2. DataOK'
        BY <1>i, <1>2, <2>1 DEF DataOK
    <2>3. ControlOK'
        BY <1>i, <1>0, <1>1, <1>2, <1>q, <1>r, <2>1 DEF ControlOK
    <2>4. Held = block
        BY DEF Held
    <2>5. ASSUME ~Cut(io) PROVE \E s \in Servers : srv[s].got = task.wire
        <3>0. Known
            BY <1>1, <2>5 DEF Known
        <3>1. srv[p.from].blk \in Nat /\ srv[p.from].blk <= block /\ block <= srv[p.from].blk
            BY <1>i, <1>0, <1>1, <2>4, <3>0 DEF ControlOK, Putting, PutPacket
        <3>2. srv[p.from].blk = block
            BY <1>1, <3>1
        <3>3. srv[p.from].got = Upto(block)
            BY <1>i, <1>0, <3>0, <3>2 DEF Putting
        <3>4. io.bfs[io.current] = Buf("data", Segment(block))
            BY <1>i, <1>1, <1>4, <2>4, <2>5 DEF Reading
        <3>5. block - 1 \in Nat /\ (block - 1) + 1 = block
            BY <1>1, <1>4
        <3>6. Len(Segment(block)) < SEGSIZE
            BY <1>4, <3>4 DEF Buf
        <3>7. Upto(block) = task.wire
            BY <1>3, <3>5, <3>6, Blocks
        <3> QED
            BY <1>0, <3>3, <3>7
    <2>12. SentWhole'
        BY <2>1, <2>5 DEF SentWhole, Cut
    <2> QED
        BY <2>1, <2>2, <2>3, <2>12, PutDone DEF Reading, Putting, Known
<1>5. CASE ~(block > 0 /\ Len(io.bfs[io.current].data) < SEGSIZE)
    <2>1. pc' = "fill" /\ outcome' = outcome /\ net' = net /\ io' = io
        BY <1>5
    <2>2. DataOK'
        BY <1>i, <1>2, <2>1 DEF DataOK
    <2>3. ControlOK'
        BY <1>i, <1>0, <1>1, <1>2, <1>3, <1>q, <1>r, <2>1 DEF ControlOK
    <2>4. Held = block /\ Held' = block /\ Held <= Held' /\ Held \in Int
        BY <1>1, <2>1 DEF Held
    <2>c. (Cut(io)' <=> Cut(io)) /\ \A b, e : ReadTo(b, e)' <=> ReadTo(b, e)
        BY <2>1, SameTask
    <2>5. Reading'
        BY <1>i, <1>2, <2>1, <2>4, <2>c DEF Reading, BF_ALLOC, BF_FREE, Buf
    <2>6. ASSUME Known
          PROVE  /\ \A x \in net : PutPacket(x) /\ x \in Packets
                 /\ \A i \in 1..Len(queue) : PutPacket(queue[i]) /\ queue[i] \in Packets
                 /\ \A s \in Servers : srv[s].blk <= Held /\ srv[s].got = Upto(srv[s].blk)
        BY <1>i, <2>6 DEF Putting, ControlOK
    <2>s. \A s \in Servers : srv[s].blk \in Nat /\ srv'[s] = srv[s]
        BY <1>i DEF ControlOK
    <2>7. ASSUME NEW x \in Packets, PutPacket(x) PROVE PutPacket(x)'
        <3>1. Held' \in Int
            BY <2>4
        <3>2. \A s \in Servers : /\ srv[s].blk \in Nat /\ srv'[s].blk \in Nat
                                 /\ srv[s].blk <= srv'[s].blk
            BY <2>s
        <3> QED
            BY <2>4, <2>7, <3>1, <3>2, PutPacketKept
    <2>11. Putting'
        <3> SUFFICES ASSUME Known'
                     PROVE  /\ \A x \in net' : PutPacket(x)'
                            /\ \A i \in 1..Len(queue') : PutPacket(queue[i])'
                            /\ \A s \in Servers : srv'[s].blk <= Held' /\ srv'[s].got = Upto(srv[s].blk)'
            BY DEF Putting
        <3>0. Known
            BY <1>1, <2>c DEF Known
        <3>1. \A x \in net' : PutPacket(x)'
            BY <2>1, <2>6, <2>7, <3>0
        <3>2. \A i \in 1..Len(queue') : PutPacket(queue[i])'
            <4> SUFFICES ASSUME NEW i \in 1..Len(queue') PROVE PutPacket(queue[i])'
                OBVIOUS
            <4>1. PICK j \in 1..Len(queue) : queue'[i] = queue[j]
                BY <1>q
            <4> QED
                BY <2>6, <2>7, <3>0, <4>1
        <3>3. \A s \in Servers : srv'[s].blk <= Held' /\ srv'[s].got = Upto(srv[s].blk)'
            BY <1>2, <2>4, <2>6, <2>s, <3>0
        <3> QED
            BY <3>1, <3>2, <3>3
    <2> QED
        BY <1>3, <2>1, <2>2, <2>3, <2>5, <2>11, PutDone DEF SentWhole
<1> QED
    BY <1>4, <1>5

\* recvfile() gets the block it waits for.
LEMMA AnsweredGet ==
    ASSUME TransferInv, ~put, pc = "wait", queue # <<>>, NEW p, p = Head(queue),
           p.op = "data", Answers(p, block), block' = block, port' = p.from,
           queue' = Tail(queue), UNCHANGED <<task, timeout, masked, srv>>,
           NEW fails \in BOOLEAN, NEW b, b = writeit(io, p.data, fails),
           IF Len(p.data) < SEGSIZE
           THEN Abort("ok", b, block, p.from)
           ELSE pc' = "fill" /\ io' = b /\ UNCHANGED <<outcome, net>>
    PROVE  TransferInv'
<1>i. DataOK /\ ControlOK /\ Getting /\ Writing /\ WrittenRight
    BY DEF TransferInv
<1>0. /\ p \in Packets /\ p.from \in Servers /\ p.blk \in 0..(Word - 1) /\ p.data \in Seq(Chars)
      /\ GetPacket(p)
    <2>1. p \in Packets /\ p.from \in Servers /\ p.blk \in 0..(Word - 1) /\ GetPacket(p)
        BY FirstPacket
    <2> QED
        BY <2>1 DEF Packets
<1>1. /\ Word \in Nat /\ block \in Nat /\ block = p.blk /\ block < Word
      /\ block > 0 /\ block \in 0..Word /\ block + 1 \in Nat \ {0}
    <2>1. Word \in Nat /\ block \in 0..Word /\ p.blk = block /\ block > 0
        BY <1>i, TftpConstants DEF ControlOK, Answers
    <2> QED
        BY <1>0, <2>1
<1>2. /\ ~put' /\ (TaskOK' <=> TaskOK) /\ (\A x, e : WroteTo(x, e)' <=> WroteTo(x, e))
      /\ \A n : Segment(n)' = Segment(n) /\ End(n)' = End(n) /\ Upto(n)' = Upto(n)
    BY SameTask
<1>q. /\ queue' \in Seq(Packets)
      /\ \A i \in 1..Len(queue') : \E j \in 1..Len(queue) : queue'[i] = queue[j]
    BY <1>i, QueueShrinks DEF ControlOK
<1>r. \A i \in 1..Len(queue') : queue'[i].from \in Servers
    BY <1>i, <1>q DEF ControlOK
<1>3. /\ TaskOK /\ outcome # "ok"
      /\ io \in Ios /\ io.current \in {0, 1} /\ io.pos <= Len(task.file)
    BY <1>i DEF DataOK, ControlOK, Ios
<1>4. p.data = Segment(block)
    <2>1. PICK a \in 1..srv[p.from].blk : p.blk = a % Word /\ p.data = Segment(a)
        BY <1>0 DEF GetPacket
    <2>2. srv[p.from].blk \in Nat /\ srv[p.from].blk <= block
        BY <1>i, <1>0 DEF ControlOK, Getting
    <2>3. a \in 0..Word /\ a < Word
        BY <1>1, <2>1, <2>2
    <2>4. a % Word = a
        BY <2>3, Modulo
    <2> QED
        BY <1>1, <2>1, <2>4
<1>5. /\ io.bfs[io.current] = BF_ALLOC /\ io.nextone = io.current
      /\ io.bfs[1 - io.current] = BF_FREE
      /\ ~io.failed => WroteTo(io, End(block - 1))
    BY <1>i DEF Writing
<1>6. /\ b \in Ios /\ b.current = 1 - io.current /\ b.nextone = io.nextone
      /\ b.bfs[io.current] = Buf("data", p.data) /\ b.bfs[1 - io.current] = BF_ALLOC
      /\ b.pos = io.pos /\ b.failed = io.failed /\ b.out = io.out
      /\ b.prevchar = io.prevchar
    BY <1>0, <1>3, <1>5, WriteitNext
<1>7. /\ b.bfs[b.current] = BF_ALLOC /\ b.nextone = 1 - b.current
      /\ b.bfs[b.nextone] = Buf("data", Segment(block))
      /\ ~b.failed => WroteTo(b, End(block - 1))
    <2>1. WroteTo(io, End(block - 1)) => WroteTo(b, End(block - 1))
        BY <1>6 DEF WroteTo
    <2> QED
        BY <1>3, <1>4, <1>5, <1>6, <2>1
<1>8. CASE Len(p.data) < SEGSIZE
    <2>1. PICK blk, n, to : blk = block /\ n = block + 1 /\ to = p.from
        OBVIOUS
    <2>2. Abort("ok", b, blk, to)
        BY <1>8, <2>1
    <2>3. n > 1 /\ n - 1 = block /\ n - 2 = block - 1 /\ n \in Nat \ {0} /\ blk \in 0..Word
        BY <1>1, <2>1
    <2>4. ToAck(b, n)
        BY <1>3, <1>6, <1>7, <2>3 DEF ToAck, Full
    <2>5. block - 1 \in Nat /\ (block - 1) + 1 = block
        BY <1>1
    <2>6. End(n - 1) = Len(task.wire)
        BY <1>3, <1>4, <1>8, <2>3, <2>5, Blocks
    <2>7. /\ timeout' \in 0..(Tries - 1) /\ port' \in Servers \cup {Well} /\ masked' \in BOOLEAN
          /\ to \in Servers \cup {Well} /\ block' \in 0..Word /\ block' > 0
        BY <1>i, <1>0, <1>1, <2>1 DEF ControlOK
    <2>8. DataOK' /\ ControlOK' /\ WrittenRight' /\ pc' = "ended"
        BY <1>i, <2>2, <2>3, <2>4, <2>6, <2>7, GetEnds
    <2> QED
        BY <2>8, GetDone DEF Writing, Getting
<1>9. CASE ~(Len(p.data) < SEGSIZE)
    <2>1. pc' = "fill" /\ outcome' = outcome /\ net' = net /\ io' = b
        BY <1>9
    <2>2. DataOK'
        BY <1>2, <1>3, <1>6, <2>1 DEF DataOK
    <2>3. ControlOK'
        BY <1>i, <1>0, <1>1, <1>2, <1>3, <1>q, <1>r, <2>1 DEF ControlOK
    <2>4. Writing'
        BY <1>2, <1>7, <2>1 DEF Writing, BF_ALLOC, Buf
    <2>5. WrittenRight'
        BY <1>i, <1>2, <1>6, <2>1 DEF WrittenRight
    <2>6. /\ \A x \in net : GetPacket(x) /\ x \in Packets
          /\ \A i \in 1..Len(queue) : GetPacket(queue[i]) /\ queue[i] \in Packets
          /\ \A s \in Servers : srv[s].blk <= block /\ srv[s].blk \in Nat /\ srv'[s] = srv[s]
        BY <1>i DEF Getting, ControlOK
    <2>7. ASSUME NEW x \in Packets, GetPacket(x) PROVE GetPacket(x)'
        <3>1. \A s \in Servers : /\ srv[s].blk \in Nat /\ srv'[s].blk \in Nat
                                 /\ srv[s].blk <= srv'[s].blk
            BY <2>6
        <3> QED
            BY <1>1, <2>7, <3>1, GetPacketKept
    <2>8. \A x \in net' : GetPacket(x)'
        BY <2>1, <2>6, <2>7
    <2>9. \A i \in 1..Len(queue') : GetPacket(queue[i])'
        <3> SUFFICES ASSUME NEW i \in 1..Len(queue') PROVE GetPacket(queue[i])'
            OBVIOUS
        <3>1. PICK j \in 1..Len(queue) : queue'[i] = queue[j]
            BY <1>q
        <3> QED
            BY <2>6, <2>7, <3>1
    <2>10. \A s \in Servers : srv'[s].blk <= block'
        BY <2>6
    <2>11. Getting'
        BY <2>8, <2>9, <2>10 DEF Getting
    <2> QED
        BY <2>2, <2>3, <2>4, <2>5, <2>11, GetDone
<1> QED
    BY <1>8, <1>9

\* The peer gives up.
LEMMA ErrorReceived ==
    ASSUME TransferInv, pc = "wait", queue # <<>>, NEW p, p = Head(queue),
           Abort("error", io, block, p.from), block' = block, port' = p.from,
           queue' = Tail(queue), UNCHANGED <<task, timeout, masked, srv>>
    PROVE  TransferInv'
<1>i. DataOK /\ ControlOK
    BY DEF TransferInv
<1>0. p.from \in Servers
    BY FirstPacket
<1>p. (put' <=> put) /\ (TaskOK' <=> TaskOK)
    BY SameTask
<1>1. CASE put
    <2>1. outcome' = "error" /\ pc' = "ended" /\ net' = net /\ io' = io
        BY <1>1 DEF Abort
    <2>q. /\ queue' \in Seq(Packets)
          /\ \A i \in 1..Len(queue') : \E j \in 1..Len(queue) : queue'[i] = queue[j]
        BY <1>i, QueueShrinks DEF ControlOK
    <2>r. \A i \in 1..Len(queue') : queue'[i].from \in Servers
        BY <1>i, <2>q DEF ControlOK
    <2>2. DataOK'
        BY <1>i, <1>p, <2>1 DEF DataOK
    <2>3. ControlOK'
        BY <1>i, <1>0, <1>p, <2>1, <2>q, <2>r DEF ControlOK
    <2> QED
        BY <1>1, <2>1, <2>2, <2>3, PutDone DEF Reading, Putting, Known, SentWhole
<1>2. CASE ~put
    <2>1. PICK b, n, to : b = io /\ n = block /\ to = p.from
        OBVIOUS
    <2>2. Abort("error", b, n, to)
        BY <2>1
    <2>3. n \in 1..Word /\ ToAck(b, n)
        BY <1>2, <2>1, CanAck
    <2>4. n \in Nat \ {0} /\ n \in 0..Word
        BY <2>3, TftpConstants
    <2>5. /\ timeout' \in 0..(Tries - 1) /\ port' \in Servers \cup {Well} /\ masked' \in BOOLEAN
          /\ to \in Servers \cup {Well} /\ block' \in 0..Word /\ block' > 0
        BY <1>i, <1>0, <1>2, <2>1 DEF ControlOK
    <2>6. DataOK' /\ ControlOK' /\ WrittenRight' /\ pc' = "ended"
        BY <1>i, <1>2, <2>2, <2>3, <2>4, <2>5, GetEnds
    <2> QED
        BY <1>2, <1>p, <2>6, GetDone DEF Writing, Getting
<1> QED
    BY <1>1, <1>2

-----------------------------------------------------------------------------
(* The network and the servers, which leave the client alone.                *)

\* The packets and the servers, as a put and a get need them.
PutWorld ==
    /\ \A p \in net : PutPacket(p)
    /\ \A i \in 1..Len(queue) : PutPacket(queue[i])
    /\ \A s \in Servers : srv[s].blk <= Held /\ srv[s].got = Upto(srv[s].blk)

GetWorld ==
    /\ \A p \in net : GetPacket(p)
    /\ \A i \in 1..Len(queue) : GetPacket(queue[i])
    /\ \A s \in Servers : srv[s].blk <= block

\* What is left to show when the transfer goes on and sendfile() or recvfile() does
\* not take part.
LEMMA Carried ==
    ASSUME TransferInv, pc # "ended",
           UNCHANGED <<task, pc, outcome, block, io>>, ControlOK',
           Known => PutWorld', ~put => GetWorld'
    PROVE  TransferInv'
<1>1. /\ (put' <=> put) /\ (TaskOK' <=> TaskOK) /\ (Known' <=> Known) /\ (Cut(io)' <=> Cut(io))
      /\ \A n : Segment(n)' = Segment(n) /\ End(n)' = End(n) /\ Upto(n)' = Upto(n)
      /\ \A e : (ReadTo(io, e)' <=> ReadTo(io, e)) /\ (WroteTo(io, e)' <=> WroteTo(io, e))
    BY SameTask DEF Known
<1>2. Held' = Held
    BY DEF Held
<1>3. DataOK'
    BY <1>1 DEF TransferInv, DataOK
<1>4. Reading' /\ Writing'
    BY <1>1, <1>2 DEF TransferInv, Reading, Writing, BF_ALLOC, BF_FREE, Buf
<1>5. Putting' /\ Getting'
    BY <1>1 DEF Putting, PutWorld, Getting, GetWorld
<1>6. SentWhole' /\ WrittenRight'
    BY <1>1 DEF TransferInv, ControlOK, SentWhole, WrittenRight
<1> QED
    BY <1>3, <1>4, <1>5, <1>6 DEF TransferInv

\* The packets stay right when no server goes back.
LEMMA PacketsKept ==
    ASSUME TransferInv, pc # "ended", UNCHANGED <<task, pc, block>>, NEW p \in Packets,
           \A s \in Servers : srv'[s].blk \in Nat /\ srv[s].blk <= srv'[s].blk
    PROVE  /\ PutPacket(p) => PutPacket(p)'
           /\ GetPacket(p) => GetPacket(p)'
<1>1. block \in Nat /\ Held \in Int /\ Held' = Held /\ Held <= Held'
    <2>1. block \in 0..Word /\ Word \in Nat
        BY TftpConstants DEF TransferInv, ControlOK
    <2> QED
        BY <2>1 DEF Held
<1>2. \A s \in Servers : srv[s].blk \in Nat
    BY DEF TransferInv, ControlOK
<1> QED
    BY <1>1, <1>2, PutPacketKept, GetPacketKept

\* A packet that only flushes the socket, and one that arrives.
LEMMA QueueStep ==
    ASSUME TransferInv, pc # "ended",
           UNCHANGED <<task, pc, outcome, block, timeout, masked, io, srv>>,
           port' \in Servers \cup {Well}, queue' \in Seq(Packets),
           \A x \in net' : x \in net,
           \A i \in 1..Len(queue') : \/ \E j \in 1..Len(queue) : queue'[i] = queue[j]
                                     \/ queue'[i] \in net /\ queue'[i].to = Own
    PROVE  TransferInv'
<1>i. ControlOK
    BY DEF TransferInv
<1>1. \A x \in net \cup {queue'[i] : i \in 1..Len(queue')} : x \in Packets
    BY <1>i DEF ControlOK
<1>2. \A s \in Servers : srv'[s].blk \in Nat /\ srv[s].blk <= srv'[s].blk
    BY <1>i DEF ControlOK
<1>p. put' <=> put
    BY SameTask
<1>3. ControlOK'
    BY <1>i, <1>p DEF ControlOK
<1>4. ASSUME Known PROVE PutWorld'
    <2>1. /\ \A p \in net : PutPacket(p)
          /\ \A i \in 1..Len(queue) : PutPacket(queue[i])
          /\ \A s \in Servers : srv[s].blk <= Held /\ srv[s].got = Upto(srv[s].blk)
        BY <1>4 DEF TransferInv, Putting
    <2>2. ASSUME NEW x \in Packets, PutPacket(x) PROVE PutPacket(x)'
        BY <1>2, <2>2, PacketsKept
    <2>3. \A x \in net' : PutPacket(x)'
        BY <1>1, <2>1, <2>2
    <2>4. \A i \in 1..Len(queue') : PutPacket(queue[i])'
        <3> SUFFICES ASSUME NEW i \in 1..Len(queue') PROVE PutPacket(queue[i])'
            OBVIOUS
        <3>1. queue'[i] \in Packets /\ PutPacket(queue'[i])
            BY <1>1, <2>1
        <3> QED
            BY <2>2, <3>1
    <2>5. \A s \in Servers : srv'[s].blk <= Held' /\ srv'[s].got = Upto(srv[s].blk)'
        BY <2>1, SameTask DEF Held
    <2> QED
        BY <2>3, <2>4, <2>5 DEF PutWorld
<1>5. ASSUME ~put PROVE GetWorld'
    <2>1. /\ \A p \in net : GetPacket(p)
          /\ \A i \in 1..Len(queue) : GetPacket(queue[i])
          /\ \A s \in Servers : srv[s].blk <= block
        BY <1>5 DEF TransferInv, Getting
    <2>2. ASSUME NEW x \in Packets, GetPacket(x) PROVE GetPacket(x)'
        BY <1>2, <2>2, PacketsKept
    <2>3. \A x \in net' : GetPacket(x)'
        BY <1>1, <2>1, <2>2
    <2>4. \A i \in 1..Len(queue') : GetPacket(queue[i])'
        <3> SUFFICES ASSUME NEW i \in 1..Len(queue') PROVE GetPacket(queue[i])'
            OBVIOUS
        <3>1. queue'[i] \in Packets /\ GetPacket(queue'[i])
            BY <1>1, <2>1
        <3> QED
            BY <2>2, <3>1
    <2> QED
        BY <2>1, <2>3, <2>4 DEF GetWorld
<1> QED
    BY <1>3, <1>4, <1>5, Carried

\* recvfrom() returns.
LEMMA ReceiveStep ==
    ASSUME TransferInv, Receive
    PROVE  TransferInv'
<1>0. PICK p : p = Head(queue)
    OBVIOUS
<1>1. /\ pc = "wait" /\ queue # <<>> /\ port' = p.from
      /\ UNCHANGED <<task, timeout, masked, srv>>
    BY <1>0 DEF Receive
<1>2. p.from \in Servers
    BY <1>0, <1>1, FirstPacket
<1>3. CASE p.op = "error" /\ Abort("error", io, block, p.from) /\ queue' = Tail(queue) /\ block' = block
    BY <1>0, <1>1, <1>3, ErrorReceived
<1>4. CASE /\ put /\ p.op = "ack" /\ Answers(p, block) /\ block' = block + 1
           /\ IF block > 0 /\ Len(io.bfs[io.current].data) < SEGSIZE
              THEN Abort("ok", io, block, p.from)
              ELSE pc' = "fill" /\ UNCHANGED <<outcome, net, io>>
           /\ queue' = Tail(queue)
    BY <1>0, <1>1, <1>4, AnsweredPut
<1>5. CASE /\ ~put /\ p.op = "data" /\ Answers(p, block) /\ queue' = Tail(queue) /\ block' = block
           /\ \E fails \in BOOLEAN : \E b :
                 /\ b = writeit(io, p.data, fails)
                 /\ IF Len(p.data) < SEGSIZE
                    THEN Abort("ok", b, block, p.from)
                    ELSE pc' = "fill" /\ io' = b /\ UNCHANGED <<outcome, net>>
    BY <1>0, <1>1, <1>5, AnsweredGet
<1>6. CASE queue' = <<>> /\ Send(io, block, p.from) /\ block' = block
    <2>1. PICK to : to = p.from
        OBVIOUS
    <2>2. /\ timeout' \in 0..(Tries - 1) /\ port' \in Servers \cup {Well} /\ masked' \in BOOLEAN
          /\ to \in Servers \cup {Well} /\ Send(io, block, to)
        BY <1>1, <1>2, <1>6, <2>1 DEF TransferInv, ControlOK
    <2> QED
        BY <1>1, <1>6, <2>2, SendsAgain
<1>7. CASE queue' = <<>> /\ UNCHANGED <<pc, outcome, block, net, io>>
    <2>1. port' \in Servers \cup {Well} /\ queue' \in Seq(Packets) /\ Len(queue') = 0
        BY <1>1, <1>2, <1>7
    <2> QED
        BY <1>1, <1>7, <2>1, QueueStep
<1>8. \/ p.op = "error" /\ Abort("error", io, block, p.from) /\ queue' = Tail(queue) /\ block' = block
      \/ /\ put /\ p.op = "ack" /\ Answers(p, block) /\ block' = block + 1
         /\ IF block > 0 /\ Len(io.bfs[io.current].data) < SEGSIZE
            THEN Abort("ok", io, block, p.from)
            ELSE pc' = "fill" /\ UNCHANGED <<outcome, net, io>>
         /\ queue' = Tail(queue)
      \/ /\ ~put /\ p.op = "data" /\ Answers(p, block) /\ queue' = Tail(queue) /\ block' = block
         /\ \E fails \in BOOLEAN : \E b :
               /\ b = writeit(io, p.data, fails)
               /\ IF Len(p.data) < SEGSIZE
                  THEN Abort("ok", b, block, p.from)
                  ELSE pc' = "fill" /\ io' = b /\ UNCHANGED <<outcome, net>>
      \/ queue' = <<>> /\ Send(io, block, p.from) /\ block' = block
      \/ queue' = <<>> /\ UNCHANGED <<pc, outcome, block, net, io>>
    BY <1>0, Zenon DEF Receive, MayFail
<1> QED
    BY <1>3, <1>4, <1>5, <1>6, <1>7, <1>8

\* A packet reaches the client's socket.
LEMMA DeliverStep ==
    ASSUME TransferInv, Deliver
    PROVE  TransferInv'
<1>1. PICK p \in net : p.to = Own /\ net' = net \ {p} /\ queue' = Append(queue, p)
    BY DEF Deliver
<1>2. queue \in Seq(Packets) /\ p \in Packets /\ port \in Servers \cup {Well}
    BY DEF TransferInv, ControlOK
<1>3. /\ queue' \in Seq(Packets) /\ Len(queue') = Len(queue) + 1 /\ Len(queue) \in Nat
      /\ queue'[Len(queue) + 1] = p
      /\ \A i \in 1..Len(queue) : queue'[i] = queue[i]
    BY <1>1, <1>2, AppendProperties, LenProperties
<1>4. \A i \in 1..Len(queue') : \/ \E j \in 1..Len(queue) : queue'[i] = queue[j]
                                \/ queue'[i] \in net /\ queue'[i].to = Own
    <2> SUFFICES ASSUME NEW i \in 1..Len(queue')
                 PROVE  \/ \E j \in 1..Len(queue) : queue'[i] = queue[j]
                        \/ queue'[i] \in net /\ queue'[i].to = Own
        OBVIOUS
    <2>1. i \in 1..Len(queue) \/ i = Len(queue) + 1
        BY <1>3
    <2> QED
        BY <1>1, <1>3, <2>1
<1> QED
    BY <1>1, <1>2, <1>3, <1>4, QueueStep DEF Deliver

\* A server answers from its own port.
LEMMA ReplyType ==
    ASSUME TaskOK, NEW s \in Servers, NEW n \in Nat,
           ~put => n > 0, NEW m, m = Reply(s, n)
    PROVE  /\ m \in Packets /\ m.from = s /\ m.to = Own
           /\ put => m.op = "ack" /\ m.blk = n % Word
           /\ ~put => m.op = "data" /\ m.blk = n % Word /\ m.data = Segment(n)
<1>1. n % Word \in 0..(Word - 1) /\ <<>> \in Seq(Chars)
    BY TftpConstants
<1>2. CASE put
    <2>1. m = Packet("ack", n % Word, <<>>, s, Own)
        BY <1>2 DEF Reply
    <2>2. m \in Packets
        BY <1>1, <2>1, PacketType
    <2> QED
        BY <1>2, <2>1, <2>2 DEF Packet
<1>3. CASE ~put
    <2>1. m = Packet("data", n % Word, Segment(n), s, Own)
        BY <1>3 DEF Reply
    <2>2. n - 1 \in Nat /\ (n - 1) + 1 = n
        BY <1>3
    <2>3. Segment(n) \in Seq(Chars)
        BY <2>2, SegmentRead
    <2>4. m \in Packets
        BY <1>1, <2>1, <2>3, PacketType
    <2> QED
        BY <1>3, <2>1, <2>4 DEF Packet
<1> QED
    BY <1>2, <1>3

Processes == [state : {"off", "up", "down"}, blk : Nat, got : Seq(Chars)]

\* A server takes a step: it does not go back, does not overtake the client, and what
\* it says is so.
LEMMA ServerDid ==
    ASSUME TransferInv, pc # "ended", UNCHANGED Client,
           NEW s \in Servers, srv' \in [Servers -> Processes], NEW v, v = srv'[s],
           \A t \in Servers \ {s} : srv'[t] = srv[t],
           v.state # "off", srv[s].blk <= v.blk, ~put => v.blk > 0,
           NEW m \in Packets, m.to = Own, m.from = s, \A x \in net' : x \in net \/ x = m,
           Known => /\ v.blk <= Held /\ v.got = Upto(v.blk)
                                  /\ m.op # "data" /\ (m.op = "ack" => m.blk <= v.blk),
           ~put => /\ v.blk <= block /\ m.op # "ack"
                   /\ m.op = "data" => \E a \in 1..v.blk : m.blk = a % Word /\ m.data = Segment(a)
    PROVE  TransferInv'
<1>i. ControlOK
    BY DEF TransferInv
<1>c. UNCHANGED <<task, pc, outcome, block, timeout, port, masked, io, queue>>
    BY DEF Client
<1>p. /\ put' <=> put
      /\ \A n : Segment(n)' = Segment(n) /\ Upto(n)' = Upto(n)
    BY <1>c, SameTask
<1>1. srv \in [Servers -> Processes] /\ srv' \in [Servers -> Processes]
    BY <1>i DEF ControlOK, Processes
<1>2. srv'[s] = v /\ \A t \in Servers \ {s} : srv'[t] = srv[t]
    OBVIOUS
<1>3. \A t \in Servers : srv'[t].blk \in Nat /\ srv[t].blk \in Nat /\ srv[t].blk <= srv'[t].blk
    <2>1. \A t \in Servers : srv'[t].blk \in Nat /\ srv[t].blk \in Nat
        BY <1>1 DEF Processes
    <2> QED
        BY <1>2, <2>1
<1>4. ControlOK'
    <2>1. \A x \in net' : x \in Packets /\ (x.to = Own => x.from \in Servers)
        BY <1>i DEF ControlOK
    <2>2. \A t \in Servers : /\ srv'[t].state = "off" => srv'[t].blk = 0
                             /\ srv'[t].state = "up" /\ ~put => srv'[t].blk > 0
        BY <1>i, <1>2 DEF ControlOK
    <2> QED
        BY <1>i, <1>c, <1>p, <1>1, <2>1, <2>2 DEF ControlOK, Processes
<1>5. ASSUME Known PROVE PutWorld'
    <2>1. /\ \A p \in net : PutPacket(p) /\ p \in Packets
          /\ \A i \in 1..Len(queue) : PutPacket(queue[i]) /\ queue[i] \in Packets
          /\ \A t \in Servers : srv[t].blk <= Held /\ srv[t].got = Upto(srv[t].blk)
        BY <1>i, <1>5 DEF TransferInv, Putting, ControlOK
    <2>2. ASSUME NEW x \in Packets, PutPacket(x) PROVE PutPacket(x)'
        BY <1>c, <1>3, <2>2, PacketsKept
    <2>3. PutPacket(m)'
        BY <1>2, <1>5 DEF PutPacket
    <2>4. \A x \in net' : PutPacket(x)'
        BY <2>1, <2>2, <2>3
    <2>5. \A i \in 1..Len(queue') : PutPacket(queue[i])'
        BY <1>c, <2>1, <2>2
    <2>6. Held' = Held
        BY <1>c DEF Held
    <2>7. \A t \in Servers : srv'[t].blk <= Held' /\ srv'[t].got = Upto(srv[t].blk)'
        BY <1>2, <1>5, <1>p, <2>1, <2>6
    <2> QED
        BY <2>4, <2>5, <2>7 DEF PutWorld
<1>6. ASSUME ~put PROVE GetWorld'
    <2>1. /\ \A p \in net : GetPacket(p) /\ p \in Packets
          /\ \A i \in 1..Len(queue) : GetPacket(queue[i]) /\ queue[i] \in Packets
          /\ \A t \in Servers : srv[t].blk <= block
        BY <1>i, <1>6 DEF TransferInv, Getting, ControlOK
    <2>2. ASSUME NEW x \in Packets, GetPacket(x) PROVE GetPacket(x)'
        BY <1>c, <1>3, <2>2, PacketsKept
    <2>3. GetPacket(m)'
        BY <1>2, <1>6, <1>p DEF GetPacket
    <2>4. \A x \in net' : GetPacket(x)'
        BY <2>1, <2>2, <2>3
    <2>5. \A i \in 1..Len(queue') : GetPacket(queue[i])'
        BY <1>c, <2>1, <2>2
    <2>6. \A t \in Servers : srv'[t].blk <= block'
        BY <1>2, <1>6, <1>c, <2>1
    <2> QED
        BY <2>4, <2>5, <2>6 DEF GetWorld
<1> QED
    BY <1>4, <1>5, <1>6, <1>c, Carried

\* What a server knows before its step.
LEMMA ServerKnows ==
    ASSUME TransferInv, pc # "ended", NEW s \in Servers
    PROVE  /\ TaskOK
           /\ srv \in [Servers -> Processes] /\ srv[s] \in Processes
           /\ srv[s].blk \in Nat /\ srv[s].got \in Seq(Chars)
           /\ block \in 0..Word /\ Word \in Nat /\ Word > 0
           /\ Held \in 0..block /\ (~put => block > 0)
           /\ Known => srv[s].blk <= Held /\ srv[s].got = Upto(srv[s].blk)
           /\ ~put => srv[s].blk <= block
           /\ \A p \in net : /\ p \in Packets
                             /\ Known => PutPacket(p)
                             /\ ~put => GetPacket(p)
<1>i. ControlOK /\ DataOK
    BY DEF TransferInv
<1>1. srv \in [Servers -> Processes]
    BY <1>i DEF ControlOK, Processes
<1>2. srv[s] \in Processes
    BY <1>1
<1>3. srv[s].blk \in Nat /\ srv[s].got \in Seq(Chars)
    BY <1>2 DEF Processes
<1>4. block \in 0..Word /\ (~put => block > 0) /\ (pc = "fill" => block > 0)
    BY <1>i DEF ControlOK
<1>5. Word \in Nat /\ Word > 0
    BY TftpConstants
<1>6. Held \in 0..block
    BY <1>4, <1>5 DEF Held
<1>7. \A p \in net : p \in Packets
    BY <1>i DEF ControlOK
<1> QED
    BY <1>i, <1>1, <1>2, <1>3, <1>4, <1>5, <1>6, <1>7 DEF TransferInv, DataOK, Putting, Getting

\* A request that reaches the peer, for the first time or again.
LEMMA StartStep ==
    ASSUME TransferInv, ServerStart
    PROVE  TransferInv'
<1> DEFINE first == IF put THEN 0 ELSE 1
<1>1. PICK p \in net, s \in Servers :
          /\ p.op = "request" /\ srv[s].state = "off"
          /\ srv' = [srv EXCEPT ![s].state = "up", ![s].blk = first]
          /\ net' \in Sent(net \ {p}, Reply(s, first))
    BY DEF ServerStart
<1>2. pc # "ended" /\ UNCHANGED Client
    BY DEF ServerStart
<1>3. first \in Nat /\ (~put => first = 1) /\ (put => first = 0)
    OBVIOUS
<1> HIDE DEF first
<1>4. /\ TaskOK /\ srv \in [Servers -> Processes]
      /\ srv[s].got \in Seq(Chars) /\ block \in 0..Word /\ Word \in Nat /\ Word > 0
      /\ Held \in 0..block /\ (~put => block > 0)
      /\ Known => srv[s].got = Upto(srv[s].blk)
    BY <1>2, ServerKnows
<1>5. srv[s].blk = 0
    BY <1>1 DEF TransferInv, ControlOK
<1>6. PICK n, v, m : n = first /\ v = srv'[s] /\ m = Reply(s, n)
    OBVIOUS
<1>7. /\ srv' \in [Servers -> Processes] /\ \A t \in Servers \ {s} : srv'[t] = srv[t]
      /\ v.state = "up" /\ v.blk = first /\ v.got = srv[s].got
    BY <1>1, <1>3, <1>4, <1>6 DEF Processes
<1>8. /\ m \in Packets /\ m.from = s /\ m.to = Own
      /\ put => m.op = "ack" /\ m.blk = first % Word
      /\ ~put => m.op = "data" /\ m.blk = first % Word /\ m.data = Segment(first)
    <2>1. n \in Nat /\ (~put => n > 0)
        BY <1>3, <1>6
    <2>2. /\ m \in Packets /\ m.from = s /\ m.to = Own
          /\ put => m.op = "ack" /\ m.blk = n % Word
          /\ ~put => m.op = "data" /\ m.blk = n % Word /\ m.data = Segment(n)
        <3>1. m = Reply(s, n) /\ TaskOK
            BY <1>4, <1>6
        <3> QED
            BY <2>1, <3>1, ReplyType
    <2> QED
        BY <1>6, <2>2
<1>9. \A x \in net' : x \in net \/ x = m
    BY <1>1, <1>6, SentOne
<1>10. srv[s].blk <= v.blk /\ (~put => v.blk > 0)
    BY <1>3, <1>5, <1>7
<1>11. ASSUME Known
       PROVE  /\ v.blk <= Held /\ v.got = Upto(v.blk)
              /\ m.op # "data" /\ (m.op = "ack" => m.blk <= v.blk)
    <2>1. first % Word = 0
        BY <1>3, <1>4, <1>11 DEF Known
    <2> QED
        BY <1>3, <1>4, <1>5, <1>7, <1>8, <1>11, <2>1 DEF Known
<1>12. ASSUME ~put
       PROVE  /\ v.blk <= block /\ m.op # "ack"
              /\ m.op = "data" => \E a \in 1..v.blk : m.blk = a % Word /\ m.data = Segment(a)
    BY <1>3, <1>4, <1>7, <1>8, <1>12
<1> QED
    BY <1>2, <1>6, <1>7, <1>8, <1>9, <1>10, <1>11, <1>12, ServerDid

\* A server's timer.
LEMMA ResendStep ==
    ASSUME TransferInv, ServerResend
    PROVE  TransferInv'
<1>1. PICK s \in Servers : srv[s].state = "up" /\ net' \in Sent(net, Reply(s, srv[s].blk))
    BY DEF ServerResend
<1>2. pc # "ended" /\ UNCHANGED Client /\ srv' = srv
    BY DEF ServerResend
<1>4. /\ TaskOK /\ srv \in [Servers -> Processes]
      /\ srv[s] \in Processes /\ srv[s].blk \in Nat
      /\ block \in 0..Word /\ Word \in Nat /\ Word > 0 /\ Held \in 0..block
      /\ Known => srv[s].blk <= Held /\ srv[s].got = Upto(srv[s].blk)
      /\ ~put => srv[s].blk <= block
    BY <1>2, ServerKnows
<1>5. ~put => srv[s].blk > 0
    BY <1>1 DEF TransferInv, ControlOK
<1>6. PICK v, n, m : v = srv[s] /\ n = srv[s].blk /\ m = Reply(s, n)
    OBVIOUS
<1>7. /\ srv' \in [Servers -> Processes] /\ \A t \in Servers \ {s} : srv'[t] = srv[t]
      /\ v = srv'[s]
    BY <1>2, <1>4, <1>6
<1>8. /\ m \in Packets /\ m.from = s /\ m.to = Own
      /\ put => m.op = "ack" /\ m.blk = n % Word
      /\ ~put => m.op = "data" /\ m.blk = n % Word /\ m.data = Segment(n)
    BY <1>4, <1>5, <1>6, ReplyType
<1>9. \A x \in net' : x \in net \/ x = m
    BY <1>1, <1>6, SentOne
<1>11. ASSUME Known
       PROVE  /\ v.blk <= Held /\ v.got = Upto(v.blk)
              /\ m.op # "data" /\ (m.op = "ack" => m.blk <= v.blk)
    <2>1. n \in 0..Word /\ n < Word
        BY <1>4, <1>6, <1>11 DEF Known
    <2>2. n % Word = n
        BY <2>1, Modulo
    <2> QED
        BY <1>4, <1>6, <1>8, <1>11, <2>2 DEF Known
<1>12. ASSUME ~put
       PROVE  /\ v.blk <= block /\ m.op # "ack"
              /\ m.op = "data" => \E a \in 1..v.blk : m.blk = a % Word /\ m.data = Segment(a)
    <2>1. n \in 1..n /\ v.blk = n
        BY <1>4, <1>5, <1>6, <1>12
    <2> QED
        BY <1>4, <1>6, <1>8, <1>12, <2>1
<1>13. v \in Processes /\ v.state # "off" /\ srv[s].blk <= v.blk /\ (~put => v.blk > 0)
    BY <1>1, <1>4, <1>5, <1>6
<1> QED
    BY <1>2, <1>7, <1>8, <1>9, <1>11, <1>12, <1>13, ServerDid

\* The end of a server, with an error.
LEMMA FailsStep ==
    ASSUME TransferInv, ServerFails
    PROVE  TransferInv'
<1>1. PICK s \in Servers : /\ srv[s].state = "up" /\ srv' = [srv EXCEPT ![s].state = "down"]
                           /\ net' \in Sent(net, Packet("error", 0, <<>>, s, Own))
    BY DEF ServerFails
<1>2. pc # "ended" /\ UNCHANGED Client
    BY DEF ServerFails
<1>4. /\ srv \in [Servers -> Processes] /\ srv[s].blk \in Nat /\ srv[s].got \in Seq(Chars)
      /\ Known => srv[s].blk <= Held /\ srv[s].got = Upto(srv[s].blk)
      /\ ~put => srv[s].blk <= block
      /\ 0 \in 0..(Word - 1)
    BY <1>2, ServerKnows
<1>5. ~put => srv[s].blk > 0
    BY <1>1 DEF TransferInv, ControlOK
<1>6. PICK v, m : v = srv'[s] /\ m = Packet("error", 0, <<>>, s, Own)
    OBVIOUS
<1>7. /\ srv' \in [Servers -> Processes] /\ \A t \in Servers \ {s} : srv'[t] = srv[t]
      /\ v.state = "down" /\ v.blk = srv[s].blk /\ v.got = srv[s].got
    BY <1>1, <1>4, <1>6 DEF Processes
<1>8. m \in Packets
    <2>1. <<>> \in Seq(Chars)
        OBVIOUS
    <2> QED
        BY <1>4, <1>6, <2>1, PacketType
<1>9. m.op = "error" /\ m.from = s /\ m.to = Own
    BY <1>6 DEF Packet
<1>10. \A x \in net' : x \in net \/ x = m
    BY <1>1, <1>6, SentOne
<1>11. srv[s].blk <= v.blk /\ v.state # "off" /\ (~put => v.blk > 0)
    BY <1>4, <1>5, <1>7
<1>12. Known => /\ v.blk <= Held /\ v.got = Upto(v.blk)
                              /\ m.op # "data" /\ (m.op = "ack" => m.blk <= v.blk)
    BY <1>4, <1>7, <1>9
<1>13. ~put => /\ v.blk <= block /\ m.op # "ack"
               /\ m.op = "data" => \E a \in 1..v.blk : m.blk = a % Word /\ m.data = Segment(a)
    BY <1>4, <1>7, <1>9
<1> QED
    BY <1>2, <1>6, <1>7, <1>8, <1>9, <1>10, <1>11, <1>12, <1>13, ServerDid

\* A packet reaches a server.
LEMMA ServerReceiveStep ==
    ASSUME TransferInv, ServerReceive
    PROVE  TransferInv'
<1>1. pc # "ended" /\ UNCHANGED Client
    BY DEF ServerReceive
<1>2. PICK s \in Servers, p \in net :
         LET v == srv[s] IN
         /\ p.to = s /\ v.state = "up"
         /\ \/ /\ p.op = "data" /\ p.blk = (v.blk + 1) % Word
               /\ srv' = [srv EXCEPT ![s].blk = @ + 1, ![s].got = @ \o p.data]
               /\ net' \in Sent(net \ {p}, Reply(s, v.blk + 1))
            \/ /\ p.op = "data" /\ p.blk = v.blk % Word
               /\ net' \in Sent(net \ {p}, Reply(s, v.blk))
               /\ UNCHANGED srv
            \/ /\ p.op = "ack" /\ p.blk = v.blk % Word /\ v.blk < LastBlock
               /\ srv' = [srv EXCEPT ![s].blk = @ + 1]
               /\ net' \in Sent(net \ {p}, Reply(s, v.blk + 1))
            \/ /\ p.op = "error" \/ (p.op = "ack" /\ p.blk = v.blk % Word /\ v.blk = LastBlock)
               /\ srv' = [srv EXCEPT ![s].state = "down"]
               /\ net' = net \ {p}
    BY DEF ServerReceive
<1>3. /\ TaskOK
      /\ srv \in [Servers -> Processes] /\ srv[s] \in Processes
    BY <1>1, ServerKnows
<1>4. /\ srv[s].blk \in Nat /\ srv[s].got \in Seq(Chars)
      /\ block \in 0..Word /\ Word \in Nat /\ Word > 0
      /\ Held \in 0..block /\ (~put => block > 0)
      /\ Known => srv[s].blk <= Held /\ srv[s].got = Upto(srv[s].blk)
      /\ ~put => srv[s].blk <= block
    BY <1>1, ServerKnows
<1>5. p \in Packets /\ p.data \in Seq(Chars) /\ p.blk \in 0..(Word - 1)
    <2>1. p \in Packets
        BY <1>1, ServerKnows
    <2> QED
        BY <2>1 DEF Packets
<1>6. p.to # Own /\ ~(p.to = Own)
    BY <1>2 DEF Servers, Own
<1>7. Known => p.op # "ack" /\ (p.op = "data" => p.blk \in 1..Held /\ p.data = Segment(p.blk))
    BY <1>1, <1>6, ServerKnows DEF PutPacket
<1>8. ~put => p.op # "data" /\ (p.op = "ack" => p.blk \in 1..(block - 1))
    BY <1>1, <1>6, ServerKnows DEF GetPacket
<1>9. srv[s].state = "up" /\ (~put => srv[s].blk > 0)
    BY <1>2 DEF TransferInv, ControlOK
\* An answer for block n, with the server where it is now.
<1>10. ASSUME NEW n \in Nat, NEW g \in Seq(Chars), srv[s].blk <= n, srv' \in [Servers -> Processes],
              \A t \in Servers \ {s} : srv'[t] = srv[t],
              srv'[s].state = "up", srv'[s].blk = n, srv'[s].got = g,
              net' \in Sent(net \ {p}, Reply(s, n)),
              Known => n <= Held /\ g = Upto(n),
              ~put => n > 0 /\ n <= block
       PROVE  TransferInv'
    <2>1. PICK v, m : v = srv'[s] /\ m = Reply(s, n)
        OBVIOUS
    <2>2. /\ m \in Packets /\ m.from = s /\ m.to = Own
          /\ put => m.op = "ack" /\ m.blk = n % Word
          /\ ~put => m.op = "data" /\ m.blk = n % Word /\ m.data = Segment(n)
        BY <1>3, <1>10, <2>1, ReplyType
    <2>3. \A x \in net' : x \in net \/ x = m
        BY <1>10, <2>1, SentOne
    <2>4. v.state # "off" /\ srv[s].blk <= v.blk /\ (~put => v.blk > 0)
        BY <1>10, <2>1
    <2>5. ASSUME Known
          PROVE  /\ v.blk <= Held /\ v.got = Upto(v.blk)
                 /\ m.op # "data" /\ (m.op = "ack" => m.blk <= v.blk)
        <3>1. n \in 0..Word /\ n < Word
            BY <1>4, <1>10, <2>5 DEF Known
        <3>2. n % Word = n
            BY <3>1, Modulo
        <3> QED
            BY <1>10, <2>1, <2>2, <2>5, <3>2 DEF Known
    <2>6. ASSUME ~put
          PROVE  /\ v.blk <= block /\ m.op # "ack"
                 /\ m.op = "data" => \E a \in 1..v.blk : m.blk = a % Word /\ m.data = Segment(a)
        <3>1. n \in 1..n /\ v.blk = n
            BY <1>10, <2>1, <2>6
        <3> QED
            BY <1>10, <2>2, <2>6, <3>1
    <2> QED
        BY <1>1, <1>10, <2>1, <2>2, <2>3, <2>4, <2>5, <2>6, ServerDid
<1>11. CASE /\ p.op = "data" /\ p.blk = (srv[s].blk + 1) % Word
            /\ srv' = [srv EXCEPT ![s].blk = @ + 1, ![s].got = @ \o p.data]
            /\ net' \in Sent(net \ {p}, Reply(s, srv[s].blk + 1))
    <2>1. PICK n, g : n = srv[s].blk + 1 /\ g = srv[s].got \o p.data
        OBVIOUS
    <2>2. n \in Nat /\ srv[s].blk <= n
        BY <1>4, <2>1
    <2>3. g \in Seq(Chars)
        BY <1>4, <1>5, <2>1, ConcatProperties
    <2>4. /\ srv' \in [Servers -> Processes] /\ \A t \in Servers \ {s} : srv'[t] = srv[t]
          /\ srv'[s].state = "up" /\ srv'[s].blk = n /\ srv'[s].got = g
        BY <1>3, <1>9, <1>11, <2>1, <2>2, <2>3 DEF Processes
    <2>5. put
        BY <1>8, <1>11
    <2>6. ASSUME Known PROVE n <= Held /\ g = Upto(n)
        <3>1. p.blk \in 1..Held /\ p.data = Segment(p.blk) /\ srv[s].blk <= Held
            BY <1>4, <1>7, <1>11, <2>5, <2>6
        <3>2. n \in 0..Word
            BY <1>4, <2>1, <2>6, <3>1 DEF Known
        <3>3. p.blk = n % Word
            BY <1>11, <2>1
        <3>4. p.blk = n
            BY <1>4, <3>1, <3>2, <3>3, Modulo
        <3>5. Upto(srv[s].blk) \o Segment(n) = Upto(n)
            BY <1>3, <1>4, <2>1, Blocks
        <3>6. n <= Held
            BY <3>1, <3>4
        <3>7. srv[s].got = Upto(srv[s].blk)
            BY <1>4, <2>5, <2>6
        <3>8. g = Upto(n)
            BY <2>1, <3>1, <3>4, <3>5, <3>7, Zenon
        <3> QED
            BY <3>6, <3>8
    <2> QED
        BY <1>10, <1>11, <2>1, <2>2, <2>3, <2>4, <2>5, <2>6
<1>12. CASE p.op = "data" /\ net' \in Sent(net \ {p}, Reply(s, srv[s].blk)) /\ srv' = srv
    <2>1. PICK n, g : n = srv[s].blk /\ g = srv[s].got
        OBVIOUS
    <2>2. put
        BY <1>8, <1>12
    <2> QED
        BY <1>3, <1>4, <1>9, <1>10, <1>12, <2>1, <2>2
<1>13. CASE /\ p.op = "ack" /\ p.blk = srv[s].blk % Word
            /\ srv' = [srv EXCEPT ![s].blk = @ + 1]
            /\ net' \in Sent(net \ {p}, Reply(s, srv[s].blk + 1))
    <2>1. PICK n, g : n = srv[s].blk + 1 /\ g = srv[s].got
        OBVIOUS
    <2>2. n \in Nat /\ srv[s].blk <= n /\ n > 0 /\ g \in Seq(Chars)
        BY <1>4, <2>1
    <2>3. /\ srv' \in [Servers -> Processes] /\ \A t \in Servers \ {s} : srv'[t] = srv[t]
          /\ srv'[s].state = "up" /\ srv'[s].blk = n /\ srv'[s].got = g
        BY <1>3, <1>9, <1>13, <2>1, <2>2 DEF Processes
    <2>4. ~Known
        BY <1>7, <1>13
    <2>5. ASSUME ~put PROVE n <= block
        <3>1. p.blk \in 1..(block - 1) /\ srv[s].blk <= block
            BY <1>4, <1>8, <1>13, <2>5
        <3>2. srv[s].blk \in 0..Word
            BY <1>4, <3>1
        <3>3. p.blk = srv[s].blk
            BY <1>4, <1>13, <3>1, <3>2, Modulo
        <3> QED
            BY <1>4, <2>1, <3>1, <3>3
    <2> QED
        BY <1>10, <1>13, <2>1, <2>2, <2>3, <2>4, <2>5
<1>14. CASE srv' = [srv EXCEPT ![s].state = "down"] /\ net' = net \ {p}
    <2>1. PICK v, m : v = srv'[s] /\ m = Packet("error", 0, <<>>, s, Own)
        OBVIOUS
    <2>2. /\ srv' \in [Servers -> Processes] /\ \A t \in Servers \ {s} : srv'[t] = srv[t]
          /\ v.state = "down" /\ v.blk = srv[s].blk /\ v.got = srv[s].got
        BY <1>3, <1>14, <2>1 DEF Processes
    <2>3. 0 \in 0..(Word - 1) /\ <<>> \in Seq(Chars)
        BY <1>4
    <2>4. m \in Packets
        BY <2>1, <2>3, PacketType
    <2>5. m.op = "error" /\ m.from = s /\ m.to = Own
        BY <2>1 DEF Packet
    <2>6. srv[s].blk <= v.blk /\ v.state # "off" /\ (~put => v.blk > 0)
        BY <1>4, <1>9, <2>2
    <2>7. Known => /\ v.blk <= Held /\ v.got = Upto(v.blk)
                                 /\ m.op # "data" /\ (m.op = "ack" => m.blk <= v.blk)
        BY <1>4, <2>2, <2>5
    <2>8. ~put => /\ v.blk <= block /\ m.op # "ack"
                  /\ m.op = "data" => \E a \in 1..v.blk : m.blk = a % Word /\ m.data = Segment(a)
        BY <1>4, <2>2, <2>5
    <2>9. \A x \in net' : x \in net \/ x = m
        BY <1>14
    <2> QED
        BY <1>1, <2>1, <2>2, <2>4, <2>5, <2>6, <2>7, <2>8, <2>9, ServerDid
<1> QED
    BY <1>2, <1>11, <1>12, <1>13, <1>14

-----------------------------------------------------------------------------
(* The transfer.                                                             *)

\* A transfer begins with the request in hand, the buffers empty and nobody there.
LEMMA TransferInit ==
    ASSUME Init
    PROVE  TransferInv
<1>1. PICK f \in Files, m \in {"put", "get"}, c \in BOOLEAN, tries \in 1..Tries :
          task = [file |-> f, mode |-> m, convert |-> c, tries |-> tries,
                  wire |-> IF c THEN Netascii(f) ELSE f]
    BY DEF Init
<1>2. /\ task.file = f /\ task.convert = c
      /\ task.wire = IF c THEN Netascii(f) ELSE f
    BY <1>1
<1>3. f \in Seq(Chars) /\ tries \in 1..Tries
    BY TftpConstants
<1>w. task.wire \in Seq(Chars)
    <2>1. PICK w : w = Netascii(task.file)
        OBVIOUS
    <2>2. ASSUME c PROVE w \in Seq(Chars)
        <3>1. task.convert /\ task.file \in Seq(Chars)
            BY <1>2, <1>3, <2>2
        <3> QED
            BY <2>1, <3>1, Flattened
    <2> QED
        BY <1>2, <1>3, <2>1, <2>2
<1>4. TaskOK /\ Len(task.file) \in Nat
    <2>1. task \in Tasks
        BY <1>1, <1>2, <1>3, <1>w DEF Tasks
    <2> QED
        BY <1>2, <1>3, <2>1 DEF TaskOK
<1>5. /\ pc = "request" /\ outcome = "none" /\ block = (IF put THEN 0 ELSE 1) /\ timeout = 0
      /\ port = Well /\ masked \in BOOLEAN /\ queue = <<>> /\ net = {}
      /\ srv = [s \in Servers |-> [state |-> "off", blk |-> 0, got |-> <<>>]]
    BY DEF Init
<1>6. /\ io.bfs[0] = BF_ALLOC /\ io.bfs[1] = BF_FREE /\ io.current = 0
      /\ io.nextone = (IF put THEN 1 ELSE 0) /\ io.pos = 0 /\ io.out = <<>>
      /\ io.newline = FALSE /\ io.prevchar = "none"
    BY DEF Init, rw_init
<1>7. io \in Ios
    BY BufTypes DEF Init, rw_init, Ios
<1>8. DataOK
    BY <1>4, <1>6, <1>7 DEF DataOK
<1>9. Word \in Nat /\ Word > 0 /\ Tries \in Nat /\ Tries > 0
    BY TftpConstants
<1>10. ControlOK
    <2>1. srv \in [Servers -> [state : {"off", "up", "down"}, blk : Nat, got : Seq(Chars)]]
        BY <1>5
    <2>2. \A s \in Servers : srv[s].blk = 0 /\ srv[s].state = "off"
        BY <1>5
    <2>3. queue \in Seq(Packets) /\ Len(queue) = 0
        BY <1>5
    <2>4. block \in 0..Word /\ (~put => block > 0) /\ timeout \in 0..(Tries - 1)
        BY <1>5, <1>9
    <2>5. /\ pc \in {"request", "fill", "wait", "ended"} /\ outcome \in {"none", "ok", "error", "timeout"}
          /\ outcome # "ok" /\ pc # "fill" /\ block = IF put THEN 0 ELSE 1
        BY <1>5
    <2>6. port \in Servers \cup {Well} /\ masked \in BOOLEAN /\ net = {}
        BY <1>5
    <2>7. /\ \A i \in 1..Len(queue) : queue[i].from \in Servers
          /\ \A p \in net : p \in Packets /\ (p.to = Own => p.from \in Servers)
        BY <2>3, <2>6
    <2> QED
        BY <2>1, <2>2, <2>3, <2>4, <2>5, <2>6, <2>7 DEF ControlOK
<1>11. Upto(0) = <<>>
    BY <1>4, Blocks
<1>16. 0 \in 0..Len(task.file) /\ io.out = SubSeq(task.file, 1, 0)
    BY <1>4, <1>6, SubSeqEmpty
<1>12. Reading /\ Writing
    <2>0. 0 \in Nat /\ 0 * SEGSIZE = 0 /\ Len(task.wire) \in Nat
        BY <1>4, Ends
    <2>p. Place(0) = 0
        BY PlaceNext
    <2>e. End(0) = 0
        BY <2>0 DEF End, Least
    <2>1. End(0) = 0 /\ Place(0) = 0
        BY <2>p, <2>e
    <2>2. ReadTo(io, 0)
        BY <1>6, <2>1 DEF ReadTo
    <2>3. WroteTo(io, End(0))
        BY <1>6, <1>16, <2>1 DEF WroteTo, Wrote
    <2>4. Held = block /\ (put => block = 0) /\ (~put => block = 1)
        BY <1>5 DEF Held
    <2>5. Reading
        BY <1>5, <1>6, <2>2, <2>4 DEF Reading
    <2>6. Writing
        BY <1>5, <1>6, <2>3, <2>4 DEF Writing
    <2> QED
        BY <2>5, <2>6
<1>13. Putting /\ Getting
    <2>1. \A s \in Servers : srv[s].blk = 0 /\ srv[s].got = <<>>
        BY <1>5
    <2>2. Len(queue) = 0 /\ net = {}
        BY <1>5
    <2>3. Putting
        BY <1>5, <1>11, <2>1, <2>2 DEF Putting, Known, Held
    <2>4. Getting
        BY <1>5, <2>1, <2>2 DEF Getting
    <2> QED
        BY <2>3, <2>4
<1>14. SentWhole
    BY <1>5 DEF SentWhole
<1>15. WrittenRight
    BY <1>5, <1>16 DEF WrittenRight
<1> QED
    BY <1>8, <1>10, <1>12, <1>13, <1>14, <1>15 DEF TransferInv

\* Every step of a transfer, or none, preserves the invariant.
LEMMA TransferStep ==
    ASSUME TransferInv, [Next]_vars
    PROVE  TransferInv'
<1>1. CASE timer
    BY <1>1, TimerStep
<1>2. CASE Receive
    BY <1>2, ReceiveStep
<1>3. CASE MakeRequest
    BY <1>3, RequestStep
<1>4. CASE Fill
    BY <1>4, FillStep
<1>5. CASE Deliver
    BY <1>5, DeliverStep
<1>6. CASE ServerStart
    BY <1>6, StartStep
<1>7. CASE ServerReceive
    BY <1>7, ServerReceiveStep
<1>8. CASE ServerResend
    BY <1>8, ResendStep
<1>9. CASE ServerFails
    BY <1>9, FailsStep
<1>10. CASE UNCHANGED vars
    <2>1. UNCHANGED <<task, pc, outcome, block, timeout, port, masked, io, queue, net, srv>>
        BY <1>10 DEF vars
    <2>3. /\ (put' <=> put) /\ (TaskOK' <=> TaskOK) /\ Held' = Held
          /\ (Known' <=> Known) /\ (Cut(io)' <=> Cut(io))
          /\ \A n : Segment(n)' = Segment(n) /\ End(n)' = End(n) /\ Upto(n)' = Upto(n)
          /\ \A e : (ReadTo(io, e)' <=> ReadTo(io, e)) /\ (WroteTo(io, e)' <=> WroteTo(io, e))
        BY <2>1, SameTask DEF Held, Known
    <2>4. DataOK' /\ ControlOK'
        BY <2>1, <2>3 DEF TransferInv, DataOK, ControlOK
    <2>5. Reading' /\ Writing'
        BY <2>1, <2>3 DEF TransferInv, Reading, Writing, BF_ALLOC, BF_FREE, Buf
    <2>6. Putting' /\ Getting'
        BY <2>1, <2>3 DEF TransferInv, Putting, PutPacket, Getting, GetPacket
    <2>7. SentWhole' /\ WrittenRight'
        BY <2>1, <2>3 DEF TransferInv, SentWhole, WrittenRight
    <2> QED
        BY <2>4, <2>5, <2>6, <2>7 DEF TransferInv
<1> QED
    BY <1>1, <1>2, <1>3, <1>4, <1>5, <1>6, <1>7, <1>8, <1>9, <1>10 DEF Next, ClientStep

\* The invariant holds in every state of every transfer: both buffers hold the blocks
\* that their states say, what was read and written fits what travelled, no server is
\* ahead of the client, and no packet says anything that is not so.
THEOREM TransferInvariant == Spec => []TransferInv
<1>1. Init => TransferInv
    BY TransferInit
<1>2. TransferInv /\ [Next]_vars => TransferInv'
    BY TransferStep
<1> QED
    BY <1>1, <1>2, PTL DEF Spec

\* Type correctness: no buffer index, block number or packet leaves its range, and
\* read_ahead() never reads past the file's end, whatever is lost, late or repeated.
THEOREM TftpTypeCorrect == Spec => []TypeOK
<1>1. ASSUME TransferInv PROVE TypeOK
    <2>1. DataOK /\ ControlOK
        BY <1>1 DEF TransferInv
    <2>2. /\ \A i \in {0, 1} : io.bfs[i] \in Bufs
          /\ io.current \in {0, 1} /\ io.nextone \in {0, 1}
          /\ io.out \in Seq(Chars) /\ io.pos \in Nat /\ io.pos <= Len(task.file)
          /\ Len(task.file) \in Nat
        BY <2>1 DEF DataOK, Ios, Tasks
    <2>3. \A i \in {0, 1} : /\ io.bfs[i].state \in {"free", "alloc", "data", "error"}
                            /\ io.bfs[i].data \in Seq(Chars)
        BY <2>2 DEF Bufs
    <2>4. block \in Nat /\ io.pos \in 0..Len(task.file)
        BY <2>1, <2>2, TftpConstants DEF ControlOK
    <2>5. \A p \in net \cup Range(queue) : p \in Packets
        BY <2>1 DEF ControlOK, Range
    <2>6. \A s \in Servers : /\ srv[s].state \in {"off", "up", "down"}
                             /\ srv[s].blk \in Nat /\ srv[s].got \in Seq(Chars)
        BY <2>1 DEF ControlOK
    <2> QED
        BY <2>1, <2>2, <2>3, <2>4, <2>5, <2>6 DEF TypeOK, ControlOK
<1>2. TransferInv => TypeOK
    BY <1>1
<1> QED
    BY <1>2, TransferInvariant, PTL

\* When sendfile() reports success, one process of the server has the whole of what
\* travels: for every file, longer than the block numbers reach or not, and however
\* often the request was served.
THEOREM TftpSentWholeCorrect == Spec => []SentWhole
<1>1. TransferInv => SentWhole
    BY DEF TransferInv
<1> QED
    BY <1>1, TransferInvariant, PTL

\* What sendfile() would send again is the block it waits for: the read-ahead never
\* touches the buffer that is under way, and in netascii mode a character that a
\* block's end cuts in two goes on in the next block.
THEOREM TftpBlockStableCorrect == Spec => []BlockStable
<1>1. ASSUME TransferInv PROVE BlockStable
    <2> SUFFICES ASSUME put, ~io.failed, pc = "wait", block > 0
                 PROVE  io.bfs[io.current] = Buf("data", Segment(block))
        BY DEF BlockStable
    <2>1. Held = block /\ block # 0
        <3>1. block \in 0..Word /\ Word \in Nat
            BY <1>1, TftpConstants DEF TransferInv, ControlOK
        <3> QED
            BY <3>1 DEF Held
    <2> QED
        BY <1>1, <2>1 DEF TransferInv, Reading, Cut
<1>2. TransferInv => BlockStable
    BY <1>1
<1> QED
    BY <1>2, TransferInvariant, PTL

\* What recvfile() has written is a beginning of the file, perhaps with the first half
\* of a newline behind it, and all of it when the transfer ends well, converted back
\* from netascii across the ends of the blocks; write errors apart.
THEOREM TftpWrittenRightCorrect == Spec => []WrittenRight
<1>1. TransferInv => WrittenRight
    BY DEF TransferInv
<1> QED
    BY <1>1, TransferInvariant, PTL
=============================================================================
