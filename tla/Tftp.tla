------------------------------- MODULE Tftp -------------------------------
(***************************************************************************)
(* One transfer of the tftp client: sendfile() and recvfile() of tftp.c,    *)
(* with the two buffers and the netascii conversion of tftpsubs.c, over a   *)
(* network that loses, delays and reorders packets.                         *)
(*                                                                          *)
(* The peer is not in the repository.  Each request that reaches it starts  *)
(* a process with a port of its own, so that a request sent twice is served *)
(* twice; the client follows whichever port it heard from last.             *)
(***************************************************************************)
EXTENDS Integers, Sequences, FiniteSets, SequencesExt

CONSTANTS
    Files,        \* the contents considered: sequences of characters
    SEGSIZE,      \* scaled
    Word,         \* how many block numbers a u_short has, scaled
    Tries,        \* bound: maxtimeout / rexmtval, both of which the user may set
    MaxServers,   \* bound: processes of the peer, one for each request it hears
    MaxNet,       \* bound: packets under way
    MaxQueue,     \* bound: packets waiting in the client's socket
    MaxResend     \* bound, on the states only: how often a server repeats itself

Servers == 1..MaxServers  \* a process is its port
Own == 0                  \* the client's port
Well == -1                \* the well-known port, for requests

cr == "cr"
lf == "lf"
nul == "nul"
Chars == {"x", cr, lf, nul}

ASSUME TftpConstants ==
    /\ Files \subseteq Seq(Chars)
    /\ {SEGSIZE, Word, Tries, MaxNet, MaxQueue} \subseteq Nat \ {0}
    /\ {MaxServers, MaxResend} \subseteq Nat

VARIABLES
    task,         \* what to transfer, how, and what should travel
    pc,           \* "request" and "fill": top of the loop; "wait"; "ended"
    outcome,      \* how the transfer ended
    block, timeout,
    port,         \* peeraddr.sin_port: Well, or a server's
    masked,       \* SIGALRM is blocked
    io,           \* the variables of tftpsubs.c and the file
    queue,        \* what waits in the client's socket
    net,          \* the packets under way
    srv,          \* the servers
    resent        \* how often one of them repeated itself

vars == <<task, pc, outcome, block, timeout, port, masked, io, queue, net, srv, resent>>

Packet(op, blk, data, from, to) ==
    [op |-> op, blk |-> blk, data |-> data, from |-> from, to |-> to]

\* The network with p sent into it: p is under way, or lost.
Sent(n, p) == {n} \cup IF Cardinality(n) < MaxNet THEN {n \cup {p}} ELSE {}

-----------------------------------------------------------------------------
(* tftpsubs.c: bfs[2], one being filled or flushed while the other is under *)
(* way.  A buffer is free, handed out, filled, or the read() failed.        *)

Buf(state, data) == [state |-> state, data |-> data]
BF_FREE == Buf("free", <<>>)
BF_ALLOC == Buf("alloc", <<>>)

\* pos and out: what has been read of the file and what has been written;
\* failed: some read or write did not do its work.
rw_init(x) ==
    [bfs |-> [i \in {0, 1} |-> IF i = 0 THEN BF_ALLOC ELSE BF_FREE],
     current |-> 0, nextone |-> x, newline |-> FALSE, prevchar |-> "none",
     pos |-> 0, out |-> <<>>, failed |-> FALSE]

\* One turn of read_ahead()'s loop: lf -> cr,lf and cr -> cr,nul, where the
\* second character may fall into the next buffer.
NetasciiChar(s) ==
    IF s.newline
    THEN [s EXCEPT !.newline = FALSE, !.data = Append(@, IF s.prevchar = lf THEN lf ELSE nul)]
    ELSE IF s.pos = s.limit THEN s
    ELSE LET c == task.file[s.pos + 1]
         IN  IF c \in {cr, lf}
             THEN [s EXCEPT !.pos = @ + 1, !.prevchar = c, !.newline = TRUE,
                            !.data = Append(@, cr)]
             ELSE [s EXCEPT !.pos = @ + 1, !.data = Append(@, c)]

\* The loop: as many turns as the buffer has characters.
NetasciiRead(s) ==
    LET turn[i \in 0..SEGSIZE] == IF i = 0 THEN s ELSE NetasciiChar(turn[i - 1])
    IN  turn[SEGSIZE]

\* A failing getc() looks like the end of the file, a failing read() does not.
Filled(b, fails) ==
    IF task.convert
    THEN LET s == NetasciiRead([newline |-> b.newline, prevchar |-> b.prevchar, pos |-> b.pos,
                                data |-> <<>>,
                                limit |-> IF fails THEN b.pos ELSE Len(task.file)])
         IN  [b EXCEPT !.bfs[b.nextone] = Buf("data", s.data), !.newline = s.newline,
                       !.prevchar = s.prevchar, !.pos = s.pos, !.failed = @ \/ fails]
    ELSE IF fails
    THEN [b EXCEPT !.bfs[b.nextone] = Buf("error", <<>>), !.failed = TRUE]
    ELSE LET d == SubSeq(task.file, b.pos + 1, Min({b.pos + SEGSIZE, Len(task.file)}))
         IN  [b EXCEPT !.bfs[b.nextone] = Buf("data", d), !.pos = @ + Len(d)]

\* Mutant: the buffer is filled whether or not it is free.
read_ahead_always(b, fails) == [Filled(b, fails) EXCEPT !.nextone = 1 - @]

read_ahead(b, fails) ==
    IF b.bfs[b.nextone].state # "free" THEN b
    ELSE [Filled(b, fails) EXCEPT !.nextone = 1 - @]

\* Free the buffer that was acknowledged, and go to the other.
readit(b, fails) ==
    LET c == [b EXCEPT !.bfs[b.current] = BF_FREE, !.current = 1 - @]
    IN  IF c.bfs[c.current].state = "free" THEN read_ahead(c, fails) ELSE c

\* One turn of write_behind()'s loop: cr,lf -> lf by a step back in the file,
\* cr,nul -> cr.
WriteChar(s, c) ==
    [prevchar |-> c,
     out |-> IF s.prevchar = cr /\ c = lf THEN Append(Front(s.out), lf)
             ELSE IF s.prevchar = cr /\ c = nul THEN s.out
             ELSE Append(s.out, c)]

\* The loop, over what is in the buffer.
NetasciiWrite(s, data) ==
    LET turn[i \in 0..Len(data)] == IF i = 0 THEN s ELSE WriteChar(turn[i - 1], data[i])
    IN  turn[Len(data)]

\* Mutant: the character before the buffer is forgotten.
WriteFresh(b, data) == NetasciiWrite([prevchar |-> "none", out |-> b.out], data)

Write(b, data) == NetasciiWrite([prevchar |-> b.prevchar, out |-> b.out], data)

write_behind(b, fails) ==
    LET full == b.bfs[b.nextone]
        c == [b EXCEPT !.bfs[b.nextone] = BF_FREE, !.nextone = 1 - @]
        s == Write(b, full.data)
    IN  IF full.state # "data" THEN b
        ELSE IF fails THEN [c EXCEPT !.failed = TRUE]
        ELSE IF task.convert THEN [c EXCEPT !.out = s.out, !.prevchar = s.prevchar]
        ELSE [c EXCEPT !.out = @ \o full.data]

\* The packet's data stays in its buffer; the other one is handed out.
writeit(b, data, fails) ==
    LET c == [b EXCEPT !.bfs[b.current] = Buf("data", data), !.current = 1 - @]
        d == IF c.bfs[c.current].state = "free" THEN c ELSE write_behind(c, fails)
    IN  [d EXCEPT !.bfs[d.current] = BF_ALLOC]

-----------------------------------------------------------------------------
(* The client.                                                               *)

\* bound: one read or write fails
MayFail == IF io.failed THEN {FALSE} ELSE BOOLEAN

put == task.mode = "put"

\* The file as it travels in netascii mode.
Netascii(f) == FlattenSeq([i \in 1..Len(f) |-> CASE f[i] = lf -> <<cr, lf>>
                                                 [] f[i] = cr -> <<cr, nul>>
                                                 [] OTHER -> <<f[i]>>])

\* Mutant: block is a u_short, too.
AnswersWrapped(p, b) == p.blk = b % Word

\* ap->th_block == block and dp->th_block == block: a u_short against an int.
Answers(p, b) == p.blk = b

\* Mutant: the block number goes out as it is.
OutgoingWide(b, blk) ==
    IF put
    THEN IF blk = 0 THEN Packet("request", 0, <<>>, Own, port)
         ELSE Packet("data", blk, b.bfs[b.current].data, Own, port)
    ELSE IF blk = 1 THEN Packet("request", 0, <<>>, Own, port)
         ELSE Packet("ack", blk - 1, <<>>, Own, port)

\* What is in dp, or in ackbuf: the last packet sent.
Outgoing(b, blk) ==
    IF put
    THEN IF blk = 0 THEN Packet("request", 0, <<>>, Own, port)
         ELSE Packet("data", blk % Word, b.bfs[b.current].data, Own, port)
    ELSE IF blk = 1 THEN Packet("request", 0, <<>>, Own, port)
         ELSE Packet("ack", (blk - 1) % Word, <<>>, Own, port)

\* What is done behind every sendto().
Behind(b, fails) == IF put THEN read_ahead(b, fails) ELSE write_behind(b, fails)

\* The label abort; recvfile() acknowledges `block', received or not, and
\* flushes the last buffer.
Abort(why, b, blk, to) ==
    /\ outcome' = why
    /\ pc' = "ended"
    /\ IF put THEN net' = net /\ io' = b
       ELSE /\ net' \in Sent(net, Packet("ack", blk % Word, <<>>, Own, to))
            /\ \E fails \in MayFail : io' = write_behind(b, fails)

\* send_data and send_ack: sendto(), then the other buffer; or sendto() fails.
Send(b, blk, to) ==
    \/ /\ net' \in Sent(net, [Outgoing(b, blk) EXCEPT !.to = to])
       /\ \E fails \in MayFail : io' = Behind(b, fails)
       /\ pc' = "wait"
       /\ UNCHANGED outcome
    \/ Abort("error", b, blk, to)

Init ==
    /\ \E f \in Files, m \in {"put", "get"}, c \in BOOLEAN, tries \in 1..Tries :
          task = [file |-> f, mode |-> m, convert |-> c, tries |-> tries,
                  wire |-> IF c THEN Netascii(f) ELSE f]
    /\ pc = "request"
    /\ outcome = "none"
    /\ block = IF put THEN 0 ELSE 1
    /\ timeout = 0
    /\ port = Well
    /\ masked \in BOOLEAN  \* by a timeout of the transfer before
    /\ io = rw_init(IF put THEN 1 ELSE 0)
    /\ queue = <<>> /\ net = {}
    /\ srv = [s \in Servers |-> [state |-> "off", blk |-> 0, got |-> <<>>]]
    /\ resent = 0

\* The first trip: makerequest().
MakeRequest ==
    /\ pc = "request"
    /\ Send(io, block, port)
    /\ UNCHANGED <<task, block, timeout, port, masked, queue, srv, resent>>

\* The next block, or the next acknowledgement.
Fill ==
    /\ pc = "fill"
    /\ timeout' = 0
    /\ IF put
       THEN /\ \E fails \in MayFail :
                 LET b == readit(io, fails)
                 IN  IF b.bfs[b.current].state = "error"
                     THEN \* nak() and break
                          /\ net' \in Sent(net, Packet("error", 0, <<>>, Own, port))
                          /\ outcome' = "error" /\ pc' = "ended" /\ io' = b
                     ELSE Send(b, block, port)
            /\ UNCHANGED block
       ELSE Send(io, block + 1, port) /\ block' = block + 1
    /\ UNCHANGED <<task, port, masked, queue, srv, resent>>

\* recvfrom() returns what is first in the socket.  The port it came from is
\* the peer's from now on, whatever it is.
Receive ==
    LET p == Head(queue)
        kind == IF put THEN "ack" ELSE "data"
    IN  /\ pc = "wait" /\ queue # <<>>
        /\ port' = p.from
        /\ \/ \* an error
              /\ p.op = "error"
              /\ Abort("error", io, block, p.from)
              /\ queue' = Tail(queue)
              /\ UNCHANGED block
           \/ \* the answer to sendfile()'s block; the loop ends after a short one
              /\ put /\ p.op = "ack" /\ Answers(p, block)
              /\ block' = block + 1
              /\ IF block > 0 /\ Len(io.bfs[io.current].data) < SEGSIZE
                 THEN Abort("ok", io, block, p.from)
                 ELSE pc' = "fill" /\ UNCHANGED <<outcome, net, io>>
              /\ queue' = Tail(queue)
           \/ \* the block recvfile() waits for
              /\ ~put /\ p.op = "data" /\ Answers(p, block)
              /\ \E fails \in MayFail :
                   LET b == writeit(io, p.data, fails)
                   IN  IF Len(p.data) < SEGSIZE
                       THEN Abort("ok", b, block, p.from)
                       ELSE pc' = "fill" /\ io' = b /\ UNCHANGED <<outcome, net>>
              /\ queue' = Tail(queue)
              /\ UNCHANGED block
           \/ \* the last one once more: flush the socket and send again
              /\ p.op = kind /\ ~Answers(p, block) /\ Answers(p, block - 1)
              /\ queue' = <<>>
              /\ Send(io, block, p.from)
              /\ UNCHANGED block
           \/ \* another block, which only flushes the socket
              /\ p.op = kind /\ ~Answers(p, block) /\ ~Answers(p, block - 1)
              /\ queue' = <<>>
              /\ UNCHANGED <<pc, outcome, block, net, io>>
        /\ UNCHANGED <<task, timeout, masked, srv, resent>>

\* SIGALRM: timer() jumps back to the sendto().  It may come when recvfrom()
\* has returned and alarm(0) has not been called, and the packet is lost.
\* longjmp() leaves the handler with SIGALRM blocked for good: setjmp() has not
\* saved the signal mask.
timer ==
    /\ pc = "wait" /\ ~masked
    /\ masked' = TRUE
    /\ \/ queue' = queue
       \/ queue # <<>> /\ queue' = Tail(queue)
    /\ IF timeout + 1 >= task.tries
       THEN /\ outcome' = "timeout" /\ pc' = "ended"
            /\ UNCHANGED <<timeout, net, io>>
       ELSE /\ timeout' = timeout + 1
            /\ Send(io, block, port)
    /\ UNCHANGED <<task, block, port, srv, resent>>

-----------------------------------------------------------------------------
(* The network; what happens after the transfer is of no interest.           *)

Deliver ==
    /\ pc # "ended" /\ Len(queue) < MaxQueue
    /\ \E p \in net : p.to = Own /\ net' = net \ {p} /\ queue' = Append(queue, p)
    /\ UNCHANGED <<task, pc, outcome, block, timeout, port, masked, io, srv, resent>>

-----------------------------------------------------------------------------
(* The server, as the client takes it to be.                                 *)

Segment(n) == SubSeq(task.wire, (n - 1) * SEGSIZE + 1, Min({n * SEGSIZE, Len(task.wire)}))
LastBlock == Len(task.wire) \div SEGSIZE + 1

\* A server repeats its acknowledgement, or its block.
Reply(s, blk) == IF put THEN Packet("ack", blk % Word, <<>>, s, Own)
                 ELSE Packet("data", blk % Word, Segment(blk), s, Own)

Client == <<task, pc, outcome, block, timeout, port, masked, io, queue>>

\* A request starts a process: it acknowledges block 0, or sends block 1.
ServerStart ==
    /\ pc # "ended"
    /\ \E p \in net, s \in Servers :
         /\ p.op = "request" /\ srv[s].state = "off"
         /\ \A t \in 1..(s - 1) : srv[t].state # "off"
         /\ LET first == IF put THEN 0 ELSE 1 IN
            /\ srv' = [srv EXCEPT ![s].state = "up", ![s].blk = first]
            /\ net' \in Sent(net \ {p}, Reply(s, first))
    /\ UNCHANGED <<Client, resent>>

\* The next block of a put is stored and acknowledged, the last one is
\* acknowledged again.  After the acknowledgement of its last block a get goes
\* on; an old one is ignored.
ServerReceive ==
    /\ pc # "ended"
    /\ \E s \in Servers : \E p \in net :
         LET v == srv[s] IN
         /\ p.to = s /\ v.state = "up"
         /\ \/ /\ p.op = "data" /\ p.blk = (v.blk + 1) % Word
               /\ srv' = [srv EXCEPT ![s].blk = @ + 1, ![s].got = @ \o p.data]
               /\ net' \in Sent(net \ {p}, Reply(s, v.blk + 1))
            \/ /\ p.op = "data" /\ p.blk = v.blk % Word
               /\ net' \in Sent(net \ {p}, Reply(s, v.blk))
               /\ UNCHANGED srv
            \/ /\ p.op = "ack" /\ p.blk = v.blk % Word /\ v.blk < LastBlock
               /\ srv' = [srv EXCEPT ![s].blk = @ + 1]
               /\ net' \in Sent(net \ {p}, Reply(s, v.blk + 1))
            \/ /\ p.op = "error" \/ (p.op = "ack" /\ p.blk = v.blk % Word /\ v.blk = LastBlock)
               /\ srv' = [srv EXCEPT ![s].state = "down"]
               /\ net' = net \ {p}
    /\ UNCHANGED <<Client, resent>>

\* Its own timer.
ServerResend ==
    /\ pc # "ended"
    /\ \E s \in Servers :
         /\ srv[s].state = "up" /\ resent < MaxResend
         /\ resent' = resent + 1
         /\ net' \in Sent(net, Reply(s, srv[s].blk))
    /\ UNCHANGED <<Client, srv>>

\* It gives up, with or without a word.
ServerFails ==
    /\ pc # "ended"
    /\ \E s \in Servers :
         /\ srv[s].state = "up"
         /\ srv' = [srv EXCEPT ![s].state = "down"]
         /\ net' \in Sent(net, Packet("error", 0, <<>>, s, Own))
    /\ UNCHANGED <<Client, resent>>

ClientStep == timer \/ Receive \/ MakeRequest \/ Fill

Next ==
    \/ ClientStep \/ Deliver
    \/ ServerStart \/ ServerReceive \/ ServerResend \/ ServerFails

Spec == Init /\ [][Next]_vars

\* The client runs when it can, and the alarm it set goes off.  Nothing is
\* assumed of the network and the server.
FairSpec == Spec /\ WF_vars(ClientStep)

-----------------------------------------------------------------------------

Packets == [op : {"request", "data", "ack", "error"}, blk : 0..(Word - 1), data : Seq(Chars),
            from : Servers \cup {Own}, to : Servers \cup {Own, Well}]

TypeOK ==
    /\ pc \in {"request", "fill", "wait", "ended"}
    /\ outcome \in {"none", "ok", "error", "timeout"}
    /\ block \in Nat /\ timeout \in 0..(Tries - 1)
    /\ port \in Servers \cup {Well}
    /\ masked \in BOOLEAN
    /\ \A i \in {0, 1} : /\ io.bfs[i].state \in {"free", "alloc", "data", "error"}
                         /\ io.bfs[i].data \in Seq(Chars)
    /\ io.current \in {0, 1} /\ io.nextone \in {0, 1}
    /\ io.out \in Seq(Chars) /\ io.pos \in 0..Len(task.file)
    /\ \A p \in net \cup Range(queue) : p \in Packets
    /\ \A s \in Servers : /\ srv[s].state \in {"off", "up", "down"}
                          /\ srv[s].blk \in Nat /\ srv[s].got \in Seq(Chars)

\* When sendfile() comes to its end, one process of the server has the whole
\* file, every block once and in order, however many requests it served and
\* whichever of them the client was talking to; with a block number that the
\* packet cannot hold, the client does not come to the end.  (In netascii mode
\* a failing getc() counts as the end of the file.)
SentWhole ==
    outcome = "ok" /\ put /\ ~(task.convert /\ io.failed)
        => \E s \in Servers : srv[s].got = task.wire

\* What a retransmission would send is the block's own part of the file: the
\* read-ahead never fills the buffer that is under way, and a newline that is
\* cut in two by a block's end is put together again.
BlockStable ==
    put /\ pc = "wait" /\ block > 0 /\ ~io.failed
        => io.bfs[io.current] = Buf("data", Segment(block))

\* What recvfile() has written is always a beginning of the file, perhaps with
\* the first half of a newline behind it, and all of it in the end; write
\* errors apart, which writeit() does not report.
WrittenRight ==
    ~put /\ ~io.failed =>
        /\ \E k \in 0..Len(task.file) :
              \/ io.out = SubSeq(task.file, 1, k)
              \/ /\ k < Len(task.file) /\ task.file[k + 1] = lf /\ task.convert
                 /\ io.out = Append(SubSeq(task.file, 1, k), cr)
        /\ outcome = "ok" => io.out = task.file

\* tftp.1: "Set the total transmission timeout, in seconds."  So a transfer whose
\* server has fallen silent ends, at least the first of a tftp, before which no
\* other has timed out.  (While packets come the time starts anew with each of
\* them, and is not the total either.)
TotalTimeout == ~masked /\ <>[](queue = <<>>) => <>(pc = "ended")
=============================================================================
