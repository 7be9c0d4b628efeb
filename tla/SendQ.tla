------------------------------- MODULE SendQ -------------------------------
(***************************************************************************)
(* The send side of one connection: send_message queues one line,          *)
(* send_queued writes as much of the queue as the socket takes, now and    *)
(* whenever the descriptor becomes writable.  A socket takes any part of   *)
(* what is offered, or none, or fails.  The end of a server's own burst is *)
(* announced from inside send_queued, through send_message again.          *)
(***************************************************************************)
EXTENDS Naturals, Sequences

CONSTANTS
    Lengths,     \* the lengths a line may have, its end of line included
    sendqlen,    \* bytes that may be queued: the class's sendq
    BurstRoom,   \* send_queued: 20480, the queue below which BURST is sent
    BurstLen,    \* length of the BURST line
    MaxLines     \* bound: lines sent in all

ASSUME LengthsPositive == Lengths \subseteq Nat \ {0} /\ BurstLen \in Lengths

VARIABLES
    sendQ,      \* sendQ.list: the lengths of the lines queued
    writeofs,   \* sendQ.writeofs: bytes of the first line already written
    len,        \* sendQ.len
    status,     \* "open", "dead" (FLAGS_DEADSOCKET) or "sendqex" (FLAGS_SENDQEX too)
    write,      \* send_queued is registered for COMM_SELECT_WRITE
    sobsent,    \* FLAGS_SOBSENT: a BURST is due
    burst,      \* FLAGS_BURST: the peer's own burst has not ended
    lines,      \* history: the lengths of all lines that were queued
    wire        \* history: bytes the socket took

vars == <<sendQ, writeofs, len, status, write, sobsent, burst, lines, wire>>

SumOf(s) ==
    LET sum[i \in 0 .. Len(s)] == IF i = 0 THEN 0 ELSE sum[i - 1] + s[i]
    IN sum[Len(s)]

\* A connection as the functions below see and change it.
Link == [sendQ |-> sendQ, writeofs |-> writeofs, len |-> len, status |-> status, write |-> write,
         sobsent |-> sobsent, lines |-> lines, wire |-> wire]

Becomes(l) ==
    /\ sendQ' = l.sendQ /\ writeofs' = l.writeofs /\ len' = l.len /\ status' = l.status
    /\ write' = l.write /\ sobsent' = l.sobsent /\ lines' = l.lines /\ wire' = l.wire

Alive(l) == l.status = "open"

Init ==
    /\ sendQ = <<>> /\ writeofs = 0 /\ len = 0 /\ status = "open" /\ write = FALSE
    /\ sobsent \in BOOLEAN /\ burst = sobsent
    /\ lines = <<>> /\ wire = 0

\* Marks the link dead and drops its queue; the main loop closes it.
dead_link_on_write(l, s) ==
    [l EXCEPT !.status = s, !.sendQ = <<>>, !.len = @ - SumOf(l.sendQ)]

Unwritten(l) == SumOf(l.sendQ) - l.writeofs

\* The lines that are written to their end when the socket takes t bytes.
Completed(l, t) ==
    CHOOSE n \in 0 .. Len(l.sendQ) :
        /\ SumOf(SubSeq(l.sendQ, 1, n)) <= l.writeofs + t
        /\ n < Len(l.sendQ) => SumOf(SubSeq(l.sendQ, 1, n + 1)) > l.writeofs + t

\* Mutant: a line that was begun is started again
WroteRestart(l, t) ==
    LET n == Completed(l, t)
    IN [l EXCEPT !.sendQ = SubSeq(@, n + 1, Len(@)), !.writeofs = 0,
                 !.len = @ - SumOf(SubSeq(l.sendQ, 1, n)), !.wire = @ + t]

\* linebuf_flush, repeated until the socket has taken t bytes: the lines written
\* to their end are done, the next one remembers how far it got.
Wrote(l, t) ==
    LET n == Completed(l, t)
        done == SumOf(SubSeq(l.sendQ, 1, n))
    IN [l EXCEPT !.sendQ = SubSeq(@, n + 1, Len(@)), !.writeofs = (l.writeofs + t) - done,
                 !.len = @ - done, !.wire = @ + t]

\* The write loop: it ends with nothing left, with a socket that would block, or
\* with an error or an end of file.
Flushed(l) ==
    IF l.len = 0 THEN {l}
    ELSE {Wrote(l, t) : t \in 0 .. Unwritten(l)}
           \cup {dead_link_on_write(Wrote(l, t), "dead") : t \in 0 .. Unwritten(l) - 1}

\* Mutant: the descriptor is only watched when nothing could be written
RearmIdle(l) == IF l.len > 0 /\ l.writeofs = 0 THEN [l EXCEPT !.write = TRUE] ELSE l

Rearm(l) == IF l.len > 0 THEN [l EXCEPT !.write = TRUE] ELSE l

\* send_message up to send_queued: linebuf_put and linebuf_attach, unless the
\* queue has grown past its limit.
Queued(l, n) ==
    IF l.len > sendqlen THEN dead_link_on_write(l, "sendqex")
    ELSE [l EXCEPT !.sendQ = Append(@, n), !.len = @ + n, !.lines = Append(@, n)]

\* send_queued without a BURST due: what send_message reaches from send_queued.
WriteOut(l) == {IF Alive(f) THEN Rearm(f) ELSE f : f \in IF Alive(l) THEN Flushed(l) ELSE {l}}

BurstDue(l, b) == Alive(l) /\ l.sobsent /\ ~b /\ l.len < BurstRoom

\* b is FLAGS_BURST, which only the commands of the peer clear.
send_queued(l, b) ==
    UNION {IF BurstDue(f, b) THEN WriteOut(Queued([f EXCEPT !.sobsent = FALSE], BurstLen)) ELSE {f} :
             f \in WriteOut(l)}

send_message(l, n, b) == IF Alive(l) THEN send_queued(Queued(l, n), b) ELSE {l}

(***************************************************************************)
(* The events                                                              *)
(***************************************************************************)
Send(n) ==
    /\ Len(lines) < MaxLines
    /\ \E l \in send_message(Link, n, burst) : Becomes(l)
    /\ UNCHANGED burst

\* The descriptor is writable; its registration was for one time.
Writable ==
    /\ write
    /\ \E l \in send_queued([Link EXCEPT !.write = FALSE], burst) : Becomes(l)
    /\ UNCHANGED burst

\* The peer's BURST command.
PeerBurst ==
    /\ burst /\ burst' = FALSE
    /\ UNCHANGED <<sendQ, writeofs, len, status, write, sobsent, lines, wire>>

Next == (\E n \in Lengths : Send(n)) \/ Writable \/ PeerBurst

Spec == Init /\ [][Next]_vars

\* A writable socket takes at least a byte; the event loop polls every descriptor.
FairSpec == Spec /\ WF_vars(Writable /\ (wire' > wire \/ status' # "open"))

(***************************************************************************)
(* Properties                                                              *)
(***************************************************************************)
\* However the socket cuts the writes, what it took and what is still queued make
\* up the lines sent, each byte once and in order: the offset into the first line
\* is where the written bytes end.
BytesInOrder ==
    status = "open" =>
        /\ SubSeq(lines, Len(lines) - Len(sendQ) + 1, Len(lines)) = sendQ
        /\ wire = SumOf(SubSeq(lines, 1, Len(lines) - Len(sendQ))) + writeofs
        /\ sendQ = <<>> => writeofs = 0

\* No lost wakeup: a live connection with lines queued waits for writability,
\* whichever of send_message, the write event and the BURST announcement ran last.
WriteArmed == status = "open" /\ sendQ # <<>> => write

\* What is queued is written or the link dies.
QueueDrains == sendQ # <<>> ~> (sendQ = <<>>)
=============================================================================
