------------------------------- MODULE RecvQ -------------------------------
(***************************************************************************)
(* The receive side of one connection: the bytes read() returns are cut    *)
(* into lines by linebuf.c while the peer is a client, and by              *)
(* server_dopacket once it is a server.  Commands are loadable modules;    *)
(* here a line is handed over, and what it may do to the connection is     *)
(* chosen: nothing, register it, turn it into a server, kill it.           *)
(* Single threaded: every handler below runs to its end.  The compression  *)
(* and encryption of server links are left out.                            *)
(***************************************************************************)
EXTENDS Integers, Sequences, SequencesExt

CONSTANTS
    Text,           \* the bytes that are neither CR nor LF
    EOL,            \* CR or LF: the code never tells them apart
    BUF_DATA_SIZE,  \* linebuf.h: 512, the size of a line buffer with its NUL
    client_flood,   \* ServerOpts: lines a person may have queued
    MaxRead,        \* bound: bytes one read() returns (READBUF_SIZE)
    MaxBytes        \* bound: bytes the peer sends in all

ASSUME LineRoom == BUF_DATA_SIZE \in Nat /\ BUF_DATA_SIZE >= 2
ASSUME EolIsNotText == EOL \notin Text

VARIABLES
    recvQ,     \* recvQ.list: the line buffers, oldest first
    len,       \* recvQ.len
    restbuf,   \* restbuf[0 .. waitlen - 1]: the unfinished line of a server
    status,    \* what the peer is; "dead" has FLAGS_DEADSOCKET, "gone" was exited
    reader,    \* the handler registered for COMM_SELECT_READ
    recalc,    \* flood_recalc is armed as the flush handler of the descriptor
    stream,    \* history: every byte read
    handled,   \* history: every line handed to user_parse or server_parse
    spoiled    \* history: what else than whole lines happened, see below

recvVars == <<recvQ, len, restbuf, status, reader, recalc, stream, handled, spoiled>>

Bytes == Text \cup {EOL}
LineMax == BUF_DATA_SIZE - 1
Open == {"unknown", "dkey", "person", "oper", "server"}

\* make_client; release_auth_client arms flood_recalc and reads for the first time
RecvInit ==
    /\ recvQ = <<>> /\ len = 0 /\ restbuf = <<>>
    /\ status = "unknown" /\ reader = "read_client_packet" /\ recalc = TRUE
    /\ stream = <<>> /\ handled = <<>> /\ spoiled = {}

(***************************************************************************)
(* linebuf.c                                                               *)
(***************************************************************************)
From(s, i) == SubSeq(s, i, Len(s))
TextOf(s) == SelectSeq(s, LAMBDA b : b # EOL)
HasEol(s) == \E i \in 1 .. Len(s) : s[i] = EOL

NewLine == [text |-> <<>>, len |-> 0, terminated |-> FALSE]

\* Bytes up to the first end of line, and the whole run of CR and LF after it.
linebuf_skip_crlf(s) ==
    CHOOSE n \in 1 .. Len(s) :
        /\ \A i, j \in 1 .. n : i < j /\ s[i] = EOL => s[j] = EOL
        /\ n < Len(s) => s[n] = EOL /\ s[n + 1] # EOL

\* What copying data into a line makes of the line, how many bytes it consumes,
\* what it adds to the length of the whole queue, and whether a line was split.
linebuf_copy_line(line, data) ==
    LET clen == linebuf_skip_crlf(data)
        seen == SubSeq(data, 1, clen)
        room == BUF_DATA_SIZE - line.len - 1
    IN IF line.terminated
       THEN [line |-> line, clen |-> 0, add |-> 0, split |-> FALSE]
       ELSE IF clen > room
       THEN [line |-> [text |-> line.text \o TextOf(SubSeq(seen, 1, room)),
                       len |-> LineMax, terminated |-> TRUE],
             clen |-> clen, add |-> LineMax, split |-> ~HasEol(seen)]
       ELSE [line |-> [text |-> line.text \o TextOf(seen),
                       len |-> line.len + Len(TextOf(seen)), terminated |-> HasEol(seen)],
             clen |-> clen, add |-> Len(TextOf(seen)), split |-> FALSE]

\* The queue after data that no unfinished line takes: new lines until it is used up.
NewLines[data \in Seq(Bytes)] ==
    IF data = <<>> THEN [lines |-> <<>>, add |-> 0, split |-> FALSE]
    ELSE LET c == linebuf_copy_line(NewLine, data)
             rest == NewLines[From(data, c.clen + 1)]
         IN [lines |-> <<c.line>> \o rest.lines, add |-> c.add + rest.add,
             split |-> c.split \/ rest.split]

linebuf_parse(q, data) ==
    IF q = <<>> THEN NewLines[data]
    ELSE LET c == linebuf_copy_line(Last(q), data)
             rest == NewLines[From(data, c.clen + 1)]
         IN [lines |-> Front(q) \o <<c.line>> \o rest.lines, add |-> c.add + rest.add,
             split |-> c.split \/ rest.split]

(***************************************************************************)
(* s_packet.c                                                              *)
(***************************************************************************)
\* What the commands on one or more lines can make of the peer: registration as
\* a user, OPER, a key exchange with a server, server_estab.
Promoted(s) ==
    CASE s = "unknown" -> {"unknown", "dkey", "person", "oper", "server"}
      [] s = "dkey"    -> {"dkey", "server"}
      [] s = "person"  -> {"person", "oper"}
      [] OTHER         -> {s}

\* linebuf_get would return a positive length.
Gettable(line) == line.terminated /\ line.len > 0

\* The number of lines parse_client_queued gets before linebuf_get returns 0.
Ready(q) ==
    CHOOSE n \in 0 .. Len(q) :
        /\ \A i \in 1 .. n : Gettable(q[i])
        /\ n < Len(q) => ~Gettable(q[n + 1])

\* linebuf_get removes the terminated line of length zero it returns 0 for.
Taken(q) ==
    LET n == Ready(q)
    IN IF n < Len(q) /\ q[n + 1].terminated THEN n + 1 ELSE n

Texts(q) == [i \in 1 .. Len(q) |-> q[i].text]
LenOf(q) == FoldSeq(LAMBDA line, sum : line.len + sum, 0, q)

\* exit_client and dead_link_on_write (a reply met a full or broken socket) drop
\* what is queued; linebuf_done_line takes its bytes off the length.
Drop(q, n, s) ==
    /\ recvQ' = <<>>
    /\ len' = n - LenOf(q)
    /\ status' = s

\* Mutant: the reader does not follow the change into a server
RearmedClient(s) == "read_client_packet"

\* The reader registered when the queue has been served.
Rearmed(s) == IF s = "server" THEN "read_server_packet" ELSE "read_client_packet"

\* The lines of q, with n bytes counted, are handed to user_parse one by one.
\* sent_parsed is never counted up, so the flood limit never ends the loop.
\* The registration r is what a dead connection is left with.
parse_client_queued(q, n, r) ==
    /\ UNCHANGED restbuf
    /\ \/ \E s \in IF Ready(q) = 0 THEN {status} ELSE Promoted(status) :
            /\ recvQ' = From(q, Taken(q) + 1)
            /\ len' = n - LenOf(SubSeq(q, 1, Taken(q)))
            /\ handled' = handled \o Texts(SubSeq(q, 1, Ready(q)))
            /\ status' = s
            /\ reader' = Rearmed(s)
       \/ \E k \in 1 .. Ready(q), s \in {"dead", "gone"} :
            /\ Drop(q, n, s)
            /\ handled' = handled \o Texts(SubSeq(q, 1, k))
            /\ reader' = IF s = "dead" THEN r ELSE "none"

\* The lines of a server: every CR or LF ends one, empty ones are skipped, and
\* what follows the last is kept for the next read.
Ends(s) == {i \in 1 .. Len(s) : s[i] = EOL}
LastEnd(s) == IF Ends(s) = {} THEN 0 ELSE CHOOSE i \in Ends(s) : \A j \in Ends(s) : j <= i
Cuts[s \in Seq(Bytes)] ==
    IF Ends(s) = {} THEN <<>>
    ELSE LET e == CHOOSE i \in Ends(s) : \A j \in Ends(s) : i <= j
         IN (IF e = 1 THEN <<>> ELSE <<SubSeq(s, 1, e - 1)>>) \o Cuts[From(s, e + 1)]

\* Mutant: a read that ends no line replaces what was kept before it
KeptLast(s) == IF Ends(s) = {} THEN From(s, Len(restbuf) + 1) ELSE From(s, LastEnd(s) + 1)

Kept(s) == From(s, LastEnd(s) + 1)

server_dopacket(data) ==
    LET s == restbuf \o data
    IN \/ \E t \in Promoted(status) :
            /\ t = status \/ Cuts[s] # <<>>
            /\ status' = t
            /\ handled' = handled \o Cuts[s]
            /\ restbuf' = Kept(s)
            /\ reader' = "read_server_packet"
            /\ UNCHANGED <<recvQ, len>>
       \/ /\ Cuts[s] # <<>>
          /\ Drop(recvQ, len, "dead")
          /\ handled' = handled \o Cuts[s]
          /\ restbuf' = Kept(s)
          /\ reader' = "none"
       \/ \E k \in 1 .. Len(Cuts[s]) :
            /\ Drop(recvQ, len, "gone")
            /\ handled' = handled \o SubSeq(Cuts[s], 1, k)
            /\ reader' = "none"
            /\ UNCHANGED restbuf

(***************************************************************************)
(* The events of the connection                                            *)
(***************************************************************************)
Packets == UNION {[1 .. n -> Bytes] : n \in 1 .. MaxRead}

\* The handover from linebuf to server_dopacket, for the history.
Handover == IF status' \in {"dkey", "server"} /\ recvQ' # <<>> THEN {"handover"} ELSE {}

\* read() returned data: queue it, check the flood limit, serve the queue.
read_client_packet(data) ==
    LET p == linebuf_parse(recvQ, data)
        binary == status \in {"dkey", "server"}
    IN /\ reader = "read_client_packet" /\ status \in Open
       /\ stream' = stream \o data
       /\ CASE binary -> server_dopacket(data)
            [] ~binary /\ status = "person" /\ Len(p.lines) > client_flood ->
                 /\ Drop(p.lines, len + p.add, "gone")
                 /\ reader' = "none"
                 /\ UNCHANGED <<handled, restbuf>>
            [] OTHER -> parse_client_queued(p.lines, len + p.add, "none")
       /\ spoiled' = spoiled \cup Handover \cup IF ~binary /\ p.split THEN {"split"} ELSE {}
       /\ UNCHANGED recalc

read_server_packet(data) ==
    /\ reader = "read_server_packet" /\ status \in Open
    /\ stream' = stream \o data
    /\ server_dopacket(data)
    /\ UNCHANGED <<recalc, spoiled>>

\* read() returned an error or the end of the stream, or the handler found
\* FLAGS_DEADSOCKET set: dead_link_on_read and exit_client.
ReadFails ==
    /\ reader # "none"
    /\ Drop(recvQ, len, "gone")
    /\ reader' = "none"
    /\ UNCHANGED <<restbuf, recalc, stream, handled, spoiled>>

\* A message another client caused met a full or broken socket.
dead_link_on_write ==
    /\ status \in Open
    /\ Drop(recvQ, len, "dead")
    /\ UNCHANGED <<restbuf, reader, recalc, stream, handled, spoiled>>

\* The flush timer of the descriptor: only a person who is no oper is served, and
\* only for one the timer is armed again.
flood_recalc ==
    /\ recalc /\ status # "gone"
    /\ UNCHANGED stream
    /\ IF status = "person"
       THEN /\ parse_client_queued(recvQ, len, reader)
            /\ recalc' = (status' \notin {"dead", "gone"})
            /\ UNCHANGED spoiled
       ELSE /\ recalc' = FALSE
            /\ UNCHANGED <<recvQ, len, restbuf, status, reader, handled, spoiled>>

RecvNext ==
    \/ \E data \in Packets :
         /\ Len(stream) + Len(data) <= MaxBytes
         /\ read_client_packet(data) \/ read_server_packet(data)
    \/ ReadFails
    \/ dead_link_on_write
    \/ flood_recalc

RecvSpec == RecvInit /\ [][RecvNext]_recvVars

(***************************************************************************)
(* What the peer sent, read off the stream                                 *)
(***************************************************************************)
\* The first and last positions of the runs of text that an end of line follows.
LineBounds(s) ==
    {b \in (1 .. Len(s)) \X (1 .. Len(s)) :
        /\ b[1] <= b[2] /\ b[2] < Len(s) /\ s[b[2] + 1] = EOL
        /\ b[1] = 1 \/ s[b[1] - 1] = EOL
        /\ \A i \in b[1] .. b[2] : s[i] # EOL}

LinesSent(s) ==
    LET bounds == SetToSortSeq(LineBounds(s), LAMBDA a, b : a[1] < b[1])
    IN [i \in 1 .. Len(bounds) |-> SubSeq(s, bounds[i][1], bounds[i][2])]

\* The text after the last end of line.
Unfinished(s) == CHOOSE t \in {From(s, i) : i \in 1 .. Len(s) + 1} :
    /\ ~HasEol(t)
    /\ Len(t) < Len(s) => s[Len(s) - Len(t)] = EOL

NonEmpty(lines) == SelectSeq(lines, LAMBDA t : t # <<>>)
Queued == NonEmpty(Texts(SelectSeq(recvQ, LAMBDA line : line.terminated)))
Waiting == IF recvQ # <<>> /\ ~Last(recvQ).terminated THEN Last(recvQ).text ELSE restbuf

\* A line is what was sent, or its first LineMax bytes.
Renders(line, sent) == line = SubSeq(sent, 1, Len(line)) /\ Len(line) \in {Len(sent), LineMax}

\* However the stream is cut into reads, the lines handed to the parsers and those
\* still queued are the lines that were sent: none lost, joined, repeated or
\* reordered, over-long ones cut at LineMax; and the unfinished line is waiting.
\* (A line split by its length and a change of reader in mid-line are set aside:
\* there the code itself loses or joins lines.)
LinesFaithful ==
    LET got == NonEmpty(handled) \o Queued
        sent == LinesSent(stream)
    IN spoiled = {} =>
         /\ Len(got) <= Len(sent)
         /\ \A i \in 1 .. Len(got) : Renders(got[i], sent[i])
         /\ status \in Open => Len(got) = Len(sent) /\ Waiting = Unfinished(stream)

\* Whatever line turns the peer into a server, and from whichever handler: an open
\* connection has a reader, and text kept by server_dopacket, like everything a
\* server sends, is read by read_server_packet.
ReaderMatches ==
    /\ status \in Open => reader # "none"
    /\ status = "server" \/ (restbuf # <<>> /\ status \in Open) => reader = "read_server_packet"
=============================================================================
