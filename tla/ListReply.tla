----------------------------- MODULE ListReply -----------------------------
(***************************************************************************)
(* The answer to LIST: send_list walks the channel hash table, stops while *)
(* the send queue is half full, and is called again from send_queued, that *)
(* is also from inside the sends it makes itself.  Lengths are counted in  *)
(* lines; the socket holds Room lines until the peer reads.                *)
(***************************************************************************)
EXTENDS Naturals, Sequences, SequencesExt

CONSTANTS
    Table,      \* the channel hash table: Table[h + 1] holds the channels of bucket h
    sendqlen,   \* lines that may be queued
    Room,       \* lines the socket holds
    Others      \* bound: whether the client is sent anything else meanwhile

ASSUME TableIsSeq == Table \in Seq(Seq(STRING))

VARIABLES
    queued,      \* lines in the send queue
    room,        \* lines the socket still takes
    starthash,   \* lopts->starthash: the bucket to go on with, 0 for none
    listed,      \* history: channels listed since LIST
    answer,      \* "none", "listing" or "ended": RPL_LISTEND has been sent
    write,       \* send_queued is registered for COMM_SELECT_WRITE
    dead,        \* FLAGS_DEADSOCKET
    stack        \* the calls of send_list under way, outermost first: the bucket and
                 \* the channel in it that each goes on with

replyVars == <<queued, room, starthash, listed, answer, write, dead, stack>>

World == [queued |-> queued, room |-> room, starthash |-> starthash, listed |-> listed,
          answer |-> answer, write |-> write, dead |-> dead, stack |-> stack]

Becomes(w) ==
    /\ queued' = w.queued /\ room' = w.room /\ starthash' = w.starthash /\ listed' = w.listed
    /\ answer' = w.answer /\ write' = w.write /\ dead' = w.dead /\ stack' = w.stack

ReplyInit ==
    /\ queued = 0 /\ room = Room /\ starthash = 0 /\ listed = {} /\ answer = "none"
    /\ write = FALSE /\ dead = FALSE /\ stack = <<>>

will_exceed_sendq(w) == w.queued > sendqlen \div 2

\* Mutant: the walk goes on with the next bucket
NextPosSkip(h, i) == <<h + 1, 1>>

\* Where the walk goes on after channel i of bucket h.
NextPos(h, i) == IF i < Len(Table[h]) THEN <<h, i + 1>> ELSE <<h + 1, 1>>

\* The write loop of send_queued.
Flushed(w) ==
    LET n == IF w.queued < w.room THEN w.queued ELSE w.room
    IN [w EXCEPT !.queued = @ - n, !.room = @ - n, !.write = w.write \/ w.queued > n]

\* Calls send_list, which goes on with the bucket in starthash.
send_list(w) == [w EXCEPT !.stack = Append(@, <<w.starthash + 1, 1>>)]

send_queued(w) ==
    IF w.dead THEN w
    ELSE LET f == Flushed(w) IN IF f.starthash # 0 THEN send_list(f) ELSE f

send_message(w) ==
    IF w.dead THEN w
    ELSE IF w.queued > sendqlen THEN [w EXCEPT !.dead = TRUE, !.queued = 0]
    ELSE send_queued([w EXCEPT !.queued = @ + 1])

\* The innermost call goes on at pos, or returns.
GoOn(w, pos) == [w EXCEPT !.stack = Append(Front(@), pos)]
Return(w) == [w EXCEPT !.stack = Front(@)]

\* The channel at pos is listed, unless the queue is half full.
ListChannel(w, pos) ==
    LET v == [w EXCEPT !.starthash = pos[1] - 1]
    IN IF will_exceed_sendq(v) THEN Return(v)
       ELSE send_message([GoOn(v, NextPos(pos[1], pos[2]))
                            EXCEPT !.listed = @ \cup {Table[pos[1]][pos[2]]}])

\* One round of the two loops of the innermost send_list, or what follows them: the
\* end of the list is sent, and only then starthash is cleared.
Round(w) ==
    LET pos == Last(w.stack)
        end == Len(Table) + 1
    IN CASE pos[1] > end -> [Return(w) EXCEPT !.starthash = 0, !.answer = "ended"]
         [] pos[1] = end -> send_message(GoOn(w, <<end + 1, 1>>))
         [] pos[1] < end /\ pos[2] > Len(Table[pos[1]]) -> GoOn(w, <<pos[1] + 1, 1>>)
         [] OTHER -> ListChannel(w, pos)

(***************************************************************************)
(* The events                                                              *)
(***************************************************************************)
\* Nothing else happens before the outermost send_list has returned.
Walk == stack # <<>> /\ Becomes(Round(World))

\* The LIST command (a loadable module) calls send_list with starthash 0.
List ==
    /\ stack = <<>> /\ answer = "none" /\ ~dead
    /\ Becomes(send_list([World EXCEPT !.answer = "listing"]))

\* Any other line for the client.
Message == stack = <<>> /\ Others /\ ~dead /\ Becomes(send_message(World))

Writable ==
    /\ stack = <<>> /\ write /\ room > 0
    /\ Becomes(send_queued([World EXCEPT !.write = FALSE]))

\* The peer reads k lines from the socket; Room counts what it takes during a handler.
PeerReads(k) ==
    /\ stack = <<>> /\ room + k <= Room /\ room' = room + k
    /\ UNCHANGED <<queued, starthash, listed, answer, write, dead, stack>>

ReplyNext == Walk \/ List \/ Message \/ Writable \/ \E k \in 1 .. Room : PeerReads(k)

ReplySpec == ReplyInit /\ [][ReplyNext]_replyVars

(***************************************************************************)
(* Properties                                                              *)
(***************************************************************************)
Channels == UNION {{Table[h][i] : i \in 1 .. Len(Table[h])} : h \in 1 .. Len(Table)}

\* Interrupted, resumed from the write event or entered again from its own sends:
\* the end of the list is sent only when every channel has been.
EndIsComplete == answer = "ended" /\ ~dead => listed = Channels
=============================================================================
