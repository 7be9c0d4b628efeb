------------------------------- MODULE Event -------------------------------
(***************************************************************************)
(* The event table (event.c) and the part of io_loop that runs it, with    *)
(* its one user that adds and deletes events while the server runs: split  *)
(* mode.  All times are kept relative to timeofday, so that a clock that   *)
(* goes on for ever has finitely many states.                              *)
(***************************************************************************)
EXTENDS Integers, Sequences

CONSTANTS
    MAX_EVENTS,     \* event.h: 50
    PingDelay,      \* ircd.c: 10, the ping event, the recurring event modelled
    BootDelay,      \* ircd.c: 60, first check of split mode
    SplitDelay,     \* s_exit.c: 1800, the length of split mode, give or take a third
    MaxJump,        \* bound: seconds between two rounds of io_loop
    MaxBack,        \* bound: seconds the system clock is set back by, once
    MaxAdds,        \* bound: events added in all
    NoMin           \* event_time_min is -1: nothing is cached

ASSUME Delays == {PingDelay, BootDelay, SplitDelay} \subseteq Nat \ {0}
ASSUME Bounds == {MaxJump, MaxBack} \subseteq Nat
ASSUME TableSize == MAX_EVENTS \in Nat /\ MAX_EVENTS > 0 /\ NoMin \notin Int

VARIABLES
    table,       \* event_table[0 .. event_max - 1]; when is relative to timeofday
    time_min,    \* event_time_min relative to timeofday, or NoMin for -1
    split,       \* GeneralOpts.split
    phase,       \* where io_loop is: "events" or "io"
    setBack,     \* whether the clock was set back already
    exited,      \* eventAdd called exit(-1)
    stale        \* history: why event_time_min may be later than some event

eventVars == <<table, time_min, split, phase, setBack, exited, stale>>

\* The delays eventAddIsh may choose for each one it is asked for: as it is below three
\* seconds, and from two thirds to just under four thirds of it otherwise.
Ish == [delta \in {PingDelay, BootDelay, SplitDelay} |->
          LET two_third == (2 * delta) \div 3
          IN IF delta >= 3 THEN {two_third + (r * two_third) \div 1000 : r \in 0 .. 999}
             ELSE {delta}]

Slot(f, d) == [func |-> f, when |-> d, frequency |-> d, active |-> TRUE]
Deleted == [func |-> "NULL", when |-> 0, frequency |-> 0, active |-> FALSE]

World == [table |-> table, time_min |-> time_min, split |-> split, exited |-> exited,
          stale |-> stale]
EventsBecome(w) ==
    /\ table' = w.table /\ time_min' = w.time_min /\ split' = w.split /\ exited' = w.exited
    /\ stale' = w.stale

Lower(a, b) == IF a = NoMin \/ b < a THEN b ELSE a

\* Deleted slots are not used again; the test is for more than MAX_EVENTS.
eventAdd(w, f, d) ==
    IF Len(w.table) > MAX_EVENTS THEN [w EXCEPT !.exited = TRUE]
    ELSE [w EXCEPT !.table = Append(@, Slot(f, d)), !.time_min = Lower(@, d),
                   !.stale = @ \cup IF w.time_min = NoMin THEN {"add"} ELSE {}]

eventAddIsh(w, f, delta) == {eventAdd(w, f, d) : d \in Ish[delta]}

\* eventFind: the first slot with this function.
eventFind(w, f) == {i \in 1 .. Len(w.table) : w.table[i].func = f
                      /\ \A j \in 1 .. i - 1 : w.table[j].func # f}

eventDelete(w, f) ==
    [w EXCEPT !.table = [i \in 1 .. Len(@) |-> IF i \in eventFind(w, f) THEN Deleted ELSE @[i]]]

\* Mutant: the event is deleted and split mode forgotten
check_splitmodeForget(w) == eventDelete(w, "check_splitmode")

\* Split mode ends: the handler of the event, which deletes an event of its own kind.
check_splitmode(w) == eventDelete([w EXCEPT !.split = FALSE], "check_splitmode")

\* exit_client of a server: split mode begins unless it is on.
SplitMode(w) ==
    {[v EXCEPT !.split = TRUE] :
       v \in IF w.split THEN {w} ELSE eventAddIsh(w, "check_splitmode", SplitDelay)}

MayAdd(w) == Len(w.table) < MaxAdds

\* What the handler of a slot may do: check_pings exits clients, servers too.
Handled(w, f) ==
    IF f = "check_splitmode" THEN {check_splitmode(w)}
    ELSE {w} \cup IF MayAdd(w) THEN SplitMode(w) ELSE {}

\* After its handler the slot is due again a period from now (a deleted slot is
\* only looked at for being active).
Rescheduled(w, i) ==
    [w EXCEPT !.table[i].when = IF w.table[i].active THEN w.table[i].frequency ELSE 0,
              !.time_min = NoMin, !.stale = {}]

Due(w, i) == w.table[i].active /\ w.table[i].when <= 0

\* One round of the loop, for slot i: nothing when it is not due, past event_max, or
\* when the program has ended.
RunSlot(w, i) ==
    IF i > Len(w.table) \/ w.exited \/ ~Due(w, i) THEN {w}
    ELSE {Rescheduled(v, i) : v \in Handled(w, w.table[i].func)}

\* event_max may grow while the loop runs, up to one more than MAX_EVENTS.
eventRun(w) ==
    LET ran[i \in 0 .. MAX_EVENTS + 1] ==
          IF i = 0 THEN {w} ELSE UNION {RunSlot(v, i) : v \in ran[i - 1]}
    IN ran[MAX_EVENTS + 1]

Whens(w) == {w.table[i].when : i \in {i \in 1 .. Len(w.table) : w.table[i].active}}

\* Mutant: the search stops at the first active slot
eventNextTimeFirst(w) ==
    IF w.time_min # NoMin \/ Whens(w) = {} THEN w
    ELSE LET i == CHOOSE i \in 1 .. Len(w.table) :
                    w.table[i].active /\ \A j \in 1 .. i - 1 : ~w.table[j].active
         IN [w EXCEPT !.time_min = w.table[i].when]

\* eventNextTime fills the cached minimum when it was cleared.
eventNextTime(w) ==
    IF w.time_min # NoMin \/ Whens(w) = {} THEN w
    ELSE [w EXCEPT !.time_min = CHOOSE t \in Whens(w) : \A u \in Whens(w) : t <= u]

(***************************************************************************)
(* io_loop                                                                 *)
(***************************************************************************)
EventInit ==
    /\ \E p \in Ish[PingDelay], b \in Ish[BootDelay] :
         /\ table = <<Slot("check_pings", p), Slot("check_splitmode", b)>>
         /\ time_min = Lower(p, b)
    /\ split = FALSE /\ phase = "events" /\ setBack = FALSE /\ exited = FALSE /\ stale = {}

\* An event_time_min of -1, which no active event leaves, is in the past.
RunEvents ==
    LET w == eventNextTime(World)
    IN /\ phase = "events" /\ ~exited
       /\ IF w.time_min = NoMin \/ w.time_min <= 0
          THEN \E v \in eventRun(w) : EventsBecome(v)
          ELSE EventsBecome(w)
       /\ phase' = "io" /\ UNCHANGED setBack

\* A link to a server is lost while the descriptors are served.
LinkLost ==
    /\ phase = "io" /\ ~exited /\ MayAdd(World)
    /\ \E w \in SplitMode(World) : EventsBecome(w)
    /\ UNCHANGED <<phase, setBack>>

\* A rehash ends split mode, and leaves the event that would have ended it.
rehash ==
    /\ phase = "io" /\ ~exited
    /\ split' = FALSE
    /\ UNCHANGED <<table, time_min, phase, setBack, exited, stale>>

Shift(d) == [i \in 1 .. Len(table) |->
               IF table[i].active THEN [table[i] EXCEPT !.when = @ - d] ELSE table[i]]
ShiftMin(d) == IF time_min = NoMin THEN NoMin ELSE time_min - d

\* recheck_clock after poll: d seconds have passed.
ClockForward(d) ==
    /\ phase = "io" /\ ~exited
    /\ table' = Shift(d) /\ time_min' = ShiftMin(d)
    /\ phase' = "events" /\ UNCHANGED <<split, setBack, exited, stale>>

\* recheck_clock finds the clock b seconds back: set_back_events moves the events,
\* which stay where they are relative to the clock, and not event_time_min.
ClockBack(b) ==
    /\ phase = "io" /\ ~exited /\ ~setBack
    /\ time_min' = ShiftMin(-b)
    /\ phase' = "events" /\ setBack' = TRUE
    /\ stale' = stale \cup IF time_min = NoMin THEN {} ELSE {"set back"}
    /\ UNCHANGED <<table, split, exited>>

EventNext ==
    \/ RunEvents \/ LinkLost \/ rehash
    \/ \E d \in 0 .. MaxJump : ClockForward(d)
    \/ \E b \in 1 .. MaxBack : ClockBack(b)

EventSpec == EventInit /\ [][EventNext]_eventVars

\* io_loop never stops, and sleeps in every round: the clock goes on.
EventFairSpec ==
    EventSpec /\ WF_eventVars(RunEvents) /\ SF_eventVars(\E d \in 1 .. MaxJump : ClockForward(d))

(***************************************************************************)
(* Properties                                                              *)
(***************************************************************************)
\* The latest delay eventAddIsh chooses is below twice the two thirds.
Longest == IF SplitDelay >= 3 THEN 2 * ((2 * SplitDelay) \div 3) ELSE SplitDelay

\* By how much each way of losing the minimum can delay an event: an add that finds no
\* minimum puts its own time there, and a clock set back moves the events only.
Late(why) == (IF "add" \in why THEN Longest ELSE 0) + (IF "set back" \in why THEN MaxBack ELSE 0)

\* Whatever was added, deleted or run since the minimum was cached, every event that is
\* due runs in the next round of io_loop; a minimum lost to an add between two rounds or
\* to a clock set back delays events by no more than the new event's own delay and the
\* seconds set back, and the next event that runs heals it.  (A program that ended
\* because its table was full runs nothing.)
EventsOnTime ==
    phase = "io" /\ ~exited =>
      \A i \in 1 .. Len(table) : table[i].active => table[i].when > - Late(stale)

\* Split mode ends: however links are lost, the event that ends it is under way,
\* although every such event deletes the first of its kind and not itself.
SplitEnds == split ~> ~split
=============================================================================
