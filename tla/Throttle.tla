------------------------------ MODULE Throttle ------------------------------
(***************************************************************************)
(* Connection throttling by address (throttle.c).  An address that makes   *)
(* throttle_count connections within throttle_time is refused for a period *)
(* that grows with every offence and starts again at every attempt.  The   *)
(* hash table and the list of throttles hold the same entries and are one  *)
(* set here.                                                               *)
(***************************************************************************)
EXTENDS Integers, Sequences, FiniteSets

CONSTANTS
    Hosts,             \* addresses
    throttle_tcount,   \* ServerOpts.throttle_count
    throttle_ttime,    \* ServerOpts.throttle_time
    throttle_ztime,    \* THROTTLE_LENGTH: how long an idle entry is kept
    ZlineTimes,        \* the periods of throttle_get_zline_time, the last one for good
    MaxTime,           \* bound on the clock
    MaxCalls           \* bound: checks of one address in one second

ASSUME Settings ==
    /\ throttle_tcount \in Nat /\ throttle_tcount >= 2
    /\ throttle_ttime \in Nat /\ throttle_ztime \in Nat /\ 2 * throttle_ttime < throttle_ztime
    /\ ZlineTimes \in Seq(Nat) /\ Len(ZlineTimes) > 0
    /\ MaxTime \in Nat

\* The shortest period is two minutes; throttle_time is thirty seconds unless configured.
ASSUME PeriodsCoverWindow ==
    \A i \in 1 .. Len(ZlineTimes) : ZlineTimes[i] >= 1 /\ ZlineTimes[i] >= throttle_ttime

VARIABLES
    NOW,           \* the clock
    throttles,     \* addresses that have an entry
    conns, first, last, zline_start, stage,   \* the fields of the entries
    calls,         \* bound bookkeeping: checks made in this second
    accepted,      \* history: accepted[h][a] connections were accepted from h a seconds
                   \* ago, since its entry was last taken away on purpose
    refused        \* history: when a local connection was last refused, 0 for never

vars == <<NOW, throttles, conns, first, last, zline_start, stage, calls, accepted, refused>>
entries == <<throttles, conns, first, last, zline_start, stage>>

Ages == 0 .. throttle_ttime

Init ==
    /\ NOW = 1
    /\ throttles = {}
    /\ conns = [h \in Hosts |-> 0]
    /\ first = [h \in Hosts |-> 0] /\ last = [h \in Hosts |-> 0]
    /\ zline_start = [h \in Hosts |-> 0]
    /\ stage = [h \in Hosts |-> -1]
    /\ calls = [h \in Hosts |-> 0]
    /\ accepted = [h \in Hosts |-> [a \in Ages |-> 0]]
    /\ refused = [h \in Hosts |-> 0]

throttle_get_zline_time(s) ==
    IF s = -1 THEN 0 ELSE ZlineTimes[IF s < Len(ZlineTimes) THEN s + 1 ELSE Len(ZlineTimes)]

(***************************************************************************)
(* throttle_check, with its returns as separate actions                    *)
(***************************************************************************)
Zlined(h) == h \in throttles /\ zline_start[h] # 0

InZline(h, sotime) ==
    Zlined(h) /\ sotime - zline_start[h] < throttle_get_zline_time(stage[h])

\* The entry before conns is counted up: new, released from its period, or as it is.
ConnsBefore(h) == IF h \notin throttles \/ Zlined(h) THEN 0 ELSE conns[h]
FirstBefore(h, sotime) == IF h \notin throttles \/ Zlined(h) THEN sotime ELSE first[h]
StageBefore(h) == IF h \in throttles THEN stage[h] ELSE -1

\* A remote signon older than throttle_ttime.
Ignored(local, sotime) == ~local /\ NOW - sotime > throttle_ttime

Expired(h, sotime) == sotime - FirstBefore(h, sotime) > throttle_ttime

\* Mutant: the connection that reaches the limit is let in
TooManyLate(h) == ConnsBefore(h) + 1 > throttle_tcount

TooMany(h) == ConnsBefore(h) + 1 >= throttle_tcount

\* Mutant: a refused attempt does not start the period again
RefusedQuietly(h, local, sotime) == InZline(h, sotime) /\ UNCHANGED entries

\* Within its period: refused, and a local attempt starts the period again.
Refused(h, local, sotime) ==
    /\ InZline(h, sotime)
    /\ zline_start' = IF local THEN [zline_start EXCEPT ![h] = sotime] ELSE zline_start
    /\ UNCHANGED <<throttles, conns, first, last, stage>>

\* Entering the connection into the entry.
Counted(h, sotime, n, f) ==
    /\ throttles' = throttles \cup {h}
    /\ conns' = [conns EXCEPT ![h] = n]
    /\ first' = [first EXCEPT ![h] = f]
    /\ last' = [last EXCEPT ![h] = sotime]
    /\ stage' = [stage EXCEPT ![h] = StageBefore(h)]

\* The first connection for longer than throttle_ttime.
NewPeriod(h, sotime) ==
    /\ ~InZline(h, sotime) /\ Expired(h, sotime)
    /\ Counted(h, sotime, 1, sotime)
    /\ zline_start' = [zline_start EXCEPT ![h] = 0]

\* One connection too many: a local one starts a period of the next stage.
Throttled(h, local, sotime) ==
    /\ ~InZline(h, sotime) /\ ~Expired(h, sotime) /\ TooMany(h)
    /\ throttles' = throttles \cup {h}
    /\ conns' = [conns EXCEPT ![h] = ConnsBefore(h) + 1]
    /\ first' = [first EXCEPT ![h] = FirstBefore(h, sotime)]
    /\ last' = [last EXCEPT ![h] = sotime]
    /\ stage' = [stage EXCEPT ![h] = StageBefore(h) + IF local THEN 1 ELSE 0]
    /\ zline_start' = [zline_start EXCEPT ![h] = IF local THEN sotime ELSE 0]

Okay(h, sotime) ==
    /\ ~InZline(h, sotime) /\ ~Expired(h, sotime) /\ ~TooMany(h)
    /\ Counted(h, sotime, ConnsBefore(h) + 1, FirstBefore(h, sotime))
    /\ zline_start' = [zline_start EXCEPT ![h] = 0]

\* A check of address h for a connection to this server (local) or for one that
\* signed on elsewhere at time ts; a time in the future counts as now.
throttle_check(h, local, ts) ==
    LET sotime == IF ts > NOW THEN NOW ELSE ts
        okay == Ignored(local, ts) \/ (~InZline(h, sotime) /\ (Expired(h, sotime) \/ ~TooMany(h)))
    IN /\ calls[h] < MaxCalls
       /\ calls' = [calls EXCEPT ![h] = @ + 1]
       /\ IF Ignored(local, ts) THEN UNCHANGED entries
          ELSE \/ Refused(h, local, sotime)
               \/ NewPeriod(h, sotime)
               \/ Throttled(h, local, sotime)
               \/ Okay(h, sotime)
       /\ accepted' = IF local /\ okay THEN [accepted EXCEPT ![h][0] = @ + 1] ELSE accepted
       /\ refused' = IF local /\ ~okay THEN [refused EXCEPT ![h] = NOW] ELSE refused
       /\ UNCHANGED NOW

(***************************************************************************)
(* The other operations                                                    *)
(***************************************************************************)
Tick ==
    /\ NOW < MaxTime /\ NOW' = NOW + 1
    /\ calls' = [h \in Hosts |-> 0]
    /\ accepted' = [h \in Hosts |-> [a \in Ages |-> IF a = 0 THEN 0 ELSE accepted[h][a - 1]]]
    /\ UNCHANGED <<entries, refused>>

OldZapped(h) ==
    Zlined(h) /\ NOW - zline_start[h] >= throttle_get_zline_time(stage[h]) + throttle_ztime

OldIdle(h) == h \in throttles /\ ~Zlined(h) /\ NOW - last[h] >= throttle_ztime

\* The event throttle_timer_zapped, which ends with throttle_timer_nonzapped.
throttle_timer_zapped ==
    /\ throttles' = {h \in throttles : ~OldZapped(h) /\ ~OldIdle(h)}
    /\ UNCHANGED <<NOW, conns, first, last, zline_start, stage, calls, accepted, refused>>

\* A server link or an address rewritten by its spoof takes the entry away.
throttle_remove(h) ==
    /\ throttles' = throttles \ {h}
    /\ accepted' = [accepted EXCEPT ![h] = [a \in Ages |-> 0]]
    /\ refused' = [refused EXCEPT ![h] = 0]
    /\ UNCHANGED <<NOW, conns, first, last, zline_start, stage, calls>>

throttle_rehash ==
    /\ throttles' = {}
    /\ accepted' = [h \in Hosts |-> [a \in Ages |-> 0]]
    /\ refused' = [h \in Hosts |-> 0]
    /\ UNCHANGED <<NOW, conns, first, last, zline_start, stage, calls>>

Next ==
    \/ \E h \in Hosts : throttle_check(h, TRUE, NOW) \/ throttle_remove(h)
    \/ \E h \in Hosts, ts \in 1 .. MaxTime : throttle_check(h, FALSE, ts)
    \/ Tick \/ throttle_timer_zapped \/ throttle_rehash

Spec == Init /\ [][Next]_vars

(***************************************************************************)
(* Properties                                                              *)
(***************************************************************************)
\* The connections of the first n ages of f, for every n.
SumTo(f) ==
    LET sum[n \in 0 .. throttle_ttime + 1] == IF n = 0 THEN 0 ELSE sum[n - 1] + f[n - 1]
    IN sum

\* Connections accepted in the last throttle_ttime seconds.
Recent(h) == SumTo(accepted[h])[throttle_ttime + 1]

\* However connections are spread over the periods, no more than twice one less
\* than throttle_tcount are accepted from an address in throttle_ttime seconds:
\* a period that ends lets in one new period's worth, and neither the timers nor
\* remote signons add to that.
RateLimited == \A h \in Hosts : Recent(h) <= 2 * (throttle_tcount - 1)

\* Silence is what ends a period: a connection is accepted only when the last
\* refusal of a local one from its address is a whole period of its stage ago,
\* whatever signed on elsewhere and whichever timers ran since.
SilenceServed ==
    [][\A h \in Hosts : accepted'[h][0] > accepted[h][0] =>
         refused[h] = 0 \/ NOW - refused[h] >= throttle_get_zline_time(stage[h])]_vars
=============================================================================
