# A TLA+ verification of tr-ircd

tr-ircd is an IRC server in C. One process and one thread run everything: the
loop of `src/boot.c`/`src/ircd.c` runs the timed events that are due
(`src/event.c`), waits for descriptors (`server/s_bsd_poll.c` or one of its
alternatives), and calls the handler registered for each. Handlers run to
completion. Nothing is preempted, so what is hard is not locking but *order*:
a DNS answer, an ident answer, a timeout, a peer's disconnect, a failing write
and another user's command can come in any order; a handler can be entered again
from its own sends; and nearly every relation between two objects is recorded
twice (a list in each of them), cached in a counter, or remembered as the bare
address of a block that a heap hands out again.

This directory models those parts, checks them with TLC on small instances and
proves the central invariants with TLAPS for every size.

Paths below are those of the repository (`src/channel.c` is the file of that
name under its directory `src`). The IRC commands (`m_*.c`) and the hook modules
behind the channel modes are loadable modules that are not in the repository;
they appear as external callers that may do what the interfaces allow.

## Inventory of the system

| part | code | state | operations | hard behaviour | what makes it correct |
|---|---|---|---|---|---|
| channels | `src/channel.c`, `src/hash.c`, `server/s_lev.c` | member list and counter in the channel; channel list and counter in the user; invitations on both sides; `+L` link; level channels | create, join, part, link, invite, exit of a user | addresses of freed channels are used again; the counter, not the list, decides when to free | both lists agree, counters are exact, nothing refers to a freed channel, one channel per name |
| connections | `server/s_bsd.c`, `s_auth.c`, `s_servauth.c`, `s_exit.c`, `s_packet.c`, `src/adns.c`, `src/client.c` | client blocks, `unknown_list`, `GlobalClientList`, `exit_list`, auth requests, DNS queries | accept, look up host and ident, release, open a link, read, die, exit, reap | late answers, answers inside the call that asks, exits during lookups, failing steps | no callback on a freed block, every descriptor has one owner, everybody is looked at again, lookups end |
| descriptor table | `src/fd.c`, `server/s_bsd.c`, `s_bsd_poll.c` | `fd_table[]`, `number_fd`, `highest_fd` | open, close, register, timeout, flush | registrations survive their object | entries describe what is open, and by whom |
| listeners | `server/s_listener.c` | descriptor, active flag, reference count | open, close (rehash), accept | rehash while connections remain | not freed under a connection |
| receive queue | `src/linebuf.c`, `server/s_packet.c`, `s_flood.c` | lines, length, rest of a server's line, reader | parse, get, change of reader, flood timer | a line or CRLF cut by a read; change from client to server in mid-stream | every line once, whole, in order |
| send queue | `src/send.c`, `src/linebuf.c` | lines, offset, length, write registration, burst flags | queue, flush, write event, BURST | partial writes, re-entry, limits | bytes once and in order, no lost wake-up, drains |
| LIST | `src/channel.c`, `src/send.c` | bucket to go on with | walk, stop, resume | re-entered from its own sends | the end is sent after all channels |
| throttling | `src/throttle.c` | an entry per address | check, expire, remove, rehash | period edges, remote signons with past times | bounded rate, silence is served |
| events | `src/event.c`, `src/ircd.c`, `src/boot.c` | event slots, cached minimum, split mode | add, delete, run, set back | adds and deletes while the table is walked; clock set back | due events run; split mode ends |
| ACCEPT and DCCALLOW | `server/s_accept.c`, `s_dcc.c` | three pairs of lists | add, remove, inform, sweep on exit | users leave while listed | pairs mirror each other, only users present |
| WATCH | `src/watch.c` | block per nickname, list per user, counter | add, remove, clear | block freed by its last watcher and reused | lists agree, one block per nickname |
| nickname history | `src/whowas.c` | ring of entries, owner of each, list per owner | add, sign off, chase | ring wraps over live owners; blocks reused | owners are present; a chase finds the last owner |
| client registry | `src/client.c`, `src/hash.c`, `server/s_user.c` | hash tables, `GlobalClientList`, `llists`, counters | introduce, rename, remove | every list is kept by another caller | lists mirror `servptr`, counters agree with them |
| server links | `server/s_serv.c`, `s_exit.c`, `protocol/native.c` | server tree, hold times, what each link was told | connect, establish, burst, split | a netsplit exits a subtree by recursion over lists it changes; bursts meet blocks that exited | nobody behind a lost link stays; each link knows what is not behind it; no connect block starves |
| identities | `src/identity.c` | numeric ids of servers and users | assign, look up | 20-bit ids looked up with 16 bits | an id names one user |
| configuration items, classes | `src/confitem.c`, `src/class.c`, `server/s_conf.c` | reference counts | attach, detach, rehash | class freed while referred to | counts exact, no dangling class |
| masks | `src/maskitem.c`, `server/s_kline.c`, `src/flush.c`, `server/s_signal.c` | mask tables with expiry, `rehashed`, `dorehash` | add, find, expire, read the file | three places look up different types of mask; a signal handler changes the lists | nobody banned stays online; the file's masks are in force |
| matching | `src/match.c`, `src/hostmask.c` | none | match, collapse | backtracking, escapes | equals a reference definition |
| ban lists, modes | `src/chanmodes.c`, `src/usermodes.c` | ban, exempt and invite lists; mode flags; counters | add, remove, send | limits, overlapping masks | lists bounded and free of duplicates |
| parser | `src/parse.c`, `src/commands.c` | command table | prefix check, dispatch | a prefix from the wrong direction | a client speaks only for itself |
| routing | `server/s_send.c` | per-send markers | send to channel, servers, common channels | duplicates through several channels | each receiver once |
| hooks | `src/hook.c`, `src/loader.c` | lists of callbacks | add, delete, call | deletion from inside a call | the walk survives it |
| memory | `src/blalloc.c`, `src/tools.c` | block heaps | allocate, free, collect | reuse of addresses | a block is free or used |
| the rest | HTTP server, encryption, numerics, start-up, options, back ends, vendored libraries | | | | see *Not modelled* |

How they interact: `comm_select` calls the registered handler of a descriptor.
A released client's bytes go through the receive queue to the parser, the command
modules call into channels, user lists and the history, and every reply goes
through the send queue, which marks a connection dead when it fails. Dead
connections are exited by `check_pings` or by their own next read. `exit_client`
is the hub: it cancels lookups, closes the descriptor, leaves the listener, then
the channels, invitations, watch blocks, lists and history, and puts the block on
`exit_list`, which an event reaps.

## Modules and the code they model

Blocks of a heap are model values that stand for addresses: freeing one and
allocating it again is the ordinary case in every model, because a stale
reference is only visible once its address belongs to somebody else.

* **`Channel`** (`MCChannel`). `members`/`users` are `chptr->members`/`->users`,
  `channel`/`joined` the same on `struct User`, `invites`/`invited` the
  invitations, `live` the channel list with the hash table, `count`
  `Count.chan`. `privileged_join` contains `find_channel` with its `+L`
  redirection, `create_channel`, `can_join` (whose mask matching is a choice that
  may refuse local users without privileges or invitation) and
  `add_user_to_channel`. `remove_user_from_channel`, the two `link_` functions and
  `exit_one_client` end, as in the code, with `sub1_from_channel`, which frees the
  channel in the same call (`Release`). `Bucket0` holds the names whose hash is
  0, which `find_channel` never finds. `link_add_server_to_channel` does not look whether
  this server is already on the channel; its caller is a mode hook outside the
  repository, taken to link a channel once.
* **`FdTable`** and **`Connection`** (`MCConnection`). `FdTable` has `fd_open`,
  `fd_close`, `fdlist_update_biggest` and the registrations as operators on a table
  (`CloseAll` is what `fd_close` leaves for each descriptor of a set: the loops over
  requests, clients and listeners that close one object after another do not depend on
  the order and are one step on sets).
  `Connection` writes each handler as an operator from a world to the set of
  worlds it may leave behind, because handlers call each other synchronously (a
  `connect()` that fails at once runs the connect callback before
  `comm_connect_tcp` returns); an action runs one handler. What commands may do
  to a connection: nothing, register it, find its socket dead, exit it, or exit
  another one.
* **`RecvQ`** (`MCRecvQ`). One connection's receive side: `linebuf_parse`,
  `linebuf_get`, `parse_client_queued`, `server_dopacket`, the two readers and
  `flood_recalc`. CR and LF are one symbol, since no line of the code tells them
  apart. `memcpy` of overlapping regions is taken to copy forwards. `stream`,
  `handled` and `spoiled` are histories.
* **`SendQ`** (`MCSendQ`). One connection's send side. A line is its length; a
  flush lets the socket take any number of bytes, or fail after any number.
  `send_queued` contains the BURST announcement with its nested `send_message`.
* **`ListReply`** (`MCListReply`). `send_list` with its re-entry through
  `send_message` and `send_queued`: the walk is taken one round of its loops at a time
  (`Walk`), with `stack` as the calls under way, and nothing else happens until the
  outermost call has returned. Lengths are counted in lines.
* **`Throttle`** (`MCThrottle`). `throttle_check` with one action per return path,
  the expiry timers, removal and rehash. `accepted` and `refused` are histories.
* **`Event`** (`MCEvent`). The table, the cached minimum, `io_loop`'s round and
  split mode. Times are relative to `timeofday`, so a clock that runs for ever
  has finitely many states. `check_pings` stands for the recurring events. `eventRun`
  is a walk over the slots, whose handlers may add and delete slots under it. Every
  event is added with `eventAddIsh`, whose random choice is a choice among the values
  its formula has (`Ish`), and keeps the delay it drew. Slots therefore come due in
  any order, and `check_splitmode`, which deletes the first slot of its kind, often
  deletes another one than the one it runs for.
* **`Persons`**, **`UserLists`**, **`Watch`**, **`Whowas`**, composed by
  **`Users`** (`MCUsers`). `Persons` has who is registered under which name;
  `UserLists` ACCEPT, "informed" and DCCALLOW; `Watch` the watch blocks; `Whowas`
  the ring. `Users` joins them: `exit_client` clears all of them in the code's
  order, and the interleaving of their operations is `Next`. A name in `Hash0`
  is not found by `find_client`, so two users may have it.
* **`Network`** (`MCNetwork`) and **`Topology`**. The network as this server keeps
  it: `GlobalClientList`, `servptr` and `from` of each block, the `users` and
  `servers` of each server, `serv_list`, `global_serv_list`, the counters, and in
  `told` what each link has been sent. `server_estab` contains the burst of
  `do_continue_server_estab` with its walk from the oldest block on;
  `exit_server` ends where `exit_recursion` begins, and the recursion is taken one
  exit at a time, with `stack` as its calls, so that every invariant is also
  checked in mid-split. `Route` is `sendto_channel_butone`. `m_server` and
  `do_remote_user` are callers from command modules, as `s_user.c` and
  `native.c` show them. SQUIT is one as well, taken to exit a server with this server
  or the link it is behind as the source: `exit_one_client` skips the source when it
  tells the links, so another link as the source would stay untold. `Topology` is the
  abstract specification: a tree, and for
  every neighbour the part of it that is not behind that neighbour; a split is one
  step. The refinement mapping hides what is behind the server whose split is
  under way, and the exited servers that a burst still mentions.
* **`Conf`** (`MCConf`). Items and classes with their counters, `confs` the items
  of a client. `rehash` is `read_conf_files` with `check_class`; `detach_conf`
  frees an item off the list, or a class marked for deletion, with its last
  client. `try_connections` is the event with its hold times and its rotation of
  the list. Times are counted in its rounds: `hold` is how many of them will still
  find the item on hold. A hold set in a round ends in a later round exactly; one
  that an exit sets between two rounds ends just before a round or just after it
  (`Skipped`). A round stands for 60 seconds, where `eventAddIsh` makes it anything
  from 40 to 79. Class 0 has the limit and the period of `defaults.h`, not the
  file's. Items and classes are allocated from pools (`Gens` blocks for each).
* **`Masks`** (`MCMasks`). The list of masks with the seconds each has left, and
  the three places that look: `conf_connect_allowed` (Z-lines), `attach_Iline`
  (K-lines, no Z-lines, no exclusions) and `check_pings` when `rehashed` is set
  (all). `sighup_handler` may run between any two steps of `io_loop`, also between
  `rehash` and `dorehash = 0`, which are therefore two steps.
* The theorems: **`ChannelProofs`** (`Channel` and `ListReply`), **`UsersProofs`**,
  **`NetworkProofs`** (with the refinement of `Topology`), **`ConfProofs`**,
  **`ConnectionSound`** (the invariant and its lemmas) with **`ConnectionProofs`** on top
  of it, **`AdmissionProofs`** (`Throttle`, `RecvQ` and `Masks`) and **`LoopProofs`**
  (`SendQ` and `Event`). Modules that are proved about together are extended together;
  that is why some name their specification `RecvSpec`, `ReplySpec`, `EventSpec` or
  `MaskSpec`.

Definitions marked "Mutant" are plausible bugs of the definition that follows
them; each breaks one property (`PROJECT.json` says which), which shows that the
property looks at that piece of the code.

## Runs

| run | checks | shows |
|---|---|---|
| `channel` | `MembershipMirror`, `CountsExact`, `LevelChannelLive`, `FoundNamesUnique`, `InviteBackLinks`, `EmptiedIsFreed` | over every order of joins, parts, links, invitations and exits, with blocks reused |
| `connection` | `CallbacksLive`, `DescriptorsOwned`, `QueriesLive`, `RequestsPolled`, `ClientListSound`, `NobodyStranded`, `ListenersOutliveClients` | over every order of accepts, answers, timeouts, exits, failures and rehashes |
| `connection_ends` | `LookupsEnd`, `UnknownsLeave`, `DeadReaped` | under the events' fairness |
| `recvq` | `LinesFaithful`, `ReaderMatches` | every way to cut a stream into reads, with promotions, deaths and timers between |
| `sendq` | `BytesInOrder`, `WriteArmed`, `QueueDrains` | every way the socket cuts the writes |
| `list` | `EndIsComplete` | through interruption and re-entry |
| `throttle` | `RateLimited`, `SilenceServed` | ten seconds of attempts, remote signons, timers and rehashes |
| `event` | `EventsOnTime`, `SplitEnds` | all rounds of the loop with events of random delays, splits, rehashes, jumps and a clock set back: lateness is bounded, split mode ends |
| `users` | `ListsMirrored`, `WatchMirrored`, `OwnersLive`, `ChaseFindsLast` | every order of registrations, renames, list and watch commands and exits |
| `network` | `TreeMirrored`, `CountersAgree`, `ToldInOrder`, `RoutedOnce`, `ImplementsTopology` | links, bursts, remote clients and splits in every order, each split one exit at a time |
| `conf` | `LinksExact`, `PointersLive`, `ServersTried` | rehashes that drop, keep and bring back classes and blocks while clients hold them, and connect blocks held for different periods |
| `masks` | `BansBite`, `FileInForce` | bans, exclusions, expiry, registrations, rehashes and signals in every order |

All of them pass. Where the code does what one would rather it did not, the
property names the exception (`slipped`, `lost`, `astray`, `stale`, `spoiled`), and
*Disagreements met while modelling* describes it.

### Bounds

* `channel`: this server, one local user and one remote operator, three blocks
  (one the level channel's), three names (one with hash 0), `MaxJoined` 1. Two
  users give a channel with and without a survivor and invitation lists of none,
  one and two entries, which is all `DropInvites` tells apart; two free blocks let
  a name have its block reused by another. Free blocks are symmetric.
* `connection`: two client blocks, two requests, one listener, five descriptors
  with two reserved: enough for one connection to take what another gave
  back, and for the descriptors to run out. `MaxUnknown` bounds `Count.unknown`,
  which the code's error paths let grow. `connection_ends` has one of
  each, because liveness of one client does not depend on another under the
  events' fairness. `Listeners` has one port, whose block a rehash reopens
  (of several it would open one at a time, with other handlers in between).
* `recvq`: lines of two bytes (`BUF_DATA_SIZE` 3), reads of up to four, seven bytes
  in all: a line exactly full, over-full by one and by a whole read, an
  end of line on either side of every cut. The two letters are symmetric.
* `sendq`: lines of one to three bytes, a limit of four, four lines, a BURST of two.
* `list`: three buckets, two channels in the first. `throttle`: three
  connections in two seconds, periods of two and three seconds, ten seconds, three
  checks per second; one address, since addresses do not interact.
* `event`: a recurring event of two seconds, a first check of split mode after two or
  three, and split modes of three to five seconds (`SplitDelay` 5, which
  `eventAddIsh` makes any of them), five slots in all, rounds of up to two seconds, a
  clock set back by up to two. So a split mode that began later may end earlier, its
  handler may delete the slot of another one and leave its own, also while split mode
  is on again, and an event can be more than one delay late.
* `users`: three client blocks (two local) of which two are in use at once,
  two nicknames (one with hash 0), lists of one entry (`MAX` 2: the code compares
  before it adds), one entry of the "informed" lists, two watch blocks, a ring of two entries, so that it wraps at
  every other rename.
* `network`: two local blocks, each an unknown connection, a person or a link in
  turn, and three remote ones: two links with a subtree of depth two behind one of
  them, a split with users and servers on both levels, and a burst while a split
  link waits in `exit_list`. `MaxAstray` 1: one person from the wrong direction.
* `conf`: an auth, an operator and two connect blocks in two classes, one person,
  two connections, `Gens` of two and `MaxRehash` 2, so that an item or class that
  is off the list meets its successor. Three files: all of it, one without the
  class of the automatic block, which falls to class 0, and one that brings no block.
  The classes have periods of two and three rounds, class 0 of ten (`CONNECTFREQUENCY`)
  with a limit of one (`MAXIMUM_LINKS`), and the hold after a good link is one round:
  the automatic block, down and with room, is passed over because it is on hold, and
  is due in rounds in which the other block is due too and comes before it. Both
  connect blocks have a port (`WithPort`); a block without one is skipped by `Due`.
* `masks`: two masks, one of which covers the other, two users, one of whom both
  match, bans of two seconds and for good, four files (the empty one, one with a
  mask covered by another, one with a Z-line), `MaxHups` 2: one SIGHUP in the
  window and one after it.

`MaxUnknown`, `MaxRead`, `MaxBytes`, `MaxLines`, `MaxTime`, `MaxCalls`, `MaxJump`,
`MaxBack`, `MaxAdds`, `Others`, `MaxPersons`,
`MaxInformed`, `MaxAstray`, `Gens`, `MaxRehash` and `MaxHups` are the only bounds that the code
does not have; each is a named constant in the guard of the actions it limits. Deadlock is not
checked where a bound, or the end of a connection, really ends a behaviour.

### Fairness

* `connection_ends`: `timeout_auth_queries_event`, `check_pings` and
  `remove_exited_clients` are recurring events, added at start-up, and compare with
  a clock that advances. So a request that stays on `auth_poll_list` is timed out,
  a client that stays unregistered or dead is exited, and `exit_list` is emptied.
  No network answer is assumed: DNS, ident, peers and users may stay silent for
  ever. An event added after `eventRun` (below) delays these events by up to the length of
  split mode; it does not suspend them, so "eventually" still holds.
* `sendq`: `comm_select` polls every registered descriptor in every round, and a
  socket that polls writable takes a byte or fails. That the peer's socket becomes
  writable is an assumption on the peer; a peer that never reads is disconnected
  by the limit or by its ping timeout, which are outside this module.
* `conf`: `try_connections` is a recurring event. Rehashes are bounded, links may
  come and go for ever: `ServersTried` holds without assuming that they stay.
* `event`: `io_loop` does not stop, and the clock goes forward again and again
  (strong fairness: rounds of no duration may come in between). Nothing is assumed of
  the delays that are drawn.

## What is proved

With TLAPS, for every value of the constants that satisfies the named assumptions:

* `ChannelProofs`: `TypeCorrect`, `MembershipMirrored`, `CountersExact`,
  `LevelChannelsLive` (invariants) and `EmptiedChannelsFreed` (an action property).
  Assumptions: clients and blocks are finite sets, this server is a client and not
  a local user, the level channel's name is one that the hash table can
  find. The inductive invariant is
  `IInv == TypeOK /\ MembershipMirror /\ CountsExact /\ LevelChannelLive`. None of
  the parts is inductive alone: the counters stay exact because removal is
  only called for members (the mirror turns the test on `user->channel` into a fact
  about `chptr->members`); the mirror survives the reuse of a block because a freed
  block has no members, which needs the counter that decides the freeing to be
  exact; and the level channel stays because this server is on it, and so
  its exact counter never reaches zero. Each operation on the pair of
  lists is proved once as a lemma about a membership record (`AddMemberOK`,
  `DropMemberOK`, `SweepOutOK`, `LeaveAllOK`), `ReleaseKeeps` covers the common
  ending, and one lemma per action puts them together.
* `UsersProofs`: `UsersTypeCorrect`, `ListsAlwaysMirrored`, `WatchesMirrored`,
  `HistoryOwnersLive`. The inductive invariant is the conjunction of the four
  properties. The mirrors are what makes the sweeps of `exit_client` complete: the
  code finds the lists a leaving user is on only through the user's own back
  lists. `OwnersLive` needs its first conjunct in both directions: `Evicted`
  removes the overwritten slot from its owner's list, and `SignOff` clears
  `online` exactly in the slots on the list.

* `AdmissionProofs`: `BansAlwaysBite` and `FileMasksInForce`, for any users, masks,
  relation between them, lengths and number of signals. Assumptions: a mask covers
  itself, `Forever` is no number, commands make K-lines and autokills, the file
  holds the types of the file. `BansBite` is not inductive, because an exclusion
  comes, goes and expires without a check; `Noticed` says of the ban itself that
  somebody has looked. `FileInForce` becomes inductive with three additions: the
  masks of the file never expire (a rehash finds the old one and makes no new one),
  they are loaded from the moment `rehash` ends although `dorehash` is still set,
  and a signal in that moment sets `lost`.
* `ChannelProofs`, beyond the above: `ChannelNamesUnique` (two live blocks never have
  the same name that can be found) and `InvitationsBackLinked`. The second
  follows the invitations alone: `BackLinked` says of a channel's list that each user
  on it has the block on his own, and is kept by every operation that drops
  invitations, including the walk in `sub1_from_channel` that drops too few.
* `UsersProofs`: `ChaseMeetsLast`. Strengthened by `NewestIsLast`: of all entries with
  a nickname, the one with the least age is its last owner's or nobody's. The age is
  taken modulo the length of the ring, so one entry overwritten by a rename makes all
  others older and none of them the newest of its nickname.
* `NetworkProofs`: `TreeAlwaysMirrored`, `CountersAlwaysAgree`, `AlwaysRoutedOnce`,
  `AlwaysToldInOrder`, for any finite sets of blocks. `NetInv` holds also in the midst
  of a split: every remote client is behind a link that is up or is the one splitting
  (`Linked`), a client stands before its server in `GlobalClientList` (`Ordered`, which
  is why the walks of the burst and of the recursion meet servers in the right order),
  and the calls of `exit_recursion` are for servers each on the one before
  (`Splitting`). `CountInv` adds the counters with what is `astray`; `ToldInv` says for
  each link that it was told exactly what it is owed, apart from clients that exited
  or are splitting, that it knows the server of everybody it knows, and that a split
  has one side only.
* `NetworkProofs`, last part: `NetworkImplementsTopology`, the refinement. The initial states
  map to initial states; each step of the code is shown to be a join, a leave, a
  split or a stuttering step of the abstract tree, from `NetInv` and `ToldInv`. The
  steps of a split after its first stutter, because the mapping hides what is behind
  the server whose exit is under way.
* `LoopProofs`: `BytesStayInOrder` and `AlwaysArmed`, for lines of any lengths, any
  limits and any way to cut the writes. Both are proved of the link record that every
  function takes and returns (`Sound`, `Armed`), so that the nested `send_message` of
  the BURST is one more application of the same lemma.
* `AdmissionProofs`: `SilenceAlwaysServed` and `RateAlwaysLimited`, for any limits and
  any number of addresses. `SilenceInv` bounds a refusal by the entry's own times.
  `RateInv` splits the connections of a window into those of the running count and
  those of the one before it, each below `throttle_tcount`. It alone rests
  on `PeriodsCoverWindow`: no Z-line period is shorter than the window in which
  connections are counted (two minutes against thirty seconds, in the code and in
  its example configuration; a longer `throttle_time` would not be covered).
* `ConfProofs`: `LinksAlwaysExact` and `PointersAlwaysLive`, for any file, any clients
  and any number of rehashes. `ConfInv` states them of a world of items and classes
  (`Sound`) under what each client holds, and adds: a client holds an item once; a
  listed item has a listed class; a person with one item has its auth block,
  which is why OPER cannot attach what is held already; a connection that has not
  begun holds nothing. `Detach` and `Attach` are lemmas about a world alone, and the
  walk of `det_confs_butmask` is an induction over the first. That classes and items
  must be exact together shows in `check_class` and `detach_conf`: each frees what its
  counter says nobody needs. Assumptions: the clients and the generations of blocks
  are finite sets (cardinalities are meant), persons and connections differ, class
  number 0 is not in the file.
* `ConnectionSound` and `ConnectionProofs`: `SpecDescriptorsOwned`,
  `SpecCallbacksLive`, `SpecQueriesLive`, `SpecRequestsPolled`, `SpecClientListSound`,
  `SpecNobodyStranded` and `SpecListenersOutliveClients`, for any number of clients, requests, listeners and
  descriptors. Assumptions: the three heaps are finite and share no address, none of
  which is null (`ConnectionAssumption`); the standard descriptors are not handed out
  and the table is not empty (`FdAssumption`).

  Handlers call each other before they return, so the invariant is stated of a world:
  `Sound(w, X)`, where `X` holds the objects that the running handler has in hand and
  has still to rearm, connect or release. `Inv` is `Sound(World, {})`. One lemma per
  handler says that it takes a sound world to sound worlds, and one per action that it
  runs a handler on what was registered. None of the seven properties is inductive
  alone. That an open descriptor has one owner needs what each status of a client, a
  request and a listener says about its descriptor. That a callback finds its object
  needs more of that object than that it lives: `read_auth_reply` only for a request
  whose ident is pending, `comm_tryall_callback` only for a client not yet on
  `GlobalClientList`, a packet reader only for one that is. That nobody is stranded
  needs, for every object outside `X`, that some registration or query will come back
  to it (`Armed`). A handler changes little of a world: the lemma `Local` gives
  soundness of the result from what it wrote, if the rest is as before. `start_auth`
  puts its request on `auth_poll_list` after it has started the ident query, whose
  connect callback may have run and freed the request by then; the lemmas about
  `Poll` show that adding the request to the list before or after makes no difference
  to the worlds that result.

  `SpecCallbacksLive` is stated under `~ByName`: for a `serv_connect` by host name the
  query's argument is a descriptor, and the exit of the client does not cancel it
  (see *Disagreements*). The other six are proved with `ByName` either way. The parts
  of `Sound` were checked as invariants under both configurations before the proof.
* `AdmissionProofs`: `ReaderAlwaysMatches`, from `ReaderInv`: only a peer that is a server,
  or is exchanging keys on the way to be one, has text left in `restbuf` or is read by
  the server's reader; so `read_client_packet` never runs where text waits there.
* `ChannelProofs`, on `ListReply`: `EndAlwaysComplete`, for a table of any shape, any
  room and any limit.
  `ListSound` says that what is listed covers every bucket before `starthash` and,
  for each call of `send_list` under way, every position before the one it goes on
  with. The inner calls start again from the bucket of the outer one, so they list
  channels twice and never too few; a call that ends clears `starthash` only after it
  has passed the whole table. Assumption: the table is a sequence of buckets.
* `LoopProofs`: `EventsAlwaysOnTime`, for a table of any size and any delays.
  `EventInv` says that no active slot is earlier than the cached minimum by more than
  `Late` allows for the ways the minimum was lost (`MinSound`), and that in the second half of
  a round none is overdue by more (`OnTime`). An add that finds no minimum puts a delay
  of at most `Longest` there, while every other slot is still to come (`Delayed`,
  `AddOnTime`); a clock set back moves the slots by at most `MaxBack` and happens
  once. A round that does run events clears `stale`, and afterwards no slot is due
  (`Quiet`): an induction over the slots that `eventRun` visits, since a handler adds
  slots that are due later, at the end of the table only, and deletes others
  without making them due. Assumptions: the delays and `MAX_EVENTS` are positive
  (`Delays`, `TableSize`), the bounds are natural numbers (`Bounds`), and `NoMin` is no
  number.

The library's induction theorems cannot be used by the provers at hand. Where a proof
needs one, `LeastNat` (from the well-founded order of the naturals) gives induction
up to a bound for a property given as a set (`Induction`), and `Recursion` that a
recursively defined walk has a solution at all; what `Kept`, `Route`, `det_confs`,
the scan for `highest_fd` in `FdTable`, `eventRun`, the sums of `SendQ` and `Throttle`
and the subtree of `Network` compute is proved with these.

Only model-checked: `LinesFaithful` of `RecvQ`, which compares the lines handled with
a recursive reading of the whole stream of bytes, and every liveness property, since
fairness and `ENABLED` are out of the prover's reach: `LookupsEnd`, `UnknownsLeave` and
`DeadReaped` of `Connection`, `QueueDrains` of `SendQ`, `SplitEnds` of `Event` and
`ServersTried` of `Conf`.

## Disagreements met while modelling

* `sub1_from_channel` (`src/channel.c:258`) walks the invitations of an emptied
  channel with `while (tmp && (tmp = tmp->next))`: it skips the first entry, and
  stops after the one it deletes. The addresses stay on the users' lists, and a
  later channel in the same block accepts those invitations. No property excludes that,
  since the code does it; what still holds is `InviteBackLinks`: the channel's side
  never outlives the user.
* `serv_connect` by host name keeps its DNS query in `fd_table`, where
  `exit_client` does not look (`server/s_bsd.c:497`); `fd_close` clears the entry
  and the answer runs into the assertion at `server/s_bsd.c:656`, or into another
  connection. `connection_ends` runs with such connections. When `attach_cn_lines`
  fails, `Count.unknown` is not decremented.
* `eventRun` leaves the cached minimum at -1 and `eventAdd` takes -1 for an empty
  table (`src/event.c:77`): after a netsplit noticed between the two, no event
  runs until split mode's own is due, up to 40 minutes later. That delay is all that
  is lost: `EventsOnTime` bounds it by the longest that can be drawn (`Late`). A rehash
  clears `GeneralOpts.split` and leaves the event, so the next split adds another.
* A burst (`protocol/native.c:302`) tests `IsServer` only, and mentions servers that
  have exited and wait in `exit_list`: the peer keeps them until a later SQUIT. The
  refinement sets them aside.
* The comment at `server/s_exit.c:47` describes one SQUIT for a whole split; one is
  sent for every server of the subtree. A person introduced from the wrong
  direction is taken from `usercnt` without having been counted (`astray`).
* An operator block does not count on its class: `check_class`
  (`src/class.c:182`) and `detach_conf` (`src/confitem.c:163`) free the class below an
  operator block that is held. `PointersLive` is stated for auth and connect blocks.
  `check_class` also reads `cltmp->next` after it freed `cltmp`.
* A SIGHUP between `rehash` and `dorehash = 0` (`src/ircd.c:352`) drops the masks of
  the file, and the request to read them again is lost (`lost`). The handler frees
  masks whenever it comes, also in the midst of a lookup; the model has it between
  steps only.
* A Z-line made between a user's accept and registration is not looked up at the
  registration, and an exclusion is not either: `find_connection_kill_level` knows
  neither (`server/s_kline.c:124`). A K-line request is dropped when a temporary one
  covers it (`iproc_kline`), and its longer time with it. REHASH by an operator keeps
  the file's masks that have left the file.
* User ids have 20 bits and are looked up with 16 (`src/identity.c:64`, `:82`), and
  `MAKE_ID` leaves 8 of the 12 bits of a server id that `MAX_SERV_IDENTITY` allows.

* `find_channel` and `find_client` (`src/hash.c`) return nothing for a name whose
  16-bit hash is 0, so such a channel is created again at each join although
  `src/channel.c:151` says "if it didn't exist before", and such a nickname can be
  held twice. `FoundNamesUnique` is therefore stated for the other names, and
  `Users` lets such names be shared. WATCH refuses them.
* The failure path of an SSL connection frees the client but keeps its reference
  on the listener: the count is an upper bound (`ListenersOutliveClients` says no
  more), and the block of such a listener is never freed. `Count.unknown` is not
  decremented on the same paths.
* `linebuf`: an over-long line is cut, but what the next read brings of it is not
  skipped up to the end of line; the length counter is an upper bound; lines still queued when a client becomes a server stay in
  the queue (`spoiled` sets both cases aside in `LinesFaithful`).
* `flood_recalc` is not armed again when it fires before registration or for an
  operator; their lines are served by reads only.
* LIST: a list interrupted in bucket 0 is not resumed, because 0 also means "no
  list", and re-entry may still pass the send queue's limit.
* `example.conf:175` gives `throttle_count` as a number of connections; the limit
  is compared after counting, so the last of them is refused.
* `set_back_events` moves the events and not the cached minimum: events wait as
  long as the clock was set back, and `EventsOnTime` says no longer. Deleted slots below `event_max` are not reused,
  so every netsplit uses one up, and a full table ends the program. `doc`'s
  `event.txt` says an event "is then deleted"; they recur.
* ACCEPT and DCCALLOW hold one entry fewer than numerics 513 and 514 announce
  (`server/s_err.c:1566`, `:1569`).
* `server/s_bsd.c:617` announces a timeout of ten seconds and sets thirty;
  `comm_checktimeouts` passes the `timeout_data` it has just cleared.
* A join that `can_join` refuses leaves the channel it created behind, empty.

## Not modelled, and why

* The IRC commands and mode hooks: not in the repository.
* Encryption and compression of server links: calls into libraries; the streams
  are modelled without them.
* The HTTP server, the vendored libraries (adns, zlib, regex, md5, uuid): third
  party. The resolver appears as a service that answers once, late or never.
* Numerics, texts, statistics, logging: formatting that no other part reads.
* Start-up, options, paths, the configuration grammar: run once, before there is
  state; the effect of a rehash is in `Connection`, `Throttle`, `Conf`, `Masks` and
  `Event`.
* The select, epoll, kqueue, devpoll and sigio back ends: alternatives to poll.
* Hooks and module loading: lists that change only while code is loaded.
* Key negotiation (DKEY) and the channels of a burst (SJOIN), regular expressions,
  quarantines, jupes and real-name bans, deny and hub blocks, users whose auth block exempts
  them from K-lines (`find_kill_level` returns before it looks).
* Identities, user modes, ban lists, silence lists, mask matching, the parser: see
  their notes in `PROJECT.json` and the plan.

## Plan

1. *(done)* `Channel`, its proof; `FdTable` and `Connection`; `RecvQ`, `SendQ`,
   `ListReply`; `Throttle`; `Event`; `Users` and its parts, their proof.
2. *(done)* `Network` with bursts, splits and routing, and `Topology`, which it
   implements; `Conf` with classes and `try_connections`; `Masks` and its proof.
3. `Identity`: ids with their widths as constants. `ChanLists`: the ban lists of
   `src/chanmodes.c`. `Match` against a reference definition over bounded masks and
   names. The block allocator.
4. Proofs: *(done)* `Channel`, `Users`, `Masks`, `Network` and its refinement, `Conf`,
   `SendQ`, `Throttle`, `Connection`, `ListReply`, `Event`, and `ReaderMatches` of
   `RecvQ`. Left: `LinesFaithful` of `RecvQ`.
