------------------------------- MODULE FdTable -------------------------------
(***************************************************************************)
(* The descriptor table (src/fd.c) and the registrations in it             *)
(* (server/s_bsd.c, server/s_bsd_poll.c).  A table F is a record:          *)
(*   F.tab      fd_table[], one entry per descriptor                       *)
(*   F.number   number_fd                                                  *)
(*   F.highest  highest_fd                                                 *)
(* A registration is a pair <<handler, argument>>, or NULL.                *)
(***************************************************************************)
EXTENDS Integers, FiniteSets, FiniteSetsExt

CONSTANTS
  FirstFd,         \* the lowest descriptor the server's sockets get
  MaxConnections,  \* MAXCONNECTIONS
  ReservedFds,     \* the descriptors kept back from clients (10 in the code)
  NULL             \* the null pointer

ASSUME FdAssumption ==
  /\ FirstFd \in Nat /\ FirstFd > 2
  /\ MaxConnections \in Nat /\ FirstFd < MaxConnections
  /\ ReservedFds \in 0..MaxConnections

Fds == FirstFd .. (MaxConnections - 1)

ClosedEntry == [open |-> FALSE, read |-> NULL, write |-> NULL,
                connect |-> NULL, timer |-> FALSE, flush |-> NULL]

EmptyTable == [tab |-> [f \in Fds |-> ClosedEntry], number |-> 0, highest |-> -1]

OpenFds(F) == {f \in Fds : F.tab[f].open}

(* socket() and accept() hand out the lowest descriptor that is closed;     *)
(* -1 when there is none.                                                   *)
LowestClosed(F) ==
  LET closed == Fds \ OpenFds(F) IN IF closed = {} THEN -1 ELSE Min(closed)

(* comm_open and comm_accept: refuse at the limit before trying.            *)
CommOpen(F) == IF F.number >= MaxConnections THEN -1 ELSE LowestClosed(F)

(* fdlist_update_biggest, after the entry's open flag was changed.          *)
UpdateBiggest(F, f) ==
  CASE f < F.highest -> F.highest
    [] f > F.highest -> f
    [] OTHER -> LET below == {g \in OpenFds(F) : g <= f}
                IN IF below = {} THEN -1 ELSE Max(below)

fd_open(F, f) ==
  LET opened == [F EXCEPT !.tab[f] = [ClosedEntry EXCEPT !.open = TRUE]]
  IN [opened EXCEPT !.highest = UpdateBiggest(opened, f), !.number = @ + 1]

(* fd_close clears the whole entry, whatever was registered in it.          *)
fd_close(F, f) ==
  LET closed == [F EXCEPT !.tab[f] = ClosedEntry]
  IN [closed EXCEPT !.highest = UpdateBiggest(closed, f), !.number = @ - 1]

(* What fd_close leaves when it is called for each descriptor of S.         *)
CloseAll(F, S) ==
  LET tab == [f \in Fds |-> IF f \in S THEN ClosedEntry ELSE F.tab[f]]
      left == {f \in Fds : tab[f].open}
  IN [tab |-> tab, number |-> F.number - Cardinality(S),
      highest |-> IF F.highest \notin S THEN F.highest
                  ELSE IF left = {} THEN -1 ELSE Max(left)]

SetRead(F, f, h) == [F EXCEPT !.tab[f].read = h]
SetWrite(F, f, h) == [F EXCEPT !.tab[f].write = h]
SetFlush(F, f, h) == [F EXCEPT !.tab[f].flush = h]
SetTimer(F, f, on) == [F EXCEPT !.tab[f].timer = on]
SetConnect(F, f, h) == [F EXCEPT !.tab[f].connect = h]

=============================================================================
