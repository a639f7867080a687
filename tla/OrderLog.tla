------------------------------ MODULE OrderLog ------------------------------
(***************************************************************************)
(* What the order store promises its clients, with no versions, no locks,  *)
(* no re-reads and no requests in flight: every order has a log of the     *)
(* changes made to it, a change is made atomically and at most once per    *)
(* writer, nothing is ever logged after a cancellation, and only a writer  *)
(* whose change is in a log is acknowledged.                               *)
(*                                                                         *)
(* A writer is one PATCH request or one chunk of a bulk job.  A chunk may  *)
(* change several orders at once.                                          *)
(***************************************************************************)
EXTENDS Naturals, Sequences

CONSTANTS Orders,      \* the orders of the table
          Statuses,    \* the statuses an order can have
          Cancelled,   \* the terminal one
          InitStatus,  \* the status each order was imported with
          Writers,     \* PATCH requests and bulk chunks
          NoOne        \* the "writer" of the imported value

VARIABLES log,    \* log[o]: the sequence of [by, status] changes of order o
          acked   \* the writers that were told their change was made

vars == <<log, acked>>

LastStatus(o) == log[o][Len(log[o])].status

HasWritten(w) == \E o \in Orders : \E k \in 1..Len(log[o]) : log[o][k].by = w

Init == /\ log = [o \in Orders |-> <<[by |-> NoOne, status |-> InitStatus[o]]>>]
        /\ acked = {}

(* Writer w gives every order of S the status s, in one step.              *)
Write(w, S, s) ==
    /\ ~HasWritten(w)
    /\ \A o \in S : LastStatus(o) # Cancelled
    /\ log' = [o \in Orders |->
                 IF o \in S THEN Append(log[o], [by |-> w, status |-> s]) ELSE log[o]]
    /\ UNCHANGED acked

Acknowledge(w) ==
    /\ HasWritten(w)
    /\ acked' = acked \cup {w}
    /\ UNCHANGED log

Next == \E w \in Writers :
           \/ \E S \in SUBSET Orders, s \in Statuses : Write(w, S, s)
           \/ Acknowledge(w)

Spec == Init /\ [][Next]_vars
=============================================================================
