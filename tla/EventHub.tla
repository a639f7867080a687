------------------------------ MODULE EventHub ------------------------------
(***************************************************************************)
(* The fan-out of events: EventHub with its subscribers' bounded channels, *)
(* the SSE connections of EventsController.Stream that drain them, and the *)
(* concurrent callers of PublishAsync.                                     *)
(*                                                                         *)
(* A connection is made once; a client that reconnects is another one.     *)
(* Heartbeats carry nothing and are left out.                              *)
(***************************************************************************)
EXTENDS Naturals, Sequences, FiniteSets, Functions

CONSTANTS Conns,     \* SSE connections
          Filter,    \* Filter[s]: the supplier_id of the request, or NoSupplier
          Events,    \* the events published, each once
          Supplier,  \* Supplier[e]: the supplier of an order_updated event,
                     \* NoSupplier of a bulk_completed one
          Capacity,  \* 256 in the code
          NoSupplier, NoEvent

ASSUME CapacityAssumption == Capacity \in Nat \ {0}
ASSUME EventsAssumption == NoEvent \notin Events

VARIABLES
    conn,        \* where Stream is
    subscribed,  \* the keys of _subscribers
    open,        \* the channels that are not completed
    channel,     \* channel[s]: what waits in the channel of s
    writing,     \* the event Stream has read and is writing, or NoEvent
    sent,        \* the events the client of s got
    pub,         \* where PublishAsync(e) is
    visited,     \* the subscribers its enumeration has passed
    atStart,     \* those that were subscribed when it began
    stopping,    \* ApplicationStopping
    \* history
    accepted,    \* accepted[s]: the events written to the channel of s, in order
    before       \* before[e]: the events already published when e's turn began

connVars == <<conn, subscribed, open>>
pubVars  == <<pub, visited, atStart>>
history  == <<accepted, before>>
vars == <<connVars, channel, writing, sent, pubVars, stopping, history>>

Init == /\ conn = [s \in Conns |-> "none"]
        /\ subscribed = {} /\ open = {}
        /\ channel = [s \in Conns |-> <<>>]
        /\ writing = [s \in Conns |-> NoEvent]
        /\ sent = [s \in Conns |-> <<>>]
        /\ pub = [e \in Events |-> "none"]
        /\ visited = [e \in Events |-> {}]
        /\ atStart = [e \in Events |-> {}]
        /\ stopping = FALSE
        /\ accepted = [s \in Conns |-> <<>>]
        /\ before = [e \in Events |-> {}]

-----------------------------------------------------------------------------
(* GET /api/events                                                         *)

(* The 200, its headers and the retry hint are flushed: the client's       *)
(* EventSource is open.                                                    *)
Connect(s) ==
    /\ conn[s] = "none" /\ ~stopping
    /\ conn' = [conn EXCEPT ![s] = "open"]
    /\ UNCHANGED <<subscribed, open, channel, writing, sent, pubVars, stopping, history>>

Subscribe(s) ==
    /\ conn[s] = "open"
    /\ conn' = [conn EXCEPT ![s] = "streaming"]
    /\ subscribed' = subscribed \cup {s} /\ open' = open \cup {s}
    /\ UNCHANGED <<channel, writing, sent, pubVars, stopping, history>>

(* TryRead, then the frame is serialized.                                  *)
ReadEvent(s) ==
    /\ conn[s] = "streaming" /\ writing[s] = NoEvent /\ channel[s] # <<>>
    /\ writing' = [writing EXCEPT ![s] = Head(channel[s])]
    /\ channel' = [channel EXCEPT ![s] = Tail(channel[s])]
    /\ UNCHANGED <<connVars, sent, pubVars, stopping, history>>

(* WriteAsync and FlushAsync: they wait for as long as the client does not *)
(* read.                                                                   *)
SendFrame(s) ==
    /\ conn[s] = "streaming" /\ writing[s] # NoEvent
    /\ sent' = [sent EXCEPT ![s] = Append(@, writing[s])]
    /\ writing' = [writing EXCEPT ![s] = NoEvent]
    /\ UNCHANGED <<connVars, channel, pubVars, stopping, history>>

(* The client goes away, a write fails, the host stops or the channel was  *)
(* completed and is empty: the loop is left, in whatever state it is.      *)
Leave(s) ==
    /\ conn[s] = "streaming"
    /\ conn' = [conn EXCEPT ![s] = "leaving"]
    /\ UNCHANGED <<subscribed, open, channel, writing, sent, pubVars, stopping, history>>

MustLeave_IgnoresStop(s) ==
    s \notin open /\ channel[s] = <<>> /\ writing[s] = NoEvent
MustLeave(s) == stopping \/ (s \notin open /\ channel[s] = <<>> /\ writing[s] = NoEvent)

(* Before Subscribe there is nothing to undo.                              *)
LeaveEarly(s) ==
    /\ conn[s] = "open"
    /\ conn' = [conn EXCEPT ![s] = "closed"]
    /\ UNCHANGED <<subscribed, open, channel, writing, sent, pubVars, stopping, history>>

Unsubscribe_KeepsEntry(s) == open' = open \ {s} /\ UNCHANGED subscribed
Unsubscribe(s) == subscribed' = subscribed \ {s} /\ open' = open \ {s}

(* The finally block; what was not sent is garbage.                        *)
Close(s) ==
    /\ conn[s] = "leaving"
    /\ conn' = [conn EXCEPT ![s] = "closed"]
    /\ Unsubscribe(s)
    /\ channel' = [channel EXCEPT ![s] = <<>>]
    /\ writing' = [writing EXCEPT ![s] = NoEvent]
    /\ UNCHANGED <<sent, pubVars, stopping, history>>

-----------------------------------------------------------------------------
(* PublishAsync.  It enumerates the dictionary without a lock: a           *)
(* subscriber that stays is passed once, one that comes or goes meanwhile  *)
(* may be passed or not.                                                   *)

Passes_FilterIgnored(e, s) == TRUE
Passes_BulkFiltered(e, s) == Filter[s] = NoSupplier \/ Filter[s] = Supplier[e]
Passes(e, s) == \/ Supplier[e] = NoSupplier
                \/ Filter[s] = NoSupplier
                \/ Filter[s] = Supplier[e]

PublishBegin(e) ==
    /\ pub[e] = "none"
    /\ pub' = [pub EXCEPT ![e] = "publishing"]
    /\ atStart' = [atStart EXCEPT ![e] = subscribed]
    /\ before' = [before EXCEPT ![e] = {f \in Events : pub[f] = "published"}]
    /\ UNCHANGED <<connVars, channel, writing, sent, visited, stopping, accepted>>

(* TryWrite on a channel with FullMode = DropOldest: it never waits.       *)
Full(s) == Len(channel[s]) = Capacity
Kept_DropNewest(s, e) == IF Full(s) THEN channel[s] ELSE Append(channel[s], e)
Kept_AtFront(s, e) == <<e>> \o (IF Full(s) THEN Tail(channel[s]) ELSE channel[s])
Kept(s, e) == Append(IF Full(s) THEN Tail(channel[s]) ELSE channel[s], e)

PublishTo_WaitsForSpace(e, s) ==
    /\ pub[e] = "publishing" /\ s \in subscribed \ visited[e]
    /\ Passes(e, s) => ~Full(s)
    /\ visited' = [visited EXCEPT ![e] = @ \cup {s}]
    /\ IF Passes(e, s) /\ s \in open
       THEN /\ channel' = [channel EXCEPT ![s] = Kept(s, e)]
            /\ accepted' = [accepted EXCEPT ![s] = Append(@, e)]
       ELSE UNCHANGED <<channel, accepted>>
    /\ UNCHANGED <<connVars, writing, sent, pub, atStart, stopping, before>>

PublishTo(e, s) ==
    /\ pub[e] = "publishing" /\ s \in subscribed \ visited[e]
    /\ visited' = [visited EXCEPT ![e] = @ \cup {s}]
    /\ IF Passes(e, s) /\ s \in open
       THEN /\ channel' = [channel EXCEPT ![s] = Kept(s, e)]
            /\ accepted' = [accepted EXCEPT ![s] = Append(@, e)]
       ELSE UNCHANGED <<channel, accepted>>
    /\ UNCHANGED <<connVars, writing, sent, pub, atStart, stopping, before>>

PublishEnd(e) ==
    /\ pub[e] = "publishing"
    /\ atStart[e] \cap subscribed \subseteq visited[e]
    /\ pub' = [pub EXCEPT ![e] = "published"]
    /\ visited' = [visited EXCEPT ![e] = {}]
    /\ UNCHANGED <<connVars, channel, writing, sent, atStart, stopping, history>>

-----------------------------------------------------------------------------
(* ApplicationStopping fires; later the container disposes of the hub.     *)
Stop == /\ ~stopping /\ stopping' = TRUE
        /\ UNCHANGED <<connVars, channel, writing, sent, pubVars, history>>

DisposeHub ==
    /\ stopping /\ subscribed # {}
    /\ subscribed' = {} /\ open' = {}
    /\ UNCHANGED <<conn, channel, writing, sent, pubVars, stopping, history>>

Drain(s) == ReadEvent(s) \/ SendFrame(s)
Publish(e) == PublishEnd(e) \/ \E s \in Conns : PublishTo(e, s)

(* The host is gone and so are the connections.                            *)
Gone == /\ stopping /\ subscribed = {}
        /\ \A s \in Conns : conn[s] \in {"none", "closed"}
        /\ \A e \in Events : pub[e] # "publishing"
        /\ UNCHANGED vars

Next == \/ \E s \in Conns : \/ Connect(s) \/ Subscribe(s) \/ Drain(s)
                            \/ Leave(s) \/ LeaveEarly(s) \/ Close(s)
        \/ \E e \in Events : PublishBegin(e) \/ Publish(e)
        \/ Stop \/ DisposeHub \/ Gone

(* The host runs what it has begun, but a client may stop reading: nothing *)
(* is assumed of SendFrame.                                                *)
Fairness == /\ \A s \in Conns : /\ WF_vars(Subscribe(s) \/ LeaveEarly(s))
                                /\ WF_vars(ReadEvent(s))
                                /\ WF_vars(MustLeave(s) /\ Leave(s))
                                /\ WF_vars(Close(s))
            /\ \A e \in Events : WF_vars(Publish(e))

Spec == Init /\ [][Next]_vars /\ Fairness

(* The same with clients that keep reading.                                *)
ReadingSpec == Spec /\ \A s \in Conns : WF_vars(SendFrame(s))

-----------------------------------------------------------------------------
(* Properties                                                              *)

(* What the client of s got, is about to get, or has waiting.              *)
Line(s) == sent[s] \o (IF writing[s] = NoEvent THEN <<>> ELSE <<writing[s]>>) \o channel[s]

(* A bulk_completed concerns everyone, an order_updated those without a    *)
(* filter and those with its supplier's.                                   *)
Wanted(e, s) == Supplier[e] = NoSupplier \/ Filter[s] \in {NoSupplier, Supplier[e]}

(* Every variable has its type; no channel outgrows its capacity.          *)
TypeOK ==
    /\ conn \in [Conns -> {"none", "open", "streaming", "leaving", "closed"}]
    /\ subscribed \subseteq Conns /\ open \subseteq subscribed
    /\ channel \in [Conns -> Seq(Events)]
    /\ \A s \in Conns : Len(channel[s]) <= Capacity
    /\ writing \in [Conns -> Events \cup {NoEvent}]
    /\ sent \in [Conns -> Seq(Events)]
    /\ pub \in [Events -> {"none", "publishing", "published"}]
    /\ visited \in [Events -> SUBSET Conns] /\ atStart \in [Events -> SUBSET Conns]
    /\ stopping \in BOOLEAN
    /\ accepted \in [Conns -> Seq(Events)] /\ before \in [Events -> SUBSET Events]

(* Position n of what was written to a channel was pushed out by newer     *)
(* events.                                                                 *)
PushedOut(s, n) == n + Capacity <= Len(accepted[s])

(* A client that was subscribed when a publication it wants began, and     *)
(* still streams when it has ended, has the event in its line, unless as   *)
(* many newer ones as the channel holds were written after it: a slow      *)
(* client loses its oldest events and only those.                          *)
NoSilentLoss ==
    \A e \in Events, s \in Conns :
       pub[e] = "published" /\ s \in atStart[e] \cap open /\ Wanted(e, s) =>
          \E n \in 1..Len(accepted[s]) :
             /\ accepted[s][n] = e
             /\ e \in Range(Line(s)) \/ PushedOut(s, n)

(* No client sees an event twice, or one that its filter excludes, however *)
(* publications overlap with its subscription.                             *)
SeenOnceAndWanted ==
    \A s \in Conns : /\ \A m, n \in 1..Len(Line(s)) : Line(s)[m] = Line(s)[n] => m = n
                     /\ \A e \in Range(Line(s)) : Wanted(e, s)

(* A publication that had ended when another began is seen before it: the  *)
(* updates of one order, made one after the other, arrive in that order.   *)
(* Overlapping ones may arrive in different orders at different clients.   *)
SequentialOrder ==
    \A s \in Conns : \A m, n \in 1..Len(Line(s)) :
       Line(s)[m] \in before[Line(s)[n]] => m < n

(* A client that stops reading blocks no publisher: every publication      *)
(* ends, with nothing assumed of the clients.                              *)
PublishEnds == \A e \in Events : pub[e] = "publishing" ~> pub[e] = "published"

(* Once the host stops, every stream is left and its subscriber removed,   *)
(* though its client may not read: no SSE connection holds the stop up.    *)
StopDrains == stopping ~> [](\A s \in Conns : conn[s] \in {"none", "closed"}
                                              /\ s \notin subscribed)

(* A client that keeps reading gets every event that is published to it,   *)
(* or its connection ends, or the event is pushed out.                     *)
Delivered ==
    \A e \in Events, s \in Conns :
       pub[e] = "publishing" /\ s \in atStart[e] /\ Wanted(e, s) ~>
          \/ e \in Range(sent[s]) \/ conn[s] # "streaming" \/ s \notin open
          \/ \E n \in 1..Len(accepted[s]) : accepted[s][n] = e /\ PushedOut(s, n)
=============================================================================
