---------------------------- MODULE EventHubProofs ----------------------------
(***************************************************************************)
(* Proofs about EventHub, for any connections, filters, events and channel *)
(* capacity.                                                               *)
(***************************************************************************)
EXTENDS EventHub, TLAPS

(* A connection is subscribed at most once, with nothing in its line       *)
(* before that, and publications only pass those that were subscribed.     *)
SubscribedInv ==
    /\ subscribed = open
    /\ \A s \in Conns : conn[s] \in {"none", "open"} =>
          /\ s \notin subscribed /\ writing[s] = NoEvent
          /\ channel[s] = <<>> /\ sent[s] = <<>> /\ accepted[s] = <<>>
    /\ \A e \in Events, s \in Conns : s \in visited[e] \/ s \in atStart[e] =>
          conn[s] \notin {"none", "open"}
    /\ \A e \in Events : pub[e] # "publishing" => visited[e] = {}

IsAccepted(e, s) == \E n \in 1..Len(accepted[s]) : accepted[s][n] = e

(* An event is written to a channel once, if its subscriber wants it, and  *)
(* to every subscriber that stays.                                         *)
AcceptedInv ==
    /\ \A s \in Conns : \A n \in 1..Len(accepted[s]) :
          /\ Wanted(accepted[s][n], s) /\ pub[accepted[s][n]] # "none"
          /\ pub[accepted[s][n]] = "publishing" => s \in visited[accepted[s][n]]
    /\ \A s \in Conns : \A m, n \in 1..Len(accepted[s]) : accepted[s][m] = accepted[s][n] => m = n
    /\ \A e \in Events, s \in Conns :
          /\ s \in open /\ Wanted(e, s)
          /\ \/ pub[e] = "publishing" /\ s \in visited[e]
             \/ pub[e] = "published" /\ s \in atStart[e]
          => IsAccepted(e, s)

(* The channel of a subscriber holds the newest of what was written to it; *)
(* the rest was read or pushed out.                                        *)
Suffix(s) ==
    /\ Len(channel[s]) <= Len(accepted[s])
    /\ \A k \in 1..Len(channel[s]) :
          channel[s][k] = accepted[s][Len(accepted[s]) - Len(channel[s]) + k]
    /\ \A n \in 1..Len(accepted[s]) - Len(channel[s]) :
          \/ \E k \in 1..Len(sent[s]) : sent[s][k] = accepted[s][n]
          \/ writing[s] = accepted[s][n]
          \/ PushedOut(s, n)
ChannelsInv == \A s \in open : Suffix(s)

(* The line of a client keeps the order of what was accepted for it.       *)
Earlier(s, x, y) ==
    \E p, q \in 1..Len(accepted[s]) : p < q /\ accepted[s][p] = x /\ accepted[s][q] = y

Ordered(s) ==
    /\ \A k \in 1..Len(sent[s]) : IsAccepted(sent[s][k], s)
    /\ \A k \in 1..Len(channel[s]) : IsAccepted(channel[s][k], s)
    /\ writing[s] # NoEvent => IsAccepted(writing[s], s)
    /\ \A m, n \in 1..Len(sent[s]) : m < n => Earlier(s, sent[s][m], sent[s][n])
    /\ \A m, n \in 1..Len(channel[s]) : m < n => Earlier(s, channel[s][m], channel[s][n])
    /\ \A m \in 1..Len(sent[s]), n \in 1..Len(channel[s]) : Earlier(s, sent[s][m], channel[s][n])
    /\ writing[s] # NoEvent =>
          /\ \A m \in 1..Len(sent[s]) : Earlier(s, sent[s][m], writing[s])
          /\ \A n \in 1..Len(channel[s]) : Earlier(s, writing[s], channel[s][n])
LinesInv == \A s \in Conns : Ordered(s)

(* What had ended when a publication began is accepted before it.          *)
BeforeInv ==
    /\ \A e, f \in Events : f \in before[e] =>
          pub[f] = "published" /\ pub[e] # "none" /\ f # e
    /\ \A s \in Conns : \A m, n \in 1..Len(accepted[s]) :
          accepted[s][m] \in before[accepted[s][n]] => m < n

HubInv == /\ TypeOK /\ SubscribedInv /\ AcceptedInv /\ ChannelsInv /\ LinesInv /\ BeforeInv

(* The hub starts with no subscriber and nothing published.                *)
THEOREM HubInit == Init => HubInv
<1> SUFFICES ASSUME Init PROVE HubInv
  OBVIOUS
<1>1. TypeOK
  <2>1. <<>> \in Seq(Events) /\ Len(<<>>) <= Capacity
    BY CapacityAssumption
  <2> QED
    BY <2>1 DEF Init, TypeOK
<1>2. SubscribedInv /\ AcceptedInv /\ ChannelsInv /\ BeforeInv
  BY DEF Init, SubscribedInv, AcceptedInv, ChannelsInv, BeforeInv
<1>3. LinesInv
  BY DEF Init, LinesInv, Ordered
<1> QED
  BY <1>1, <1>2, <1>3 DEF HubInv

(* What a line has and keeps while its variables do not change.            *)
LEMMA SuffixSame ==
    ASSUME NEW s, Suffix(s), channel'[s] = channel[s], writing'[s] = writing[s],
           sent'[s] = sent[s], accepted'[s] = accepted[s]
    PROVE  Suffix(s)'
  BY DEF Suffix, PushedOut

(* The same for the order of a line.                                       *)
LEMMA OrderedSame ==
    ASSUME NEW s, Ordered(s), channel'[s] = channel[s], writing'[s] = writing[s],
           sent'[s] = sent[s], accepted'[s] = accepted[s]
    PROVE  Ordered(s)'
<1>1. \A e : IsAccepted(e, s)' <=> IsAccepted(e, s)
  BY DEF IsAccepted
<1>2. \A x, y : Earlier(s, x, y)' <=> Earlier(s, x, y)
  BY DEF Earlier
<1>3. /\ \A k \in 1..Len(sent'[s]) : IsAccepted(sent'[s][k], s)
      /\ \A k \in 1..Len(channel'[s]) : IsAccepted(channel'[s][k], s)
      /\ writing'[s] # NoEvent => IsAccepted(writing'[s], s)
  BY DEF Ordered
<1>4. /\ \A m, n \in 1..Len(sent'[s]) : m < n => Earlier(s, sent'[s][m], sent'[s][n])
      /\ \A m, n \in 1..Len(channel'[s]) : m < n => Earlier(s, channel'[s][m], channel'[s][n])
  BY DEF Ordered
<1>5. /\ \A m \in 1..Len(sent'[s]), n \in 1..Len(channel'[s]) :
            Earlier(s, sent'[s][m], channel'[s][n])
      /\ writing'[s] # NoEvent =>
            /\ \A m \in 1..Len(sent'[s]) : Earlier(s, sent'[s][m], writing'[s])
            /\ \A n \in 1..Len(channel'[s]) : Earlier(s, writing'[s], channel'[s][n])
  BY DEF Ordered
<1> QED
  BY <1>1, <1>2, <1>3, <1>4, <1>5 DEF Ordered

(* Steps that leave all lines alone.                                       *)
LineVars == <<channel, writing, sent, accepted>>

(* A step that leaves the lines alone, and subscribes nobody, keeps both.  *)
LEMMA LinesApart ==
    ASSUME HubInv, UNCHANGED LineVars, open' \subseteq open
    PROVE  ChannelsInv' /\ LinesInv'
<1>1. ChannelsInv'
  BY SuffixSame DEF HubInv, ChannelsInv, LineVars
<1>2. LinesInv'
  BY OrderedSame DEF HubInv, LinesInv, LineVars
<1> QED
  BY <1>1, <1>2

(* A connection moves on without its subscription or its line changing.    *)
LEMMA ConnectionKeeps ==
    ASSUME HubInv, NEW s \in Conns,
           Connect(s) \/ Leave(s) \/ LeaveEarly(s)
    PROVE  HubInv'
<1>1. /\ UNCHANGED <<subscribed, open, channel, writing, sent, pubVars, stopping, history>>
      /\ \E c \in {"open", "leaving", "closed"} : conn' = [conn EXCEPT ![s] = c]
      /\ conn' = [conn EXCEPT ![s] = "open"] => conn[s] = "none"
      /\ conn[s] \notin {"none", "open"} => conn'[s] \notin {"none", "open"}
  BY DEF Connect, Leave, LeaveEarly, HubInv, TypeOK
<1>2. TypeOK'
  BY <1>1 DEF HubInv, TypeOK, pubVars, history
<1>3. SubscribedInv'
  BY <1>1 DEF HubInv, TypeOK, SubscribedInv, pubVars, history
<1>4. AcceptedInv' /\ BeforeInv'
  BY <1>1 DEF HubInv, AcceptedInv, BeforeInv, IsAccepted, Wanted, pubVars, history
<1>5. ChannelsInv' /\ LinesInv'
  BY <1>1, LinesApart DEF LineVars, history
<1> QED
  BY <1>2, <1>3, <1>4, <1>5 DEF HubInv

(* A new subscriber starts with an empty channel.                          *)
LEMMA SubscribeKeeps ==
    ASSUME HubInv, NEW s \in Conns, Subscribe(s)
    PROVE  HubInv'
<1>1. /\ UNCHANGED <<channel, writing, sent, pubVars, stopping, history>>
      /\ conn[s] = "open" /\ conn' = [conn EXCEPT ![s] = "streaming"]
      /\ subscribed' = subscribed \cup {s} /\ open' = open \cup {s}
  BY DEF Subscribe
<1>2. channel[s] = <<>> /\ accepted[s] = <<>>
      /\ \A e \in Events : s \notin visited[e] /\ s \notin atStart[e]
  BY <1>1 DEF HubInv, SubscribedInv
<1>3. TypeOK'
  BY <1>1 DEF HubInv, TypeOK, pubVars, history
<1>4. SubscribedInv'
  BY <1>1 DEF HubInv, TypeOK, SubscribedInv, pubVars, history
<1>5. AcceptedInv'
  BY <1>1, <1>2 DEF HubInv, AcceptedInv, IsAccepted, Wanted, pubVars, history
<1>6. ChannelsInv'
  <2>1. Suffix(s)'
    BY <1>1, <1>2 DEF Suffix, history
  <2> QED
    BY <1>1, <2>1, SuffixSame DEF HubInv, ChannelsInv, history
<1>7. LinesInv'
  BY <1>1, OrderedSame DEF HubInv, LinesInv, history
<1>8. BeforeInv'
  BY <1>1 DEF HubInv, BeforeInv, pubVars, history
<1> QED
  BY <1>3, <1>4, <1>5, <1>6, <1>7, <1>8 DEF HubInv

(* The host stops and disposes of the hub, or nothing happens.             *)
LEMMA StopKeeps ==
    ASSUME HubInv, Stop \/ DisposeHub \/ UNCHANGED vars
    PROVE  HubInv'
<1>1. /\ UNCHANGED <<conn, channel, writing, sent, pubVars, history>>
      /\ subscribed' = open' /\ subscribed' \subseteq subscribed
      /\ stopping' \in BOOLEAN
  BY DEF Stop, DisposeHub, vars, connVars, HubInv, TypeOK, SubscribedInv
<1>2. TypeOK'
  BY <1>1 DEF HubInv, TypeOK, pubVars, history
<1>3. SubscribedInv'
  BY <1>1 DEF HubInv, SubscribedInv, pubVars, history
<1>4. AcceptedInv' /\ BeforeInv'
  BY <1>1 DEF HubInv, AcceptedInv, SubscribedInv, BeforeInv, IsAccepted, Wanted, pubVars, history
<1>5. ChannelsInv' /\ LinesInv'
  BY <1>1, LinesApart DEF LineVars, history, HubInv, SubscribedInv
<1> QED
  BY <1>2, <1>3, <1>4, <1>5 DEF HubInv

(* The client's side of a line: reading, sending, closing.                 *)
LEMMA TailFacts ==
    ASSUME NEW S, NEW q \in Seq(S), q # <<>>
    PROVE  /\ Tail(q) \in Seq(S) /\ Head(q) \in S /\ Head(q) = q[1]
           /\ Len(q) \in Nat /\ Len(q) >= 1 /\ Len(Tail(q)) = Len(q) - 1
           /\ \A k \in 1..Len(Tail(q)) : Tail(q)[k] = q[k + 1] /\ k + 1 \in 1..Len(q)
OBVIOUS

(* What the types say of one line.                                         *)
LEMMA LineTypes ==
    ASSUME TypeOK, NEW s \in Conns
    PROVE  /\ channel[s] \in Seq(Events) /\ Len(channel[s]) \in Nat
           /\ accepted[s] \in Seq(Events) /\ Len(accepted[s]) \in Nat
           /\ sent[s] \in Seq(Events) /\ Len(sent[s]) \in Nat
           /\ \A n \in 1..Len(accepted[s]) : accepted[s][n] \in Events /\ accepted[s][n] # NoEvent
           /\ Capacity \in Nat /\ Capacity >= 1 /\ Len(channel[s]) <= Capacity
<1>1. channel[s] \in Seq(Events) /\ accepted[s] \in Seq(Events) /\ sent[s] \in Seq(Events)
      /\ Len(channel[s]) <= Capacity
  BY DEF TypeOK
<1> QED
  BY <1>1, EventsAssumption, CapacityAssumption

(* The other connections' lines, and the publications, stay as they are.   *)
LEMMA ClientStepKeeps ==
    ASSUME HubInv, NEW s \in Conns, conn[s] \notin {"none", "open"},
           UNCHANGED <<connVars, pubVars, stopping, history>>,
           TypeOK',
           \A x \in Conns \ {s} : /\ channel'[x] = channel[x] /\ writing'[x] = writing[x]
                                  /\ sent'[x] = sent[x],
           s \in open => Suffix(s)', Ordered(s)'
    PROVE  HubInv'
<1>1. SubscribedInv'
  BY DEF HubInv, SubscribedInv, connVars, pubVars, history
<1>2. AcceptedInv' /\ BeforeInv'
  BY DEF HubInv, AcceptedInv, BeforeInv, IsAccepted, Wanted, connVars, pubVars, history
<1>3. ChannelsInv'
  BY SuffixSame DEF HubInv, TypeOK, ChannelsInv, connVars, history
<1>4. LinesInv'
  BY OrderedSame DEF HubInv, LinesInv, history
<1> QED
  BY <1>1, <1>2, <1>3, <1>4 DEF HubInv

(* Stream reads the oldest event of its channel.                           *)
LEMMA ReadKeeps ==
    ASSUME HubInv, NEW s \in Conns, ReadEvent(s)
    PROVE  HubInv'
<1> DEFINE c == channel[s]
           t == Tail(channel[s])
           a == accepted[s]
           d == sent[s]
<1>1. /\ conn[s] = "streaming" /\ writing[s] = NoEvent /\ c # <<>>
      /\ writing' = [writing EXCEPT ![s] = Head(c)]
      /\ channel' = [channel EXCEPT ![s] = t]
      /\ UNCHANGED <<connVars, sent, pubVars, stopping, history>>
  BY DEF ReadEvent
<1>2. /\ c \in Seq(Events) /\ Len(c) \in Nat /\ a \in Seq(Events) /\ Len(a) \in Nat
      /\ \A n \in 1..Len(a) : a[n] \in Events /\ a[n] # NoEvent
      /\ Len(d) \in Nat /\ Len(c) <= Capacity /\ Capacity \in Nat
  BY LineTypes DEF HubInv
<1>3. /\ t \in Seq(Events) /\ Head(c) \in Events /\ Head(c) = c[1]
      /\ Len(c) >= 1 /\ Len(t) = Len(c) - 1
      /\ \A k \in 1..Len(t) : t[k] = c[k + 1] /\ k + 1 \in 1..Len(c)
  BY <1>1, <1>2, TailFacts
<1>4. /\ channel'[s] = t /\ writing'[s] = c[1] /\ sent'[s] = d /\ accepted'[s] = a
      /\ \A x \in Conns \ {s} : /\ channel'[x] = channel[x] /\ writing'[x] = writing[x]
                                /\ sent'[x] = sent[x]
  BY <1>1, <1>3 DEF HubInv, TypeOK, history
<1>5. TypeOK'
  <2>1. Len(t) <= Capacity
    BY <1>2, <1>3
  <2> HIDE DEF c, t
  <2> QED
    BY <1>1, <1>3, <2>1 DEF HubInv, TypeOK, connVars, pubVars, history
<1>6. ASSUME s \in open PROVE Suffix(s)'
  <2>1. /\ Len(c) <= Len(a)
        /\ \A k \in 1..Len(c) : c[k] = a[Len(a) - Len(c) + k]
        /\ \A n \in 1..Len(a) - Len(c) :
              (\E k \in 1..Len(d) : d[k] = a[n]) \/ writing[s] = a[n] \/ PushedOut(s, n)
    BY <1>6 DEF HubInv, ChannelsInv, Suffix
  <2>2. \A n : PushedOut(s, n)' <=> PushedOut(s, n)
    BY <1>4 DEF PushedOut
  <2> HIDE DEF c, t, a, d
  <2>3. /\ Len(t) <= Len(a)
        /\ \A k \in 1..Len(t) : t[k] = a[Len(a) - Len(t) + k]
    BY <1>2, <1>3, <2>1
  <2>4. ASSUME NEW n \in 1..Len(a) - Len(t)
        PROVE  \/ \E k \in 1..Len(d) : d[k] = a[n]
               \/ writing'[s] = a[n]
               \/ PushedOut(s, n)'
    <3>1. CASE n \in 1..Len(a) - Len(c)
      <4>1. n \in 1..Len(a)
        BY <1>2, <3>1
      <4>2. writing[s] # a[n]
        BY <1>1, <1>2, <4>1
      <4> QED
        BY <2>1, <2>2, <3>1, <4>2
    <3>2. CASE n = Len(a) - Len(c) + 1
      <4>1. c[1] = a[n]
        BY <1>2, <1>3, <2>1, <3>2
      <4> QED
        BY <1>4, <4>1
    <3> DEFINE i == Len(a)
               j == Len(c)
    <3>3. i \in Nat /\ j \in Nat /\ Len(t) = j - 1 /\ j <= i /\ n \in 1..i - Len(t)
      BY <1>2, <1>3, <2>1
    <3> HIDE DEF i, j
    <3>4. n \in 1..i - j \/ n = i - j + 1
      BY <3>3
    <3> QED
      BY <3>1, <3>2, <3>4 DEF i, j
  <2> QED
    BY <1>4, <2>3, <2>4 DEF Suffix
<1>7. Ordered(s)'
  <2>1. Ordered(s)
    BY DEF HubInv, LinesInv
  <2>2. \A e : IsAccepted(e, s)' <=> IsAccepted(e, s)
    BY <1>4 DEF IsAccepted
  <2>3. \A x, y : Earlier(s, x, y)' <=> Earlier(s, x, y)
    BY <1>4 DEF Earlier
  <2>4. /\ \A k \in 1..Len(d) : IsAccepted(d[k], s)
        /\ \A k \in 1..Len(c) : IsAccepted(c[k], s)
        /\ \A m, n \in 1..Len(d) : m < n => Earlier(s, d[m], d[n])
        /\ \A m, n \in 1..Len(c) : m < n => Earlier(s, c[m], c[n])
        /\ \A m \in 1..Len(d), n \in 1..Len(c) : Earlier(s, d[m], c[n])
    BY <2>1 DEF Ordered
  <2> HIDE DEF c, t, a, d
  <2>5. /\ \A k \in 1..Len(t) : IsAccepted(t[k], s)
        /\ IsAccepted(c[1], s)
        /\ \A m, n \in 1..Len(t) : m < n => Earlier(s, t[m], t[n])
        /\ \A m \in 1..Len(d), n \in 1..Len(t) : Earlier(s, d[m], t[n])
        /\ \A m \in 1..Len(d) : Earlier(s, d[m], c[1])
        /\ \A n \in 1..Len(t) : Earlier(s, c[1], t[n])
    <3>1. 1 \in 1..Len(c)
      BY <1>2, <1>3
    <3>2. \A m, n \in 1..Len(t) : m < n => m + 1 < n + 1
      OBVIOUS
    <3>3. \A n \in 1..Len(t) : 1 < n + 1
      OBVIOUS
    <3> QED
      BY <1>3, <2>4, <3>1, <3>2, <3>3
  <2> QED
    BY <1>4, <2>2, <2>3, <2>4, <2>5 DEF Ordered
<1> QED
  BY <1>1, <1>4, <1>5, <1>6, <1>7, ClientStepKeeps

(* Stream writes the event it has read to its client.                      *)
LEMMA SendKeeps ==
    ASSUME HubInv, NEW s \in Conns, SendFrame(s)
    PROVE  HubInv'
<1> DEFINE c == channel[s]
           a == accepted[s]
           d == sent[s]
           w == writing[s]
           d2 == Append(sent[s], writing[s])
<1>1. /\ conn[s] = "streaming" /\ w # NoEvent
      /\ sent' = [sent EXCEPT ![s] = Append(@, writing[s])]
      /\ writing' = [writing EXCEPT ![s] = NoEvent]
      /\ UNCHANGED <<connVars, channel, pubVars, stopping, history>>
  BY DEF SendFrame
<1>2. w \in Events /\ d \in Seq(Events) /\ Len(d) \in Nat
  BY <1>1, LineTypes DEF HubInv, TypeOK
<1>3. /\ d2 \in Seq(Events) /\ Len(d2) = Len(d) + 1 /\ d2[Len(d) + 1] = w
      /\ \A k \in 1..Len(d) : d2[k] = d[k]
  <2> HIDE DEF d, w
  <2> QED
    BY <1>2 DEF d, w
<1>4. /\ channel'[s] = c /\ writing'[s] = NoEvent /\ sent'[s] = d2 /\ accepted'[s] = a
      /\ \A x \in Conns \ {s} : /\ channel'[x] = channel[x] /\ writing'[x] = writing[x]
                                /\ sent'[x] = sent[x]
  BY <1>1 DEF HubInv, TypeOK, history
<1>5. TypeOK'
  <2>1. sent' = [sent EXCEPT ![s] = d2]
    BY <1>1
  <2> HIDE DEF d2
  <2> QED
    BY <1>1, <1>3, <2>1 DEF HubInv, TypeOK, connVars, pubVars, history
<1>6. ASSUME s \in open PROVE Suffix(s)'
  <2>1. /\ Len(c) <= Len(a)
        /\ \A k \in 1..Len(c) : c[k] = a[Len(a) - Len(c) + k]
        /\ \A n \in 1..Len(a) - Len(c) :
              (\E k \in 1..Len(d) : d[k] = a[n]) \/ w = a[n] \/ PushedOut(s, n)
    BY <1>6 DEF HubInv, ChannelsInv, Suffix
  <2>2. \A n : PushedOut(s, n)' <=> PushedOut(s, n)
    BY <1>4 DEF PushedOut
  <2> HIDE DEF c, a, d, w, d2
  <2>3. \A k \in 1..Len(d) : k \in 1..Len(d2)
    BY <1>2, <1>3
  <2>4. Len(d) + 1 \in 1..Len(d2)
    BY <1>2, <1>3
  <2>5. \A n \in 1..Len(a) - Len(c) :
           (\E k \in 1..Len(d2) : d2[k] = a[n]) \/ PushedOut(s, n)'
    BY <1>3, <2>1, <2>2, <2>3, <2>4
  <2> QED
    BY <1>4, <2>1, <2>5 DEF Suffix
<1>7. Ordered(s)'
  <2>1. Ordered(s)
    BY DEF HubInv, LinesInv
  <2>2. \A e : IsAccepted(e, s)' <=> IsAccepted(e, s)
    BY <1>4 DEF IsAccepted
  <2>3. \A x, y : Earlier(s, x, y)' <=> Earlier(s, x, y)
    BY <1>4 DEF Earlier
  <2>4. /\ \A k \in 1..Len(d) : IsAccepted(d[k], s)
        /\ \A k \in 1..Len(c) : IsAccepted(c[k], s)
        /\ IsAccepted(w, s)
        /\ \A m, n \in 1..Len(d) : m < n => Earlier(s, d[m], d[n])
        /\ \A m, n \in 1..Len(c) : m < n => Earlier(s, c[m], c[n])
        /\ \A m \in 1..Len(d), n \in 1..Len(c) : Earlier(s, d[m], c[n])
        /\ \A m \in 1..Len(d) : Earlier(s, d[m], w)
        /\ \A n \in 1..Len(c) : Earlier(s, w, c[n])
    BY <1>1, <2>1 DEF Ordered
  <2> HIDE DEF c, a, d, w, d2
  <2>5. \A k \in 1..Len(d2) : k \in 1..Len(d) \/ k = Len(d) + 1
    BY <1>2, <1>3
  <2>6. /\ \A k \in 1..Len(d2) : IsAccepted(d2[k], s)
        /\ \A m \in 1..Len(d2), n \in 1..Len(c) : Earlier(s, d2[m], c[n])
    BY <1>3, <2>4, <2>5
  <2>7. ASSUME NEW m \in 1..Len(d2), NEW n \in 1..Len(d2), m < n
        PROVE  Earlier(s, d2[m], d2[n])
    <3>1. m \in 1..Len(d)
      BY <1>2, <1>3, <2>7
    <3> QED
      BY <1>3, <2>4, <2>5, <2>7, <3>1
  <2> QED
    BY <1>4, <2>2, <2>3, <2>4, <2>6, <2>7 DEF Ordered
<1> QED
  BY <1>1, <1>4, <1>5, <1>6, <1>7, ClientStepKeeps

(* The finally block unsubscribes; what was not sent is dropped.           *)
LEMMA CloseKeeps ==
    ASSUME HubInv, NEW s \in Conns, Close(s)
    PROVE  HubInv'
<1>1. /\ conn[s] = "leaving" /\ conn' = [conn EXCEPT ![s] = "closed"]
      /\ subscribed' = subscribed \ {s} /\ open' = open \ {s}
      /\ channel' = [channel EXCEPT ![s] = <<>>]
      /\ writing' = [writing EXCEPT ![s] = NoEvent]
      /\ UNCHANGED <<sent, pubVars, stopping, history>>
  BY DEF Close, Unsubscribe
<1>2. TypeOK'
  <2>1. <<>> \in Seq(Events) /\ Len(<<>>) <= Capacity
    BY CapacityAssumption
  <2> QED
    BY <1>1, <2>1 DEF HubInv, TypeOK, pubVars, history
<1>3. SubscribedInv'
  BY <1>1 DEF HubInv, TypeOK, SubscribedInv, pubVars, history
<1>4. AcceptedInv' /\ BeforeInv'
  BY <1>1 DEF HubInv, AcceptedInv, BeforeInv, IsAccepted, Wanted, pubVars, history
<1>5. \A x \in Conns \ {s} : /\ channel'[x] = channel[x] /\ writing'[x] = writing[x]
                             /\ sent'[x] = sent[x] /\ accepted'[x] = accepted[x]
  BY <1>1 DEF HubInv, TypeOK, history
<1>6. ChannelsInv'
  BY <1>1, <1>5, SuffixSame DEF HubInv, TypeOK, ChannelsInv
<1>7. LinesInv'
  <2>1. channel'[s] = <<>> /\ writing'[s] = NoEvent /\ sent'[s] = sent[s] /\ accepted'[s] = accepted[s]
    BY <1>1 DEF HubInv, TypeOK, history
  <2>2. /\ \A k \in 1..Len(sent[s]) : IsAccepted(sent[s][k], s)
        /\ \A m, n \in 1..Len(sent[s]) : m < n => Earlier(s, sent[s][m], sent[s][n])
    BY DEF HubInv, LinesInv, Ordered
  <2>3. \A e : IsAccepted(e, s)' <=> IsAccepted(e, s)
    BY <2>1 DEF IsAccepted
  <2>4. \A x, y : Earlier(s, x, y)' <=> Earlier(s, x, y)
    BY <2>1 DEF Earlier
  <2>5. Ordered(s)'
    BY <2>1, <2>2, <2>3, <2>4 DEF Ordered
  <2> QED
    BY <1>5, <2>5, OrderedSame DEF HubInv, LinesInv
<1> QED
  BY <1>2, <1>3, <1>4, <1>6, <1>7 DEF HubInv

(* The beginning and the end of a publication.                             *)
LEMMA BeginKeeps ==
    ASSUME HubInv, NEW e \in Events, PublishBegin(e)
    PROVE  HubInv'
<1>1. /\ pub[e] = "none" /\ pub' = [pub EXCEPT ![e] = "publishing"]
      /\ atStart' = [atStart EXCEPT ![e] = subscribed]
      /\ before' = [before EXCEPT ![e] = {f \in Events : pub[f] = "published"}]
      /\ UNCHANGED <<connVars, channel, writing, sent, visited, stopping, accepted>>
  BY DEF PublishBegin
<1>2. TypeOK'
  <2>1. {f \in Events : pub[f] = "published"} \in SUBSET Events /\ subscribed \in SUBSET Conns
    BY DEF HubInv, TypeOK
  <2> QED
    BY <1>1, <2>1 DEF HubInv, TypeOK, connVars
<1>3. visited[e] = {}
  BY <1>1 DEF HubInv, SubscribedInv
<1>4. SubscribedInv'
  BY <1>1, <1>3 DEF HubInv, TypeOK, SubscribedInv, connVars
<1>5. \A s \in Conns : \A n \in 1..Len(accepted[s]) :
         accepted[s][n] # e /\ accepted[s][n] \in Events
  BY <1>1, LineTypes DEF HubInv, AcceptedInv
<1>6. AcceptedInv'
  <2>1. \A f \in Events : f # e => pub'[f] = pub[f] /\ atStart'[f] = atStart[f]
    BY <1>1 DEF HubInv, TypeOK
  <2>2. pub'[e] = "publishing"
    BY <1>1 DEF HubInv, TypeOK
  <2>3. \A f \in Events, s \in Conns :
           /\ s \in open /\ Wanted(f, s)
           /\ \/ pub'[f] = "publishing" /\ s \in visited[f]
              \/ pub'[f] = "published" /\ s \in atStart'[f]
           => IsAccepted(f, s)
    BY <1>3, <2>1, <2>2 DEF HubInv, AcceptedInv
  <2> QED
    BY <1>1, <1>5, <2>1, <2>3 DEF HubInv, AcceptedInv, IsAccepted, Wanted, connVars
<1>7. BeforeInv'
  <2>1. \A f \in Events : f # e => pub'[f] = pub[f] /\ before'[f] = before[f]
    BY <1>1 DEF HubInv, TypeOK
  <2>2. pub'[e] = "publishing" /\ before'[e] = {f \in Events : pub[f] = "published"}
    BY <1>1 DEF HubInv, TypeOK
  <2>3. \A x, f \in Events : f \in before'[x] => pub'[f] = "published" /\ pub'[x] # "none" /\ f # x
    BY <1>1, <2>1, <2>2 DEF HubInv, BeforeInv
  <2>4. \A s \in Conns : \A m, n \in 1..Len(accepted[s]) :
           accepted[s][m] \in before'[accepted[s][n]] => m < n
    BY <1>5, <2>1 DEF HubInv, BeforeInv
  <2> QED
    BY <1>1, <2>3, <2>4 DEF BeforeInv
<1>8. ChannelsInv' /\ LinesInv'
  BY <1>1, LinesApart DEF LineVars, connVars
<1> QED
  BY <1>2, <1>4, <1>6, <1>7, <1>8 DEF HubInv

(* A publication ends: every subscriber that stayed was passed.            *)
LEMMA EndKeeps ==
    ASSUME HubInv, NEW e \in Events, PublishEnd(e)
    PROVE  HubInv'
<1>1. /\ pub[e] = "publishing" /\ atStart[e] \cap subscribed \subseteq visited[e]
      /\ pub' = [pub EXCEPT ![e] = "published"]
      /\ visited' = [visited EXCEPT ![e] = {}]
      /\ UNCHANGED <<connVars, channel, writing, sent, atStart, stopping, history>>
  BY DEF PublishEnd
<1>2. TypeOK'
  BY <1>1 DEF HubInv, TypeOK, connVars, history
<1>3. SubscribedInv'
  BY <1>1 DEF HubInv, TypeOK, SubscribedInv, connVars, history
<1>4. /\ pub'[e] = "published" /\ visited'[e] = {}
      /\ \A f \in Events : f # e => pub'[f] = pub[f] /\ visited'[f] = visited[f]
  BY <1>1 DEF HubInv, TypeOK
<1>5. AcceptedInv'
  <2>1. \A s \in Conns : \A n \in 1..Len(accepted[s]) : accepted[s][n] \in Events
    BY LineTypes DEF HubInv
  <2>2. \A f \in Events, s \in Conns :
           /\ s \in open /\ Wanted(f, s)
           /\ \/ pub'[f] = "publishing" /\ s \in visited'[f]
              \/ pub'[f] = "published" /\ s \in atStart[f]
           => IsAccepted(f, s)
    BY <1>1, <1>4 DEF HubInv, AcceptedInv, SubscribedInv
  <2> QED
    BY <1>1, <1>4, <2>1, <2>2 DEF HubInv, AcceptedInv, IsAccepted, Wanted, connVars, history
<1>6. BeforeInv'
  BY <1>1, <1>4 DEF HubInv, BeforeInv, history
<1>7. ChannelsInv' /\ LinesInv'
  BY <1>1, LinesApart DEF LineVars, connVars, history
<1> QED
  BY <1>2, <1>3, <1>5, <1>6, <1>7 DEF HubInv

(* A subscriber that the enumeration passes without a write: it is not     *)
(* wanted there, for no subscriber's channel is completed.                 *)
LEMMA SkipKeeps ==
    ASSUME HubInv, NEW e \in Events, NEW s \in Conns,
           pub[e] = "publishing", s \in subscribed \ visited[e], ~Passes(e, s),
           visited' = [visited EXCEPT ![e] = @ \cup {s}],
           UNCHANGED <<connVars, channel, writing, sent, pub, atStart, stopping, history>>
    PROVE  HubInv'
<1>1. TypeOK'
  BY DEF HubInv, TypeOK, connVars, history
<1>2. SubscribedInv'
  BY DEF HubInv, TypeOK, SubscribedInv, connVars, history
<1>3. ~Wanted(e, s)
  BY DEF Wanted, Passes
<1>4. \A f \in Events, x \in Conns : x \in visited'[f] <=> x \in visited[f] \/ (f = e /\ x = s)
  BY DEF HubInv, TypeOK
<1>5. AcceptedInv'
  <2>1. \A x \in Conns : \A n \in 1..Len(accepted[x]) : accepted[x][n] \in Events
    BY LineTypes DEF HubInv
  <2> QED
    BY <1>3, <1>4, <2>1 DEF HubInv, AcceptedInv, IsAccepted, Wanted, connVars, history
<1>6. BeforeInv'
  BY DEF HubInv, BeforeInv, history
<1>7. ChannelsInv' /\ LinesInv'
  BY LinesApart DEF LineVars, connVars, history
<1> QED
  BY <1>1, <1>2, <1>5, <1>6, <1>7 DEF HubInv

(* A write to a channel, which drops its oldest event when it is full.     *)
LEMMA AppendFacts ==
    ASSUME NEW S, NEW q \in Seq(S), NEW e \in S
    PROVE  /\ Append(q, e) \in Seq(S) /\ Len(q) \in Nat /\ Len(Append(q, e)) = Len(q) + 1
           /\ \A k \in 1..Len(q) : Append(q, e)[k] = q[k]
           /\ Append(q, e)[Len(q) + 1] = e
           /\ \A k \in 1..Len(Append(q, e)) : k \in 1..Len(q) \/ k = Len(q) + 1
OBVIOUS

(* A subscriber that wants the event gets it at the end of its channel, at *)
(* the cost of the oldest when it is full.                                 *)
LEMMA WriteKeeps ==
    ASSUME HubInv, NEW e \in Events, NEW s \in Conns,
           pub[e] = "publishing", s \in open \ visited[e], Passes(e, s),
           visited' = [visited EXCEPT ![e] = @ \cup {s}],
           channel' = [channel EXCEPT ![s] = Kept(s, e)],
           accepted' = [accepted EXCEPT ![s] = Append(@, e)],
           UNCHANGED <<connVars, writing, sent, pub, atStart, stopping, before>>
    PROVE  HubInv'
<1> DEFINE c == channel[s]
           t == IF Full(s) THEN Tail(channel[s]) ELSE channel[s]
           c2 == Append(t, e)
           a == accepted[s]
           a2 == Append(accepted[s], e)
           d == sent[s]
           w == writing[s]
<1>1. /\ c \in Seq(Events) /\ Len(c) \in Nat /\ a \in Seq(Events) /\ Len(a) \in Nat
      /\ \A n \in 1..Len(a) : a[n] \in Events /\ a[n] # NoEvent
      /\ Len(d) \in Nat /\ Len(c) <= Capacity /\ Capacity \in Nat /\ Capacity >= 1
  BY LineTypes DEF HubInv
<1>2. /\ a2 \in Seq(Events) /\ Len(a2) = Len(a) + 1 /\ a2[Len(a) + 1] = e
      /\ \A k \in 1..Len(a) : a2[k] = a[k]
      /\ \A k \in 1..Len(a2) : k \in 1..Len(a) \/ k = Len(a) + 1
  BY <1>1, AppendFacts
<1>3. /\ t \in Seq(Events) /\ Len(t) \in Nat
      /\ Len(t) = IF Full(s) THEN Len(c) - 1 ELSE Len(c)
      /\ \A k \in 1..Len(t) : t[k] = c[Len(c) - Len(t) + k] /\ Len(c) - Len(t) + k \in 1..Len(c)
      /\ Full(s) => Len(c) = Capacity
      /\ Len(t) < Capacity
  <2>1. CASE Full(s)
    <3>1. Len(c) = Capacity /\ c # <<>> /\ t = Tail(c)
      BY <1>1, <2>1 DEF Full
    <3>2. /\ Tail(c) \in Seq(Events) /\ Len(Tail(c)) = Len(c) - 1
          /\ \A k \in 1..Len(Tail(c)) : Tail(c)[k] = c[k + 1] /\ k + 1 \in 1..Len(c)
      BY <1>1, <3>1, TailFacts
    <3> HIDE DEF c, t
    <3>3. Len(c) - Len(t) = 1 /\ \A k \in 1..Len(t) : 1 + k = k + 1
      BY <1>1, <3>1, <3>2
    <3> QED
      BY <1>1, <2>1, <3>1, <3>2, <3>3
  <2>2. CASE ~Full(s)
    <3>1. t = c /\ Len(c) # Capacity
      BY <2>2 DEF Full
    <3> HIDE DEF c, t
    <3> QED
      BY <1>1, <2>2, <3>1
  <2> QED
    BY <2>1, <2>2
<1>4. /\ c2 \in Seq(Events) /\ Len(c2) = Len(t) + 1 /\ c2[Len(t) + 1] = e
      /\ \A k \in 1..Len(t) : c2[k] = t[k]
      /\ \A k \in 1..Len(c2) : k \in 1..Len(t) \/ k = Len(t) + 1
  <2> HIDE DEF t
  <2> QED
    BY <1>3, AppendFacts
<1>5. /\ channel'[s] = c2 /\ accepted'[s] = a2 /\ writing'[s] = w /\ sent'[s] = d
      /\ channel' = [channel EXCEPT ![s] = c2] /\ accepted' = [accepted EXCEPT ![s] = a2]
      /\ \A x \in Conns \ {s} : /\ channel'[x] = channel[x] /\ accepted'[x] = accepted[x]
                                /\ writing'[x] = writing[x] /\ sent'[x] = sent[x]
  BY DEF HubInv, TypeOK, Kept
<1>6. \A f \in Events, x \in Conns : x \in visited'[f] <=> x \in visited[f] \/ (f = e /\ x = s)
  BY DEF HubInv, TypeOK
<1>7. \A n \in 1..Len(a) : a[n] # e
  BY DEF HubInv, AcceptedInv
<1> DEFINE Accepted2(x) == \E n \in 1..Len(a2) : a2[n] = x
           Earlier2(x, y) == \E p, q \in 1..Len(a2) : p < q /\ a2[p] = x /\ a2[q] = y
<1>8. /\ \A x : IsAccepted(x, s)' <=> Accepted2(x)
      /\ \A x, y : Earlier(s, x, y)' <=> Earlier2(x, y)
  <2> HIDE DEF a2
  <2> QED
    BY <1>5 DEF IsAccepted, Earlier
<1>81. /\ \A x : IsAccepted(x, s) => Accepted2(x)
       /\ Accepted2(e)
       /\ \A x, y : Earlier(s, x, y) => Earlier2(x, y)
       /\ \A x : IsAccepted(x, s) => Earlier2(x, e)
  <2> HIDE DEF a, a2
  <2>1. \A k \in 1..Len(a) : k \in 1..Len(a2) /\ k < Len(a) + 1
    BY <1>1, <1>2
  <2>2. Len(a) + 1 \in 1..Len(a2)
    BY <1>1, <1>2
  <2>3. \A f : IsAccepted(f, s) <=> \E n \in 1..Len(a) : a[n] = f
    BY DEF IsAccepted, a
  <2>4. \A x, y : Earlier(s, x, y) <=> \E p, q \in 1..Len(a) : p < q /\ a[p] = x /\ a[q] = y
    BY DEF Earlier, a
  <2> QED
    BY <1>2, <2>1, <2>2, <2>3, <2>4
(* The lengths, as numbers.                                                *)
<1> DEFINE la == Len(a)
           lc == Len(c)
           lt == Len(t)
<1>82. /\ la \in Nat /\ lc \in Nat /\ lt \in Nat /\ Len(a2) = la + 1 /\ Len(c2) = lt + 1
       /\ lt = lc \/ (lt = lc - 1 /\ lc = Capacity)
       /\ Capacity \in Nat
  BY <1>1, <1>2, <1>3, <1>4
<1> HIDE DEF Accepted2, Earlier2, la, lc, lt
<1>9. TypeOK'
  <2>1. Len(c2) <= Capacity
    BY <1>1, <1>3, <1>4
  <2> HIDE DEF c2, a2
  <2>2. channel' \in [Conns -> Seq(Events)] /\ accepted' \in [Conns -> Seq(Events)]
    BY <1>2, <1>4, <1>5 DEF HubInv, TypeOK
  <2>3. \A x \in Conns : Len(channel'[x]) <= Capacity
    BY <1>5, <2>1 DEF HubInv, TypeOK
  <2>4. visited' \in [Events -> SUBSET Conns]
    BY DEF HubInv, TypeOK
  <2> QED
    BY <2>2, <2>3, <2>4 DEF HubInv, TypeOK, connVars
<1>10. SubscribedInv'
  <2>1. conn[s] \notin {"none", "open"}
    BY DEF HubInv, SubscribedInv
  <2>2. \A x \in Conns : conn[x] \in {"none", "open"} =>
          /\ x \notin subscribed /\ writing[x] = NoEvent
          /\ channel'[x] = <<>> /\ sent[x] = <<>> /\ accepted'[x] = <<>>
    BY <1>5, <2>1 DEF HubInv, SubscribedInv
  <2>3. \A f \in Events : pub[f] # "publishing" => visited'[f] = {}
    BY DEF HubInv, TypeOK, SubscribedInv
  <2> QED
    BY <1>6, <2>1, <2>2, <2>3 DEF HubInv, SubscribedInv, connVars
<1>11. AcceptedInv'
  <2>1. Wanted(e, s)
    BY DEF Wanted, Passes
  <2>2. ASSUME NEW n \in 1..Len(a2)
        PROVE  /\ Wanted(a2[n], s) /\ pub[a2[n]] # "none"
               /\ pub[a2[n]] = "publishing" => s \in visited'[a2[n]]
    <3>1. CASE n \in 1..Len(a)
      <4>1. a2[n] = a[n] /\ a[n] \in Events
        BY <1>1, <1>2, <3>1
      <4>2. /\ Wanted(a[n], s) /\ pub[a[n]] # "none"
            /\ pub[a[n]] = "publishing" => s \in visited[a[n]]
        BY <3>1 DEF HubInv, AcceptedInv
      <4> HIDE DEF a2, a
      <4> QED
        BY <1>6, <4>1, <4>2
    <3>2. CASE n = Len(a) + 1
      <4>1. a2[n] = e
        BY <1>2, <3>2
      <4> HIDE DEF a2, a
      <4> QED
        BY <1>6, <2>1, <4>1
    <3> HIDE DEF a2, a
    <3> QED
      BY <1>2, <3>1, <3>2
  <2>3. \A m, n \in 1..Len(a2) : a2[m] = a2[n] => m = n
    <3>1. \A m, n \in 1..Len(a) : a[m] = a[n] => m = n
      BY DEF HubInv, AcceptedInv
    <3> HIDE DEF a2, a
    <3> QED
      BY <1>2, <1>7, <3>1
  <2>4. \A x \in Conns \ {s} : \A n \in 1..Len(accepted[x]) : accepted[x][n] \in Events
    BY LineTypes DEF HubInv
  <2>5. ASSUME NEW x \in Conns
        PROVE  /\ \A n \in 1..Len(accepted'[x]) :
                     /\ Wanted(accepted'[x][n], x) /\ pub[accepted'[x][n]] # "none"
                     /\ pub[accepted'[x][n]] = "publishing" => x \in visited'[accepted'[x][n]]
               /\ \A m, n \in 1..Len(accepted'[x]) : accepted'[x][m] = accepted'[x][n] => m = n
    <3>1. CASE x = s
      <4>1. accepted'[s] = a2
        BY <1>5
      <4> HIDE DEF a2
      <4> QED
        BY <2>2, <2>3, <3>1, <4>1
    <3>2. CASE x # s
      <4>1. accepted'[x] = accepted[x]
        BY <1>5, <3>2
      <4> QED
        BY <1>6, <2>4, <3>2, <4>1 DEF HubInv, AcceptedInv
    <3> QED
      BY <3>1, <3>2
  <2>6. ASSUME NEW f \in Events, NEW x \in Conns, x \in open, Wanted(f, x),
               \/ pub[f] = "publishing" /\ x \in visited'[f]
               \/ pub[f] = "published" /\ x \in atStart[f]
        PROVE  IsAccepted(f, x)'
    <3>1. CASE f = e /\ x = s
      BY <1>8, <1>81, <3>1
    <3>2. CASE ~(f = e /\ x = s)
      <4>1. IsAccepted(f, x)
        BY <1>6, <2>6, <3>2 DEF HubInv, AcceptedInv
      <4>2. CASE x = s
        BY <1>8, <1>81, <4>1, <4>2
      <4>3. CASE x # s
        BY <1>5, <4>1, <4>3 DEF IsAccepted
      <4> QED
        BY <4>2, <4>3
    <3> QED
      BY <3>1, <3>2
  <2>7. \A f, x : Wanted(f, x)' <=> Wanted(f, x)
    BY DEF Wanted
  <2> QED
    BY <2>5, <2>6, <2>7 DEF AcceptedInv, connVars
<1>12. ChannelsInv'
  <2>1. Suffix(s)
    BY DEF HubInv, ChannelsInv
  <2>2. /\ Len(c) <= Len(a)
        /\ \A k \in 1..Len(c) : c[k] = a[Len(a) - Len(c) + k]
        /\ \A n \in 1..Len(a) - Len(c) :
              (\E k \in 1..Len(d) : d[k] = a[n]) \/ w = a[n] \/ n + Capacity <= Len(a)
    BY <2>1 DEF Suffix, PushedOut
  <2> HIDE DEF c, t, c2, a, a2, d, w
  <2>3. Len(c2) <= Len(a2)
    BY <1>1, <1>2, <1>3, <1>4, <2>2
  <2>4. ASSUME NEW k \in 1..Len(c2)
        PROVE  c2[k] = a2[Len(a2) - Len(c2) + k]
    <3>1. CASE k \in 1..Len(t)
      <4> DEFINE i == Len(c) - Len(t) + k
      <4>1. c2[k] = c[i] /\ i \in 1..Len(c)
        BY <1>3, <1>4, <3>1
      <4>2. c[i] = a[Len(a) - Len(c) + i] /\ Len(a) - Len(c) + i \in 1..Len(a)
        BY <1>1, <2>2, <4>1
      <4>3. Len(a) - Len(c) + i = Len(a2) - Len(c2) + k
        BY <1>1, <1>2, <1>3, <1>4
      <4> HIDE DEF i
      <4> QED
        BY <1>2, <4>1, <4>2, <4>3
    <3>2. CASE k = Len(t) + 1
      <4>1. Len(a2) - Len(c2) + k = Len(a) + 1
        BY <1>82, <3>2 DEF la, lt
      <4> QED
        BY <1>2, <1>4, <3>2, <4>1
    <3> QED
      BY <1>4, <3>1, <3>2
  <2>5. ASSUME NEW n \in 1..Len(a2) - Len(c2)
        PROVE  (\E k \in 1..Len(d) : d[k] = a2[n]) \/ w = a2[n] \/ n + Capacity <= Len(a2)
    <3>1. n \in 1..Len(a) /\ a2[n] = a[n]
      <4>1. n \in 1..la
        BY <1>82
      <4> QED
        BY <1>2, <4>1 DEF la
    <3>2. CASE n \in 1..Len(a) - Len(c)
      <4>1. n + Capacity <= Len(a) => n + Capacity <= Len(a2)
        BY <1>1, <1>2, <3>1
      <4> QED
        BY <2>2, <3>1, <3>2, <4>1
    <3>3. CASE n \notin 1..Len(a) - Len(c)
      <4>1. n \notin 1..la - lc
        BY <3>3 DEF la, lc
      <4>2. n + Capacity <= Len(a2)
        BY <1>82, <4>1
      <4> QED
        BY <4>2
    <3> QED
      BY <3>2, <3>3
  <2>6. Suffix(s)'
    BY <1>5, <2>3, <2>4, <2>5 DEF Suffix, PushedOut
  <2> QED
    BY <1>5, <2>6, SuffixSame DEF HubInv, TypeOK, ChannelsInv, connVars
<1>13. LinesInv'
  <2>1. /\ \A k \in 1..Len(d) : IsAccepted(d[k], s)
        /\ \A k \in 1..Len(c) : IsAccepted(c[k], s)
        /\ w # NoEvent => IsAccepted(w, s)
        /\ \A m, n \in 1..Len(d) : m < n => Earlier(s, d[m], d[n])
        /\ \A m, n \in 1..Len(c) : m < n => Earlier(s, c[m], c[n])
        /\ \A m \in 1..Len(d), n \in 1..Len(c) : Earlier(s, d[m], c[n])
        /\ w # NoEvent =>
              /\ \A m \in 1..Len(d) : Earlier(s, d[m], w)
              /\ \A n \in 1..Len(c) : Earlier(s, w, c[n])
    BY DEF HubInv, LinesInv, Ordered
  <2> HIDE DEF c, t, c2, a, a2, d, w
  <2>2. /\ \A k \in 1..Len(t) : IsAccepted(t[k], s)
        /\ \A m \in 1..Len(d), n \in 1..Len(t) : Earlier(s, d[m], t[n])
        /\ w # NoEvent => \A n \in 1..Len(t) : Earlier(s, w, t[n])
    BY <1>3, <2>1
  <2>3. \A m, n \in 1..Len(t) : m < n => Earlier(s, t[m], t[n])
    <3> SUFFICES ASSUME NEW m \in 1..Len(t), NEW n \in 1..Len(t), m < n
                 PROVE  Earlier(s, t[m], t[n])
      OBVIOUS
    <3> DEFINE i == Len(c) - Len(t) + m
               j == Len(c) - Len(t) + n
    <3>1. i < j /\ i \in 1..Len(c) /\ j \in 1..Len(c) /\ t[m] = c[i] /\ t[n] = c[j]
      <4>1. i < j
        BY <1>82 DEF lc, lt
      <4> QED
        BY <1>3, <4>1
    <3> HIDE DEF i, j
    <3> QED
      BY <2>1, <3>1
  <2>4. /\ \A k \in 1..Len(c2) : Accepted2(c2[k])
        /\ \A m \in 1..Len(d), n \in 1..Len(c2) : Earlier2(d[m], c2[n])
        /\ w # NoEvent => \A n \in 1..Len(c2) : Earlier2(w, c2[n])
    <3>1. \A k \in 1..Len(c2) : c2[k] = e \/ (k \in 1..Len(t) /\ c2[k] = t[k])
      BY <1>4
    <3> QED
      BY <1>81, <2>1, <2>2, <3>1
  <2>5. ASSUME NEW m \in 1..Len(c2), NEW n \in 1..Len(c2), m < n
        PROVE  Earlier2(c2[m], c2[n])
    <3>1. m \in 1..Len(t) /\ c2[m] = t[m]
      <4>1. m \in 1..lt
        BY <1>82, <2>5
      <4> QED
        BY <1>4, <4>1 DEF lt
    <3>2. CASE n \in 1..Len(t)
      BY <1>4, <1>81, <2>3, <2>5, <3>1, <3>2
    <3>3. CASE n = Len(t) + 1
      BY <1>4, <1>81, <2>2, <3>1, <3>3
    <3> QED
      BY <1>4, <3>2, <3>3
  <2>6. /\ \A k \in 1..Len(d) : Accepted2(d[k])
        /\ w # NoEvent => Accepted2(w)
        /\ \A m, n \in 1..Len(d) : m < n => Earlier2(d[m], d[n])
        /\ w # NoEvent => \A m \in 1..Len(d) : Earlier2(d[m], w)
    BY <1>81, <2>1
  <2>7. Ordered(s)'
    BY <1>5, <1>8, <2>4, <2>5, <2>6 DEF Ordered
  <2> QED
    BY <1>5, <2>7, OrderedSame DEF HubInv, LinesInv
<1>14. BeforeInv'
  <2>1. \A f \in Events : e \notin before[f]
    BY DEF HubInv, BeforeInv
  <2>2. \A m, n \in 1..Len(a2) : a2[m] \in before[a2[n]] => m < n
    <3>1. \A m, n \in 1..Len(a) : a[m] \in before[a[n]] => m < n
      BY DEF HubInv, BeforeInv
    <3> HIDE DEF a, a2
    <3> SUFFICES ASSUME NEW m \in 1..Len(a2), NEW n \in 1..Len(a2), a2[m] \in before[a2[n]]
                 PROVE  m < n
      OBVIOUS
    <3>2. a2[n] \in Events
      BY <1>1, <1>2
    <3>3. m \in 1..Len(a)
      BY <1>2, <2>1, <3>2
    <3> QED
      BY <1>1, <1>2, <3>1, <3>3
  <2>3. ASSUME NEW x \in Conns
        PROVE  \A m, n \in 1..Len(accepted'[x]) :
                  accepted'[x][m] \in before[accepted'[x][n]] => m < n
    <3> HIDE DEF a, a2
    <3>1. CASE x = s
      BY <1>5, <2>2, <3>1
    <3>2. CASE x # s
      BY <1>5, <3>2 DEF HubInv, BeforeInv
    <3> QED
      BY <3>1, <3>2
  <2> QED
    BY <2>3 DEF HubInv, BeforeInv
<1> QED
  BY <1>9, <1>10, <1>11, <1>12, <1>13, <1>14 DEF HubInv

(* The enumeration passes one subscriber.                                  *)
LEMMA PublishToKeeps ==
    ASSUME HubInv, NEW e \in Events, NEW s \in Conns, PublishTo(e, s)
    PROVE  HubInv'
<1>1. subscribed = open
  BY DEF HubInv, SubscribedInv
<1>2. CASE Passes(e, s)
  BY <1>1, <1>2, WriteKeeps DEF PublishTo
<1>3. CASE ~Passes(e, s)
  BY <1>1, <1>3, SkipKeeps DEF PublishTo, history
<1> QED
  BY <1>2, <1>3

(* Every step of the hub, its connections and its publishers keeps the     *)
(* invariant (EventHub.cs, EventsController.cs).                           *)
THEOREM HubNext == HubInv /\ [Next]_vars => HubInv'
<1> SUFFICES ASSUME HubInv, [Next]_vars
             PROVE  HubInv'
  OBVIOUS
<1>1. ASSUME NEW s \in Conns, Connect(s) \/ Leave(s) \/ LeaveEarly(s)
      PROVE  HubInv'
  BY <1>1, ConnectionKeeps
<1>2. ASSUME NEW s \in Conns, Subscribe(s)
      PROVE  HubInv'
  BY <1>2, SubscribeKeeps
<1>3. ASSUME NEW s \in Conns, Drain(s)
      PROVE  HubInv'
  BY <1>3, ReadKeeps, SendKeeps DEF Drain
<1>4. ASSUME NEW s \in Conns, Close(s)
      PROVE  HubInv'
  BY <1>4, CloseKeeps
<1>5. ASSUME NEW e \in Events, PublishBegin(e)
      PROVE  HubInv'
  BY <1>5, BeginKeeps
<1>6. ASSUME NEW e \in Events, Publish(e)
      PROVE  HubInv'
  BY <1>6, EndKeeps, PublishToKeeps DEF Publish
<1>7. ASSUME Stop \/ DisposeHub \/ Gone \/ UNCHANGED vars
      PROVE  HubInv'
  BY <1>7, StopKeeps DEF Gone
<1> QED
  BY <1>1, <1>2, <1>3, <1>4, <1>5, <1>6, <1>7 DEF Next

(* The inductive invariant holds in every reachable state: it relates each *)
(* channel to the events ever written to it (EventHub.cs and the loop of   *)
(* EventsController.Stream).                                               *)
THEOREM HubInvariant == Spec => []HubInv
<1>1. Init => HubInv
  BY HubInit
<1>2. HubInv /\ [Next]_vars => HubInv'
  BY HubNext
<1> QED
  BY <1>1, <1>2, PTL DEF Spec

(* Every variable keeps its type, and no channel outgrows its capacity,    *)
(* whatever the publishers do (BoundedChannelOptions in EventHub.cs).      *)
THEOREM HubTyped == Spec => []TypeOK
<1>1. HubInv => TypeOK
  BY DEF HubInv
<1> QED
  BY <1>1, HubInvariant, PTL

-----------------------------------------------------------------------------
(* What the client's line is made of: what was sent, what is being         *)
(* written, what waits.                                                    *)
LEMMA ConcatFacts ==
    ASSUME NEW S, NEW p \in Seq(S), NEW q \in Seq(S)
    PROVE  /\ p \o q \in Seq(S) /\ Len(p) \in Nat /\ Len(q) \in Nat
           /\ Len(p \o q) = Len(p) + Len(q)
           /\ \A k \in 1..Len(p) : (p \o q)[k] = p[k]
           /\ \A k \in 1..Len(q) : (p \o q)[Len(p) + k] = q[k]
           /\ \A m \in 1..Len(p \o q) :
                 m \in 1..Len(p) \/ \E k \in 1..Len(q) : m = Len(p) + k
<1>1. /\ p \o q \in Seq(S) /\ Len(p) \in Nat /\ Len(q) \in Nat
      /\ Len(p \o q) = Len(p) + Len(q)
  OBVIOUS
<1>2. \A k \in 1..Len(p) : (p \o q)[k] = p[k]
  OBVIOUS
<1>3. \A k \in 1..Len(q) : (p \o q)[Len(p) + k] = q[k]
  OBVIOUS
<1>4. ASSUME NEW m \in 1..Len(p \o q), m \notin 1..Len(p)
      PROVE  \E k \in 1..Len(q) : m = Len(p) + k
  <2> DEFINE i == Len(p)
             j == Len(q)
  <2>1. i \in Nat /\ j \in Nat /\ m \in 1..i + j /\ m \notin 1..i
    BY <1>1, <1>4
  <2> HIDE DEF i, j
  <2>2. m - i \in 1..j /\ m = i + (m - i)
    BY <2>1
  <2> QED
    BY <2>2 DEF i, j
<1> QED
  BY <1>1, <1>2, <1>3, <1>4

(* The event being written, as a sequence of one or none.                  *)
Frame(s) == IF writing[s] = NoEvent THEN <<>> ELSE <<writing[s]>>

(* In the line events stand in the order in which they were accepted.      *)
LEMMA LineEarlier ==
    ASSUME HubInv, NEW s \in Conns
    PROVE  /\ Line(s) \in Seq(Events)
           /\ \A m \in 1..Len(Line(s)) : IsAccepted(Line(s)[m], s)
           /\ \A m, n \in 1..Len(Line(s)) : m < n => Earlier(s, Line(s)[m], Line(s)[n])
<1> DEFINE d == sent[s]
           f == Frame(s)
           c == channel[s]
           h == d \o f
           q == h \o c
<1>1. Line(s) = q
  BY DEF Line, Frame
<1>2. /\ d \in Seq(Events) /\ c \in Seq(Events)
      /\ f \in Seq(Events) /\ Len(f) \in {0, 1}
      /\ \A k \in 1..Len(f) : k = 1 /\ f[k] = writing[s] /\ writing[s] # NoEvent
  <2>1. writing[s] \in Events \cup {NoEvent}
    BY DEF HubInv, TypeOK
  <2>2. CASE writing[s] = NoEvent
    <3>1. f = <<>>
      BY <2>2 DEF Frame
    <3> HIDE DEF f
    <3> QED
      BY <3>1, LineTypes DEF HubInv
  <2>3. CASE writing[s] # NoEvent
    <3>1. f = <<writing[s]>> /\ writing[s] \in Events
      BY <2>1, <2>3 DEF Frame
    <3> HIDE DEF f
    <3> QED
      BY <2>3, <3>1, LineTypes DEF HubInv
  <2> QED
    BY <2>2, <2>3
<1>3. /\ \A k \in 1..Len(d) : IsAccepted(d[k], s)
      /\ \A k \in 1..Len(c) : IsAccepted(c[k], s)
      /\ \A m, n \in 1..Len(d) : m < n => Earlier(s, d[m], d[n])
      /\ \A m, n \in 1..Len(c) : m < n => Earlier(s, c[m], c[n])
      /\ \A m \in 1..Len(d), n \in 1..Len(c) : Earlier(s, d[m], c[n])
      /\ writing[s] # NoEvent =>
            /\ IsAccepted(writing[s], s)
            /\ \A m \in 1..Len(d) : Earlier(s, d[m], writing[s])
            /\ \A n \in 1..Len(c) : Earlier(s, writing[s], c[n])
  BY DEF HubInv, LinesInv, Ordered
<1> HIDE DEF d, f, c
<1>4. /\ h \in Seq(Events) /\ Len(h) \in Nat
      /\ \A k \in 1..Len(h) : IsAccepted(h[k], s)
      /\ \A m, n \in 1..Len(h) : m < n => Earlier(s, h[m], h[n])
      /\ \A m \in 1..Len(h), n \in 1..Len(c) : Earlier(s, h[m], c[n])
  <2>1. /\ h \in Seq(Events) /\ Len(d) \in Nat /\ Len(h) \in Nat
        /\ \A k \in 1..Len(d) : h[k] = d[k]
        /\ \A k \in 1..Len(f) : h[Len(d) + k] = f[k]
        /\ \A m \in 1..Len(h) : m \in 1..Len(d) \/ \E k \in 1..Len(f) : m = Len(d) + k
    BY <1>2, ConcatFacts
  <2> HIDE DEF h
  <2>2. \A m \in 1..Len(h) :
           \/ m \in 1..Len(d) /\ h[m] = d[m]
           \/ m = Len(d) + 1 /\ h[m] = writing[s] /\ writing[s] # NoEvent
    BY <1>2, <2>1
  <2>3. \A m, n \in 1..Len(h) : m < n => m # Len(d) + 1
    <3> SUFFICES ASSUME NEW m \in 1..Len(h), NEW n \in 1..Len(h), m < n, m = Len(d) + 1
                 PROVE  FALSE
      OBVIOUS
    <3>1. n \in 1..Len(d) \/ n = Len(d) + 1
      BY <2>2
    <3> QED
      BY <2>1, <3>1
  <2> QED
    BY <1>3, <2>1, <2>2, <2>3
<1> HIDE DEF h
<1>5. /\ q \in Seq(Events) /\ Len(q) \in Nat
      /\ \A k \in 1..Len(h) : q[k] = h[k]
      /\ \A k \in 1..Len(c) : q[Len(h) + k] = c[k]
      /\ \A m \in 1..Len(q) : m \in 1..Len(h) \/ \E k \in 1..Len(c) : m = Len(h) + k
  BY <1>2, <1>4, ConcatFacts
<1> HIDE DEF q
<1>6. \A m \in 1..Len(q) : IsAccepted(q[m], s)
  BY <1>3, <1>4, <1>5
<1>7. ASSUME NEW m \in 1..Len(q), NEW n \in 1..Len(q), m < n
      PROVE  Earlier(s, q[m], q[n])
  <2>1. CASE n \in 1..Len(h)
    <3>1. m \in 1..Len(h)
      BY <1>4, <1>5, <1>7, <2>1
    <3> QED
      BY <1>4, <1>5, <1>7, <2>1, <3>1
  <2>2. CASE n \notin 1..Len(h)
    <3>1. PICK j \in 1..Len(c) : n = Len(h) + j
      BY <1>5, <2>2
    <3>2. CASE m \in 1..Len(h)
      BY <1>4, <1>5, <3>1, <3>2
    <3>3. CASE m \notin 1..Len(h)
      <4>1. PICK i \in 1..Len(c) : m = Len(h) + i
        BY <1>5, <3>3
      <4>2. i < j
        BY <1>4, <1>7, <3>1, <4>1
      <4> QED
        BY <1>3, <1>5, <3>1, <4>1, <4>2
    <3> QED
      BY <3>2, <3>3
  <2> QED
    BY <2>1, <2>2
<1> QED
  BY <1>1, <1>5, <1>6, <1>7

(* What of an order is implied for the events of a line: they are          *)
(* different, and a later one had not ended when an earlier one began.     *)
LEMMA EarlierFacts ==
    ASSUME HubInv, NEW s \in Conns, NEW x, NEW y, Earlier(s, x, y)
    PROVE  x # y /\ y \notin before[x]
<1>1. PICK p, q \in 1..Len(accepted[s]) : p < q /\ accepted[s][p] = x /\ accepted[s][q] = y
  BY DEF Earlier
<1>2. Len(accepted[s]) \in Nat
  BY LineTypes DEF HubInv
<1>3. x # y
  <2>1. x = y => p = q
    BY <1>1 DEF HubInv, AcceptedInv
  <2> QED
    BY <1>1, <1>2, <2>1
<1>4. y \notin before[x]
  <2>1. y \in before[x] => q < p
    BY <1>1 DEF HubInv, BeforeInv
  <2> QED
    BY <1>1, <1>2, <2>1
<1> QED
  BY <1>3, <1>4

(* No client sees an event twice, or one that its filter excludes, for any *)
(* publishers and subscribers that come and go (EventHub.PublishAsync).    *)
THEOREM EventsSeenOnce == Spec => []SeenOnceAndWanted
<1>1. HubInv => SeenOnceAndWanted
  <2> SUFFICES ASSUME HubInv, NEW s \in Conns
               PROVE  /\ \A m, n \in 1..Len(Line(s)) : Line(s)[m] = Line(s)[n] => m = n
                      /\ \A e \in Range(Line(s)) : Wanted(e, s)
    BY DEF SeenOnceAndWanted
  <2> DEFINE q == Line(s)
  <2>1. /\ q \in Seq(Events) /\ \A m \in 1..Len(q) : IsAccepted(q[m], s)
        /\ \A m, n \in 1..Len(q) : m < n => Earlier(s, q[m], q[n])
    BY LineEarlier
  <2> HIDE DEF q
  <2>2. \A m, n \in 1..Len(q) : m < n => q[m] # q[n]
    BY <2>1, EarlierFacts
  <2>3. \A m, n \in 1..Len(q) : q[m] = q[n] => m = n
    <3> SUFFICES ASSUME NEW m \in 1..Len(q), NEW n \in 1..Len(q), q[m] = q[n]
                 PROVE  m = n
      OBVIOUS
    <3>1. m < n \/ n < m \/ m = n
      BY <2>1
    <3> QED
      BY <2>2, <3>1
  <2>4. \A x : IsAccepted(x, s) => Wanted(x, s)
    BY DEF HubInv, AcceptedInv, IsAccepted
  <2>5. \A e \in Range(q) : Wanted(e, s)
    <3>1. DOMAIN q = 1..Len(q)
      BY <2>1
    <3> QED
      BY <2>1, <2>4, <3>1 DEF Range
  <2> QED
    BY <2>3, <2>5 DEF q
<1> QED
  BY <1>1, HubInvariant, PTL

(* Publications made one after the other reach every client in that order  *)
(* (EventHub.PublishAsync, which TryWrites into each channel in turn).     *)
THEOREM EventsInSequence == Spec => []SequentialOrder
<1>1. HubInv => SequentialOrder
  <2> SUFFICES ASSUME HubInv, NEW s \in Conns,
                      NEW m \in 1..Len(Line(s)), NEW n \in 1..Len(Line(s)),
                      Line(s)[m] \in before[Line(s)[n]]
               PROVE  m < n
    BY DEF SequentialOrder
  <2> DEFINE q == Line(s)
  <2>1. /\ q \in Seq(Events)
        /\ \A i, j \in 1..Len(q) : i < j => Earlier(s, q[i], q[j])
    BY LineEarlier
  <2>2. q[m] \in before[q[n]] /\ m \in 1..Len(q) /\ n \in 1..Len(q)
    OBVIOUS
  <2> HIDE DEF q
  <2>3. q[m] # q[n]
    BY <2>1, <2>2 DEF HubInv, BeforeInv
  <2>4. ~(n < m)
    BY <2>1, <2>2, EarlierFacts
  <2>5. m < n \/ n < m \/ m = n
    BY <2>1
  <2> QED
    BY <2>3, <2>4, <2>5
<1> QED
  BY <1>1, HubInvariant, PTL

(* A subscriber that stays misses no event it wants, but for those that as *)
(* many newer ones pushed out of its channel as it holds (DropOldest).     *)
THEOREM NothingIsLostSilently == Spec => []NoSilentLoss
<1>1. HubInv => NoSilentLoss
  <2> SUFFICES ASSUME HubInv, NEW e \in Events, NEW s \in Conns,
                      pub[e] = "published", s \in atStart[e] \cap open, Wanted(e, s)
               PROVE  \E n \in 1..Len(accepted[s]) :
                         /\ accepted[s][n] = e
                         /\ e \in Range(Line(s)) \/ PushedOut(s, n)
    BY DEF NoSilentLoss
  <2> DEFINE a == accepted[s]
             c == channel[s]
             d == sent[s]
             f == Frame(s)
             h == d \o f
             q == h \o c
  <2>1. PICK n \in 1..Len(a) : a[n] = e
    BY DEF HubInv, AcceptedInv, IsAccepted
  <2>2. /\ Len(c) <= Len(a)
        /\ \A k \in 1..Len(c) : c[k] = a[Len(a) - Len(c) + k]
        /\ \A i \in 1..Len(a) - Len(c) :
              (\E k \in 1..Len(d) : d[k] = a[i]) \/ writing[s] = a[i] \/ PushedOut(s, i)
    BY DEF HubInv, ChannelsInv, Suffix
  <2>3. c \in Seq(Events) /\ d \in Seq(Events) /\ Len(c) \in Nat /\ Len(a) \in Nat /\ e # NoEvent
    BY LineTypes, EventsAssumption DEF HubInv
  <2>4. f \in Seq(Events) /\ (writing[s] = e => Len(f) = 1 /\ f[1] = e)
    <3>1. writing[s] \in Events \cup {NoEvent}
      BY DEF HubInv, TypeOK
    <3> QED
      BY <2>3, <3>1 DEF Frame
  <2>5. Line(s) = q
    BY DEF Line, Frame
  <2> HIDE DEF a, c, d, f
  <2>6. /\ h \in Seq(Events) /\ \A k \in 1..Len(d) : h[k] = d[k] /\ k \in 1..Len(h)
        /\ \A k \in 1..Len(f) : h[Len(d) + k] = f[k] /\ Len(d) + k \in 1..Len(h)
    BY <2>3, <2>4, ConcatFacts
  <2> HIDE DEF h
  <2>7. /\ q \in Seq(Events) /\ \A k \in 1..Len(h) : q[k] = h[k] /\ k \in 1..Len(q)
        /\ \A k \in 1..Len(c) : q[Len(h) + k] = c[k] /\ Len(h) + k \in 1..Len(q)
    BY <2>3, <2>6, ConcatFacts
  <2> HIDE DEF q
  <2>8. \A k \in 1..Len(q) : q[k] \in Range(q)
    <3>1. DOMAIN q = 1..Len(q)
      BY <2>7
    <3> QED
      BY <3>1 DEF Range
  <2>9. e \in Range(q) \/ PushedOut(s, n)
    <3>1. CASE n \in 1..Len(a) - Len(c)
      <4>1. CASE \E k \in 1..Len(d) : d[k] = e
        BY <2>6, <2>7, <2>8, <4>1
      <4>2. CASE writing[s] = e
        <5>1. Len(f) = 1 /\ f[1] = e
          BY <2>4, <4>2
        <5>2. 1 \in 1..Len(f)
          BY <5>1
        <5> QED
          BY <2>6, <2>7, <2>8, <5>1, <5>2
      <4> QED
        BY <2>1, <2>2, <3>1, <4>1, <4>2
    <3>2. CASE n \notin 1..Len(a) - Len(c)
      <4> DEFINE i == Len(a)
                 j == Len(c)
      <4>1. i \in Nat /\ j \in Nat /\ j <= i /\ n \in 1..i /\ n \notin 1..i - j
        BY <2>1, <2>2, <2>3, <3>2
      <4> HIDE DEF i, j
      <4> DEFINE k == n - (i - j)
      <4>2. k \in 1..j /\ i - j + k = n
        BY <4>1
      <4> HIDE DEF k
      <4>3. c[k] = e
        BY <2>1, <2>2, <4>2 DEF i, j
      <4> QED
        BY <2>7, <2>8, <4>2, <4>3 DEF j
    <3> QED
      BY <3>1, <3>2
  <2> QED
    BY <2>1, <2>5, <2>9 DEF a
<1> QED
  BY <1>1, HubInvariant, PTL
=============================================================================
