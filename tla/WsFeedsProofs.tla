---------------------------- MODULE WsFeedsProofs ----------------------------
(***************************************************************************)
(* The WebSocket feeds, for every number of heights, logs, filters and     *)
(* every size of pages and of the channel: heads in order and without a    *)
(* gap, each log at most once, none left behind by the tail.               *)
(***************************************************************************)
EXTENDS WsFeeds, SequenceTheorems, FiniteSetTheorems, WellFoundedInduction, TLAPS

-----------------------------------------------------------------------------
(* What the properties rest on *)

\* Without a connection there is nothing in its channel and nothing was pushed;
\* what was pushed for a subscription goes when it ends.
ConnInv ==
  /\ ~open => queue = <<>> /\ subs = {} /\ ~overrun
  /\ \A s \in Sub : got[s] # <<>> => s \in subs

\* While the poller goes through the heights, every one between the last head
\* and the next to fetch has been passed.
PollerInv ==
  poller.at = "heads" =>
    /\ lastHead < poller.h /\ poller.h <= poller.height
    /\ \A h \in Height : lastHead < h /\ h < poller.h => h \in passed

\* The heads in the channel are in order, come after the ones that were pushed
\* and are not beyond the last head.
OrderInv ==
  /\ \A j \in DOMAIN queue : queue[j].head <= lastHead
  /\ \A j, k \in DOMAIN queue :
       j < k /\ queue[j].head # 0 /\ queue[k].head # 0 => queue[j].head < queue[k].head
  /\ \A i \in DOMAIN got[Heads] : got[Heads][i].head # 0 /\ got[Heads][i].head <= lastHead
  /\ \A i \in DOMAIN got[Heads], j \in DOMAIN queue :
       queue[j].head # 0 => got[Heads][i].head < queue[j].head
  /\ \A i, k \in DOMAIN got[Heads] : i < k => got[Heads][i].head < got[Heads][k].head

\* After a head that is in the channel every height up to the last head is in
\* the channel too or was passed; after one that was pushed, it may have been
\* pushed as well, unless the connection did not keep up.
InChannel(h) == \E k \in DOMAIN queue : queue[k].head = h
WasPushed(h) == \E k \in DOMAIN got[Heads] : got[Heads][k].head = h
ChannelCovers ==
  \A j \in DOMAIN queue : queue[j].head # 0 =>
    \A h \in Height : queue[j].head < h /\ h <= lastHead => h \in passed \/ InChannel(h)
PushedCovers ==
  ~lagged /\ ~overrun =>
    \A i \in DOMAIN got[Heads], h \in Height :
      got[Heads][i].head < h /\ h <= lastHead => h \in passed \/ InChannel(h) \/ WasPushed(h)

\* The tail is past every log it has sent, unless the log has moved.
BehindTail ==
  /\ poller.at = "start" => sent = {}
  /\ \A l \in sent \ moved : place[l] \in 1..lastLogs

\* Logs in the channel and pushed ones were sent by the tail; those that have
\* not moved are in one event only.
FromTail ==
  /\ \A j \in DOMAIN queue : queue[j].logs \subseteq sent
  /\ \A f \in Filter : \A i \in DOMAIN got[f] : got[f][i].logs \subseteq sent
OneEvent ==
  /\ \A j, k \in DOMAIN queue : \A l \in queue[j].logs \cap queue[k].logs : l \notin moved => j = k
  /\ \A f \in Filter : \A i \in DOMAIN got[f], j \in DOMAIN queue :
       \A l \in got[f][i].logs \cap queue[j].logs : l \in moved

-----------------------------------------------------------------------------
(* Operators *)

\* A set of numbers with a bound has a greatest one.
LEMMA MaxIsThere ==
  ASSUME NEW n \in Nat, NEW S \in SUBSET (0..n), S # {}
  PROVE  Max(S) \in S /\ \A y \in S : y <= Max(S)
<1> DEFINE R == OpToRel(<, Nat)
           T == {n - x : x \in S}
<1>1. IsWellFoundedOn(R, Nat)
  BY NatLessThanWellFounded
<1>2. \A x \in S : x \in 0..n /\ n - x \in Nat
  OBVIOUS
<1>3. T \subseteq Nat /\ T # {}
  <2>1. \A y \in T : y \in Nat
    BY <1>2
  <2>2. PICK x \in S : TRUE
    OBVIOUS
  <2>3. n - x \in T
    OBVIOUS
  <2>4. QED
    BY <2>1, <2>3
<1>4. \A x, y \in Nat : x < y => <<x, y>> \in R
  BY DEF OpToRel
<1> HIDE DEF R, T
<1>5. PICK m \in T : \A y \in T : ~(<<y, m>> \in R)
  BY <1>1, <1>3, WFMin, Zenon
<1>6. PICK x \in S : m = n - x
  BY DEF T
<1>7. \A y \in S : x >= y
  <2> SUFFICES ASSUME NEW y \in S PROVE x >= y
    OBVIOUS
  <2>1. n - y \in T
    BY DEF T
  <2>2. ~(n - y < m)
    BY <1>3, <1>4, <1>5, <2>1
  <2>3. QED
    BY <1>2, <1>6, <2>2
<1>8. /\ Max(S) \in S /\ \A y \in S : Max(S) >= y
  BY <1>7 DEF Max
<1>9. QED
  BY <1>2, <1>8

\* The loop starts after the last head that was announced.
LEMMA FromIsAfter ==
  ASSUME NEW last \in Nat, NEW height \in Nat
  PROVE  From(last, height) \in Nat /\ last < From(last, height)
<1> DEFINE m == IF height > CatchUp THEN height - CatchUp ELSE 0
<1>1. m \in Nat /\ CatchUp \in Nat
  BY FeedAssumption
<1> HIDE DEF m
<1>2. PICK x \in {last + 1, m} : \A y \in {last + 1, m} : x >= y
  BY <1>1
<1>3. /\ Max({last + 1, m}) \in {last + 1, m}
      /\ \A y \in {last + 1, m} : Max({last + 1, m}) >= y
  BY <1>2 DEF Max
<1>4. From(last, height) = Max({last + 1, m})
  BY DEF From, m
<1>5. QED
  BY <1>1, <1>3, <1>4

\* A page is not empty, unless there is nothing to page, and has the lowest logs.
LEMMA PageIsFirst ==
  ASSUME place \in [Log -> 0..MaxHeight], NEW from, Indexed(from) # {}, NEW S \in Pages(from)
  PROVE  /\ S \subseteq Indexed(from) /\ S # {}
         /\ \A l \in S, k \in Indexed(from) \ S : place[l] <= place[k]
<1> DEFINE n == Cardinality(Indexed(from))
           c == IF n < PageSize THEN n ELSE PageSize
<1>1. IsFiniteSet(Indexed(from))
  <2>1. Indexed(from) \in SUBSET Log
    BY DEF Indexed
  <2>2. QED
    BY <2>1, FeedAssumption, FS_Subset
<1>2. n \in Nat /\ n # 0
  BY <1>1, FS_CardinalityType, FS_EmptySet
<1>3. c \in Nat /\ c # 0
  BY <1>2, FeedAssumption
<1>4. S \subseteq Indexed(from) /\ Cardinality(S) = c
  BY DEF Pages, kSubset
<1>5. S # {}
  BY <1>3, <1>4, FS_EmptySet
<1>6. QED
  BY <1>4, <1>5 DEF Pages

\* log_matches selects what the WHERE clause of query_logs selects.
LEMMA SameCondition ==
  ASSUME NEW f, NEW l \in Log
  PROVE  LogMatches(f, l) <=> Selected(f, l)
<1>1. DOMAIN l.topics = 1..Len(l.topics) /\ Len(l.topics) \in Nat
  BY FeedAssumption, LenProperties
<1>2. \A i \in 1..4 : i \in DOMAIN l.topics <=> i <= Len(l.topics)
  BY <1>1
<1>3. QED
  BY <1>2 DEF LogMatches, Selected

\* What an event adds to a subscription.
LEMMA PushedType ==
  ASSUME NEW s, NEW ev \in Event
  PROVE  Pushed(s, ev) \in Seq(Event)
<1>1. CASE s = Heads
  BY <1>1 DEF Pushed
<1>2. CASE s # Heads
  <2>1. Logs({l \in ev.logs : LogMatches(s, l)}) \in Event
    BY FeedAssumption DEF Logs, Event
  <2>2. QED
    BY <1>2, <2>1 DEF Pushed
<1>3. QED
  BY <1>1, <1>2

\* What a send does to the channel of the connection: nothing if there is none;
\* else the event is last, and the oldest one may have gone.
Shifted(d, ev) ==
  /\ d <= Len(queue) /\ (d = 1 => overrun')
  /\ Len(queue') = Len(queue) - d + 1
  /\ \A j \in 1..(Len(queue) - d) : queue'[j] = queue[j + d]
  /\ queue'[Len(queue) - d + 1] = ev

LEMMA BroadcastShifts ==
  ASSUME TypeOK, NEW ev \in Event, Broadcast(ev)
  PROVE  /\ queue' \in Seq(Event) /\ Len(queue') <= ChanSize /\ overrun' \in BOOLEAN
         /\ overrun => overrun'
         /\ \/ ~open /\ queue' = queue /\ overrun' = overrun
            \/ open /\ \E d \in 0..1 : Shifted(d, ev)
<1>0. /\ queue \in Seq(Event) /\ Len(queue) \in Nat /\ Len(queue) <= ChanSize
      /\ ChanSize \in Nat \ {0}
  BY FeedAssumption, LenProperties DEF TypeOK
<1>1. overrun \in BOOLEAN
  BY DEF TypeOK
<1>2. CASE ~open
  BY <1>0, <1>1, <1>2 DEF Broadcast, channel
<1>3. CASE open /\ Len(queue) < ChanSize
  <2>1. queue' = Append(queue, ev) /\ overrun' = (overrun \/ Len(queue) = ChanSize)
    BY <1>3 DEF Broadcast
  <2>2. /\ queue' \in Seq(Event) /\ Len(queue') = Len(queue) + 1
        /\ \A j \in 1..Len(queue) : queue'[j] = queue[j]
        /\ queue'[Len(queue) + 1] = ev
    BY <1>0, <2>1, AppendProperties
  <2>3. Shifted(0, ev)
    BY <1>0, <2>2 DEF Shifted
  <2>4. overrun' \in BOOLEAN /\ (overrun => overrun')
    BY <2>1
  <2>5. QED
    BY <1>0, <1>3, <2>2, <2>3, <2>4
<1>4. CASE open /\ ~(Len(queue) < ChanSize)
  <2>1. queue' = Append(Tail(queue), ev) /\ overrun' = (overrun \/ Len(queue) = ChanSize)
    BY <1>4 DEF Broadcast
  <2>2. Len(queue) = ChanSize /\ queue # <<>>
    BY <1>0, <1>4
  <2>3. /\ Tail(queue) \in Seq(Event) /\ Len(Tail(queue)) = Len(queue) - 1
        /\ \A j \in 1..Len(Tail(queue)) : Tail(queue)[j] = queue[j + 1]
    BY <1>0, <2>2, HeadTailProperties
  <2> DEFINE tl == Tail(queue)
  <2> HIDE DEF tl
  <2>4. tl \in Seq(Event) /\ Len(tl) = Len(queue) - 1 /\ queue' = Append(tl, ev)
        /\ \A j \in 1..(Len(queue) - 1) : tl[j] = queue[j + 1]
    BY <2>1, <2>3 DEF tl
  <2>5. /\ queue' \in Seq(Event) /\ Len(queue') = Len(tl) + 1
        /\ \A j \in 1..Len(tl) : queue'[j] = tl[j]
        /\ queue'[Len(tl) + 1] = ev
    BY <2>4, AppendProperties
  <2>6. overrun' \in BOOLEAN /\ (overrun => overrun') /\ overrun'
    BY <2>1, <2>2
  <2>7. Shifted(1, ev)
    BY <1>0, <2>2, <2>4, <2>5, <2>6 DEF Shifted
  <2>8. Len(queue') <= ChanSize
    BY <1>0, <2>2, <2>4, <2>5
  <2>9. QED
    BY <1>4, <2>5, <2>6, <2>7, <2>8
<1>5. QED
  BY <1>2, <1>3, <1>4

\* Receiving takes the oldest event.
LEMMA QueueTail ==
  ASSUME TypeOK, queue # <<>>, queue' = Tail(queue)
  PROVE  /\ queue' \in Seq(Event) /\ Len(queue') = Len(queue) - 1 /\ Len(queue) \in Nat \ {0}
         /\ Head(queue) = queue[1] /\ queue[1] \in Event /\ 1 \in DOMAIN queue
         /\ \A j \in 1..Len(queue') : queue'[j] = queue[j + 1]
         /\ \A j \in DOMAIN queue' : j + 1 \in DOMAIN queue /\ queue'[j] = queue[j + 1]
         /\ \A k \in DOMAIN queue : k # 1 => k - 1 \in DOMAIN queue' /\ queue'[k - 1] = queue[k]
<1>1. queue \in Seq(Event)
  BY DEF TypeOK
<1>2. /\ queue' \in Seq(Event) /\ Len(queue') = Len(queue) - 1 /\ Len(queue) \in Nat \ {0}
      /\ \A j \in 1..Len(queue') : queue'[j] = queue[j + 1]
      /\ Head(queue) = queue[1]
  BY <1>1, HeadTailProperties, LenProperties, EmptySeq
<1>3. DOMAIN queue = 1..Len(queue) /\ DOMAIN queue' = 1..Len(queue')
  BY <1>1, <1>2
<1>4. 1 \in DOMAIN queue /\ queue[1] \in Event
  BY <1>1, <1>2, <1>3
<1>5. \A j \in DOMAIN queue' : j + 1 \in DOMAIN queue /\ queue'[j] = queue[j + 1]
  BY <1>2, <1>3
<1>6. \A k \in DOMAIN queue : k # 1 => k - 1 \in DOMAIN queue' /\ queue'[k - 1] = queue[k]
  BY <1>2, <1>3
<1>7. QED
  BY <1>2, <1>4, <1>5, <1>6

-----------------------------------------------------------------------------
(* Types *)

LEMMA TypeInit == Init => TypeOK
<1> SUFFICES ASSUME Init PROVE TypeOK
  OBVIOUS
<1>1. 0 \in 0..MaxHeight /\ 1 \in 0..MaxHeight /\ 0 \in 0..MaxFaults /\ 0 <= ChanSize
  BY FeedAssumption
<1>2. poller \in Poller /\ place \in [Log -> 0..MaxHeight]
  BY <1>1 DEF Init, Poller, At
<1>3. queue \in Seq(Event) /\ Len(queue) <= ChanSize /\ got \in [Sub -> Seq(Event)]
  BY <1>1 DEF Init
<1>4. open \in BOOLEAN /\ overrun \in BOOLEAN /\ lagged \in BOOLEAN
  BY DEF Init
<1>5. QED
  BY <1>1, <1>2, <1>3, <1>4 DEF Init, TypeOK

\* The parts of the state, for the proofs of a step.
NodeType == head \in 0..MaxHeight /\ place \in [Log -> 0..MaxHeight]
FeedType == poller \in Poller /\ lastHead \in 0..MaxHeight /\ lastLogs \in 0..MaxHeight
ChannelType == queue \in Seq(Event) /\ Len(queue) <= ChanSize /\ overrun \in BOOLEAN
ConnType == open \in BOOLEAN /\ subs \subseteq Sub /\ got \in [Sub -> Seq(Event)] /\ lagged \in BOOLEAN
PastType ==
  /\ passed \subseteq Height /\ missed \subseteq Log /\ sent \subseteq Log /\ moved \subseteq Log
  /\ faults \in 0..MaxFaults

LEMMA TypeParts == TypeOK <=> NodeType /\ FeedType /\ ChannelType /\ ConnType /\ PastType
BY DEF TypeOK, NodeType, FeedType, ChannelType, ConnType, PastType

LEMMA NextParts == NodeType' /\ FeedType' /\ ChannelType' /\ ConnType' /\ PastType' => TypeOK'
BY DEF TypeOK, NodeType, FeedType, ChannelType, ConnType, PastType

LEMMA SameParts ==
  ASSUME TypeOK
  PROVE  /\ UNCHANGED <<head, place>> => NodeType'
         /\ UNCHANGED <<poller, lastHead, lastLogs>> => FeedType'
         /\ UNCHANGED channel => ChannelType'
         /\ UNCHANGED conn => ConnType'
         /\ UNCHANGED history => PastType'
<1>1. NodeType /\ FeedType /\ ChannelType /\ ConnType /\ PastType
  BY TypeParts
<1>2. UNCHANGED <<head, place>> => NodeType'
  BY <1>1 DEF NodeType
<1>3. UNCHANGED <<poller, lastHead, lastLogs>> => FeedType'
  BY <1>1 DEF FeedType
<1>4. UNCHANGED channel => ChannelType'
  BY <1>1 DEF ChannelType, channel
<1>5. UNCHANGED conn => ConnType'
  BY <1>1 DEF ConnType, conn
<1>6. UNCHANGED history => PastType'
  BY <1>1 DEF PastType, history
<1>7. QED
  BY <1>2, <1>3, <1>4, <1>5, <1>6

LEMMA LoopType ==
  ASSUME NEW h \in Nat, NEW height \in 0..MaxHeight
  PROVE  /\ Loop(h, height) \in Poller
         /\ Loop(h, height).at \in {"heads", "logs"}
         /\ Loop(h, height).at = "heads" =>
              Loop(h, height).h = h /\ Loop(h, height).height = height /\ h <= height
<1>1. CASE h <= height
  <2>1. h \in 0..MaxHeight
    BY <1>1, FeedAssumption
  <2>2. QED
    BY <1>1, <2>1 DEF Loop, Poller
<1>2. CASE ~(h <= height)
  BY <1>2, FeedAssumption DEF Loop, At, Poller
<1>3. QED
  BY <1>1, <1>2

LEMMA AtType == \A pc \in {"start", "tick", "heads", "logs"} : At(pc) \in Poller /\ At(pc).at = pc
BY FeedAssumption DEF At, Poller

LEMMA IndexTypes ==
  ASSUME TypeOK, NEW h \in Height, NEW l \in Log, IndexLog(l, h)
  PROVE  TypeOK'
<1>1. NodeType /\ FeedType /\ ChannelType /\ ConnType /\ PastType
  BY TypeParts
<1>2. NodeType'
  BY <1>1, FeedAssumption DEF IndexLog, NodeType, Height
<1>3. FeedType' /\ ChannelType' /\ ConnType'
  BY SameParts DEF IndexLog
<1>4. PastType'
  <2>1. faults' \in 0..MaxFaults /\ moved' \subseteq Log
    <3>1. (moved' = moved /\ faults' = faults)
          \/ (faults < MaxFaults /\ faults' = faults + 1 /\ moved' = moved \cup {l})
      BY DEF IndexLog
    <3>2. QED
      BY <1>1, <3>1, FeedAssumption DEF PastType
  <2>2. missed' \subseteq Log /\ passed' = passed /\ sent' = sent
    BY <1>1 DEF IndexLog, PastType
  <2>3. QED
    BY <1>1, <2>1, <2>2 DEF PastType
<1>5. QED
  BY <1>2, <1>3, <1>4, NextParts

LEMMA PollTypes ==
  ASSUME TypeOK, PollerInv, Poll
  PROVE  TypeOK'
<1>0. NodeType /\ FeedType /\ ChannelType /\ ConnType /\ PastType
  BY TypeParts
<1>1. NodeType' /\ ConnType'
  BY SameParts DEF Poll, StartTail, TickHead, TickFails, FetchBlock, FetchNull, FetchFails, TailLogs,
                   TailNothing
<1>2. CASE StartTail
  <2>1. ChannelType'
    BY <1>2, SameParts DEF StartTail
  <2>2. lastLogs' \in 0..MaxHeight
    <3> DEFINE S == {0} \cup {place[l] : l \in Log}
    <3>1. S \in SUBSET (0..MaxHeight) /\ S # {} /\ MaxHeight \in Nat
      BY <1>0, FeedAssumption DEF NodeType
    <3>2. lastLogs' \in {0, Max(S)}
      BY <1>2 DEF StartTail
    <3> HIDE DEF S
    <3>3. Max(S) \in 0..MaxHeight
      BY <3>1, MaxIsThere
    <3>4. QED
      BY <3>1, <3>2, <3>3
  <2>3. FeedType'
    BY <1>0, <1>2, <2>2, AtType DEF FeedType, StartTail
  <2>4. PastType'
    BY <1>0, <1>2 DEF PastType, StartTail
  <2>5. QED
    BY <1>1, <2>1, <2>3, <2>4, NextParts
<1>3. CASE TickHead
  <2>1. ChannelType'
    BY <1>3, SameParts DEF TickHead
  <2>2. lastHead' \in 0..MaxHeight /\ lastHead' \in Nat /\ head \in Nat /\ head \in 0..MaxHeight
    BY <1>0, <1>3, FeedAssumption DEF FeedType, NodeType, TickHead
  <2>3. From(lastHead', head) \in Nat
    BY <2>2, FromIsAfter
  <2>4. poller' \in Poller
    BY <1>3, <2>2, <2>3, LoopType DEF TickHead
  <2>5. FeedType'
    BY <1>0, <1>3, <2>2, <2>4 DEF FeedType, TickHead
  <2>6. PastType'
    BY <1>0, <1>3 DEF PastType, TickHead
  <2>7. QED
    BY <1>1, <2>1, <2>5, <2>6, NextParts
<1>4. CASE TickFails \/ FetchFails \/ TailNothing
  <2>1. ChannelType' /\ PastType'
    BY <1>4, SameParts DEF TickFails, FetchFails, TailNothing
  <2>2. FeedType'
    BY <1>0, <1>4, AtType DEF FeedType, TickFails, FetchFails, TailNothing
  <2>3. QED
    BY <1>1, <2>1, <2>2, NextParts
<1>5. CASE FetchBlock \/ FetchNull
  <2>1. /\ poller.h \in 0..MaxHeight /\ poller.height \in 0..MaxHeight /\ poller.h + 1 \in Nat
        /\ poller' = Loop(poller.h + 1, poller.height)
    BY <1>0, <1>5, FeedAssumption DEF FeedType, Poller, FetchBlock, FetchNull
  <2>2. poller' \in Poller
    BY <2>1, LoopType
  <2>3. FeedType'
    BY <1>0, <1>5, <2>1, <2>2 DEF FeedType, FetchBlock, FetchNull
  <2>4. ChannelType'
    <3>1. CASE FetchBlock
      <4>1. NewHead(poller.h) \in Event
        BY <2>1 DEF NewHead, Event
      <4>2. QED
        BY <3>1, <4>1, BroadcastShifts DEF FetchBlock, ChannelType
    <3>2. CASE FetchNull
      BY <3>2, SameParts DEF FetchNull
    <3>3. QED
      BY <1>5, <3>1, <3>2
  <2>5. PastType'
    <3>1. CASE FetchBlock
      BY <3>1, SameParts DEF FetchBlock
    <3>2. CASE FetchNull
      <4>1. poller.h \in Height
        BY <1>0, <2>1, <3>2, FeedAssumption DEF PollerInv, FetchNull, Height, FeedType
      <4>2. QED
        BY <1>0, <3>2, <4>1 DEF FetchNull, PastType
    <3>3. QED
      BY <1>5, <3>1, <3>2
  <2>6. QED
    BY <1>1, <2>3, <2>4, <2>5, NextParts
<1>6. CASE TailLogs
  <2>1. PICK S \in Pages(TailFrom) :
          /\ Broadcast(Logs(S)) /\ sent' = sent \cup S
          /\ lastLogs' = Max({place[l] : l \in S})
          /\ missed' = missed \cup {l \in Indexed(TailFrom) \ S : place[l] = lastLogs'}
    BY <1>6 DEF TailLogs
  <2>2. S \subseteq Indexed(TailFrom) /\ S # {} /\ Indexed(TailFrom) \subseteq Log
    BY <1>0, <1>6, PageIsFirst DEF TailLogs, NodeType, Indexed
  <2>3. lastLogs' \in 0..MaxHeight
    <3> DEFINE P == {place[l] : l \in S}
    <3>1. P \in SUBSET (0..MaxHeight) /\ P # {} /\ MaxHeight \in Nat
      BY <1>0, <2>2, FeedAssumption DEF NodeType
    <3>2. lastLogs' = Max(P)
      BY <2>1
    <3> HIDE DEF P
    <3>3. QED
      BY <3>1, <3>2, MaxIsThere
  <2>4. FeedType'
    BY <1>0, <1>6, <2>3, AtType DEF FeedType, TailLogs
  <2>5. ChannelType'
    <3>1. Logs(S) \in Event
      BY <2>2, FeedAssumption DEF Logs, Event
    <3>2. QED
      BY <2>1, <3>1, BroadcastShifts DEF ChannelType
  <2>6. PastType'
    BY <1>0, <1>6, <2>1, <2>2 DEF PastType, TailLogs
  <2>7. QED
    BY <1>1, <2>4, <2>5, <2>6, NextParts
<1>7. QED
  BY <1>2, <1>3, <1>4, <1>5, <1>6 DEF Poll

LEMMA ConnTypes ==
  ASSUME TypeOK, Connect \/ Receive \/ Lag \/ Disconnect \/ Restart
                 \/ \E s \in Sub : Subscribe(s) \/ Unsubscribe(s)
  PROVE  TypeOK'
<1>0. NodeType /\ FeedType /\ ChannelType /\ ConnType /\ PastType
  BY TypeParts
<1>1. CASE Connect
  <2>1. NodeType' /\ FeedType' /\ ChannelType' /\ PastType'
    BY <1>1, SameParts DEF Connect, rest
  <2>2. open' \in BOOLEAN /\ lagged' \in BOOLEAN
    BY <1>0, <1>1 DEF Connect, ConnType
  <2>3. ConnType'
    BY <1>0, <1>1, <2>2 DEF Connect, ConnType
  <2>4. QED
    BY <2>1, <2>3, NextParts
<1>2. CASE Receive
  <2>1. NodeType' /\ FeedType' /\ PastType'
    BY <1>2, SameParts DEF Receive, rest
  <2>2. queue # <<>> /\ queue' = Tail(queue) /\ overrun' = overrun
    BY <1>2 DEF Receive
  <2>3. queue' \in Seq(Event) /\ Len(queue') <= ChanSize /\ Head(queue) \in Event
    <3>1. queue' \in Seq(Event) /\ Len(queue') = Len(queue) - 1 /\ Len(queue) \in Nat \ {0}
          /\ Head(queue) \in Event
      BY <2>2, QueueTail
    <3>2. Len(queue) <= ChanSize /\ ChanSize \in Nat
      BY <1>0, FeedAssumption DEF ChannelType
    <3>3. QED
      BY <3>1, <3>2
  <2>4. ChannelType'
    BY <1>0, <2>2, <2>3 DEF ChannelType
  <2>5. got' \in [Sub -> Seq(Event)]
    <3>1. \A s \in Sub : got[s] \in Seq(Event) /\ Pushed(s, Head(queue)) \in Seq(Event)
      BY <1>0, <2>3, PushedType DEF ConnType
    <3>2. \A s \in Sub : got[s] \o Pushed(s, Head(queue)) \in Seq(Event)
      BY <3>1, ConcatProperties
    <3>3. QED
      BY <1>2, <3>1, <3>2 DEF Receive
  <2>6. open' = open /\ subs' = subs /\ lagged' = lagged
    BY <1>2 DEF Receive
  <2>7. ConnType'
    BY <1>0, <2>5, <2>6 DEF ConnType
  <2>8. QED
    BY <2>1, <2>4, <2>7, NextParts
<1>3. CASE Lag
  <2>1. NodeType' /\ FeedType' /\ PastType'
    BY <1>3, SameParts DEF Lag, rest
  <2>2. overrun' \in BOOLEAN /\ lagged' \in BOOLEAN
    BY <1>3 DEF Lag
  <2>3. ChannelType' /\ ConnType'
    BY <1>0, <1>3, <2>2 DEF Lag, ChannelType, ConnType
  <2>4. QED
    BY <2>1, <2>3, NextParts
<1>4. ASSUME Disconnected PROVE ChannelType' /\ ConnType'
  <2>1. open' \in BOOLEAN /\ lagged' \in BOOLEAN /\ overrun' \in BOOLEAN
    BY <1>4 DEF Disconnected
  <2>2. queue' \in Seq(Event) /\ Len(queue') <= ChanSize
    BY <1>4, FeedAssumption DEF Disconnected
  <2>3. QED
    BY <1>4, <2>1, <2>2 DEF Disconnected, ChannelType, ConnType
<1>5. CASE Disconnect
  BY <1>4, <1>5, SameParts, NextParts DEF Disconnect, rest
<1>6. CASE Restart
  <2>1. NodeType' /\ ChannelType' /\ ConnType'
    BY <1>4, <1>6, SameParts DEF Restart
  <2>2. FeedType'
    BY <1>6, AtType, FeedAssumption DEF Restart, FeedType
  <2>3. PastType'
    BY <1>0, <1>6, FeedAssumption DEF Restart, PastType
  <2>4. QED
    BY <2>1, <2>2, <2>3, NextParts
<1>7. CASE \E s \in Sub : Subscribe(s) \/ Unsubscribe(s)
  <2>1. PICK s \in Sub : Subscribe(s) \/ Unsubscribe(s)
    BY <1>7
  <2>2. NodeType' /\ FeedType' /\ ChannelType' /\ PastType'
    BY <2>1, SameParts DEF Subscribe, Unsubscribe, rest
  <2>a. /\ got' = got \/ got' = [got EXCEPT ![s] = <<>>]
        /\ subs' = subs \cup {s} \/ subs' = subs \ {s}
        /\ open' = open /\ lagged' = lagged
    BY <2>1 DEF Subscribe, Unsubscribe
  <2>b. got \in [Sub -> Seq(Event)] /\ subs \subseteq Sub /\ <<>> \in Seq(Event)
    BY <1>0 DEF ConnType
  <2>3. got' \in [Sub -> Seq(Event)] /\ subs' \subseteq Sub /\ open' = open /\ lagged' = lagged
    BY <2>a, <2>b
  <2>4. ConnType'
    BY <1>0, <2>3 DEF ConnType
  <2>5. QED
    BY <2>2, <2>4, NextParts
<1>8. QED
  BY <1>1, <1>2, <1>3, <1>5, <1>6, <1>7

LEMMA TypeStep ==
  ASSUME TypeOK, PollerInv, [Next]_vars
  PROVE  TypeOK'
<1>1. CASE UNCHANGED vars
  BY <1>1, SameParts, NextParts DEF vars
<1>2. CASE NewBlock
  <2>1. FeedType' /\ ChannelType' /\ ConnType' /\ PastType'
    BY <1>2, SameParts DEF NewBlock
  <2>2. NodeType'
    <3>1. head \in 0..MaxHeight /\ place \in [Log -> 0..MaxHeight] /\ MaxHeight \in Nat
      BY FeedAssumption DEF TypeOK
    <3>2. head < MaxHeight /\ head' = head + 1 /\ place' = place
      BY <1>2 DEF NewBlock
    <3>3. head' \in 0..MaxHeight
      BY <3>1, <3>2
    <3>4. QED
      BY <3>1, <3>2, <3>3 DEF NodeType
  <2>3. QED
    BY <2>1, <2>2, NextParts
<1>3. QED
  BY <1>1, <1>2, IndexTypes, PollTypes, ConnTypes DEF Next

\* The poller's loop.
LEMMA PollerStep ==
  ASSUME TypeOK, PollerInv, [Next]_vars
  PROVE  PollerInv'
<1>0. poller \in Poller /\ lastHead \in 0..MaxHeight /\ head \in 0..MaxHeight /\ MaxHeight \in Nat
  BY FeedAssumption DEF TypeOK
<1>1. CASE poller' = poller /\ lastHead' = lastHead /\ passed' = passed
  BY <1>1 DEF PollerInv
<1>2. CASE poller'.at # "heads"
  BY <1>2 DEF PollerInv
<1>3. CASE TickHead
  <2> DEFINE from == From(lastHead', head)
  <2>1. lastHead' \in Nat /\ head \in Nat
    BY <1>0, <1>3 DEF TickHead
  <2>2. from \in Nat /\ lastHead' < from
    BY <2>1, FromIsAfter
  <2>3. poller' = Loop(from, head) /\ passed' = passed \cup {h \in Height : lastHead' < h /\ h < from}
    BY <1>3 DEF TickHead
  <2>4. poller'.at = "heads" => poller'.h = from /\ poller'.height = head /\ from <= head
    BY <1>0, <2>2, <2>3, LoopType
  <2> HIDE DEF from
  <2>5. QED
    BY <2>2, <2>3, <2>4 DEF PollerInv
<1>4. CASE FetchBlock \/ FetchNull
  <2>1. /\ poller.at = "heads" /\ poller.h \in Nat /\ poller.h \in 0..MaxHeight
        /\ poller.height \in 0..MaxHeight /\ poller' = Loop(poller.h + 1, poller.height)
    BY <1>0, <1>4 DEF FetchBlock, FetchNull, Poller
  <2>2. /\ lastHead < poller.h /\ poller.h <= poller.height
        /\ \A h \in Height : lastHead < h /\ h < poller.h => h \in passed
    BY <2>1 DEF PollerInv
  <2>3. poller'.at = "heads" =>
          poller'.h = poller.h + 1 /\ poller'.height = poller.height /\ poller.h + 1 <= poller.height
    <3>1. poller.h + 1 \in Nat
      BY <2>1
    <3>2. QED
      BY <2>1, <3>1, LoopType
  <2>4. \A h \in Height : h < poller.h + 1 => h < poller.h \/ h = poller.h
    BY <2>1 DEF Height
  <2>5. CASE FetchBlock
    <3>1. lastHead' = poller.h /\ passed' = passed
      BY <2>5 DEF FetchBlock, history
    <3>2. \A h \in Height : ~(poller.h < h /\ h < poller.h + 1)
      BY <2>1 DEF Height
    <3>3. poller.h < poller.h + 1
      BY <2>1
    <3>4. QED
      BY <2>3, <3>1, <3>2, <3>3 DEF PollerInv
  <2>6. CASE FetchNull
    <3>1. lastHead' = lastHead /\ passed' = passed \cup {poller.h}
      BY <2>6 DEF FetchNull
    <3>2. lastHead < poller.h + 1
      BY <1>0, <2>1, <2>2
    <3>3. QED
      BY <2>2, <2>3, <2>4, <3>1, <3>2 DEF PollerInv
  <2>7. QED
    BY <1>4, <2>5, <2>6
<1>5. CASE StartTail \/ TickFails \/ FetchFails \/ TailLogs \/ TailNothing \/ Restart
  <2>1. poller'.at \in {"start", "tick", "logs"}
    BY <1>5, AtType DEF StartTail, TickFails, FetchFails, TailLogs, TailNothing, Restart
  <2>2. QED
    BY <1>2, <2>1
<1>6. CASE \/ NewBlock \/ (\E h \in Height, l \in Log : IndexLog(l, h)) \/ Connect \/ Receive \/ Lag
           \/ Disconnect \/ (\E s \in Sub : Subscribe(s) \/ Unsubscribe(s)) \/ UNCHANGED vars
  <2>1. poller' = poller /\ lastHead' = lastHead /\ passed' = passed
    BY <1>6 DEF NewBlock, IndexLog, Connect, Receive, Lag, Disconnect, Subscribe, Unsubscribe, vars,
                rest, history
  <2>2. QED
    BY <1>1, <2>1
<1>7. QED
  BY <1>3, <1>4, <1>5, <1>6 DEF Next, Poll

-----------------------------------------------------------------------------
(* The head feed *)

\* Between two heads that were pushed in turn every height was passed.
GapInv ==
  ~lagged =>
    \A i \in 1..(Len(got[Heads]) - 1), h \in Height :
      got[Heads][i].head < h /\ h < got[Heads][i + 1].head => h \in passed

FeedInv == OrderInv /\ ChannelCovers /\ PushedCovers /\ GapInv
HeadInv == TypeOK /\ ConnInv /\ PollerInv /\ FeedInv

\* Numbers, for the arithmetic below.
LEMMA HeadNumbers ==
  ASSUME TypeOK
  PROVE  /\ queue \in Seq(Event) /\ Len(queue) \in Nat /\ DOMAIN queue = 1..Len(queue)
         /\ got[Heads] \in Seq(Event) /\ Len(got[Heads]) \in Nat
         /\ DOMAIN got[Heads] = 1..Len(got[Heads])
         /\ \A j \in DOMAIN queue : queue[j] \in Event /\ queue[j].head \in Nat
         /\ \A i \in DOMAIN got[Heads] : got[Heads][i].head \in Nat
         /\ lastHead \in Nat /\ MaxHeight \in Nat /\ Height \subseteq Nat
<1>1. queue \in Seq(Event) /\ got[Heads] \in Seq(Event) /\ lastHead \in 0..MaxHeight
  BY DEF TypeOK, Sub
<1>2. /\ \A j \in DOMAIN queue : queue[j] \in Event
      /\ \A i \in DOMAIN got[Heads] : got[Heads][i] \in Event
  BY <1>1
<1>3. \A e \in Event : e.head \in Nat
  BY FeedAssumption DEF Event
<1>4. QED
  BY <1>1, <1>2, <1>3, FeedAssumption, LenProperties DEF Height

\* Nothing happens to the channel and the connection; heights may be passed, and
\* the first head may be observed.
LEMMA HeadsQuiet ==
  ASSUME TypeOK, FeedInv, queue' = queue, got'[Heads] = got[Heads], passed \subseteq passed',
         lagged \/ overrun => lagged' \/ overrun', lagged => lagged',
         lastHead' = lastHead \/ (lastHead = 0 /\ lastHead' \in Nat)
  PROVE  FeedInv'
<1>1. OrderInv /\ ChannelCovers /\ PushedCovers /\ GapInv
  BY DEF FeedInv
<1>2. /\ \A j \in DOMAIN queue : queue[j].head \in Nat
      /\ \A i \in DOMAIN got[Heads] : got[Heads][i].head \in Nat
      /\ lastHead \in Nat /\ Height \subseteq Nat
  BY HeadNumbers
<1>3. lastHead' # lastHead => /\ \A j \in DOMAIN queue : queue[j].head = 0
                              /\ \A i \in DOMAIN got[Heads] : FALSE
  BY <1>1, <1>2 DEF OrderInv
<1>4. lastHead <= lastHead' /\ lastHead' \in Nat
  BY <1>2
<1>5. OrderInv'
  <2>1. /\ \A j \in DOMAIN queue : queue[j].head <= lastHead'
        /\ \A i \in DOMAIN got[Heads] : got[Heads][i].head <= lastHead'
    BY <1>1, <1>2, <1>3, <1>4 DEF OrderInv
  <2>2. QED
    BY <1>1, <2>1 DEF OrderInv
<1>6. ChannelCovers'
  BY <1>1, <1>3 DEF ChannelCovers, InChannel
<1>7. PushedCovers'
  BY <1>1, <1>3 DEF PushedCovers, InChannel, WasPushed
<1>8. GapInv'
  BY <1>1 DEF GapInv
<1>9. QED
  BY <1>5, <1>6, <1>7, <1>8 DEF FeedInv

\* Nothing was pushed and the channel is as it was or empty.
LEMMA HeadsNone ==
  ASSUME TypeOK, FeedInv, got'[Heads] = <<>>,
         queue' = <<>> \/ (queue' = queue /\ lastHead' = lastHead /\ passed' = passed)
  PROVE  FeedInv'
<1>1. DOMAIN got'[Heads] = {} /\ Len(got'[Heads]) = 0
  OBVIOUS
<1>2. GapInv' /\ PushedCovers'
  BY <1>1 DEF GapInv, PushedCovers
<1>3. OrderInv' /\ ChannelCovers'
  <2>1. CASE queue' = <<>>
    <3>1. DOMAIN queue' = {}
      BY <2>1
    <3>2. QED
      BY <1>1, <3>1 DEF OrderInv, ChannelCovers
  <2>2. CASE queue' = queue /\ lastHead' = lastHead /\ passed' = passed
    BY <1>1, <2>2 DEF FeedInv, OrderInv, ChannelCovers, InChannel
  <2>3. QED
    BY <2>1, <2>2
<1>4. QED
  BY <1>2, <1>3 DEF FeedInv

\* An event is sent: logs, or the next head, all heights before it passed.
LEMMA HeadsSend ==
  ASSUME TypeOK, ConnInv, FeedInv, NEW ev \in Event, Broadcast(ev),
         got' = got, lagged' = lagged, open' = open, passed' = passed, lastHead' \in Nat,
         \/ ev.head = 0 /\ lastHead' = lastHead
         \/ /\ ev.head = lastHead' /\ lastHead < lastHead'
            /\ \A h \in Height : lastHead < h /\ h < lastHead' => h \in passed
  PROVE  FeedInv'
<1>0. OrderInv /\ ChannelCovers /\ PushedCovers /\ GapInv
  BY DEF FeedInv
<1>1. /\ queue \in Seq(Event) /\ Len(queue) \in Nat /\ DOMAIN queue = 1..Len(queue)
      /\ \A j \in DOMAIN queue : queue[j].head \in Nat
      /\ \A i \in DOMAIN got[Heads] : got[Heads][i].head \in Nat
      /\ lastHead \in Nat /\ Height \subseteq Nat
  BY HeadNumbers
<1>2. CASE ~open
  <2>1. queue = <<>> /\ subs = {}
    BY <1>2 DEF ConnInv
  <2>2. got[Heads] = <<>>
    BY <2>1 DEF ConnInv, Sub
  <2>3. queue' = <<>>
    BY <1>2, <2>1, BroadcastShifts
  <2>4. QED
    BY <2>2, <2>3, HeadsNone
<1>3. CASE open
  <2>1. PICK d \in 0..1 : Shifted(d, ev)
    BY <1>3, BroadcastShifts
  <2> DEFINE n == Len(queue) - d
  <2>2. /\ d <= Len(queue) /\ (d = 1 => overrun') /\ (overrun => overrun')
        /\ Len(queue') = n + 1 /\ n \in Nat /\ queue' \in Seq(Event)
        /\ \A j \in 1..n : queue'[j] = queue[j + d]
        /\ queue'[n + 1] = ev
    BY <1>1, <2>1, BroadcastShifts DEF Shifted
  <2>3. \A j \in DOMAIN queue' : j \in 1..n \/ j = n + 1
    <3>1. DOMAIN queue' = 1..(n + 1)
      BY <2>2
    <3> HIDE DEF n
    <3>2. QED
      BY <2>2, <3>1
  <2>4. \A j \in 1..n : j + d \in DOMAIN queue /\ queue'[j] = queue[j + d]
    BY <1>1, <2>2
  <2>5. \A j, k \in 1..n : j < k => j + d < k + d
    BY <1>1, <2>2
  <2>6. \A k \in DOMAIN queue : k <= d \/ (k - d \in DOMAIN queue' /\ queue'[k - d] = queue[k])
    <3>1. DOMAIN queue' = 1..(n + 1)
      BY <2>2
    <3>2. \A k \in DOMAIN queue : k > d => k - d \in 1..n /\ (k - d) + d = k
      BY <1>1, <2>2
    <3>3. \A k \in 1..n : k \in DOMAIN queue'
      BY <2>2, <3>1
    <3>4. \A k \in DOMAIN queue : k > d => queue'[k - d] = queue[k]
      BY <2>4, <3>2
    <3>5. QED
      BY <1>1, <3>2, <3>3, <3>4
  <2>7. n + 1 \in DOMAIN queue' /\ queue'[n + 1] = ev /\ \A j \in 1..n : j < n + 1 /\ ~(n + 1 < j)
    BY <2>2
  <2> HIDE DEF n
  <2>8. lastHead <= lastHead' /\ ev.head <= lastHead' /\ (ev.head # 0 => lastHead < ev.head)
    BY <1>1
  <2>9. OrderInv'
    <3>1. \A j \in DOMAIN queue' : queue'[j].head <= lastHead'
      BY <1>0, <1>1, <2>3, <2>4, <2>7, <2>8 DEF OrderInv
    <3>2. ASSUME NEW j \in DOMAIN queue', NEW k \in DOMAIN queue', j < k,
                 queue'[j].head # 0, queue'[k].head # 0
          PROVE  queue'[j].head < queue'[k].head
      <4>1. CASE j \in 1..n /\ k \in 1..n
        BY <1>0, <2>4, <2>5, <3>2, <4>1 DEF OrderInv
      <4>2. CASE j \in 1..n /\ k = n + 1
        <5>1. queue'[j].head <= lastHead /\ queue'[j].head \in Nat
          BY <1>0, <1>1, <2>4, <4>2 DEF OrderInv
        <5>2. queue'[k].head = lastHead' /\ lastHead < lastHead'
          BY <2>7, <3>2, <4>2
        <5>3. QED
          BY <1>1, <5>1, <5>2
      <4>3. CASE j = n + 1
        BY <2>2, <2>3, <2>7, <3>2, <4>3
      <4>4. QED
        BY <2>3, <4>1, <4>2, <4>3
    <3>3. \A i \in DOMAIN got[Heads] : got[Heads][i].head # 0 /\ got[Heads][i].head <= lastHead'
      BY <1>0, <1>1, <2>8 DEF OrderInv
    <3>4. ASSUME NEW i \in DOMAIN got[Heads], NEW j \in DOMAIN queue', queue'[j].head # 0
          PROVE  got[Heads][i].head < queue'[j].head
      <4>1. CASE j \in 1..n
        BY <1>0, <2>4, <3>4, <4>1 DEF OrderInv
      <4>2. CASE j = n + 1
        <5>1. got[Heads][i].head <= lastHead
          BY <1>0 DEF OrderInv
        <5>2. queue'[j].head = lastHead' /\ lastHead < lastHead'
          BY <2>7, <3>4, <4>2
        <5>3. QED
          BY <1>1, <5>1, <5>2
      <4>3. QED
        BY <2>3, <4>1, <4>2
    <3>5. QED
      BY <1>0, <3>1, <3>2, <3>3, <3>4 DEF OrderInv
  <2>10. ASSUME NEW h \in Height, lastHead < h, h <= lastHead'
         PROVE  h \in passed \/ InChannel(h)'
    <3>1. h < lastHead' \/ h = lastHead'
      BY <1>1, <2>10
    <3>2. ev.head = lastHead' /\ \A x \in Height : lastHead < x /\ x < lastHead' => x \in passed
      BY <1>1, <2>10
    <3>3. QED
      BY <2>7, <2>10, <3>1, <3>2 DEF InChannel
  <2>11. ChannelCovers'
    <3> SUFFICES ASSUME NEW j \in DOMAIN queue', queue'[j].head # 0, NEW h \in Height,
                        queue'[j].head < h, h <= lastHead'
                 PROVE  h \in passed \/ InChannel(h)'
      BY DEF ChannelCovers
    <3>1. CASE lastHead < h
      BY <2>10, <3>1
    <3>2. CASE ~(lastHead < h)
      <4>1. h <= lastHead
        BY <1>1, <3>2
      <4>2. j \in 1..n
        <5>1. CASE j = n + 1
          <6>1. queue'[j].head = lastHead' /\ lastHead < lastHead'
            BY <2>7, <5>1
          <6>2. QED
            BY <1>1, <4>1, <6>1
        <5>2. QED
          BY <2>3, <5>1
      <4>3. j + d \in DOMAIN queue /\ queue[j + d].head = queue'[j].head
        BY <2>4, <4>2
      <4>4. h \in passed \/ \E k \in DOMAIN queue : queue[k].head = h
        BY <1>0, <4>1, <4>3 DEF ChannelCovers, InChannel
      <4>5. ASSUME NEW k \in DOMAIN queue, queue[k].head = h PROVE InChannel(h)'
        <5>1. ~(k <= d)
          <6> SUFFICES ASSUME k <= d PROVE FALSE
            OBVIOUS
          <6>1. k < j + d /\ h # 0 /\ queue[j + d].head < h
            BY <1>1, <4>2, <4>3 DEF Height
          <6>2. queue[k].head < queue[j + d].head
            BY <1>0, <4>3, <4>5, <6>1 DEF OrderInv
          <6>3. QED
            BY <1>1, <4>3, <4>5, <6>1, <6>2
        <5>2. QED
          BY <2>6, <4>5, <5>1 DEF InChannel
      <4>6. QED
        BY <4>4, <4>5
    <3>3. QED
      BY <3>1, <3>2
  <2>12. PushedCovers'
    <3> SUFFICES ASSUME ~lagged, ~overrun', NEW i \in DOMAIN got[Heads], NEW h \in Height,
                        got[Heads][i].head < h, h <= lastHead'
                 PROVE  h \in passed \/ InChannel(h)' \/ WasPushed(h)
      BY DEF PushedCovers, WasPushed
    <3>1. CASE lastHead < h
      BY <2>10, <3>1
    <3>2. CASE ~(lastHead < h)
      <4>1. h <= lastHead /\ ~overrun /\ d = 0
        BY <1>1, <2>2, <3>2
      <4>2. h \in passed \/ InChannel(h) \/ WasPushed(h)
        BY <1>0, <4>1 DEF PushedCovers
      <4>3. \A k \in DOMAIN queue : ~(k <= d)
        BY <1>1, <4>1
      <4>4. InChannel(h) => InChannel(h)'
        BY <2>6, <4>3 DEF InChannel
      <4>5. QED
        BY <4>2, <4>4
    <3>3. QED
      BY <3>1, <3>2
  <2>13. GapInv'
    BY <1>0 DEF GapInv
  <2>14. QED
    BY <2>9, <2>11, <2>12, <2>13 DEF FeedInv
<1>4. QED
  BY <1>2, <1>3

\* The oldest event is received, and pushed if it is a head and subscribed to.
LEMMA HeadsReceive ==
  ASSUME TypeOK, ConnInv, FeedInv, Receive
  PROVE  FeedInv'
<1>0. OrderInv /\ ChannelCovers /\ PushedCovers /\ GapInv
  BY DEF FeedInv
<1> DEFINE ev == queue[1]
           g == got[Heads]
<1>1. /\ queue \in Seq(Event) /\ Len(queue) \in Nat /\ DOMAIN queue = 1..Len(queue)
      /\ \A j \in DOMAIN queue : queue[j].head \in Nat
      /\ g \in Seq(Event) /\ Len(g) \in Nat /\ DOMAIN g = 1..Len(g)
      /\ \A i \in DOMAIN g : g[i].head \in Nat
      /\ lastHead \in Nat /\ Height \subseteq Nat
  BY HeadNumbers
<1>2. /\ Head(queue) = ev /\ ev \in Event /\ 1 \in DOMAIN queue
      /\ \A j \in DOMAIN queue' : j + 1 \in DOMAIN queue /\ queue'[j] = queue[j + 1]
      /\ \A k \in DOMAIN queue : k # 1 => k - 1 \in DOMAIN queue' /\ queue'[k - 1] = queue[k]
      /\ queue' \in Seq(Event)
  BY QueueTail DEF Receive
<1>3. lastHead' = lastHead /\ passed' = passed /\ lagged' = lagged /\ overrun' = overrun /\ ~overrun
  BY DEF Receive, rest, history
<1>4. got'[Heads] = IF Heads \in subs THEN g \o Pushed(Heads, ev) ELSE g
  BY <1>2 DEF Receive, Sub
<1>5. ev.head \in Nat /\ Pushed(Heads, ev) = IF ev.head = 0 THEN <<>> ELSE <<ev>>
  BY <1>1, <1>2 DEF Pushed
<1>6. \A j \in DOMAIN queue' : j \in Nat /\ 1 < j + 1
  BY <1>2
<1> HIDE DEF ev, g
<1>7. \A j \in DOMAIN queue' : queue'[j].head <= lastHead
  BY <1>0, <1>2 DEF OrderInv
<1>8. \A j, k \in DOMAIN queue' :
        j < k /\ queue'[j].head # 0 /\ queue'[k].head # 0 => queue'[j].head < queue'[k].head
  <2> SUFFICES ASSUME NEW j \in DOMAIN queue', NEW k \in DOMAIN queue', j < k,
                      queue'[j].head # 0, queue'[k].head # 0
               PROVE  queue'[j].head < queue'[k].head
    OBVIOUS
  <2>1. j + 1 < k + 1
    BY <1>6
  <2>2. QED
    BY <1>0, <1>2, <2>1 DEF OrderInv
<1>9. ASSUME NEW j \in DOMAIN queue', queue'[j].head # 0, NEW h \in Height,
             queue'[j].head < h, h <= lastHead
      PROVE  h \in passed \/ InChannel(h)'
  <2>1. j + 1 \in DOMAIN queue /\ queue[j + 1].head = queue'[j].head
    BY <1>2
  <2>2. h \in passed \/ \E k \in DOMAIN queue : queue[k].head = h
    BY <1>0, <1>9, <2>1 DEF ChannelCovers, InChannel
  <2>3. ASSUME NEW k \in DOMAIN queue, queue[k].head = h PROVE InChannel(h)'
    <3>1. k # 1
      <4> SUFFICES ASSUME k = 1 PROVE FALSE
        OBVIOUS
      <4>1. k < j + 1 /\ h # 0
        BY <1>6 DEF Height
      <4>2. queue[k].head < queue[j + 1].head
        BY <1>0, <1>9, <2>1, <2>3, <4>1 DEF OrderInv
      <4>3. QED
        BY <1>1, <1>9, <2>1, <2>3, <4>2
    <3>2. QED
      BY <1>2, <2>3, <3>1 DEF InChannel
  <2>4. QED
    BY <2>2, <2>3
<1>10. ChannelCovers'
  BY <1>3, <1>9 DEF ChannelCovers
<1>11. CASE got'[Heads] = g /\ (g = <<>> \/ ev.head = 0)
  <2>1. OrderInv'
    <3>1. \A i \in DOMAIN g, j \in DOMAIN queue' : queue'[j].head # 0 => g[i].head < queue'[j].head
      BY <1>0, <1>2 DEF OrderInv, g
    <3>2. QED
      BY <1>0, <1>3, <1>7, <1>8, <1>11, <3>1 DEF OrderInv, g
  <2>2. GapInv'
    BY <1>0, <1>3, <1>11 DEF GapInv, g
  <2>3. PushedCovers'
    <3> SUFFICES ASSUME ~lagged, NEW i \in DOMAIN g, NEW h \in Height, g[i].head < h, h <= lastHead
                 PROVE  h \in passed \/ InChannel(h)' \/ WasPushed(h)'
      BY <1>3, <1>11 DEF PushedCovers
    <3>1. h \in passed \/ InChannel(h) \/ WasPushed(h)
      BY <1>0, <1>3 DEF PushedCovers, g
    <3>2. WasPushed(h) => WasPushed(h)'
      BY <1>11 DEF WasPushed, g
    <3>3. ev.head = 0
      BY <1>1, <1>11
    <3>4. InChannel(h) => InChannel(h)'
      <4> SUFFICES ASSUME NEW k \in DOMAIN queue, queue[k].head = h PROVE InChannel(h)'
        BY DEF InChannel
      <4>1. k # 1
        BY <3>3 DEF ev, Height
      <4>2. QED
        BY <1>2, <4>1 DEF InChannel
    <3>5. QED
      BY <3>1, <3>2, <3>4
  <2>4. QED
    BY <1>10, <2>1, <2>2, <2>3 DEF FeedInv
<1>12. CASE Heads \in subs /\ ev.head # 0
  <2>1. got'[Heads] = Append(g, ev)
    <3>1. got'[Heads] = g \o <<ev>>
      BY <1>4, <1>5, <1>12
    <3>2. QED
      BY <1>1, <1>2, <3>1
  <2>2. /\ got'[Heads] \in Seq(Event) /\ Len(got'[Heads]) = Len(g) + 1
        /\ \A i \in 1..Len(g) : got'[Heads][i] = g[i]
        /\ got'[Heads][Len(g) + 1] = ev
    BY <1>1, <1>2, <2>1, AppendProperties
  <2> DEFINE n == Len(g)
             gg == got'[Heads]
  <2>3. /\ n \in Nat /\ DOMAIN gg = 1..(n + 1) /\ DOMAIN g = 1..n /\ Len(gg) = n + 1
        /\ \A i \in 1..n : gg[i] = g[i]
        /\ gg[n + 1] = ev
    BY <1>1, <2>2
  <2> HIDE DEF n, gg
  <2>4. \A i \in DOMAIN gg : i \in 1..n \/ i = n + 1
    BY <2>3
  <2>5. ev.head <= lastHead /\ \A i \in 1..n : g[i].head < ev.head
    BY <1>0, <1>2, <1>12, <2>3 DEF OrderInv, ev, g
  <2>6. \A j \in DOMAIN queue' : queue'[j].head # 0 => ev.head < queue'[j].head
    BY <1>0, <1>2, <1>6, <1>12 DEF OrderInv, ev
  <2>7. OrderInv'
    <3>1. \A i \in DOMAIN gg : gg[i].head # 0 /\ gg[i].head <= lastHead
      BY <1>0, <1>12, <2>3, <2>4, <2>5 DEF OrderInv, g
    <3>2. \A i \in DOMAIN gg, j \in DOMAIN queue' : queue'[j].head # 0 => gg[i].head < queue'[j].head
      BY <1>0, <1>2, <2>3, <2>4, <2>6 DEF OrderInv, g
    <3>3. ASSUME NEW i \in DOMAIN gg, NEW k \in DOMAIN gg, i < k
          PROVE  gg[i].head < gg[k].head
      <4>1. CASE k \in 1..n
        <5>1. i \in 1..n
          BY <2>3, <3>3, <4>1
        <5>2. QED
          BY <1>0, <2>3, <3>3, <4>1, <5>1 DEF OrderInv, g
      <4>2. CASE k = n + 1
        <5>1. i \in 1..n
          BY <2>3, <3>3, <4>2
        <5>2. QED
          BY <2>3, <2>5, <4>2, <5>1
      <4>3. QED
        BY <2>4, <4>1, <4>2
    <3>4. QED
      BY <1>3, <1>7, <1>8, <3>1, <3>2, <3>3 DEF OrderInv, gg
  <2>8. ASSUME ~lagged, NEW i \in 1..n, NEW h \in Height, g[i].head < h, h <= lastHead
        PROVE  h \in passed \/ h = ev.head \/ InChannel(h)' \/ \E k \in 1..n : g[k].head = h
    <3>1. h \in passed \/ (\E k \in DOMAIN queue : queue[k].head = h) \/ \E k \in 1..n : g[k].head = h
      BY <1>0, <1>3, <2>3, <2>8 DEF PushedCovers, InChannel, WasPushed, g
    <3>2. \A k \in DOMAIN queue : queue[k].head = h => h = ev.head \/ InChannel(h)'
      BY <1>2 DEF InChannel, ev
    <3>3. QED
      BY <3>1, <3>2
  <2>9. PushedCovers'
    <3> SUFFICES ASSUME ~lagged, NEW i \in DOMAIN gg, NEW h \in Height, gg[i].head < h, h <= lastHead
                 PROVE  h \in passed \/ InChannel(h)' \/ WasPushed(h)'
      BY <1>3 DEF PushedCovers, gg
    <3>1. \A k \in DOMAIN gg : gg[k].head = h => WasPushed(h)'
      BY DEF WasPushed, gg
    <3>2. CASE i \in 1..n
      <4>1. h \in passed \/ h = ev.head \/ InChannel(h)' \/ \E k \in 1..n : g[k].head = h
        BY <2>3, <2>8, <3>2
      <4>2. (h = ev.head => WasPushed(h)') /\ \A k \in 1..n : g[k].head = h => WasPushed(h)'
        BY <2>3, <3>1
      <4>3. QED
        BY <4>1, <4>2
    <3>3. CASE i = n + 1
      <4>1. ev.head < h
        BY <2>3, <3>3
      <4>2. h \in passed \/ \E k \in DOMAIN queue : queue[k].head = h
        BY <1>0, <1>2, <1>12, <4>1 DEF ChannelCovers, InChannel, ev
      <4>3. \A k \in DOMAIN queue : queue[k].head = h => k # 1
        BY <1>5, <4>1 DEF ev, Height
      <4>4. QED
        BY <1>2, <4>2, <4>3 DEF InChannel
    <3>4. QED
      BY <2>4, <3>2, <3>3
  <2>10. GapInv'
    <3> SUFFICES ASSUME ~lagged, NEW i \in 1..(Len(gg) - 1), NEW h \in Height,
                        gg[i].head < h, h < gg[i + 1].head
                 PROVE  h \in passed
      BY <1>3 DEF GapInv, gg
    <3>1. i \in 1..n /\ gg[i] = g[i]
      BY <2>3
    <3>2. CASE i = n
      <4>1. gg[i + 1] = ev
        BY <2>3, <3>2
      <4>2. h < ev.head /\ h \in Nat /\ h # 0 /\ h <= lastHead
        BY <1>1, <1>5, <2>5, <4>1 DEF Height
      <4>3. h \in passed \/ h = ev.head \/ InChannel(h)' \/ \E k \in 1..n : g[k].head = h
        BY <2>8, <3>1, <4>2
      <4>4. ~InChannel(h)'
        <5> SUFFICES ASSUME NEW j \in DOMAIN queue', queue'[j].head = h PROVE FALSE
          BY DEF InChannel
        <5>1. ev.head < queue'[j].head
          BY <2>6, <4>2
        <5>2. QED
          BY <1>5, <4>2, <5>1
      <4>5. \A k \in 1..n : g[k].head # h
        <5> SUFFICES ASSUME NEW k \in 1..n, g[k].head = h PROVE FALSE
          OBVIOUS
        <5>1. k < i \/ k = i
          BY <2>3, <3>2
        <5>2. i \in DOMAIN g /\ k \in DOMAIN g /\ g[i].head \in Nat
          BY <1>1, <2>3, <3>1
        <5>3. k < i => g[k].head < g[i].head
          BY <1>0, <5>2 DEF OrderInv, g
        <5>4. g[k].head = h /\ g[i].head < h /\ h \in Nat
          BY <1>1, <3>1
        <5>5. QED
          BY <5>1, <5>2, <5>3, <5>4
      <4>6. QED
        BY <1>5, <4>2, <4>3, <4>4, <4>5
    <3>3. CASE i # n
      <4>1. i \in 1..(n - 1) /\ i + 1 \in 1..n
        BY <2>3, <3>1, <3>3
      <4>2. gg[i + 1] = g[i + 1]
        BY <2>3, <4>1
      <4>3. \A x \in Height : g[i].head < x /\ x < g[i + 1].head => x \in passed
        BY <1>0, <4>1 DEF GapInv, g, n
      <4>4. QED
        BY <3>1, <4>2, <4>3
    <3>4. QED
      BY <3>2, <3>3
  <2>11. QED
    BY <1>10, <2>7, <2>9, <2>10 DEF FeedInv
<1>13. QED
  <2>1. CASE Heads \notin subs
    <3>1. g = <<>>
      BY <2>1 DEF ConnInv, Sub, g
    <3>2. QED
      BY <1>4, <1>11, <2>1, <3>1
  <2>2. CASE Heads \in subs /\ ev.head = 0
    <3>1. got'[Heads] = g
      BY <1>1, <1>4, <1>5, <2>2, ConcatEmptySeq
    <3>2. QED
      BY <1>11, <2>2, <3>1
  <2>3. QED
    BY <1>12, <2>1, <2>2

\* The connection.
LEMMA ConnStep ==
  ASSUME TypeOK, ConnInv, [Next]_vars
  PROVE  ConnInv'
<1>0. got \in [Sub -> Seq(Event)]
  BY DEF TypeOK
<1>1. CASE open' = open /\ queue' = queue /\ overrun' = overrun /\ got' = got /\ subs' = subs
  BY <1>1 DEF ConnInv
<1>2. CASE FetchBlock \/ TailLogs
  <2>1. open' = open /\ got' = got /\ subs' = subs /\ (~open => queue' = queue /\ overrun' = overrun)
    BY <1>2 DEF FetchBlock, TailLogs, Broadcast, conn, channel
  <2>2. QED
    BY <2>1 DEF ConnInv
<1>3. CASE Connect
  BY <1>3 DEF Connect, ConnInv
<1>4. CASE Receive
  <2>1. open /\ open' = open /\ subs' = subs
    BY <1>4 DEF Receive
  <2>2. \A s \in Sub : s \notin subs => got'[s] = got[s]
    BY <1>4 DEF Receive
  <2>3. QED
    BY <2>1, <2>2 DEF ConnInv
<1>5. CASE Lag
  BY <1>5 DEF Lag, ConnInv
<1>6. CASE Disconnect \/ Restart
  BY <1>6 DEF Disconnect, Restart, Disconnected, ConnInv
<1>7. ASSUME NEW s \in Sub, Subscribe(s) \/ Unsubscribe(s) PROVE ConnInv'
  <2>1. CASE Subscribe(s)
    BY <2>1 DEF Subscribe, ConnInv
  <2>2. CASE Unsubscribe(s)
    <3>1. open /\ open' = open /\ subs' = subs \ {s} /\ got' = [got EXCEPT ![s] = <<>>]
      BY <2>2 DEF Unsubscribe, ConnInv
    <3>2. QED
      BY <1>0, <3>1 DEF ConnInv
  <2>3. QED
    BY <1>7, <2>1, <2>2
<1>8. CASE \/ NewBlock \/ (\E h \in Height, l \in Log : IndexLog(l, h)) \/ StartTail \/ TickHead
           \/ TickFails \/ FetchNull \/ FetchFails \/ TailNothing \/ UNCHANGED vars
  BY <1>1, <1>8 DEF NewBlock, IndexLog, StartTail, TickHead, TickFails, FetchNull, FetchFails,
       TailNothing, vars, conn, channel
<1>9. QED
  BY <1>2, <1>3, <1>4, <1>5, <1>6, <1>7, <1>8 DEF Next, Poll

LEMMA FeedStep ==
  ASSUME HeadInv, [Next]_vars
  PROVE  FeedInv'
<1>0. TypeOK /\ ConnInv /\ PollerInv /\ FeedInv
  BY DEF HeadInv
<1>1. CASE \/ NewBlock \/ (\E h \in Height, l \in Log : IndexLog(l, h)) \/ StartTail
           \/ TickFails \/ FetchNull \/ FetchFails \/ TailNothing \/ Connect \/ Lag
           \/ (\E s \in Sub : Subscribe(s)) \/ UNCHANGED vars
  <2>1. /\ queue' = queue /\ got' = got /\ passed \subseteq passed' /\ lastHead' = lastHead
        /\ (lagged \/ overrun => lagged' \/ overrun') /\ (lagged => lagged')
    BY <1>1 DEF NewBlock, IndexLog, StartTail, TickFails, FetchNull, FetchFails, TailNothing, Connect,
         Lag, Subscribe, vars, conn, channel, history, rest
  <2>2. got'[Heads] = got[Heads]
    BY <2>1
  <2>3. QED
    BY <1>0, <2>1, <2>2, HeadsQuiet
<1>2. CASE TickHead
  <2>1. /\ queue' = queue /\ got'[Heads] = got[Heads] /\ passed \subseteq passed'
        /\ lagged' = lagged /\ overrun' = overrun
        /\ lastHead' = lastHead \/ (lastHead = 0 /\ lastHead' = head)
    BY <1>2 DEF TickHead, conn, channel
  <2>2. head \in Nat
    BY <1>0, FeedAssumption DEF TypeOK
  <2>3. QED
    BY <1>0, <2>1, <2>2, HeadsQuiet
<1>3. CASE FetchBlock
  <2>1. /\ poller.h \in 0..MaxHeight /\ poller.h \in Nat /\ lastHead' = poller.h
        /\ Broadcast(NewHead(poller.h)) /\ poller.at = "heads"
    BY <1>0, <1>3, FeedAssumption DEF TypeOK, Poller, FetchBlock
  <2>2. NewHead(poller.h) \in Event /\ NewHead(poller.h).head = poller.h
    BY <2>1 DEF NewHead, Event
  <2>3. /\ lastHead < poller.h
        /\ \A h \in Height : lastHead < h /\ h < poller.h => h \in passed
    BY <1>0, <2>1 DEF PollerInv
  <2>4. got' = got /\ lagged' = lagged /\ open' = open /\ passed' = passed
    BY <1>3 DEF FetchBlock, conn, history
  <2>5. QED
    BY <1>0, <2>1, <2>2, <2>3, <2>4, HeadsSend
<1>4. CASE TailLogs
  <2>1. PICK S \in Pages(TailFrom) : Broadcast(Logs(S))
    BY <1>4 DEF TailLogs
  <2>2. S \subseteq Log
    BY <1>0, <1>4, PageIsFirst DEF TailLogs, TypeOK, Indexed
  <2>3. Logs(S) \in Event /\ Logs(S).head = 0
    BY <2>2, FeedAssumption DEF Logs, Event
  <2>4. /\ got' = got /\ lagged' = lagged /\ open' = open /\ passed' = passed /\ lastHead' = lastHead
        /\ lastHead' \in Nat
    BY <1>0, <1>4, HeadNumbers DEF TailLogs, conn
  <2>5. QED
    BY <1>0, <2>1, <2>3, <2>4, HeadsSend
<1>5. ASSUME NEW s \in Sub, Unsubscribe(s) PROVE FeedInv'
  <2>1. /\ got' = [got EXCEPT ![s] = <<>>] /\ queue' = queue /\ overrun' = overrun
        /\ lagged' = lagged /\ lastHead' = lastHead /\ passed' = passed
    BY <1>5 DEF Unsubscribe, channel, rest, history
  <2>2. got \in [Sub -> Seq(Event)] /\ Heads \in Sub
    BY <1>0 DEF TypeOK, Sub
  <2>3. CASE s = Heads
    BY <1>0, <2>1, <2>2, <2>3, HeadsNone
  <2>4. CASE s # Heads
    <3>1. got'[Heads] = got[Heads]
      BY <2>1, <2>2, <2>4
    <3>2. QED
      BY <1>0, <2>1, <3>1, HeadsQuiet
  <2>5. QED
    BY <2>3, <2>4
<1>6. CASE Disconnect \/ Restart
  <2>1. queue' = <<>> /\ got'[Heads] = <<>>
    BY <1>6 DEF Disconnect, Restart, Disconnected, Sub
  <2>2. QED
    BY <1>0, <2>1, HeadsNone
<1>7. QED
  BY <1>0, <1>1, <1>2, <1>3, <1>4, <1>5, <1>6, HeadsReceive DEF Next, Poll

LEMMA HeadStep ==
  ASSUME HeadInv, [Next]_vars
  PROVE  HeadInv'
BY TypeStep, ConnStep, PollerStep, FeedStep DEF HeadInv

LEMMA HeadInit == Init => HeadInv
<1> SUFFICES ASSUME Init PROVE HeadInv
  OBVIOUS
<1>1. TypeOK /\ queue = <<>> /\ got[Heads] = <<>> /\ \A s \in Sub : got[s] = <<>>
  BY TypeInit DEF Init, Sub
<1>2. DOMAIN queue = {} /\ DOMAIN got[Heads] = {} /\ Len(got[Heads]) = 0
  BY <1>1
<1>3. PollerInv
  BY DEF Init, PollerInv, At
<1>4. ConnInv
  BY <1>1 DEF Init, ConnInv
<1>5. FeedInv
  BY <1>2 DEF FeedInv, OrderInv, ChannelCovers, PushedCovers, GapInv
<1>6. QED
  BY <1>1, <1>3, <1>4, <1>5 DEF HeadInv

\* The feeds keep their types.
THEOREM FeedTypes == Spec => []TypeOK
<1>1. HeadInv => TypeOK
  BY DEF HeadInv
<1>2. QED
  BY <1>1, HeadInit, HeadStep, PTL DEF Spec

\* A subscriber to newHeads is told of the heights in order, of each once and, if
\* its connection keeps up, of every one since the first, except those the node's
\* query missed or that lay too far behind the head: for every size of the
\* channel and of the catch-up, whatever fails, reconnects or restarts.
THEOREM HeadsComeInOrder == Spec => []HeadsInOrder
<1>1. HeadInv => HeadsInOrder
  <2> SUFFICES ASSUME HeadInv, NEW i \in 1..(Len(got[Heads]) - 1)
               PROVE  /\ got[Heads][i].head < got[Heads][i + 1].head
                      /\ lagged \/ \A h \in (got[Heads][i].head + 1)..(got[Heads][i + 1].head - 1) :
                                     h \in passed
    BY DEF HeadsInOrder
  <2>0. TypeOK /\ OrderInv /\ GapInv
    BY DEF HeadInv, FeedInv
  <2>1. /\ Len(got[Heads]) \in Nat /\ DOMAIN got[Heads] = 1..Len(got[Heads])
        /\ \A k \in DOMAIN got[Heads] : got[Heads][k].head \in Nat
        /\ lastHead \in Nat /\ lastHead <= MaxHeight /\ MaxHeight \in Nat
    BY <2>0, HeadNumbers DEF TypeOK
  <2>2. i \in DOMAIN got[Heads] /\ i + 1 \in DOMAIN got[Heads] /\ i < i + 1
    BY <2>1
  <2>3. got[Heads][i].head < got[Heads][i + 1].head /\ got[Heads][i + 1].head <= lastHead
    BY <2>0, <2>2 DEF OrderInv
  <2>4. ASSUME ~lagged, NEW h \in (got[Heads][i].head + 1)..(got[Heads][i + 1].head - 1)
        PROVE  h \in passed
    <3> DEFINE x == got[Heads][i].head
               y == got[Heads][i + 1].head
    <3>0. x \in Nat /\ y \in Nat /\ y <= MaxHeight /\ h \in (x + 1)..(y - 1)
      BY <2>1, <2>2, <2>3
    <3> HIDE DEF x, y
    <3>1. h \in Height /\ x < h /\ h < y
      BY <2>1, <3>0 DEF Height
    <3>2. QED
      BY <2>0, <2>4, <3>1 DEF GapInv, x, y
  <2>5. QED
    BY <2>3, <2>4
<1>2. QED
  BY <1>1, HeadInit, HeadStep, PTL DEF Spec

-----------------------------------------------------------------------------
(* The log tail *)

\* A page takes the tail to the greatest height in it: a log that is not in the
\* page and not behind the tail is at that height or beyond.
LEMMA TailMoves ==
  ASSUME TypeOK, Indexed(TailFrom) # {}, NEW S \in Pages(TailFrom),
         lastLogs' = Max({place[l] : l \in S})
  PROVE  /\ S \subseteq Log /\ lastLogs' \in Nat /\ lastLogs < lastLogs'
         /\ \A l \in S : place[l] \in 1..lastLogs' /\ place[l] > lastLogs
         /\ \A l \in Log : place[l] <= lastLogs' =>
              place[l] <= lastLogs \/ l \in S
              \/ (l \in Indexed(TailFrom) \ S /\ place[l] = lastLogs')
<1>0. place \in [Log -> 0..MaxHeight] /\ lastLogs \in 0..MaxHeight /\ MaxHeight \in Nat
  BY FeedAssumption DEF TypeOK
<1>1. /\ S \subseteq Indexed(TailFrom) /\ S # {}
      /\ \A l \in S, k \in Indexed(TailFrom) \ S : place[l] <= place[k]
  BY <1>0, PageIsFirst
<1>2. S \subseteq Log /\ \A l \in S : place[l] >= lastLogs + 1 /\ place[l] \in Nat
  BY <1>0, <1>1 DEF Indexed, TailFrom
<1> DEFINE P == {place[l] : l \in S}
<1>3. P \in SUBSET (0..MaxHeight) /\ P # {}
  BY <1>0, <1>1, <1>2
<1>4. \A l \in S : place[l] \in P
  OBVIOUS
<1>5. \A x \in P : \E l \in S : x = place[l]
  OBVIOUS
<1>6. lastLogs' = Max(P)
  OBVIOUS
<1> HIDE DEF P
<1>7. lastLogs' \in P /\ \A y \in P : y <= lastLogs'
  BY <1>0, <1>3, <1>6, MaxIsThere
<1>8. PICK m \in S : lastLogs' = place[m]
  BY <1>5, <1>7
<1>9. lastLogs' \in Nat /\ lastLogs < lastLogs'
  BY <1>0, <1>2, <1>8
<1>10. \A l \in S : place[l] \in 1..lastLogs' /\ place[l] > lastLogs
  BY <1>0, <1>2, <1>4, <1>7, <1>9
<1>11. ASSUME NEW l \in Log, place[l] <= lastLogs', ~(place[l] <= lastLogs), l \notin S
       PROVE  l \in Indexed(TailFrom) \ S /\ place[l] = lastLogs'
  <2>1. place[l] \in Nat
    BY <1>0
  <2>2. l \in Indexed(TailFrom) \ S
    BY <1>0, <1>11, <2>1 DEF Indexed, TailFrom
  <2>3. place[m] <= place[l]
    BY <1>1, <2>2
  <2>4. QED
    BY <1>8, <1>9, <1>11, <2>1, <2>2, <2>3
<1>12. QED
  BY <1>2, <1>9, <1>10, <1>11

\* Only the tail, the index and a restart touch what the tail's properties speak of.
LEMMA TailSame ==
  ASSUME [Next]_vars, ~(\E h \in Height, l \in Log : IndexLog(l, h)), ~StartTail, ~TailLogs, ~Restart
  PROVE  UNCHANGED <<place, lastLogs, missed, sent, moved>> /\ (poller'.at = "start" => poller.at = "start")
<1>1. CASE UNCHANGED vars
  BY <1>1 DEF vars, history
<1>2. CASE NewBlock \/ Connect \/ Receive \/ Lag \/ Disconnect
           \/ (\E s \in Sub : Subscribe(s) \/ Unsubscribe(s))
  BY <1>2 DEF NewBlock, Connect, Receive, Lag, Disconnect, Subscribe, Unsubscribe, rest, history
<1>3. CASE TickHead \/ TickFails \/ FetchBlock \/ FetchNull \/ FetchFails \/ TailNothing
  <2>1. UNCHANGED <<place, lastLogs, missed, sent, moved>>
    BY <1>3 DEF TickHead, TickFails, FetchBlock, FetchNull, FetchFails, TailNothing, history
  <2>2. \/ poller' = At("logs") \/ poller' = At("tick")
        \/ \E h, height : poller' = [at |-> "heads", height |-> height, h |-> h]
    BY <1>3 DEF TickHead, TickFails, FetchBlock, FetchNull, FetchFails, TailNothing, Loop
  <2>3. poller'.at # "start"
    BY <2>2 DEF At
  <2>4. QED
    BY <2>1, <2>3
<1>4. QED
  BY <1>1, <1>2, <1>3 DEF Next, Poll

LEMMA TailStep ==
  ASSUME TypeOK, PollerInv, TailLeavesNone, [Next]_vars
  PROVE  TailLeavesNone'
<1>0. place \in [Log -> 0..MaxHeight] /\ lastLogs \in Nat
  BY FeedAssumption DEF TypeOK
<1>1. ASSUME NEW h \in Height, NEW l \in Log, IndexLog(l, h) PROVE TailLeavesNone'
  <2>1. /\ place' = [place EXCEPT ![l] = h] /\ lastLogs' = lastLogs /\ sent' = sent
        /\ missed' = IF h <= lastLogs THEN missed \cup {l} ELSE missed
    BY <1>1 DEF IndexLog
  <2>2. \A k \in Log : k # l => place'[k] = place[k]
    BY <1>0, <2>1
  <2>3. place'[l] = h /\ missed \subseteq missed'
    BY <1>0, <2>1
  <2>4. place'[l] \in 1..lastLogs => l \in missed'
    BY <1>0, <2>1, <2>3
  <2>5. QED
    BY <2>1, <2>2, <2>3, <2>4 DEF TailLeavesNone
<1>2. CASE StartTail
  BY <1>2 DEF StartTail, TailLeavesNone
<1>3. CASE TailLogs
  <2>1. PICK S \in Pages(TailFrom) :
          /\ sent' = sent \cup S /\ lastLogs' = Max({place[l] : l \in S})
          /\ missed' = missed \cup {l \in Indexed(TailFrom) \ S : place[l] = lastLogs'}
    BY <1>3 DEF TailLogs
  <2>2. place' = place /\ Indexed(TailFrom) # {}
    BY <1>3 DEF TailLogs
  <2>3. /\ lastLogs' \in Nat
        /\ \A l \in Log : place[l] <= lastLogs' =>
             place[l] <= lastLogs \/ l \in S
             \/ (l \in Indexed(TailFrom) \ S /\ place[l] = lastLogs')
    BY <2>1, <2>2, TailMoves
  <2> SUFFICES ASSUME NEW l \in Log, place[l] \in 1..lastLogs' PROVE l \in missed' \cup sent'
    BY <2>2 DEF TailLeavesNone
  <2>4. place[l] \in Nat /\ place[l] <= lastLogs' /\ 1 <= place[l]
    BY <2>3
  <2>5. CASE place[l] <= lastLogs
    <3>1. place[l] \in 1..lastLogs
      BY <1>0, <2>4, <2>5
    <3>2. QED
      BY <2>1, <3>1 DEF TailLeavesNone
  <2>6. CASE l \in S \/ (l \in Indexed(TailFrom) \ S /\ place[l] = lastLogs')
    BY <2>1, <2>6
  <2>7. QED
    BY <2>3, <2>4, <2>5, <2>6
<1>4. CASE Restart
  <2>1. lastLogs' = 0
    BY <1>4 DEF Restart
  <2>2. QED
    BY <2>1 DEF TailLeavesNone
<1>5. CASE UNCHANGED <<place, lastLogs, missed, sent, moved>>
  BY <1>5 DEF TailLeavesNone
<1>6. QED
  BY <1>1, <1>2, <1>3, <1>4, <1>5, TailSame

\* Every log at a height the tail has passed was announced, unless it was indexed
\* behind the tail or cut off at the end of a full page: for every page size.
THEOREM TailLeavesNothing == Spec => []TailLeavesNone
<1> DEFINE Inv == HeadInv /\ TailLeavesNone
<1>1. Init => Inv
  <2> SUFFICES ASSUME Init PROVE Inv
    OBVIOUS
  <2>1. TailLeavesNone
    BY DEF Init, TailLeavesNone
  <2>2. QED
    BY <2>1, HeadInit
<1>2. Inv /\ [Next]_vars => Inv'
  BY HeadStep, TailStep DEF HeadInv
<1>3. Inv => TailLeavesNone
  OBVIOUS
<1>4. QED
  BY <1>1, <1>2, <1>3, PTL DEF Spec

-----------------------------------------------------------------------------
(* Logs are pushed once *)

LogInv == FromTail /\ OneEvent /\ LogsOnce

\* The tail stays past what it has sent.
LEMMA BehindStep ==
  ASSUME TypeOK, BehindTail, [Next]_vars
  PROVE  BehindTail'
<1>0. place \in [Log -> 0..MaxHeight] /\ lastLogs \in Nat /\ MaxHeight \in Nat
  BY FeedAssumption DEF TypeOK
<1>1. ASSUME NEW h \in Height, NEW l \in Log, IndexLog(l, h) PROVE BehindTail'
  <2>1. place' = [place EXCEPT ![l] = h] /\ UNCHANGED <<lastLogs, sent, poller>>
    BY <1>1 DEF IndexLog
  <2>2. moved \subseteq moved' /\ (place[l] # 0 => l \in moved')
    BY <1>1 DEF IndexLog
  <2>3. \A k \in sent \ moved' : k # l /\ place[k] \in 1..lastLogs
    BY <1>0, <2>2 DEF BehindTail
  <2>4. \A k \in sent \ moved' : place'[k] = place[k]
    BY <1>0, <2>1, <2>3 DEF TypeOK
  <2>5. QED
    BY <2>1, <2>3, <2>4 DEF BehindTail
<1>2. CASE StartTail
  <2>1. poller.at = "start" /\ sent' = sent /\ poller' = At("tick")
    BY <1>2 DEF StartTail
  <2>2. sent' = {}
    BY <2>1 DEF BehindTail
  <2>3. QED
    BY <2>2 DEF BehindTail
<1>3. CASE TailLogs
  <2>1. PICK S \in Pages(TailFrom) : sent' = sent \cup S /\ lastLogs' = Max({place[l] : l \in S})
    BY <1>3 DEF TailLogs
  <2>2. place' = place /\ moved' = moved /\ poller' = At("tick") /\ Indexed(TailFrom) # {}
    BY <1>3 DEF TailLogs
  <2>3. /\ lastLogs' \in Nat /\ lastLogs < lastLogs'
        /\ \A l \in S : place[l] \in 1..lastLogs'
    BY <2>1, <2>2, TailMoves
  <2>4. \A l \in sent' \ moved' : place'[l] \in 1..lastLogs'
    <3> SUFFICES ASSUME NEW l \in sent' \ moved' PROVE place[l] \in 1..lastLogs'
      BY <2>2
    <3>1. CASE l \in S
      BY <2>3, <3>1
    <3>2. CASE l \in sent
      <4>1. place[l] \in 1..lastLogs
        BY <2>2, <3>2 DEF BehindTail
      <4>2. QED
        BY <1>0, <2>3, <4>1
    <3>3. QED
      BY <2>1, <3>1, <3>2
  <2>5. poller'.at # "start"
    BY <2>2 DEF At
  <2>6. QED
    BY <2>4, <2>5 DEF BehindTail
<1>4. CASE Restart
  <2>1. sent' = {}
    BY <1>4 DEF Restart
  <2>2. QED
    BY <2>1 DEF BehindTail
<1>5. CASE UNCHANGED <<place, lastLogs, missed, sent, moved>> /\ (poller'.at = "start" => poller.at = "start")
  BY <1>5 DEF BehindTail
<1>6. QED
  BY <1>1, <1>2, <1>3, <1>4, <1>5, TailSame

\* A step that sends and pushes nothing.
LEMMA LogsQuiet ==
  ASSUME LogInv, queue' = queue \/ queue' = <<>>, sent \subseteq sent' \/ queue' = <<>>,
         \A f \in Filter : got'[f] = <<>> \/ (got'[f] = got[f] /\ sent \subseteq sent'),
         moved \subseteq moved' \/ \A f \in Filter : got'[f] = <<>>,
         moved \subseteq moved' \/ queue' = <<>>
  PROVE  LogInv'
<1>0. FromTail /\ OneEvent /\ LogsOnce
  BY DEF LogInv
<1>1. DOMAIN queue' = {} \/ queue' = queue
  OBVIOUS
<1>2. \A f \in Filter : DOMAIN got'[f] = {} \/ (got'[f] = got[f] /\ sent \subseteq sent' /\ moved \subseteq moved')
  <2> SUFFICES ASSUME NEW f \in Filter, got'[f] # <<>>
               PROVE  got'[f] = got[f] /\ sent \subseteq sent' /\ moved \subseteq moved'
    OBVIOUS
  <2>1. QED
    OBVIOUS
<1>3. FromTail'
  BY <1>0, <1>1, <1>2 DEF FromTail
<1>4. OneEvent'
  BY <1>0, <1>1, <1>2 DEF OneEvent
<1>5. LogsOnce'
  BY <1>0, <1>1, <1>2 DEF LogsOnce
<1>6. QED
  BY <1>3, <1>4, <1>5 DEF LogInv

\* The poller sends an event: of its logs, those that have not moved were not
\* sent before.
LEMMA LogsSend ==
  ASSUME TypeOK, LogInv, NEW ev \in Event, Broadcast(ev), got' = got, moved' = moved,
         sent' = sent \cup ev.logs, \A l \in ev.logs : l \in sent => l \in moved
  PROVE  LogInv'
<1>0. FromTail /\ OneEvent /\ LogsOnce
  BY DEF LogInv
<1>1. LogsOnce' /\ \A f \in Filter : \A i \in DOMAIN got'[f] : got'[f][i].logs \subseteq sent'
  BY <1>0 DEF FromTail, LogsOnce
<1>2. CASE queue' = queue
  BY <1>0, <1>2, LogsQuiet
<1>3. ASSUME NEW d \in 0..1, Shifted(d, ev) PROVE LogInv'
  <2> DEFINE n == Len(queue)
             new == n - d + 1
  <2>1. /\ n \in Nat /\ d <= n /\ queue \in Seq(Event) /\ DOMAIN queue = 1..n
        /\ queue' \in Seq(Event) /\ Len(queue') = new
        /\ \A j \in 1..(n - d) : queue'[j] = queue[j + d]
        /\ queue'[new] = ev
    BY <1>3, BroadcastShifts, LenProperties DEF Shifted, TypeOK
  <2>2. DOMAIN queue' = 1..new
    BY <2>1
  <2> HIDE DEF n
  <2>3. \A j \in DOMAIN queue' : j # new => j + d \in DOMAIN queue /\ queue'[j] = queue[j + d]
    BY <2>1, <2>2
  <2>4. \A j, k \in DOMAIN queue' : j + d = k + d => j = k
    BY <2>2
  <2> HIDE DEF new
  <2>5. \A j \in DOMAIN queue' : j # new => queue'[j].logs \subseteq sent
    BY <1>0, <2>3 DEF FromTail
  <2>6. \A l \in ev.logs : \A j \in DOMAIN queue' : j # new /\ l \in queue'[j].logs => l \in moved
    BY <2>5
  <2>7. FromTail'
    BY <1>1, <2>1, <2>5 DEF FromTail
  <2>8. ASSUME NEW j \in DOMAIN queue', NEW k \in DOMAIN queue',
               NEW l \in queue'[j].logs \cap queue'[k].logs, l \notin moved
        PROVE  j = k
    <3>1. CASE j = new \/ k = new
      BY <2>1, <2>6, <2>8, <3>1
    <3>2. CASE j # new /\ k # new
      <4>1. j + d = k + d
        BY <1>0, <2>3, <2>8, <3>2 DEF OneEvent
      <4>2. QED
        BY <2>4, <4>1
    <3>3. QED
      BY <3>1, <3>2
  <2>9. ASSUME NEW f \in Filter, NEW i \in DOMAIN got[f], NEW j \in DOMAIN queue',
               NEW l \in got[f][i].logs \cap queue'[j].logs
        PROVE  l \in moved
    <3>1. CASE j = new
      BY <1>0, <2>1, <3>1 DEF FromTail
    <3>2. CASE j # new
      BY <1>0, <2>3, <3>2 DEF OneEvent
    <3>3. QED
      BY <3>1, <3>2
  <2>10. OneEvent'
    BY <2>8, <2>9 DEF OneEvent
  <2>11. QED
    BY <1>1, <2>7, <2>10 DEF LogInv
<1>4. QED
  BY <1>2, <1>3, BroadcastShifts

\* The oldest event is received: its logs go to the filters that match them.
LEMMA LogsReceive ==
  ASSUME TypeOK, LogInv, Receive
  PROVE  LogInv'
<1>0. FromTail /\ OneEvent /\ LogsOnce
  BY DEF LogInv
<1> DEFINE ev == queue[1]
<1>1. /\ Head(queue) = ev /\ ev \in Event /\ 1 \in DOMAIN queue
      /\ \A j \in DOMAIN queue' : j + 1 \in DOMAIN queue /\ queue'[j] = queue[j + 1]
      /\ queue' \in Seq(Event)
  BY QueueTail DEF Receive
<1>2. sent' = sent /\ moved' = moved
  BY DEF Receive, rest, history
<1>3. DOMAIN queue' = 1..Len(queue') /\ Len(queue') \in Nat
  BY <1>1, LenProperties
<1>4. \A j \in DOMAIN queue' : j + 1 # 1 /\ \A k \in DOMAIN queue' : j + 1 = k + 1 => j = k
  BY <1>3
<1>5. ev.logs \subseteq sent /\ ev.logs \subseteq Log
  BY <1>0, <1>1 DEF FromTail, Event
<1>6. \A l \in ev.logs : \A j \in DOMAIN queue' : l \in queue'[j].logs => l \in moved
  BY <1>0, <1>1, <1>4 DEF OneEvent
<1>7. \A f \in Filter : \A i \in DOMAIN got[f] : \A l \in got[f][i].logs \cap ev.logs : l \in moved
  BY <1>0, <1>1 DEF OneEvent
<1> HIDE DEF ev
\* What a filter has got: what it had, and perhaps the matching logs of the event.
<1>8. ASSUME NEW f \in Filter
      PROVE  \/ got'[f] = got[f]
             \/ \E S \in SUBSET ev.logs :
                  /\ \A l \in S : Selected(f, l)
                  /\ got'[f] = Append(got[f], Logs(S))
  <2>1. f \in Sub /\ f # Heads /\ got[f] \in Seq(Event)
    BY FeedAssumption DEF Sub, TypeOK
  <2>2. got'[f] = IF f \in subs THEN got[f] \o Pushed(f, ev) ELSE got[f]
    BY <1>1, <2>1 DEF Receive
  <2> DEFINE S == {l \in ev.logs : LogMatches(f, l)}
  <2>3. Pushed(f, ev) = IF S = {} THEN <<>> ELSE <<Logs(S)>>
    BY <2>1 DEF Pushed
  <2>4. S \subseteq ev.logs /\ \A l \in S : Selected(f, l)
    BY <1>5, SameCondition
  <2>5. Logs(S) \in Event
    BY <1>5, FeedAssumption DEF Logs, Event
  <2> HIDE DEF S
  <2>6. got[f] \o <<>> = got[f] /\ got[f] \o <<Logs(S)>> = Append(got[f], Logs(S))
    BY <2>1, <2>5, ConcatEmptySeq
  <2>7. QED
    BY <2>2, <2>3, <2>4, <2>6
\* Position by position.
<1>9. ASSUME NEW f \in Filter
      PROVE  \E last \in Nat : \A i \in DOMAIN got'[f] :
               \/ i \in DOMAIN got[f] /\ got'[f][i] = got[f][i]
               \/ /\ i = last /\ got'[f][i].logs \subseteq ev.logs
                  /\ \A l \in got'[f][i].logs : Selected(f, l)
  <2>1. CASE got'[f] = got[f]
    BY <2>1
  <2>2. ASSUME NEW S \in SUBSET ev.logs, \A l \in S : Selected(f, l),
               got'[f] = Append(got[f], Logs(S))
        PROVE  \A i \in DOMAIN got'[f] :
                 \/ i \in DOMAIN got[f] /\ got'[f][i] = got[f][i]
                 \/ /\ i = Len(got[f]) + 1 /\ got'[f][i].logs \subseteq ev.logs
                    /\ \A l \in got'[f][i].logs : Selected(f, l)
    <3>0. got[f] \in Seq(Event)
      BY DEF Sub, TypeOK
    <3>1. Logs(S) \in Event
      BY <1>5, FeedAssumption DEF Logs, Event
    <3>2. Logs(S).logs = S
      BY DEF Logs
    <3> DEFINE g == got[f]
               x == Logs(S)
    <3>3. g \in Seq(Event) /\ x \in Event /\ got'[f] = Append(g, x) /\ Len(g) \in Nat
      BY <2>2, <3>0, <3>1, LenProperties
    <3> HIDE DEF g, x
    <3>4. /\ DOMAIN got'[f] = 1..(Len(g) + 1) /\ DOMAIN g = 1..Len(g)
          /\ \A i \in 1..Len(g) : got'[f][i] = g[i]
          /\ got'[f][Len(g) + 1] = x
      BY <3>3, AppendProperties, LenProperties
    <3>5. \A i \in DOMAIN got'[f] : i \in DOMAIN g \/ i = Len(g) + 1
      BY <3>3, <3>4
    <3>6. QED
      BY <2>2, <3>2, <3>4, <3>5 DEF g, x
  <2>3. Len(got[f]) + 1 \in Nat
    BY LenProperties DEF Sub, TypeOK
  <2>4. QED
    BY <1>8, <2>1, <2>2, <2>3
<1>10. FromTail'
  BY <1>0, <1>1, <1>2, <1>5, <1>9 DEF FromTail
<1>11. OneEvent'
  <2>1. ASSUME NEW j \in DOMAIN queue', NEW k \in DOMAIN queue',
               NEW l \in queue'[j].logs \cap queue'[k].logs, l \notin moved
        PROVE  j = k
    <3>1. j + 1 = k + 1
      BY <1>0, <1>1, <2>1 DEF OneEvent
    <3>2. QED
      BY <1>4, <3>1
  <2>2. ASSUME NEW f \in Filter, NEW i \in DOMAIN got'[f], NEW j \in DOMAIN queue',
               NEW l \in got'[f][i].logs \cap queue'[j].logs
        PROVE  l \in moved
    <3>1. \/ i \in DOMAIN got[f] /\ got'[f][i] = got[f][i]
          \/ got'[f][i].logs \subseteq ev.logs
      BY <1>9
    <3>2. CASE i \in DOMAIN got[f] /\ got'[f][i] = got[f][i]
      BY <1>0, <1>1, <3>2 DEF OneEvent
    <3>3. CASE got'[f][i].logs \subseteq ev.logs
      BY <1>6, <3>3
    <3>4. QED
      BY <3>1, <3>2, <3>3
  <2>3. QED
    BY <1>2, <2>1, <2>2 DEF OneEvent
<1>12. LogsOnce'
  <2> SUFFICES ASSUME NEW f \in Filter, NEW i \in DOMAIN got'[f], NEW l \in got'[f][i].logs
               PROVE  /\ Selected(f, l)
                      /\ l \notin moved => \A j \in DOMAIN got'[f] : j # i => l \notin got'[f][j].logs
    BY <1>2 DEF LogsOnce
  <2>1. PICK last \in Nat : \A k \in DOMAIN got'[f] :
               \/ k \in DOMAIN got[f] /\ got'[f][k] = got[f][k]
               \/ /\ k = last /\ got'[f][k].logs \subseteq ev.logs
                  /\ \A m \in got'[f][k].logs : Selected(f, m)
    BY <1>9
  <2>2. Selected(f, l)
    BY <1>0, <2>1 DEF LogsOnce
  <2>3. ASSUME l \notin moved, NEW j \in DOMAIN got'[f], j # i, l \in got'[f][j].logs
        PROVE  FALSE
    BY <1>0, <1>7, <2>1, <2>3 DEF LogsOnce
  <2>4. QED
    BY <2>2, <2>3
<1>13. QED
  BY <1>10, <1>11, <1>12 DEF LogInv

LEMMA LogStep ==
  ASSUME TypeOK, BehindTail, LogInv, [Next]_vars
  PROVE  LogInv'
<1>0. got \in [Sub -> Seq(Event)] /\ Filter \subseteq Sub
  BY DEF TypeOK, Sub
<1>1. CASE \/ NewBlock \/ (\E h \in Height, l \in Log : IndexLog(l, h)) \/ StartTail \/ TickHead
           \/ TickFails \/ FetchNull \/ FetchFails \/ TailNothing \/ Connect \/ Lag
           \/ (\E s \in Sub : Subscribe(s)) \/ UNCHANGED vars
  <2>1. queue' = queue /\ got' = got /\ sent' = sent /\ moved \subseteq moved'
    BY <1>1 DEF NewBlock, IndexLog, StartTail, TickHead, TickFails, FetchNull, FetchFails, TailNothing,
         Connect, Lag, Subscribe, vars, conn, channel, history, rest
  <2>2. QED
    BY <2>1, LogsQuiet
<1>2. CASE FetchBlock
  <2>1. /\ poller.h \in 0..MaxHeight /\ Broadcast(NewHead(poller.h)) /\ got' = got
        /\ moved' = moved /\ sent' = sent
    BY <1>2 DEF TypeOK, Poller, FetchBlock, conn, history
  <2>2. NewHead(poller.h) \in Event /\ NewHead(poller.h).logs = {}
    BY <2>1 DEF NewHead, Event
  <2>3. QED
    BY <2>1, <2>2, LogsSend
<1>3. CASE TailLogs
  <2>1. PICK S \in Pages(TailFrom) :
          Broadcast(Logs(S)) /\ sent' = sent \cup S /\ lastLogs' = Max({place[l] : l \in S})
    BY <1>3 DEF TailLogs
  <2>2. got' = got /\ moved' = moved /\ Indexed(TailFrom) # {}
    BY <1>3 DEF TailLogs, conn
  <2>3. S \subseteq Log /\ \A l \in S : place[l] > lastLogs
    BY <2>1, <2>2, TailMoves
  <2>4. Logs(S) \in Event /\ Logs(S).logs = S
    BY <2>3, FeedAssumption DEF Logs, Event
  <2>5. lastLogs \in Nat /\ \A l \in Log : place[l] \in Nat
    BY FeedAssumption DEF TypeOK
  <2>6. \A l \in S : l \in sent => l \in moved
    BY <2>3, <2>5 DEF BehindTail
  <2>7. QED
    BY <2>1, <2>2, <2>4, <2>6, LogsSend
<1>4. CASE Receive
  BY <1>4, LogsReceive
<1>5. ASSUME NEW s \in Sub, Unsubscribe(s) PROVE LogInv'
  <2>1. got' = [got EXCEPT ![s] = <<>>] /\ queue' = queue /\ sent' = sent /\ moved' = moved
    BY <1>5 DEF Unsubscribe, channel, rest, history
  <2>2. \A f \in Filter : got'[f] = <<>> \/ got'[f] = got[f]
    BY <1>0, <2>1
  <2>3. QED
    BY <2>1, <2>2, LogsQuiet
<1>6. CASE Disconnect \/ Restart
  <2>1. queue' = <<>> /\ \A f \in Filter : got'[f] = <<>>
    BY <1>0, <1>6 DEF Disconnect, Restart, Disconnected
  <2>2. QED
    BY <2>1, LogsQuiet
<1>7. QED
  BY <1>1, <1>2, <1>3, <1>4, <1>5, <1>6 DEF Next, Poll

\* A log that stays in its block is pushed at most once for a subscription, and
\* only if eth_getLogs with the same filter would return it: for every set of
\* logs and filters, every page size and every size of the channel, whatever
\* lags, reconnects or restarts.
THEOREM LogsComeOnce == Spec => []LogsOnce
<1> DEFINE Inv == HeadInv /\ BehindTail /\ LogInv
<1>1. Init => Inv
  <2> SUFFICES ASSUME Init PROVE Inv
    OBVIOUS
  <2>1. DOMAIN queue = {} /\ \A f \in Filter : DOMAIN got[f] = {}
    BY DEF Init, Sub
  <2>2. BehindTail
    BY DEF Init, BehindTail
  <2>3. LogInv
    BY <2>1 DEF LogInv, FromTail, OneEvent, LogsOnce
  <2>4. QED
    BY <2>2, <2>3, HeadInit
<1>2. Inv /\ [Next]_vars => Inv'
  <2>1. HeadInv => TypeOK
    BY DEF HeadInv
  <2>2. QED
    BY <2>1, HeadStep, BehindStep, LogStep
<1>3. Inv => LogsOnce
  BY DEF LogInv
<1>4. QED
  BY <1>1, <1>2, <1>3, PTL DEF Spec
==============================================================================
