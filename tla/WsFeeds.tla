------------------------------- MODULE WsFeeds -------------------------------
(***************************************************************************)
(* The WebSocket subscriptions (ws.rs): run_pollers, which announces new   *)
(* heads and newly indexed logs on a broadcast channel, and the            *)
(* connections, each with its place in the channel and its subscriptions.  *)
(*                                                                         *)
(* A block becomes visible to the REST query some time after it has become *)
(* the head, blocks in any order: a query may or may not find one.  The    *)
(* log index (db.rs) is filled by Indexing, in any order of heights.       *)
(***************************************************************************)
EXTENDS Naturals, Sequences, FiniteSets, SequencesExt, FiniteSetsExt

CONSTANTS
  MaxHeight,  \* bound: blocks
  CatchUp,    \* 10: heights the head feed goes back from the head
  PageSize,   \* 1000: rows of one query of the log tail
  ChanSize,   \* 256: events the broadcast channel retains
  Log,        \* logs, each a record of its address and topics
  Filter,     \* filters clients subscribe with
  LogHeight,  \* heights of blocks with logs
  MaxSubs,    \* bound: subscriptions a connection holds
  Heads,      \* the subscription "newHeads"
  MaxFaults   \* bound: restarts and logs that move to another block

ASSUME FeedAssumption ==
  /\ MaxHeight \in Nat \ {0} /\ CatchUp \in Nat /\ MaxFaults \in Nat
  /\ PageSize \in Nat \ {0} /\ ChanSize \in Nat \ {0}
  /\ LogHeight \subseteq 1..MaxHeight /\ MaxSubs \in Nat
  /\ IsFiniteSet(Log) /\ \A l \in Log : l.topics \in Seq(Range(l.topics))
  /\ Heads \notin Filter

Height == 1..MaxHeight
Sub == {Heads} \cup Filter

VARIABLES
  head,       \* the node's head_topology.height
  place,      \* the log index: height of each log, 0 if it is not there
  poller,     \* where run_pollers is, with the height it read and the next one
  lastHead,   \* last_head
  lastLogs,   \* last_logs_height
  open,       \* there is a connection
  queue,      \* events in ws_events it has not received, oldest first
  overrun,    \* the channel has dropped events it has not received
  subs,       \* its subscriptions
  got,        \* history: what was pushed for a subscription
  lagged,     \* history: the connection has missed events
  passed,     \* history: heights a query missed, or that were too far behind
  missed,     \* history: logs indexed behind the tail, or cut off its page
  sent,       \* history: logs the tail has announced
  moved,      \* history: logs that changed their block
  faults      \* history: number of faults

conn == <<open, subs, got, lagged>>
channel == <<queue, overrun>>
history == <<passed, missed, sent, moved, faults>>
vars == <<head, place, poller, lastHead, lastLogs, channel, conn, history>>

Poller == [at : {"start", "tick", "heads", "logs"}, height : 0..MaxHeight, h : 0..MaxHeight]
At(pc) == [at |-> pc, height |-> 0, h |-> 0]

NewHead(h) == [head |-> h, logs |-> {}]
Logs(S) == [head |-> 0, logs |-> S]
Event == [head : 0..MaxHeight, logs : SUBSET Log]

TypeOK ==
  /\ head \in 0..MaxHeight /\ place \in [Log -> 0..MaxHeight]
  /\ poller \in Poller /\ lastHead \in 0..MaxHeight /\ lastLogs \in 0..MaxHeight
  /\ queue \in Seq(Event) /\ Len(queue) <= ChanSize /\ overrun \in BOOLEAN
  /\ open \in BOOLEAN /\ subs \subseteq Sub /\ got \in [Sub -> Seq(Event)] /\ lagged \in BOOLEAN
  /\ passed \subseteq Height /\ missed \subseteq Log /\ sent \subseteq Log /\ moved \subseteq Log
  /\ faults \in 0..MaxFaults

\* The proxy starts on a chain that has a past; the index may fill before the
\* tail starts.
Init ==
  /\ head = 1 /\ place = [l \in Log |-> 0]
  /\ poller = At("start") /\ lastHead = 0 /\ lastLogs = 0
  /\ queue = <<>> /\ overrun = FALSE
  /\ open = FALSE /\ subs = {} /\ got = [s \in Sub |-> <<>>] /\ lagged = FALSE
  /\ passed = {} /\ missed = {} /\ sent = {} /\ moved = {} /\ faults = 0

-----------------------------------------------------------------------------
(* The node and the index *)

\* The head that get_head_info reports goes up.  A switch to a shorter fork is
\* left out: TailHead waits until the head is past the last one it announced.
NewBlock ==
  /\ head < MaxHeight /\ head' = head + 1
  /\ UNCHANGED <<place, poller, lastHead, lastLogs, channel, conn, history>>

\* A log is indexed, or its transaction is indexed again in another block.  The
\* tail never sees it if it is past that height.
IndexLog(l, h) ==
  /\ h \in LogHeight /\ h <= head /\ place[l] # h
  /\ place' = [place EXCEPT ![l] = h]
  /\ IF place[l] = 0 THEN UNCHANGED <<moved, faults>>
     ELSE /\ faults < MaxFaults /\ faults' = faults + 1
          /\ moved' = moved \cup {l}
  /\ missed' = IF h <= lastLogs THEN missed \cup {l} ELSE missed
  /\ UNCHANGED <<head, poller, lastHead, lastLogs, channel, conn, passed, sent>>

-----------------------------------------------------------------------------
(* query_logs and log_matches *)

\* The condition of the query: address IN (...) AND topic_i IN (...), where a
\* missing topic is NULL and an empty list no condition.
Selected(f, l) ==
  /\ f.addresses # {} => l.address \in f.addresses
  /\ \A i \in 1..4 : f.topics[i] # {} => i \in DOMAIN l.topics /\ l.topics[i] \in f.topics[i]

\* Mutant: a log with fewer topics than the filter names matches.
LogMatchesShort(f, l) ==
  /\ f.addresses = {} \/ \E a \in f.addresses : a = l.address
  /\ \A i \in DOMAIN l.topics : f.topics[i] # {} => \E t \in f.topics[i] : t = l.topics[i]

\* log_matches: the same on the event.
LogMatches(f, l) ==
  /\ f.addresses = {} \/ \E a \in f.addresses : a = l.address
  /\ \A i \in 1..4 :
       \/ f.topics[i] = {}
       \/ i <= Len(l.topics) /\ \E t \in f.topics[i] : t = l.topics[i]

Indexed(from) == {l \in Log : place[l] >= from}

\* Mutant: rows come in any order.
PagesUnordered(from) ==
  LET n == Cardinality(Indexed(from))
  IN kSubset(IF n < PageSize THEN n ELSE PageSize, Indexed(from))

\* Results of query_logs without an upper bound: the first rows by height,
\* within a height by hash.
Pages(from) ==
  LET n == Cardinality(Indexed(from))
  IN {S \in kSubset(IF n < PageSize THEN n ELSE PageSize, Indexed(from)) :
        \A l \in S, k \in Indexed(from) \ S : place[l] <= place[k]}

-----------------------------------------------------------------------------
(* run_pollers *)

\* broadcast::send: without a receiver the event is lost; the channel retains
\* the last ChanSize events.
Broadcast(ev) ==
  IF ~open THEN UNCHANGED channel
  ELSE /\ queue' = Append(IF Len(queue) < ChanSize THEN queue ELSE Tail(queue), ev)
       /\ overrun' = (overrun \/ Len(queue) = ChanSize)

\* The log tail starts at max_indexed_height, or at 0 if the query fails.
StartTail ==
  /\ poller.at = "start"
  /\ lastLogs' \in {0, Max({0} \cup {place[l] : l \in Log})}
  /\ missed' = {l \in Log : place[l] \in 1..lastLogs'}
  /\ poller' = At("tick")
  /\ UNCHANGED <<head, place, lastHead, channel, conn, passed, sent, moved, faults>>

\* The first height to announce.
From(last, height) == Max({last + 1, IF height > CatchUp THEN height - CatchUp ELSE 0})

\* Mutant: the loop leaves out the height that was read.
LoopExclusive(h, height) ==
  IF h < height THEN [at |-> "heads", height |-> height, h |-> h] ELSE At("logs")

\* The loop over the heights, up to and with the one that was read.
Loop(h, height) ==
  IF h <= height THEN [at |-> "heads", height |-> height, h |-> h] ELSE At("logs")

\* A tick whose head_height succeeds.  The first observation is not announced.
TickHead ==
  /\ poller.at = "tick"
  /\ lastHead' = IF lastHead = 0 THEN head ELSE lastHead
  /\ LET from == From(lastHead', head)
     IN /\ poller' = Loop(from, head)
        /\ passed' = passed \cup {h \in Height : lastHead' < h /\ h < from}
  /\ UNCHANGED <<head, place, lastLogs, channel, conn, missed, sent, moved, faults>>

TickFails ==
  /\ poller.at = "tick" /\ poller' = At("logs")
  /\ UNCHANGED <<head, place, lastHead, lastLogs, channel, conn, history>>

\* The block is visible to the query and is announced.
FetchBlock ==
  /\ poller.at = "heads"
  /\ Broadcast(NewHead(poller.h))
  /\ lastHead' = poller.h
  /\ poller' = Loop(poller.h + 1, poller.height)
  /\ UNCHANGED <<head, place, lastLogs, conn, history>>

\* fetch_block_as_eth_object answers null: the block is not visible or the
\* query failed.  The loop goes on with the next height.
FetchNull ==
  /\ poller.at = "heads"
  /\ passed' = passed \cup {poller.h}
  /\ poller' = Loop(poller.h + 1, poller.height)
  /\ UNCHANGED <<head, place, lastHead, lastLogs, channel, conn, missed, sent, moved, faults>>

\* Mutant: the loop goes on after an error.
FetchFailsOn ==
  /\ poller.at = "heads"
  /\ poller' = Loop(poller.h + 1, poller.height)
  /\ UNCHANGED <<head, place, lastHead, lastLogs, channel, conn, history>>

\* The index fails: the loop ends and the height is tried again at the next tick.
FetchFails ==
  /\ poller.at = "heads"
  /\ poller' = At("logs")
  /\ UNCHANGED <<head, place, lastHead, lastLogs, channel, conn, history>>

\* The height the next page starts with.
TailFrom == lastLogs + 1

\* The log tail announces a page and moves to the highest height in it.
TailLogs ==
  /\ poller.at = "logs" /\ Indexed(TailFrom) # {}
  /\ \E S \in Pages(TailFrom) :
       /\ Broadcast(Logs(S)) /\ sent' = sent \cup S
       /\ lastLogs' = Max({place[l] : l \in S})
       /\ missed' = missed \cup {l \in Indexed(TailFrom) \ S : place[l] = lastLogs'}
  /\ poller' = At("tick")
  /\ UNCHANGED <<head, place, lastHead, conn, passed, moved, faults>>

\* The query fails or finds nothing.
TailNothing ==
  /\ poller.at = "logs" /\ poller' = At("tick")
  /\ UNCHANGED <<head, place, lastHead, lastLogs, channel, conn, history>>

-----------------------------------------------------------------------------
(* connection, handle_request, push_event *)

rest == <<head, place, poller, lastHead, lastLogs, history>>

\* A client connects: the receiver sees what is sent from now on.
Connect ==
  /\ ~open /\ open' = TRUE
  /\ UNCHANGED <<channel, subs, got, lagged, rest>>

Subscribe(s) ==
  /\ open /\ s \notin subs /\ Cardinality(subs) < MaxSubs
  /\ subs' = subs \cup {s}
  /\ UNCHANGED <<open, channel, got, lagged, rest>>

Unsubscribe(s) ==
  /\ s \in subs
  /\ subs' = subs \ {s} /\ got' = [got EXCEPT ![s] = <<>>]
  /\ UNCHANGED <<open, channel, lagged, rest>>

\* What an event makes of the messages of a subscription: push_event.
Pushed(s, ev) ==
  IF s = Heads THEN (IF ev.head = 0 THEN <<>> ELSE <<ev>>)
  ELSE LET S == {l \in ev.logs : LogMatches(s, l)} IN IF S = {} THEN <<>> ELSE <<Logs(S)>>

Receive ==
  /\ open /\ queue # <<>> /\ ~overrun
  /\ got' = [s \in Sub |-> IF s \in subs THEN got[s] \o Pushed(s, Head(queue)) ELSE got[s]]
  /\ queue' = Tail(queue)
  /\ UNCHANGED <<open, overrun, subs, lagged, rest>>

\* RecvError::Lagged: the receiver goes on with the oldest event there is.
Lag ==
  /\ overrun
  /\ overrun' = FALSE /\ lagged' = TRUE
  /\ UNCHANGED <<open, queue, subs, got, rest>>

Disconnected ==
  /\ open' = FALSE /\ queue' = <<>> /\ overrun' = FALSE
  /\ subs' = {} /\ lagged' = FALSE /\ got' = [s \in Sub |-> <<>>]

Disconnect == open /\ Disconnected /\ UNCHANGED rest

\* The proxy restarts.
Restart ==
  /\ faults < MaxFaults /\ faults' = faults + 1
  /\ Disconnected
  /\ poller' = At("start") /\ lastHead' = 0 /\ lastLogs' = 0
  /\ passed' = {} /\ missed' = {} /\ sent' = {} /\ moved' = {}
  /\ UNCHANGED <<head, place>>

Poll ==
  \/ StartTail \/ TickHead \/ TickFails \/ FetchBlock \/ FetchNull \/ FetchFails
  \/ TailLogs \/ TailNothing

Next ==
  \/ NewBlock \/ \E h \in Height, l \in Log : IndexLog(l, h)
  \/ Poll
  \/ Connect \/ Receive \/ Lag \/ Disconnect \/ Restart
  \/ \E s \in Sub : Subscribe(s) \/ Unsubscribe(s)

Spec == Init /\ [][Next]_vars

\* The poller's task runs; queries that are made again and again succeed at some
\* time, the block is visible by then.
Fairness ==
  /\ WF_vars(Poll)
  /\ SF_vars(TickHead) /\ SF_vars(FetchBlock) /\ SF_vars(TailLogs)

FairSpec == Spec /\ Fairness

-----------------------------------------------------------------------------
(* Properties *)

\* A subscriber to newHeads is told of heights in order and of each once, and,
\* if its connection kept up, of every height since the first it was told of,
\* except those the node's query missed or that lay too far behind the head.
\* In particular a failure of the index, which ends the loop, loses no head.
HeadsInOrder ==
  LET g == got[Heads]
  IN \A i \in 1..(Len(g) - 1) :
       /\ g[i].head < g[i + 1].head
       /\ lagged \/ \A h \in (g[i].head + 1)..(g[i + 1].head - 1) : h \in passed

\* A log that stays in its block is pushed at most once for a subscription, and
\* only if eth_getLogs with the same filter would return it: log_matches and
\* the WHERE clause of query_logs are the same condition.
LogsOnce ==
  \A f \in Filter : \A i \in DOMAIN got[f] : \A l \in got[f][i].logs :
    /\ Selected(f, l)
    /\ l \notin moved => \A j \in DOMAIN got[f] : j # i => l \notin got[f][j].logs

\* Every log at a height the tail has passed was announced, unless it was
\* indexed behind the tail or cut off at the end of a full page.
TailLeavesNone ==
  \A l \in Log :
    place[l] \in 1..lastLogs =>
      l \in missed \cup sent

\* The feeds catch up: when no more blocks come, the head feed reaches the head
\* and the tail passes every log, whatever failed on the way.
FeedsCatchUp ==
  <>[](lastHead = head /\ poller.at # "start" /\ \A l \in Log : place[l] <= lastLogs)
==============================================================================
