------------------------------- MODULE RunHub -------------------------------
(***************************************************************************)
(* The hub of the web server (web/hub.ts) with its stream endpoint         *)
(* (web/server.ts) and a browser's EventSource: events of agent runs are   *)
(* buffered, broadcast to bounded queues and replayed after a reconnect.   *)
(* The n-th event a run emits is the number n; a record of the log is the  *)
(* set of emissions it holds, as text is coalesced; its id is its place.   *)
(***************************************************************************)
EXTENDS Integers, Sequences, FiniteSets, SequencesExt

CONSTANTS
  Run, Viewer,
  MaxEvents,    \* maxEventsPerRun
  MaxQueued,    \* maxQueuedEvents
  MaxRuns,
  MaxEmits,     \* bound: emissions of a run
  MaxCuts       \* bound: connections that break

ASSUME LimitsAssumption ==
  /\ MaxEvents \in Nat \ {0} /\ MaxQueued \in Nat \ {0} /\ MaxRuns \in Nat
  /\ MaxEmits \in Nat /\ MaxCuts \in Nat

VARIABLES
  runs,     \* the keys of #runs
  turn,     \* when ensure() registered a run, the first at 1; 0 for never
  emitted,  \* how many events a run has emitted
  text,     \* #pendingText: emissions that are in no record yet
  log,      \* all records it has published
  oldest,   \* id of the first record that is still buffered
  ended,    \* run_end or run_error was noted
  viewer,   \* off, connected, waiting (EventSource reconnects), stopped (404)
  watched,  \* the run of a viewer's page
  sub,      \* the Subscription of a viewer's connection
  got,      \* all records the page received: id, and whether it is a gap
  cuts

hubVars == <<runs, turn, emitted, text, log, oldest, ended>>
viewerVars == <<viewer, watched, sub, got, cuts>>
vars == <<hubVars, viewerVars>>

Record(id, gap) == [id |-> id, gap |-> gap]

Opened(replay) == [replay |-> replay, queue |-> <<>>, dropped |-> 0, open |-> TRUE]

NoSub == [replay |-> <<>>, queue |-> <<>>, dropped |-> 0, open |-> FALSE]

Init ==
  /\ runs = {} /\ turn = [r \in Run |-> 0]
  /\ emitted = [r \in Run |-> 0]
  /\ text = [r \in Run |-> {}]
  /\ log = [r \in Run |-> <<>>]
  /\ oldest = [r \in Run |-> 1]
  /\ ended = [r \in Run |-> FALSE]
  /\ viewer = [v \in Viewer |-> "off"]
  /\ watched \in [Viewer -> Run]
  /\ sub = [v \in Viewer |-> NoSub]
  /\ got = [v \in Viewer |-> <<>>]
  /\ cuts = 0

(* Runs that hold a sink, evicted or not. *)
Sinks == {r \in Run : turn[r] # 0}

(* The cursor the browser sends as Last-Event-ID, 0 for none. *)
Cursor(v) == IF got[v] = <<>> THEN 0 ELSE Last(got[v]).id

------------------------------------------------------------------------------

(* Subscription.push for consecutive records: the oldest of a full queue   *)
(* make room, and the last of them is remembered.                          *)
Push(s, ids) ==
  LET over == Len(s.queue) + Len(ids) - MaxQueued
      all == s.queue \o ids
  IN IF over <= 0 THEN [s EXCEPT !.queue = all]
     ELSE [s EXCEPT !.queue = SubSeq(all, over + 1, Len(all)), !.dropped = all[over]]

(* #publish of records: into the buffer, which keeps the newest (fewer     *)
(* than MaxEvents if they are large), and to every subscriber.             *)
Publish(r, records) ==
  LET n == Len(log[r])
      m == n + Len(records)
      least == IF m - MaxEvents + 1 > oldest[r] THEN m - MaxEvents + 1 ELSE oldest[r]
  IN /\ log' = [log EXCEPT ![r] = @ \o records]
     /\ \E first \in least .. m : oldest' = [oldest EXCEPT ![r] = first]
     /\ sub' = [v \in Viewer |->
                  IF watched[v] = r /\ sub[v].open
                  THEN Push(sub[v], [k \in 1 .. m - n |-> n + k]) ELSE sub[v]]

(* emit of a text delta: it waits for more. *)
EmitText(r) ==
  /\ r \in Sinks /\ ~ ended[r] /\ emitted[r] < MaxEmits
  /\ emitted' = [emitted EXCEPT ![r] = @ + 1]
  /\ text' = [text EXCEPT ![r] = @ \cup {emitted[r] + 1}]
  /\ UNCHANGED <<runs, turn, log, oldest, ended, viewerVars>>

Batch(r) == IF text[r] = {} THEN <<>> ELSE <<text[r]>>

(* The coalescing window is over: flushText. *)
FlushText(r) ==
  /\ text[r] # {}
  /\ Publish(r, Batch(r))
  /\ text' = [text EXCEPT ![r] = {}]
  /\ UNCHANGED <<runs, turn, emitted, ended, viewer, watched, got, cuts>>

(* Mutant: text that waits is overtaken. *)
EmitEvent_Overtakes(r, last) ==
  /\ r \in Sinks /\ (ended[r] => last) /\ emitted[r] < MaxEmits
  /\ emitted' = [emitted EXCEPT ![r] = @ + 1]
  /\ ended' = [ended EXCEPT ![r] = last]
  /\ Publish(r, <<{emitted[r] + 1}>>)
  /\ UNCHANGED <<runs, turn, text, viewer, watched, got, cuts>>

(* emit of any other event: the text before it goes first.  After run_end  *)
(* only a run_error may follow (the pull request failed).                  *)
EmitEvent(r, last) ==
  /\ r \in Sinks /\ (ended[r] => last) /\ emitted[r] < MaxEmits
  /\ emitted' = [emitted EXCEPT ![r] = @ + 1]
  /\ ended' = [ended EXCEPT ![r] = last]
  /\ Publish(r, Batch(r) \o <<{emitted[r] + 1}>>)
  /\ text' = [text EXCEPT ![r] = {}]
  /\ UNCHANGED <<runs, turn, viewer, watched, got, cuts>>

------------------------------------------------------------------------------
Subscribed(r) == \E v \in Viewer : watched[v] = r /\ sub[v].open

(* #evictRuns, #pickVictim: over the limit the oldest runs that have ended *)
(* go, first those that nobody watches.                                    *)
GoesBefore(x, y) ==
  \/ ~ Subscribed(x) /\ Subscribed(y)
  \/ (Subscribed(x) <=> Subscribed(y)) /\ turn[x] < turn[y]

Victims(held) ==
  LET done == {r \in held : ended[r]}
  IN {r \in done : Cardinality({x \in done : GoesBefore(x, r)}) < Cardinality(held) - MaxRuns}

(* Mutant: the subscriptions of an evicted run stay open. *)
Ensure_LeavesZombies(r) ==
  /\ r \notin Sinks
  /\ turn' = [turn EXCEPT ![r] = Cardinality(Sinks) + 1]
  /\ runs' = (runs \cup {r}) \ Victims(runs \cup {r})
  /\ UNCHANGED <<emitted, text, log, oldest, ended, viewerVars>>

(* ensure of a new run; what is evicted closes its subscriptions.          *)
Ensure(r) ==
  /\ r \notin Sinks
  /\ turn' = [turn EXCEPT ![r] = Cardinality(Sinks) + 1]
  /\ runs' = (runs \cup {r}) \ Victims(runs \cup {r})
  /\ sub' = [v \in Viewer |-> IF watched[v] \in Victims(runs \cup {r})
                              THEN [sub[v] EXCEPT !.open = FALSE] ELSE sub[v]]
  /\ UNCHANGED <<emitted, text, log, oldest, ended, viewer, watched, got, cuts>>

(* Mutant: the notice takes the id of the first record that is left. *)
Subscribe_GapId(v) ==
  LET r == watched[v]
      after == Cursor(v)
      first == IF after >= oldest[r] THEN after + 1 ELSE oldest[r]
      gap == after # 0 /\ oldest[r] > after + 1
  IN sub' = [sub EXCEPT ![v] = Opened(
       (IF gap THEN <<Record(oldest[r], TRUE)>> ELSE <<>>)
       \o [k \in 1 .. Len(log[r]) - first + 1 |-> Record(first + k - 1, FALSE)])]

(* RunEntry.subscribe: the notice of what was evicted, then the replay.    *)
Subscribe(v) ==
  LET r == watched[v]
      after == Cursor(v)
      first == IF after >= oldest[r] THEN after + 1 ELSE oldest[r]
      gap == after # 0 /\ oldest[r] > after + 1
  IN sub' = [sub EXCEPT ![v] = Opened(
       (IF gap THEN <<Record(oldest[r] - 1, TRUE)>> ELSE <<>>)
       \o [k \in 1 .. Len(log[r]) - first + 1 |-> Record(first + k - 1, FALSE)])]

(* A page is opened, or its EventSource reconnects; 404 ends it for good.  *)
Connect(v) ==
  /\ viewer[v] \in {"off", "waiting"}
  /\ viewer[v] = "off" => watched[v] \in runs
  /\ IF watched[v] \in runs
     THEN Subscribe(v) /\ viewer' = [viewer EXCEPT ![v] = "connected"]
     ELSE UNCHANGED sub /\ viewer' = [viewer EXCEPT ![v] = "stopped"]
  /\ UNCHANGED <<hubVars, watched, got, cuts>>

(* Subscription.#take: the replay, the notice of what was dropped, then    *)
(* the queue.                                                              *)
Taken(s) ==
  IF s.replay # <<>> THEN [record |-> Head(s.replay), rest |-> [s EXCEPT !.replay = Tail(@)]]
  ELSE IF s.dropped # 0 THEN [record |-> Record(s.dropped, TRUE), rest |-> [s EXCEPT !.dropped = 0]]
  ELSE [record |-> Record(Head(s.queue), FALSE), rest |-> [s EXCEPT !.queue = Tail(@)]]

Empty(s) == s.replay = <<>> /\ s.dropped = 0 /\ s.queue = <<>>

(* streamRun writes the next record, and the page handles it.              *)
Take(v) ==
  /\ viewer[v] = "connected" /\ ~ Empty(sub[v])
  /\ got' = [got EXCEPT ![v] = Append(@, Taken(sub[v]).record)]
  /\ sub' = [sub EXCEPT ![v] = Taken(sub[v]).rest]
  /\ UNCHANGED <<hubVars, viewer, watched, cuts>>

(* A closed subscription that is read to its end ends the response.        *)
StreamEnds(v) ==
  /\ viewer[v] = "connected" /\ Empty(sub[v]) /\ ~ sub[v].open
  /\ viewer' = [viewer EXCEPT ![v] = "waiting"]
  /\ UNCHANGED <<hubVars, watched, sub, got, cuts>>

(* The connection breaks, and the server drops the subscription.           *)
Cut(v) ==
  /\ viewer[v] = "connected" /\ cuts < MaxCuts
  /\ cuts' = cuts + 1
  /\ viewer' = [viewer EXCEPT ![v] = "waiting"]
  /\ sub' = [sub EXCEPT ![v] = NoSub]
  /\ UNCHANGED <<hubVars, watched, got>>

------------------------------------------------------------------------------
RunStep(r) ==
  \/ Ensure(r) \/ EmitText(r) \/ FlushText(r)
  \/ \E last \in BOOLEAN : EmitEvent(r, last)

ViewerStep(v) == Connect(v) \/ Take(v) \/ StreamEnds(v) \/ Cut(v)

Next == (\E r \in Run : RunStep(r)) \/ (\E v \in Viewer : ViewerStep(v))

Spec == Init /\ [][Next]_vars

(* The coalescing timer fires, an EventSource reconnects, and a connection *)
(* that stays up is written to and read.                                   *)
Fairness ==
  /\ \A r \in Run : WF_vars(FlushText(r))
  /\ \A v \in Viewer :
       /\ WF_vars(viewer[v] = "waiting" /\ Connect(v))
       /\ WF_vars(Take(v)) /\ WF_vars(StreamEnds(v))

FairSpec == Spec /\ Fairness

------------------------------------------------------------------------------
(* Types of all variables; a queue never exceeds its limit. *)
TypeOK ==
  /\ turn \in [Run -> Nat] /\ runs \subseteq Sinks
  /\ \A r, s \in Sinks : turn[r] = turn[s] => r = s
  /\ emitted \in [Run -> 0 .. MaxEmits]
  /\ \A r \in Run :
       /\ text[r] \subseteq 1 .. emitted[r]
       /\ log[r] \in Seq(SUBSET (1 .. emitted[r]))
       /\ oldest[r] \in 1 .. Len(log[r]) + 1
       /\ Len(log[r]) - oldest[r] + 1 <= MaxEvents
  /\ ended \in [Run -> BOOLEAN]
  /\ viewer \in [Viewer -> {"off", "connected", "waiting", "stopped"}]
  /\ watched \in [Viewer -> Run]
  /\ \A v \in Viewer :
       /\ sub[v].open => viewer[v] = "connected" /\ watched[v] \in runs
       /\ Len(sub[v].queue) <= MaxQueued
  /\ cuts \in 0 .. MaxCuts

(* "No double and no loss over a reconnect" (app.js:531): the ids a page   *)
(* receives rise, one by one unless a gap is announced, and an announced   *)
(* gap ends where the next record begins, be it for eviction or overflow.  *)
NothingSilent ==
  \A v \in Viewer : \A k \in 1 .. Len(got[v]) - 1 :
    LET a == got[v][k]
        b == got[v][k + 1]
    IN IF b.gap THEN b.id > a.id ELSE b.id = a.id + 1

(* "The order must not be disturbed" (hub.ts:261): records hold every      *)
(* emission once, in the order the agent emitted them, although text waits *)
(* for its window and other events do not.                                 *)
TextInPlace ==
  \A r \in Run :
    LET all == log[r] \o Batch(r)
    IN /\ \A i, j \in DOMAIN all : i < j => \A m \in all[i], n \in all[j] : m < n
       /\ UNION Range(all) = 1 .. emitted[r]

(* "A run that runs is never evicted" (hub.ts:473), however many there are.*)
RunningStays == \A r \in Sinks : ~ ended[r] => r \in runs

(* Nothing is withheld from a page in silence, a whole run included.       *)
PageLosesNothing == NothingSilent /\ RunningStays

(* A page that stays connected catches up with its run. *)
KeepsUp ==
  \A v \in Viewer :
    viewer[v] = "connected" ~> viewer[v] = "stopped" \/ Cursor(v) = Len(log[watched[v]])

(* "A zombie connection that waits for ever" (hub.ts:484): a page whose    *)
(* run is evicted reads what it was sent and is told that the run is gone. *)
NoZombie ==
  \A v \in Viewer : watched[v] \in Sinks \ runs ~> viewer[v] \in {"off", "stopped"}

(* However a page's run goes on, the page does not wait for nothing.       *)
PagesSettle == KeepsUp /\ NoZombie

=============================================================================
