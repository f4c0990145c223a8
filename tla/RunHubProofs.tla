---------------------------- MODULE RunHubProofs ----------------------------
(***************************************************************************)
(* Proofs about RunHub, for every set of runs and viewers and all limits:  *)
(* its types, that no page loses an event in silence, that a running run   *)
(* is kept, and that text stays in its place.                              *)
(***************************************************************************)
EXTENDS RunHub, FiniteSetTheorems, TLAPS

(* b follows a on a page: the next id, or a notice with a later one. *)
Follows(a, b) == IF b.gap THEN b.id > a.id ELSE b.id = a.id + 1

Rises(q) == \A k \in 1 .. Len(q) - 1 : Follows(q[k], q[k + 1])

Consecutive(q) == \A i, j \in 1 .. Len(q) : q[j] - q[i] = j - i

Id == Nat \ {0}

Records == [id : Id, gap : BOOLEAN]

Subs == [replay : Seq(Records), queue : Seq(Id), dropped : Nat, open : BOOLEAN]

(* The id a page has reached with the records g. *)
Reached(g) == IF g = <<>> THEN 0 ELSE g[Len(g)].id

(* The id it has reached when it has also read the replay of s. *)
After(g, s) == IF s.replay = <<>> THEN Reached(g) ELSE Reached(s.replay)

(* The id it has reached when it has read all it was sent. *)
End(g, s) == IF s.queue = <<>> THEN After(g, s) ELSE s.queue[Len(s.queue)]

(* What a page has, and what it will be sent, is in a log of n records. *)
SeenInLog(g, s, n) ==
  /\ \A k \in 1 .. Len(g) : g[k].id <= n
  /\ \A k \in 1 .. Len(s.replay) : s.replay[k].id <= n
  /\ \A k \in 1 .. Len(s.queue) : s.queue[k] <= n

(* The replay goes on where the page stopped. *)
ReplayFits(g, s) ==
  /\ Rises(g) /\ Rises(s.replay)
  /\ g # <<>> /\ s.replay # <<>> => Follows(g[Len(g)], s.replay[1])

(* The queue goes on where the replay, or the notice of what was dropped,  *)
(* stops.                                                                  *)
QueueFits(g, s) ==
  /\ Consecutive(s.queue)
  /\ s.dropped = 0 /\ s.queue # <<>> /\ After(g, s) # 0 => s.queue[1] = After(g, s) + 1
  /\ s.dropped # 0
       => s.dropped > After(g, s) /\ s.queue # <<>> /\ s.queue[1] = s.dropped + 1

(* A page that received g and whose subscription is s, on a log of n       *)
(* records: an open subscription has been sent all there is.               *)
Fits(g, s, n) ==
  /\ SeenInLog(g, s, n) /\ ReplayFits(g, s) /\ QueueFits(g, s)
  /\ s.open => End(g, s) = n

ViewersFit == \A v \in Viewer : Fits(got[v], sub[v], Len(log[watched[v]]))

Types ==
  /\ TypeOK
  /\ got \in [Viewer -> Seq(Records)] /\ sub \in [Viewer -> Subs]
  /\ text \in [Run -> SUBSET Nat] /\ log \in [Run -> Seq(SUBSET Nat)]
  /\ oldest \in [Run -> Nat]
  /\ IsFiniteSet(Sinks) /\ \A r \in Sinks : turn[r] <= Cardinality(Sinks)

(* The newest record is never evicted. *)
NewestKept == \A r \in Run : log[r] # <<>> => oldest[r] <= Len(log[r])

IInv == Types /\ NewestKept /\ RunningStays /\ TextInPlace /\ ViewersFit

------------------------------------------------------------------------------
(* Pages and subscriptions *)

LEMMA IdType == \A i \in Id : i \in Nat /\ i >= 1
BY DEF Id

LEMMA Elements ==
  ASSUME NEW S, NEW q \in Seq(S)
  PROVE  Len(q) \in Nat /\ \A k \in 1 .. Len(q) : q[k] \in S
OBVIOUS

LEMMA IdsType ==
  ASSUME NEW g \in Seq(Records)
  PROVE  \A k \in 1 .. Len(g) : g[k].id \in Nat /\ g[k].id >= 1
<1> SUFFICES ASSUME NEW k \in 1 .. Len(g) PROVE g[k].id \in Nat /\ g[k].id >= 1
  OBVIOUS
<1>1. g[k] \in Records
  BY Elements
<1> QED BY <1>1, IdType DEF Records

(* A log that grows does not disturb a page that is not subscribed. *)
LEMMA FitsGrows ==
  ASSUME NEW g \in Seq(Records), NEW s \in Subs, NEW n \in Nat, NEW m \in Nat,
         m >= n, ~ s.open, Fits(g, s, n)
  PROVE  Fits(g, s, m)
<1>1. s.queue \in Seq(Id) /\ s.replay \in Seq(Records)
  BY DEF Subs
<1>2. SeenInLog(g, s, m)
  <2>1. \A k \in 1 .. Len(g) : g[k].id <= m
    BY IdsType DEF Fits, SeenInLog
  <2>2. \A k \in 1 .. Len(s.replay) : s.replay[k].id <= m
    BY <1>1, IdsType DEF Fits, SeenInLog
  <2>3. \A k \in 1 .. Len(s.queue) : s.queue[k] <= m
    BY <1>1, IdType, Elements DEF Fits, SeenInLog
  <2> QED BY <2>1, <2>2, <2>3 DEF SeenInLog
<1> QED BY <1>2 DEF Fits

(* Eviction of the run closes a subscription, which is read to its end.    *)
LEMMA FitsClosed ==
  ASSUME NEW g \in Seq(Records), NEW s \in Subs, NEW n \in Nat, Fits(g, s, n)
  PROVE  [s EXCEPT !.open = FALSE] \in Subs /\ Fits(g, [s EXCEPT !.open = FALSE], n)
BY DEF Fits, Subs, SeenInLog, ReplayFits, QueueFits, After

(* A broken connection leaves what the page has. *)
LEMMA FitsNoSub ==
  ASSUME NEW g \in Seq(Records), NEW s \in Subs, NEW n \in Nat, Fits(g, s, n)
  PROVE  NoSub \in Subs /\ Fits(g, NoSub, n)
BY DEF Fits, Subs, SeenInLog, ReplayFits, QueueFits, NoSub, Rises, Consecutive

(* The ids of a page are at least 1, so what it has reached is 0 only at    *)
(* the start.                                                              *)
LEMMA ReachedType ==
  ASSUME NEW g \in Seq(Records)
  PROVE  Reached(g) \in Nat /\ (Reached(g) = 0 <=> g = <<>>)
<1>1. g # <<>> => Len(g) \in 1 .. Len(g)
  OBVIOUS
<1> QED BY <1>1, IdsType DEF Reached

LEMMA AfterType ==
  ASSUME NEW g \in Seq(Records), NEW s \in Subs
  PROVE  /\ After(g, s) \in Nat
         /\ After(g, s) = 0 <=> g = <<>> /\ s.replay = <<>>
<1>1. s.replay \in Seq(Records)
  BY DEF Subs
<1> QED BY <1>1, ReachedType DEF After

LEMMA Counted ==
  ASSUME NEW n \in Nat, NEW c \in Nat
  PROVE  LET ids == [k \in 1 .. c |-> n + k]
         IN /\ ids \in Seq(Id) /\ Len(ids) = c
            /\ \A k \in 1 .. c : ids[k] = n + k
<1> DEFINE ids == [k \in 1 .. c |-> n + k]
<1>1. \A k \in 1 .. c : ids[k] = n + k /\ n + k \in Id
  BY DEF Id
<1>2. ids \in Seq(Id)
  BY <1>1
<1> QED BY <1>1, <1>2

(* The queue with the new records still counts up to the last of them. *)
LEMMA Joined ==
  ASSUME NEW q \in Seq(Id), NEW n \in Nat, NEW c \in Nat, NEW ids \in Seq(Id),
         Len(ids) = c, \A k \in 1 .. c : ids[k] = n + k,
         Consecutive(q), q # <<>> => q[Len(q)] = n
  PROVE  /\ q \o ids \in Seq(Id) /\ Len(q \o ids) = Len(q) + c
         /\ \A k \in 1 .. Len(q) : (q \o ids)[k] = q[k]
         /\ \A k \in 1 .. Len(q) + c : (q \o ids)[k] = n + k - Len(q)
<1>1. q \o ids \in Seq(Id) /\ Len(q \o ids) = Len(q) + c /\ Len(q) \in Nat
  OBVIOUS
<1>2. \A k \in 1 .. Len(q) : (q \o ids)[k] = q[k]
  OBVIOUS
<1>3. ASSUME NEW k \in 1 .. Len(q) PROVE q[k] = n + k - Len(q)
  <2>1. q # <<>> /\ Len(q) \in 1 .. Len(q) /\ k \in Int
    BY <1>1
  <2>2. q[Len(q)] - q[k] = Len(q) - k
    BY <2>1 DEF Consecutive
  <2>3. q[k] \in Nat
    BY IdType, Elements
  <2> HIDE DEF Consecutive
  <2> QED BY <1>1, <2>1, <2>2, <2>3
<1>4. ASSUME NEW k \in 1 .. Len(q) + c, k > Len(q)
      PROVE  (q \o ids)[k] = n + k - Len(q)
  <2>1. k - Len(q) \in 1 .. c /\ k \in Int
    BY <1>1, <1>4
  <2>2. (q \o ids)[k] = ids[k - Len(q)]
    BY <1>1, <1>4
  <2> QED BY <1>1, <2>1, <2>2
<1>5. ASSUME NEW k \in 1 .. Len(q) + c PROVE (q \o ids)[k] = n + k - Len(q)
  <2>1. CASE k > Len(q)
    BY <1>4, <2>1
  <2>2. CASE k \in 1 .. Len(q)
    BY <1>2, <1>3, <2>2
  <2> QED BY <1>1, <2>1, <2>2
<1> QED BY <1>1, <1>2, <1>5

(* A sequence that counts is consecutive. *)
LEMMA CountsOn ==
  ASSUME NEW q, NEW d \in Int, Len(q) \in Nat, \A k \in 1 .. Len(q) : q[k] = d + k
  PROVE  Consecutive(q)
BY DEF Consecutive

(* New records are sent: the oldest of a full queue make room, and their   *)
(* notice stands between the replay and the queue.                         *)
LEMMA FitsPushed ==
  ASSUME NEW g \in Seq(Records), NEW s \in Subs, NEW n \in Nat, NEW c \in Nat,
         s.open, Fits(g, s, n)
  PROVE  LET p == Push(s, [k \in 1 .. c |-> n + k])
         IN /\ p \in Subs /\ Fits(g, p, n + c) /\ p.open
            /\ Len(p.queue) <= MaxQueued
<1> DEFINE ids == [k \in 1 .. c |-> n + k]
           q == s.queue
           all == q \o ids
           over == Len(q) + c - MaxQueued
           a == After(g, s)
<1>0. MaxQueued \in Nat /\ MaxQueued >= 1
  BY LimitsAssumption
<1>1. /\ q \in Seq(Id) /\ Len(q) \in Nat /\ s.replay \in Seq(Records) /\ s.dropped \in Nat
      /\ Len(q) > 0 <=> q # <<>>
  BY DEF Subs
<1>2. ids \in Seq(Id) /\ Len(ids) = c /\ \A k \in 1 .. c : ids[k] = n + k
  BY Counted
<1>3. /\ a \in Nat
      /\ q # <<>> => q[Len(q)] = n
      /\ q = <<>> => a = n
      /\ Consecutive(q)
      /\ s.dropped = 0 /\ q # <<>> /\ a # 0 => q[1] = a + 1
      /\ s.dropped # 0 => s.dropped > a /\ q # <<>> /\ q[1] = s.dropped + 1
  BY AfterType DEF Fits, QueueFits, End
<1>4. \A k \in 1 .. Len(s.replay) : s.replay[k].id <= n + c
  BY <1>1, IdsType DEF Fits, SeenInLog
<1>5. \A k \in 1 .. Len(g) : g[k].id <= n + c
  BY IdsType DEF Fits, SeenInLog
<1>q. q = s.queue
  OBVIOUS
<1> HIDE DEF q, ids, a
<1>6. /\ all \in Seq(Id) /\ Len(all) = Len(q) + c
      /\ \A k \in 1 .. Len(q) : all[k] = q[k]
      /\ \A k \in 1 .. Len(q) + c : all[k] = n + k - Len(q)
  BY <1>1, <1>2, <1>3, Joined
<1> HIDE DEF all
<1>7. ASSUME q # <<>> PROVE q[1] = n + 1 - Len(q) /\ q[1] >= 1
  <2>1. 1 \in 1 .. Len(q) /\ 1 \in 1 .. Len(q) + c
    BY <1>1, <1>7
  <2>2. q[1] \in Id
    BY <1>1, <2>1, Elements
  <2> QED BY <1>1, <1>6, <2>1, <2>2, IdType
<1>8. over \in Int
  BY <1>0, <1>1
<1>9. CASE over <= 0
  <2> DEFINE p == [s EXCEPT !.queue = all]
  <2>1. Push(s, ids) = p
    BY <1>2, <1>9, <1>q DEF Push, all
  <2>2. p \in Subs /\ p.queue = all /\ p.replay = s.replay /\ p.dropped = s.dropped /\ p.open
    BY <1>6 DEF Subs
  <2> HIDE DEF p
  <2>3. After(g, p) = a
    BY <2>2 DEF After, a
  <2>4. SeenInLog(g, p, n + c)
    <3>1. \A k \in 1 .. Len(all) : all[k] <= n + c
      BY <1>1, <1>6
    <3> QED BY <1>4, <1>5, <2>2, <3>1 DEF SeenInLog
  <2>5. ReplayFits(g, p)
    BY <2>2 DEF Fits, ReplayFits
  <2>6. QueueFits(g, p)
    <3>1. Consecutive(all)
      <4> DEFINE d == n - Len(q)
      <4>1. d \in Int /\ Len(all) \in Nat /\ \A k \in 1 .. Len(all) : all[k] = d + k
        BY <1>1, <1>6
      <4> HIDE DEF d
      <4> QED BY <4>1, CountsOn
    <3>2. ASSUME s.dropped = 0, all # <<>>, a # 0 PROVE all[1] = a + 1
      <4>1. CASE q = <<>>
        <5>1. Len(all) > 0 /\ Len(q) = 0
          BY <1>6, <3>2, <4>1
        <5> QED BY <1>3, <1>6, <4>1, <5>1
      <4>2. CASE q # <<>>
        BY <1>1, <1>3, <1>6, <3>2, <4>2
      <4> QED BY <4>1, <4>2
    <3>3. ASSUME s.dropped # 0
          PROVE  s.dropped > a /\ all # <<>> /\ all[1] = s.dropped + 1
      BY <1>1, <1>3, <1>6, <3>3
    <3> QED BY <2>2, <2>3, <3>1, <3>2, <3>3 DEF QueueFits
  <2>7. End(g, p) = n + c
    <3>1. CASE all = <<>>
      BY <1>1, <1>3, <1>6, <2>2, <2>3, <3>1 DEF End
    <3>2. CASE all # <<>>
      BY <1>1, <1>6, <2>2, <3>2 DEF End
    <3> QED BY <3>1, <3>2
  <2>8. Len(p.queue) <= MaxQueued
    BY <1>0, <1>1, <1>6, <1>9, <2>2
  <2> QED BY <2>1, <2>2, <2>4, <2>5, <2>6, <2>7, <2>8 DEF Fits, ids
<1>10. CASE over > 0
  <2> DEFINE rest == SubSeq(all, over + 1, Len(all))
             p == [s EXCEPT !.queue = rest, !.dropped = all[over]]
  <2>0. over \in 1 .. Len(all) /\ Len(all) - over = MaxQueued /\ Len(all) \in Nat
    BY <1>0, <1>1, <1>6, <1>10
  <2>1. Push(s, ids) = p
    <3>1. ~ (over <= 0)
      BY <1>8, <1>10
    <3> QED BY <1>2, <3>1, <1>q DEF Push, all
  <2>o. over = Len(q) + c - MaxQueued
    OBVIOUS
  <2> HIDE DEF over
  <2>r. /\ rest \in Seq(Id) /\ Len(rest) = MaxQueued
        /\ \A k \in 1 .. MaxQueued : rest[k] = all[over + k]
    BY <1>0, <1>6, <2>0
  <2>d. all[over] \in Id /\ all[over] \in Nat /\ all[over] # 0
    BY <1>6, <2>0, IdType, Elements
  <2> HIDE DEF rest
  <2>2. /\ p \in Subs /\ p.queue = rest /\ p.replay = s.replay
        /\ p.dropped = all[over] /\ p.open
    BY <2>r, <2>d DEF Subs
  <2> HIDE DEF p
  <2>3. After(g, p) = a
    BY <2>2 DEF After, a
  <2>4. \A k \in 1 .. MaxQueued : rest[k] = (n + c - MaxQueued) + k
    BY <1>0, <1>1, <1>6, <2>0, <2>o, <2>r
  <2>5. all[over] = n + c - MaxQueued
    BY <1>0, <1>1, <1>6, <2>0, <2>o
  <2>6. SeenInLog(g, p, n + c)
    BY <1>0, <1>4, <1>5, <2>2, <2>4, <2>r DEF SeenInLog
  <2>7. ReplayFits(g, p)
    BY <2>2 DEF Fits, ReplayFits
  <2>8. all[over] > a
    <3>1. CASE q = <<>>
      <4>1. Len(q) = 0
        BY <3>1
      <4> QED BY <1>3, <1>6, <2>0, <3>1, <4>1
    <3>2. CASE q # <<>>
      <4>1. q[1] > a
        BY <1>1, <1>3, <1>7, <3>2
      <4>2. all[over] = n + over - Len(q) /\ over >= 1
        BY <1>6, <2>0
      <4> QED BY <1>1, <1>3, <1>7, <2>0, <3>2, <4>1, <4>2
    <3> QED BY <3>1, <3>2
  <2>9. QueueFits(g, p)
    <3>1. Consecutive(rest)
      <4>1. n + c - MaxQueued \in Int
        BY <1>0
      <4> QED BY <1>0, <2>4, <2>r, <4>1, CountsOn
    <3>2. rest # <<>> /\ rest[1] = all[over] + 1
      BY <1>0, <2>4, <2>5, <2>r
    <3> QED BY <2>2, <2>3, <2>8, <2>d, <3>1, <3>2 DEF QueueFits
  <2>10. End(g, p) = n + c
    BY <1>0, <2>2, <2>4, <2>r DEF End
  <2> QED BY <2>1, <2>2, <2>6, <2>7, <2>9, <2>10, <2>r DEF Fits, ids
<1> QED BY <1>8, <1>9, <1>10

LEMMA EmptySeq == ASSUME NEW S, NEW q \in Seq(S) PROVE q = <<>> <=> Len(q) = 0
OBVIOUS

LEMMA SeqOfFunction ==
  ASSUME NEW S, NEW c \in Nat, NEW f \in [1 .. c -> S]
  PROVE  f \in Seq(S) /\ Len(f) = c
OBVIOUS

LEMMA SeqGrows ==
  ASSUME NEW S, NEW T, S \subseteq T, NEW q \in Seq(S)
  PROVE  q \in Seq(T)
<1>1. Len(q) \in Nat /\ q \in [1 .. Len(q) -> S]
  OBVIOUS
<1>2. q \in [1 .. Len(q) -> T]
  BY <1>1
<1> QED BY <1>1, <1>2, SeqOfFunction

LEMMA AppendFacts ==
  ASSUME NEW S, NEW q \in Seq(S), NEW x \in S
  PROVE  /\ Append(q, x) \in Seq(S) /\ Append(q, x) # <<>>
         /\ Len(Append(q, x)) = Len(q) + 1 /\ Append(q, x)[Len(q) + 1] = x
         /\ \A k \in 1 .. Len(q) : Append(q, x)[k] = q[k]
<1>1. Append(q, x) \in Seq(S) /\ Len(Append(q, x)) = Len(q) + 1 /\ Len(q) \in Nat
  OBVIOUS
<1>2. \A k \in 1 .. Len(q) : Append(q, x)[k] = q[k]
  OBVIOUS
<1>3. Append(q, x)[Len(q) + 1] = x
  OBVIOUS
<1>4. Append(q, x) # <<>>
  BY <1>1, EmptySeq
<1> QED BY <1>1, <1>2, <1>3, <1>4

LEMMA TailFacts ==
  ASSUME NEW S, NEW q \in Seq(S), q # <<>>
  PROVE  /\ Tail(q) \in Seq(S) /\ Len(Tail(q)) = Len(q) - 1 /\ Len(q) >= 1
         /\ \A k \in 1 .. Len(Tail(q)) : k + 1 \in 1 .. Len(q) /\ Tail(q)[k] = q[k + 1]
         /\ Head(q) = q[1] /\ q[1] \in S
         /\ Tail(q) = <<>> <=> Len(q) = 1
<1>1. Tail(q) \in Seq(S) /\ Len(Tail(q)) = Len(q) - 1 /\ Len(q) >= 1 /\ Len(q) \in Nat
  OBVIOUS
<1>2. \A k \in 1 .. Len(Tail(q)) : k + 1 \in 1 .. Len(q)
  BY <1>1
<1>3. \A k \in 1 .. Len(Tail(q)) : Tail(q)[k] = q[k + 1]
  OBVIOUS
<1>4. Head(q) = q[1] /\ q[1] \in S
  OBVIOUS
<1>5. Tail(q) = <<>> <=> Len(Tail(q)) = 0
  BY <1>1, EmptySeq
<1> QED BY <1>1, <1>2, <1>3, <1>4, <1>5

(* One more record that follows. *)
LEMMA RisesAppend ==
  ASSUME NEW g \in Seq(Records), NEW x \in Records, Rises(g),
         g # <<>> => Follows(g[Len(g)], x)
  PROVE  /\ Append(g, x) \in Seq(Records) /\ Append(g, x) # <<>>
         /\ Len(Append(g, x)) = Len(g) + 1 /\ Append(g, x)[Len(g) + 1] = x
         /\ \A k \in 1 .. Len(g) : Append(g, x)[k] = g[k]
         /\ Rises(Append(g, x)) /\ Reached(Append(g, x)) = x.id
<1> DEFINE h == Append(g, x)
<1>1. /\ h \in Seq(Records) /\ Len(h) = Len(g) + 1 /\ Len(g) \in Nat /\ h # <<>>
      /\ h[Len(g) + 1] = x /\ \A k \in 1 .. Len(g) : h[k] = g[k]
  BY AppendFacts
<1> HIDE DEF h
<1>2. ASSUME NEW k \in 1 .. Len(h) - 1 PROVE Follows(h[k], h[k + 1])
  <2>1. CASE k = Len(g)
    <3>1. g # <<>> /\ h[k] = g[k] /\ h[k + 1] = x
      BY <1>1, <2>1
    <3> QED BY <2>1, <3>1
  <2>2. CASE k \in 1 .. Len(g) - 1
    <3>1. h[k] = g[k] /\ h[k + 1] = g[k + 1]
      BY <1>1, <2>2
    <3> QED BY <2>2, <3>1 DEF Rises
  <2> QED BY <1>1, <2>1, <2>2
<1> QED BY <1>1, <1>2 DEF Rises, Reached, h

LEMMA RisesTail ==
  ASSUME NEW q \in Seq(Records), Rises(q), q # <<>>
  PROVE  /\ Tail(q) \in Seq(Records) /\ Rises(Tail(q))
         /\ Head(q) = q[1] /\ q[1] \in Records
         /\ \A k \in 1 .. Len(Tail(q)) : k + 1 \in 1 .. Len(q) /\ Tail(q)[k] = q[k + 1]
         /\ Tail(q) # <<>> => Reached(Tail(q)) = Reached(q) /\ Follows(q[1], Tail(q)[1])
         /\ Tail(q) = <<>> => Reached(q) = q[1].id
<1> DEFINE t == Tail(q)
<1>1. /\ t \in Seq(Records) /\ Len(t) = Len(q) - 1 /\ Len(q) \in Nat /\ Len(q) >= 1
      /\ \A k \in 1 .. Len(t) : k + 1 \in 1 .. Len(q) /\ t[k] = q[k + 1]
      /\ Head(q) = q[1] /\ q[1] \in Records
      /\ t = <<>> <=> Len(q) = 1
  BY TailFacts
<1> HIDE DEF t
<1>2. ASSUME NEW k \in 1 .. Len(t) - 1 PROVE Follows(t[k], t[k + 1])
  <2>1. k \in 1 .. Len(t) /\ k + 1 \in 1 .. Len(t) /\ k + 1 \in 1 .. Len(q) - 1
    BY <1>1
  <2> QED BY <1>1, <2>1 DEF Rises
<1>3. ASSUME t # <<>> PROVE Reached(t) = Reached(q) /\ Follows(q[1], t[1])
  <2>1. Len(t) \in 1 .. Len(t) /\ 1 \in 1 .. Len(t) /\ 1 \in 1 .. Len(q) - 1
    BY <1>1, <1>3
  <2>2. t[Len(t)] = q[Len(q)] /\ t[1] = q[2]
    BY <1>1, <2>1
  <2> QED BY <1>1, <1>3, <2>1, <2>2 DEF Reached, Rises
<1>4. t = <<>> => Reached(q) = q[1].id
  BY <1>1 DEF Reached
<1> QED BY <1>1, <1>2, <1>3, <1>4 DEF Rises, t

LEMMA RisesCons ==
  ASSUME NEW q \in Seq(Records), NEW x \in Records, Rises(q), q # <<>>, Follows(x, q[1])
  PROVE  /\ <<x>> \o q \in Seq(Records) /\ Rises(<<x>> \o q) /\ <<x>> \o q # <<>>
         /\ Reached(<<x>> \o q) = Reached(q) /\ (<<x>> \o q)[1] = x
         /\ \A k \in 2 .. Len(<<x>> \o q) : k - 1 \in 1 .. Len(q) /\ (<<x>> \o q)[k] = q[k - 1]
<1> DEFINE h == <<x>> \o q
<1>0. Len(q) \in Nat /\ Len(q) >= 1
  OBVIOUS
<1>1. h \in Seq(Records) /\ Len(h) = Len(q) + 1 /\ h[1] = x /\ h # <<>>
  BY <1>0
<1>2. ASSUME NEW k \in 2 .. Len(h) PROVE k - 1 \in 1 .. Len(q) /\ h[k] = q[k - 1]
  BY <1>0, <1>1
<1> HIDE DEF h
<1>3. ASSUME NEW k \in 1 .. Len(h) - 1 PROVE Follows(h[k], h[k + 1])
  <2>1. CASE k = 1
    BY <1>0, <1>1, <1>2, <2>1
  <2>2. CASE k # 1
    <3>1. k \in 2 .. Len(h) /\ k + 1 \in 2 .. Len(h) /\ k - 1 \in 1 .. Len(q) - 1
      BY <1>0, <1>1, <2>2
    <3>2. h[k] = q[k - 1] /\ h[k + 1] = q[k]
      BY <1>2, <3>1
    <3> QED BY <3>1, <3>2 DEF Rises
  <2> QED BY <2>1, <2>2
<1>4. Reached(h) = Reached(q)
  <2>1. Len(h) \in 2 .. Len(h)
    BY <1>0, <1>1
  <2> QED BY <1>0, <1>1, <1>2, <2>1 DEF Reached
<1> QED BY <1>1, <1>2, <1>3, <1>4 DEF h, Rises

LEMMA RecordType ==
  ASSUME NEW i \in Id, NEW b \in BOOLEAN
  PROVE  Record(i, b) \in Records /\ Record(i, b).id = i /\ Record(i, b).gap = b
BY DEF Record, Records

(* The page handles the next record of its subscription.                   *)
LEMMA FitsTaken ==
  ASSUME NEW g \in Seq(Records), NEW s \in Subs, NEW n \in Nat, Fits(g, s, n), ~ Empty(s)
  PROVE  /\ Append(g, Taken(s).record) \in Seq(Records)
         /\ Taken(s).rest \in Subs /\ Fits(Append(g, Taken(s).record), Taken(s).rest, n)
         /\ Taken(s).rest.open = s.open
         /\ Len(Taken(s).rest.queue) <= Len(s.queue)
<1>1. /\ s.replay \in Seq(Records) /\ s.queue \in Seq(Id) /\ s.dropped \in Nat
      /\ Len(s.queue) \in Nat
  BY DEF Subs
<1>2. Rises(g) /\ Rises(s.replay)
  BY DEF Fits, ReplayFits
<1>s. /\ \A k \in 1 .. Len(g) : g[k].id <= n
      /\ \A k \in 1 .. Len(s.replay) : s.replay[k].id <= n
      /\ \A k \in 1 .. Len(s.queue) : s.queue[k] <= n
  BY DEF Fits, SeenInLog
<1>g. ASSUME NEW x \in Records, x.id <= n, g # <<>> => Follows(g[Len(g)], x)
      PROVE  \A k \in 1 .. Len(Append(g, x)) : Append(g, x)[k].id <= n
  <2> DEFINE h == Append(g, x)
  <2>1. Len(h) = Len(g) + 1 /\ Len(g) \in Nat /\ h[Len(g) + 1] = x
        /\ \A k \in 1 .. Len(g) : h[k] = g[k]
    OBVIOUS
  <2> HIDE DEF h
  <2>2. \A k \in 1 .. Len(h) : h[k].id <= n
    BY <1>g, <1>s, <2>1
  <2> QED BY <2>2 DEF h
<1>3. CASE s.replay # <<>>
  <2> DEFINE x == s.replay[1]
             r == [s EXCEPT !.replay = Tail(s.replay)]
             h == Append(g, x)
  <2>1. Taken(s) = [record |-> x, rest |-> r]
    BY <1>3, <1>1, <1>2, RisesTail DEF Taken
  <2>2. x \in Records /\ Tail(s.replay) \in Seq(Records)
    BY <1>1, <1>2, <1>3, RisesTail
  <2>3. /\ r \in Subs /\ r.replay = Tail(s.replay) /\ r.queue = s.queue
        /\ r.dropped = s.dropped /\ r.open = s.open
    BY <2>2 DEF Subs
  <2>4. g # <<>> => Follows(g[Len(g)], x)
    BY <1>3 DEF Fits, ReplayFits
  <2>5. x.id <= n
    BY <1>1, <1>3, <1>s
  <2> HIDE DEF r, x
  <2>6. /\ h \in Seq(Records) /\ h # <<>> /\ Rises(h) /\ Reached(h) = x.id
        /\ h[Len(h)] = x
    BY <1>2, <2>2, <2>4, RisesAppend
  <2>7. \A k \in 1 .. Len(h) : h[k].id <= n
    BY <1>g, <2>2, <2>4, <2>5
  <2> HIDE DEF h
  <2>8. Rises(r.replay) /\ (r.replay # <<>> => Follows(x, r.replay[1]))
    BY <1>1, <1>2, <1>3, <2>3, RisesTail DEF x
  <2>9. After(h, r) = After(g, s)
    BY <1>1, <1>2, <1>3, <2>3, <2>6, RisesTail DEF After, x
  <2>10. SeenInLog(h, r, n)
    <3>1. \A k \in 1 .. Len(r.replay) : r.replay[k].id <= n
      BY <1>1, <1>2, <1>3, <1>s, <2>3, RisesTail
    <3> QED BY <1>s, <2>3, <2>7, <3>1 DEF SeenInLog
  <2>11. ReplayFits(h, r)
    BY <2>6, <2>8 DEF ReplayFits
  <2>12. QueueFits(h, r)
    BY <2>3, <2>9 DEF Fits, QueueFits
  <2>13. r.open => End(h, r) = n
    BY <2>3, <2>9 DEF Fits, End
  <2> QED BY <1>1, <2>1, <2>3, <2>6, <2>10, <2>11, <2>12, <2>13 DEF Fits, h
<1>4. CASE s.replay = <<>> /\ s.dropped # 0
  <2> DEFINE x == Record(s.dropped, TRUE)
             r == [s EXCEPT !.dropped = 0]
             h == Append(g, x)
  <2>1. Taken(s) = [record |-> x, rest |-> r]
    BY <1>4 DEF Taken
  <2>2. x \in Records /\ x.id = s.dropped /\ x.gap
    <3>1. s.dropped \in Id
      BY <1>1, <1>4 DEF Id
    <3> QED BY <3>1, RecordType
  <2>3. /\ r \in Subs /\ r.replay = <<>> /\ r.queue = s.queue
        /\ r.dropped = 0 /\ r.open = s.open
    BY <1>4 DEF Subs
  <2>q. /\ s.dropped > Reached(g) /\ s.queue # <<>> /\ s.queue[1] = s.dropped + 1
        /\ Consecutive(s.queue)
    BY <1>4 DEF Fits, QueueFits, After
  <2>4. g # <<>> => Follows(g[Len(g)], x)
    BY <2>2, <2>q DEF Follows, Reached
  <2>5. x.id <= n
    <3>1. 1 \in 1 .. Len(s.queue)
      BY <1>1, <2>q
    <3>2. s.queue[1] <= n
      BY <1>s, <3>1
    <3>3. s.dropped + 1 <= n
      BY <2>q, <3>2
    <3> HIDE DEF x
    <3> QED BY <1>1, <2>2, <3>3
  <2> HIDE DEF r, x
  <2>6. /\ h \in Seq(Records) /\ h # <<>> /\ Rises(h) /\ Reached(h) = x.id
        /\ h[Len(h)] = x
    BY <1>2, <2>2, <2>4, RisesAppend
  <2>7. \A k \in 1 .. Len(h) : h[k].id <= n
    BY <1>g, <2>2, <2>4, <2>5
  <2> HIDE DEF h
  <2>9. After(h, r) = s.dropped
    BY <2>2, <2>3, <2>6 DEF After
  <2>10. SeenInLog(h, r, n)
    BY <1>s, <2>3, <2>7, <1>4 DEF SeenInLog
  <2>11. ReplayFits(h, r)
    BY <1>4, <1>2, <2>3, <2>6 DEF ReplayFits
  <2>12. QueueFits(h, r)
    BY <2>3, <2>9, <2>q DEF QueueFits
  <2>13. r.open => End(h, r) = n
    BY <2>3, <2>q DEF Fits, End
  <2> QED BY <1>1, <2>1, <2>3, <2>6, <2>10, <2>11, <2>12, <2>13 DEF Fits, h
<1>5. CASE s.replay = <<>> /\ s.dropped = 0
  <2> DEFINE t == Tail(s.queue)
             x == Record(s.queue[1], FALSE)
             r == [s EXCEPT !.queue = t]
             h == Append(g, x)
  <2>e. s.queue # <<>>
    BY <1>5 DEF Empty
  <2>0. s.queue[1] \in Id /\ Head(s.queue) = s.queue[1] /\ 1 \in 1 .. Len(s.queue)
    BY <1>1, <2>e
  <2>t. /\ t \in Seq(Id) /\ Len(t) = Len(s.queue) - 1
        /\ \A k \in 1 .. Len(t) : k + 1 \in 1 .. Len(s.queue) /\ t[k] = s.queue[k + 1]
        /\ t = <<>> <=> Len(s.queue) = 1
    BY <1>1, <2>e, TailFacts
  <2>1. Taken(s) = [record |-> x, rest |-> r]
    BY <1>5, <2>0 DEF Taken
  <2>2. x \in Records /\ x.id = s.queue[1] /\ x.gap = FALSE
    BY <2>0, RecordType
  <2> HIDE DEF t
  <2>3. /\ r \in Subs /\ r.replay = <<>> /\ r.queue = t
        /\ r.dropped = 0 /\ r.open = s.open
    BY <1>5, <2>t DEF Subs
  <2>q. Reached(g) # 0 => s.queue[1] = Reached(g) + 1
    BY <1>5, <2>e DEF Fits, QueueFits, After
  <2>c. \A i, j \in 1 .. Len(s.queue) : s.queue[j] - s.queue[i] = j - i
    BY DEF Fits, QueueFits, Consecutive
  <2>4. g # <<>> => Follows(g[Len(g)], x)
    BY <2>2, <2>q, ReachedType DEF Follows, Reached
  <2>5. x.id <= n
    BY <1>s, <2>0, <2>2
  <2> HIDE DEF r, x
  <2>6. /\ h \in Seq(Records) /\ h # <<>> /\ Rises(h) /\ Reached(h) = x.id
        /\ h[Len(h)] = x
    BY <1>2, <2>2, <2>4, RisesAppend
  <2>7. \A k \in 1 .. Len(h) : h[k].id <= n
    BY <1>g, <2>2, <2>4, <2>5
  <2> HIDE DEF h
  <2>9. After(h, r) = s.queue[1]
    BY <2>2, <2>3, <2>6 DEF After
  <2>10. SeenInLog(h, r, n)
    <3>1. \A k \in 1 .. Len(t) : t[k] <= n
      BY <1>s, <2>t
    <3> QED BY <1>5, <1>s, <2>3, <2>7, <3>1 DEF SeenInLog
  <2>11. ReplayFits(h, r)
    BY <1>5, <1>2, <2>3, <2>6 DEF ReplayFits
  <2>12. QueueFits(h, r)
    <3>1. Consecutive(t)
      <4> SUFFICES ASSUME NEW i \in 1 .. Len(t), NEW j \in 1 .. Len(t)
                   PROVE  t[j] - t[i] = j - i
        BY DEF Consecutive
      <4>1. s.queue[j + 1] - s.queue[i + 1] = (j + 1) - (i + 1)
        BY <2>t, <2>c
      <4> QED BY <2>t, <4>1
    <3>2. t # <<>> => t[1] = s.queue[1] + 1
      <4> HAVE t # <<>>
      <4>1. 1 \in 1 .. Len(t) /\ 2 \in 1 .. Len(s.queue)
        BY <1>1, <2>t
      <4>2. s.queue[2] - s.queue[1] = 2 - 1 /\ s.queue[2] \in Nat /\ s.queue[1] \in Nat
        BY <1>1, <2>0, <2>c, <4>1, IdType, Elements
      <4> QED BY <2>t, <4>1, <4>2
    <3> QED BY <2>3, <2>9, <3>1, <3>2 DEF QueueFits
  <2>13. r.open => End(h, r) = n
    <3> HAVE r.open
    <3>1. s.queue[Len(s.queue)] = n
      BY <2>3, <2>e DEF Fits, End
    <3>2. CASE t = <<>>
      BY <2>3, <2>9, <2>t, <3>1, <3>2 DEF End
    <3>3. CASE t # <<>>
      <4>1. Len(t) \in 1 .. Len(t) /\ Len(t) + 1 = Len(s.queue)
        BY <1>1, <2>t, <3>3
      <4> QED BY <2>3, <2>t, <3>1, <3>3, <4>1 DEF End
    <3> QED BY <3>2, <3>3
  <2> QED BY <1>1, <2>1, <2>t, <2>3, <2>6, <2>10, <2>11, <2>12, <2>13 DEF Fits, h
<1> QED BY <1>3, <1>4, <1>5

(* A page subscribes: what it lacks of the buffer is replayed, after a     *)
(* notice if the buffer begins later.                                      *)
LEMMA FitsSubscribed ==
  ASSUME NEW g \in Seq(Records), NEW s \in Subs, NEW n \in Nat, NEW o \in Nat,
         o >= 1, o <= n + 1, n > 0 => o <= n, Fits(g, s, n)
  PROVE  LET first == IF Reached(g) >= o THEN Reached(g) + 1 ELSE o
             gap == Reached(g) # 0 /\ o > Reached(g) + 1
             p == Opened((IF gap THEN <<Record(o - 1, TRUE)>> ELSE <<>>)
                         \o [k \in 1 .. n - first + 1 |-> Record(first + k - 1, FALSE)])
         IN p \in Subs /\ Fits(g, p, n) /\ p.queue = <<>>
<1> DEFINE a == Reached(g)
           first == IF a >= o THEN a + 1 ELSE o
           gap == a # 0 /\ o > a + 1
           c == n - first + 1
           tail == [k \in 1 .. c |-> Record(first + k - 1, FALSE)]
           note == Record(o - 1, TRUE)
           replay == (IF gap THEN <<note>> ELSE <<>>) \o tail
           p == Opened(replay)
<1>p. /\ p.replay = replay /\ p.queue = <<>> /\ p.dropped = 0 /\ p.open
      /\ p = [replay |-> replay, queue |-> <<>>, dropped |-> 0, open |-> TRUE]
  BY DEF Opened
<1> HIDE DEF p
<1>1. a \in Nat /\ (a = 0 <=> g = <<>>) /\ a <= n /\ Rises(g)
  <2>1. g # <<>> => Len(g) \in 1 .. Len(g)
    OBVIOUS
  <2> QED BY <2>1, ReachedType DEF Fits, SeenInLog, ReplayFits, Reached
<1>g. g # <<>> => g[Len(g)].id = a
  BY DEF Reached
<1>2. /\ first \in Nat /\ first >= 1 /\ first <= n + 1 /\ first >= o
      /\ c \in Nat /\ c = n - first + 1
      /\ gap => first = o /\ o - 1 > a /\ c >= 1
      /\ ~ gap /\ g # <<>> => first = a + 1
      /\ c = 0 => a = n
  <2> HIDE DEF a
  <2>1. first = (IF a >= o THEN a + 1 ELSE o) /\ (gap <=> a # 0 /\ o > a + 1)
    OBVIOUS
  <2>2. first \in Nat /\ first >= 1 /\ first <= n + 1 /\ first >= o
    BY <1>1, <2>1
  <2>3. c \in Nat /\ c = n - first + 1
    BY <2>2
  <2>4. gap => first = o /\ o - 1 > a /\ c >= 1
    BY <1>1, <2>1, <2>3
  <2>5. ~ gap /\ g # <<>> => first = a + 1
    BY <1>1, <2>1
  <2>6. c = 0 => a = n
    BY <1>1, <2>1, <2>2, <2>3
  <2> HIDE DEF c
  <2> QED BY <2>2, <2>3, <2>4, <2>5, <2>6
<1> HIDE DEF a, first, gap
<1>3. \A k \in 1 .. c : first + k - 1 \in Id
  BY <1>2 DEF Id
<1>4. \A k \in 1 .. c : /\ tail[k] \in Records /\ tail[k].id = first + k - 1
                        /\ tail[k].gap = FALSE
  BY <1>3, RecordType
<1> HIDE DEF c
<1>5. tail \in Seq(Records) /\ Len(tail) = c
  <2>1. tail \in [1 .. c -> Records]
    BY <1>4
  <2> HIDE DEF tail
  <2> QED BY <1>2, <2>1, SeqOfFunction
<1> HIDE DEF tail
<1>6. Rises(tail)
  <2> SUFFICES ASSUME NEW k \in 1 .. Len(tail) - 1 PROVE Follows(tail[k], tail[k + 1])
    BY DEF Rises
  <2>1. k \in 1 .. c /\ k + 1 \in 1 .. c /\ k \in Nat
    BY <1>2, <1>5
  <2> QED BY <1>2, <1>4, <2>1 DEF Follows
<1>7. tail # <<>> => tail[1].id = first /\ tail[1].gap = FALSE /\ Reached(tail) = n
  <2> HAVE tail # <<>>
  <2>1. 1 \in 1 .. c /\ c \in 1 .. c
    BY <1>2, <1>5, EmptySeq
  <2>2. first + 1 - 1 = first /\ first + c - 1 = n
    BY <1>2
  <2>3. tail[1].id = first /\ tail[1].gap = FALSE /\ tail[c].id = n
    BY <1>4, <2>1, <2>2
  <2> QED BY <1>5, <2>3 DEF Reached
<1>8. \A k \in 1 .. Len(tail) : tail[k].id <= n
  BY <1>2, <1>4, <1>5
<1>9. /\ replay \in Seq(Records) /\ Rises(replay)
      /\ \A k \in 1 .. Len(replay) : replay[k].id <= n
      /\ replay # <<>> => Reached(replay) = n
      /\ replay = <<>> => a = n
      /\ g # <<>> /\ replay # <<>> => Follows(g[Len(g)], replay[1])
  <2>1. CASE gap
    <3>1. tail # <<>>
      BY <1>2, <1>5, <2>1, EmptySeq
    <3>2. note \in Records /\ note.id = o - 1 /\ note.gap = TRUE
      <4>1. o - 1 \in Id
        BY <1>1, <1>2, <2>1 DEF Id
      <4> QED BY <4>1, RecordType
    <3> HIDE DEF note
    <3>3. Follows(note, tail[1])
      BY <1>2, <1>7, <2>1, <3>1, <3>2 DEF Follows
    <3>4. replay = <<note>> \o tail
      BY <2>1
    <3> HIDE DEF replay
    <3>5. /\ replay \in Seq(Records) /\ Rises(replay) /\ replay # <<>>
          /\ Reached(replay) = n /\ replay[1] = note
          /\ \A k \in 2 .. Len(replay) : k - 1 \in 1 .. Len(tail) /\ replay[k] = tail[k - 1]
      BY <1>5, <1>6, <1>7, <3>1, <3>2, <3>3, <3>4, RisesCons
    <3>6. \A k \in 1 .. Len(replay) : replay[k].id <= n
      <4> TAKE k \in 1 .. Len(replay)
      <4>1. CASE k = 1
        BY <1>2, <2>1, <3>2, <3>5, <4>1
      <4>2. CASE k # 1
        BY <1>8, <3>5, <4>2
      <4> QED BY <4>1, <4>2
    <3>7. g # <<>> => Follows(g[Len(g)], replay[1])
      BY <1>2, <1>g, <2>1, <3>2, <3>5 DEF Follows
    <3> QED BY <3>5, <3>6, <3>7
  <2>2. CASE ~ gap
    <3>1. replay = tail
      BY <1>5, <2>2
    <3>2. tail = <<>> => a = n
      BY <1>2, <1>5
    <3> HIDE DEF replay
    <3>3. g # <<>> /\ tail # <<>> => Follows(g[Len(g)], tail[1])
      BY <1>2, <1>7, <1>g, <2>2 DEF Follows
    <3> QED BY <1>5, <1>6, <1>7, <1>8, <3>1, <3>2, <3>3
  <2> QED BY <2>1, <2>2
<1> HIDE DEF replay
<1>11. p \in Subs
  <2>1. <<>> \in Seq(Id) /\ 0 \in Nat
    OBVIOUS
  <2>2. replay \in Seq(Records)
    BY <1>9
  <2> QED BY <1>p, <2>1, <2>2 DEF Subs
<1>12. SeenInLog(g, p, n)
  <2>1. \A k \in 1 .. Len(g) : g[k].id <= n
    BY DEF SeenInLog, Fits
  <2>2. \A k \in 1 .. Len(p.queue) : p.queue[k] <= n
    BY <1>p
  <2> QED BY <1>9, <1>p, <2>1, <2>2 DEF SeenInLog
<1>13. ReplayFits(g, p)
  BY <1>1, <1>9, <1>p DEF ReplayFits
<1>14. QueueFits(g, p)
  BY <1>p DEF QueueFits, Consecutive
<1>15. End(g, p) = n
  BY <1>9, <1>p DEF End, After, a
<1> QED BY <1>p, <1>11, <1>12, <1>13, <1>14, <1>15 DEF Fits, p, replay, tail, note, c, first, gap, a

------------------------------------------------------------------------------
(* Text *)

(* Records L, the text T that waits, and n emissions, all in their place. *)
Placed(L, T, n) ==
  /\ \A i, j \in 1 .. Len(L) : i < j => \A x \in L[i], y \in L[j] : x < y
  /\ \A i \in 1 .. Len(L) : \A x \in L[i], y \in T : x < y
  /\ \A x : x \in 1 .. n <=> x \in T \/ \E i \in 1 .. Len(L) : x \in L[i]

LEMMA PlacedText ==
  ASSUME NEW n \in Nat, NEW L \in Seq(SUBSET Nat), NEW T \in SUBSET Nat
  PROVE  LET all == L \o (IF T = {} THEN <<>> ELSE <<T>>)
         IN Placed(L, T, n)
            <=> /\ \A i, j \in DOMAIN all : i < j => \A x \in all[i], y \in all[j] : x < y
                /\ UNION Range(all) = 1 .. n
<1> DEFINE all == L \o (IF T = {} THEN <<>> ELSE <<T>>)
           l == Len(L)
<1>1. CASE T = {}
  <2>1. all = L /\ DOMAIN L = 1 .. Len(L)
    BY <1>1
  <2> HIDE DEF all
  <2>2. UNION Range(L) = 1 .. n <=> \A x : x \in 1 .. n <=> \E i \in 1 .. Len(L) : x \in L[i]
    BY <2>1 DEF Range
  <2> QED BY <1>1, <2>1, <2>2 DEF Placed, all
<1>2. CASE T # {}
  <2>1. /\ all \in Seq(SUBSET Nat) /\ Len(all) = l + 1 /\ l \in Nat /\ DOMAIN all = 1 .. l + 1
        /\ all[l + 1] = T /\ \A i \in 1 .. l : all[i] = L[i]
    <3>1. all = L \o <<T>>
      BY <1>2
    <3>2. L \o <<T>> = Append(L, T)
      OBVIOUS
    <3> HIDE DEF all
    <3>3. all \in Seq(SUBSET Nat) /\ Len(all) = l + 1 /\ l \in Nat /\ all[l + 1] = T
      BY <3>1, <3>2, AppendFacts
    <3>4. \A i \in 1 .. l : all[i] = L[i]
      BY <3>1, <3>2, AppendFacts
    <3> QED BY <3>3, <3>4
  <2>2. \A i \in 1 .. l + 1 : i \in 1 .. l \/ i = l + 1
    BY <2>1
  <2> HIDE DEF all
  <2>3. UNION Range(all) = 1 .. n
          <=> \A x : x \in 1 .. n <=> x \in T \/ \E i \in 1 .. l : x \in L[i]
    <3>1. \A x : x \in UNION Range(all) <=> \E i \in 1 .. l + 1 : x \in all[i]
      BY <2>1 DEF Range
    <3>2. \A x : (\E i \in 1 .. l + 1 : x \in all[i]) <=> x \in T \/ \E i \in 1 .. l : x \in L[i]
      BY <2>1, <2>2
    <3> QED BY <3>1, <3>2
  <2>4. ASSUME Placed(L, T, n)
        PROVE  \A i, j \in 1 .. l + 1 : i < j => \A x \in all[i], y \in all[j] : x < y
    <3> TAKE i, j \in 1 .. l + 1
    <3> HAVE i < j
    <3>1. i \in 1 .. l
      BY <2>1
    <3> QED BY <2>1, <2>2, <2>4, <3>1 DEF Placed
  <2>5. ASSUME \A i, j \in 1 .. l + 1 : i < j => \A x \in all[i], y \in all[j] : x < y
        PROVE  /\ \A i, j \in 1 .. l : i < j => \A x \in L[i], y \in L[j] : x < y
               /\ \A i \in 1 .. l : \A x \in L[i], y \in T : x < y
    <3>1. \A i \in 1 .. l : i \in 1 .. l + 1 /\ i < l + 1 /\ l + 1 \in 1 .. l + 1
      BY <2>1
    <3> QED BY <2>1, <2>5, <3>1
  <2> QED BY <2>1, <2>3, <2>4, <2>5 DEF Placed, all
<1> QED BY <1>1, <1>2

(* A text delta waits behind everything that was emitted. *)
LEMMA PlacedWaits ==
  ASSUME NEW n \in Nat, NEW L \in Seq(SUBSET Nat), NEW T \in SUBSET Nat, Placed(L, T, n)
  PROVE  Placed(L, T \cup {n + 1}, n + 1)
<1>1. \A i \in 1 .. Len(L) : \A x \in L[i] : x \in 1 .. n
  BY DEF Placed
<1>2. \A i \in 1 .. Len(L) : \A x \in L[i], y \in T \cup {n + 1} : x < y
  BY <1>1 DEF Placed
<1>3. \A x : x \in 1 .. n + 1 <=> x \in 1 .. n \/ x = n + 1
  OBVIOUS
<1> QED BY <1>2, <1>3 DEF Placed

(* The text becomes a record. *)
LEMMA PlacedFlushed ==
  ASSUME NEW n \in Nat, NEW L \in Seq(SUBSET Nat), NEW T \in SUBSET Nat, Placed(L, T, n)
  PROVE  Placed(L \o <<T>>, {}, n)
<1> DEFINE M == L \o <<T>>
           l == Len(L)
<1>1. Len(M) = l + 1 /\ l \in Nat /\ M[l + 1] = T /\ \A i \in 1 .. l : M[i] = L[i]
  OBVIOUS
<1>2. \A i \in 1 .. l + 1 : i \in 1 .. l \/ i = l + 1
  BY <1>1
<1> HIDE DEF M
<1>3. ASSUME NEW i \in 1 .. l + 1, NEW j \in 1 .. l + 1, i < j, NEW x \in M[i], NEW y \in M[j]
      PROVE  x < y
  <2>1. i \in 1 .. l
    BY <1>1, <1>3
  <2> QED BY <1>1, <1>2, <1>3, <2>1 DEF Placed
<1>4. \A x : (\E i \in 1 .. l + 1 : x \in M[i]) <=> x \in T \/ \E i \in 1 .. l : x \in L[i]
  BY <1>1, <1>2
<1> QED BY <1>1, <1>3, <1>4 DEF Placed, M

(* Any other event is a record behind the text. *)
LEMMA PlacedEvent ==
  ASSUME NEW n \in Nat, NEW L \in Seq(SUBSET Nat), NEW T \in SUBSET Nat, Placed(L, T, n)
  PROVE  Placed(L \o ((IF T = {} THEN <<>> ELSE <<T>>) \o <<{n + 1}>>), {}, n + 1)
<1>1. CASE T = {}
  <2>1. Placed(L, {n + 1}, n + 1)
    BY <1>1, PlacedWaits
  <2>2. {n + 1} \in SUBSET Nat /\ n + 1 \in Nat
    OBVIOUS
  <2>3. Placed(L \o <<{n + 1}>>, {}, n + 1)
    BY <2>1, <2>2, PlacedFlushed
  <2> QED BY <1>1, <2>3
<1>2. CASE T # {}
  <2> DEFINE M == L \o <<T>>
  <2>1. Placed(M, {}, n) /\ M \in Seq(SUBSET Nat)
    BY PlacedFlushed
  <2> HIDE DEF M
  <2>2. Placed(M, {n + 1}, n + 1)
    BY <2>1, PlacedWaits
  <2>3. {n + 1} \in SUBSET Nat /\ n + 1 \in Nat
    OBVIOUS
  <2>4. Placed(M \o <<{n + 1}>>, {}, n + 1)
    BY <2>1, <2>2, <2>3, PlacedFlushed
  <2>5. M \o <<{n + 1}>> = L \o (<<T>> \o <<{n + 1}>>)
    BY DEF M
  <2> QED BY <1>2, <2>4, <2>5
<1> QED BY <1>1, <1>2

------------------------------------------------------------------------------
(* Steps *)

HubTypes ==
  /\ text \in [Run -> SUBSET Nat] /\ log \in [Run -> Seq(SUBSET Nat)]
  /\ oldest \in [Run -> Nat] /\ emitted \in [Run -> 0 .. MaxEmits]
  /\ \A r \in Run :
       /\ text[r] \subseteq 1 .. emitted[r]
       /\ log[r] \in Seq(SUBSET (1 .. emitted[r]))
       /\ oldest[r] \in 1 .. Len(log[r]) + 1
       /\ Len(log[r]) - oldest[r] + 1 <= MaxEvents

RunTypes ==
  /\ turn \in [Run -> Nat] /\ runs \subseteq Sinks
  /\ \A r, s \in Sinks : turn[r] = turn[s] => r = s
  /\ IsFiniteSet(Sinks) /\ \A r \in Sinks : turn[r] <= Cardinality(Sinks)
  /\ ended \in [Run -> BOOLEAN]

ViewerTypes ==
  /\ viewer \in [Viewer -> {"off", "connected", "waiting", "stopped"}]
  /\ watched \in [Viewer -> Run]
  /\ got \in [Viewer -> Seq(Records)] /\ sub \in [Viewer -> Subs]
  /\ \A v \in Viewer :
       /\ sub[v].open => viewer[v] = "connected" /\ watched[v] \in runs
       /\ Len(sub[v].queue) <= MaxQueued
  /\ cuts \in 0 .. MaxCuts

LEMMA TypesParts == Types <=> HubTypes /\ RunTypes /\ ViewerTypes
BY DEF Types, TypeOK, HubTypes, RunTypes, ViewerTypes

(* What HubTypes says of one run; its emissions have room for e. *)
LEMMA HubAt ==
  ASSUME HubTypes, NEW r \in Run
  PROVE  /\ emitted[r] \in Nat /\ emitted[r] <= MaxEmits
         /\ text[r] \in SUBSET (1 .. emitted[r]) /\ text[r] \in SUBSET Nat
         /\ log[r] \in Seq(SUBSET (1 .. emitted[r])) /\ log[r] \in Seq(SUBSET Nat)
         /\ oldest[r] \in 1 .. Len(log[r]) + 1
         /\ Len(log[r]) - oldest[r] + 1 <= MaxEvents
<1>1. emitted[r] \in 0 .. MaxEmits
  BY DEF HubTypes
<1>2. emitted[r] \in Nat /\ emitted[r] <= MaxEmits
  BY <1>1, LimitsAssumption
<1>3. text[r] \subseteq 1 .. emitted[r] /\ text[r] \in SUBSET Nat
  BY DEF HubTypes
<1>4. log[r] \in Seq(SUBSET (1 .. emitted[r])) /\ log[r] \in Seq(SUBSET Nat)
  BY DEF HubTypes
<1>5. oldest[r] \in 1 .. Len(log[r]) + 1 /\ Len(log[r]) - oldest[r] + 1 <= MaxEvents
  BY DEF HubTypes
<1> QED BY <1>2, <1>3, <1>4, <1>5

LEMMA RoomForText ==
  ASSUME NEW n \in Nat, NEW e \in Nat, e >= n, NEW T \in SUBSET (1 .. n)
  PROVE  T \in SUBSET (1 .. e)
<1>1. \A x \in 1 .. n : x \in 1 .. e
  OBVIOUS
<1> QED BY <1>1

LEMMA RoomForLog ==
  ASSUME NEW n \in Nat, NEW e \in Nat, e >= n, NEW L \in Seq(SUBSET (1 .. n))
  PROVE  L \in Seq(SUBSET (1 .. e))
<1>1. \A T \in SUBSET (1 .. n) : T \in SUBSET (1 .. e)
  BY RoomForText
<1>2. SUBSET (1 .. n) \subseteq SUBSET (1 .. e)
  BY <1>1
<1> QED BY <1>2, SeqGrows

AllPlaced == \A r \in Run : Placed(log[r], text[r], emitted[r])

LEMMA TextParts == HubTypes => (TextInPlace <=> AllPlaced)
<1> SUFFICES ASSUME HubTypes, NEW r \in Run
             PROVE  Placed(log[r], text[r], emitted[r])
                    <=> LET all == log[r] \o Batch(r)
                        IN /\ \A i, j \in DOMAIN all :
                                i < j => \A m \in all[i], n \in all[j] : m < n
                           /\ UNION Range(all) = 1 .. emitted[r]
  BY DEF TextInPlace, AllPlaced
<1>1. log[r] \in Seq(SUBSET Nat) /\ text[r] \in SUBSET Nat /\ emitted[r] \in Nat
  BY HubAt
<1> QED BY <1>1, PlacedText DEF Batch

(* A part of the types speaks of the variables it names. *)
LEMMA HubFrame ==
  HubTypes /\ NewestKept /\ AllPlaced /\ UNCHANGED <<text, log, oldest, emitted>>
    => HubTypes' /\ NewestKept' /\ AllPlaced'
BY DEF HubTypes, NewestKept, AllPlaced

LEMMA ViewerFrame ==
  ViewersFit /\ UNCHANGED <<got, sub, log, watched>> => ViewersFit'
BY DEF ViewersFit

LEMMA ViewerTypesFrame ==
  ViewerTypes /\ UNCHANGED <<viewer, watched, got, sub, cuts, runs>> => ViewerTypes'
BY DEF ViewerTypes

LEMMA SinksFrame == UNCHANGED turn => Sinks' = Sinks
BY DEF Sinks

(* Publishing keeps the log's types, the newest record, and every page.    *)
LEMMA PublishKeeps ==
  ASSUME HubTypes, NewestKept, ViewerTypes, ViewersFit, NEW r \in Run, NEW records,
         NEW e \in Nat, e >= emitted[r], e <= MaxEmits,
         records \in Seq(SUBSET (1 .. e)), records # <<>>, Publish(r, records),
         emitted' = [emitted EXCEPT ![r] = e], text' = [text EXCEPT ![r] = {}],
         UNCHANGED <<runs, viewer, watched, got, cuts>>
  PROVE  /\ HubTypes' /\ NewestKept' /\ ViewerTypes' /\ ViewersFit'
         /\ log' = [log EXCEPT ![r] = log[r] \o records]
<1> DEFINE n == Len(log[r])
           c == Len(records)
           m == n + c
<1>1. /\ log[r] \in Seq(SUBSET (1 .. e)) /\ oldest[r] \in 1 .. n + 1
      /\ n - oldest[r] + 1 <= MaxEvents
      /\ n \in Nat /\ c \in Nat /\ c >= 1
  <2>2. log[r] \in Seq(SUBSET (1 .. e))
    <3>1. log[r] \in Seq(SUBSET (1 .. emitted[r])) /\ emitted[r] \in Nat
      BY HubAt, Zenon
    <3> QED BY <3>1, RoomForLog, Zenon
  <2>3. c \in Nat /\ c >= 1
    BY EmptySeq
  <2>4. log[r] \in Seq(SUBSET Nat) /\ oldest[r] \in 1 .. n + 1 /\ n - oldest[r] + 1 <= MaxEvents
    BY HubAt, Zenon
  <2>5. n \in Nat
    BY <2>4
  <2> QED BY <2>2, <2>3, <2>4, <2>5
<1>2. /\ log' = [log EXCEPT ![r] = log[r] \o records]
      /\ sub' = [v \in Viewer |->
                   IF watched[v] = r /\ sub[v].open
                   THEN Push(sub[v], [k \in 1 .. m - n |-> n + k]) ELSE sub[v]]
  BY DEF Publish
<1>3. PICK first \in (IF m - MaxEvents + 1 > oldest[r] THEN m - MaxEvents + 1 ELSE oldest[r]) .. m :
         oldest' = [oldest EXCEPT ![r] = first]
  BY DEF Publish
<1>4. log[r] \o records \in Seq(SUBSET (1 .. e)) /\ Len(log[r] \o records) = m
  BY <1>1
<1>5. first \in 1 .. m /\ m - first + 1 <= MaxEvents
  BY <1>1, <1>3, LimitsAssumption
<1>6. log'[r] = log[r] \o records /\ \A x \in Run : x # r => log'[x] = log[x]
  BY <1>2 DEF HubTypes
<1>7. HubTypes'
  <2>1. SUBSET (1 .. e) \subseteq SUBSET Nat
    OBVIOUS
  <2>2. log' \in [Run -> Seq(SUBSET Nat)] /\ text' \in [Run -> SUBSET Nat]
    BY <1>2, <1>4, <2>1 DEF HubTypes
  <2>3. oldest' \in [Run -> Nat] /\ emitted' \in [Run -> 0 .. MaxEmits]
    BY <1>3, <1>5 DEF HubTypes
  <2>4. ASSUME NEW x \in Run
        PROVE  /\ text'[x] \subseteq 1 .. emitted'[x]
               /\ log'[x] \in Seq(SUBSET (1 .. emitted'[x]))
               /\ oldest'[x] \in 1 .. Len(log'[x]) + 1
               /\ Len(log'[x]) - oldest'[x] + 1 <= MaxEvents
    <3>0. /\ text'[x] = IF x = r THEN {} ELSE text[x]
          /\ emitted'[x] = IF x = r THEN e ELSE emitted[x]
          /\ oldest'[x] = IF x = r THEN first ELSE oldest[x]
      BY <1>3 DEF HubTypes
    <3>1. CASE x = r
      <4>1. Len(log'[r]) = m /\ log'[r] \in Seq(SUBSET (1 .. e)) /\ m \in Nat
        BY <1>1, <1>4, <1>6
      <4> HIDE DEF m
      <4> QED BY <1>5, <3>0, <3>1, <4>1
    <3>2. CASE x # r
      BY <1>6, <3>0, <3>2, HubAt
    <3> QED BY <3>1, <3>2
  <2> QED BY <2>2, <2>3, <2>4 DEF HubTypes
<1>8. NewestKept'
  BY <1>3, <1>4, <1>5, <1>6 DEF NewestKept, HubTypes
<1>9. ASSUME NEW v \in Viewer
      PROVE  /\ sub'[v] \in Subs /\ (sub'[v].open <=> sub[v].open)
             /\ Len(sub'[v].queue) <= MaxQueued
             /\ Fits(got[v], sub'[v], Len(log'[watched[v]]))
  <2>0. /\ got[v] \in Seq(Records) /\ sub[v] \in Subs /\ watched[v] \in Run
        /\ Fits(got[v], sub[v], Len(log[watched[v]])) /\ Len(sub[v].queue) <= MaxQueued
    BY DEF ViewerTypes, ViewersFit
  <2>1. CASE watched[v] = r /\ sub[v].open
    <3>1. m - n = c
      BY <1>1
    <3>2. sub'[v] = Push(sub[v], [k \in 1 .. c |-> n + k])
      BY <1>2, <2>1, <3>1
    <3>3. Fits(got[v], sub[v], n) /\ Len(log'[watched[v]]) = n + c
      BY <1>4, <1>6, <2>0, <2>1
    <3> HIDE DEF n, c
    <3> QED BY <1>1, <2>0, <2>1, <3>2, <3>3, FitsPushed
  <2>2. CASE watched[v] = r /\ ~ sub[v].open
    <3>1. sub'[v] = sub[v]
      BY <1>2, <2>2
    <3>2. Fits(got[v], sub[v], n) /\ Len(log'[watched[v]]) = m
      BY <1>4, <1>6, <2>0, <2>2
    <3>3. m >= n /\ m \in Nat
      BY <1>1
    <3> HIDE DEF n, m
    <3> QED BY <1>1, <2>0, <2>2, <3>1, <3>2, <3>3, FitsGrows
  <2>3. CASE watched[v] # r
    <3>1. sub'[v] = sub[v] /\ log'[watched[v]] = log[watched[v]]
      BY <1>2, <1>6, <2>0, <2>3
    <3> QED BY <2>0, <3>1
  <2> QED BY <2>1, <2>2, <2>3
<1>10. ViewerTypes'
  <2>1. sub' \in [Viewer -> Subs]
    BY <1>2, <1>9
  <2> QED BY <1>9, <2>1 DEF ViewerTypes
<1>11. ViewersFit'
  BY <1>9 DEF ViewersFit
<1> QED BY <1>2, <1>7, <1>8, <1>10, <1>11

Parts == HubTypes /\ RunTypes /\ ViewerTypes /\ NewestKept /\ RunningStays /\ AllPlaced /\ ViewersFit

LEMMA PartsOfIInv == IInv <=> Parts
BY TypesParts, TextParts DEF IInv, Parts

LEMMA PartsOfIInvNext == IInv' <=> Parts'
BY PartsOfIInv, PTL

(* The runs and their places stay. *)
LEMMA RunFrame ==
  RunTypes /\ RunningStays /\ UNCHANGED <<turn, runs>>
           /\ ended' \in [Run -> BOOLEAN] /\ (\A r \in Run : ended[r] => ended'[r])
    => RunTypes' /\ RunningStays'
<1> SUFFICES ASSUME RunTypes, RunningStays, UNCHANGED <<turn, runs>>,
                    ended' \in [Run -> BOOLEAN], \A r \in Run : ended[r] => ended'[r]
             PROVE  RunTypes' /\ RunningStays'
  OBVIOUS
<1>1. Sinks' = Sinks /\ Sinks \subseteq Run
  BY DEF Sinks
<1>2. RunTypes'
  BY <1>1 DEF RunTypes
<1>3. RunningStays'
  BY <1>1 DEF RunningStays
<1> QED BY <1>2, <1>3

LEMMA EmitTextKeeps == ASSUME Parts, NEW r \in Run, EmitText(r) PROVE Parts'
<1>1. /\ emitted' = [emitted EXCEPT ![r] = emitted[r] + 1]
      /\ text' = [text EXCEPT ![r] = text[r] \cup {emitted[r] + 1}]
      /\ emitted[r] < MaxEmits
      /\ UNCHANGED <<runs, turn, log, oldest, ended, viewer, watched, sub, got, cuts>>
  BY DEF EmitText, viewerVars
<1>2. HubTypes /\ emitted[r] \in Nat /\ emitted[r] + 1 \in 0 .. MaxEmits
  <2>1. HubTypes
    BY DEF Parts
  <2>2. emitted[r] \in Nat /\ MaxEmits \in Nat
    BY <2>1, HubAt, LimitsAssumption, Zenon
  <2> QED BY <1>1, <2>1, <2>2
<1>3. HubTypes'
  <2>1. text' \in [Run -> SUBSET Nat] /\ emitted' \in [Run -> 0 .. MaxEmits]
    BY <1>1, <1>2 DEF HubTypes
  <2>2. ASSUME NEW x \in Run
        PROVE  /\ text'[x] \subseteq 1 .. emitted'[x]
               /\ log[x] \in Seq(SUBSET (1 .. emitted'[x]))
    <3>1. CASE x = r
      <4>1. emitted[r] + 1 \in Nat /\ emitted[r] + 1 >= emitted[r]
        BY <1>2
      <4>0. log[r] \in Seq(SUBSET (1 .. emitted[r])) /\ text[r] \in SUBSET (1 .. emitted[r])
        BY <1>2, HubAt, Zenon
      <4>2. log[r] \in Seq(SUBSET (1 .. emitted[r] + 1))
        BY <1>2, <4>0, <4>1, RoomForLog, Zenon
      <4>3. text[r] \cup {emitted[r] + 1} \subseteq 1 .. emitted[r] + 1
        <5>1. text[r] \in SUBSET (1 .. emitted[r] + 1)
          BY <1>2, <4>0, <4>1, RoomForText
        <5> QED BY <1>2, <5>1
      <4> QED BY <1>1, <1>2, <3>1, <4>2, <4>3 DEF HubTypes
    <3>2. CASE x # r
      BY <1>1, <1>2, <3>2 DEF HubTypes
    <3> QED BY <3>1, <3>2
  <2> QED BY <1>1, <1>2, <2>1, <2>2 DEF HubTypes
<1>4. AllPlaced'
  <2> SUFFICES ASSUME NEW x \in Run PROVE Placed(log[x], text'[x], emitted'[x])
    BY <1>1 DEF AllPlaced
  <2>1. log[x] \in Seq(SUBSET Nat) /\ text[x] \in SUBSET Nat /\ emitted[x] \in Nat
    BY <1>2, HubAt
  <2>2. Placed(log[x], text[x], emitted[x])
    BY DEF Parts, AllPlaced
  <2>3. CASE x = r
    BY <1>1, <1>2, <2>1, <2>2, <2>3, PlacedWaits DEF HubTypes
  <2>4. CASE x # r
    BY <1>1, <1>2, <2>2, <2>4 DEF HubTypes
  <2> QED BY <2>3, <2>4
<1>5. NewestKept' /\ ViewersFit' /\ ViewerTypes'
  BY <1>1, ViewerFrame, ViewerTypesFrame DEF Parts, NewestKept
<1>6. RunTypes' /\ RunningStays'
  BY <1>1, RunFrame DEF Parts, RunTypes
<1> QED BY <1>3, <1>4, <1>5, <1>6 DEF Parts

LEMMA FlushTextKeeps == ASSUME Parts, NEW r \in Run, FlushText(r) PROVE Parts'
<1>1. /\ text[r] # {} /\ Publish(r, Batch(r)) /\ text' = [text EXCEPT ![r] = {}]
      /\ UNCHANGED <<runs, turn, emitted, ended, viewer, watched, got, cuts>>
  BY DEF FlushText
<1>2. /\ HubTypes /\ ViewerTypes /\ NewestKept /\ ViewersFit
      /\ emitted[r] \in Nat /\ emitted[r] <= MaxEmits /\ text[r] \in SUBSET (1 .. emitted[r])
      /\ emitted' = [emitted EXCEPT ![r] = emitted[r]]
  <2>1. HubTypes
    BY DEF Parts
  <2>2. emitted' = [emitted EXCEPT ![r] = emitted[r]]
    BY <1>1, <2>1 DEF HubTypes
  <2> QED BY <2>1, <2>2, HubAt DEF Parts
<1>3. Batch(r) = <<text[r]>> /\ Batch(r) \in Seq(SUBSET (1 .. emitted[r])) /\ Batch(r) # <<>>
  <2>1. Batch(r) = <<text[r]>>
    BY <1>1 DEF Batch
  <2>2. <<text[r]>> \in Seq(SUBSET (1 .. emitted[r])) /\ <<text[r]>> # <<>>
    BY <1>2
  <2> QED BY <2>1, <2>2
<1>4. /\ HubTypes' /\ NewestKept' /\ ViewerTypes' /\ ViewersFit'
      /\ log' = [log EXCEPT ![r] = log[r] \o Batch(r)]
  <2>1. emitted[r] >= emitted[r]
    BY <1>2
  <2> QED BY <1>1, <1>2, <1>3, <2>1, PublishKeeps
<1>5. AllPlaced'
  <2> SUFFICES ASSUME NEW x \in Run PROVE Placed(log'[x], text'[x], emitted[x])
    BY <1>1 DEF AllPlaced
  <2>1. log[x] \in Seq(SUBSET Nat) /\ text[x] \in SUBSET Nat /\ emitted[x] \in Nat
    BY <1>2, HubAt
  <2>2. Placed(log[x], text[x], emitted[x])
    BY DEF Parts, AllPlaced
  <2>3. CASE x = r
    BY <1>1, <1>2, <1>3, <1>4, <2>1, <2>2, <2>3, PlacedFlushed DEF HubTypes
  <2>4. CASE x # r
    BY <1>1, <1>2, <1>4, <2>2, <2>4 DEF HubTypes
  <2> QED BY <2>3, <2>4
<1>6. RunTypes' /\ RunningStays'
  BY <1>1, RunFrame DEF Parts, RunTypes
<1> QED BY <1>4, <1>5, <1>6 DEF Parts

LEMMA EmitEventKeeps ==
  ASSUME Parts, NEW r \in Run, NEW last \in BOOLEAN, EmitEvent(r, last)
  PROVE  Parts'
<1> DEFINE e == emitted[r] + 1
           records == Batch(r) \o <<{e}>>
<1>1. /\ ended[r] => last
      /\ emitted[r] < MaxEmits /\ emitted' = [emitted EXCEPT ![r] = e]
      /\ ended' = [ended EXCEPT ![r] = last]
      /\ Publish(r, records) /\ text' = [text EXCEPT ![r] = {}]
      /\ UNCHANGED <<runs, turn, viewer, watched, got, cuts>>
  BY DEF EmitEvent
<1>2. /\ HubTypes /\ ViewerTypes /\ NewestKept /\ ViewersFit
      /\ emitted[r] \in Nat /\ e \in Nat /\ e <= MaxEmits /\ e >= emitted[r]
      /\ text[r] \in SUBSET (1 .. e)
  <2>1. HubTypes
    BY DEF Parts
  <2>2. emitted[r] \in Nat /\ e \in Nat /\ e <= MaxEmits /\ e >= emitted[r]
    <3>1. emitted[r] \in Nat /\ MaxEmits \in Nat
      BY <2>1, HubAt, LimitsAssumption, Zenon
    <3> QED BY <1>1, <3>1
  <2>3. text[r] \in SUBSET (1 .. e)
    <3>1. text[r] \in SUBSET (1 .. emitted[r])
      BY <2>1, HubAt, Zenon
    <3> HIDE DEF e
    <3> QED BY <2>2, <3>1, RoomForText
  <2> QED BY <2>1, <2>2, <2>3 DEF Parts
<1>3. records \in Seq(SUBSET (1 .. e)) /\ records # <<>>
  <2>1. {e} \in SUBSET (1 .. e)
    BY <1>2
  <2>2. Batch(r) \in Seq(SUBSET (1 .. e))
    <3>1. <<>> \in Seq(SUBSET (1 .. e)) /\ <<text[r]>> \in Seq(SUBSET (1 .. e))
      BY <1>2
    <3> QED BY <3>1 DEF Batch
  <2>3. records = Append(Batch(r), {e})
    BY <2>1, <2>2
  <2> QED BY <2>1, <2>2, <2>3, AppendFacts
<1> HIDE DEF e, records
<1>4. /\ HubTypes' /\ NewestKept' /\ ViewerTypes' /\ ViewersFit'
      /\ log' = [log EXCEPT ![r] = log[r] \o records]
  BY <1>1, <1>2, <1>3, PublishKeeps
<1>5. AllPlaced'
  <2> SUFFICES ASSUME NEW x \in Run PROVE Placed(log'[x], text'[x], emitted'[x])
    BY DEF AllPlaced
  <2>1. log[x] \in Seq(SUBSET Nat) /\ text[x] \in SUBSET Nat /\ emitted[x] \in Nat
    BY <1>2, HubAt
  <2>2. Placed(log[x], text[x], emitted[x])
    BY DEF Parts, AllPlaced
  <2>3. CASE x = r
    <3>1. Placed(log[r] \o records, {}, e)
      BY <2>1, <2>2, <2>3, PlacedEvent DEF records, e, Batch
    <3>2. log'[r] = log[r] \o records /\ text'[r] = {} /\ emitted'[r] = e
      BY <1>1, <1>2, <1>4 DEF HubTypes
    <3> QED BY <2>3, <3>1, <3>2
  <2>4. CASE x # r
    BY <1>1, <1>2, <1>4, <2>2, <2>4 DEF HubTypes
  <2> QED BY <2>3, <2>4
<1>6. RunTypes' /\ RunningStays'
  <2>1. ended' \in [Run -> BOOLEAN] /\ \A x \in Run : ended[x] => ended'[x]
    BY <1>1 DEF Parts, RunTypes
  <2> QED BY <1>1, <2>1, RunFrame DEF Parts
<1> QED BY <1>4, <1>5, <1>6 DEF Parts

(* A new run takes the next turn; who goes has ended.                      *)
LEMMA EnsureKeeps == ASSUME Parts, NEW r \in Run, Ensure(r) PROVE Parts'
<1> DEFINE out == Victims(runs \cup {r})
<1>1. /\ r \notin Sinks /\ turn' = [turn EXCEPT ![r] = Cardinality(Sinks) + 1]
      /\ runs' = (runs \cup {r}) \ out
      /\ sub' = [v \in Viewer |-> IF watched[v] \in out
                                  THEN [sub[v] EXCEPT !.open = FALSE] ELSE sub[v]]
      /\ UNCHANGED <<emitted, text, log, oldest, ended, viewer, watched, got, cuts>>
  BY DEF Ensure
<1>2. \A x \in out : ended[x]
  BY DEF Victims
<1> HIDE DEF out
<1>3. HubTypes' /\ NewestKept' /\ AllPlaced'
  BY <1>1, HubFrame DEF Parts
<1>4. Sinks' = Sinks \cup {r} /\ Cardinality(Sinks) \in Nat /\ Sinks \subseteq Run
  <2>1. Cardinality(Sinks) \in Nat
    BY FS_CardinalityType DEF Parts, RunTypes
  <2>2. \A x \in Run : turn'[x] = IF x = r THEN Cardinality(Sinks) + 1 ELSE turn[x]
    BY <1>1 DEF Parts, RunTypes
  <2>3. Cardinality(Sinks) + 1 # 0
    BY <2>1
  <2> QED BY <2>1, <2>2, <2>3 DEF Sinks
<1>5. IsFiniteSet(Sinks') /\ Cardinality(Sinks') = Cardinality(Sinks) + 1
  BY <1>1, <1>4, FS_AddElement DEF Parts, RunTypes
<1>6. RunTypes'
  <2>1. turn' \in [Run -> Nat] /\ ended' \in [Run -> BOOLEAN]
    BY <1>1, <1>4 DEF Parts, RunTypes
  <2>2. runs' \subseteq Sinks'
    BY <1>1, <1>4 DEF Parts, RunTypes
  <2>3. /\ turn'[r] = Cardinality(Sinks) + 1
        /\ \A x \in Sinks : turn'[x] = turn[x] /\ turn[x] <= Cardinality(Sinks) /\ turn[x] \in Nat
    BY <1>1, <1>4 DEF Parts, RunTypes
  <2>4. \A x \in Sinks' : turn'[x] <= Cardinality(Sinks')
    BY <1>4, <1>5, <2>3
  <2>5. \A x, y \in Sinks' : turn'[x] = turn'[y] => x = y
    <3> SUFFICES ASSUME NEW x \in Sinks', NEW y \in Sinks', turn'[x] = turn'[y]
                 PROVE  x = y
      OBVIOUS
    <3>1. CASE x = r /\ y \in Sinks
      BY <1>4, <2>3, <3>1
    <3>2. CASE y = r /\ x \in Sinks
      BY <1>4, <2>3, <3>2
    <3>3. CASE x \in Sinks /\ y \in Sinks
      BY <2>3, <3>3 DEF Parts, RunTypes
    <3> QED BY <1>4, <3>1, <3>2, <3>3
  <2> QED BY <1>5, <2>1, <2>2, <2>4, <2>5 DEF RunTypes
<1>7. RunningStays'
  <2> SUFFICES ASSUME NEW x \in Sinks', ~ ended[x] PROVE x \in runs'
    BY <1>1 DEF RunningStays
  <2>1. x \in runs \cup {r}
    BY <1>4 DEF Parts, RunningStays
  <2> QED BY <1>1, <1>2, <2>1
<1>8. ASSUME NEW v \in Viewer
      PROVE  /\ sub'[v] \in Subs /\ sub'[v].queue = sub[v].queue
             /\ Fits(got[v], sub'[v], Len(log[watched[v]]))
             /\ sub'[v].open => sub[v].open /\ watched[v] \notin out
  <2>0. /\ got[v] \in Seq(Records) /\ sub[v] \in Subs
        /\ Fits(got[v], sub[v], Len(log[watched[v]]))
    BY DEF Parts, ViewerTypes, ViewersFit
  <2>n. Len(log[watched[v]]) \in Nat
    BY HubAt, Elements DEF Parts, ViewerTypes
  <2>1. CASE watched[v] \in out
    <3>1. sub'[v] = [sub[v] EXCEPT !.open = FALSE]
      BY <1>1, <2>1
    <3>2. /\ [sub[v] EXCEPT !.open = FALSE].queue = sub[v].queue
          /\ [sub[v] EXCEPT !.open = FALSE].open = FALSE
      BY <2>0 DEF Subs
    <3> QED BY <2>0, <2>n, <3>1, <3>2, FitsClosed
  <2>2. CASE watched[v] \notin out
    BY <1>1, <2>0, <2>2
  <2> QED BY <2>1, <2>2
<1>9. ViewerTypes'
  <2>1. sub' \in [Viewer -> Subs]
    BY <1>1, <1>8
  <2>2. ASSUME NEW v \in Viewer
        PROVE  /\ sub'[v].open => viewer[v] = "connected" /\ watched[v] \in runs'
               /\ Len(sub'[v].queue) <= MaxQueued
    BY <1>1, <1>8 DEF Parts, ViewerTypes
  <2> QED BY <1>1, <2>1, <2>2 DEF Parts, ViewerTypes
<1>10. ViewersFit'
  BY <1>1, <1>8 DEF ViewersFit
<1> QED BY <1>3, <1>6, <1>7, <1>9, <1>10 DEF Parts

(* A step of one viewer keeps the invariant if it keeps its page's part.   *)
LEMMA ViewerMoves ==
  ASSUME Parts, NEW v \in Viewer, NEW w, NEW s, NEW g, NEW k,
         UNCHANGED <<hubVars, watched>>,
         viewer' = [viewer EXCEPT ![v] = w], sub' = [sub EXCEPT ![v] = s],
         got' = [got EXCEPT ![v] = g], cuts' = k, k \in 0 .. MaxCuts,
         w \in {"off", "connected", "waiting", "stopped"}, s \in Subs, g \in Seq(Records),
         s.open => w = "connected" /\ watched[v] \in runs, Len(s.queue) <= MaxQueued,
         Fits(g, s, Len(log[watched[v]]))
  PROVE  Parts'
<1>0. UNCHANGED <<runs, turn, emitted, text, log, oldest, ended, watched>>
  BY DEF hubVars
<1>1. HubTypes' /\ NewestKept' /\ AllPlaced'
  BY <1>0, HubFrame DEF Parts
<1>2. RunTypes' /\ RunningStays'
  BY <1>0, RunFrame DEF Parts, RunTypes
<1>3. \A x \in Viewer : /\ viewer'[x] = IF x = v THEN w ELSE viewer[x]
                        /\ sub'[x] = IF x = v THEN s ELSE sub[x]
                        /\ got'[x] = IF x = v THEN g ELSE got[x]
  BY DEF Parts, ViewerTypes
<1>4. ViewerTypes'
  <2>1. /\ viewer' \in [Viewer -> {"off", "connected", "waiting", "stopped"}]
        /\ got' \in [Viewer -> Seq(Records)] /\ sub' \in [Viewer -> Subs]
    BY DEF Parts, ViewerTypes
  <2>2. \A x \in Viewer : /\ sub'[x].open => viewer'[x] = "connected" /\ watched[x] \in runs
                          /\ Len(sub'[x].queue) <= MaxQueued
    BY <1>3 DEF Parts, ViewerTypes
  <2> QED BY <1>0, <2>1, <2>2 DEF Parts, ViewerTypes
<1>5. ViewersFit'
  BY <1>0, <1>3 DEF Parts, ViewersFit
<1> QED BY <1>1, <1>2, <1>4, <1>5 DEF Parts

(* What the invariant says of one viewer. *)
LEMMA ViewerAt ==
  ASSUME Parts, NEW v \in Viewer
  PROVE  /\ got[v] \in Seq(Records) /\ sub[v] \in Subs /\ watched[v] \in Run
         /\ viewer[v] \in {"off", "connected", "waiting", "stopped"} /\ cuts \in 0 .. MaxCuts
         /\ sub[v].open => viewer[v] = "connected" /\ watched[v] \in runs
         /\ Len(sub[v].queue) <= MaxQueued /\ Len(log[watched[v]]) \in Nat
         /\ Fits(got[v], sub[v], Len(log[watched[v]]))
         /\ got = [got EXCEPT ![v] = got[v]] /\ sub = [sub EXCEPT ![v] = sub[v]]
<1>1. Len(log[watched[v]]) \in Nat
  BY HubAt, Elements DEF Parts, ViewerTypes
<1>2. got = [got EXCEPT ![v] = got[v]] /\ sub = [sub EXCEPT ![v] = sub[v]]
  BY DEF Parts, ViewerTypes
<1> QED BY <1>1, <1>2 DEF Parts, ViewerTypes, ViewersFit

LEMMA ConnectKeeps == ASSUME Parts, NEW v \in Viewer, Connect(v) PROVE Parts'
<1> DEFINE r == watched[v]
<1>1. UNCHANGED <<hubVars, watched>> /\ got' = [got EXCEPT ![v] = got[v]] /\ cuts' = cuts
  BY ViewerAt DEF Connect
<1>2. CASE r \in runs
  <2> DEFINE n == Len(log[r])
             o == oldest[r]
             a == Reached(got[v])
             first == IF a >= o THEN a + 1 ELSE o
             gap == a # 0 /\ o > a + 1
             p == Opened((IF gap THEN <<Record(o - 1, TRUE)>> ELSE <<>>)
                         \o [k \in 1 .. n - first + 1 |-> Record(first + k - 1, FALSE)])
  <2>1. Cursor(v) = a
    BY DEF Cursor, Reached, Last
  <2>2. sub' = [sub EXCEPT ![v] = p] /\ viewer' = [viewer EXCEPT ![v] = "connected"]
    BY <1>2, <2>1 DEF Connect, Subscribe
  <2>3. r \in Run /\ HubTypes /\ NewestKept
    BY ViewerAt DEF Parts
  <2>4. log[r] \in Seq(SUBSET Nat) /\ o \in 1 .. n + 1
    BY <2>3, HubAt
  <2>5. n \in Nat /\ o \in Nat /\ o >= 1 /\ o <= n + 1 /\ (n > 0 => o <= n)
    <3>1. n > 0 => log[r] # <<>>
      BY <2>4, EmptySeq
    <3>2. n \in Nat
      BY <2>4
    <3> QED BY <2>3, <2>4, <3>1, <3>2 DEF NewestKept
  <2>6. got[v] \in Seq(Records) /\ sub[v] \in Subs /\ Fits(got[v], sub[v], n)
    BY ViewerAt
  <2> HIDE DEF n, o
  <2>7. p \in Subs /\ Fits(got[v], p, n) /\ p.queue = <<>>
    BY <2>5, <2>6, FitsSubscribed
  <2> HIDE DEF p
  <2>8. Len(p.queue) <= MaxQueued
    BY <2>7, LimitsAssumption
  <2> QED BY <1>1, <1>2, <2>2, <2>6, <2>7, <2>8, ViewerAt, ViewerMoves DEF n
<1>3. CASE r \notin runs
  <2>1. sub' = [sub EXCEPT ![v] = sub[v]] /\ viewer' = [viewer EXCEPT ![v] = "stopped"]
    BY <1>3, ViewerAt DEF Connect
  <2>2. ~ sub[v].open
    BY <1>3, ViewerAt
  <2> QED BY <1>1, <2>1, <2>2, ViewerAt, ViewerMoves
<1> QED BY <1>2, <1>3

LEMMA TakeKeeps == ASSUME Parts, NEW v \in Viewer, Take(v) PROVE Parts'
<1> DEFINE s == Taken(sub[v]).rest
           g == Append(got[v], Taken(sub[v]).record)
<1>1. /\ ~ Empty(sub[v]) /\ viewer[v] = "connected"
      /\ got' = [got EXCEPT ![v] = g] /\ sub' = [sub EXCEPT ![v] = s]
      /\ UNCHANGED <<hubVars, watched>> /\ cuts' = cuts
  BY DEF Take
<1>2. viewer' = [viewer EXCEPT ![v] = "connected"]
  BY <1>1 DEF Take, Parts, ViewerTypes
<1>3. /\ g \in Seq(Records) /\ s \in Subs /\ Fits(g, s, Len(log[watched[v]]))
      /\ s.open = sub[v].open /\ Len(s.queue) <= Len(sub[v].queue)
  BY <1>1, ViewerAt, FitsTaken
<1> HIDE DEF s, g
<1>4. Len(s.queue) <= MaxQueued
  <2>1. s.queue \in Seq(Id) /\ sub[v].queue \in Seq(Id)
    BY <1>3, ViewerAt DEF Subs
  <2>2. Len(s.queue) \in Nat /\ Len(sub[v].queue) \in Nat /\ MaxQueued \in Nat
    BY <2>1, LimitsAssumption
  <2> QED BY <1>3, <2>2, ViewerAt
<1>5. s.open => "connected" = "connected" /\ watched[v] \in runs
  BY <1>3, ViewerAt
<1> QED BY <1>1, <1>2, <1>3, <1>4, <1>5, ViewerAt, ViewerMoves

LEMMA StreamEndsKeeps == ASSUME Parts, NEW v \in Viewer, StreamEnds(v) PROVE Parts'
<1>1. /\ ~ sub[v].open /\ viewer' = [viewer EXCEPT ![v] = "waiting"]
      /\ got' = [got EXCEPT ![v] = got[v]] /\ sub' = [sub EXCEPT ![v] = sub[v]]
      /\ UNCHANGED <<hubVars, watched>> /\ cuts' = cuts
  BY ViewerAt DEF StreamEnds
<1>2. /\ got[v] \in Seq(Records) /\ sub[v] \in Subs /\ cuts \in 0 .. MaxCuts
      /\ Len(sub[v].queue) <= MaxQueued /\ Fits(got[v], sub[v], Len(log[watched[v]]))
  BY ViewerAt
<1> DEFINE s == sub[v]
           g == got[v]
<1>3. /\ g \in Seq(Records) /\ s \in Subs /\ Len(s.queue) <= MaxQueued
      /\ Fits(g, s, Len(log[watched[v]])) /\ ~ s.open
      /\ got' = [got EXCEPT ![v] = g] /\ sub' = [sub EXCEPT ![v] = s]
  BY <1>1, <1>2
<1> HIDE DEF s, g
<1> QED BY <1>1, <1>2, <1>3, ViewerMoves

LEMMA CutKeeps == ASSUME Parts, NEW v \in Viewer, Cut(v) PROVE Parts'
<1>1. /\ cuts < MaxCuts /\ viewer' = [viewer EXCEPT ![v] = "waiting"]
      /\ got' = [got EXCEPT ![v] = got[v]] /\ sub' = [sub EXCEPT ![v] = NoSub]
      /\ UNCHANGED <<hubVars, watched>> /\ cuts' = cuts + 1
  BY ViewerAt DEF Cut
<1>2. cuts + 1 \in 0 .. MaxCuts
  BY <1>1, ViewerAt, LimitsAssumption
<1>3. NoSub \in Subs /\ Fits(got[v], NoSub, Len(log[watched[v]]))
  BY ViewerAt, FitsNoSub
<1>4. NoSub.open = FALSE /\ Len(NoSub.queue) <= MaxQueued
  BY LimitsAssumption DEF NoSub
<1> QED BY <1>1, <1>2, <1>3, <1>4, ViewerAt, ViewerMoves

------------------------------------------------------------------------------
(* The invariant *)

LEMMA Start0 == Init => IInv
<1> SUFFICES ASSUME Init PROVE Parts
  BY PartsOfIInv
<1>1. HubTypes
  <2>1. <<>> \in Seq(SUBSET Nat) /\ \A n \in Nat : <<>> \in Seq(SUBSET (1 .. n))
    OBVIOUS
  <2>2. /\ text = [r \in Run |-> {}] /\ log = [r \in Run |-> <<>>]
        /\ oldest = [r \in Run |-> 1] /\ emitted = [r \in Run |-> 0]
    BY DEF Init
  <2>3. /\ text \in [Run -> SUBSET Nat] /\ log \in [Run -> Seq(SUBSET Nat)]
        /\ oldest \in [Run -> Nat] /\ emitted \in [Run -> 0 .. MaxEmits]
    BY <2>1, <2>2, LimitsAssumption
  <2>4. ASSUME NEW r \in Run
        PROVE  /\ text[r] \subseteq 1 .. emitted[r] /\ log[r] \in Seq(SUBSET (1 .. emitted[r]))
               /\ oldest[r] \in 1 .. Len(log[r]) + 1
               /\ Len(log[r]) - oldest[r] + 1 <= MaxEvents
    BY <2>1, <2>2, LimitsAssumption
  <2> QED BY <2>3, <2>4 DEF HubTypes
<1>2. RunTypes /\ RunningStays
  <2>1. Sinks = {}
    BY DEF Init, Sinks
  <2>2. turn \in [Run -> Nat] /\ runs = {} /\ ended \in [Run -> BOOLEAN]
    BY DEF Init
  <2> QED BY <2>1, <2>2, FS_EmptySet DEF RunTypes, RunningStays
<1>3. ASSUME NEW v \in Viewer
      PROVE  /\ got[v] = <<>> /\ sub[v] = NoSub /\ watched[v] \in Run
             /\ log[watched[v]] = <<>>
             /\ Fits(got[v], sub[v], Len(log[watched[v]]))
  <2>1. /\ got[v] = <<>> /\ sub[v] = NoSub /\ watched[v] \in Run
        /\ log[watched[v]] = <<>>
    BY DEF Init
  <2>2. NoSub.replay = <<>> /\ NoSub.queue = <<>> /\ NoSub.dropped = 0 /\ NoSub.open = FALSE
    BY DEF NoSub
  <2>3. Fits(<<>>, NoSub, Len(<<>>))
    BY <2>2 DEF Fits, SeenInLog, ReplayFits, QueueFits, Rises, Consecutive
  <2> QED BY <2>1, <2>3
<1>4. ViewersFit
  BY <1>3 DEF ViewersFit
<1>5. ViewerTypes
  <2>1. NoSub \in Subs /\ <<>> \in Seq(Records) /\ NoSub.open = FALSE
        /\ Len(NoSub.queue) <= MaxQueued
    BY LimitsAssumption DEF NoSub, Subs
  <2>2. /\ viewer \in [Viewer -> {"off", "connected", "waiting", "stopped"}]
        /\ watched \in [Viewer -> Run] /\ cuts = 0
        /\ got = [v \in Viewer |-> <<>>] /\ sub = [v \in Viewer |-> NoSub]
    BY DEF Init
  <2>3. got \in [Viewer -> Seq(Records)] /\ sub \in [Viewer -> Subs]
    BY <2>1, <2>2
  <2>4. cuts \in 0 .. MaxCuts
    BY <2>2, LimitsAssumption
  <2> QED BY <1>3, <2>1, <2>2, <2>3, <2>4 DEF ViewerTypes
<1>6. NewestKept
  BY DEF Init, NewestKept
<1>7. AllPlaced
  <2> SUFFICES ASSUME NEW r \in Run PROVE Placed(<<>>, {}, 0)
    BY DEF AllPlaced, Init
  <2> QED BY DEF Placed
<1> QED BY <1>1, <1>2, <1>4, <1>5, <1>6, <1>7 DEF Parts

LEMMA Stutters == ASSUME Parts, UNCHANGED vars PROVE Parts'
<1>1. UNCHANGED <<runs, turn, emitted, text, log, oldest, ended,
                  viewer, watched, sub, got, cuts>>
  BY DEF vars, hubVars, viewerVars
<1>2. HubTypes' /\ NewestKept' /\ AllPlaced' /\ ViewersFit' /\ ViewerTypes'
  BY <1>1, HubFrame, ViewerFrame, ViewerTypesFrame DEF Parts
<1>3. RunTypes' /\ RunningStays'
  BY <1>1, RunFrame DEF Parts, RunTypes
<1> QED BY <1>2, <1>3 DEF Parts

LEMMA Step == IInv /\ [Next]_vars => IInv'
<1> SUFFICES ASSUME Parts, [Next]_vars PROVE Parts'
  BY PartsOfIInv, PartsOfIInvNext
<1>1. CASE UNCHANGED vars
  BY <1>1, Stutters
<1>2. ASSUME NEW r \in Run, RunStep(r) PROVE Parts'
  <2>1. CASE Ensure(r)
    BY <2>1, EnsureKeeps
  <2>2. CASE EmitText(r)
    BY <2>2, EmitTextKeeps
  <2>3. CASE FlushText(r)
    BY <2>3, FlushTextKeeps
  <2>4. CASE \E last \in BOOLEAN : EmitEvent(r, last)
    BY <2>4, EmitEventKeeps
  <2> QED BY <1>2, <2>1, <2>2, <2>3, <2>4 DEF RunStep
<1>3. ASSUME NEW v \in Viewer, ViewerStep(v) PROVE Parts'
  <2>1. CASE Connect(v)
    BY <2>1, ConnectKeeps
  <2>2. CASE Take(v)
    BY <2>2, TakeKeeps
  <2>3. CASE StreamEnds(v)
    BY <2>3, StreamEndsKeeps
  <2>4. CASE Cut(v)
    BY <2>4, CutKeeps
  <2> QED BY <1>3, <2>1, <2>2, <2>3, <2>4 DEF ViewerStep
<1> QED BY <1>1, <1>2, <1>3 DEF Next

LEMMA Inductive == Spec => []IInv
BY Start0, Step, PTL DEF Spec

(* All variables keep their types; a queue and a buffer never exceed their *)
(* limits, and only a connected page of a held run has an open subscription*)
(* (web/hub.ts, RunEntry, Subscription).                                   *)
THEOREM Typed == Spec => []TypeOK
<1>1. IInv => TypeOK
  BY DEF IInv, Types
<1> QED BY <1>1, Inductive, PTL

(* Nothing is withheld from a page in silence: the ids it receives go up   *)
(* one by one unless a notice says otherwise, over any number of cuts,     *)
(* overflows and evictions, and a run that runs is never evicted           *)
(* (hub.ts:335, :473; app.js:531).                                         *)
THEOREM NoSilentLoss == Spec => []PageLosesNothing
<1>1. IInv => NothingSilent
  <2> SUFFICES ASSUME IInv, NEW v \in Viewer, NEW k \in 1 .. Len(got[v]) - 1
               PROVE  Follows(got[v][k], got[v][k + 1])
    BY DEF NothingSilent, Follows
  <2> QED BY DEF IInv, ViewersFit, Fits, ReplayFits, Rises
<1>2. IInv => RunningStays
  BY DEF IInv
<1> QED BY <1>1, <1>2, Inductive, PTL DEF PageLosesNothing

(* Records hold every emission once, in the order the agent emitted them,  *)
(* although text waits for its window and other events do not (hub.ts:261).*)
THEOREM TextKeepsItsPlace == Spec => []TextInPlace
<1>1. IInv => TextInPlace
  BY DEF IInv
<1> QED BY <1>1, Inductive, PTL

(* A page that has read all of an open subscription has the whole run: no  *)
(* cut, overflow or eviction leaves it waiting for what is already there   *)
(* (hub.ts:119, :335).                                                     *)
NothingLeftToRead ==
  \A v \in Viewer : sub[v].open /\ Empty(sub[v]) => Cursor(v) = Len(log[watched[v]])

(* Every open subscription that is read to its end is up to date. *)
THEOREM ReadersAreCurrent == Spec => []NothingLeftToRead
<1>1. IInv => NothingLeftToRead
  <2> SUFFICES ASSUME IInv, NEW v \in Viewer, sub[v].open, Empty(sub[v])
               PROVE  Cursor(v) = Len(log[watched[v]])
    BY DEF NothingLeftToRead
  <2>1. Fits(got[v], sub[v], Len(log[watched[v]]))
    BY DEF IInv, ViewersFit
  <2>2. sub[v].queue = <<>> /\ sub[v].replay = <<>>
    BY DEF Empty
  <2>3. Reached(got[v]) = Len(log[watched[v]])
    BY <2>1, <2>2 DEF Fits, End, After
  <2> QED BY <2>3 DEF Reached, Cursor, Last
<1> QED BY <1>1, Inductive, PTL

------------------------------------------------------------------------------
(* Eviction *)

(* A set that is in order before a run goes with it. *)
LEMMA EarlierGoesToo ==
  ASSUME RunTypes, NEW held \in SUBSET Run, IsFiniteSet(held),
         NEW x \in Victims(held), NEW y \in held, ended[y], GoesBefore(y, x)
  PROVE  y \in Victims(held)
<1> DEFINE done == {z \in held : ended[z]}
           before(w) == {z \in done : GoesBefore(z, w)}
           over == Cardinality(held) - MaxRuns
<1>1. /\ x \in done /\ Cardinality(before(x)) < over
      /\ y \in done
  BY DEF Victims
<1>2. before(y) \subseteq before(x)
  <2> SUFFICES ASSUME NEW z \in done, GoesBefore(z, y) PROVE GoesBefore(z, x)
    OBVIOUS
  <2>1. turn[x] \in Nat /\ turn[y] \in Nat /\ turn[z] \in Nat
    BY DEF RunTypes, Victims
  <2> QED BY <2>1 DEF GoesBefore
<1>3. IsFiniteSet(before(x)) /\ IsFiniteSet(before(y)) /\ Cardinality(before(y)) <= Cardinality(before(x))
  <2>1. before(x) \subseteq held
    OBVIOUS
  <2>2. IsFiniteSet(before(x))
    BY <2>1, FS_Subset
  <2> HIDE DEF before
  <2> QED BY <1>2, <2>2, FS_Subset
<1>4. /\ Cardinality(before(x)) \in Nat /\ Cardinality(before(y)) \in Nat
      /\ Cardinality(held) \in Nat /\ MaxRuns \in Nat
  BY <1>3, FS_CardinalityType, LimitsAssumption
<1>5. Cardinality(before(y)) < over
  <2> HIDE DEF before
  <2> QED BY <1>1, <1>3, <1>4
<1> QED BY <1>1, <1>5 DEF Victims

(* When a run is evicted, every run that ended and is older, or is watched *)
(* by nobody while the evicted one is watched, goes with it: a page loses  *)
(* its run only if there was no other to give (hub.ts:472, #pickVictim).   *)
EvictsInOrder ==
  [][\A x, y \in runs : x \notin runs' /\ ended[y] /\ GoesBefore(y, x) => y \notin runs']_vars

(* Every eviction takes the runs in order (#pickVictim). *)
THEOREM OldestGoesFirst == Spec => EvictsInOrder
<1> DEFINE A == \A x, y \in runs : x \notin runs' /\ ended[y] /\ GoesBefore(y, x) => y \notin runs'
<1>1. IInv /\ [Next]_vars => [A]_vars
  <2> SUFFICES ASSUME Parts, Next, NEW x \in runs, NEW y \in runs,
                      x \notin runs', ended[y], GoesBefore(y, x)
               PROVE  y \notin runs'
    BY PartsOfIInv
  <2>1. PICK r \in Run : Ensure(r)
    <3>1. runs' # runs
      OBVIOUS
    <3> QED BY <3>1 DEF Next, RunStep, ViewerStep, EmitText, FlushText, EmitEvent,
                        Connect, Take, StreamEnds, Cut, hubVars
  <2> DEFINE held == runs \cup {r}
  <2>2. runs' = held \ Victims(held)
    BY <2>1 DEF Ensure
  <2>3. held \in SUBSET Run /\ IsFiniteSet(held)
    <3>1. Sinks \subseteq Run
      BY DEF Sinks
    <3>2. IsFiniteSet(runs)
      BY FS_Subset DEF Parts, RunTypes
    <3> QED BY <3>1, <3>2, FS_AddElement DEF Parts, RunTypes
  <2>4. x \in Victims(held) /\ y \in held
    BY <2>2
  <2>5. RunTypes
    BY DEF Parts
  <2> HIDE DEF held
  <2>6. y \in Victims(held)
    BY <2>3, <2>4, <2>5, EarlierGoesToo
  <2> QED BY <2>2, <2>6
<1> HIDE DEF A
<1>2. Spec => [][A]_vars
  BY <1>1, Inductive, PTL DEF Spec
<1> QED BY <1>2 DEF EvictsInOrder, A

=============================================================================
