-------------------------- MODULE EventStreamProofs --------------------------
(***************************************************************************)
(* Proofs about EventStream, for all sizes and limits: its types, that the *)
(* client loses no event without notice, and that the output the command   *)
(* wrote is what the events carry.                                         *)
(***************************************************************************)
EXTENDS EventStream, WellFoundedInduction, TLAPS

EventType == [type : EventTypes, from : Nat, size : Nat]

Buffers == [log : Seq(EventType), oldest : Nat, inline : 0 .. MaxOutput, truncated : BOOLEAN]

(* A buffer that holds something holds its newest event. *)
OldestFits(o) == o.oldest \in 1 .. Len(o.log) + 1 /\ (Len(o.log) > 0 => o.oldest <= Len(o.log))

(* Once the limit is told of, no output follows. *)
LimitFits(o) ==
  \A i \in 1 .. Len(o.log) :
    o.log[i].type = "output_limit" =>
      o.truncated /\ \A j \in i + 1 .. Len(o.log) : o.log[j].type \notin Stream

(* The end is the last event, and the only one of its type. *)
EndFits(o, closed) ==
  /\ closed => Len(o.log) > 0 /\ o.log[Len(o.log)].type = "end"
  /\ \A k \in 1 .. Len(o.log) : o.log[k].type = "end" => closed /\ k = Len(o.log)

(* The events carry the first cut[s] bytes of each stream. *)
Carries(o, cut) == \A s \in Stream : Kept(o.log, s, 1 .. Len(o.log), cut[s])

(* Of what emitChunk was given, the first due[s] bytes of each stream, the *)
(* events carry a beginning, and all of it unless `truncated` is set.      *)
Accounted(o, due) ==
  \E cut \in [Stream -> Nat] :
    /\ cut["stdout"] + cut["stderr"] = o.inline
    /\ Carries(o, cut)
    /\ \A s \in Stream : cut[s] <= due[s]
    /\ o.truncated <=> \E s \in Stream : cut[s] < due[s]

Due == [s \in Stream |-> written[s] - pending[s]]

Sound(o, due) == o \in Buffers /\ OldestFits(o) /\ LimitFits(o) /\ Accounted(o, due)

(* The end of a pipe, and of the command, finds nothing in a merger.       *)
MergersFit ==
  \A s \in Stream : pending[s] <= written[s] /\ (eof[s] \/ phase # "running" => pending[s] = 0)

OutputFits == Sound(sent, Due) /\ EndFits(sent, phase = "closed") /\ MergersFit

(* All frames of a client: those it has read and those on their way. *)
Frames(g, w) == [k \in 1 .. Len(g) + Len(w) |-> IF k <= Len(g) THEN g[k] ELSE w[k - Len(g)]]

(* The cursor is the last event read, and a notice of a gap after it is    *)
(* not wrong: what follows is no longer in the buffer.                     *)
CursorFits(g, c, first) ==
  /\ c = 0 <=> g = <<>>
  /\ c # 0 => \E i \in 1 .. Len(g) : g[i] = c /\ \A k \in i + 1 .. Len(g) : g[k] = Gap
  /\ g # <<>> /\ g[Len(g)] = Gap => c + 1 < first

(* A notice is the first frame of its connection. *)
NoticeFits(w, c, first) == \A k \in 1 .. Len(w) : w[k] = Gap => k = 1 /\ c # 0 /\ c + 1 < first

(* The frames of an open connection end with the newest event. *)
UpToDate(g, w, n) ==
  LET all == Len(g) + Len(w)
  IN IF all = 0 THEN n = 0 ELSE n > 0 /\ Frames(g, w)[all] = n

(* Read from the first event on without a gap, the k-th frame is event k. *)
Whole(g) ==
  g # <<>> /\ g[1] = 1 /\ (\A k \in 1 .. Len(g) : g[k] # Gap) => \A k \in 1 .. Len(g) : g[k] = k

ClientFits ==
  /\ CursorFits(got, cursor, sent.oldest) /\ NoticeFits(wire, cursor, sent.oldest)
  /\ Told(Frames(got, wire)) /\ Whole(got)
  /\ IF client = "reading" THEN UpToDate(got, wire, Len(log)) ELSE wire = <<>>
  /\ client = "finished" => phase = "closed" /\ got # <<>> /\ got[Len(got)] = Len(log)

IInv == TypeOK /\ OutputFits /\ ClientFits
------------------------------------------------------------------------------
(* Sequences *)

LEMMA Elements ==
  ASSUME NEW S, NEW q \in Seq(S)
  PROVE  /\ Len(q) \in Nat /\ DOMAIN q = 1 .. Len(q)
         /\ q # <<>> <=> Len(q) > 0
         /\ \A k \in 1 .. Len(q) : q[k] \in S
OBVIOUS

LEMMA AppendFacts ==
  ASSUME NEW S, NEW q \in Seq(S), NEW e \in S
  PROVE  /\ Append(q, e) \in Seq(S) /\ Len(Append(q, e)) = Len(q) + 1
         /\ Append(q, e)[Len(q) + 1] = e
         /\ \A k \in 1 .. Len(q) : Append(q, e)[k] = q[k]
OBVIOUS

LEMMA TailFacts ==
  ASSUME NEW S, NEW q \in Seq(S), q # <<>>
  PROVE  /\ Tail(q) \in Seq(S) /\ Len(q) = Len(Tail(q)) + 1
         /\ \A k \in 1 .. Len(Tail(q)) : Tail(q)[k] = q[k + 1]
         /\ Head(q) = q[1] /\ Head(q) \in S
OBVIOUS

(* n ids in a row, after m. *)
LEMMA Counted ==
  ASSUME NEW m \in Nat, NEW n \in Nat
  PROVE  LET ids == [k \in 1 .. n |-> m + k]
         IN ids \in Seq(0 .. m + n) /\ Len(ids) = n /\ \A k \in 1 .. n : ids[k] = m + k
OBVIOUS

LEMMA ConcatFacts ==
  ASSUME NEW S, NEW q \in Seq(S), NEW r \in Seq(S)
  PROVE  /\ q \o r \in Seq(S) /\ Len(q \o r) = Len(q) + Len(r)
         /\ \A k \in 1 .. Len(q) : (q \o r)[k] = q[k]
         /\ \A k \in 1 .. Len(r) : (q \o r)[Len(q) + k] = r[k]
OBVIOUS

LEMMA SeqGrows ==
  ASSUME NEW S, NEW T, S \subseteq T, NEW q \in Seq(S)
  PROVE  q \in Seq(T)
OBVIOUS

(* Every set of numbers that is not empty has a least one. *)
LEMMA Least ==
  ASSUME NEW T, T \subseteq Nat, T # {}
  PROVE  Min(T) \in T /\ \A n \in T : Min(T) <= n
<1> DEFINE R == OpToRel(<, Nat)
<1>1. \A m, n \in Nat : <<n, m>> \in R <=> n < m
  BY SMT DEF OpToRel
<1>2. \E m \in T : \A n \in T : ~ (<<n, m>> \in R)
  <2>1. IsWellFoundedOn(R, Nat)
    BY NatLessThanWellFounded
  <2> HIDE DEF R
  <2> QED BY <2>1, WFMin
<1> HIDE DEF R
<1>3. \A m, n \in T : ~ (<<n, m>> \in R) => ~ (n < m)
  BY <1>1, Zenon
<1>4. PICK m \in T : \A n \in T : ~ (n < m)
  BY <1>2, <1>3, Zenon
<1>5. \A n \in T : m <= n
  BY <1>4
<1> QED BY <1>5 DEF Min

------------------------------------------------------------------------------
(* Frames that tell of their gaps *)

LEMMA ToldPrefix ==
  ASSUME NEW m \in Nat, NEW n \in Nat, m <= n,
         NEW f \in [1 .. m -> Nat], NEW g \in [1 .. n -> Nat],
         \A k \in 1 .. m : f[k] = g[k], Told(g)
  PROVE  Told(f)
<1> SUFFICES ASSUME NEW i \in 1 .. m, NEW j \in 1 .. m, i < j, f[i] # Gap, f[j] # Gap,
                    \A k \in i + 1 .. j - 1 : f[k] = Gap
             PROVE  f[i] < f[j] /\ (j = i + 1 <=> f[j] = f[i] + 1)
  BY DEF Told
<1>1. i \in DOMAIN g /\ j \in DOMAIN g
  OBVIOUS
<1>2. \A k \in i + 1 .. j - 1 : g[k] = Gap
  OBVIOUS
<1> QED BY <1>1, <1>2 DEF Told

(* After frames f, a notice. *)
LEMMA ToldNotice ==
  ASSUME NEW m \in Nat, NEW f \in [1 .. m -> Nat], NEW g \in [1 .. m + 1 -> Nat],
         \A k \in 1 .. m : g[k] = f[k], g[m + 1] = Gap, Told(f)
  PROVE  Told(g)
<1> SUFFICES ASSUME NEW i \in 1 .. m + 1, NEW j \in 1 .. m + 1, i < j, g[i] # Gap, g[j] # Gap,
                    \A k \in i + 1 .. j - 1 : g[k] = Gap
             PROVE  g[i] < g[j] /\ (j = i + 1 <=> g[j] = g[i] + 1)
  BY DEF Told
<1>1. i \in DOMAIN f /\ j \in DOMAIN f
  OBVIOUS
<1>2. \A k \in i + 1 .. j - 1 : f[k] = Gap
  BY <1>1
<1> QED BY <1>1, <1>2 DEF Told

(* After m frames f, g has n events in a row: they go on where f stops, or *)
(* a notice has told that they do not.                                     *)
RowAfter(f, g, m, n, from) ==
  /\ m \in Nat /\ n \in Nat /\ from \in Nat
  /\ f \in [1 .. m -> Nat] /\ g \in [1 .. m + n -> Nat]
  /\ \A k \in 1 .. m : g[k] = f[k]
  /\ \A k \in 1 .. n : g[m + k] = from + k
  /\ \/ m = 0
     \/ f[m] = from /\ from # 0
     \/ /\ f[m] = Gap
        /\ \A i \in 1 .. m : f[i] # Gap /\ (\A k \in i + 1 .. m : f[k] = Gap) => f[i] < from

LEMMA ToldRow ==
  ASSUME NEW f, NEW g, NEW m, NEW n, NEW from, RowAfter(f, g, m, n, from), Told(f)
  PROVE  Told(g)
<1> USE DEF RowAfter
<1> SUFFICES ASSUME NEW i \in 1 .. m + n, NEW j \in 1 .. m + n, i < j, g[i] # Gap, g[j] # Gap,
                    \A k \in i + 1 .. j - 1 : g[k] = Gap
             PROVE  g[i] < g[j] /\ (j = i + 1 <=> g[j] = g[i] + 1)
  BY DEF Told
<1>1. \A k \in m + 1 .. m + n : g[k] = from + (k - m) /\ g[k] # Gap
  <2> SUFFICES ASSUME NEW k \in m + 1 .. m + n PROVE g[k] = from + (k - m) /\ g[k] # Gap
    OBVIOUS
  <2>1. k - m \in 1 .. n
    OBVIOUS
  <2>2. g[m + (k - m)] = from + (k - m)
    BY <2>1
  <2> QED BY <2>1, <2>2 DEF Gap
<1>2. CASE j <= m
  <2>1. i \in DOMAIN f /\ j \in DOMAIN f /\ f[i] = g[i] /\ f[j] = g[j]
    BY <1>2
  <2>2. \A k \in i + 1 .. j - 1 : f[k] = Gap
    BY <1>2
  <2> QED BY <2>1, <2>2 DEF Told
<1>3. CASE i > m
  <2>1. j = i + 1
    <3>1. SUFFICES ASSUME j > i + 1 PROVE FALSE
      OBVIOUS
    <3>2. i + 1 \in i + 1 .. j - 1 /\ i + 1 \in m + 1 .. m + n
      BY <1>3, <3>1
    <3> QED BY <3>2, <1>1
  <2>2. g[i] = from + (i - m) /\ g[j] = from + (j - m)
    BY <1>1, <1>3
  <2> QED BY <2>1, <2>2
<1>4. CASE i <= m /\ j > m
  <2>1. j = m + 1
    <3>1. SUFFICES ASSUME j > m + 1 PROVE FALSE
      BY <1>4
    <3>2. m + 1 \in i + 1 .. j - 1 /\ m + 1 \in m + 1 .. m + n
      BY <1>4, <3>1
    <3> QED BY <3>2, <1>1
  <2>2. g[j] = from + 1
    BY <2>1, <1>1
  <2>3. f[i] = g[i] /\ f[i] \in Nat /\ m # 0
    BY <1>4
  <2>4. CASE i = m
    BY <2>1, <2>2, <2>3, <2>4
  <2>5. CASE i < m
    <3>1. m \in i + 1 .. j - 1
      BY <2>1, <2>5
    <3>2. f[m] = Gap
      BY <3>1, <2>3
    <3>3. \A k \in i + 1 .. m : f[k] = Gap
      BY <2>1, <2>5
    <3>4. f[i] < from
      BY <1>4, <2>3, <3>2, <3>3 DEF Gap
    <3> QED BY <2>1, <2>2, <2>3, <2>5, <3>4
  <2> QED BY <1>4, <2>4, <2>5
<1> QED BY <1>2, <1>3, <1>4

------------------------------------------------------------------------------
(* The buffer *)

LEMMA EventsTyped ==
  /\ \A s \in Stream, from, size \in Nat : Chunk(s, from, size) \in EventType
  /\ \A type \in EventTypes : Notice(type) \in EventType
BY DEF Chunk, Notice, EventType, EventTypes

LEMMA BufferParts ==
  ASSUME NEW o \in Buffers
  PROVE  /\ o.log \in Seq(EventType) /\ Len(o.log) \in Nat /\ o.oldest \in Nat
         /\ o.inline \in Nat /\ o.inline <= MaxOutput /\ MaxOutput \in Nat
         /\ o.truncated \in BOOLEAN
<1>1. o.log \in Seq(EventType) /\ o.oldest \in Nat /\ o.inline \in 0 .. MaxOutput /\ o.truncated \in BOOLEAN
  BY DEF Buffers
<1> QED BY <1>1, Elements, SizesAssumption

(* q is o after some more events. *)
Grows(o, q) ==
  /\ q.oldest >= o.oldest /\ Len(q.log) >= Len(o.log)
  /\ \A k \in 1 .. Len(o.log) : q.log[k] = o.log[k]

(* None of them is the end. *)
GoesOn(o, q) ==
  /\ Grows(o, q)
  /\ \A k \in Len(o.log) + 1 .. Len(q.log) : q.log[k].type # "end"

(* Eviction leaves a buffer whose oldest event is no older than before.    *)
LEMMA PublishFacts ==
  ASSUME NEW o \in Buffers, OldestFits(o), NEW e \in EventType
  PROVE  LET q == Publish(o, e)
         IN /\ q \in Buffers /\ OldestFits(q) /\ Grows(o, q)
            /\ q.log = Append(o.log, e) /\ Len(q.log) = Len(o.log) + 1
            /\ q.log[Len(o.log) + 1] = e
            /\ q.inline = o.inline /\ q.truncated = o.truncated
<1> DEFINE l == Append(o.log, e)
           T == {k \in o.oldest .. Len(l) : Fits(l, k)}
           q == Publish(o, e)
<1>1. o.log \in Seq(EventType) /\ Len(o.log) \in Nat /\ o.oldest \in Nat
  BY BufferParts
<1>2. /\ l \in Seq(EventType) /\ Len(l) = Len(o.log) + 1 /\ l[Len(o.log) + 1] = e
      /\ \A k \in 1 .. Len(o.log) : l[k] = o.log[k]
  BY <1>1, AppendFacts
<1> HIDE DEF l
<1>3. Len(l) \in T
  <2>1. o.oldest \in 1 .. Len(l) /\ Len(l) \in o.oldest .. Len(l)
    BY <1>1, <1>2 DEF OldestFits
  <2>2. Fits(l, Len(l))
    BY DEF Fits
  <2> QED BY <2>1, <2>2
<1>4. Min(T) \in T
  <2>1. T \subseteq Nat /\ T # {}
    BY <1>1, <1>2, <1>3
  <2> HIDE DEF T
  <2> QED BY <2>1, Least
<1>5. Min(T) \in Nat /\ Min(T) >= o.oldest /\ Min(T) <= Len(l) /\ Min(T) >= 1
  BY <1>1, <1>2, <1>4 DEF OldestFits
<1>6. q = [log |-> l, oldest |-> Min(T), inline |-> o.inline, truncated |-> o.truncated]
  BY DEF Publish, l
<1> HIDE DEF T, q
<1>7. /\ q.log = l /\ q.oldest = Min(T) /\ q.inline = o.inline /\ q.truncated = o.truncated
  BY <1>6
<1>8. q \in Buffers
  <2>1. o.inline \in 0 .. MaxOutput /\ o.truncated \in BOOLEAN
    BY DEF Buffers
  <2> QED BY <1>2, <1>5, <1>6, <2>1 DEF Buffers
<1>9. OldestFits(q)
  BY <1>1, <1>2, <1>5, <1>7 DEF OldestFits
<1>10. Grows(o, q)
  BY <1>1, <1>2, <1>5, <1>7 DEF Grows
<1>11. q.log = Append(o.log, e)
  BY <1>7 DEF l
<1> QED BY <1>2, <1>7, <1>8, <1>9, <1>10, <1>11 DEF q

LEMMA GrowsFurther ==
  ASSUME NEW o \in Buffers, NEW p \in Buffers, NEW q \in Buffers
  PROVE  /\ Grows(o, p) /\ Grows(p, q) => Grows(o, q)
         /\ GoesOn(o, p) /\ GoesOn(p, q) => GoesOn(o, q)
         /\ GoesOn(o, o)
<1>1. /\ Len(o.log) \in Nat /\ Len(p.log) \in Nat /\ Len(q.log) \in Nat
      /\ o.oldest \in Nat /\ p.oldest \in Nat /\ q.oldest \in Nat
  BY BufferParts
<1>2. Grows(o, p) /\ Grows(p, q) => Grows(o, q)
  BY <1>1 DEF Grows
<1>3. GoesOn(o, p) /\ GoesOn(p, q) => GoesOn(o, q)
  <2> SUFFICES ASSUME GoesOn(o, p), GoesOn(p, q), NEW k \in Len(o.log) + 1 .. Len(q.log)
               PROVE  q.log[k].type # "end"
    BY <1>2 DEF GoesOn
  <2>1. CASE k <= Len(p.log)
    BY <1>1, <2>1 DEF GoesOn, Grows
  <2>2. CASE k > Len(p.log)
    BY <1>1, <2>2 DEF GoesOn
  <2> QED BY <1>1, <2>1, <2>2
<1>4. GoesOn(o, o)
  BY <1>1 DEF GoesOn, Grows
<1> QED BY <1>2, <1>3, <1>4

(* A notice says nothing of the output. *)
LEMMA KeptSkips ==
  ASSUME NEW l \in Seq(EventType), NEW m \in Seq(EventType), Len(m) = Len(l) + 1,
         \A k \in 1 .. Len(l) : m[k] = l[k],
         NEW s \in Stream, m[Len(m)].type # s,
         NEW c \in Nat, Kept(l, s, 1 .. Len(l), c)
  PROVE  Kept(m, s, 1 .. Len(m), c)
<1> DEFINE mine(q) == {k \in 1 .. Len(q) : q[k].type = s}
<1>1. Len(l) \in Nat
  OBVIOUS
<1>2. mine(m) = mine(l)
  <2>1. ASSUME NEW k \in mine(m) PROVE k \in mine(l)
    <3>1. k # Len(m)
      OBVIOUS
    <3> QED BY <1>1, <3>1
  <2>2. ASSUME NEW k \in mine(l) PROVE k \in mine(m)
    BY <1>1
  <2> QED BY <2>1, <2>2
<1>3. \A k \in mine(l) : m[k] = l[k]
  OBVIOUS
<1> QED BY <1>2, <1>3, Zenon DEF Kept

(* The next bytes of a stream go on where the events of it stop. *)
LEMMA KeptGoesOn ==
  ASSUME NEW l \in Seq(EventType), NEW m \in Seq(EventType), Len(m) = Len(l) + 1,
         \A k \in 1 .. Len(l) : m[k] = l[k],
         NEW s \in Stream, NEW c \in Nat, NEW b \in Nat,
         m[Len(m)] = Chunk(s, c, b), Kept(l, s, 1 .. Len(l), c)
  PROVE  Kept(m, s, 1 .. Len(m), c + b)
<1> DEFINE mine(q) == {k \in 1 .. Len(q) : q[k].type = s}
           n == Len(m)
           end(q, k) == q[k].from + q[k].size
<1>1. Len(l) \in Nat /\ n = Len(l) + 1
  OBVIOUS
<1>2. m[n].type = s /\ m[n].from = c /\ m[n].size = b
  BY DEF Chunk
<1>3. \A k \in mine(m) : k = n \/ (k \in mine(l) /\ k < n)
  <2> SUFFICES ASSUME NEW k \in mine(m), k # n PROVE k \in mine(l) /\ k < n
    OBVIOUS
  <2> QED BY <1>1
<1>4. n \in mine(m) /\ \A k \in mine(l) : k \in mine(m) /\ m[k] = l[k]
  BY <1>1, <1>2
<1>5. /\ \A x \in 1 .. c : \E k \in mine(l) : l[k].from < x /\ x <= end(l, k)
      /\ \A k \in mine(l) : end(l, k) <= c
      /\ \A i, j \in mine(l) : i < j => end(l, i) <= l[j].from
  BY DEF Kept
<1>6. \A k \in mine(l) : l[k].from \in Nat /\ l[k].size \in Nat /\ k \in Nat
  <2> SUFFICES ASSUME NEW k \in mine(l) PROVE l[k].from \in Nat /\ l[k].size \in Nat /\ k \in Nat
    OBVIOUS
  <2>1. k \in 1 .. Len(l)
    OBVIOUS
  <2> HIDE DEF mine
  <2>2. l[k] \in EventType /\ k \in Nat
    BY <1>1, <2>1, Elements
  <2> QED BY <2>2 DEF EventType
<1> HIDE DEF mine, n
<1>7. \A x \in 1 .. c + b : \E k \in mine(m) : m[k].from < x /\ x <= end(m, k)
  <2> SUFFICES ASSUME NEW x \in 1 .. c + b
               PROVE  \E k \in mine(m) : m[k].from < x /\ x <= end(m, k)
    OBVIOUS
  <2>1. CASE x <= c
    <3>1. PICK k \in mine(l) : l[k].from < x /\ x <= end(l, k)
      BY <1>5, <2>1
    <3> QED BY <1>4, <3>1
  <2>2. CASE x > c
    <3>1. m[n].from < x /\ x <= end(m, n)
      BY <1>2, <2>2
    <3> QED BY <1>4, <3>1
  <2> QED BY <2>1, <2>2
<1>8. \A k \in mine(m) : end(m, k) <= c + b
  <2> SUFFICES ASSUME NEW k \in mine(m) PROVE end(m, k) <= c + b
    OBVIOUS
  <2>1. CASE k = n
    BY <1>2, <2>1
  <2>2. CASE k \in mine(l)
    BY <1>4, <1>5, <1>6, <2>2
  <2> QED BY <1>3, <2>1, <2>2
<1>9. \A i, j \in mine(m) : i < j => end(m, i) <= m[j].from
  <2> SUFFICES ASSUME NEW i \in mine(m), NEW j \in mine(m), i < j
               PROVE  end(m, i) <= m[j].from
    OBVIOUS
  <2>1. i # n /\ i \in mine(l) /\ m[i] = l[i]
    <3>1. n \in Nat /\ j \in Nat /\ j <= n
      BY <1>1, <1>3, <1>6
    <3>2. i # n
      BY <3>1
    <3> QED BY <1>3, <1>4, <3>2
  <2>2. CASE j = n
    BY <1>2, <1>5, <2>1, <2>2
  <2>3. CASE j \in mine(l)
    BY <1>4, <1>5, <2>1, <2>3
  <2> QED BY <1>3, <2>2, <2>3
<1> QED BY <1>7, <1>8, <1>9, Zenon DEF Kept, mine, n

------------------------------------------------------------------------------
(* The output budget *)

LEMMA CarriesNotice ==
  ASSUME NEW o \in Buffers, OldestFits(o), NEW type \in EventTypes \ Stream,
         NEW cut \in [Stream -> Nat], Carries(o, cut)
  PROVE  Carries(Publish(o, Notice(type)), cut)
<1> DEFINE e == Notice(type)
           q == Publish(o, e)
<1>1. /\ q.log \in Seq(EventType) /\ o.log \in Seq(EventType)
      /\ Len(q.log) = Len(o.log) + 1 /\ q.log[Len(q.log)] = e
      /\ \A k \in 1 .. Len(o.log) : q.log[k] = o.log[k]
  <2>1. e \in EventType
    BY EventsTyped
  <2> HIDE DEF e
  <2>2. /\ q \in Buffers /\ Grows(o, q) /\ Len(q.log) = Len(o.log) + 1
        /\ q.log[Len(o.log) + 1] = e
    BY <2>1, PublishFacts
  <2> HIDE DEF q
  <2> QED BY <2>2, BufferParts DEF Grows
<1> HIDE DEF q
<1>2. ASSUME NEW t \in Stream PROVE Kept(q.log, t, 1 .. Len(q.log), cut[t])
  <2>1. q.log[Len(q.log)].type # t
    BY <1>1 DEF Notice
  <2>2. Kept(o.log, t, 1 .. Len(o.log), cut[t]) /\ cut[t] \in Nat
    BY DEF Carries
  <2> QED BY <1>1, <2>1, <2>2, KeptSkips
<1> QED BY <1>2 DEF Carries, q

LEMMA CarriesChunk ==
  ASSUME NEW o \in Buffers, OldestFits(o), NEW s \in Stream, NEW b \in Nat,
         NEW cut \in [Stream -> Nat], Carries(o, cut)
  PROVE  Carries(Publish(o, Chunk(s, cut[s], b)), [cut EXCEPT ![s] = @ + b])
<1> DEFINE e == Chunk(s, cut[s], b)
           q == Publish(o, e)
           new == [cut EXCEPT ![s] = @ + b]
<1>1. /\ q.log \in Seq(EventType) /\ o.log \in Seq(EventType)
      /\ Len(q.log) = Len(o.log) + 1 /\ q.log[Len(q.log)] = e
      /\ \A k \in 1 .. Len(o.log) : q.log[k] = o.log[k]
  <2>1. e \in EventType
    BY EventsTyped
  <2> HIDE DEF e
  <2>2. /\ q \in Buffers /\ Grows(o, q) /\ Len(q.log) = Len(o.log) + 1
        /\ q.log[Len(o.log) + 1] = e
    BY <2>1, PublishFacts
  <2> HIDE DEF q
  <2> QED BY <2>2, BufferParts DEF Grows
<1> HIDE DEF q
<1>2. ASSUME NEW t \in Stream PROVE Kept(q.log, t, 1 .. Len(q.log), new[t])
  <2>1. Kept(o.log, t, 1 .. Len(o.log), cut[t]) /\ cut[t] \in Nat
    BY DEF Carries
  <2>2. CASE t = s
    <3>1. Kept(q.log, s, 1 .. Len(q.log), cut[s] + b)
      BY <1>1, <2>1, <2>2, KeptGoesOn
    <3> QED BY <2>2, <3>1
  <2>3. CASE t # s
    <3>1. q.log[Len(q.log)].type # t
      BY <1>1, <2>3 DEF Chunk
    <3>2. Kept(q.log, t, 1 .. Len(q.log), cut[t])
      BY <1>1, <2>1, <3>1, KeptSkips
    <3> QED BY <2>3, <3>2
  <2> QED BY <2>2, <2>3
<1> QED BY <1>2 DEF Carries, q

(* n bytes of s within the budget; none is no event. *)
Out(o, s, from, n) == IF n = 0 THEN o ELSE [Publish(o, Chunk(s, from, n)) EXCEPT !.inline = @ + n]

LEMMA OutFacts ==
  ASSUME NEW o \in Buffers, OldestFits(o), LimitFits(o), ~ o.truncated,
         NEW s \in Stream, NEW n \in Nat, o.inline + n <= MaxOutput,
         NEW cut \in [Stream -> Nat], Carries(o, cut)
  PROVE  LET q == Out(o, s, cut[s], n)
         IN /\ q \in Buffers /\ OldestFits(q) /\ GoesOn(o, q)
            /\ q.inline = o.inline + n /\ ~ q.truncated
            /\ \A k \in 1 .. Len(q.log) : q.log[k].type # "output_limit"
            /\ Carries(q, [cut EXCEPT ![s] = @ + n])
<1>1. \A k \in 1 .. Len(o.log) : o.log[k].type # "output_limit"
  BY DEF LimitFits
<1>2. CASE n = 0
  <2>1. [cut EXCEPT ![s] = @ + n] = cut
    BY <1>2
  <2>2. GoesOn(o, o) /\ o.inline = o.inline + n
    BY <1>2, GrowsFurther, BufferParts
  <2>3. Out(o, s, cut[s], n) = o
    BY <1>2 DEF Out
  <2> QED BY <1>1, <2>1, <2>2, <2>3, Zenon
<1>3. CASE n # 0
  <2> DEFINE e == Chunk(s, cut[s], n)
             p == Publish(o, e)
             q == [p EXCEPT !.inline = @ + n]
  <2>1. e \in EventType /\ e.type = s
    <3>1. cut[s] \in Nat
      OBVIOUS
    <3> QED BY <3>1, EventsTyped DEF Chunk
  <2>2. /\ p \in Buffers /\ OldestFits(p) /\ Grows(o, p) /\ Len(p.log) = Len(o.log) + 1
        /\ p.log[Len(o.log) + 1] = e /\ p.inline = o.inline /\ p.truncated = o.truncated
    <3> HIDE DEF e
    <3> QED BY <2>1, PublishFacts
  <2>3. Carries(p, [cut EXCEPT ![s] = @ + n])
    BY CarriesChunk
  <2> HIDE DEF p, e
  <2>4. q.log = p.log /\ q.oldest = p.oldest /\ q.inline = o.inline + n /\ q.truncated = o.truncated
    BY <2>2 DEF Buffers
  <2>5. q \in Buffers
    <3>1. o.inline + n \in 0 .. MaxOutput
      BY BufferParts
    <3> QED BY <2>2, <3>1 DEF Buffers
  <2>6. \A k \in Len(o.log) + 1 .. Len(q.log) : q.log[k].type = s
    <3>1. Len(o.log) \in Nat
      BY BufferParts
    <3> QED BY <2>1, <2>2, <2>4, <3>1
  <2>7. OldestFits(q) /\ GoesOn(o, q)
    <3>1. OldestFits(q) /\ Grows(o, q)
      BY <2>2, <2>4 DEF OldestFits, Grows
    <3> QED BY <2>6, <3>1 DEF GoesOn, Stream
  <2>8. \A k \in 1 .. Len(q.log) : q.log[k].type # "output_limit"
    <3> SUFFICES ASSUME NEW k \in 1 .. Len(q.log) PROVE q.log[k].type # "output_limit"
      OBVIOUS
    <3>1. Len(o.log) \in Nat /\ Len(q.log) = Len(o.log) + 1
      BY <2>2, <2>4, BufferParts
    <3>2. CASE k \in 1 .. Len(o.log)
      BY <1>1, <2>2, <2>4, <3>2 DEF Grows
    <3>3. CASE k = Len(o.log) + 1
      BY <2>6, <3>1, <3>3 DEF Stream
    <3> QED BY <3>1, <3>2, <3>3
  <2>9. Carries(q, [cut EXCEPT ![s] = @ + n])
    BY <2>3, <2>4 DEF Carries
  <2>10. Out(o, s, cut[s], n) = q
    BY <1>3 DEF Out, p, e
  <2> HIDE DEF q
  <2> QED BY <2>4, <2>5, <2>7, <2>8, <2>9, <2>10
<1> QED BY <1>2, <1>3

(* What emitChunk is given next is accounted for: as an event, or as       *)
(* missing and `truncated`.                                                *)
LEMMA EmitKeeps ==
  ASSUME NEW o \in Buffers, OldestFits(o), LimitFits(o),
         NEW due \in [Stream -> Nat], Accounted(o, due),
         NEW s \in Stream, NEW b \in Nat, NEW fit \in Nat
  PROVE  LET q == EmitChunk(o, s, due[s], b, fit)
         IN /\ q \in Buffers /\ OldestFits(q) /\ LimitFits(q) /\ GoesOn(o, q)
            /\ Accounted(q, [due EXCEPT ![s] = @ + b])
<1> DEFINE new == [due EXCEPT ![s] = @ + b]
           left == MaxOutput - o.inline
           prefix == IF fit <= left THEN fit ELSE left
           p == Out(o, s, due[s], prefix)
           q == EmitChunk(o, s, due[s], b, fit)
<1>1. PICK cut \in [Stream -> Nat] :
        /\ cut["stdout"] + cut["stderr"] = o.inline
        /\ Carries(o, cut)
        /\ \A t \in Stream : cut[t] <= due[t]
        /\ o.truncated <=> \E t \in Stream : cut[t] < due[t]
  BY DEF Accounted
<1>2. o.inline \in Nat /\ o.inline <= MaxOutput /\ MaxOutput \in Nat /\ o.truncated \in BOOLEAN
  BY BufferParts
<1>3. new \in [Stream -> Nat] /\ \A t \in Stream : new[t] >= due[t]
  OBVIOUS
<1>4. q = IF b = 0 \/ o.truncated THEN o
          ELSE IF b <= left THEN Out(o, s, due[s], b)
          ELSE [Publish(p, Notice("output_limit")) EXCEPT !.truncated = TRUE]
  BY DEF EmitChunk, Out
<1>5. GoesOn(o, o)
  BY GrowsFurther
<1> HIDE DEF q, p
<1>6. CASE b = 0 \/ o.truncated
  <2>1. q = o
    BY <1>4, <1>6
  <2>2. \A t \in Stream : cut[t] <= new[t]
    BY <1>1, <1>3
  <2>3. o.truncated <=> \E t \in Stream : cut[t] < new[t]
    <3>1. CASE b = 0
      <4>1. new = due
        BY <3>1
      <4> QED BY <1>1, <4>1
    <3>2. CASE o.truncated
      BY <1>1, <1>3, <3>2
    <3> QED BY <1>6, <3>1, <3>2
  <2>4. Accounted(o, new)
    <3> HIDE DEF new
    <3> QED BY <1>1, <2>2, <2>3 DEF Accounted
  <2> QED BY <1>5, <2>1, <2>4 DEF q
<1>7. CASE b # 0 /\ ~ o.truncated
  <2>1. \A t \in Stream : cut[t] = due[t] /\ cut[t] \in Nat
    BY <1>1, <1>7
  <2>2. cut[s] = due[s]
    BY <2>1
  <2>3. CASE b <= left
    <3> DEFINE more == [cut EXCEPT ![s] = @ + b]
    <3>1. q = Out(o, s, cut[s], b)
      BY <1>4, <1>7, <2>2, <2>3
    <3>2. o.inline + b <= MaxOutput
      BY <1>2, <2>3
    <3>3. /\ q \in Buffers /\ OldestFits(q) /\ GoesOn(o, q)
          /\ q.inline = o.inline + b /\ ~ q.truncated
          /\ \A k \in 1 .. Len(q.log) : q.log[k].type # "output_limit"
          /\ Carries(q, more)
      BY <1>1, <1>7, <3>1, <3>2, OutFacts
    <3>4. LimitFits(q)
      BY <3>3 DEF LimitFits
    <3>5. more \in [Stream -> Nat] /\ \A t \in Stream : more[t] <= new[t] /\ ~ (more[t] < new[t])
      BY <2>1
    <3>6. more["stdout"] + more["stderr"] = q.inline
      BY <1>1, <2>1, <3>3 DEF Stream
    <3>7. Accounted(q, new)
      <4> HIDE DEF more, new
      <4> QED BY <3>3, <3>5, <3>6 DEF Accounted
    <3> QED BY <3>3, <3>4, <3>7 DEF q
  <2>4. CASE b > left
    <3> DEFINE more == [cut EXCEPT ![s] = @ + prefix]
               r == Publish(p, Notice("output_limit"))
    <3>1. prefix \in Nat /\ prefix < b /\ o.inline + prefix <= MaxOutput
      BY <1>2, <2>4
    <3>2. p = Out(o, s, cut[s], prefix)
      BY <2>2 DEF p
    <3> HIDE DEF prefix
    <3>3. /\ p \in Buffers /\ OldestFits(p) /\ GoesOn(o, p)
          /\ p.inline = o.inline + prefix /\ ~ p.truncated
          /\ \A k \in 1 .. Len(p.log) : p.log[k].type # "output_limit"
          /\ Carries(p, more)
      BY <1>1, <1>7, <3>1, <3>2, OutFacts
    <3>4. more \in [Stream -> Nat] /\ more[s] = cut[s] + prefix /\ \A t \in Stream \ {s} : more[t] = cut[t]
      BY <3>1
    <3> HIDE DEF more
    <3>5. Notice("output_limit") \in EventType /\ "output_limit" \in EventTypes \ Stream
      BY EventsTyped DEF EventTypes, Stream
    <3>6. /\ r \in Buffers /\ OldestFits(r) /\ Grows(p, r) /\ Len(r.log) = Len(p.log) + 1
          /\ r.log[Len(p.log) + 1] = Notice("output_limit")
          /\ r.inline = p.inline /\ r.truncated = p.truncated
      BY <3>3, <3>5, PublishFacts
    <3>7. Carries(r, more)
      BY <3>3, <3>4, <3>5, CarriesNotice
    <3>8. q = [r EXCEPT !.truncated = TRUE]
      BY <1>4, <1>7, <1>2, <2>4
    <3> HIDE DEF r
    <3>9. /\ q.log = r.log /\ q.oldest = r.oldest /\ q.inline = r.inline /\ q.truncated = TRUE
          /\ q \in Buffers
      BY <3>6, <3>8 DEF Buffers
    <3>10. OldestFits(q) /\ Grows(p, q) /\ Carries(q, more)
      BY <3>6, <3>7, <3>9 DEF OldestFits, Grows, Carries
    <3>11. Len(p.log) \in Nat
      BY <3>3, BufferParts
    <3>12. LimitFits(q)
      <4> SUFFICES ASSUME NEW i \in 1 .. Len(q.log), q.log[i].type = "output_limit"
                   PROVE  \A j \in i + 1 .. Len(q.log) : q.log[j].type \notin Stream
        BY <3>9 DEF LimitFits
      <4>1. i = Len(q.log)
        <5>1. SUFFICES ASSUME i # Len(q.log) PROVE FALSE
          OBVIOUS
        <5>2. i \in 1 .. Len(p.log)
          BY <3>6, <3>9, <3>11, <5>1
        <5>3. q.log[i] = p.log[i]
          BY <3>10, <5>2 DEF Grows
        <5> QED BY <3>3, <5>2, <5>3
      <4> QED BY <3>6, <3>9, <3>11, <4>1
    <3>13. GoesOn(o, q)
      <4>1. \A k \in Len(p.log) + 1 .. Len(q.log) : q.log[k].type # "end"
        BY <3>6, <3>9, <3>11 DEF Notice
      <4> QED BY <3>3, <3>9, <3>10, <4>1, GrowsFurther DEF GoesOn
    <3>14. more["stdout"] + more["stderr"] = q.inline
      BY <1>1, <1>2, <2>1, <3>1, <3>3, <3>4, <3>6, <3>9 DEF Stream
    <3>15. new[s] = due[s] + b /\ \A t \in Stream \ {s} : new[t] = due[t]
      OBVIOUS
    <3>16. \A t \in Stream : more[t] <= new[t]
      BY <2>1, <3>1, <3>4, <3>15
    <3>17. more[s] < new[s]
      BY <2>1, <3>1, <3>4, <3>15
    <3>18. Accounted(q, new)
      <4> HIDE DEF new
      <4> QED BY <3>4, <3>9, <3>10, <3>14, <3>16, <3>17 DEF Accounted
    <3> QED BY <3>9, <3>10, <3>12, <3>13, <3>18 DEF q
  <2> QED BY <1>2, <2>3, <2>4
<1> QED BY <1>2, <1>6, <1>7

(* A notice of another kind leaves the account as it is. *)
LEMMA NoticeKeeps ==
  ASSUME NEW o \in Buffers, OldestFits(o), LimitFits(o),
         NEW due \in [Stream -> Nat], Accounted(o, due),
         NEW type \in EventTypes \ Stream, type # "output_limit"
  PROVE  LET q == Publish(o, Notice(type))
         IN /\ q \in Buffers /\ OldestFits(q) /\ LimitFits(q) /\ Grows(o, q)
            /\ Accounted(q, due)
            /\ Len(q.log) = Len(o.log) + 1 /\ q.log[Len(q.log)].type = type
<1> DEFINE q == Publish(o, Notice(type))
<1>1. Notice(type) \in EventType /\ Notice(type).type = type
  BY EventsTyped DEF Notice
<1>2. /\ q \in Buffers /\ OldestFits(q) /\ Grows(o, q) /\ Len(q.log) = Len(o.log) + 1
      /\ q.log[Len(o.log) + 1] = Notice(type)
      /\ q.inline = o.inline /\ q.truncated = o.truncated
  BY <1>1, PublishFacts
<1>3. \A cut \in [Stream -> Nat] : Carries(o, cut) => Carries(q, cut)
  BY CarriesNotice
<1>4. Len(o.log) \in Nat
  BY BufferParts
<1> HIDE DEF q
<1>5. Accounted(q, due)
  BY <1>2, <1>3 DEF Accounted
<1>6. LimitFits(q)
  <2> SUFFICES ASSUME NEW i \in 1 .. Len(q.log), q.log[i].type = "output_limit"
               PROVE  /\ q.truncated
                      /\ \A j \in i + 1 .. Len(q.log) : q.log[j].type \notin Stream
    BY DEF LimitFits
  <2>1. i \in 1 .. Len(o.log) /\ o.log[i].type = "output_limit"
    BY <1>1, <1>2, <1>4 DEF Grows
  <2>2. o.truncated /\ \A j \in i + 1 .. Len(o.log) : o.log[j].type \notin Stream
    BY <2>1 DEF LimitFits
  <2>3. ASSUME NEW j \in i + 1 .. Len(q.log) PROVE q.log[j].type \notin Stream
    <3>1. CASE j \in 1 .. Len(o.log)
      <4>1. j \in i + 1 .. Len(o.log) /\ q.log[j] = o.log[j]
        BY <1>2, <3>1 DEF Grows
      <4> QED BY <2>2, <4>1
    <3>2. CASE j = Len(o.log) + 1
      BY <1>1, <1>2, <3>2
    <3> QED BY <1>2, <1>4, <3>1, <3>2
  <2> QED BY <1>2, <2>2, <2>3
<1>7. q.log[Len(q.log)].type = type
  BY <1>1, <1>2
<1> QED BY <1>2, <1>5, <1>6, <1>7 DEF q

------------------------------------------------------------------------------
(* The frames of a client *)

LEMMA FramesFacts ==
  ASSUME NEW n \in Nat, NEW g \in Seq(0 .. n), NEW w \in Seq(0 .. n)
  PROVE  /\ Len(g) \in Nat /\ Len(w) \in Nat
         /\ Frames(g, w) \in [1 .. Len(g) + Len(w) -> Nat]
         /\ \A k \in 1 .. Len(g) : Frames(g, w)[k] = g[k]
         /\ \A k \in 1 .. Len(w) : Frames(g, w)[Len(g) + k] = w[k]
<1>1. /\ Len(g) \in Nat /\ Len(w) \in Nat
      /\ \A k \in 1 .. Len(g) : g[k] \in Nat
      /\ \A k \in 1 .. Len(w) : w[k] \in Nat
  BY Elements
<1>2. \A k \in 1 .. Len(w) :
        Len(g) + k \in 1 .. Len(g) + Len(w) /\ ~ (Len(g) + k <= Len(g)) /\ (Len(g) + k) - Len(g) = k
  BY <1>1
<1>3. \A k \in 1 .. Len(g) : k \in 1 .. Len(g) + Len(w) /\ k <= Len(g)
  BY <1>1
<1>4. \A k \in 1 .. Len(g) : Frames(g, w)[k] = g[k]
  BY <1>3 DEF Frames
<1>5. \A k \in 1 .. Len(w) : Frames(g, w)[Len(g) + k] = w[k]
  BY <1>2 DEF Frames
<1>6. Frames(g, w) \in [1 .. Len(g) + Len(w) -> Nat]
  <2>1. \A k \in 1 .. Len(g) + Len(w) : (IF k <= Len(g) THEN g[k] ELSE w[k - Len(g)]) \in Nat
    BY <1>1
  <2> QED BY <2>1 DEF Frames
<1> QED BY <1>1, <1>4, <1>5, <1>6

LEMMA EmptyFrames ==
  ASSUME NEW n \in Nat, NEW g \in Seq(0 .. n)
  PROVE  /\ <<>> \in Seq(0 .. n) /\ Len(<<>>) = 0
         /\ Frames(g, <<>>) \in [1 .. Len(g) -> Nat]
         /\ \A k \in 1 .. Len(g) : Frames(g, <<>>)[k] = g[k]
<1> DEFINE w == <<>>
<1>1. w \in Seq(0 .. n) /\ Len(w) = 0 /\ Len(g) \in Nat
  OBVIOUS
<1> HIDE DEF w
<1>2. Len(g) + Len(w) = Len(g)
  BY <1>1
<1>3. /\ Frames(g, w) \in [1 .. Len(g) + Len(w) -> Nat]
      /\ \A k \in 1 .. Len(g) : Frames(g, w)[k] = g[k]
  BY <1>1, FramesFacts
<1> QED BY <1>1, <1>2, <1>3 DEF w

LEMMA EmptyConcat ==
  ASSUME NEW S, NEW q \in Seq(S)
  PROVE  <<>> \o q = q
OBVIOUS

(* A connection that is lost leaves what was read. *)
LEMMA ToldAlone ==
  ASSUME NEW n \in Nat, NEW g \in Seq(0 .. n), NEW w \in Seq(0 .. n), Told(Frames(g, w))
  PROVE  Told(Frames(g, <<>>)) /\ Told(g)
<1>1. Len(g) \in Nat /\ Len(w) \in Nat /\ Len(g) + Len(w) \in Nat /\ Len(g) <= Len(g) + Len(w)
  BY FramesFacts
<1>2. /\ Frames(g, w) \in [1 .. Len(g) + Len(w) -> Nat]
      /\ \A k \in 1 .. Len(g) : Frames(g, w)[k] = g[k]
  BY FramesFacts
<1>3. /\ Frames(g, <<>>) \in [1 .. Len(g) -> Nat]
      /\ \A k \in 1 .. Len(g) : Frames(g, <<>>)[k] = g[k]
  BY EmptyFrames
<1>4. g \in [1 .. Len(g) -> Nat]
  OBVIOUS
<1>5. Told(Frames(g, <<>>))
  BY <1>1, <1>2, <1>3, ToldPrefix
<1>6. Told(g)
  BY <1>1, <1>2, <1>4, ToldPrefix
<1> QED BY <1>5, <1>6

(* What is published goes on where the open connection stops. *)
Arrives(w, n, m) == w \o [k \in 1 .. m - n |-> n + k]

LEMMA RowArrives ==
  ASSUME NEW n \in Nat, NEW m \in Nat, n <= m,
         NEW g \in Seq(0 .. n), NEW w \in Seq(0 .. n), UpToDate(g, w, n), Told(Frames(g, w))
  PROVE  LET v == Arrives(w, n, m)
         IN /\ v \in Seq(0 .. m) /\ UpToDate(g, v, m) /\ Told(Frames(g, v))
            /\ Len(w) \in Nat /\ Len(v) = Len(w) + (m - n)
            /\ \A k \in 1 .. Len(w) : v[k] = w[k]
            /\ \A k \in 1 .. m - n : v[Len(w) + k] # Gap
<1> DEFINE r == [k \in 1 .. m - n |-> n + k]
           v == Arrives(w, n, m)
           c == m - n
           a == Len(g) + Len(w)
<1>0. v = w \o r
  BY DEF Arrives
<1>1. c \in Nat /\ n + c = m /\ 0 .. n \subseteq 0 .. m
  OBVIOUS
<1>2. r \in Seq(0 .. m) /\ Len(r) = c /\ \A k \in 1 .. c : r[k] = n + k
  <2>1. r = [k \in 1 .. c |-> n + k]
    OBVIOUS
  <2> QED BY <1>1, <2>1, Counted
<1>3. w \in Seq(0 .. m) /\ g \in Seq(0 .. m) /\ Len(w) \in Nat /\ Len(g) \in Nat
  BY <1>1, SeqGrows
<1> HIDE DEF r, c
<1>4. /\ v \in Seq(0 .. m) /\ Len(v) = Len(w) + c
      /\ \A k \in 1 .. Len(w) : v[k] = w[k]
      /\ \A k \in 1 .. c : v[Len(w) + k] = n + k
  <2> DEFINE u == w \o r
  <2>1. /\ u \in Seq(0 .. m) /\ Len(u) = Len(w) + Len(r)
        /\ \A k \in 1 .. Len(w) : u[k] = w[k]
        /\ \A k \in 1 .. Len(r) : u[Len(w) + k] = r[k]
    BY <1>2, <1>3, ConcatFacts
  <2>2. v = u
    BY <1>0
  <2> HIDE DEF u, v
  <2> QED BY <1>2, <2>1, <2>2
<1> HIDE DEF v
<1>5. /\ Frames(g, w) \in [1 .. a -> Nat]
      /\ \A k \in 1 .. Len(g) : Frames(g, w)[k] = g[k]
      /\ \A k \in 1 .. Len(w) : Frames(g, w)[Len(g) + k] = w[k]
  BY FramesFacts
<1>6. /\ Frames(g, v) \in [1 .. a + c -> Nat]
      /\ \A k \in 1 .. Len(g) : Frames(g, v)[k] = g[k]
      /\ \A k \in 1 .. Len(v) : Frames(g, v)[Len(g) + k] = v[k]
  <2>1. Len(g) + Len(v) = a + c
    BY <1>1, <1>3, <1>4
  <2>2. /\ Frames(g, v) \in [1 .. Len(g) + Len(v) -> Nat]
        /\ \A k \in 1 .. Len(g) : Frames(g, v)[k] = g[k]
        /\ \A k \in 1 .. Len(v) : Frames(g, v)[Len(g) + k] = v[k]
    BY <1>1, <1>3, <1>4, FramesFacts
  <2> HIDE DEF a
  <2> QED BY <2>1, <2>2
<1>7. \A k \in 1 .. a : Frames(g, v)[k] = Frames(g, w)[k]
  <2> SUFFICES ASSUME NEW k \in 1 .. a PROVE Frames(g, v)[k] = Frames(g, w)[k]
    OBVIOUS
  <2>1. CASE k \in 1 .. Len(g)
    BY <1>5, <1>6, <2>1
  <2>2. CASE k - Len(g) \in 1 .. Len(w)
    <3>1. k = Len(g) + (k - Len(g)) /\ k - Len(g) \in 1 .. Len(v)
      BY <1>1, <1>3, <1>4, <2>2
    <3> QED BY <1>4, <1>5, <1>6, <2>2, <3>1
  <2> QED BY <1>3, <2>1, <2>2
<1>8. \A k \in 1 .. c : Frames(g, v)[a + k] = n + k
  <2> SUFFICES ASSUME NEW k \in 1 .. c PROVE Frames(g, v)[a + k] = n + k
    OBVIOUS
  <2>1. Len(w) + k \in 1 .. Len(v) /\ a + k = Len(g) + (Len(w) + k)
    BY <1>1, <1>3, <1>4
  <2> QED BY <1>4, <1>6, <2>1
<1>9. a \in Nat /\ (a = 0 \/ (Frames(g, w)[a] = n /\ n # 0)) /\ (a = 0 => n = 0)
  BY <1>3 DEF UpToDate
<1>10. Told(Frames(g, v))
  <2> HIDE DEF a
  <2>1. RowAfter(Frames(g, w), Frames(g, v), a, c, n)
    BY <1>1, <1>5, <1>6, <1>7, <1>8, <1>9 DEF RowAfter
  <2> QED BY <2>1, ToldRow
<1>11. UpToDate(g, v, m)
  <2>1. Len(g) + Len(v) = a + c
    BY <1>1, <1>3, <1>4
  <2> HIDE DEF a
  <2>2. CASE a + c = 0
    BY <1>1, <1>9, <2>1, <2>2 DEF UpToDate
  <2>3. CASE c > 0
    <3>1. c \in 1 .. c
      BY <1>1, <2>3
    <3>2. Frames(g, v)[a + c] = n + c
      BY <1>8, <3>1
    <3>3. m > 0 /\ n + c = m /\ a + c # 0
      BY <1>1, <1>9, <2>3
    <3> HIDE DEF c
    <3>4. Frames(g, v)[Len(g) + Len(v)] = m /\ Len(g) + Len(v) # 0
      BY <2>1, <3>2, <3>3
    <3> QED BY <3>3, <3>4 DEF UpToDate
  <2>4. CASE c = 0 /\ a > 0
    <3>1. Frames(g, v)[a] = n /\ n # 0 /\ a + c = a
      BY <1>7, <1>9, <2>4
    <3> QED BY <1>1, <1>9, <2>1, <2>4, <3>1 DEF UpToDate
  <2> QED BY <1>1, <1>9, <2>2, <2>3, <2>4
<1>12. \A k \in 1 .. c : v[Len(w) + k] # Gap
  <2> SUFFICES ASSUME NEW k \in 1 .. c PROVE v[Len(w) + k] # Gap
    OBVIOUS
  <2>1. v[Len(w) + k] = n + k /\ n + k > 0
    BY <1>1, <1>4
  <2> QED BY <2>1 DEF Gap
<1> QED BY <1>3, <1>4, <1>10, <1>11, <1>12 DEF v, r, c

(* The frames of a new connection: a notice if the next event is gone, and *)
(* what the buffer has.                                                    *)
Replay(c, first, n) ==
  LET from == IF c >= first THEN c + 1 ELSE first
  IN (IF c # 0 /\ c < first - 1 THEN <<Gap>> ELSE <<>>)
       \o [k \in 1 .. n - from + 1 |-> from + k - 1]

(* A new connection goes on where the client stopped, or tells it that it  *)
(* does not.                                                               *)
LEMMA ReplayArrives ==
  ASSUME NEW n \in Nat, NEW g \in Seq(0 .. n), NEW c \in 0 .. n, NEW first \in 1 .. n + 1,
         n > 0 => first <= n, CursorFits(g, c, first), Told(Frames(g, <<>>))
  PROVE  LET v == Replay(c, first, n)
         IN /\ v \in Seq(0 .. n) /\ UpToDate(g, v, n) /\ Told(Frames(g, v))
            /\ NoticeFits(v, c, first)
<1> DEFINE from == IF c >= first THEN c + 1 ELSE first
           r == [k \in 1 .. n - from + 1 |-> from + k - 1]
           z == n - from + 1
           a == Len(g)
           v == Replay(c, first, n)
<1>1. from \in Nat /\ from >= 1 /\ z \in Nat /\ (from - 1) + z = n /\ from - 1 \in Nat
  OBVIOUS
<1>2. r \in Seq(0 .. n) /\ Len(r) = z /\ \A k \in 1 .. z : r[k] = (from - 1) + k
  <2>1. r = [k \in 1 .. z |-> (from - 1) + k]
    BY <1>1
  <2> HIDE DEF r, z, from
  <2> QED BY <1>1, <2>1, Counted
<1>3. v = (IF c # 0 /\ c < first - 1 THEN <<Gap>> ELSE <<>>) \o r
  BY DEF Replay
<1>4. a \in Nat /\ (c = 0 <=> a = 0)
  BY DEF CursorFits
<1>5. /\ Frames(g, <<>>) \in [1 .. a -> Nat]
      /\ \A k \in 1 .. a : Frames(g, <<>>)[k] = g[k]
  BY EmptyFrames
<1>6. CASE c # 0 /\ c + 1 < first
  <2>1. from = first /\ c < first - 1
    BY <1>6
  <2> DEFINE f == Frames(g, <<Gap>>)
  <2> HIDE DEF r, v, z, from
  <2>2. <<Gap>> \in Seq(0 .. n) /\ Len(<<Gap>>) = 1 /\ <<Gap>>[1] = Gap
    BY DEF Gap
  <2>3. v = <<Gap>> \o r
    BY <1>3, <1>6, <2>1
  <2>4. /\ v \in Seq(0 .. n) /\ Len(v) = 1 + z /\ v[1] = Gap
        /\ \A k \in 1 .. z : v[1 + k] = (first - 1) + k
    <3>1. /\ v \in Seq(0 .. n) /\ Len(v) = 1 + z
          /\ \A k \in 1 .. 1 : v[k] = <<Gap>>[k]
          /\ \A k \in 1 .. z : v[1 + k] = r[k]
      BY <1>2, <2>2, <2>3, ConcatFacts
    <3> QED BY <1>2, <2>1, <2>2, <3>1
  <2>5. /\ f \in [1 .. a + 1 -> Nat]
        /\ \A k \in 1 .. a : f[k] = g[k]
        /\ f[a + 1] = Gap
    <3>1. /\ Frames(g, <<Gap>>) \in [1 .. a + Len(<<Gap>>) -> Nat]
          /\ \A k \in 1 .. a : Frames(g, <<Gap>>)[k] = g[k]
          /\ \A k \in 1 .. Len(<<Gap>>) : Frames(g, <<Gap>>)[a + k] = <<Gap>>[k]
      BY <2>2, FramesFacts
    <3> QED BY <2>2, <3>1
  <2> HIDE DEF f, a
  <2>6. Told(f)
    <3>1. \A k \in 1 .. a : f[k] = Frames(g, <<>>)[k]
      BY <1>5, <2>5
    <3> QED BY <1>4, <1>5, <2>5, <3>1, ToldNotice, Zenon
  <2>7. /\ Frames(g, v) \in [1 .. a + 1 + z -> Nat]
        /\ \A k \in 1 .. a : Frames(g, v)[k] = g[k]
        /\ Frames(g, v)[a + 1] = Gap
        /\ \A k \in 1 .. z : Frames(g, v)[a + 1 + k] = (first - 1) + k
    <3>1. /\ Frames(g, v) \in [1 .. a + Len(v) -> Nat]
          /\ \A k \in 1 .. a : Frames(g, v)[k] = g[k]
          /\ \A k \in 1 .. Len(v) : Frames(g, v)[a + k] = v[k]
      BY <2>4, FramesFacts DEF a
    <3>2. a + Len(v) = a + 1 + z /\ 1 \in 1 .. Len(v)
      BY <1>1, <1>4, <2>4
    <3>3. \A k \in 1 .. z : 1 + k \in 1 .. Len(v) /\ a + (1 + k) = a + 1 + k
      BY <1>1, <1>4, <2>4
    <3>4. \A k \in 1 .. z : Frames(g, v)[a + 1 + k] = v[1 + k]
      BY <3>1, <3>3
    <3> QED BY <2>4, <3>1, <3>2, <3>4
  <2>8. \A k \in 1 .. a + 1 : Frames(g, v)[k] = f[k]
    BY <1>4, <2>5, <2>7
  <2>9. \A i \in 1 .. a + 1 :
          f[i] # Gap /\ (\A k \in i + 1 .. a + 1 : f[k] = Gap)
            => f[i] < first - 1
    <3> SUFFICES ASSUME NEW i \in 1 .. a + 1, f[i] # Gap,
                        \A k \in i + 1 .. a + 1 : f[k] = Gap
                 PROVE  f[i] < first - 1
      OBVIOUS
    <3>1. PICK j \in 1 .. a : g[j] = c /\ \A k \in j + 1 .. a : g[k] = Gap
      BY <1>6 DEF CursorFits, a
    <3>2. i \in 1 .. a
      <4>1. i # a + 1
        BY <2>5
      <4> QED BY <1>4, <4>1
    <3>3. i = j
      <4>1. ~ (i > j)
        <5>1. f[i] = g[i] /\ g[i] # Gap
          BY <2>5, <3>2
        <5> QED BY <1>4, <3>1, <3>2, <5>1
      <4>2. ~ (j > i)
        BY <1>4, <1>6, <2>5, <3>1, <3>2 DEF Gap
      <4> QED BY <3>1, <3>2, <4>1, <4>2
    <3> QED BY <2>1, <2>5, <3>1, <3>3
  <2>10. Told(Frames(g, v))
    <3>1. first - 1 \in Nat /\ a + 1 \in Nat
      BY <1>4
    <3>2. RowAfter(f, Frames(g, v), a + 1, z, first - 1)
      BY <1>1, <2>5, <2>7, <2>8, <2>9, <3>1 DEF RowAfter
    <3> QED BY <2>6, <3>2, ToldRow
  <2>11. UpToDate(g, v, n)
    <3>1. Len(g) + Len(v) = a + 1 + z /\ z \in 1 .. z /\ n = (first - 1) + z /\ n > 0
      BY <1>1, <1>4, <1>6, <2>1, <2>4 DEF a
    <3>2. Frames(g, v)[a + 1 + z] = n
      BY <2>7, <3>1
    <3> QED BY <1>1, <1>4, <3>1, <3>2 DEF UpToDate
  <2>12. NoticeFits(v, c, first)
    <3> SUFFICES ASSUME NEW k \in 1 .. Len(v), k # 1 PROVE v[k] # Gap
      BY <1>6 DEF NoticeFits
    <3>1. k - 1 \in 1 .. z /\ k = 1 + (k - 1)
      BY <1>1, <2>4
    <3>2. v[k] = (first - 1) + (k - 1)
      BY <2>4, <3>1
    <3> QED BY <1>1, <3>1, <3>2 DEF Gap
  <2> QED BY <2>4, <2>10, <2>11, <2>12 DEF v
<1>7. CASE ~ (c # 0 /\ c + 1 < first)
  <2>1. ~ (c # 0 /\ c < first - 1)
    BY <1>7
  <2>2. c # 0 => from = c + 1
    BY <1>7
  <2> HIDE DEF r, v, z, from
  <2>3. v = r
    <3>1. v = <<>> \o r
      BY <1>3, <2>1
    <3> QED BY <1>2, <3>1, EmptyConcat
  <2>4. /\ v \in Seq(0 .. n) /\ Len(v) = z
        /\ \A k \in 1 .. z : v[k] = (from - 1) + k
    BY <1>2, <2>3
  <2>5. /\ Frames(g, v) \in [1 .. a + z -> Nat]
        /\ \A k \in 1 .. a : Frames(g, v)[k] = g[k]
        /\ \A k \in 1 .. z : Frames(g, v)[a + k] = (from - 1) + k
    <3>1. /\ Frames(g, v) \in [1 .. a + Len(v) -> Nat]
          /\ \A k \in 1 .. a : Frames(g, v)[k] = g[k]
          /\ \A k \in 1 .. Len(v) : Frames(g, v)[a + k] = v[k]
      BY <2>4, FramesFacts
    <3> QED BY <2>4, <3>1
  <2>6. a = 0 \/ (g[a] = c /\ c # 0 /\ from - 1 = c)
    <3> SUFFICES ASSUME a # 0 PROVE g[a] = c /\ c # 0 /\ from - 1 = c
      OBVIOUS
    <3>1. c # 0 /\ from - 1 = c
      BY <1>4, <2>2
    <3>2. PICK j \in 1 .. a : g[j] = c /\ \A k \in j + 1 .. a : g[k] = Gap
      BY <3>1 DEF CursorFits
    <3>3. g[a] # Gap
      BY <1>4, <1>7, <3>1 DEF CursorFits
    <3>4. j = a
      BY <1>4, <3>2, <3>3
    <3> QED BY <3>1, <3>2, <3>4
  <2>7. Told(Frames(g, v))
    <3>1. \A k \in 1 .. a : Frames(g, v)[k] = Frames(g, <<>>)[k]
      BY <1>5, <2>5
    <3>2. a = 0 \/ (Frames(g, <<>>)[a] = from - 1 /\ from - 1 # 0)
      BY <1>4, <1>5, <2>6
    <3> HIDE DEF a
    <3>3. RowAfter(Frames(g, <<>>), Frames(g, v), a, z, from - 1)
      BY <1>1, <1>4, <1>5, <2>5, <3>1, <3>2 DEF RowAfter
    <3> QED BY <3>3, ToldRow
  <2>8. UpToDate(g, v, n)
    <3>1. Len(g) + Len(v) = a + z
      BY <2>4
    <3>2. CASE z > 0
      <4>1. z \in 1 .. z /\ (from - 1) + z = n /\ n > 0
        BY <1>1, <3>2
      <4>2. Frames(g, v)[a + z] = n
        BY <2>5, <4>1
      <4> QED BY <1>1, <1>4, <3>1, <3>2, <4>1, <4>2 DEF UpToDate
    <3>3. CASE z = 0 /\ a # 0
      <4>1. Frames(g, v)[a] = c /\ c = n /\ n > 0 /\ a + z = a
        BY <1>1, <1>4, <2>5, <2>6, <3>3
      <4> QED BY <1>4, <3>1, <3>3, <4>1 DEF UpToDate
    <3>4. CASE z = 0 /\ a = 0
      <4>1. n = 0
        BY <1>1, <1>4, <3>4 DEF from
      <4> QED BY <3>1, <3>4, <4>1 DEF UpToDate
    <3> QED BY <1>1, <1>4, <3>2, <3>3, <3>4
  <2>9. NoticeFits(v, c, first)
    <3>1. \A k \in 1 .. Len(v) : v[k] # Gap
      BY <1>1, <2>4 DEF Gap
    <3> QED BY <3>1 DEF NoticeFits
  <2> QED BY <2>4, <2>7, <2>8, <2>9 DEF v
<1> QED BY <1>6, <1>7

(* One frame is read: the client has it, or leaves with it. *)
LEMMA FrameRead ==
  ASSUME NEW n \in Nat, NEW g \in Seq(0 .. n), NEW w \in Seq(0 .. n), w # <<>>,
         NEW c \in 0 .. n, NEW first \in Nat,
         CursorFits(g, c, first), NoticeFits(w, c, first), Told(Frames(g, w)), Whole(g),
         UpToDate(g, w, n)
  PROVE  LET h == Append(g, Head(w))
             d == IF Head(w) = Gap THEN c ELSE Head(w)
             t == Tail(w)
         IN /\ h \in Seq(0 .. n) /\ t \in Seq(0 .. n) /\ d \in 0 .. n
            /\ CursorFits(h, d, first) /\ NoticeFits(t, d, first)
            /\ Told(Frames(h, t)) /\ Whole(h) /\ UpToDate(h, t, n)
            /\ h # <<>> /\ h[Len(h)] = Head(w)
<1> DEFINE h == Append(g, Head(w))
           d == IF Head(w) = Gap THEN c ELSE Head(w)
           t == Tail(w)
           e == Head(w)
           a == Len(g)
<1>1. /\ t \in Seq(0 .. n) /\ Len(w) = Len(t) + 1 /\ Len(t) \in Nat
      /\ \A k \in 1 .. Len(t) : t[k] = w[k + 1]
      /\ e = w[1] /\ e \in 0 .. n
  BY TailFacts, Elements
<1>2. /\ h \in Seq(0 .. n) /\ Len(h) = a + 1 /\ h[a + 1] = e /\ a \in Nat
      /\ \A k \in 1 .. a : h[k] = g[k]
  <2>1. e \in 0 .. n /\ a \in Nat
    BY <1>1
  <2> HIDE DEF e
  <2> QED BY <2>1, AppendFacts DEF e
<1>3. h # <<>> /\ (g # <<>> <=> a > 0) /\ \A k \in 1 .. a : g[k] \in Nat
  <2>1. h # <<>>
    BY <1>2, Elements
  <2> QED BY <2>1, Elements
<1>4. d \in 0 .. n /\ d = IF e = Gap THEN c ELSE e
  BY <1>1
<1> HIDE DEF h, t, e, d
<1>5. /\ Frames(g, w) \in [1 .. a + Len(w) -> Nat]
      /\ \A k \in 1 .. a : Frames(g, w)[k] = g[k]
      /\ \A k \in 1 .. Len(w) : Frames(g, w)[a + k] = w[k]
  BY FramesFacts
<1>6. /\ Frames(h, t) \in [1 .. a + Len(w) -> Nat]
      /\ \A k \in 1 .. a + Len(w) : Frames(h, t)[k] = Frames(g, w)[k]
  <2>1. /\ Frames(h, t) \in [1 .. Len(h) + Len(t) -> Nat]
        /\ \A k \in 1 .. Len(h) : Frames(h, t)[k] = h[k]
        /\ \A k \in 1 .. Len(t) : Frames(h, t)[Len(h) + k] = t[k]
    BY <1>1, <1>2, FramesFacts
  <2>2. Len(h) + Len(t) = a + Len(w)
    BY <1>1, <1>2
  <2>3. ASSUME NEW k \in 1 .. a + Len(w) PROVE Frames(h, t)[k] = Frames(g, w)[k]
    <3>1. CASE k \in 1 .. a
      BY <1>2, <1>5, <2>1, <3>1
    <3>2. CASE k = a + 1
      <4>1. 1 \in 1 .. Len(w) /\ k \in 1 .. Len(h)
        BY <1>1, <1>2, <3>2
      <4>2. Frames(g, w)[a + 1] = w[1] /\ Frames(h, t)[k] = h[k]
        BY <1>5, <2>1, <4>1
      <4> QED BY <1>1, <1>2, <3>2, <4>2
    <3>3. CASE k > a + 1
      <4> DEFINE j == k - (a + 1)
      <4>1. j \in 1 .. Len(t) /\ j + 1 \in 1 .. Len(w) /\ k = Len(h) + j /\ k = a + (j + 1)
        BY <1>1, <1>2, <3>3
      <4> HIDE DEF j
      <4> QED BY <1>1, <1>5, <2>1, <4>1
    <3> QED BY <1>1, <1>2, <3>1, <3>2, <3>3
  <2> QED BY <2>1, <2>2, <2>3
<1>7. Told(Frames(h, t))
  <2>1. a + Len(w) \in Nat
    BY <1>1, <1>2
  <2> QED BY <1>5, <1>6, <2>1, ToldPrefix
<1>8. UpToDate(h, t, n)
  <2>1. Len(h) + Len(t) = a + Len(w) /\ a + Len(w) \in 1 .. a + Len(w)
    BY <1>1, <1>2
  <2>2. Frames(g, w)[a + Len(w)] = n /\ n > 0
    BY <1>1, <1>2, <2>1 DEF UpToDate
  <2> QED BY <1>6, <2>1, <2>2 DEF UpToDate
<1>9. CursorFits(h, d, first)
  <2>1. CASE e = Gap
    <3>1. c # 0 /\ c + 1 < first /\ d = c /\ g # <<>>
      <4>1. 1 \in 1 .. Len(w) /\ w[1] = Gap
        BY <1>1, <2>1
      <4>2. c # 0 /\ c + 1 < first
        BY <4>1 DEF NoticeFits
      <4> QED BY <1>4, <2>1, <4>2 DEF CursorFits
    <3>2. PICK i \in 1 .. a : g[i] = c /\ \A k \in i + 1 .. a : g[k] = Gap
      BY <3>1 DEF CursorFits
    <3>3. i \in 1 .. Len(h) /\ h[i] = d
      BY <1>2, <3>1, <3>2
    <3>4. ASSUME NEW k \in i + 1 .. Len(h) PROVE h[k] = Gap
      <4>1. k = a + 1 \/ (k \in i + 1 .. a /\ k \in 1 .. a)
        <5>1. k \in i + 1 .. a + 1 /\ i \in 1 .. a /\ a \in Nat
          BY <1>2
        <5> HIDE DEF a
        <5> QED BY <5>1
      <4> QED BY <1>2, <2>1, <3>2, <4>1
    <3> QED BY <1>3, <3>1, <3>3, <3>4 DEF CursorFits
  <2>2. CASE e # Gap
    <3>1. d = e /\ d # 0
      BY <1>4, <2>2 DEF Gap
    <3>2. a + 1 \in 1 .. Len(h) /\ h[a + 1] = d /\ \A k \in a + 2 .. Len(h) : h[k] = Gap
      BY <1>2, <3>1
    <3>3. h[Len(h)] # Gap
      BY <1>2, <2>2
    <3>4. \E i \in 1 .. Len(h) : h[i] = d /\ \A k \in i + 1 .. Len(h) : h[k] = Gap
      BY <1>2, <3>2
    <3> QED BY <1>3, <3>1, <3>3, <3>4 DEF CursorFits
  <2> QED BY <2>1, <2>2
<1>10. NoticeFits(t, d, first)
  <2>1. ASSUME NEW k \in 1 .. Len(t) PROVE t[k] # Gap
    <3>1. k + 1 \in 1 .. Len(w) /\ k + 1 # 1 /\ t[k] = w[k + 1]
      BY <1>1
    <3> QED BY <3>1 DEF NoticeFits
  <2> QED BY <2>1 DEF NoticeFits
<1>11. Whole(h)
  <2> SUFFICES ASSUME h[1] = 1, \A k \in 1 .. Len(h) : h[k] # Gap, NEW k \in 1 .. Len(h)
               PROVE  h[k] = k
    BY DEF Whole
  <2>1. CASE a = 0
    BY <1>2, <2>1
  <2>2. CASE a > 0
    <3>1. g # <<>> /\ g[1] = 1 /\ \A j \in 1 .. a : g[j] # Gap
      <4>1. 1 \in 1 .. a /\ \A j \in 1 .. a : j \in 1 .. Len(h)
        BY <1>2, <2>2
      <4>2. \A j \in 1 .. a : g[j] = h[j] /\ h[j] # Gap
        BY <1>2, <4>1
      <4> QED BY <1>3, <2>2, <4>1, <4>2
    <3>2. \A j \in 1 .. a : g[j] = j
      BY <3>1 DEF Whole
    <3>3. CASE k \in 1 .. a
      BY <1>2, <3>2, <3>3
    <3>4. CASE k = a + 1
      <4>1. Told(h)
        BY <1>1, <1>2, <1>7, ToldAlone
      <4>2. a \in DOMAIN h /\ a + 1 \in DOMAIN h
        BY <1>2, <2>2, Elements
      <4>3. a < a + 1 /\ h[a] # Gap /\ h[a + 1] # Gap /\ \A j \in a + 1 .. (a + 1) - 1 : h[j] = Gap
        BY <1>2, <2>2
      <4>4. h[a + 1] = h[a] + 1
        BY <4>1, <4>2, <4>3 DEF Told
      <4>5. h[a] = a
        <5>1. a \in 1 .. a
          BY <1>2, <2>2
        <5> QED BY <1>2, <3>2, <5>1
      <4> QED BY <3>4, <4>4, <4>5
    <3> QED BY <1>2, <3>3, <3>4
  <2> QED BY <1>2, <2>1, <2>2
<1>12. h[Len(h)] = e
  BY <1>2
<1> QED BY <1>1, <1>2, <1>3, <1>4, <1>7, <1>8, <1>9, <1>10, <1>11, <1>12 DEF h, t, e, d

------------------------------------------------------------------------------
(* The invariant in two parts *)

CommandTypes ==
  /\ pending \in [Stream -> Nat] /\ \A s \in Stream : pending[s] < ChunkBytes
  /\ written \in [Stream -> 0 .. MaxWritten]
  /\ eof \in [Stream -> BOOLEAN] /\ exited \in BOOLEAN
  /\ phase \in {"running", "finishing", "closed"}
  /\ trouble \subseteq {"log_limit", "log_failed"}

ClientTypes ==
  /\ client \in {"connecting", "reading", "finished", "failed"}
  /\ cursor \in 0 .. Len(log) /\ attempt \in 0 .. MaxReconnects
  /\ wire \in Seq(0 .. Len(log)) /\ got \in Seq(0 .. Len(log))

Command == CommandTypes /\ OutputFits

Reader == ClientTypes /\ ClientFits

Parts == Command /\ Reader

LEMMA PartsOfIInv == IInv <=> Parts
<1>1. ASSUME sent \in Buffers, OldestFits(sent)
      PROVE  TypeOK <=> CommandTypes /\ ClientTypes
  <2>1. /\ log \in Seq([type : EventTypes, from : Nat, size : Nat])
        /\ sent.inline \in 0 .. MaxOutput /\ sent.truncated \in BOOLEAN
        /\ Len(log) \in Nat
    BY <1>1, BufferParts DEF log, Buffers, EventType
  <2>2. sent.oldest \in 1 .. Len(log) + 1 /\ (log # <<>> => sent.oldest <= Len(log))
    <3>1. log # <<>> => Len(log) > 0
      BY <2>1
    <3> QED BY <1>1, <3>1 DEF OldestFits, log
  <2>3. pending \in [Stream -> 0 .. ChunkBytes - 1]
          <=> pending \in [Stream -> Nat] /\ \A s \in Stream : pending[s] < ChunkBytes
    <3>1. ChunkBytes \in Nat
      BY SizesAssumption
    <3> QED BY <3>1
  <2> QED BY <2>1, <2>2, <2>3 DEF TypeOK, CommandTypes, ClientTypes
<1> QED BY <1>1 DEF IInv, Parts, Command, Reader, OutputFits, Sound

LEMMA PartsOfIInvNext == IInv' <=> Parts'
BY PartsOfIInv, PTL

LEMMA DueType ==
  ASSUME CommandTypes, MergersFit
  PROVE  /\ Due \in [Stream -> Nat]
         /\ \A s \in Stream : /\ Due[s] = written[s] - pending[s]
                              /\ pending[s] \in Nat /\ written[s] \in Nat
<1>1. \A s \in Stream : pending[s] \in Nat /\ written[s] \in Nat /\ pending[s] <= written[s]
  BY SizesAssumption DEF CommandTypes, MergersFit
<1> QED BY <1>1 DEF Due

LEMMA BufferOfCommand ==
  ASSUME Command
  PROVE  sent \in Buffers /\ Len(log) \in Nat /\ Len(sent.log) \in Nat
         /\ sent.oldest \in Nat /\ log = sent.log
BY BufferParts DEF Command, OutputFits, Sound, log

------------------------------------------------------------------------------
(* The client, while something is published *)

(* What is published reaches the open connection, and nobody else.         *)
LEMMA ReaderKeeps ==
  ASSUME Reader, Command, NEW q \in Buffers, Grows(sent, q), Deliver(q), phase # "closed",
         UNCHANGED <<client, cursor, attempt, got>>
  PROVE  Reader'
<1> DEFINE n == Len(sent.log)
           m == Len(q.log)
<1>1. n \in Nat /\ m \in Nat /\ n <= m /\ sent.oldest \in Nat /\ q.oldest \in Nat /\ sent.oldest <= q.oldest
  BY BufferOfCommand, BufferParts DEF Grows
<1>2. /\ client \in {"connecting", "reading", "finished", "failed"}
      /\ cursor \in 0 .. n /\ attempt \in 0 .. MaxReconnects
      /\ wire \in Seq(0 .. n) /\ got \in Seq(0 .. n)
  BY DEF Reader, ClientTypes, log
<1>3. /\ CursorFits(got, cursor, sent.oldest) /\ NoticeFits(wire, cursor, sent.oldest)
      /\ Told(Frames(got, wire)) /\ Whole(got)
      /\ IF client = "reading" THEN UpToDate(got, wire, n) ELSE wire = <<>>
      /\ client # "finished"
  BY DEF Reader, ClientFits, log
<1>4. /\ sent' = q /\ got' = got /\ cursor' = cursor /\ client' = client /\ attempt' = attempt
      /\ wire' = IF client = "reading" THEN Arrives(wire, n, m) ELSE wire
  BY DEF Deliver, Arrives, log
<1> HIDE DEF n, m
<1>5. 0 .. n \subseteq 0 .. m
  BY <1>1
<1>6. /\ wire' \in Seq(0 .. m) /\ Told(Frames(got, wire'))
      /\ NoticeFits(wire', cursor, sent.oldest)
      /\ IF client = "reading" THEN UpToDate(got, wire', m) ELSE wire' = <<>>
  <2>1. CASE client = "reading"
    <3> DEFINE v == Arrives(wire, n, m)
    <3>1. wire' = v
      BY <1>4, <2>1
    <3>2. /\ v \in Seq(0 .. m) /\ UpToDate(got, v, m) /\ Told(Frames(got, v))
          /\ Len(wire) \in Nat /\ Len(v) = Len(wire) + (m - n)
          /\ \A k \in 1 .. Len(wire) : v[k] = wire[k]
          /\ \A k \in 1 .. m - n : v[Len(wire) + k] # Gap
      <4>1. /\ n \in Nat /\ m \in Nat /\ n <= m /\ got \in Seq(0 .. n) /\ wire \in Seq(0 .. n)
            /\ UpToDate(got, wire, n) /\ Told(Frames(got, wire))
        BY <1>1, <1>2, <1>3, <2>1
      <4> QED BY <4>1, RowArrives, Zenon
    <3> HIDE DEF v
    <3>3. NoticeFits(v, cursor, sent.oldest)
      <4> SUFFICES ASSUME NEW k \in 1 .. Len(v), v[k] = Gap
                   PROVE  k = 1 /\ cursor # 0 /\ cursor + 1 < sent.oldest
        BY DEF NoticeFits
      <4>1. CASE k \in 1 .. Len(wire)
        BY <1>3, <3>2, <4>1 DEF NoticeFits
      <4>2. CASE k > Len(wire)
        <5>1. k - Len(wire) \in 1 .. m - n /\ k = Len(wire) + (k - Len(wire))
          BY <1>1, <3>2, <4>2
        <5> QED BY <3>2, <5>1
      <4> QED BY <3>2, <4>1, <4>2
    <3> QED BY <2>1, <3>1, <3>2, <3>3
  <2>2. CASE client # "reading"
    <3>1. wire' = wire /\ wire = <<>>
      BY <1>3, <1>4, <2>2
    <3> QED BY <1>2, <1>3, <1>5, <2>2, <3>1, SeqGrows
  <2> QED BY <2>1, <2>2
<1>7. CursorFits(got, cursor, q.oldest) /\ NoticeFits(wire', cursor, q.oldest)
  BY <1>1, <1>2, <1>3, <1>6 DEF CursorFits, NoticeFits
<1>8. cursor \in 0 .. m /\ got \in Seq(0 .. m)
  BY <1>1, <1>2, <1>5, SeqGrows
<1>9. Len(log)' = m
  BY <1>4 DEF log, m
<1>10. ClientTypes'
  BY <1>2, <1>4, <1>6, <1>8, <1>9 DEF ClientTypes
<1>11. ClientFits'
  BY <1>3, <1>4, <1>6, <1>7, <1>9 DEF ClientFits
<1> QED BY <1>10, <1>11 DEF Reader

LEMMA ReaderStays ==
  ASSUME Reader, phase # "closed" \/ phase' = phase, UNCHANGED <<sent, clientVars>>
  PROVE  Reader'
<1>1. Len(log)' = Len(log) /\ log' = log
  BY DEF log
<1> QED BY <1>1 DEF Reader, ClientTypes, ClientFits, clientVars

------------------------------------------------------------------------------
(* The command *)

LEMMA EmitSound ==
  ASSUME NEW due \in [Stream -> Nat], NEW o, Sound(o, due),
         NEW s \in Stream, NEW b \in Nat, NEW fit \in Nat
  PROVE  /\ Sound(EmitChunk(o, s, due[s], b, fit), [due EXCEPT ![s] = @ + b])
         /\ GoesOn(o, EmitChunk(o, s, due[s], b, fit))
         /\ [due EXCEPT ![s] = @ + b] \in [Stream -> Nat]
<1>1. [due EXCEPT ![s] = @ + b] \in [Stream -> Nat]
  OBVIOUS
<1> QED BY <1>1, EmitKeeps DEF Sound

LEMMA ReportSound ==
  ASSUME NEW due \in [Stream -> Nat], NEW o, Sound(o, due),
         NEW kind \in {"log_limit", "log_failed"}
  PROVE  Sound(Report(o, kind), due) /\ GoesOn(o, Report(o, kind))
<1> DEFINE q == Publish(o, Notice(kind))
<1>1. kind \in EventTypes \ Stream /\ kind # "output_limit" /\ kind # "end"
  BY DEF EventTypes, Stream
<1>2. /\ q \in Buffers /\ OldestFits(q) /\ LimitFits(q) /\ Grows(o, q)
      /\ Accounted(q, due)
      /\ Len(q.log) = Len(o.log) + 1 /\ q.log[Len(q.log)].type = kind
  BY <1>1, NoticeKeeps DEF Sound
<1>3. Len(o.log) \in Nat
  BY BufferParts DEF Sound
<1> HIDE DEF q
<1>4. GoesOn(o, q)
  BY <1>1, <1>2, <1>3 DEF GoesOn
<1>5. Sound(q, due)
  BY <1>2 DEF Sound
<1> QED BY <1>4, <1>5 DEF Report, q

(* The buffer after a step that is not the end of the stream. *)
LEMMA CommandKeeps ==
  ASSUME Command, phase # "closed", phase' # "closed", NEW q,
         sent' = q, Sound(q, Due'), GoesOn(sent, q), CommandTypes', MergersFit'
  PROVE  Command'
<1>1. EndFits(q, FALSE)
  <2> SUFFICES ASSUME NEW k \in 1 .. Len(q.log) PROVE q.log[k].type # "end"
    BY DEF EndFits
  <2>1. Len(sent.log) \in Nat
    BY BufferOfCommand
  <2>2. CASE k \in 1 .. Len(sent.log)
    BY <2>2 DEF GoesOn, Grows, Command, OutputFits, EndFits
  <2>3. CASE k \in Len(sent.log) + 1 .. Len(q.log)
    BY <2>3 DEF GoesOn
  <2> QED BY <2>1, <2>2, <2>3
<1>2. EndFits(sent, phase = "closed")'
  BY <1>1 DEF EndFits
<1> QED BY <1>2 DEF Command, OutputFits

------------------------------------------------------------------------------
(* One lemma for each action *)

LEMMA SoundNow ==
  ASSUME Command
  PROVE  /\ Sound(sent, Due) /\ Due \in [Stream -> Nat] /\ GoesOn(sent, sent)
         /\ \A s \in Stream : /\ Due[s] = written[s] - pending[s]
                              /\ pending[s] \in Nat /\ written[s] \in Nat
                              /\ pending[s] <= written[s] /\ pending[s] < ChunkBytes
  BY DueType, BufferOfCommand, GrowsFurther DEF Command, CommandTypes, OutputFits, MergersFit

LEMMA GoesOnFurther ==
  ASSUME NEW o, NEW p, NEW q, NEW x, NEW y, NEW z, Sound(o, x), Sound(p, y), Sound(q, z),
         GoesOn(o, p), GoesOn(p, q)
  PROVE  GoesOn(o, q)
BY GrowsFurther DEF Sound

(* A merger passes on what it holds. *)
LEMMA EmitHeld ==
  ASSUME Command, NEW o, NEW due \in [Stream -> Nat], Sound(o, due), GoesOn(sent, o),
         NEW s \in Stream, due[s] = Due[s], NEW fit \in 0 .. MaxOutput
  PROVE  LET d == [due EXCEPT ![s] = written[s]]
         IN Sound(Emit(o, s, fit), d) /\ GoesOn(sent, Emit(o, s, fit)) /\ d \in [Stream -> Nat]
<1>1. fit \in Nat /\ pending[s] \in Nat /\ due[s] = written[s] - pending[s] /\ written[s] \in Nat
  BY SoundNow, SizesAssumption
<1>2. [due EXCEPT ![s] = @ + pending[s]] = [due EXCEPT ![s] = written[s]]
  <2>1. due[s] + pending[s] = written[s]
    BY <1>1
  <2> QED BY <2>1, Zenon
<1>3. Emit(o, s, fit) = EmitChunk(o, s, due[s], pending[s], fit)
  BY <1>1 DEF Emit
<1>4. /\ Sound(Emit(o, s, fit), [due EXCEPT ![s] = written[s]])
      /\ GoesOn(o, Emit(o, s, fit)) /\ [due EXCEPT ![s] = written[s]] \in [Stream -> Nat]
  <2>1. /\ Sound(EmitChunk(o, s, due[s], pending[s], fit), [due EXCEPT ![s] = @ + pending[s]])
        /\ GoesOn(o, EmitChunk(o, s, due[s], pending[s], fit))
        /\ [due EXCEPT ![s] = @ + pending[s]] \in [Stream -> Nat]
    BY <1>1, EmitSound
  <2> QED BY <1>2, <1>3, <2>1
<1>5. Sound(sent, Due)
  BY SoundNow
<1> QED BY <1>4, <1>5, GoesOnFurther

(* Both mergers pass on what they hold: all that was read is accounted for. *)
LEMMA EmitAll ==
  ASSUME Command, NEW fit \in 0 .. MaxOutput
  PROVE  LET q == Emit(Emit(sent, "stdout", fit), "stderr", fit)
         IN Sound(q, [s \in Stream |-> written[s]]) /\ GoesOn(sent, q)
<1> DEFINE p == Emit(sent, "stdout", fit)
           q == Emit(p, "stderr", fit)
           d == [Due EXCEPT !["stdout"] = written["stdout"]]
           e == [d EXCEPT !["stderr"] = written["stderr"]]
<1>1. "stdout" \in Stream /\ "stderr" \in Stream /\ "stdout" # "stderr"
  BY DEF Stream
<1>2. Sound(p, d) /\ GoesOn(sent, p) /\ d \in [Stream -> Nat]
  BY <1>1, SoundNow, EmitHeld
<1>3. d["stderr"] = Due["stderr"]
  BY <1>1, SoundNow
<1> HIDE DEF p, d
<1>4. Sound(q, e) /\ GoesOn(sent, q)
  BY <1>1, <1>2, <1>3, EmitHeld
<1>5. e = [s \in Stream |-> written[s]]
  <2>1. Due \in [Stream -> Nat]
    BY SoundNow
  <2>2. e \in [Stream -> Nat] /\ e["stdout"] = written["stdout"] /\ e["stderr"] = written["stderr"]
    BY <1>1, <1>2, <2>1, SoundNow DEF d
  <2> HIDE DEF e
  <2>3. \A s \in Stream : e[s] = written[s]
    BY <2>2 DEF Stream
  <2> QED BY <2>2, <2>3
<1> QED BY <1>4, <1>5 DEF p

(* The buffer reaches both sides. *)
LEMMA DeliverKeeps ==
  ASSUME Parts, phase # "closed", phase' # "closed", NEW q,
         Deliver(q), Sound(q, Due'), GoesOn(sent, q), CommandTypes', MergersFit',
         UNCHANGED <<client, cursor, attempt, got>>
  PROVE  Parts'
<1>1. sent' = q /\ q \in Buffers /\ Grows(sent, q)
  BY DEF Deliver, Sound, GoesOn
<1>2. Command'
  BY <1>1, CommandKeeps DEF Parts
<1>3. Reader'
  BY <1>1, ReaderKeeps DEF Parts
<1> QED BY <1>2, <1>3 DEF Parts

LEMMA DataKeeps ==
  ASSUME Parts, NEW s \in Stream, Data(s)
  PROVE  Parts'
<1>1. PICK b \in 1 .. MaxWrite, fit \in 0 .. MaxOutput, full \in BOOLEAN :
        /\ written["stdout"] + written["stderr"] + b <= MaxWritten
        /\ written' = [written EXCEPT ![s] = @ + b]
        /\ full => MayReport("log_limit")
        /\ trouble' = IF full THEN trouble \cup {"log_limit"} ELSE trouble
        /\ LET from == written[s] - pending[s]
               early == IF pending[s] + b > ChunkBytes THEN pending[s] ELSE 0
               held == pending[s] - early + b
               late == IF held >= ChunkBytes THEN held ELSE 0
               told == IF full THEN Report(sent, "log_limit") ELSE sent
           IN /\ Deliver(EmitChunk(EmitChunk(told, s, from, early, fit), s, from + early, late, fit))
              /\ pending' = [pending EXCEPT ![s] = held - late]
  BY DEF Data
<1> DEFINE from == written[s] - pending[s]
           early == IF pending[s] + b > ChunkBytes THEN pending[s] ELSE 0
           held == pending[s] - early + b
           late == IF held >= ChunkBytes THEN held ELSE 0
           told == IF full THEN Report(sent, "log_limit") ELSE sent
           p == EmitChunk(told, s, from, early, fit)
           q == EmitChunk(p, s, from + early, late, fit)
           d == [Due EXCEPT ![s] = @ + early]
           e == [d EXCEPT ![s] = @ + late]
<1>2. Deliver(q) /\ pending' = [pending EXCEPT ![s] = held - late]
  BY <1>1
<1>3. /\ phase = "running" /\ phase' = phase /\ eof' = eof /\ exited' = exited /\ ~ eof[s]
      /\ UNCHANGED <<client, cursor, attempt, got>>
  BY DEF Data
<1>4. Command
  BY DEF Parts
<1>5. /\ Sound(sent, Due) /\ Due \in [Stream -> Nat] /\ GoesOn(sent, sent)
      /\ \A t \in Stream : /\ Due[t] = written[t] - pending[t]
                           /\ pending[t] \in Nat /\ written[t] \in Nat
                           /\ pending[t] <= written[t] /\ pending[t] < ChunkBytes
  BY <1>4, SoundNow
<1>6. /\ ChunkBytes \in Nat /\ b \in Nat /\ b > 0 /\ fit \in Nat /\ MaxWritten \in Nat
  BY SizesAssumption
<1>7. /\ early \in Nat /\ late \in Nat /\ held \in Nat /\ held - late \in Nat
      /\ held - late < ChunkBytes /\ held - late <= written[s] + b
      /\ (written[s] + b) - (held - late) = Due[s] + early + late
      /\ from = Due[s]
  BY <1>5, <1>6
<1>8. Sound(told, Due) /\ GoesOn(sent, told)
  BY <1>5, ReportSound
<1> HIDE DEF told, early, late, held
<1>9. Sound(p, d) /\ GoesOn(told, p) /\ d \in [Stream -> Nat]
  <2>1. p = EmitChunk(told, s, Due[s], early, fit)
    BY <1>7
  <2> HIDE DEF p
  <2> QED BY <1>5, <1>6, <1>7, <1>8, <2>1, EmitSound
<1>10. d[s] = from + early
  BY <1>5, <1>7
<1>11. Sound(q, e) /\ GoesOn(p, q) /\ e \in [Stream -> Nat]
  <2>1. q = EmitChunk(p, s, d[s], late, fit)
    BY <1>10
  <2> HIDE DEF q, p, d
  <2> QED BY <1>6, <1>7, <1>9, <2>1, EmitSound
<1> HIDE DEF p, q
<1>12. GoesOn(sent, q)
  <2> HIDE DEF d, e
  <2>1. GoesOn(sent, p)
    BY <1>5, <1>8, <1>9, GoesOnFurther
  <2> QED BY <1>5, <1>9, <1>11, <2>1, GoesOnFurther
<1>13. CommandTypes /\ MergersFit
  BY <1>4 DEF Command, OutputFits
<1>14. written' \in [Stream -> 0 .. MaxWritten]
  <2>1. written["stdout"] \in Nat /\ written["stderr"] \in Nat
    BY <1>5 DEF Stream
  <2>2. written[s] + b \in 0 .. MaxWritten
    BY <1>1, <1>6, <2>1 DEF Stream
  <2> QED BY <1>1, <1>13, <2>2 DEF CommandTypes
<1>15. CommandTypes'
  <2>1. pending' \in [Stream -> Nat] /\ \A t \in Stream : pending'[t] < ChunkBytes
    BY <1>2, <1>7, <1>13 DEF CommandTypes
  <2>2. trouble' \subseteq {"log_limit", "log_failed"}
    BY <1>1, <1>13 DEF CommandTypes
  <2> QED BY <1>3, <1>13, <1>14, <2>1, <2>2 DEF CommandTypes
<1>16. MergersFit'
  <2> SUFFICES ASSUME NEW t \in Stream
               PROVE  /\ pending'[t] <= written'[t]
                      /\ eof'[t] \/ phase' # "running" => pending'[t] = 0
    BY DEF MergersFit
  <2>1. CASE t = s
    <3>1. pending'[t] = held - late /\ written'[t] = written[s] + b
      BY <1>1, <1>2, <1>13, <2>1 DEF CommandTypes
    <3> QED BY <1>3, <1>7, <2>1, <3>1
  <2>2. CASE t # s
    <3>1. pending'[t] = pending[t] /\ written'[t] = written[t]
      BY <1>1, <1>2, <1>13, <2>2 DEF CommandTypes
    <3> QED BY <1>3, <1>13, <3>1 DEF MergersFit
  <2> QED BY <2>1, <2>2
<1>17. Due' = e
  <2>1. \A t \in Stream : written'[t] - pending'[t] = e[t]
    <3> SUFFICES ASSUME NEW t \in Stream PROVE written'[t] - pending'[t] = e[t]
      OBVIOUS
    <3>1. CASE t = s
      <4>1. pending'[t] = held - late /\ written'[t] = written[s] + b
        BY <1>1, <1>2, <1>13, <3>1 DEF CommandTypes
      <4>2. e[t] = Due[s] + early + late
        BY <1>5, <3>1
      <4> QED BY <1>7, <4>1, <4>2
    <3>2. CASE t # s
      <4>1. pending'[t] = pending[t] /\ written'[t] = written[t]
        BY <1>1, <1>2, <1>13, <3>2 DEF CommandTypes
      <4>2. e[t] = Due[t]
        BY <1>5, <3>2
      <4> QED BY <1>5, <4>1, <4>2
    <3> QED BY <3>1, <3>2
  <2>2. e \in [Stream -> Nat]
    BY <1>11
  <2> HIDE DEF e
  <2> QED BY <2>1, <2>2 DEF Due
<1> HIDE DEF d, e
<1> QED BY <1>2, <1>3, <1>11, <1>12, <1>15, <1>16, <1>17, DeliverKeeps

LEMMA FlushKeeps ==
  ASSUME Parts, NEW s \in Stream, Flush(s)
  PROVE  Parts'
<1>1. PICK fit \in 0 .. MaxOutput : Deliver(Emit(sent, s, fit))
  BY DEF Flush
<1>2. /\ phase = "running" /\ pending' = [pending EXCEPT ![s] = 0]
      /\ UNCHANGED <<written, eof, exited, phase, trouble, client, cursor, attempt, got>>
  BY DEF Flush
<1> DEFINE d == [Due EXCEPT ![s] = written[s]]
           q == Emit(sent, s, fit)
<1>3. Command /\ CommandTypes /\ MergersFit
  BY DEF Parts, Command, OutputFits
<1>4. Sound(q, d) /\ GoesOn(sent, q)
  BY <1>3, SoundNow, EmitHeld
<1>5. /\ pending'[s] = 0 /\ \A t \in Stream \ {s} : pending'[t] = pending[t]
      /\ pending' \in [Stream -> Nat] /\ written' = written /\ ChunkBytes > 0
  BY <1>2, <1>3, SizesAssumption DEF CommandTypes
<1>6. CommandTypes'
  BY <1>2, <1>3, <1>5 DEF CommandTypes
<1>7. MergersFit'
  <2>1. \A t \in Stream : written[t] \in Nat
    BY <1>3, SoundNow
  <2> QED BY <1>2, <1>3, <1>5, <2>1 DEF MergersFit
<1>8. Due' = d
  <2>1. \A t \in Stream : written'[t] - pending'[t] = d[t]
    BY <1>3, <1>5, SoundNow
  <2>2. d \in [Stream -> Nat]
    BY <1>3, SoundNow
  <2> HIDE DEF d
  <2> QED BY <2>1, <2>2 DEF Due
<1> HIDE DEF d, q
<1>9. Deliver(q)
  BY <1>1 DEF q
<1> QED BY <1>2, <1>4, <1>6, <1>7, <1>8, <1>9, DeliverKeeps

(* A pending that is empty: all that was read is due. *)
LEMMA NothingHeld ==
  ASSUME CommandTypes, pending' = [s \in Stream |-> 0], written' = written
  PROVE  /\ pending' \in [Stream -> Nat] /\ \A s \in Stream : pending'[s] = 0 /\ pending'[s] < ChunkBytes
         /\ Due' = [s \in Stream |-> written[s]]
         /\ MergersFit'
<1>1. \A s \in Stream : pending'[s] = 0 /\ written[s] \in Nat /\ written'[s] = written[s]
  BY DEF CommandTypes
<1>2. ChunkBytes > 0
  BY SizesAssumption
<1>3. Due' = [s \in Stream |-> written[s]]
  BY <1>1 DEF Due
<1>4. MergersFit'
  BY <1>1 DEF MergersFit
<1> QED BY <1>1, <1>2, <1>3, <1>4

(* Both mergers are flushed: by a kill, or when the drain window closes.   *)
LEMMA AllFlushed ==
  ASSUME Parts, phase = "running", phase' \in {"running", "finishing"},
         pending' = [s \in Stream |-> 0], \E fit \in 0 .. MaxOutput : EmitPending(fit),
         UNCHANGED <<written, eof, exited, trouble, client, cursor, attempt, got>>
  PROVE  Parts'
<1>1. PICK fit \in 0 .. MaxOutput : EmitPending(fit)
  OBVIOUS
<1> DEFINE q == Emit(Emit(sent, "stdout", fit), "stderr", fit)
<1>2. Deliver(q)
  BY <1>1 DEF EmitPending
<1>3. Command /\ CommandTypes
  BY DEF Parts, Command
<1>4. Sound(q, [s \in Stream |-> written[s]]) /\ GoesOn(sent, q)
  BY <1>3, EmitAll
<1>5. /\ pending' \in [Stream -> Nat] /\ \A s \in Stream : pending'[s] = 0 /\ pending'[s] < ChunkBytes
      /\ Due' = [s \in Stream |-> written[s]]
      /\ MergersFit'
  BY <1>3, NothingHeld
<1>6. CommandTypes'
  BY <1>3, <1>5 DEF CommandTypes
<1> HIDE DEF q
<1> QED BY <1>2, <1>4, <1>5, <1>6, DeliverKeeps

LEMMA EofKeeps ==
  ASSUME Parts, NEW s \in Stream, Eof(s)
  PROVE  Parts'
<1>1. PICK fit \in 0 .. MaxOutput : Deliver(Emit(sent, s, fit))
  BY DEF Eof
<1>2. /\ phase = "running" /\ eof' = [eof EXCEPT ![s] = TRUE]
      /\ UNCHANGED <<written, exited, trouble, client, cursor, attempt, got>>
      /\ IF exited /\ \A t \in Stream \ {s} : eof[t]
         THEN phase' = "finishing" /\ pending' = [t \in Stream |-> 0]
         ELSE pending' = [pending EXCEPT ![s] = 0] /\ phase' = phase
  BY DEF Eof, Finalize
<1> DEFINE d == [Due EXCEPT ![s] = written[s]]
           q == Emit(sent, s, fit)
<1>3. Command /\ CommandTypes /\ MergersFit
  BY DEF Parts, Command, OutputFits
<1>4. Sound(q, d) /\ GoesOn(sent, q)
  BY <1>3, SoundNow, EmitHeld
<1>5. /\ pending'[s] = 0 /\ \A t \in Stream \ {s} : pending'[t] = pending[t]
      /\ pending' \in [Stream -> Nat] /\ written' = written /\ ChunkBytes > 0
      /\ phase' # "running" => \A t \in Stream : pending'[t] = 0
  <2>1. CASE exited /\ \A t \in Stream \ {s} : eof[t]
    <3>1. \A t \in Stream \ {s} : pending[t] = 0
      BY <1>3, <2>1 DEF MergersFit
    <3> QED BY <1>2, <2>1, <3>1, SizesAssumption
  <2>2. CASE ~ (exited /\ \A t \in Stream \ {s} : eof[t])
    BY <1>2, <1>3, <2>2, SizesAssumption DEF CommandTypes
  <2> QED BY <2>1, <2>2
<1>6. phase' \in {"running", "finishing"}
  BY <1>2
<1>7. CommandTypes'
  BY <1>2, <1>3, <1>5, <1>6 DEF CommandTypes
<1>8. MergersFit'
  <2> SUFFICES ASSUME NEW t \in Stream
               PROVE  /\ pending'[t] <= written'[t]
                      /\ eof'[t] \/ phase' # "running" => pending'[t] = 0
    BY DEF MergersFit
  <2>1. written[t] \in Nat /\ pending[t] <= written[t]
    BY <1>3, SoundNow
  <2>2. CASE t = s
    BY <1>5, <2>1, <2>2
  <2>3. CASE t # s
    <3>1. eof'[t] = eof[t] /\ pending'[t] = pending[t]
      BY <1>2, <1>3, <1>5, <2>3 DEF CommandTypes
    <3> QED BY <1>3, <1>5, <2>1, <3>1 DEF MergersFit
  <2> QED BY <2>2, <2>3
<1>9. Due' = d
  <2>1. \A t \in Stream : written'[t] - pending'[t] = d[t]
    BY <1>3, <1>5, SoundNow
  <2>2. d \in [Stream -> Nat]
    BY <1>3, SoundNow
  <2> HIDE DEF d
  <2> QED BY <2>1, <2>2 DEF Due
<1> HIDE DEF d, q
<1>10. Deliver(q)
  BY <1>1 DEF q
<1> QED BY <1>2, <1>4, <1>6, <1>7, <1>8, <1>9, <1>10, DeliverKeeps

(* Finalization with nothing left in the mergers. *)
LEMMA FinalizeKeeps ==
  ASSUME Parts, phase = "running", Finalize, \A s \in Stream : pending[s] = 0,
         exited' \in BOOLEAN, UNCHANGED <<sent, written, eof, trouble, clientVars>>
  PROVE  Parts'
<1>1. Command /\ CommandTypes
  BY DEF Parts, Command
<1>2. /\ pending' \in [Stream -> Nat] /\ \A s \in Stream : pending'[s] = 0 /\ pending'[s] < ChunkBytes
      /\ Due' = [s \in Stream |-> written[s]]
      /\ MergersFit' /\ phase' = "finishing"
  BY <1>1, NothingHeld DEF Finalize
<1>3. Due' = Due
  <2>1. \A s \in Stream : written[s] - pending[s] = written[s]
    BY <1>1, SoundNow
  <2>2. [s \in Stream |-> written[s] - pending[s]] = [s \in Stream |-> written[s]]
    BY <2>1, Zenon
  <2> QED BY <1>2, <2>2 DEF Due
<1>4. Sound(sent, Due') /\ GoesOn(sent, sent)
  BY <1>1, <1>3, SoundNow
<1>5. CommandTypes'
  BY <1>1, <1>2 DEF CommandTypes
<1>6. Command'
  BY <1>1, <1>2, <1>4, <1>5, CommandKeeps
<1>7. Reader'
  BY ReaderStays DEF Parts
<1> QED BY <1>6, <1>7 DEF Parts

LEMMA ExitsKeeps ==
  ASSUME Parts, Exits
  PROVE  Parts'
<1>1. /\ phase = "running" /\ exited' = TRUE /\ UNCHANGED <<sent, written, eof, trouble, clientVars>>
      /\ IF \A s \in Stream : eof[s] THEN Finalize ELSE UNCHANGED <<pending, phase>>
  BY DEF Exits
<1>2. Command /\ CommandTypes /\ MergersFit
  BY DEF Parts, Command, OutputFits
<1>3. CASE \A s \in Stream : eof[s]
  BY <1>1, <1>2, <1>3, FinalizeKeeps DEF MergersFit
<1>4. CASE ~ \A s \in Stream : eof[s]
  <2>1. UNCHANGED <<pending, phase>>
    BY <1>1, <1>4
  <2>2. CommandTypes' /\ MergersFit' /\ Due' = Due
    BY <1>1, <1>2, <2>1 DEF CommandTypes, MergersFit, Due
  <2>3. Command'
    BY <1>1, <1>2, <2>1, <2>2 DEF Command, OutputFits
  <2>4. Reader'
    BY <1>1, ReaderStays DEF Parts
  <2> QED BY <2>3, <2>4 DEF Parts
<1> QED BY <1>3, <1>4

LEMMA SpawnErrorKeeps ==
  ASSUME Parts, SpawnError
  PROVE  Parts'
<1>1. /\ phase = "running" /\ Finalize /\ \A s \in Stream : written[s] = 0
      /\ UNCHANGED <<sent, written, eof, exited, trouble, clientVars>>
  BY DEF SpawnError
<1>2. Command /\ exited' \in BOOLEAN
  BY <1>1 DEF Parts, Command, CommandTypes
<1>3. \A s \in Stream : pending[s] = 0
  BY <1>1, <1>2, SoundNow
<1> QED BY <1>1, <1>2, <1>3, FinalizeKeeps

LEMMA LogFailsKeeps ==
  ASSUME Parts, LogFails
  PROVE  Parts'
<1> DEFINE q == Report(sent, "log_failed")
<1>1. /\ phase # "closed" /\ trouble' = trouble \cup {"log_failed"} /\ Deliver(q)
      /\ UNCHANGED <<pending, written, eof, exited, phase, client, cursor, attempt, got>>
  BY DEF LogFails
<1>2. Command /\ CommandTypes /\ MergersFit
  BY DEF Parts, Command, OutputFits
<1>3. Sound(q, Due) /\ GoesOn(sent, q)
  BY <1>2, SoundNow, ReportSound
<1>4. CommandTypes' /\ MergersFit' /\ Due' = Due
  BY <1>1, <1>2 DEF CommandTypes, MergersFit, Due
<1> HIDE DEF q
<1> QED BY <1>1, <1>3, <1>4, DeliverKeeps

LEMMA AnnounceKeeps ==
  ASSUME Parts, Announce
  PROVE  Parts'
<1> DEFINE q == Publish(sent, Notice("end"))
<1>1. /\ phase = "finishing" /\ phase' = "closed" /\ Deliver(q)
      /\ UNCHANGED <<pending, written, eof, exited, trouble, client, cursor, attempt, got>>
  BY DEF Announce
<1>2. Command /\ CommandTypes /\ MergersFit /\ Sound(sent, Due) /\ Due \in [Stream -> Nat]
  BY SoundNow DEF Parts, Command, OutputFits
<1>3. "end" \in EventTypes \ Stream /\ "end" # "output_limit"
  BY DEF EventTypes, Stream
<1>4. /\ q \in Buffers /\ OldestFits(q) /\ LimitFits(q) /\ Grows(sent, q)
      /\ Accounted(q, Due)
      /\ Len(q.log) = Len(sent.log) + 1 /\ q.log[Len(q.log)].type = "end"
  BY <1>2, <1>3, NoticeKeeps DEF Sound
<1> HIDE DEF q
<1>5. sent' = q
  BY <1>1 DEF Deliver
<1>6. CommandTypes' /\ MergersFit' /\ Due' = Due
  BY <1>1, <1>2 DEF CommandTypes, MergersFit, Due
<1>7. EndFits(q, TRUE)
  <2>1. Len(sent.log) \in Nat
    BY <1>2, BufferOfCommand
  <2>2. \A k \in 1 .. Len(sent.log) : sent.log[k].type # "end"
    BY <1>1, <1>2 DEF Command, OutputFits, EndFits
  <2> QED BY <1>4, <2>1, <2>2 DEF EndFits, Grows
<1>8. EndFits(sent, phase = "closed")'
  BY <1>1, <1>5, <1>7
<1>9. Sound(q, Due)
  BY <1>4 DEF Sound
<1>10. Sound(sent, Due)'
  BY <1>5, <1>6, <1>9
<1>11. Command'
  BY <1>6, <1>8, <1>10 DEF Command, OutputFits
<1>12. Reader'
  BY <1>1, <1>2, <1>4, ReaderKeeps DEF Parts
<1> QED BY <1>11, <1>12 DEF Parts

LEMMA CommandStays ==
  ASSUME Command, UNCHANGED outputVars
  PROVE  Command'
BY DEF Command, CommandTypes, OutputFits, MergersFit, Due, outputVars

LEMMA ConnectKeeps ==
  ASSUME Parts, Connect
  PROVE  Parts'
<1> DEFINE n == Len(sent.log)
           v == Replay(cursor, sent.oldest, n)
<1>1. /\ client = "connecting" /\ client' = "reading" /\ wire' = v
      /\ UNCHANGED <<outputVars, cursor, attempt, got>>
  BY DEF Connect, Subscribe, Replay, log
<1>2. Command /\ Reader
  BY DEF Parts
<1>3. n \in Nat /\ sent.oldest \in 1 .. n + 1 /\ (n > 0 => sent.oldest <= n)
  BY <1>2, BufferOfCommand DEF Command, OutputFits, Sound, OldestFits
<1>4. /\ cursor \in 0 .. n /\ got \in Seq(0 .. n) /\ wire = <<>>
      /\ attempt \in 0 .. MaxReconnects
  BY <1>1, <1>2 DEF Reader, ClientTypes, ClientFits, log
<1>5. CursorFits(got, cursor, sent.oldest) /\ Told(Frames(got, <<>>)) /\ Whole(got)
  BY <1>2, <1>4 DEF Reader, ClientFits
<1> HIDE DEF n
<1>6. /\ v \in Seq(0 .. n) /\ UpToDate(got, v, n) /\ Told(Frames(got, v))
      /\ NoticeFits(v, cursor, sent.oldest)
  BY <1>3, <1>4, <1>5, ReplayArrives
<1> HIDE DEF v
<1>7. sent' = sent /\ phase' = phase /\ Len(log)' = n
  BY <1>1 DEF outputVars, log, n
<1>8. ClientTypes'
  BY <1>1, <1>4, <1>6, <1>7 DEF ClientTypes
<1>9. ClientFits'
  BY <1>1, <1>5, <1>6, <1>7 DEF ClientFits
<1>10. Command'
  BY <1>1, <1>2, CommandStays
<1> QED BY <1>8, <1>9, <1>10 DEF Parts, Reader

(* A connection that is lost, or ends: what was read stays as it is.       *)
LEMMA ConnectionLost ==
  ASSUME Parts, wire' = <<>>, client' \in {"connecting", "failed"}, attempt' \in 0 .. MaxReconnects,
         UNCHANGED <<outputVars, cursor, got>>
  PROVE  Parts'
<1>1. Command /\ Reader
  BY DEF Parts
<1> DEFINE n == Len(sent.log)
<1>2. n \in Nat
  BY <1>1, BufferOfCommand
<1>3. cursor \in 0 .. n /\ got \in Seq(0 .. n) /\ wire \in Seq(0 .. n)
  BY <1>1 DEF Reader, ClientTypes, log
<1>4. CursorFits(got, cursor, sent.oldest) /\ Told(Frames(got, wire)) /\ Whole(got)
  BY <1>1 DEF Reader, ClientFits
<1> HIDE DEF n
<1>5. Told(Frames(got, <<>>))
  BY <1>2, <1>3, <1>4, ToldAlone
<1>6. sent' = sent /\ phase' = phase /\ Len(log)' = n
  BY DEF outputVars, log, n
<1>7. ClientTypes'
  <2>1. <<>> \in Seq(0 .. n)
    OBVIOUS
  <2> QED BY <1>3, <1>6, <2>1 DEF ClientTypes
<1>8. NoticeFits(<<>>, cursor, sent.oldest)
  BY DEF NoticeFits
<1>9. ClientFits'
  BY <1>4, <1>5, <1>6, <1>8 DEF ClientFits
<1>10. Command'
  BY <1>1, CommandStays
<1> QED BY <1>7, <1>9, <1>10 DEF Parts, Reader

LEMMA BreaksKeeps ==
  ASSUME Parts, Breaks
  PROVE  Parts'
<1>1. wire' = <<>> /\ client' = "failed" /\ UNCHANGED <<outputVars, cursor, attempt, got>>
  BY DEF Breaks
<1>2. attempt \in 0 .. MaxReconnects
  BY DEF Parts, Reader, ClientTypes
<1> QED BY <1>1, <1>2, ConnectionLost

LEMMA CutKeeps ==
  ASSUME Parts, Cut
  PROVE  Parts'
<1>1. wire' = <<>> /\ client' \in {"connecting", "failed"} /\ UNCHANGED <<outputVars, cursor, got>>
  BY DEF Cut
<1>2. attempt \in 0 .. MaxReconnects /\ MaxReconnects \in Nat
  BY SizesAssumption DEF Parts, Reader, ClientTypes
<1>3. attempt' \in 0 .. MaxReconnects
  BY <1>2 DEF Cut
<1> QED BY <1>1, <1>3, ConnectionLost

LEMMA ReadKeeps ==
  ASSUME Parts, Read
  PROVE  Parts'
<1> DEFINE n == Len(sent.log)
           h == Append(got, Head(wire))
           d == IF Head(wire) = Gap THEN cursor ELSE Head(wire)
           t == Tail(wire)
           last == Head(wire) # Gap /\ log[Head(wire)].type = "end"
<1>1. /\ client = "reading" /\ wire # <<>> /\ got' = h /\ cursor' = d
      /\ IF last THEN client' = "finished" /\ wire' = <<>> ELSE wire' = t /\ client' = client
      /\ UNCHANGED <<outputVars, attempt>>
  BY DEF Read
<1>2. Command /\ Reader
  BY DEF Parts
<1>3. n \in Nat /\ sent.oldest \in Nat
  BY <1>2, BufferOfCommand
<1>4. /\ cursor \in 0 .. n /\ got \in Seq(0 .. n) /\ wire \in Seq(0 .. n) /\ attempt \in 0 .. MaxReconnects
  BY <1>2 DEF Reader, ClientTypes, log
<1>5. /\ CursorFits(got, cursor, sent.oldest) /\ NoticeFits(wire, cursor, sent.oldest)
      /\ Told(Frames(got, wire)) /\ Whole(got) /\ UpToDate(got, wire, n)
  BY <1>1, <1>2 DEF Reader, ClientFits, log
<1>6. last => Head(wire) = n /\ phase = "closed"
  <2> SUFFICES ASSUME last PROVE Head(wire) = n /\ phase = "closed"
    OBVIOUS
  <2>1. Head(wire) \in 0 .. n
    BY <1>1, <1>4, TailFacts
  <2>2. Head(wire) \in 1 .. n
    BY <1>3, <2>1 DEF Gap
  <2>3. sent.log[Head(wire)].type = "end"
    BY DEF log
  <2>4. EndFits(sent, phase = "closed")
    BY <1>2 DEF Command, OutputFits
  <2> QED BY <2>2, <2>3, <2>4 DEF EndFits
<1> HIDE DEF n
<1>7. /\ h \in Seq(0 .. n) /\ t \in Seq(0 .. n) /\ d \in 0 .. n
      /\ CursorFits(h, d, sent.oldest) /\ NoticeFits(t, d, sent.oldest)
      /\ Told(Frames(h, t)) /\ Whole(h) /\ UpToDate(h, t, n)
      /\ h # <<>> /\ h[Len(h)] = Head(wire)
  BY <1>1, <1>3, <1>4, <1>5, FrameRead
<1>8. sent' = sent /\ phase' = phase /\ Len(log)' = n
  BY <1>1 DEF outputVars, log, n
<1> HIDE DEF h, d, t, last
<1>9. Told(Frames(h, <<>>))
  BY <1>3, <1>7, ToldAlone
<1>10. <<>> \in Seq(0 .. n) /\ NoticeFits(<<>>, d, sent.oldest)
  BY DEF NoticeFits
<1>11. wire' \in Seq(0 .. n) /\ NoticeFits(wire', d, sent.oldest) /\ Told(Frames(h, wire'))
  BY <1>1, <1>7, <1>9, <1>10
<1>12. ClientTypes'
  BY <1>1, <1>4, <1>7, <1>8, <1>11 DEF ClientTypes
<1>13. ClientFits'
  <2>1. CASE last
    BY <1>1, <1>6, <1>7, <1>8, <1>11, <2>1 DEF ClientFits
  <2>2. CASE ~ last
    BY <1>1, <1>7, <1>8, <1>11, <2>2 DEF ClientFits
  <2> QED BY <2>1, <2>2
<1>14. Command'
  BY <1>1, <1>2, CommandStays
<1> QED BY <1>12, <1>13, <1>14 DEF Parts, Reader

------------------------------------------------------------------------------
(* The invariant is inductive *)

LEMMA Start == Init => IInv
<1> SUFFICES ASSUME Init PROVE Parts
  BY PartsOfIInv
<1>1. PICK l : /\ sent = Quiet(l) /\ phase \in {"running", "finishing"}
               /\ l = <<>> \/ l = <<Notice("started")>>
  BY DEF Init
<1>2. Notice("started") \in EventType /\ "started" \notin Stream
  BY EventsTyped DEF EventTypes, Stream
<1>3. /\ l \in Seq(EventType) /\ Len(l) \in {0, 1}
      /\ \A k \in 1 .. Len(l) : l[k] = Notice("started")
  <2>1. CASE l = <<>>
    BY <2>1
  <2>2. CASE l = <<Notice("started")>>
    <3> DEFINE e == Notice("started")
    <3>1. e \in EventType
      BY <1>2
    <3> HIDE DEF e
    <3>2. <<e>> \in Seq(EventType) /\ Len(<<e>>) = 1 /\ <<e>>[1] = e
      BY <3>1
    <3>3. \A k \in 1 .. 1 : k = 1
      OBVIOUS
    <3>4. l = <<e>>
      BY <2>2 DEF e
    <3>5. l \in Seq(EventType) /\ Len(l) = 1 /\ l[1] = e
      BY <3>2, <3>4
    <3> QED BY <3>3, <3>5 DEF e
  <2> QED BY <1>1, <2>1, <2>2
<1>4. \A k \in 1 .. Len(l) : l[k].type = "started"
  BY <1>3 DEF Notice
<1>5. sent.log = l /\ sent.oldest = 1 /\ sent.inline = 0 /\ sent.truncated = FALSE
  BY <1>1 DEF Quiet
<1>6. sent \in Buffers
  <2>1. 0 \in 0 .. MaxOutput
    BY SizesAssumption
  <2> QED BY <1>1, <1>3, <2>1 DEF Buffers, Quiet
<1>7. OldestFits(sent)
  BY <1>3, <1>5 DEF OldestFits
<1>8. LimitFits(sent)
  BY <1>4, <1>5 DEF LimitFits
<1>9. EndFits(sent, FALSE)
  BY <1>4, <1>5 DEF EndFits
<1>10. EndFits(sent, phase = "closed")
  BY <1>1, <1>9 DEF EndFits
<1>11. /\ pending = [s \in Stream |-> 0] /\ written = [s \in Stream |-> 0]
       /\ eof = [s \in Stream |-> FALSE] /\ exited = FALSE /\ trouble = {}
       /\ client = "connecting" /\ cursor = 0 /\ attempt = 0 /\ wire = <<>> /\ got = <<>>
  BY DEF Init
<1>12. CommandTypes
  <2>1. ChunkBytes > 0 /\ 0 \in 0 .. MaxWritten
    BY SizesAssumption
  <2>2. pending \in [Stream -> Nat] /\ \A s \in Stream : pending[s] < ChunkBytes
    BY <1>11, <2>1
  <2>3. written \in [Stream -> 0 .. MaxWritten] /\ eof \in [Stream -> BOOLEAN]
    BY <1>11, <2>1
  <2> QED BY <1>1, <1>11, <2>2, <2>3 DEF CommandTypes
<1>13. MergersFit
  BY <1>11 DEF MergersFit
<1>14. Due = [s \in Stream |-> 0]
  BY <1>11 DEF Due
<1>15. Accounted(sent, Due)
  <2> DEFINE cut == [s \in Stream |-> 0]
  <2>1. cut \in [Stream -> Nat] /\ \A s \in Stream : cut[s] = 0 /\ Due[s] = 0
    BY <1>14
  <2>2. "stdout" \in Stream /\ "stderr" \in Stream
    BY DEF Stream
  <2> HIDE DEF cut
  <2>3. Carries(sent, cut)
    <3> SUFFICES ASSUME NEW s \in Stream PROVE Kept(sent.log, s, 1 .. Len(sent.log), 0)
      BY <2>1 DEF Carries
    <3>1. \A k \in 1 .. Len(sent.log) : sent.log[k].type # s
      BY <1>2, <1>4, <1>5
    <3> QED BY <3>1 DEF Kept
  <2> QED BY <1>5, <2>1, <2>2, <2>3 DEF Accounted
<1>16. Command
  BY <1>6, <1>7, <1>8, <1>10, <1>12, <1>13, <1>15 DEF Command, OutputFits, Sound
<1>17. Reader
  <2>1. Len(log) \in Nat
    BY <1>3, <1>5 DEF log
  <2>2. <<>> \in Seq(0 .. Len(log)) /\ 0 \in 0 .. Len(log) /\ 0 \in 0 .. MaxReconnects
    BY <2>1, SizesAssumption
  <2>3. ClientTypes
    BY <1>11, <2>2 DEF ClientTypes
  <2>4. \A k \in 1 .. 0 : FALSE
    OBVIOUS
  <2>5. Told(Frames(<<>>, <<>>))
    BY DEF Told, Frames
  <2>6. CursorFits(<<>>, 0, sent.oldest) /\ NoticeFits(<<>>, 0, sent.oldest) /\ Whole(<<>>)
    BY DEF CursorFits, NoticeFits, Whole
  <2>7. ClientFits
    BY <1>11, <2>5, <2>6 DEF ClientFits
  <2> QED BY <2>3, <2>7 DEF Reader
<1> QED BY <1>16, <1>17 DEF Parts

LEMMA Step ==
  ASSUME Parts, [Next]_vars
  PROVE  Parts'
<1>1. ASSUME NEW s \in Stream, Data(s) PROVE Parts'
  BY <1>1, DataKeeps
<1>2. ASSUME NEW s \in Stream, Flush(s) PROVE Parts'
  BY <1>2, FlushKeeps
<1>3. ASSUME NEW s \in Stream, Eof(s) PROVE Parts'
  BY <1>3, EofKeeps
<1>4. CASE KillFlush
  BY <1>4, AllFlushed DEF KillFlush
<1>5. CASE Exits
  BY <1>5, ExitsKeeps
<1>6. CASE SpawnError
  BY <1>6, SpawnErrorKeeps
<1>7. CASE DrainFires
  BY <1>7, AllFlushed DEF DrainFires, Finalize
<1>8. CASE LogFails
  BY <1>8, LogFailsKeeps
<1>9. CASE Announce
  BY <1>9, AnnounceKeeps
<1>10. CASE Connect
  BY <1>10, ConnectKeeps
<1>11. CASE Breaks
  BY <1>11, BreaksKeeps
<1>12. CASE Read
  BY <1>12, ReadKeeps
<1>13. CASE Cut
  BY <1>13, CutKeeps
<1>14. CASE UNCHANGED vars
  <2>1. Command'
    BY <1>14, CommandStays DEF Parts, vars
  <2>2. Reader'
    BY <1>14, ReaderStays DEF Parts, vars, outputVars
  <2> QED BY <2>1, <2>2 DEF Parts
<1> QED BY <1>1, <1>2, <1>3, <1>4, <1>5, <1>6, <1>7, <1>8, <1>9, <1>10, <1>11, <1>12, <1>13, <1>14
        DEF Next, CommandStep, ClientStep

(* The conjuncts are inductive only together: the sequence of frames needs *)
(* the place of the oldest event, the account of the output needs what the *)
(* mergers hold, and the end of the stream ties the two together.          *)
THEOREM Inductive == Spec => []IInv
<1>1. IInv /\ [Next]_vars => IInv'
  BY Step, PartsOfIInv, PartsOfIInvNext
<1> QED BY Start, <1>1, PTL DEF Spec

------------------------------------------------------------------------------
(* Types of all variables: a merger never holds a full chunk, and the      *)
(* inline output never exceeds its budget.                                 *)
THEOREM Typed == Spec => []TypeOK
<1>1. IInv => TypeOK
  BY DEF IInv
<1> QED BY <1>1, Inductive, PTL

(* What the client has read is consecutive but for gaps it was told of,    *)
(* over any number of connections that end, whatever was evicted meanwhile *)
(* (sse.ts:20, EventBus.subscribe).                                        *)
THEOREM NoGapInSilence == Spec => []GapsAreTold
<1>1. IInv => GapsAreTold
  <2> SUFFICES ASSUME Parts PROVE GapsAreTold
    BY PartsOfIInv
  <2>1. /\ got \in Seq(0 .. Len(log)) /\ wire \in Seq(0 .. Len(log)) /\ Len(log) \in Nat
        /\ Told(Frames(got, wire))
    BY BufferOfCommand DEF Parts, Reader, ClientTypes, ClientFits
  <2> QED BY <2>1, ToldAlone DEF GapsAreTold
<1> QED BY <1>1, Inductive, PTL

(* In the terminal event `truncated` says whether output is missing, and   *)
(* what there is of each stream is a beginning of it, within the budget.   *)
LEMMA PrefixHolds ==
  ASSUME Parts
  PROVE  InlineIsPrefix
<1>1. sent \in Buffers /\ log = sent.log /\ Len(log) \in Nat /\ DOMAIN log = 1 .. Len(log)
  <2>1. sent \in Buffers /\ log = sent.log
    BY BufferOfCommand DEF Parts
  <2> QED BY <2>1, BufferParts, Elements
<1>2. PICK cut \in [Stream -> Nat] :
        /\ cut["stdout"] + cut["stderr"] = sent.inline
        /\ Carries(sent, cut)
        /\ \A s \in Stream : cut[s] <= Due[s]
        /\ sent.truncated <=> \E s \in Stream : cut[s] < Due[s]
  BY DEF Parts, Command, OutputFits, Sound, Accounted
<1>3. \A s \in Stream : /\ Due[s] = written[s] - pending[s] /\ pending[s] \in Nat
                        /\ written[s] \in Nat /\ written[s] <= MaxWritten /\ cut[s] \in Nat
  BY SoundNow, SizesAssumption DEF Parts, Command, CommandTypes
<1>4. \A i, j \in DOMAIN log : log[i].type = "output_limit" /\ i < j => log[j].type \notin Stream
  <2> SUFFICES ASSUME NEW i \in 1 .. Len(log), NEW j \in 1 .. Len(log),
                      log[i].type = "output_limit", i < j
               PROVE  log[j].type \notin Stream
    BY <1>1
  <2>1. j \in i + 1 .. Len(log)
    BY <1>1
  <2> QED BY <1>1, <2>1 DEF Parts, Command, OutputFits, Sound, LimitFits
<1>5. cut \in [Stream -> 0 .. MaxWritten]
  <2>1. \A s \in Stream : cut[s] \in 0 .. MaxWritten
    BY <1>2, <1>3, SizesAssumption
  <2> QED BY <2>1
<1>6. cut["stdout"] + cut["stderr"] <= MaxOutput
  BY <1>1, <1>2, BufferParts
<1>7. \A s \in Stream : Kept(log, s, DOMAIN log, cut[s])
  BY <1>1, <1>2 DEF Carries
<1>8. ASSUME phase = "closed"
      PROVE  sent.truncated <=> \E s \in Stream : cut[s] # written[s]
  <2>1. \A s \in Stream : pending[s] = 0
    BY <1>8 DEF Parts, Command, OutputFits, MergersFit
  <2>2. \A s \in Stream : cut[s] < Due[s] <=> cut[s] # written[s]
    <3> SUFFICES ASSUME NEW s \in Stream PROVE cut[s] < Due[s] <=> cut[s] # written[s]
      OBVIOUS
    <3>1. /\ cut[s] <= Due[s] /\ Due[s] = written[s] - pending[s] /\ pending[s] = 0
          /\ written[s] \in Nat /\ cut[s] \in Nat
      BY <1>2, <1>3, <2>1
    <3> QED BY <3>1
  <2> QED BY <1>2, <2>2
<1> QED BY <1>4, <1>5, <1>6, <1>7, <1>8 DEF InlineIsPrefix

(* A client that has read everything has every byte.                       *)
LEMMA CompleteHolds ==
  ASSUME Parts
  PROVE  OutputComplete
<1> DEFINE ids == {got[k] : k \in DOMAIN got}
<1> SUFFICES ASSUME client = "finished", got[1] = 1, Gap \notin ids, ~ sent.truncated,
                    NEW s \in Stream
             PROVE  Kept(log, s, ids, written[s])
  BY DEF OutputComplete
<1>1. sent \in Buffers /\ log = sent.log /\ Len(log) \in Nat
  BY BufferOfCommand DEF Parts
<1>2. got \in Seq(0 .. Len(log)) /\ Whole(got) /\ phase = "closed" /\ got # <<>> /\ got[Len(got)] = Len(log)
  BY DEF Parts, Reader, ClientTypes, ClientFits
<1>3. DOMAIN got = 1 .. Len(got) /\ Len(got) \in Nat /\ Len(got) > 0
  BY <1>2, Elements
<1>4. \A k \in 1 .. Len(got) : got[k] = k
  <2>1. \A k \in 1 .. Len(got) : got[k] # Gap
    BY <1>3
  <2> QED BY <1>2, <2>1 DEF Whole
<1>5. Len(got) = Len(log)
  <2>1. Len(got) \in 1 .. Len(got)
    BY <1>3
  <2> QED BY <1>2, <1>4, <2>1
<1>6. ids = 1 .. Len(log)
  <2>1. ids = {got[k] : k \in 1 .. Len(log)}
    BY <1>3, <1>5
  <2>2. \A k \in 1 .. Len(log) : got[k] = k
    BY <1>4, <1>5
  <2> HIDE DEF ids
  <2> QED BY <2>1, <2>2
<1>7. PICK cut \in [Stream -> Nat] :
        /\ Carries(sent, cut)
        /\ \A t \in Stream : cut[t] <= Due[t]
        /\ sent.truncated <=> \E t \in Stream : cut[t] < Due[t]
  BY DEF Parts, Command, OutputFits, Sound, Accounted
<1>8. cut[s] = written[s]
  <2>1. pending[s] = 0
    BY <1>2 DEF Parts, Command, OutputFits, MergersFit
  <2>2. Due[s] = written[s] - pending[s] /\ written[s] \in Nat /\ cut[s] \in Nat
    BY SoundNow DEF Parts
  <2> QED BY <1>7, <2>1, <2>2
<1>9. Kept(sent.log, s, 1 .. Len(sent.log), cut[s])
  BY <1>7 DEF Carries
<1> HIDE DEF ids
<1> QED BY <1>1, <1>6, <1>8, <1>9

(* The events carry a beginning of each stream, truncated exactly when the *)
(* terminal event says so, and a client that was told of no gap and of no  *)
(* truncation has every byte the command wrote, once and in order          *)
(* (spawn.ts:406).                                                         *)
THEOREM OutputArrives == Spec => []OutputIsKept
<1>1. IInv => OutputIsKept
  BY PartsOfIInv, PrefixHolds, CompleteHolds DEF OutputIsKept
<1> QED BY <1>1, Inductive, PTL

=============================================================================
