-------------------------- MODULE EgressProxyProofs --------------------------
(***************************************************************************)
(* Theorems about the egress proxy: what a list lets through is what its   *)
(* file says, for every file and every host, and the process keeps to one  *)
(* whole list and logs each request once, for any number of callers,       *)
(* calls, edits and requests.                                              *)
(***************************************************************************)
EXTENDS EgressProxy, TLAPS

-----------------------------------------------------------------------------
(* The list. *)

\* A suffix is what a sequence ends in.
LEMMA SuffixIsEnd ==
    ASSUME NEW s \in Seq(STRING), NEW t \in Seq(STRING)
    PROVE  IsSuffix(s, t) <=> /\ Len(s) <= Len(t)
                              /\ \A i \in 1 .. Len(s) : s[i] = t[Len(t) - Len(s) + i]
<1> DEFINE r == Reverse(s)
           q == Reverse(t)
<1>1. /\ Len(s) \in Nat /\ Len(t) \in Nat
      /\ r \in Seq(STRING) /\ Len(r) = Len(s) /\ \A i \in 1 .. Len(s) : r[i] = s[(Len(s) - i) + 1]
      /\ q \in Seq(STRING) /\ Len(q) = Len(t) /\ \A i \in 1 .. Len(t) : q[i] = t[(Len(t) - i) + 1]
  BY DEF Reverse
<1> HIDE DEF r, q
<1>2. IsSuffix(s, t) <=> Len(r) <= Len(q) /\ SubSeq(r, 1, Len(r)) = SubSeq(q, 1, Len(r))
  BY DEF IsSuffix, IsPrefix, r, q
<1>3. ASSUME Len(r) <= Len(q)
      PROVE  SubSeq(r, 1, Len(r)) = SubSeq(q, 1, Len(r)) <=> \A i \in 1 .. Len(r) : r[i] = q[i]
  BY <1>1, <1>3
<1>4. ASSUME Len(s) <= Len(t)
      PROVE  (\A i \in 1 .. Len(s) : r[i] = q[i])
             <=> \A i \in 1 .. Len(s) : s[i] = t[Len(t) - Len(s) + i]
  <2>1. ASSUME \A i \in 1 .. Len(s) : r[i] = q[i], NEW j \in 1 .. Len(s)
        PROVE  s[j] = t[Len(t) - Len(s) + j]
    <3> DEFINE i == (Len(s) - j) + 1
    <3>1. i \in 1 .. Len(s) /\ i \in 1 .. Len(t) /\ (Len(s) - i) + 1 = j
          /\ (Len(t) - i) + 1 = Len(t) - Len(s) + j
      BY <1>1, <1>4
    <3> HIDE DEF i
    <3>2. r[i] = s[j] /\ q[i] = t[Len(t) - Len(s) + j]
      BY <1>1, <3>1
    <3>. QED  BY <2>1, <3>1, <3>2
  <2>2. ASSUME \A i \in 1 .. Len(s) : s[i] = t[Len(t) - Len(s) + i], NEW j \in 1 .. Len(s)
        PROVE  r[j] = q[j]
    <3> DEFINE i == (Len(s) - j) + 1
    <3>1. i \in 1 .. Len(s) /\ j \in 1 .. Len(t) /\ Len(t) - Len(s) + i = (Len(t) - j) + 1
      BY <1>1, <1>4
    <3> HIDE DEF i
    <3>2. r[j] = s[(Len(s) - j) + 1] /\ q[j] = t[(Len(t) - j) + 1]
      BY <1>1, <3>1
    <3>3. i = (Len(s) - j) + 1
      BY DEF i
    <3>. QED  BY <2>2, <3>1, <3>2, <3>3
  <2>. QED  BY <2>1, <2>2
<1>. QED  BY <1>1, <1>2, <1>3, <1>4

\* Strictly below a name: longer, and ending in it.
LEMMA BelowIsSuffix ==
    ASSUME NEW value \in Seq(STRING), NEW labels \in Seq(STRING), value # <<>>
    PROVE  (Len(labels) > Len(value) /\ IsSuffix(value, labels))
           <=> \E below \in 1 .. Len(labels) - 1 : SubSeq(labels, below + 1, Len(labels)) = value
<1>1. Len(value) \in Nat \ {0} /\ Len(labels) \in Nat
  OBVIOUS
<1>2. ASSUME Len(labels) > Len(value), IsSuffix(value, labels)
      PROVE  \E below \in 1 .. Len(labels) - 1 : SubSeq(labels, below + 1, Len(labels)) = value
  <2> DEFINE below == Len(labels) - Len(value)
  <2>1. below \in 1 .. Len(labels) - 1
    BY <1>1, <1>2
  <2>2. \A i \in 1 .. Len(value) : value[i] = labels[below + i]
    BY <1>2, SuffixIsEnd
  <2>3. Len(value) = Len(labels) - below
    BY <1>1
  <2> HIDE DEF below
  <2>4. SubSeq(labels, below + 1, Len(labels)) = value
    BY <1>1, <2>1, <2>2, <2>3
  <2>. QED  BY <2>1, <2>4
<1>3. ASSUME NEW below \in 1 .. Len(labels) - 1, SubSeq(labels, below + 1, Len(labels)) = value
      PROVE  Len(labels) > Len(value) /\ IsSuffix(value, labels)
  <2>1. Len(value) = Len(labels) - below
    BY <1>1, <1>3
  <2>2. \A i \in 1 .. Len(value) : value[i] = labels[below + i]
    BY <1>1, <1>3, <2>1
  <2>3. below = Len(labels) - Len(value) /\ Len(labels) > Len(value)
    BY <1>1, <2>1
  <2>. QED  BY <1>1, <2>2, <2>3, SuffixIsEnd
<1>. QED  BY <1>2, <1>3

\* The rule of one line covers what the line says.
LEMMA RuleSays ==
    ASSUME NEW line \in AnyLine, line.pattern \in {"name", "wild"}, line.host.labels # <<>>,
           NEW host \in AnyHost
    PROVE  Matches(Rule(line), NormalizeHost(host))
           <=> \/ line.pattern = "name" /\ line.host.labels = host.labels
               \/ line.pattern = "wild" /\ \E below \in 1 .. Len(host.labels) - 1 :
                      SubSeq(host.labels, below + 1, Len(host.labels)) = line.host.labels
<1> DEFINE value == line.host.labels
           labels == host.labels
<1>1. value \in Seq(STRING) /\ labels \in Seq(STRING) /\ value # <<>>
  BY DEF AnyLine, AnyHost
<1>2. NormalizeHost(host).labels = labels /\ NormalizeHost(host).dots = 0
  BY DEF NormalizeHost, AnyHost
<1>3. NormalizeHost(line.host).labels = value
  BY DEF NormalizeHost, AnyHost, AnyLine
<1>4. Rule(line).value = value /\ Rule(line).kind = IF line.pattern = "wild" THEN "subdomain" ELSE "exact"
  BY <1>3 DEF Rule
<1> HIDE DEF value, labels
<1>5. Matches(Rule(line), NormalizeHost(host))
      <=> \/ line.pattern = "name" /\ labels = value
          \/ line.pattern = "wild" /\ Len(labels) > Len(value) /\ IsSuffix(value, labels)
  BY <1>2, <1>4 DEF Matches
<1>6. (Len(labels) > Len(value) /\ IsSuffix(value, labels))
      <=> \E below \in 1 .. Len(labels) - 1 : SubSeq(labels, below + 1, Len(labels)) = value
  BY <1>1, BelowIsSuffix
<1>. QED  BY <1>5, <1>6 DEF value, labels

\* A text that is accepted is a list throughout.
LEMMA Accepted ==
    ASSUME NEW text \in SUBSET AnyLine, ParseAllowlist(text) # Refused
    PROVE  /\ IsList(text)
           /\ ParseAllowlist(text) = [rules |-> {Rule(line) : line \in text}]
<1>1. \A line \in text : line.pattern \in {"name", "wild"} /\ IsDomainName(NormalizeHost(line.host))
  BY DEF ParseAllowlist
<1>2. \A line \in text : line.host.form = "name" /\ line.host.labels # <<>>
  <2> SUFFICES ASSUME NEW line \in text
               PROVE  line.host.form = "name" /\ line.host.labels # <<>>
    OBVIOUS
  <2>1. line.host \in AnyHost
    BY DEF AnyLine
  <2>. QED  BY <1>1, <2>1 DEF IsDomainName, NormalizeHost, AnyHost
<1>. QED  BY <1>1, <1>2 DEF IsList, ParseAllowlist

\* The verdict on any host is what the accepted text says of it: no IP passes,
\* nor the name above a wildcard, and dots at the end change nothing
\* (allowlist.ts: parseAllowlist, normalizeHost, matchAllowlist).
THEOREM VerdictIsWhatTheFileSays ==
    ASSUME NEW text \in SUBSET AnyLine, ParseAllowlist(text) # Refused, NEW host \in AnyHost
    PROVE  Decide(ParseAllowlist(text), host) <=> Says(text, host)
<1>1. IsList(text) /\ ParseAllowlist(text).rules = {Rule(line) : line \in text}
  BY Accepted
<1> DEFINE Covers(line) ==
             \/ line.pattern = "name" /\ line.host.labels = host.labels
             \/ line.pattern = "wild" /\ \E below \in 1 .. Len(host.labels) - 1 :
                    SubSeq(host.labels, below + 1, Len(host.labels)) = line.host.labels
<1>2. \A line \in text : Matches(Rule(line), NormalizeHost(host)) <=> Covers(line)
  BY <1>1, RuleSays DEF IsList
<1>3. MatchAllowlist(ParseAllowlist(text), host) <=> \E line \in text : Covers(line)
  <2> HIDE DEF Covers
  <2>. QED  BY <1>1, <1>2 DEF MatchAllowlist
<1>4. ASSUME NEW line \in text, Covers(line)
      PROVE  host.labels # <<>>
  <2>1. line.host.labels # <<>>
    BY <1>1 DEF IsList
  <2>2. host.labels \in Seq(STRING)
    BY DEF AnyHost
  <2>. QED  BY <1>4, <2>1, <2>2
<1>5. NormalizeHost(host).labels = host.labels
  BY DEF NormalizeHost, AnyHost
<1>6. host.form = "name" <=> host.form # "junk" /\ host.form # "ip"
  BY DEF AnyHost
<1> HIDE DEF Covers
<1>7. Says(text, host) <=> host.form = "name" /\ \E line \in text : Covers(line)
  BY DEF Says, Covers
<1>. QED  BY <1>3, <1>4, <1>5, <1>6, <1>7 DEF Decide, Splits, IsIpLiteral

-----------------------------------------------------------------------------
(* The inductive invariant: the list, and the connection. *)

Texts == Files \cup {Missing}

\* The file, and what the container sees of it, is a text or not there.
FilesKnown == file \in Texts /\ seen \in Texts

\* What works has a whole list, read from a text.
ListKnown ==
    /\ proc \in {"off", "boot", "loaded", "up", "closing"}
    /\ Working => /\ source \in Files /\ ParseAllowlist(source) # Refused
                  /\ allow = ParseAllowlist(source)

Connection ==
    [kind : {"none", "connect", "http"},
     client : {"open", "answered", "ended", "destroyed", "closed"},
     up : {"none", "connecting", "open", "ended", "destroyed", "closed"},
     granted : BOOLEAN, says : BOOLEAN, open : BOOLEAN, heard : BOOLEAN, lines : Nat]

\* A request that is granted and not logged yet has an upstream whose end, the
\* last to come, will log it.
ConnectionOk(c) ==
    /\ c \in Connection /\ c.heard
    /\ c.kind = "none" => c = Idle
    /\ c.kind # "none" =>
          /\ c.granted <=> c.says
          /\ c.lines <= 1
          /\ c.up \in {"open", "ended"} => c.open
          /\ ~c.granted => c.lines = 1 /\ c.up = "none"
          /\ c.granted /\ c.lines = 0 =>
                /\ c.up \in {"connecting", "open", "ended", "destroyed"}
                /\ c.kind = "connect" /\ c.up = "destroyed" => c.open

IInv == FilesKnown /\ ListKnown /\ ConnectionOk(conn)

-----------------------------------------------------------------------------
(* The connection. *)

LEMMA IdleOk == ConnectionOk(Idle)
BY DEF ConnectionOk, Connection, Idle

\* What the callbacks do to a connection, field by field.
SameRequest(c, d) ==
    /\ d \in Connection
    /\ d.kind = c.kind /\ d.granted = c.granted /\ d.says = c.says /\ d.heard = c.heard

LEMMA DenyDoes ==
    ASSUME NEW c \in Connection
    PROVE  SameRequest(c, Deny(c)) /\ Deny(c).up = c.up /\ Deny(c).open = c.open /\ Deny(c).lines = c.lines
BY DEF Deny, Connection, SameRequest

LEMMA DestroyClientDoes ==
    ASSUME NEW c \in Connection
    PROVE  LET d == DestroyClient(c)
           IN  SameRequest(c, d) /\ d.up = c.up /\ d.open = c.open /\ d.lines = c.lines
BY DEF DestroyClient, Connection, SameRequest

LEMMA DestroyUpDoes ==
    ASSUME NEW c \in Connection
    PROVE  LET d == DestroyUp(c)
           IN  /\ SameRequest(c, d) /\ d.open = c.open /\ d.lines = c.lines
               /\ d.up = IF c.up \in {"connecting", "open", "ended"} THEN "destroyed" ELSE c.up
BY DEF DestroyUp, Connection, SameRequest

LEMMA FinishDoes ==
    ASSUME NEW c \in Connection
    PROVE  LET d == Finish(c)
           IN  /\ SameRequest(c, d) /\ d.up = c.up /\ d.open = c.open
               /\ d.lines = IF c.granted /\ c.lines = 0 THEN 1 ELSE c.lines
BY DEF Finish, Connection, SameRequest

\* What is logged is in order whatever becomes of its sockets.
LEMMA FinishedOk ==
    ASSUME NEW c \in Connection, c.kind # "none", c.heard, c.granted <=> c.says, c.lines <= 1,
           c.up \in {"open", "ended"} => c.open, ~c.granted => c.lines = 1 /\ c.up = "none"
    PROVE  ConnectionOk(Finish(c))
<1> DEFINE d == Finish(c)
<1>1. /\ SameRequest(c, d) /\ d.up = c.up /\ d.open = c.open
      /\ d.lines = IF c.granted /\ c.lines = 0 THEN 1 ELSE c.lines
  BY FinishDoes
<1> HIDE DEF d
<1>2. ConnectionOk(d)
  BY <1>1 DEF ConnectionOk, SameRequest, Connection
<1>. QED  BY <1>2 DEF d

LEMMA ClientDoes ==
    ASSUME NEW c \in Connection, NEW v \in {"open", "answered", "ended", "destroyed", "closed"}
    PROVE  LET d == [c EXCEPT !.client = v]
           IN  SameRequest(c, d) /\ d.up = c.up /\ d.open = c.open /\ d.lines = c.lines
BY DEF Connection, SameRequest

LEMMA UpDoes ==
    ASSUME NEW c \in Connection, NEW v \in {"none", "connecting", "open", "ended", "destroyed", "closed"}
    PROVE  LET d == [c EXCEPT !.up = v]
           IN  SameRequest(c, d) /\ d.up = v /\ d.open = c.open /\ d.lines = c.lines
BY DEF Connection, SameRequest

\* A request begins with the verdict of the list in force.
LEMMA ArrivalOk ==
    ASSUME IInv, NEW kind \in {"connect", "http"}, NEW host \in Hosts, Arrive(kind, host)
    PROVE  ConnectionOk(conn')
<1> DEFINE granted == Decide(allow, host)
           says == Says(source, host)
           asked == [kind |-> kind, client |-> "open",
                     up |-> IF granted THEN "connecting" ELSE "none", granted |-> granted,
                     says |-> says, open |-> FALSE,
                     heard |-> ListensFrom(granted), lines |-> IF granted THEN 0 ELSE 1]
<1>1. granted <=> says
  <2>1. source \in SUBSET AnyLine /\ ParseAllowlist(source) # Refused /\ allow = ParseAllowlist(source)
    BY EgressAssumption DEF IInv, ListKnown, Arrive, Working
  <2>2. host \in AnyHost
    BY EgressAssumption
  <2>. QED  BY <2>1, <2>2, VerdictIsWhatTheFileSays
<1>2. granted \in BOOLEAN /\ says \in BOOLEAN
  BY DEF Decide, Says
<1>3. conn' = IF granted THEN asked ELSE Deny(asked)
  BY DEF Arrive
<1> HIDE DEF granted, says
<1>4. ConnectionOk(asked) /\ (~granted => ConnectionOk(Deny(asked)))
  <2>1. asked \in Connection
    BY <1>2 DEF Connection, ListensFrom
  <2>2. SameRequest(asked, Deny(asked)) /\ Deny(asked).up = asked.up /\ Deny(asked).lines = asked.lines
        /\ Deny(asked).open = asked.open
    BY <2>1, DenyDoes
  <2>3. ConnectionOk(asked)
    BY <1>1, <1>2, <2>1 DEF ConnectionOk, ListensFrom
  <2>. QED  BY <2>2, <2>3 DEF ConnectionOk, SameRequest
<1>. QED  BY <1>3, <1>4

LEMMA SocketsOk ==
    ASSUME ConnectionOk(conn), SocketStep
    PROVE  ConnectionOk(conn')
<1>0. conn.kind # "none" /\ conn \in Connection
  BY DEF SocketStep, UpstreamCloses, ClientCloses, ConnectionOk, Idle
<1>1. CASE UpstreamCloses
  <2> DEFINE closed == [conn EXCEPT !.up = "closed"]
             gone == DestroyClient(closed)
  <2>1. SameRequest(conn, closed) /\ closed.up = "closed" /\ closed.open = conn.open /\ closed.lines = conn.lines
    BY <1>0, UpDoes
  <2>2. conn.up = "destroyed"
        /\ conn' = IF conn.kind = "http" THEN Finish(closed)
                   ELSE IF conn.open THEN Finish(gone) ELSE closed
    BY <1>1 DEF UpstreamCloses, Step
  <2> HIDE DEF closed
  <2>3. SameRequest(closed, gone) /\ gone.up = closed.up /\ gone.open = closed.open /\ gone.lines = closed.lines
    BY <2>1, DestroyClientDoes DEF SameRequest
  <2> HIDE DEF gone
  <2>4. ConnectionOk(Finish(closed))
    BY <1>0, <2>1, <2>2, FinishedOk DEF ConnectionOk, SameRequest
  <2>5. ConnectionOk(Finish(gone))
    BY <1>0, <2>1, <2>2, <2>3, FinishedOk DEF ConnectionOk, SameRequest
  <2>6. conn.kind # "http" /\ ~conn.open => ConnectionOk(closed)
    BY <1>0, <2>1, <2>2 DEF ConnectionOk, SameRequest, Connection
  <2>. QED  BY <2>2, <2>4, <2>5, <2>6
<1>2. CASE ClientCloses
  <2> DEFINE closed == [conn EXCEPT !.client = "closed"]
             gone == DestroyUp(closed)
  <2>1. SameRequest(conn, closed) /\ closed.up = conn.up /\ closed.open = conn.open /\ closed.lines = conn.lines
    BY <1>0, ClientDoes
  <2>2. conn' = IF conn.kind = "connect" /\ conn.open THEN Finish(gone) ELSE closed
    BY <1>2 DEF ClientCloses, Step
  <2> HIDE DEF closed
  <2>3. /\ SameRequest(closed, gone) /\ gone.open = closed.open /\ gone.lines = closed.lines
        /\ gone.up = IF closed.up \in {"connecting", "open", "ended"} THEN "destroyed" ELSE closed.up
    BY <2>1, DestroyUpDoes DEF SameRequest
  <2> HIDE DEF gone
  <2>4. ConnectionOk(Finish(gone))
    BY <1>0, <2>1, <2>3, FinishedOk DEF ConnectionOk, SameRequest
  <2>5. ConnectionOk(closed)
    BY <1>0, <2>1 DEF ConnectionOk, SameRequest
  <2>. QED  BY <2>2, <2>4, <2>5
<1>. QED  BY <1>1, <1>2 DEF SocketStep

LEMMA PeersOk ==
    ASSUME ConnectionOk(conn), PeerStep
    PROVE  ConnectionOk(conn') /\ UNCHANGED <<outside, box, ids, process, caller, left>>
<1>0. conn.kind # "none" /\ conn.heard /\ conn \in Connection
  BY DEF PeerStep, Connected, ConnectFails, UpstreamBreaks, UpstreamEnds, ClientBreaks, ClientEnds,
         ConnectionOk, Idle
<1>s. UNCHANGED <<outside, box, ids, process, caller, left>>
  BY <1>0 DEF PeerStep, Connected, ConnectFails, UpstreamBreaks, UpstreamEnds, ClientBreaks,
              ClientEnds, Step
<1>1. CASE Connected
  <2>1. PICK v \in {"ended", "open"} : conn' = [conn EXCEPT !.up = v, !.open = TRUE]
    BY <1>1 DEF Connected, Step
  <2>2. /\ SameRequest(conn, conn') /\ conn'.up = v /\ conn'.open = TRUE /\ conn'.lines = conn.lines
    BY <1>0, <2>1 DEF Connection, SameRequest
  <2>. QED  BY <1>0, <1>s, <1>1, <2>2 DEF Connected, ConnectionOk, SameRequest
<1>2. CASE ConnectFails
  <2> DEFINE closed == [conn EXCEPT !.up = "closed"]
             denied == Deny(closed)
  <2>1. SameRequest(conn, closed) /\ closed.up = "closed" /\ closed.open = conn.open /\ closed.lines = conn.lines
    BY <1>0, UpDoes
  <2>2. conn.up = "connecting" /\ conn' = Finish(denied)
    BY <1>2 DEF ConnectFails, Step
  <2> HIDE DEF closed
  <2>3. SameRequest(closed, denied) /\ denied.up = closed.up /\ denied.open = closed.open /\ denied.lines = closed.lines
    BY <2>1, DenyDoes DEF SameRequest
  <2> HIDE DEF denied
  <2>4. ConnectionOk(Finish(denied))
    BY <1>0, <2>1, <2>2, <2>3, FinishedOk DEF ConnectionOk, SameRequest
  <2>. QED  BY <1>s, <2>2, <2>4
<1>3. CASE UpstreamBreaks
  <2> DEFINE cut == [conn EXCEPT !.up = "destroyed"]
             gone == DestroyClient(cut)
  <2>1. SameRequest(conn, cut) /\ cut.up = "destroyed" /\ cut.open = conn.open /\ cut.lines = conn.lines
    BY <1>0, UpDoes
  <2>2. conn.up \in {"open", "ended"} /\ conn' = Finish(gone)
    BY <1>3 DEF UpstreamBreaks, Step
  <2> HIDE DEF cut
  <2>3. SameRequest(cut, gone) /\ gone.up = cut.up /\ gone.open = cut.open /\ gone.lines = cut.lines
    BY <2>1, DestroyClientDoes DEF SameRequest
  <2> HIDE DEF gone
  <2>4. ConnectionOk(Finish(gone))
    BY <1>0, <2>1, <2>2, <2>3, FinishedOk DEF ConnectionOk, SameRequest
  <2>. QED  BY <1>s, <2>2, <2>4
<1>4. CASE UpstreamEnds
  <2> DEFINE cut == [conn EXCEPT !.up = "destroyed"]
             ended == Deny(cut)
  <2>1. SameRequest(conn, cut) /\ cut.up = "destroyed" /\ cut.open = conn.open /\ cut.lines = conn.lines
    BY <1>0, UpDoes
  <2>2. conn.up \in {"open", "ended"} /\ conn' = IF conn.kind = "http" THEN Finish(ended) ELSE ended
    BY <1>4 DEF UpstreamEnds, Step
  <2> HIDE DEF cut
  <2>3. SameRequest(cut, ended) /\ ended.up = cut.up /\ ended.open = cut.open /\ ended.lines = cut.lines
    BY <2>1, DenyDoes DEF SameRequest
  <2> HIDE DEF ended
  <2>4. ConnectionOk(Finish(ended))
    BY <1>0, <2>1, <2>2, <2>3, FinishedOk DEF ConnectionOk, SameRequest
  <2>5. ConnectionOk(ended)
    BY <1>0, <2>1, <2>2, <2>3 DEF ConnectionOk, SameRequest
  <2>. QED  BY <1>s, <2>2, <2>4, <2>5
<1>5. CASE ClientBreaks
  <2> DEFINE reset == [conn EXCEPT !.client = "destroyed"]
             broken == DestroyUp(reset)
  <2>1. SameRequest(conn, reset) /\ reset.up = conn.up /\ reset.open = conn.open /\ reset.lines = conn.lines
    BY <1>0, ClientDoes
  <2>2. conn' = IF conn.kind = "connect" THEN Finish(broken) ELSE broken
    BY <1>0, <1>5 DEF ClientBreaks, Step
  <2> HIDE DEF reset
  <2>3. /\ SameRequest(reset, broken) /\ broken.open = reset.open /\ broken.lines = reset.lines
        /\ broken.up = IF reset.up \in {"connecting", "open", "ended"} THEN "destroyed" ELSE reset.up
    BY <2>1, DestroyUpDoes DEF SameRequest
  <2> HIDE DEF broken
  <2>4. ConnectionOk(Finish(broken))
    BY <1>0, <2>1, <2>3, FinishedOk DEF ConnectionOk, SameRequest
  <2>5. conn.kind # "connect" => ConnectionOk(broken)
    BY <1>0, <2>1, <2>3 DEF ConnectionOk, SameRequest
  <2>. QED  BY <1>s, <2>2, <2>4, <2>5
<1>6. CASE ClientEnds
  <2> DEFINE closed == [conn EXCEPT !.client = "destroyed"]
             gone == DestroyUp(closed)
             half == [conn EXCEPT !.client = "ended", !.up = IF @ = "open" THEN "ended" ELSE @]
  <2>1. SameRequest(conn, closed) /\ closed.up = conn.up /\ closed.open = conn.open /\ closed.lines = conn.lines
    BY <1>0, ClientDoes
  <2>2. \/ conn' = closed
        \/ conn.kind = "http" /\ conn' = gone
        \/ conn' = half
    BY <1>6 DEF ClientEnds, Step
  <2>3. /\ SameRequest(conn, half) /\ half.open = conn.open /\ half.lines = conn.lines
        /\ half.up = IF conn.up = "open" THEN "ended" ELSE conn.up
    BY <1>0 DEF Connection, SameRequest
  <2> HIDE DEF closed, half
  <2>4. /\ SameRequest(closed, gone) /\ gone.open = closed.open /\ gone.lines = closed.lines
        /\ gone.up = IF closed.up \in {"connecting", "open", "ended"} THEN "destroyed" ELSE closed.up
    BY <2>1, DestroyUpDoes DEF SameRequest
  <2> HIDE DEF gone
  <2>5. ConnectionOk(closed) /\ ConnectionOk(half) /\ (conn.kind = "http" => ConnectionOk(gone))
    BY <1>0, <2>1, <2>3, <2>4 DEF ConnectionOk, SameRequest
  <2>. QED  BY <1>s, <2>2, <2>5
<1>. QED  BY <1>1, <1>2, <1>3, <1>4, <1>5, <1>6 DEF PeerStep

-----------------------------------------------------------------------------
(* The process and the callers. *)

\* Once the process is gone, there is nothing to know.
LEMMA DyingKeeps ==
    ASSUME FilesKnown', proc' = "off", conn' = Idle
    PROVE  IInv'
BY IdleOk DEF IInv, ListKnown, Working

LEMMA QuietKeeps ==
    ASSUME IInv, FilesKnown', UNCHANGED <<process, conn>>
    PROVE  IInv'
BY DEF IInv, ListKnown, Working, process, ConnectionOk, Connection

LEMMA ProcessKeeps ==
    ASSUME IInv, ProcessStep \/ Terminate \/ Exit
    PROVE  IInv'
<1>0. FilesKnown'
  BY DEF IInv, FilesKnown, ProcessStep, Load, Listen, HandleHup, Terminate, Exit, outside
<1>1. CASE Load
  <2>1. CASE Die
    BY <1>0, <2>1, DyingKeeps DEF Die
  <2>2. CASE ~(seen = Missing \/ ParseAllowlist(seen) = Refused)
    BY <1>0, <1>1, <2>2 DEF Load, IInv, FilesKnown, ListKnown, Working, Texts
  <2>. QED  BY <1>1, <2>1, <2>2 DEF Load
<1>2. CASE Listen
  BY <1>0, <1>2 DEF Listen, IInv, ListKnown, Working
<1>3. CASE HandleHup
  <2>1. CASE UNCHANGED <<allow, source>>
    BY <1>0, <1>3, <2>1 DEF HandleHup, IInv, ListKnown, Working
  <2>2. CASE ~(seen = Missing \/ ParseAllowlist(seen) = Refused)
    BY <1>0, <1>3, <2>2 DEF HandleHup, Reload, IInv, FilesKnown, ListKnown, Working, Texts
  <2>. QED  BY <1>3, <2>1, <2>2 DEF HandleHup, Reload
<1>4. CASE Terminate
  <2>1. CASE proc = "boot"
    BY <1>0, <1>4, <2>1, DyingKeeps DEF Terminate, Die
  <2>2. CASE proc # "boot"
    <3>1. ConnectionOk(conn')
      BY <1>4, <2>2 DEF Terminate, IInv, ConnectionOk, Connection, Idle
    <3>2. ListKnown'
      BY <1>4, <2>2 DEF Terminate, IInv, ListKnown, Working
    <3>. QED  BY <1>0, <3>1, <3>2 DEF IInv, ConnectionOk
  <2>. QED  BY <2>1, <2>2
<1>5. CASE Exit
  BY <1>0, <1>5, DyingKeeps DEF Exit, Die
<1>. QED  BY <1>1, <1>2, <1>3, <1>4, <1>5 DEF ProcessStep

LEMMA CallersKeep ==
    ASSUME IInv, NEW c \in Callers, CallStep(c) \/ \E op \in {"ensure", "reload", "stop"} : Call(c, op)
    PROVE  IInv'
<1>1. CASE StartContainer(c)
  <2>1. FilesKnown'
    BY <1>1 DEF StartContainer, IInv, FilesKnown
  <2>2. CASE UNCHANGED proc
    BY <1>1, <2>1, <2>2, QuietKeeps DEF StartContainer, process
  <2>3. CASE proc' = "boot"
    BY <1>1, <2>1, <2>3 DEF StartContainer, IInv, ListKnown, Working
  <2>. QED  BY <1>1, <2>2, <2>3 DEF StartContainer
<1>2. CASE RemoveContainer(c) \/ KillHup(c)
  <2>1. FilesKnown'
    BY <1>2 DEF RemoveContainer, KillHup, IInv, FilesKnown, outside
  <2>2. CASE proc' = "off" /\ conn' = Idle
    BY <2>1, <2>2, DyingKeeps
  <2>3. CASE UNCHANGED <<proc, allow, source, conn>>
    BY <2>1, <2>3 DEF IInv, ListKnown, Working
  <2>. QED  BY <1>2, <2>2, <2>3 DEF RemoveContainer, KillHup, Die, process
<1>3. CASE \/ Inspect(c) \/ CreateContainer(c) \/ WaitUntilRunning(c) \/ CallFails(c)
           \/ \E op \in {"ensure", "reload", "stop"} : Call(c, op)
  <2>1. UNCHANGED <<file, seen, process, conn>>
    BY <1>3 DEF Inspect, CreateContainer, WaitUntilRunning, CallFails, Call, outside
  <2>2. FilesKnown'
    BY <2>1 DEF IInv, FilesKnown
  <2>. QED  BY <2>1, <2>2, QuietKeeps
<1>. QED  BY <1>1, <1>2, <1>3 DEF CallStep

LEMMA Start == Init => IInv
<1> SUFFICES ASSUME Init PROVE IInv
  OBVIOUS
<1>1. FilesKnown
  BY EgressAssumption DEF Init, FilesKnown, Texts
<1>2. ListKnown
  BY DEF Init, ListKnown, Working
<1>3. conn = Idle
  BY DEF Init
<1>. QED  BY <1>1, <1>2, <1>3, IdleOk DEF IInv

LEMMA StepKeeps == ASSUME IInv, Next PROVE IInv'
<1>1. CASE ProcessStep \/ Terminate \/ Exit
  BY <1>1, ProcessKeeps
<1>2. CASE SocketStep \/ PeerStep
  <2>1. ConnectionOk(conn')
    BY <1>2, SocketsOk, PeersOk DEF IInv
  <2>2. UNCHANGED <<outside, process>>
    BY <1>2, PeersOk DEF IInv, SocketStep, UpstreamCloses, ClientCloses, Step
  <2>. QED  BY <2>1, <2>2 DEF IInv, FilesKnown, ListKnown, Working, outside, process, ConnectionOk
<1>3. ASSUME NEW kind \in {"connect", "http"}, NEW host \in Hosts, Arrive(kind, host)
      PROVE  IInv'
  <2>1. ConnectionOk(conn')
    BY <1>3, ArrivalOk
  <2>2. UNCHANGED <<outside, process>>
    BY <1>3 DEF Arrive
  <2>. QED  BY <2>1, <2>2 DEF IInv, FilesKnown, ListKnown, Working, outside, process, ConnectionOk
<1>4. ASSUME NEW c \in Callers, CallStep(c) \/ \E op \in {"ensure", "reload", "stop"} : Call(c, op)
      PROVE  IInv'
  BY <1>4, CallersKeep
<1>5. CASE Edit \/ Propagate \/ Build
  <2>1. FilesKnown'
    BY <1>5 DEF Edit, Propagate, Build, IInv, FilesKnown, Texts
  <2>. QED  BY <1>5, <2>1, QuietKeeps DEF Edit, Propagate, Build
<1>. QED  BY <1>1, <1>2, <1>3, <1>4, <1>5 DEF Next

LEMMA Inductive == Spec => []IInv
<1>1. IInv /\ [Next]_vars => IInv'
  <2>1. ASSUME IInv, UNCHANGED vars PROVE IInv'
    BY <2>1, QuietKeeps DEF vars, outside, IInv, FilesKnown
  <2>. QED  BY <2>1, StepKeeps
<1>. QED  BY Start, <1>1, PTL DEF Spec

-----------------------------------------------------------------------------
(* The theorems. *)

\* Every request is judged by one whole list, as the file it was read from
\* says, and logged once (proxy.ts: handleConnect, handleRequest, reload), for
\* all files, hosts, callers and bounds.
THEOREM RequestsAreJudgedRightly == Spec => []RequestsAreJudged
<1>1. ASSUME IInv PROVE VerdictsAreRight
  BY <1>1 DEF IInv, ConnectionOk, VerdictsAreRight
<1>2. ASSUME IInv PROVE ListIsWhole
  BY <1>2, Accepted, EgressAssumption DEF IInv, ListKnown, ListIsWhole
<1>3. ASSUME IInv PROVE OneLinePerRequest
  BY <1>3 DEF IInv, ConnectionOk, Connection, OneLinePerRequest, Over, Idle
<1>4. IInv => RequestsAreJudged
  BY <1>1, <1>2, <1>3 DEF RequestsAreJudged
<1>. QED  BY Inductive, <1>4, PTL

-----------------------------------------------------------------------------
(* The callers.  A call that is still calm is the only one under way, so the *)
(* container it has seen or made can only lose its process; and the process  *)
(* of one it has confirmed ends by a signal, which disturbs the call, unless *)
(* it had not read its list yet, which makes it slow.                        *)

Box == [id : Nat, ours : BOOLEAN, image : Nat, status : {"created", "running", "exited"}]

Caller ==
    [op : {"none", "ensure", "reload", "stop"},
     pc : {"idle", "inspect", "remove", "create", "start", "wait", "confirm", "kill", "ok"},
     image : Nat, id : Nat, calm : BOOLEAN, slow : BOOLEAN]

BoxOk == box \subseteq Box /\ \A a, b \in box : a = b

\* The container of the call is ours and of the image it resolved.
Has(c) == \E b \in box : b.id = caller[c].id /\ b.ours /\ b.image = caller[c].image

CalmOk(c) ==
    caller[c].calm =>
        /\ caller[c].op = "ensure"
        /\ \A d \in Callers \ {c} : ~Calling(d)
        /\ caller[c].pc \in {"start", "wait", "confirm", "ok"} => Has(c)
        /\ AtPc(c, "ok") /\ ~caller[c].slow => Running(caller[c].id) /\ proc # "boot"

CInv ==
    /\ image \in Nat /\ ids \in Nat
    /\ BoxOk
    /\ caller \in [Callers -> Caller]
    /\ \A c \in Callers : CalmOk(c)

\* A change of its status leaves a container what it is.
LEMMA StatusKeeps ==
    ASSUME BoxOk, NEW status \in {"created", "running", "exited"},
           box' = {[b EXCEPT !.status = status] : b \in box}
    PROVE  /\ BoxOk'
           /\ \A b \in box : \E d \in box' :
                 d.id = b.id /\ d.ours = b.ours /\ d.image = b.image /\ d.status = status
<1>1. \A b \in box : LET d == [b EXCEPT !.status = status]
                     IN  /\ d \in Box /\ d.id = b.id /\ d.ours = b.ours /\ d.image = b.image
                         /\ d.status = status
  BY DEF BoxOk, Box
<1>2. BoxOk'
  BY <1>1 DEF BoxOk
<1>3. \A b \in box : [b EXCEPT !.status = status] \in box'
  OBVIOUS
<1>. QED  BY <1>1, <1>2, <1>3

\* A step without a caller, in which no process begins to read its list.
LEMMA CallersWatch ==
    ASSUME CInv, UNCHANGED <<ids, caller>>, image' \in Nat,
           \/ UNCHANGED box /\ (proc' = "boot" => proc = "boot")
           \/ proc = "boot" /\ box' = {[b EXCEPT !.status = "exited"] : b \in box}
    PROVE  CInv'
<1>1. CASE UNCHANGED box /\ (proc' = "boot" => proc = "boot")
  BY <1>1 DEF CInv, BoxOk, CalmOk, Has, Calling, AtPc, Running
<1>2. CASE proc = "boot" /\ box' = {[b EXCEPT !.status = "exited"] : b \in box}
  <2>1. BoxOk' /\ \A b \in box : \E d \in box' : d.id = b.id /\ d.ours = b.ours /\ d.image = b.image
    BY <1>2, StatusKeeps DEF CInv
  <2>2. ASSUME NEW c \in Callers PROVE CalmOk(c)'
    <3>1. Has(c) => Has(c)'
      BY <2>1 DEF Has
    <3>. QED  BY <1>2, <3>1 DEF CInv, CalmOk, Calling, AtPc
  <2>. QED  BY <2>1, <2>2 DEF CInv
<1>. QED  BY <1>1, <1>2

\* A step that disturbs every call.
LEMMA Disturbed ==
    ASSUME CInv, Disturb, UNCHANGED <<ids, image>>, BoxOk'
    PROVE  CInv'
<1>1. \A c \in Callers : caller'[c] = [caller[c] EXCEPT !.calm = FALSE]
  BY DEF Disturb
<1>2. \A c \in Callers : caller'[c] \in Caller /\ caller'[c].calm = FALSE
  BY <1>1 DEF CInv, Caller
<1>3. caller' \in [Callers -> Caller]
  BY <1>2 DEF Disturb
<1>. QED  BY <1>2, <1>3 DEF CInv, CalmOk

\* A step of a call: no other call is calm, as this one is under way.
LEMMA OneCalls ==
    ASSUME CInv, NEW c \in Callers, Calling(c), NEW next \in Caller,
           caller' = [caller EXCEPT ![c] = next],
           BoxOk', image' = image, ids' \in Nat,
           next.calm => caller[c].calm /\ next.op = caller[c].op,
           next.calm /\ next.pc \in {"start", "wait", "confirm", "ok"} =>
               \E b \in box' : b.id = next.id /\ b.ours /\ b.image = next.image,
           next.calm /\ next.pc = "ok" /\ ~next.slow =>
               (\E b \in box' : b.id = next.id /\ b.status = "running") /\ proc' # "boot"
    PROVE  CInv'
<1>1. caller' \in [Callers -> Caller] /\ caller'[c] = next
  BY DEF CInv
<1>2. \A d \in Callers \ {c} : caller'[d] = caller[d] /\ ~caller'[d].calm
  BY DEF CInv, CalmOk
<1>3. CalmOk(c)'
  BY <1>1, <1>2 DEF CInv, CalmOk, Calling, Has, AtPc, Running
<1>4. \A d \in Callers \ {c} : CalmOk(d)'
  BY <1>2 DEF CalmOk
<1>. QED  BY <1>1, <1>3, <1>4 DEF CInv

\* A call that returns without a word.
LEMMA Returning ==
    ASSUME CInv, NEW c \in Callers, Calling(c), caller' = Return(c),
           BoxOk', image' = image, ids' \in Nat
    PROVE  CInv'
<1>1. IdleCaller \in Caller /\ ~IdleCaller.calm
  BY DEF IdleCaller, Caller
<1>2. caller' = [caller EXCEPT ![c] = IdleCaller]
  BY DEF Return
<1>. QED  BY <1>1, <1>2, OneCalls

LEMMA InspectKeeps ==
    ASSUME CInv, NEW c \in Callers, Inspect(c)
    PROVE  CInv'
<1>0. /\ Calling(c) /\ caller[c] \in Caller /\ caller[c].pc = "inspect"
      /\ UNCHANGED <<box, ids, image, proc>> /\ BoxOk'
  BY DEF Inspect, CInv, Calling, AtPc, outside, process, BoxOk
<1>1. CASE caller' = Return(c)
  BY <1>0, <1>1, Returning DEF CInv
<1>2. CASE caller' = Move(c, "create")
  <2> DEFINE next == [caller[c] EXCEPT !.pc = "create"]
  <2>1. next \in Caller /\ next.pc = "create" /\ next.calm = caller[c].calm /\ next.op = caller[c].op
    BY <1>0 DEF Caller
  <2>2. caller' = [caller EXCEPT ![c] = next]
    BY <1>2 DEF Move
  <2> HIDE DEF next
  <2>. QED  BY <1>0, <2>1, <2>2, OneCalls DEF CInv
<1>3. ASSUME NEW b \in box, b.ours, NEW to,
             to = IF caller[c].op = "reload" THEN "kill"
                  ELSE IF caller[c].op = "stop" \/ ~MatchesDesired(b, caller[c].image) THEN "remove"
                  ELSE IF b.status = "running" THEN "ok" ELSE "start",
             caller' = [caller EXCEPT ![c].pc = to, ![c].id = b.id, ![c].slow = proc = "boot"]
      PROVE  CInv'
  <2> DEFINE slow == proc = "boot"
             next == [caller[c] EXCEPT !.pc = to, !.id = b.id, !.slow = slow]
  <2>0. slow \in BOOLEAN
    OBVIOUS
  <2>1. caller' = [caller EXCEPT ![c] = next]
    BY <1>3
  <2> HIDE DEF slow
  <2>2. /\ next \in Caller /\ next.pc = to /\ next.id = b.id /\ next.slow = slow
        /\ next.calm = caller[c].calm /\ next.op = caller[c].op /\ next.image = caller[c].image
    BY <1>0, <1>3, <2>0 DEF Caller, CInv, BoxOk, Box
  <2> HIDE DEF next
  <2>3. next.calm => caller[c].op = "ensure"
    BY <1>0, <2>2 DEF CInv, CalmOk
  <2>4. next.calm /\ next.pc \in {"start", "wait", "confirm", "ok"} =>
          \E d \in box' : d.id = next.id /\ d.ours /\ d.image = next.image
    BY <1>0, <1>3, <2>2, <2>3 DEF MatchesDesired
  <2>5. next.calm /\ next.pc = "ok" /\ ~next.slow =>
          (\E d \in box' : d.id = next.id /\ d.status = "running") /\ proc' # "boot"
    BY <1>0, <1>3, <2>2, <2>3 DEF slow
  <2>. QED  BY <1>0, <2>1, <2>2, <2>4, <2>5, OneCalls DEF CInv
<1>. QED  BY <1>1, <1>2, <1>3 DEF Inspect

LEMMA RemoveKeeps ==
    ASSUME CInv, NEW c \in Callers, RemoveContainer(c)
    PROVE  CInv'
<1>0. /\ Calling(c) /\ caller[c] \in Caller /\ UNCHANGED <<ids, image>> /\ BoxOk'
  BY DEF RemoveContainer, CInv, Calling, AtPc, outside, BoxOk
<1>1. CASE caller' = Return(c)
  BY <1>0, <1>1, Returning DEF CInv
<1>2. CASE caller' = Move(c, "create")
  <2> DEFINE next == [caller[c] EXCEPT !.pc = "create"]
  <2>1. next \in Caller /\ next.pc = "create" /\ next.calm = caller[c].calm /\ next.op = caller[c].op
    BY <1>0 DEF Caller
  <2>2. caller' = [caller EXCEPT ![c] = next]
    BY <1>2 DEF Move
  <2> HIDE DEF next
  <2>. QED  BY <1>0, <2>1, <2>2, OneCalls DEF CInv
<1>. QED  BY <1>1, <1>2 DEF RemoveContainer

LEMMA CreateKeeps ==
    ASSUME CInv, NEW c \in Callers, CreateContainer(c)
    PROVE  CInv'
<1>0. Calling(c) /\ caller[c] \in Caller /\ image' = image
  BY DEF CreateContainer, CInv, Calling, AtPc, outside
<1>1. CASE box # {}
  BY <1>0, <1>1, Returning DEF CreateContainer, CInv, BoxOk
<1>2. CASE box = {}
  <2> DEFINE next == [caller[c] EXCEPT !.pc = "start", !.id = ids']
             made == [id |-> ids', ours |-> TRUE, image |-> caller[c].image, status |-> "created"]
  <2>1. ids' \in Nat
    BY <1>2 DEF CreateContainer, CInv
  <2>2. /\ next \in Caller /\ next.pc = "start" /\ next.id = ids'
        /\ next.calm = caller[c].calm /\ next.op = caller[c].op /\ next.image = caller[c].image
    BY <1>0, <2>1 DEF Caller
  <2>3. caller' = [caller EXCEPT ![c] = next] /\ box' = {made}
    BY <1>2 DEF CreateContainer
  <2>4. made \in Box /\ made.id = ids' /\ made.ours /\ made.image = caller[c].image
    BY <1>0, <2>1 DEF Box, Caller
  <2> HIDE DEF next, made
  <2>5. BoxOk'
    BY <2>3, <2>4 DEF BoxOk
  <2>6. \E b \in box' : b.id = next.id /\ b.ours /\ b.image = next.image
    BY <2>2, <2>3, <2>4
  <2>. QED  BY <1>0, <2>1, <2>2, <2>3, <2>5, <2>6, OneCalls
<1>. QED  BY <1>1, <1>2

LEMMA StartKeeps ==
    ASSUME CInv, NEW c \in Callers, StartContainer(c)
    PROVE  CInv'
<1>0. Calling(c) /\ caller[c] \in Caller /\ caller[c].pc = "start" /\ UNCHANGED <<image, ids>>
  BY DEF StartContainer, CInv, Calling, AtPc
<1> DEFINE next == [caller[c] EXCEPT !.pc = "wait"]
<1>1. /\ next \in Caller /\ next.pc = "wait" /\ next.id = caller[c].id
      /\ next.calm = caller[c].calm /\ next.op = caller[c].op /\ next.image = caller[c].image
  BY <1>0 DEF Caller
<1>2. caller' = [caller EXCEPT ![c] = next]
  BY DEF StartContainer, Move
<1>3. BoxOk' /\ \A b \in box : \E d \in box' : d.id = b.id /\ d.ours = b.ours /\ d.image = b.image
  <2>1. CASE UNCHANGED box
    BY <2>1 DEF CInv, BoxOk
  <2>2. CASE box' = {[b EXCEPT !.status = "running"] : b \in box}
    BY <2>2, StatusKeeps DEF CInv
  <2>. QED  BY <2>1, <2>2 DEF StartContainer
<1> HIDE DEF next
<1>4. caller[c].calm => Has(c)
  BY <1>0 DEF CInv, CalmOk
<1>5. next.calm => \E b \in box' : b.id = next.id /\ b.ours /\ b.image = next.image
  BY <1>1, <1>3, <1>4 DEF Has
<1>. QED  BY <1>0, <1>1, <1>2, <1>3, <1>5, OneCalls DEF CInv

LEMMA WaitKeeps ==
    ASSUME CInv, NEW c \in Callers, WaitUntilRunning(c)
    PROVE  CInv'
<1>0. /\ Calling(c) /\ caller[c] \in Caller /\ caller[c].pc \in {"wait", "confirm"}
      /\ UNCHANGED <<box, ids, image, proc>> /\ BoxOk'
  BY DEF WaitUntilRunning, CInv, Calling, AtPc, outside, process, BoxOk
<1>1. CASE caller' = Return(c)
  BY <1>0, <1>1, Returning DEF CInv
<1>2. caller[c].calm => Has(c)
  BY <1>0 DEF CInv, CalmOk
<1>3. CASE caller' = Move(c, "confirm")
  <2> DEFINE next == [caller[c] EXCEPT !.pc = "confirm"]
  <2>1. /\ next \in Caller /\ next.pc = "confirm" /\ next.id = caller[c].id
        /\ next.calm = caller[c].calm /\ next.op = caller[c].op /\ next.image = caller[c].image
    BY <1>0 DEF Caller
  <2>2. caller' = [caller EXCEPT ![c] = next]
    BY <1>3 DEF Move
  <2> HIDE DEF next
  <2>3. next.calm => \E b \in box' : b.id = next.id /\ b.ours /\ b.image = next.image
    BY <1>0, <1>2, <2>1 DEF Has
  <2>. QED  BY <1>0, <2>1, <2>2, <2>3, OneCalls DEF CInv
<1>4. CASE Confirms(c) /\ caller' = [caller EXCEPT ![c].pc = "ok", ![c].slow = proc = "boot"]
  <2> DEFINE slow == proc = "boot"
             next == [caller[c] EXCEPT !.pc = "ok", !.slow = slow]
  <2>0. slow \in BOOLEAN
    OBVIOUS
  <2>1. caller' = [caller EXCEPT ![c] = next]
    BY <1>4
  <2> HIDE DEF slow
  <2>2. /\ next \in Caller /\ next.pc = "ok" /\ next.id = caller[c].id /\ next.slow = slow
        /\ next.calm = caller[c].calm /\ next.op = caller[c].op /\ next.image = caller[c].image
    BY <1>0, <2>0 DEF Caller
  <2> HIDE DEF next
  <2>3. next.calm => \E b \in box' : b.id = next.id /\ b.ours /\ b.image = next.image
    BY <1>0, <1>2, <2>2 DEF Has
  <2>4. ~next.slow => (\E b \in box' : b.id = next.id /\ b.status = "running") /\ proc' # "boot"
    BY <1>0, <1>4, <2>2 DEF Confirms, Running, slow
  <2>. QED  BY <1>0, <2>1, <2>2, <2>3, <2>4, OneCalls DEF CInv
<1>. QED  BY <1>1, <1>3, <1>4 DEF WaitUntilRunning

LEMMA KillKeeps ==
    ASSUME CInv, NEW c \in Callers, KillHup(c)
    PROVE  CInv'
<1>0. Calling(c) /\ UNCHANGED <<image, ids>>
  BY DEF KillHup, Calling, AtPc, outside
<1>1. CASE ~Running(caller[c].id)
  BY <1>0, <1>1, Returning DEF KillHup, CInv, BoxOk
<1>2. CASE Running(caller[c].id)
  <2>1. BoxOk'
    <3>1. CASE UNCHANGED box
      BY <3>1 DEF CInv, BoxOk
    <3>2. CASE box' = {[b EXCEPT !.status = "exited"] : b \in box}
      BY <3>2, StatusKeeps DEF CInv
    <3>. QED  BY <1>2, <3>1, <3>2 DEF KillHup, Die
  <2> DEFINE heard == proc \in {"up", "closing"}
  <2>2. \A d \in Callers \ {c} : caller'[d] = [caller[d] EXCEPT !.calm = @ /\ heard]
    BY <1>2 DEF KillHup
  <2>3. \A d \in Callers \ {c} : caller[d] \in Caller /\ caller[d].calm = FALSE
    BY <1>0 DEF CInv, CalmOk, Caller
  <2>4. \A d \in Callers \ {c} : caller'[d] \in Caller /\ ~caller'[d].calm
    <3> SUFFICES ASSUME NEW d \in Callers \ {c} PROVE caller'[d] \in Caller /\ ~caller'[d].calm
      OBVIOUS
    <3>1. caller'[d] = [caller[d] EXCEPT !.calm = caller[d].calm /\ heard]
      BY <2>2
    <3>2. (caller[d].calm /\ heard) = FALSE
      BY <2>3
    <3>. QED  BY <2>3, <3>1, <3>2 DEF Caller
  <2>5. caller'[c] = IdleCaller
    BY <1>2 DEF KillHup
  <2>6. IdleCaller \in Caller /\ ~IdleCaller.calm
    BY DEF IdleCaller, Caller
  <2>7. caller' = [d \in Callers |-> caller'[d]]
    BY <1>2 DEF KillHup
  <2>8. \A d \in Callers : caller'[d] \in Caller /\ ~caller'[d].calm
    BY <2>4, <2>5, <2>6
  <2>9. caller' \in [Callers -> Caller]
    BY <2>7, <2>8
  <2>10. \A d \in Callers : CalmOk(d)'
    BY <2>8 DEF CalmOk
  <2>. QED  BY <1>0, <2>1, <2>9, <2>10 DEF CInv
<1>. QED  BY <1>1, <1>2

LEMMA CallKeeps ==
    ASSUME CInv, NEW c \in Callers, NEW op \in {"ensure", "reload", "stop"}, Call(c, op)
    PROVE  CInv'
<1> DEFINE alone == \A d \in Callers \ {c} : ~Calling(d)
           calm == alone /\ op = "ensure"
           next == [op |-> op, pc |-> "inspect", image |-> LocalImage, id |-> 0,
                    calm |-> calm, slow |-> FALSE]
<1>0. UNCHANGED <<image, ids, box, proc>> /\ BoxOk'
  BY DEF Call, CInv, outside, process, BoxOk
<1>1. \A d \in Callers \ {c} : caller'[d] = [caller[d] EXCEPT !.calm = FALSE]
  BY DEF Call
<1>2. caller'[c] = IdleCaller \/ caller'[c] = next
  BY DEF Call
<1>3. caller' = [d \in Callers |-> caller'[d]]
  BY DEF Call
<1>4. calm \in BOOLEAN /\ (calm => alone /\ op = "ensure")
  OBVIOUS
<1> HIDE DEF calm
<1>5. next \in Caller /\ next.op = op /\ next.calm = calm /\ next.pc = "inspect"
  BY <1>4 DEF Caller, LocalImage, CInv
<1>6. IdleCaller \in Caller /\ ~IdleCaller.calm
  BY DEF IdleCaller, Caller
<1> HIDE DEF next
<1>7. \A d \in Callers \ {c} : /\ caller'[d] \in Caller /\ ~caller'[d].calm
                              /\ caller'[d].pc = caller[d].pc
  <2> SUFFICES ASSUME NEW d \in Callers \ {c}
               PROVE  caller'[d] \in Caller /\ ~caller'[d].calm /\ caller'[d].pc = caller[d].pc
    OBVIOUS
  <2>1. caller[d] \in Caller
    BY DEF CInv
  <2>. QED  BY <1>1, <2>1 DEF Caller
<1>8. caller' \in [Callers -> Caller]
  <2>1. \A d \in Callers : caller'[d] \in Caller
    BY <1>2, <1>5, <1>6, <1>7
  <2>. QED  BY <1>3, <2>1
<1>9. \A d \in Callers \ {c} : CalmOk(d)'
  BY <1>7 DEF CalmOk
<1>10. CalmOk(c)'
  <2>1. CASE caller'[c] = IdleCaller
    BY <1>6, <2>1 DEF CalmOk
  <2>2. CASE caller'[c] = next
    BY <1>4, <1>5, <1>7, <2>2 DEF CalmOk, Calling, AtPc
  <2>. QED  BY <1>2, <2>1, <2>2
<1>. QED  BY <1>0, <1>8, <1>9, <1>10 DEF CInv

LEMMA CallStart == Init => CInv
<1> SUFFICES ASSUME Init PROVE CInv
  OBVIOUS
<1>1. IdleCaller \in Caller /\ ~IdleCaller.calm
  BY DEF IdleCaller, Caller
<1>2. caller = [c \in Callers |-> IdleCaller]
  BY DEF Init
<1>3. BoxOk
  <2>1. CASE box = {}
    BY <2>1 DEF BoxOk
  <2>2. CASE box = {[id |-> 0, ours |-> FALSE, image |-> 0, status |-> "running"]}
    <3>1. [id |-> 0, ours |-> FALSE, image |-> 0, status |-> "running"] \in Box
      BY DEF Box
    <3>. QED  BY <2>2, <3>1 DEF BoxOk
  <2>3. CASE box = {[id |-> 0, ours |-> TRUE, image |-> 0, status |-> "exited"]}
    <3>1. [id |-> 0, ours |-> TRUE, image |-> 0, status |-> "exited"] \in Box
      BY DEF Box
    <3>. QED  BY <2>3, <3>1 DEF BoxOk
  <2>. QED  BY <2>1, <2>2, <2>3 DEF Init
<1>4. image \in Nat /\ ids \in Nat
  BY DEF Init
<1>. QED  BY <1>1, <1>2, <1>3, <1>4 DEF CInv, CalmOk

LEMMA CallStepKeeps == ASSUME CInv, IInv, Next PROVE CInv'
<1>1. CASE ProcessStep \/ SocketStep \/ Edit \/ Propagate \/ Build
  <2>1. UNCHANGED <<ids, caller>>
    BY <1>1 DEF ProcessStep, Load, Listen, HandleHup, SocketStep, UpstreamCloses, ClientCloses, Step,
                Edit, Propagate, Build
  <2>2. image' \in Nat
    BY <1>1 DEF ProcessStep, Load, Listen, HandleHup, SocketStep, UpstreamCloses, ClientCloses, Step,
                Edit, Propagate, Build, outside, CInv
  <2>3. \/ UNCHANGED box /\ (proc' = "boot" => proc = "boot")
        \/ proc = "boot" /\ box' = {[b EXCEPT !.status = "exited"] : b \in box}
    BY <1>1 DEF ProcessStep, Load, Listen, HandleHup, SocketStep, UpstreamCloses, ClientCloses, Step,
                Edit, Propagate, Build, Die, process
  <2>. QED  BY <2>1, <2>2, <2>3, CallersWatch
<1>2. CASE PeerStep
  <2>1. UNCHANGED <<outside, box, ids, process, caller, left>>
    BY <1>2, PeersOk DEF IInv
  <2>. QED  BY <2>1, CallersWatch DEF outside, process, CInv
<1>3. ASSUME NEW kind, NEW host, Arrive(kind, host) PROVE CInv'
  BY <1>3, CallersWatch DEF Arrive, outside, process, CInv
<1>4. CASE Terminate \/ Exit
  <2>1. Disturb /\ UNCHANGED <<ids, image>>
    BY <1>4 DEF Terminate, Exit, outside
  <2>2. UNCHANGED box \/ box' = {[b EXCEPT !.status = "exited"] : b \in box}
    BY <1>4 DEF Terminate, Exit, Die
  <2>3. BoxOk'
    BY <2>2, StatusKeeps DEF CInv, BoxOk
  <2>. QED  BY <2>1, <2>3, Disturbed
<1>5. ASSUME NEW c \in Callers, CallStep(c) PROVE CInv'
  <2>1. CASE CallFails(c)
    BY <2>1, Returning DEF CallFails, CInv, BoxOk, outside
  <2>. QED  BY <1>5, <2>1, InspectKeeps, RemoveKeeps, CreateKeeps, StartKeeps, WaitKeeps, KillKeeps
            DEF CallStep
<1>6. ASSUME NEW c \in Callers, NEW op \in {"ensure", "reload", "stop"}, Call(c, op) PROVE CInv'
  BY <1>6, CallKeeps
<1>. QED  BY <1>1, <1>2, <1>3, <1>4, <1>5, <1>6 DEF Next

LEMMA CallInductive == Spec => []CInv
<1>1. IInv /\ CInv /\ [Next]_vars => CInv'
  <2>1. ASSUME CInv, UNCHANGED vars PROVE CInv'
    BY <2>1, CallersWatch DEF vars, outside, process, CInv
  <2>. QED  BY <2>1, CallStepKeeps
<1>. QED  BY CallStart, Inductive, <1>1, PTL DEF Spec

\* An ensureRunning that no other call and no signal disturbed leaves a running
\* container of ours with the image it resolved, or has looked at it while it
\* was still to read its list (provider/egress-proxy.ts: ensureRunning).
THEOREM EnsuredContainerRuns == Spec => []EnsuredRuns
<1>1. CInv => EnsuredRuns
  <2> SUFFICES ASSUME CInv, NEW c \in Callers, caller[c].op = "ensure", AtPc(c, "ok"), caller[c].calm
               PROVE  \E b \in box : b.id = caller[c].id /\ b.ours /\ b.image = caller[c].image
                                     /\ (b.status = "running" \/ caller[c].slow)
    BY DEF EnsuredRuns
  <2>1. Has(c) /\ (~caller[c].slow => Running(caller[c].id))
    BY DEF CInv, CalmOk, AtPc
  <2>2. \A a, b \in box : a = b
    BY DEF CInv, BoxOk
  <2>. QED  BY <2>1, <2>2 DEF Has, Running
<1>. QED  BY CallInductive, <1>1, PTL

\* No client ends the process, whatever its sockets do and however its requests
\* are judged (proxy.ts: the error listeners): it takes a caller or a signal.
THEOREM OnlyCallersStopIt == Spec => ClientsCannotStopIt
<1> DEFINE A == (proc \in {"loaded", "up"} /\ proc' = "off") => (caller' # caller)
<1>1. IInv /\ CInv /\ [Next]_vars => [A]_vars
  <2> SUFFICES ASSUME IInv, CInv, Next, proc \in {"loaded", "up"}, proc' = "off"
               PROVE  caller' # caller
    OBVIOUS
  <2>1. CASE PeerStep
    BY <2>1, PeersOk DEF IInv, process
  <2>2. ASSUME NEW c \in Callers, CallStep(c) PROVE caller' # caller
    <3>1. caller[c] \in Caller
      BY DEF CInv
    <3>2. RemoveContainer(c) \/ KillHup(c)
      BY <2>2 DEF CallStep, Inspect, CreateContainer, StartContainer, WaitUntilRunning, CallFails, process
    <3>3. CASE RemoveContainer(c)
      <4>1. caller[c].pc = "remove"
        BY <3>3 DEF RemoveContainer, AtPc
      <4>2. caller'[c].pc \in {"idle", "create"}
        BY <3>1, <3>3 DEF RemoveContainer, Return, Move, IdleCaller, Caller, CInv
      <4>. QED  BY <4>1, <4>2
    <3>4. CASE KillHup(c)
      <4>1. caller[c].pc = "kill"
        BY <3>4 DEF KillHup, AtPc
      <4>2. caller'[c].pc = "idle"
        BY <3>4 DEF KillHup, Return, IdleCaller, CInv
      <4>. QED  BY <4>1, <4>2
    <3>. QED  BY <3>2, <3>3, <3>4
  <2>3. CASE ProcessStep \/ Terminate \/ Exit \/ SocketStep \/ Edit \/ Propagate \/ Build
    BY <2>3 DEF ProcessStep, Load, Listen, HandleHup, Terminate, Exit, SocketStep, UpstreamCloses,
                ClientCloses, Step, Edit, Propagate, Build, process
  <2>4. ASSUME NEW kind, NEW host, Arrive(kind, host) PROVE FALSE
    BY <2>4 DEF Arrive, process
  <2>5. ASSUME NEW c \in Callers, NEW op, Call(c, op) PROVE FALSE
    BY <2>5 DEF Call, process
  <2>. QED  BY <2>1, <2>2, <2>3, <2>4, <2>5 DEF Next
<1> HIDE DEF A
<1>2. Spec => [][A]_vars
  BY Inductive, CallInductive, <1>1, PTL DEF Spec
<1>. QED  BY <1>2 DEF ClientsCannotStopIt, A

=============================================================================
