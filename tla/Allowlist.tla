----------------------------- MODULE Allowlist -----------------------------
(***************************************************************************)
(* The rules of the egress proxy (deploy/egress-proxy/src/allowlist.ts):   *)
(* what a list may say, and whether it covers a host.                      *)
(*                                                                         *)
(* Data.  A host as it is asked for is a form ("name", an "ip" literal, or *)
(* "junk" that no parser takes), its labels in lower case and the number   *)
(* of dots after the last.  A line of a list is a pattern: a "name", a     *)
(* "wild" *.name, a bare "star" or a "*" "inside", and the host after it.  *)
(***************************************************************************)
EXTENDS Naturals, Sequences, SequencesExt

Host(form, labels, dots) == [form |-> form, labels |-> labels, dots |-> dots]
Line(pattern, host) == [pattern |-> pattern, host |-> host]
AnyHost == [form : {"name", "ip", "junk"}, labels : Seq(STRING), dots : Nat]
AnyLine == [pattern : {"name", "wild", "star", "inside"}, host : AnyHost]

NormalizeHost(h) == [h EXCEPT !.dots = 0]
IsIpLiteral(h) == h.form = "ip"
IsDomainName(h) == h.form = "name" /\ h.labels # <<>> /\ h.dots = 0

\* A list is its rules, or Refused as a whole for one line that is neither a
\* name nor *.name.  An empty list is a list.
Refused == [refused |-> TRUE]
Rule(l) == [kind |-> IF l.pattern = "wild" THEN "subdomain" ELSE "exact",
            value |-> NormalizeHost(l.host).labels]

ParseAllowlist(text) ==
    IF \A l \in text : l.pattern \in {"name", "wild"} /\ IsDomainName(NormalizeHost(l.host))
    THEN [rules |-> {Rule(l) : l \in text}]
    ELSE Refused

\* *.name covers what is below the name, not the name itself; a name with a
\* dot after it is another string.
\* Mutant: it covers the name too.
Matches_Apex(rule, h) ==
    /\ h.dots = 0
    /\ h.labels = rule.value \/ (rule.kind = "subdomain" /\ IsSuffix(rule.value, h.labels))
Matches(rule, h) ==
    /\ h.dots = 0
    /\ \/ rule.kind = "exact" /\ h.labels = rule.value
       \/ /\ rule.kind = "subdomain" /\ Len(h.labels) > Len(rule.value)
          /\ IsSuffix(rule.value, h.labels)

MatchAllowlist(list, h) == \E rule \in list.rules : Matches(rule, NormalizeHost(h))

\* splitAuthority and the URL parser take no junk.
Splits(h) == h.form # "junk"

Decide(list, h) ==
    /\ Splits(h) /\ NormalizeHost(h).labels # <<>> /\ ~IsIpLiteral(h)
    /\ MatchAllowlist(list, h)

-----------------------------------------------------------------------------
\* What the file says, without parsing: the name asked for, whatever dots
\* follow it, stands on a line or lies strictly below a *.line.
Says(text, h) ==
    /\ h.form = "name"
    /\ \E l \in text :
          \/ l.pattern = "name" /\ l.host.labels = h.labels
          \/ l.pattern = "wild" /\ \E below \in 1 .. Len(h.labels) - 1 :
                 SubSeq(h.labels, below + 1, Len(h.labels)) = l.host.labels
IsList(text) == \A l \in text : l.pattern \in {"name", "wild"} /\ l.host.form = "name" /\ l.host.labels # <<>>

=============================================================================
