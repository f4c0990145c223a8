-------------------------- MODULE AgentLoopProofs --------------------------
(***************************************************************************)
(* Theorems about the agent's main loop: for any number of turns, of tool  *)
(* uses in a turn and any limits, the conversation stays one the model's   *)
(* API accepts, repetitions are caught, and an anchor goes stale only for  *)
(* a named cause.                                                          *)
(***************************************************************************)
EXTENDS AgentLoop, FiniteSetTheorems, TLAPS

-----------------------------------------------------------------------------
(* The conversation. *)

Conversation == Seq([uses : SUBSET Ids, results : SUBSET Ids, kept : BOOLEAN])

\* The use at i is answered by the next message.
Answered(msgs, i) ==
    msgs[i].uses # {} => i < Len(msgs) /\ msgs[i].uses \subseteq msgs[i + 1].results

\* Between turns, and while the model is asked, every use is answered, and at the
\* end all but those of a last answer that ended the run; while tools run, the last
\* message holds exactly the uses under way.
TalkOk ==
    /\ messages \in Conversation
    /\ loop.pc # "tools" => \A i \in DOMAIN messages :
          \/ Answered(messages, i)
          \/ i = Len(messages) /\ loop.stop \in {"end_turn", "refusal"}
    /\ loop.pc = "tools" =>
          /\ messages # <<>>
          /\ \A i \in 1 .. Len(messages) - 1 : Answered(messages, i)
          /\ messages[Len(messages)].uses = UseIds(loop.turns, calls)

\* The loop's own record.
LoopOk ==
    /\ loop \in [pc : {"head", "recording", "asking", "failing", "tools", "ended"},
                 turns : Nat, out : Nat, noticed : BOOLEAN,
                 stop : StopReasons \cup {"none"}, listening : BOOLEAN,
                 timedOut : BOOLEAN, cancelled : BOOLEAN]
    /\ loop.turns <= MaxTurns
    /\ loop.stop # "none" <=> loop.pc = "ended"
    /\ loop.pc \notin {"head", "ended"} => loop.turns \in 1 .. MaxTurns
    /\ aborted \in BOOLEAN /\ late \in BOOLEAN

Places == {"sent", "landed", "half", "tail", "done"}
Call == [name : Signatures, at : Places, line : 0 .. Lines, offset : Int, doubt : BOOLEAN]

\* There are calls only while tools run.
CallsOk ==
    /\ calls \in Seq(Call) /\ Len(calls) <= MaxUses
    /\ loop.pc # "tools" => calls = <<>>

\* Eliding changes what is kept of results, and nothing else.
LEMMA TrimKeeps ==
    ASSUME NEW msgs \in Conversation
    PROVE  /\ TrimOldToolResults(msgs) \in Conversation
           /\ Len(TrimOldToolResults(msgs)) = Len(msgs)
           /\ \A i \in DOMAIN msgs : /\ TrimOldToolResults(msgs)[i].uses = msgs[i].uses
                                     /\ TrimOldToolResults(msgs)[i].results = msgs[i].results
<1> DEFINE Message == [uses : SUBSET Ids, results : SUBSET Ids, kept : BOOLEAN]
<1>1. ASSUME NEW which
      PROVE  /\ Elide(msgs, which) \in Conversation /\ Len(Elide(msgs, which)) = Len(msgs)
             /\ \A i \in DOMAIN msgs : /\ Elide(msgs, which)[i].uses = msgs[i].uses
                                       /\ Elide(msgs, which)[i].results = msgs[i].results
  <2>1. /\ Len(msgs) \in Nat /\ DOMAIN msgs = 1 .. Len(msgs)
        /\ \A i \in DOMAIN msgs : msgs[i] \in Message
    <3>1. msgs \in Seq(Message)
      BY DEF Conversation
    <3> HIDE DEF Message
    <3>. QED  BY <3>1
  <2>2. \A i \in DOMAIN msgs :
          LET m == IF i \in which THEN [msgs[i] EXCEPT !.kept = FALSE] ELSE msgs[i]
          IN  m \in Message /\ m.uses = msgs[i].uses /\ m.results = msgs[i].results
    BY <2>1
  <2> HIDE DEF Message
  <2>3. Elide(msgs, which) \in [1 .. Len(msgs) -> Message]
    BY <2>1, <2>2 DEF Elide
  <2>4. Elide(msgs, which) \in Seq(Message) /\ Len(Elide(msgs, which)) = Len(msgs)
    BY <2>1, <2>3
  <2>. QED  BY <2>1, <2>2, <2>4 DEF Elide, Conversation, Message
<1>. QED  BY <1>1 DEF TrimOldToolResults

LEMMA OfLength ==
    ASSUME NEW S, NEW n \in Nat, NEW f \in [1 .. n -> S]
    PROVE  f \in Seq(S) /\ Len(f) = n
OBVIOUS

\* The ids of a turn's uses are ids.
LEMMA UsesAreIds ==
    ASSUME NEW turn \in 1 .. MaxTurns, NEW S, NEW uses \in Seq(S), Len(uses) <= MaxUses
    PROVE  UseIds(turn, uses) \subseteq Ids
BY LoopAssumption DEF UseIds, Ids, LoopAssumption

LEMMA AnswersAreShort ==
    ASSUME NEW answer \in Answers
    PROVE  /\ answer.uses \in Seq(Signatures) /\ Len(answer.uses) <= MaxUses
           /\ answer.reason \in {"end_turn", "refusal", "tool_use", "max_tokens"}
<1>1. MaxUses \in Nat
  BY LoopAssumption DEF LoopAssumption
<1>2. /\ answer.uses \in BoundedSeq(Signatures, MaxUses)
      /\ answer.reason \in {"end_turn", "refusal", "tool_use", "max_tokens"}
  BY DEF Answers, UseLists
<1>3. ASSUME NEW n \in 0 .. MaxUses, NEW us \in [1 .. n -> Signatures]
      PROVE  us \in Seq(Signatures) /\ Len(us) <= MaxUses
  BY <1>1, <1>3
<1>4. BoundedSeq(Signatures, MaxUses) = UNION {[1 .. n -> Signatures] : n \in 0 .. MaxUses}
  BY DEF BoundedSeq, SeqOf
<1>. QED  BY <1>2, <1>3, <1>4

\* What the sandbox holds, and when the anchor and the offsets of reads under way
\* are right: without a doubt, and unless a change under way will drop the anchor.
AnchorOk ==
    /\ file \in Files /\ left \in BOOLEAN
    /\ anchor \in [line : 0 .. Lines, offset : Int, doubt : BOOLEAN]
    /\ \A i \in DOMAIN calls : calls[i].at = "half" /\ ~calls[i].doubt =>
          calls[i].offset = file.start[calls[i].line]
    /\ ~Changing /\ anchor.line # 0 /\ ~anchor.doubt =>
          anchor.offset = file.start[anchor.line]

\* A signature is counted at least once in a turn that uses it, and while the
\* run goes on no count has gone past its limit.
RepeatsOk ==
    /\ repeats \in [Signatures -> Nat] /\ streak \in [Signatures -> Nat]
    /\ \A s \in Signatures :
          /\ streak[s] <= repeats[s] /\ streak[s] <= loop.turns
          /\ loop.pc \notin {"head", "ended"} => streak[s] < loop.turns
    /\ loop.pc = "head" => \A s \in Signatures :
          /\ repeats[s] < RepeatStop
          /\ repeats[s] >= RepeatNotice => loop.noticed

IInv == LoopOk /\ CallsOk /\ TalkOk /\ AnchorOk /\ RepeatsOk

LEMMA Start == Init => IInv
<1> SUFFICES ASSUME Init PROVE IInv
  OBVIOUS
<1>1. LoopOk
  <2>1. loop.pc = "head" /\ loop.turns = 0 /\ MaxTurns \in Nat /\ loop.stop = "none"
    BY LoopAssumption DEF Init, LoopAssumption
  <2>2. aborted \in BOOLEAN /\ late \in BOOLEAN
    BY DEF Init
  <2>. QED  BY <2>1, <2>2 DEF Init, LoopOk, StopReasons
<1>2. CallsOk
  BY LoopAssumption DEF Init, CallsOk, LoopAssumption
<1>3. TalkOk
  BY DEF Init, TalkOk, Answered, UserTask, Conversation
<1>4. AnchorOk
  <2>1. /\ calls = <<>> /\ file \in Files /\ left \in BOOLEAN
        /\ anchor = [line |-> 0, offset |-> 0, doubt |-> FALSE]
    BY DEF Init, NoAnchor
  <2>2. anchor \in [line : 0 .. Lines, offset : Int, doubt : BOOLEAN] /\ anchor.line = 0
    BY <2>1, LoopAssumption DEF LoopAssumption
  <2>3. DOMAIN calls = {}
    BY <2>1
  <2>. QED  BY <2>1, <2>2, <2>3, Zenon DEF AnchorOk
<1>5. RepeatsOk
  BY LoopAssumption DEF Init, RepeatsOk, LoopAssumption
<1>. QED  BY <1>1, <1>2, <1>3, <1>4, <1>5 DEF IInv

-----------------------------------------------------------------------------
(* The steps of the loop that neither ask nor answer. *)

\* A step between turns that leaves the conversation, the sandbox and the
\* counts alone: only the loop's record has to be looked at.
LEMMA RecordMoves ==
    ASSUME IInv, UNCHANGED <<talk, calls, sandbox>>, LoopOk',
           loop.pc \notin {"tools", "ended"}, loop'.pc # "tools", loop'.turns = loop.turns,
           loop'.pc = "head" => loop.pc = "head" /\ loop'.noticed = loop.noticed,
           loop.pc = "head" => loop'.pc \in {"head", "ended"}
    PROVE  IInv'
<1>1. CallsOk' /\ TalkOk'
  <2>1. loop.stop = "none"
    BY DEF IInv, LoopOk
  <2>. QED  BY <2>1 DEF IInv, CallsOk, TalkOk, Answered, talk
<1>2. AnchorOk'
  BY DEF IInv, AnchorOk, Changing, sandbox
<1>3. RepeatsOk'
  BY DEF IInv, RepeatsOk, talk
<1>. QED  BY <1>1, <1>2, <1>3 DEF IInv

\* Calls of the turn move on, or something changes under them.
LEMMA CallMoves ==
    ASSUME IInv, UNCHANGED <<loop, talk, world>>,
           calls' \in Seq(Call), Len(calls') = Len(calls), AnchorOk'
    PROVE  IInv'
<1>1. LoopOk' /\ RepeatsOk'
  BY DEF IInv, LoopOk, RepeatsOk, talk, world
<1>2. DOMAIN calls' = DOMAIN calls
  <2> HIDE DEF Call
  <2>. QED  BY DEF IInv, CallsOk
<1>3. loop.pc # "tools" => calls' = <<>>
  <2> HIDE DEF Call
  <2>. QED  BY DEF IInv, CallsOk
<1>4. CallsOk' /\ TalkOk'
  BY <1>2, <1>3 DEF IInv, CallsOk, TalkOk, Answered, UseIds, talk
<1>. QED  BY <1>1, <1>4 DEF IInv

LEMMA BetweenTurns ==
    ASSUME IInv, NEW timedOut \in BOOLEAN,
           OutOfTurns \/ StopAtLimit \/ AskModel \/ CallFails(timedOut)
               \/ TimerFiresLate \/ GiveUp
    PROVE  IInv'
<1>1. CASE OutOfTurns
  BY <1>1, RecordMoves DEF OutOfTurns, Stop, IInv, LoopOk, StopReasons, world
<1>2. CASE StopAtLimit
  BY <1>2, RecordMoves DEF StopAtLimit, AtHead, Stop, IInv, LoopOk, StopReasons, world
<1>3. CASE AskModel
  BY <1>3, RecordMoves DEF AskModel, IInv, LoopOk, world
<1>4. CASE CallFails(timedOut)
  BY <1>4, RecordMoves DEF CallFails, IInv, LoopOk, world
<1>5. CASE TimerFiresLate
  BY <1>5, RecordMoves DEF TimerFiresLate, IInv, LoopOk, world
<1>6. CASE GiveUp
  BY <1>6, RecordMoves DEF GiveUp, Stop, IInv, LoopOk, StopReasons, world
<1>. QED  BY <1>1, <1>2, <1>3, <1>4, <1>5, <1>6

LEMMA TurnBegins == ASSUME IInv, BeginTurn PROVE IInv'
<1>1. LoopOk'
  <2>1. /\ loop.pc = "head" /\ loop.turns < MaxTurns /\ loop.turns \in Nat /\ MaxTurns \in Nat
        /\ loop.stop = "none"
    BY LoopAssumption DEF BeginTurn, AtHead, IInv, LoopOk, LoopAssumption
  <2>2. loop' = [loop EXCEPT !.pc = "recording", !.turns = loop.turns + 1]
    BY DEF BeginTurn
  <2>3. UNCHANGED <<aborted, late>>
    BY DEF BeginTurn, world
  <2>3a. loop.turns + 1 \in Nat
    BY <2>1
  <2>4. loop' \in [pc : {"head", "recording", "asking", "failing", "tools", "ended"},
                   turns : Nat, out : Nat, noticed : BOOLEAN,
                   stop : StopReasons \cup {"none"}, listening : BOOLEAN,
                   timedOut : BOOLEAN, cancelled : BOOLEAN]
    BY <2>2, <2>3a DEF IInv, LoopOk
  <2>5. loop'.turns = loop.turns + 1 /\ loop'.pc = "recording" /\ loop'.stop = "none"
    BY <2>1, <2>2 DEF IInv, LoopOk
  <2>. QED  BY <2>1, <2>3, <2>4, <2>5 DEF IInv, LoopOk
<1>2. CallsOk' /\ loop.pc = "head" /\ loop'.pc = "recording" /\ loop'.turns = loop.turns + 1
  BY DEF BeginTurn, AtHead, IInv, CallsOk, LoopOk
<1>3. TalkOk'
  <2>1. messages' = TrimOldToolResults(messages) /\ messages \in Conversation
    BY DEF BeginTurn, IInv, TalkOk
  <2>2. DOMAIN messages' = DOMAIN messages /\ messages' \in Conversation
    <3>1. messages' \in Conversation /\ Len(messages') = Len(messages)
      BY <2>1, TrimKeeps
    <3>. QED  BY <2>1, <3>1 DEF Conversation
  <2>3. ASSUME NEW i \in DOMAIN messages' PROVE Answered(messages', i)
    <3>1. Answered(messages, i)
      BY <1>2, <2>2, <2>3 DEF IInv, TalkOk, LoopOk
    <3>2. i + 1 \in DOMAIN messages \/ ~(i < Len(messages))
      BY <2>1, <2>2, <2>3 DEF Conversation
    <3>. QED  BY <2>1, <2>2, <2>3, <3>1, <3>2, TrimKeeps DEF Answered
  <2>. QED  BY <1>2, <2>2, <2>3 DEF TalkOk
<1>4. AnchorOk'
  BY DEF BeginTurn, IInv, AnchorOk, Changing, sandbox
<1>5. RepeatsOk'
  <2>1. loop.turns \in Nat /\ UNCHANGED <<repeats, streak>>
    BY DEF BeginTurn, IInv, LoopOk
  <2>2. ASSUME NEW s \in Signatures
        PROVE  streak[s] \in Nat /\ streak[s] <= repeats[s] /\ streak[s] <= loop.turns
    BY DEF IInv, RepeatsOk
  <2>3. \A s \in Signatures : streak[s] <= loop'.turns /\ streak[s] < loop'.turns
    BY <1>2, <2>1, <2>2
  <2>. QED  BY <1>2, <2>1, <2>2, <2>3 DEF IInv, RepeatsOk
<1>. QED  BY <1>1, <1>2, <1>3, <1>4, <1>5 DEF IInv

\* The caller's abort and the deadline change nothing the run holds.
LEMMA WorldSteps == ASSUME IInv, CallerAborts \/ DeadlinePasses PROVE IInv'
<1>1. LoopOk'
  BY DEF CallerAborts, DeadlinePasses, IInv, LoopOk
<1>2. CallsOk' /\ TalkOk'
  BY DEF CallerAborts, DeadlinePasses, IInv, CallsOk, TalkOk, Answered, talk
<1>3. AnchorOk'
  BY DEF CallerAborts, DeadlinePasses, IInv, AnchorOk, Changing, sandbox
<1>4. RepeatsOk'
  BY DEF CallerAborts, DeadlinePasses, IInv, RepeatsOk, talk
<1>. QED  BY <1>1, <1>2, <1>3, <1>4 DEF IInv

-----------------------------------------------------------------------------
(* The answer of the model. *)

LEMMA Answer == ASSUME IInv, ModelAnswers PROVE IInv'
<1>1. PICK answer \in Answers, spent \in Spends :
        LET ending == Ending(answer)
        IN  /\ messages' = Append(messages, FromModel(UseIds(loop.turns, answer.uses)))
            /\ loop' = [loop EXCEPT !.out = @ + spent, !.stop = ending,
                                    !.pc = IF ending = "none" THEN "tools" ELSE "ended"]
            /\ calls' = IF ending = "none"
                        THEN [i \in DOMAIN answer.uses |-> Sent(answer.uses[i])] ELSE <<>>
  BY DEF ModelAnswers
<1> DEFINE ending == Ending(answer)
           pc == IF ending = "none" THEN "tools" ELSE "ended"
<1>2. /\ loop.pc = "asking" /\ loop.stop = "none" /\ loop.turns \in 1 .. MaxTurns
      /\ loop.out + spent \in Nat /\ loop.turns \in Nat /\ calls = <<>>
      /\ UNCHANGED <<repeats, streak, file, left, anchor, late, aborted>>
  BY LoopAssumption DEF ModelAnswers, IInv, LoopOk, CallsOk, LoopAssumption, sandbox, world
<1>3. /\ answer.uses \in Seq(Signatures) /\ Len(answer.uses) <= MaxUses
      /\ ending \in StopReasons \cup {"none"}
      /\ ending \in {"none", "end_turn", "refusal"} \/ answer.uses = <<>>
  BY AnswersAreShort DEF Ending, StopReasons
<1>4. LoopOk' /\ loop'.pc = pc /\ loop'.stop = ending /\ loop'.turns = loop.turns
  <2> HIDE DEF ending
  <2>1. loop' = [loop EXCEPT !.out = loop.out + spent, !.stop = ending, !.pc = pc]
    BY <1>1, <1>2 DEF IInv, LoopOk, ending
  <2>2. /\ loop'.pc = pc /\ loop'.stop = ending /\ loop'.turns = loop.turns
        /\ loop' \in [pc : {"head", "recording", "asking", "failing", "tools", "ended"},
                      turns : Nat, out : Nat, noticed : BOOLEAN,
                      stop : StopReasons \cup {"none"}, listening : BOOLEAN,
                      timedOut : BOOLEAN, cancelled : BOOLEAN]
    BY <1>2, <1>3, <2>1 DEF IInv, LoopOk
  <2>. QED  BY <1>2, <2>2 DEF IInv, LoopOk
<1>5. /\ CallsOk' /\ \A i \in DOMAIN calls' : calls'[i].at = "sent"
      /\ ending = "none" => DOMAIN calls' = DOMAIN answer.uses
  <2>1. CASE ending = "none"
    <3>1. \A i \in 1 .. Len(answer.uses) :
            Sent(answer.uses[i]) \in Call /\ Sent(answer.uses[i]).at = "sent"
      BY <1>3, LoopAssumption DEF Sent, Call, Places, LoopAssumption
    <3>2. calls' = [i \in 1 .. Len(answer.uses) |-> Sent(answer.uses[i])]
      BY <1>1, <1>3, <2>1
    <3> HIDE DEF ending
    <3>3. calls' \in [1 .. Len(answer.uses) -> Call] /\ Len(answer.uses) \in Nat
      BY <1>3, <3>1, <3>2
    <3>4. calls' \in Seq(Call) /\ Len(calls') = Len(answer.uses)
      BY <3>3, OfLength
    <3>. QED  BY <1>3, <1>4, <2>1, <3>1, <3>2, <3>4 DEF CallsOk
  <2>2. CASE ending # "none"
    <3>1. calls' = <<>>
      BY <1>1, <2>2
    <3>. QED  BY <2>2, <3>1, LoopAssumption DEF CallsOk, LoopAssumption
  <2>. QED  BY <2>1, <2>2
<1>6. TalkOk'
  <2> DEFINE ids == UseIds(loop.turns, answer.uses)
  <2>1. ids \subseteq Ids
    BY <1>2, <1>3, UsesAreIds
  <2>2. ending = "none" => ids = UseIds(loop'.turns, calls')
    BY <1>4, <1>5 DEF UseIds
  <2>3. answer.uses = <<>> => ids = {}
    BY DEF UseIds
  <2> HIDE DEF ids, ending
  <2>4. /\ messages \in Conversation /\ Len(messages) \in Nat
        /\ \A i \in 1 .. Len(messages) : Answered(messages, i)
    BY <1>2 DEF IInv, TalkOk, Conversation, LoopOk
  <2>5. FromModel(ids) \in [uses : SUBSET Ids, results : SUBSET Ids, kept : BOOLEAN]
        /\ FromModel(ids).uses = ids
    BY <2>1 DEF FromModel
  <2>6. /\ messages' \in Conversation /\ Len(messages') = Len(messages) + 1
        /\ messages'[Len(messages')].uses = ids
        /\ \A i \in 1 .. Len(messages) : messages'[i] = messages[i]
    <3>1. messages' = Append(messages, FromModel(ids))
      BY <1>1 DEF ids
    <3>. QED  BY <2>4, <2>5, <3>1 DEF Conversation
  <2>7. \A i \in 1 .. Len(messages) : Answered(messages', i)
    BY <2>4, <2>6 DEF Answered
  <2>8. CASE ending # "none"
    <3>1. loop'.pc = "ended" /\ loop'.stop = ending
      BY <1>4, <2>8
    <3>2. \/ Answered(messages', Len(messages'))
          \/ loop'.stop \in {"end_turn", "refusal"}
      BY <1>3, <2>3, <2>6, <2>8, <3>1 DEF Answered
    <3>3. DOMAIN messages' = 1 .. Len(messages) + 1
      BY <2>6 DEF Conversation
    <3>4. \A i \in DOMAIN messages' : i = Len(messages') \/ Answered(messages', i)
      BY <2>4, <2>6, <2>7, <3>3
    <3>. QED  BY <2>6, <3>1, <3>2, <3>4 DEF TalkOk
  <2>9. CASE ending = "none"
    <3>1. loop'.pc = "tools" /\ messages' # <<>>
      BY <1>4, <2>4, <2>6, <2>9
    <3>2. Len(messages') - 1 = Len(messages)
      BY <2>4, <2>6
    <3>. QED  BY <2>2, <2>6, <2>7, <2>9, <3>1, <3>2 DEF TalkOk
  <2>. QED  BY <2>8, <2>9
<1>7. AnchorOk'
  <2>1. ~Changing
    BY <1>2 DEF Changing
  <2>2. ~Changing'
    BY <1>5 DEF Changing
  <2>. QED  BY <1>2, <1>5, <2>1, <2>2 DEF IInv, AnchorOk
<1>8. RepeatsOk'
  <2>1. loop'.pc \in {"tools", "ended"} /\ loop'.turns = loop.turns
    BY <1>4
  <2>. QED  BY <1>2, <2>1 DEF IInv, RepeatsOk
<1>. QED  BY <1>4, <1>5, <1>6, <1>7, <1>8 DEF IInv

-----------------------------------------------------------------------------
(* The calls of a turn. *)

\* One call of a list is replaced.
LEMMA Replaced ==
    ASSUME NEW cs \in Seq(Call), NEW i \in DOMAIN cs, NEW c \in Call,
           calls' = [cs EXCEPT ![i] = c]
    PROVE  /\ calls' \in Seq(Call) /\ Len(calls') = Len(cs) /\ DOMAIN calls' = DOMAIN cs
           /\ \A j \in DOMAIN cs \ {i} : calls'[j] = cs[j]
           /\ calls'[i] = c
<1> HIDE DEF Call
<1>1. calls' \in [1 .. Len(cs) -> Call] /\ Len(cs) \in Nat
  OBVIOUS
<1>2. calls' \in Seq(Call) /\ Len(calls') = Len(cs)
  BY <1>1, OfLength
<1>. QED  BY <1>2

\* A call that moves on keeps the rest.
LEMMA Moves ==
    ASSUME IInv, NEW i \in DOMAIN calls, NEW at \in Places, Move(i, at)
    PROVE  /\ calls' \in Seq(Call) /\ Len(calls') = Len(calls) /\ DOMAIN calls' = DOMAIN calls
           /\ \A j \in DOMAIN calls \ {i} : calls'[j] = calls[j]
           /\ calls'[i].name = calls[i].name /\ calls'[i].at = at /\ calls[i] \in Call
<1>1. calls \in Seq(Call)
  BY DEF IInv, CallsOk
<1>2. calls[i] \in Call
  <2> HIDE DEF Call
  <2>. QED  BY <1>1
<1> DEFINE moved == [calls[i] EXCEPT !.at = at]
<1>3. moved \in Call /\ moved.name = calls[i].name /\ moved.at = at
  BY <1>2 DEF Call
<1>4. calls' = [calls EXCEPT ![i] = moved]
  BY DEF Move
<1> HIDE DEF moved
<1>. QED  BY <1>1, <1>2, <1>3, <1>4, Replaced

LEMMA CallDone ==
    ASSUME IInv, NEW i \in DOMAIN calls, Done(i)
    PROVE  /\ calls' \in Seq(Call) /\ Len(calls') = Len(calls) /\ DOMAIN calls' = DOMAIN calls
           /\ \A j \in DOMAIN calls \ {i} : calls'[j] = calls[j]
           /\ calls'[i].name = calls[i].name /\ calls'[i].at = "done" /\ calls[i] \in Call
<1>1. calls \in Seq(Call)
  BY DEF IInv, CallsOk
<1>2. calls[i] \in Call
  <2> HIDE DEF Call
  <2>. QED  BY <1>1
<1> DEFINE over == [name |-> calls[i].name, at |-> "done", line |-> 0, offset |-> 0,
                    doubt |-> FALSE]
<1>3. over \in Call /\ over.name = calls[i].name /\ over.at = "done"
  <2>1. calls[i].name \in Signatures
    BY <1>2 DEF Call
  <2>2. 0 \in 0 .. Lines
    BY LoopAssumption DEF LoopAssumption
  <2>. QED  BY <2>1, <2>2 DEF Call, Places
<1>4. calls' = [calls EXCEPT ![i] = over]
  BY DEF Done
<1> HIDE DEF over
<1>. QED  BY <1>1, <1>2, <1>3, <1>4, Replaced

\* A change leaves no read under way without a doubt.
LEMMA ReadsAreDoubted ==
    ASSUME IInv
    PROVE  /\ Overtaken \in Seq(Call) /\ Len(Overtaken) = Len(calls)
           /\ DOMAIN Overtaken = DOMAIN calls
           /\ \A j \in DOMAIN calls :
                 /\ Overtaken[j] \in Call
                 /\ Overtaken[j].name = calls[j].name /\ Overtaken[j].at = calls[j].at
                 /\ calls[j].at = "half" => Overtaken[j].doubt
<1>1. /\ calls \in Seq(Call) /\ DOMAIN calls = 1 .. Len(calls) /\ Len(calls) \in Nat
      /\ \A j \in DOMAIN calls : calls[j] \in Call
  <2>1. calls \in Seq(Call)
    BY DEF IInv, CallsOk
  <2> HIDE DEF Call
  <2>. QED  BY <2>1
<1>2. ASSUME NEW j \in DOMAIN calls
      PROVE  LET c == IF calls[j].at = "half" THEN [calls[j] EXCEPT !.doubt = TRUE] ELSE calls[j]
             IN  /\ c \in Call /\ c.name = calls[j].name /\ c.at = calls[j].at
                 /\ calls[j].at = "half" => c.doubt
  <2>1. calls[j] \in Call
    BY <1>1
  <2>. QED  BY <2>1 DEF Call
<1> HIDE DEF Call
<1>3. Overtaken \in [1 .. Len(calls) -> Call]
  BY <1>1, <1>2 DEF Overtaken
<1>4. Overtaken \in Seq(Call) /\ Len(Overtaken) = Len(calls)
  BY <1>1, <1>3, OfLength
<1>. QED  BY <1>1, <1>2, <1>4 DEF Overtaken

\* A call that ends, without having changed anything, leaves the others as they are.
LEMMA Ends ==
    ASSUME IInv, NEW i \in DOMAIN calls, Move(i, "done") \/ Done(i), calls[i].at # "landed",
           UNCHANGED <<file, anchor>>, left' \in BOOLEAN
    PROVE  AnchorOk'
<1>1. /\ DOMAIN calls' = DOMAIN calls /\ calls'[i].at = "done"
      /\ \A j \in DOMAIN calls \ {i} : calls'[j] = calls[j]
  BY Moves, CallDone DEF Places
<1>2. Changing' <=> Changing
  BY <1>1 DEF Changing
<1>. QED  BY <1>1, <1>2 DEF IInv, AnchorOk

\* A change under way leaves no read without a doubt, and nothing is said of the
\* anchor until it is over.
LEMMA ChangeLands ==
    ASSUME IInv, NEW i \in DOMAIN calls, Lands(i), calls[i].name \in {"bash", "write"},
           left' \in BOOLEAN
    PROVE  IInv'
<1>1. /\ Overtaken \in Seq(Call) /\ i \in DOMAIN Overtaken
      /\ calls' = [Overtaken EXCEPT ![i].at = "landed"] /\ UNCHANGED <<loop, talk, anchor, world>>
  BY ReadsAreDoubted DEF Lands
<1> DEFINE moved == [Overtaken[i] EXCEPT !.at = "landed"]
<1>2. moved \in Call /\ moved.name = calls[i].name /\ moved.at = "landed"
  BY ReadsAreDoubted DEF Call, Places
<1>3. calls' = [Overtaken EXCEPT ![i] = moved]
  BY <1>1
<1> HIDE DEF moved
<1>4. /\ calls' \in Seq(Call) /\ Len(calls') = Len(calls) /\ DOMAIN calls' = DOMAIN calls
      /\ calls'[i].at = "landed" /\ calls'[i].name = calls[i].name
      /\ \A j \in DOMAIN calls \ {i} : calls'[j] = Overtaken[j]
  <2>1. /\ Len(Overtaken) = Len(calls) /\ DOMAIN Overtaken = DOMAIN calls
    BY ReadsAreDoubted
  <2>2. /\ calls' \in Seq(Call) /\ Len(calls') = Len(Overtaken) /\ DOMAIN calls' = DOMAIN Overtaken
        /\ \A j \in DOMAIN Overtaken \ {i} : calls'[j] = Overtaken[j]
        /\ calls'[i] = moved
    BY <1>1, <1>2, <1>3, Replaced
  <2>. QED  BY <1>2, <2>1, <2>2
<1>5. Changing'
  BY <1>4 DEF Changing
<1>6. \A j \in DOMAIN calls' : calls'[j].at = "half" => calls'[j].doubt
  BY <1>4, ReadsAreDoubted
<1>7. file' \in Files
  BY DEF Lands, FileChanges
<1>8. AnchorOk'
  BY <1>1, <1>5, <1>6, <1>7 DEF IInv, AnchorOk
<1>. QED  BY <1>1, <1>4, <1>8, CallMoves

\* An anchor that is doubted is one of which nothing is said.
LEMMA AnchorIsDoubted ==
    ASSUME IInv
    PROVE  /\ Doubted \in [line : 0 .. Lines, offset : Int, doubt : BOOLEAN]
           /\ Doubted.line = 0 \/ Doubted.doubt
BY DEF IInv, AnchorOk, Doubted

LEMMA UnseenChangeKeeps == ASSUME IInv, UnseenChange PROVE IInv'
<1>1. /\ calls' = Overtaken /\ anchor' = Doubted /\ file' \in Files
      /\ UNCHANGED <<loop, talk, left, world>>
  BY DEF UnseenChange, FileChanges
<1>2. AnchorOk'
  BY <1>1, ReadsAreDoubted, AnchorIsDoubted DEF IInv, AnchorOk
<1>. QED  BY <1>1, <1>2, ReadsAreDoubted, CallMoves

\* A change that is seen to end takes the anchor with it; one whose end is lost
\* leaves it with a doubt.
LEMMA Returns ==
    ASSUME IInv, NEW i \in DOMAIN calls, NEW at \in {"tail", "done"}, Move(i, at),
           anchor' \in {NoAnchor, Doubted}, UNCHANGED <<file, left>>
    PROVE  AnchorOk'
<1>1. /\ DOMAIN calls' = DOMAIN calls /\ calls'[i].at = at
      /\ \A j \in DOMAIN calls \ {i} : calls'[j] = calls[j]
  BY Moves DEF Places
<1>2. /\ anchor' \in [line : 0 .. Lines, offset : Int, doubt : BOOLEAN]
      /\ anchor'.line = 0 \/ anchor'.doubt
  <2>1. NoAnchor \in [line : 0 .. Lines, offset : Int, doubt : BOOLEAN] /\ NoAnchor.line = 0
    BY LoopAssumption DEF NoAnchor, LoopAssumption
  <2>. QED  BY <2>1, AnchorIsDoubted
<1>. QED  BY <1>1, <1>2 DEF IInv, AnchorOk

\* Lines do not overlap: the start of a line lies in no other.
LEMMA StartsAreApart ==
    ASSUME file \in Files, NEW k \in 1 .. Lines, NEW l \in 1 .. Lines, InLine(file.start[k], l)
    PROVE  l = k
<1>1. /\ Lines \in Nat /\ \A m \in 1 .. Lines : file.start[m] \in Nat
      /\ \A m, n \in 1 .. Lines : m < n => file.start[m] < file.start[n]
  BY LoopAssumption DEF LoopAssumption
<1>2. CASE l < k
  <2>1. l < Lines /\ l + 1 \in 1 .. Lines /\ (l + 1 = k \/ l + 1 < k)
    BY <1>1, <1>2
  <2>2. file.start[k] < file.start[l + 1]
    BY <2>1 DEF InLine
  <2>. QED  BY <1>1, <2>1, <2>2
<1>3. CASE k < l
  BY <1>1, <1>3 DEF InLine
<1>. QED  BY <1>1, <1>2, <1>3

\* A read that begins at a right place, and drops no mark, computes the right one.
LEMMA ScansAreRight ==
    ASSUME file \in Files, NEW last \in 1 .. Lines, NEW l \in 1 .. Lines, NEW p,
           NEW k \in 1 .. Lines, last - k >= 0, l + (last - k) <= Lines, InLine(p, l)
    PROVE  /\ p \in Int => Scanned(p, l, last - k) \in Int
           /\ p = file.start[k] /\ ~(last - k > 0 /\ DropsBom(p, l)) =>
                 Scanned(p, l, last - k) = file.start[last]
<1>1. /\ Lines \in Nat /\ \A m \in 1 .. Lines : file.start[m] \in Nat
  BY LoopAssumption DEF LoopAssumption
<1>2. l + (last - k) \in 1 .. Lines
  BY <1>1
<1>3. p \in Int => Scanned(p, l, last - k) \in Int
  BY <1>1, <1>2 DEF Scanned, BomBytes
<1>4. ASSUME p = file.start[k], ~(last - k > 0 /\ DropsBom(p, l))
      PROVE  Scanned(p, l, last - k) = file.start[last]
  <2>1. l = k
    BY <1>4, StartsAreApart
  <2>2. CASE last - k = 0
    <3>1. last = k
      BY <1>1, <2>2
    <3>. QED  BY <1>4, <2>2, <3>1 DEF Scanned
  <2>3. CASE last - k > 0
    <3>1. l + (last - k) = last
      BY <1>1, <2>1
    <3>. QED  BY <1>1, <1>4, <2>3, <3>1 DEF Scanned
  <2>. QED  BY <1>1, <2>2, <2>3
<1>. QED  BY <1>3, <1>4

LEMMA ReadBeginsKeeps == ASSUME IInv, NEW i, ReadBegins(i) PROVE IInv'
<1>1. /\ i \in DOMAIN calls /\ calls[i].at = "sent"
      /\ UNCHANGED <<loop, talk, file, left, anchor, world>>
  BY DEF ReadBegins, Is, Running, sandbox
<1>2. PICK last \in 1 .. Lines, l \in 1 .. Lines, from \in {Top, anchor} :
        LET n == last - from.line
        IN  /\ from.line >= 1 /\ n >= 0 /\ InLine(from.offset, l) /\ l + n <= Lines
            /\ calls' = [calls EXCEPT ![i] = [@ EXCEPT
                   !.at = "half", !.line = last, !.offset = Scanned(from.offset, l, n),
                   !.doubt = \/ from.doubt \/ (from # Top /\ Changing)
                             \/ n > 0 /\ DropsBom(from.offset, l)]]
  BY DEF ReadBegins
<1> DEFINE n == last - from.line
           place == Scanned(from.offset, l, n)
           doubt == \/ from.doubt \/ (from # Top /\ Changing)
                    \/ n > 0 /\ DropsBom(from.offset, l)
           began == [calls[i] EXCEPT !.at = "half", !.line = last, !.offset = place,
                                     !.doubt = doubt]
<1>3. from \in [line : 0 .. Lines, offset : Int, doubt : BOOLEAN]
  <2>1. 1 \in 0 .. Lines /\ 0 \in Int
    BY LoopAssumption DEF LoopAssumption
  <2>2. Top \in [line : 0 .. Lines, offset : Int, doubt : BOOLEAN]
    BY <2>1 DEF Top
  <2>3. anchor \in [line : 0 .. Lines, offset : Int, doubt : BOOLEAN]
    BY DEF IInv, AnchorOk
  <2>. QED  BY <2>2, <2>3
<1>4. file \in Files /\ from.line \in 1 .. Lines /\ Lines \in Nat
  BY <1>2, <1>3, LoopAssumption DEF IInv, AnchorOk, LoopAssumption
<1>5. place \in Int
  BY <1>2, <1>3, <1>4, ScansAreRight
<1>6. ~doubt => place = file.start[last]
  <2>1. ~doubt => from.offset = file.start[from.line]
    <3>1. CASE from = Top
      BY <1>4, <3>1, LoopAssumption DEF Top, LoopAssumption
    <3>2. CASE from = anchor /\ from # Top
      BY <1>4, <3>2 DEF IInv, AnchorOk
    <3>. QED  BY <3>1, <3>2
  <2>. QED  BY <1>2, <1>3, <1>4, <2>1, ScansAreRight
<1>7. calls \in Seq(Call) /\ calls' = [calls EXCEPT ![i] = began]
  BY <1>1, <1>2 DEF IInv, CallsOk
<1>8. calls[i] \in Call
  <2> HIDE DEF Call
  <2>. QED  BY <1>1, <1>7
<1>9. doubt \in BOOLEAN
  BY <1>3 DEF DropsBom, Changing
<1> HIDE DEF place, doubt
<1>10. /\ began \in Call /\ began.at = "half" /\ began.line = last /\ began.offset = place
       /\ began.doubt = doubt /\ began.name = calls[i].name
  <2>1. last \in 0 .. Lines
    BY <1>4
  <2>2. /\ began.at = "half" /\ began.line = last /\ began.offset = place
        /\ began.doubt = doubt /\ began.name = calls[i].name
    BY <1>8 DEF Call
  <2>3. began \in Call
    BY <1>5, <1>8, <1>9, <2>1 DEF Call, Places
  <2>. QED  BY <2>2, <2>3
<1> HIDE DEF began
<1>11. /\ calls' \in Seq(Call) /\ Len(calls') = Len(calls) /\ DOMAIN calls' = DOMAIN calls
       /\ \A j \in DOMAIN calls \ {i} : calls'[j] = calls[j]
       /\ calls'[i] = began
  BY <1>1, <1>7, <1>10, Replaced
<1>12. Changing' <=> Changing
  BY <1>1, <1>10, <1>11 DEF Changing
<1>13. AnchorOk'
  BY <1>1, <1>6, <1>10, <1>11, <1>12 DEF IInv, AnchorOk
<1>. QED  BY <1>1, <1>11, <1>13, CallMoves

LEMMA ReadEndsKeeps == ASSUME IInv, NEW i, ReadEnds(i) PROVE IInv'
<1>1. /\ i \in DOMAIN calls /\ Done(i) /\ calls[i].at = "half"
      /\ anchor' = [line |-> calls[i].line, offset |-> calls[i].offset, doubt |-> calls[i].doubt]
      /\ UNCHANGED <<loop, talk, file, left, world>>
  BY DEF ReadEnds, Running
<1>2. /\ calls' \in Seq(Call) /\ Len(calls') = Len(calls) /\ DOMAIN calls' = DOMAIN calls
      /\ calls'[i].at = "done" /\ calls[i] \in Call
      /\ \A j \in DOMAIN calls \ {i} : calls'[j] = calls[j]
  BY <1>1, CallDone
<1>3. anchor' \in [line : 0 .. Lines, offset : Int, doubt : BOOLEAN]
  BY <1>1, <1>2 DEF Call
<1>4. AnchorOk'
  BY <1>1, <1>2, <1>3 DEF IInv, AnchorOk
<1>. QED  BY <1>1, <1>2, <1>4, CallMoves

LEMMA ToolSteps == ASSUME IInv, NEW i, Tool(i) PROVE IInv'
<1>1. Running(i) /\ i \in DOMAIN calls /\ UNCHANGED <<loop, talk, world>>
  BY DEF Tool, Rejected, ReadInline, CommandLands, CommandReturns, TailRead, PutLands, PutReturns,
         ChangeLost, ChangeDelayed, ReadBegins, ReadEnds, ReadFails, Lands, Is, Running
<1>2. ASSUME NEW at \in Places, Move(i, at), AnchorOk'
      PROVE  IInv'
  BY <1>1, <1>2, Moves, CallMoves
<1>3. CASE Rejected(i) \/ ReadInline(i) \/ TailRead(i) \/ ReadFails(i) \/ ChangeDelayed(i)
  <2>1. (Move(i, "done") \/ Done(i)) /\ calls[i].at # "landed" /\ UNCHANGED <<file, anchor>> /\ left' \in BOOLEAN
    BY <1>3 DEF Rejected, ReadInline, TailRead, ReadFails, ChangeDelayed, Is, sandbox,
                IInv, AnchorOk
  <2>2. AnchorOk'
    BY <1>1, <2>1, Ends
  <2>3. CASE Done(i)
    BY <1>1, <2>2, <2>3, CallDone, CallMoves
  <2>. QED  BY <1>2, <2>1, <2>2, <2>3 DEF Places
<1>4. CASE CommandLands(i) \/ PutLands(i)
  BY <1>1, <1>4, ChangeLands DEF CommandLands, PutLands, Is, IInv, AnchorOk
<1>5. CASE CommandReturns(i) \/ PutReturns(i) \/ ChangeLost(i)
  <2>1. PICK at \in {"tail", "done"} : Move(i, at)
    BY <1>5 DEF CommandReturns, PutReturns, ChangeLost
  <2>2. anchor' \in {NoAnchor, Doubted} /\ UNCHANGED <<file, left>>
    BY <1>5 DEF CommandReturns, PutReturns, ChangeLost
  <2>3. AnchorOk'
    BY <1>1, <2>1, <2>2, Returns
  <2>. QED  BY <1>2, <2>1, <2>3 DEF Places
<1>6. CASE ReadBegins(i) \/ ReadEnds(i)
  BY <1>6, ReadBeginsKeeps, ReadEndsKeeps
<1>. QED  BY <1>3, <1>4, <1>5, <1>6 DEF Tool

-----------------------------------------------------------------------------
(* The results go back, and repeats are counted. *)

LEMMA UsesAreCounted ==
    ASSUME IInv, NEW s \in Signatures
    PROVE  Uses(s) \in Nat
<1>1. IsFiniteSet(1 .. Len(calls)) /\ DOMAIN calls = 1 .. Len(calls)
  BY FS_Interval DEF IInv, CallsOk
<1>2. {i \in DOMAIN calls : calls[i].name = s} \in SUBSET (1 .. Len(calls))
  BY <1>1
<1>3. IsFiniteSet({i \in DOMAIN calls : calls[i].name = s})
  BY <1>1, <1>2, FS_Subset
<1>. QED  BY <1>3, FS_CardinalityType DEF Uses

\* The largest of the three counts.
LEMMA Worst ==
    ASSUME NEW counts \in [Signatures -> Nat]
    PROVE  LET worst == Max({counts[s] : s \in Signatures})
           IN  worst \in Nat /\ \A s \in Signatures : counts[s] <= worst
<1> DEFINE all == {counts[s] : s \in Signatures}
<1>1. \A s \in Signatures : counts[s] \in Nat
  OBVIOUS
<1>2. all = {counts["bash"], counts["read"], counts["write"]}
  BY DEF Signatures
<1>3. \E x \in all : \A y \in all : x >= y
  <2>1. counts["bash"] \in Nat /\ counts["read"] \in Nat /\ counts["write"] \in Nat
    BY <1>1 DEF Signatures
  <2>2. \E x \in {counts["bash"], counts["read"], counts["write"]} :
            x >= counts["bash"] /\ x >= counts["read"] /\ x >= counts["write"]
    BY <2>1
  <2>. QED  BY <1>2, <2>2
<1> HIDE DEF all
<1>4. Max(all) \in all /\ \A y \in all : Max(all) >= y
  BY <1>3 DEF Max
<1>5. \A s \in Signatures : counts[s] \in all
  BY DEF all
<1>6. Max(all) \in Nat
  BY <1>1, <1>4 DEF all
<1>. QED  BY <1>1, <1>4, <1>5, <1>6 DEF all

LEMMA ResultsGoBack == ASSUME IInv, Collect PROVE IInv'
<1> DEFINE counts == TrackRepeats
           worst == Max({counts[s] : s \in Signatures})
           stop == worst >= RepeatNotice /\ (loop.noticed \/ worst >= RepeatStop)
           notice == worst >= RepeatNotice /\ ~stop
           results == UseIds(loop.turns, calls)
           sent == IF notice THEN results \cup {[turn |-> loop.turns, n |-> 0]} ELSE results
<1>1. /\ loop.pc = "tools" /\ loop.stop = "none" /\ loop.turns \in 1 .. MaxTurns
      /\ loop.turns \in Nat
      /\ \A i \in DOMAIN calls : calls[i].at = "done"
      /\ repeats' = counts /\ messages' = Append(messages, ToModel(sent)) /\ calls' = <<>>
      /\ UNCHANGED <<file, left, anchor, late, aborted>>
  BY LoopAssumption DEF Collect, IInv, LoopOk, sandbox, world, LoopAssumption
<1>2. loop' = [loop EXCEPT
               !.noticed = loop.noticed \/ notice,
               !.pc = IF stop THEN "ended" ELSE "head",
               !.stop = IF stop THEN "repeated_tool_calls" ELSE "none"]
  BY <1>1 DEF Collect, IInv, LoopOk
<1>3. counts \in [Signatures -> Nat]
  BY UsesAreCounted DEF TrackRepeats, IInv, RepeatsOk
<1>4. worst \in Nat /\ \A s \in Signatures : counts[s] <= worst
  BY <1>3, Worst
<1>5. streak' = [s \in Signatures |-> IF Uses(s) = 0 THEN 0 ELSE streak[s] + 1]
  BY DEF Collect
<1>6. /\ loop'.pc = (IF stop THEN "ended" ELSE "head") /\ loop'.noticed = (loop.noticed \/ notice)
      /\ loop'.turns = loop.turns /\ LoopOk'
  <2> HIDE DEF counts, worst, notice, results, sent
  <2>1. loop' \in [pc : {"head", "recording", "asking", "failing", "tools", "ended"},
                   turns : Nat, out : Nat, noticed : BOOLEAN,
                   stop : StopReasons \cup {"none"}, listening : BOOLEAN,
                   timedOut : BOOLEAN, cancelled : BOOLEAN]
    BY <1>2 DEF IInv, LoopOk, StopReasons, notice
  <2>2. /\ loop'.pc = (IF stop THEN "ended" ELSE "head") /\ loop'.noticed = (loop.noticed \/ notice)
        /\ loop'.turns = loop.turns /\ (loop'.stop # "none" <=> stop)
    BY <1>2 DEF IInv, LoopOk
  <2>. QED  BY <1>1, <2>1, <2>2 DEF IInv, LoopOk
<1>7. CallsOk'
  BY <1>1, LoopAssumption DEF CallsOk, LoopAssumption
<1>8. TalkOk'
  <2>1. results \subseteq Ids /\ [turn |-> loop.turns, n |-> 0] \in Ids
    BY <1>1, UsesAreIds, LoopAssumption DEF IInv, CallsOk, Ids, LoopAssumption
  <2>2. sent \subseteq Ids /\ results \subseteq sent
    <3> HIDE DEF notice, results
    <3>. QED  BY <2>1
  <2>3. /\ messages \in Conversation /\ Len(messages) \in Nat /\ messages # <<>>
        /\ \A i \in 1 .. Len(messages) - 1 : Answered(messages, i)
        /\ messages[Len(messages)].uses = results
    BY <1>1 DEF IInv, TalkOk, Conversation
  <2> HIDE DEF sent, results
  <2>4. /\ messages' \in Conversation /\ Len(messages') = Len(messages) + 1
        /\ messages'[Len(messages')].uses = {} /\ messages'[Len(messages')].results = sent
        /\ \A i \in 1 .. Len(messages) : messages'[i] = messages[i]
        /\ DOMAIN messages' = 1 .. Len(messages) + 1
    <3>1. ToModel(sent) \in [uses : SUBSET Ids, results : SUBSET Ids, kept : BOOLEAN]
          /\ ToModel(sent).uses = {} /\ ToModel(sent).results = sent
      BY <2>2 DEF ToModel
    <3>. QED  BY <1>1, <2>3, <3>1 DEF Conversation
  <2>5. ASSUME NEW i \in 1 .. Len(messages) PROVE Answered(messages', i)
    <3>1. CASE i = Len(messages)
      BY <2>2, <2>3, <2>4, <3>1 DEF Answered
    <3>2. CASE i \in 1 .. Len(messages) - 1
      BY <2>3, <2>4, <3>2 DEF Answered
    <3>. QED  BY <2>3, <3>1, <3>2
  <2>6. Answered(messages', Len(messages) + 1)
    BY <2>4 DEF Answered
  <2>7. \A i \in DOMAIN messages' : Answered(messages', i)
    BY <2>3, <2>4, <2>5, <2>6
  <2>. QED  BY <1>6, <2>4, <2>7 DEF TalkOk
<1>9. AnchorOk'
  <2>1. ~Changing
    BY <1>1 DEF Changing
  <2>2. DOMAIN calls' = {}
    BY <1>1
  <2>. QED  BY <1>1, <2>1, <2>2 DEF IInv, AnchorOk
<1>10. RepeatsOk'
  <2>1. ASSUME NEW s \in Signatures
        PROVE  /\ streak'[s] \in Nat /\ streak'[s] <= repeats'[s] /\ streak'[s] <= loop'.turns
    <3>1. /\ streak[s] \in Nat /\ repeats[s] \in Nat /\ streak[s] <= repeats[s]
          /\ streak[s] < loop.turns /\ Uses(s) \in Nat
      BY <1>1, UsesAreCounted DEF IInv, RepeatsOk
    <3>2. /\ streak'[s] = IF Uses(s) = 0 THEN 0 ELSE streak[s] + 1
          /\ repeats'[s] = IF Uses(s) = 0 THEN 0 ELSE repeats[s] + Uses(s)
      BY <1>1, <1>5 DEF TrackRepeats
    <3>. QED  BY <1>1, <1>6, <3>1, <3>2
  <2>2. repeats' \in [Signatures -> Nat] /\ streak' \in [Signatures -> Nat]
    BY <1>1, <1>3, <1>5, <2>1
  <2>3. ASSUME loop'.pc = "head", NEW s \in Signatures
        PROVE  repeats'[s] < RepeatStop /\ (repeats'[s] >= RepeatNotice => loop'.noticed)
    <3>1. ~stop
      BY <1>6, <2>3
    <3>2. repeats'[s] \in Nat /\ repeats'[s] <= worst
      BY <1>1, <1>3, <1>4
    <3> HIDE DEF worst
    <3>3. RepeatStop \in Nat /\ RepeatNotice \in Nat /\ RepeatNotice < RepeatStop
      BY LoopAssumption DEF LoopAssumption
    <3>4. worst < RepeatNotice \/ (~loop.noticed /\ worst < RepeatStop /\ notice)
      BY <1>4, <3>1, <3>3 DEF worst
    <3>5. worst \in Nat
      BY <1>4
    <3> HIDE DEF notice
    <3>6. CASE worst < RepeatNotice
      BY <3>2, <3>3, <3>5, <3>6
    <3>7. CASE worst < RepeatStop /\ notice
      <4>1. loop'.noticed
        BY <1>6, <3>7
      <4>. QED  BY <3>2, <3>3, <3>5, <3>7, <4>1
    <3>. QED  BY <3>4, <3>6, <3>7
  <2>. QED  BY <1>6, <2>1, <2>2, <2>3 DEF RepeatsOk
<1>. QED  BY <1>6, <1>7, <1>8, <1>9, <1>10 DEF IInv

-----------------------------------------------------------------------------
(* The theorems. *)

LEMMA Inductive == Spec => []IInv
<1>1. ASSUME IInv, [Next]_vars PROVE IInv'
  <2>1. CASE LoopStep
    BY <1>1, <2>1, BetweenTurns, TurnBegins, ResultsGoBack
       DEF LoopStep, CutByTimer, CutByCaller
  <2>2. CASE (\E i \in 1 .. MaxUses : Tool(i)) \/ UnseenChange
    BY <1>1, <2>2, ToolSteps, UnseenChangeKeeps
  <2>3. CASE ModelAnswers \/ ModelFails \/ TimerFiresLate \/ CallerAborts \/ DeadlinePasses
    BY <1>1, <2>3, Answer, BetweenTurns, WorldSteps DEF ModelFails
  <2>4. CASE UNCHANGED vars
    <3>1. LoopOk' /\ CallsOk'
      BY <1>1, <2>4 DEF vars, IInv, LoopOk, CallsOk
    <3>2. TalkOk'
      BY <1>1, <2>4 DEF vars, IInv, TalkOk, Answered, UseIds
    <3>3. AnchorOk' /\ RepeatsOk'
      BY <1>1, <2>4 DEF vars, IInv, AnchorOk, Changing, RepeatsOk
    <3>. QED  BY <3>1, <3>2, <3>3 DEF IInv
  <2>. QED  BY <1>1, <2>1, <2>2, <2>3, <2>4 DEF Next
<1>. QED  BY Start, <1>1, PTL DEF Spec

\* Every tool use is answered by the next message, in each conversation that is
\* sent and in the one the run returns, but for those of a last answer that ended
\* the run by its reason: for any number of turns and tool uses, any limits and
\* however results are elided (loop.ts: runAgentLoop, trimOldToolResults).
THEOREM ConversationIsPaired == Spec => []EveryUseIsAnswered
<1>1. IInv => EveryUseIsAnswered
  BY DEF IInv, TalkOk, Answered, EveryUseIsAnswered, LoopOk
<1>. QED  BY Inductive, <1>1, PTL

\* A run that goes on has not repeated one call in RepeatStop consecutive turns,
\* and has been told of one it repeated in RepeatNotice of them, for any
\* thresholds and any number of parallel calls (loop.ts:531, trackRepeats).
THEOREM RepeatsAreNoticed == Spec => []RepeatsAreCaught
<1>1. IInv => RepeatsAreCaught
  <2> SUFFICES ASSUME IInv, loop.pc = "head", NEW s \in Signatures
               PROVE  streak[s] < RepeatStop /\ (streak[s] >= RepeatNotice => loop.noticed)
    BY DEF RepeatsAreCaught
  <2>1. /\ streak[s] \in Nat /\ repeats[s] \in Nat /\ streak[s] <= repeats[s]
        /\ repeats[s] < RepeatStop /\ (repeats[s] >= RepeatNotice => loop.noticed)
    BY DEF IInv, RepeatsOk
  <2>. QED  BY <2>1, LoopAssumption DEF LoopAssumption
<1>. QED  BY Inductive, <1>1, PTL

\* Between turns an anchor gives the place of its line unless it carries a doubt,
\* which only what the code takes no notice of gives it (see the property): for
\* any contents of the file and any interleaving of any number of calls, a change
\* that is seen to end leaves no wrong anchor (tools/read.ts, bash.ts, write.ts).
THEOREM AnchorsGoStaleForACause == Spec => []StaleAnchorHasACause
<1>1. IInv => StaleAnchorHasACause
  <2> SUFFICES ASSUME IInv, loop.pc = "head", anchor.line # 0, ~anchor.doubt
               PROVE  anchor.offset = file.start[anchor.line]
    BY DEF StaleAnchorHasACause
  <2>1. calls = <<>>
    BY DEF IInv, CallsOk
  <2>2. ~Changing
    BY <2>1 DEF Changing
  <2>. QED  BY <2>2 DEF IInv, AnchorOk
<1>. QED  BY Inductive, <1>1, PTL
=============================================================================
