----------------------------- MODULE AgentLoop -----------------------------
(***************************************************************************)
(* The agent's main loop in the control plane (agent/loop.ts) and the four *)
(* tools a model may call (agent/tools): one run, turn after turn.  A turn *)
(* asks the model, runs every tool use of its answer in parallel and sends *)
(* the results back in one message.  The calls of a turn interleave step   *)
(* by step; an abort and the wall clock may strike anywhere.               *)
(*                                                                         *)
(* Data.  One large file stands for the work tree: its content is where    *)
(* each of its lines starts and which of them begin with U+FEFF, which is  *)
(* all an anchor (a line and its offset) depends on.  A text is a block of *)
(* size one.  The anchors are an LRU table: that reads of other files      *)
(* evicted this one's is a choice of the next read.  The transcript is the *)
(* await in front of a request and after a failed one; its content and the *)
(* events are left out.                                                    *)
(***************************************************************************)
EXTENDS Integers, Sequences, FiniteSets, SequencesExt, FiniteSetsExt

CONSTANTS
    MaxTurns,       \* bound on model round trips (DEFAULT_MAX_TURNS)
    OutputBudget,   \* output tokens of a run (DEFAULT_OUTPUT_TOKEN_BUDGET)
    Spends,         \* the numbers of output tokens an answer costs
    MaxUses,        \* bound on the tool uses of one answer
    MaxChars,       \* context size above which old results are elided
    KeepRecent,     \* messages with results that are never elided
    RepeatNotice,   \* REPEAT_NOTICE_THRESHOLD
    RepeatStop,     \* REPEAT_STOP_THRESHOLD
    Lines,          \* the number of lines of the large file
    Files           \* the contents it takes

\* U+FEFF takes three bytes; a TextDecoder drops one with which its input begins.
BomBytes == 3

ASSUME LoopAssumption ==
    /\ MaxTurns \in Nat /\ OutputBudget \in Nat /\ MaxChars \in Nat
    /\ KeepRecent \in Nat /\ Spends \subseteq Nat /\ MaxUses \in Nat \ {0}
    /\ RepeatNotice \in Nat \ {0} /\ RepeatStop \in Nat /\ RepeatNotice < RepeatStop
    /\ Lines \in Nat \ {0}
    /\ \A f \in Files :
          /\ f.start \in [1 .. Lines -> Nat] /\ f.start[1] = 0
          /\ \A l, m \in 1 .. Lines : l < m => f.start[l] < f.start[m]
          /\ f.boms \subseteq 1 .. Lines
          /\ \A l \in f.boms, m \in 1 .. Lines : l < m => f.start[m] > f.start[l] + BomBytes

VARIABLES
    loop,      \* the locals of runAgentLoop and where it stands
    messages,  \* the conversation
    repeats,   \* how often each signature was counted in a row
    calls,     \* the tool calls of the turn
    file,      \* the large file in the sandbox
    left,      \* a command, or what it left behind, may still change the file
    anchor,    \* its entry in the table of read anchors, and a doubt (see there)
    late,      \* the run's deadline has passed
    aborted,   \* the caller's signal is aborted
    streak     \* history: turns in a row that used each signature

vars == <<loop, messages, repeats, calls, file, left, anchor, late, aborted, streak>>
world == <<late, aborted>>
sandbox == <<file, left, anchor>>
talk == <<messages, repeats, streak>>

Signatures == {"bash", "read", "write"}
\* Line 0 is no line.  "doubt" is history, kept with an anchor and with the read
\* that makes one: something happened that the code takes no notice of.
NoAnchor == [line |-> 0, offset |-> 0, doubt |-> FALSE]
StopReasons == {"end_turn", "refusal", "max_turns", "wall_clock", "output_token_budget",
                "repeated_tool_calls", "model_error", "aborted", "incomplete_response"}

-----------------------------------------------------------------------------
(* Messages. *)

Ids == [turn : 1 .. MaxTurns, n : 0 .. MaxUses]      \* n = 0 is the repeat notice
UserTask == [uses |-> {}, results |-> {}, kept |-> TRUE]
FromModel(ids) == [uses |-> ids, results |-> {}, kept |-> TRUE]
ToModel(ids) == [uses |-> {}, results |-> ids, kept |-> TRUE]

SizeOf(message) == IF message.kept THEN Cardinality(message.results) ELSE 0
ContextSize(msgs) == FoldSeq(LAMBDA m, sum : sum + SizeOf(m), 0, msgs)

\* The messages whose results may be elided: all that have some but the last.
Elidable(msgs) ==
    LET holding == {i \in DOMAIN msgs : msgs[i].results # {}}
    IN  {i \in holding : Cardinality({j \in holding : j > i}) >= KeepRecent}

\* Mutant: old results are removed instead of emptied.
Elide_Removes(msgs, which) ==
    [i \in DOMAIN msgs |-> IF i \in which THEN [msgs[i] EXCEPT !.results = {}] ELSE msgs[i]]

Elide(msgs, which) ==
    [i \in DOMAIN msgs |-> IF i \in which THEN [msgs[i] EXCEPT !.kept = FALSE] ELSE msgs[i]]

\* The oldest first, for as long as what is left is too large.
TrimOldToolResults(msgs) ==
    LET older(i) == {j \in Elidable(msgs) : j < i}
    IN  Elide(msgs, {i \in Elidable(msgs) : ContextSize(Elide(msgs, older(i))) > MaxChars})

-----------------------------------------------------------------------------
(* The loop's head: the three limits and the abort, before every model call. *)

Stop(reason) == loop' = [loop EXCEPT !.pc = "ended", !.stop = reason]

AtHead == loop.pc = "head" /\ loop.turns < MaxTurns
LimitReached == aborted \/ late \/ loop.out >= OutputBudget

OutOfTurns ==
    /\ loop.pc = "head" /\ loop.turns = MaxTurns
    /\ Stop("max_turns")
    /\ UNCHANGED <<talk, calls, sandbox, world>>

StopAtLimit ==
    /\ AtHead /\ LimitReached
    /\ Stop(IF aborted THEN "aborted" ELSE IF late THEN "wall_clock" ELSE "output_token_budget")
    /\ UNCHANGED <<talk, calls, sandbox, world>>

BeginTurn ==
    /\ AtHead /\ ~LimitReached
    /\ messages' = TrimOldToolResults(messages)
    /\ loop' = [loop EXCEPT !.pc = "recording", !.turns = @ + 1]
    /\ UNCHANGED <<repeats, streak, calls, sandbox, world>>

\* The request is on the transcript: arm the timer, listen to the caller's
\* signal (a listener on a signal that is already aborted is never called) and
\* call the model.
AskModel ==
    /\ loop.pc = "recording"
    /\ loop' = [loop EXCEPT !.pc = "asking", !.listening = ~aborted]
    /\ UNCHANGED <<talk, calls, sandbox, world>>

-----------------------------------------------------------------------------
(* The model. *)

\* The uses of an answer: how many calls of each signature, in a fixed order
\* (they all start together, so their order is immaterial).
Order == [bash |-> 1, read |-> 2, write |-> 3]
UseLists ==
    {us \in BoundedSeq(Signatures, MaxUses) :
        \A i, j \in DOMAIN us : i < j => Order[us[i]] <= Order[us[j]]}

\* Any reason may come with any uses: a missing stop_reason counts as end_turn,
\* and max_tokens may cut the answer before, between or after its uses.
Answers == [reason : {"end_turn", "refusal", "tool_use", "max_tokens"}, uses : UseLists]

UseIds(turn, uses) == {[turn |-> turn, n |-> i] : i \in DOMAIN uses}

\* The call at which a tool use starts.
Sent(name) == [name |-> name, at |-> "sent", line |-> 0, offset |-> 0, doubt |-> FALSE]

\* Why an answer ends the run; "none" if its tools are run.  The reason is looked
\* at before the uses are.
Ending(answer) ==
    CASE answer.reason \in {"end_turn", "refusal"} -> answer.reason
      [] answer.reason \in {"tool_use", "max_tokens"} ->
            IF answer.uses = <<>> THEN "incomplete_response" ELSE "none"

\* The answer is recorded and pushed whole.
ModelAnswers ==
    /\ loop.pc = "asking"
    /\ \E answer \in Answers, spent \in Spends :
        LET ending == Ending(answer)
        IN  /\ messages' = Append(messages, FromModel(UseIds(loop.turns, answer.uses)))
            /\ loop' = [loop EXCEPT !.out = @ + spent, !.stop = ending,
                                    !.pc = IF ending = "none" THEN "tools" ELSE "ended"]
            /\ calls' = IF ending = "none"
                        THEN [i \in DOMAIN answer.uses |-> Sent(answer.uses[i])] ELSE <<>>
    /\ UNCHANGED <<repeats, streak, sandbox, world>>

\* create() throws: the timer fired, the caller's abort was passed on, or the
\* round trip failed.  "aborted" is read here, before the record is written.
CallFails(timedOut) ==
    /\ loop.pc = "asking"
    /\ loop' = [loop EXCEPT !.pc = "failing", !.timedOut = timedOut, !.cancelled = aborted]
    /\ UNCHANGED <<talk, calls, sandbox, world>>
\* Mutant: the timer reaches the call only while the caller's signal is chained.
CutByTimer_Chained == late /\ loop.listening /\ CallFails(TRUE)

CutByTimer == late /\ CallFails(TRUE)
CutByCaller == aborted /\ loop.listening /\ CallFails(FALSE)
ModelFails == CallFails(FALSE)

\* The timer is disposed of only after the record is written.
TimerFiresLate ==
    /\ loop.pc = "failing" /\ late /\ ~loop.timedOut
    /\ loop' = [loop EXCEPT !.timedOut = TRUE]
    /\ UNCHANGED <<talk, calls, sandbox, world>>

GiveUp ==
    /\ loop.pc = "failing"
    /\ Stop(IF loop.timedOut THEN "wall_clock"
            ELSE IF loop.cancelled THEN "aborted" ELSE "model_error")
    /\ UNCHANGED <<talk, calls, sandbox, world>>

-----------------------------------------------------------------------------
(* The tools.  Each call of a turn runs on its own; a failure becomes a      *)
(* result with is_error and never an exception.                              *)

Running(i) == loop.pc = "tools" /\ i \in DOMAIN calls
Is(i, name, at) == Running(i) /\ calls[i].name = name /\ calls[i].at = at
Move(i, at) == calls' = [calls EXCEPT ![i].at = at]
\* The call is over, and its locals are gone.
Done(i) ==
    calls' = [calls EXCEPT ![i] =
                 [name |-> @.name, at |-> "done", line |-> 0, offset |-> 0, doubt |-> FALSE]]

\* A change of which the control plane waits for the end.
Changing == \E i \in DOMAIN calls : calls[i].name \in {"bash", "write"} /\ calls[i].at = "landed"

\* The calls, with a doubt about every read that is between two windows.
Overtaken == [i \in DOMAIN calls |->
    IF calls[i].at = "half" THEN [calls[i] EXCEPT !.doubt = TRUE] ELSE calls[i]]
Doubted == IF anchor.line = 0 THEN anchor ELSE [anchor EXCEPT !.doubt = TRUE]

\* The call ends before anything changed: bad arguments, an unknown tool, a
\* path out of bounds, a busy sandbox.
Rejected(i) ==
    /\ Running(i) /\ calls[i].at = "sent"
    /\ Move(i, "done")
    /\ UNCHANGED <<loop, talk, sandbox, world>>

\* The file was small enough to come in one piece, or cannot be read at all.
ReadInline(i) ==
    /\ Is(i, "read", "sent")
    /\ Move(i, "done")
    /\ UNCHANGED <<loop, talk, sandbox, world>>

FileChanges == file' \in Files

\* A change reaches the sandbox.
Lands(i) ==
    /\ FileChanges
    /\ calls' = [Overtaken EXCEPT ![i].at = "landed"]
    /\ UNCHANGED <<loop, talk, anchor, world>>

\* A command runs.  One at a time: the execution gate refuses a second one
\* (Rejected).  It may change the file again until it is over, and a process it
\* leaves in the background even after that.
CommandLands(i) ==
    /\ Is(i, "bash", "sent")
    /\ ~\E j \in DOMAIN calls : Is(j, "bash", "landed")
    /\ Lands(i) /\ left' = TRUE

PutLands(i) ==
    /\ Is(i, "write", "sent")
    /\ Lands(i) /\ UNCHANGED left

\* Whatever no call waits for changes the file: no anchor is dropped.
UnseenChange ==
    /\ left /\ loop.pc # "ended"
    /\ FileChanges
    /\ calls' = Overtaken /\ anchor' = Doubted
    /\ UNCHANGED <<loop, talk, left, world>>

\* Mutant: a command leaves the anchors alone.
CommandReturns_KeepsAnchors(i) ==
    /\ Is(i, "bash", "landed")
    /\ Move(i, "done")
    /\ UNCHANGED <<loop, talk, sandbox, world>>

\* execInSandbox returns: every anchor is dropped.  The tail of its log is read
\* unless there is none.
CommandReturns(i) ==
    /\ Is(i, "bash", "landed")
    /\ anchor' = NoAnchor
    /\ Move(i, "tail") \/ Move(i, "done")
    /\ UNCHANGED <<loop, talk, file, left, world>>

\* The log is in, or cannot be had: the events take its place.
TailRead(i) ==
    /\ Is(i, "bash", "tail")
    /\ Move(i, "done")
    /\ UNCHANGED <<loop, talk, sandbox, world>>

\* putFile returns: the path's anchor is dropped.
PutReturns(i) ==
    /\ Is(i, "write", "landed")
    /\ anchor' = NoAnchor /\ Move(i, "done")
    /\ UNCHANGED <<loop, talk, file, left, world>>

\* The stream or the reply is lost after the change: the call throws and the
\* anchors stay as they are.
ChangeLost(i) ==
    /\ Running(i) /\ calls[i].name \in {"bash", "write"} /\ calls[i].at = "landed"
    /\ anchor' = Doubted /\ Move(i, "done")
    /\ UNCHANGED <<loop, talk, file, left, world>>

\* The call throws before the change: it may come later.
ChangeDelayed(i) ==
    /\ Running(i) /\ calls[i].name \in {"bash", "write"} /\ calls[i].at = "sent"
    /\ left' = TRUE /\ Move(i, "done")
    /\ UNCHANGED <<loop, talk, file, anchor, world>>

\* Byte p lies in line l.
InLine(p, l) == file.start[l] <= p /\ (l < Lines => p < file.start[l + 1])

\* A scan from byte p, in line l, drops the mark with which its input begins.
DropsBom(p, l) == l \in file.boms /\ file.start[l] = p

\* The offset scanLines computes for the line n lines after byte p, in line l: it
\* adds up the lengths of the lines as decoded.
Scanned(p, l, n) ==
    IF n = 0 THEN p ELSE file.start[l + n] - (IF DropsBom(p, l) THEN BomBytes ELSE 0)

Top == [line |-> 1, offset |-> 0, doubt |-> FALSE]

\* The file is too large to come in one piece: a scan begins at its anchor, if
\* that is not beyond the line asked for, or at byte 0.  "last" is the last line
\* the read will show, n lines after the one where it begins.
ReadBegins(i) ==
    /\ Is(i, "read", "sent")
    /\ \E last, l \in 1 .. Lines, from \in {Top, anchor} :
        LET n == last - from.line
        IN  /\ from.line >= 1 /\ n >= 0 /\ InLine(from.offset, l) /\ l + n <= Lines
            /\ calls' = [calls EXCEPT ![i] = [@ EXCEPT
                   !.at = "half", !.line = last, !.offset = Scanned(from.offset, l, n),
                   !.doubt = \/ from.doubt \/ (from # Top /\ Changing)
                             \/ n > 0 /\ DropsBom(from.offset, l)]]
    /\ UNCHANGED <<loop, talk, sandbox, world>>

\* The last window is in: the last line shown becomes the anchor.
ReadEnds(i) ==
    /\ Running(i) /\ calls[i].at = "half"
    /\ anchor' = [line |-> calls[i].line, offset |-> calls[i].offset, doubt |-> calls[i].doubt]
    /\ Done(i)
    /\ UNCHANGED <<loop, talk, file, left, world>>

\* A window cannot be read or decoded.
ReadFails(i) ==
    /\ Running(i) /\ calls[i].at = "half"
    /\ Done(i)
    /\ UNCHANGED <<loop, talk, sandbox, world>>

-----------------------------------------------------------------------------
(* All calls are done: repeats are counted, the results go into one message. *)

Uses(name) == Cardinality({i \in DOMAIN calls : calls[i].name = name})

\* Mutant: the counts start afresh every turn.
TrackRepeats_Forgets == [s \in Signatures |-> Uses(s)]

\* A signature the turn did not use starts again at zero.
TrackRepeats == [s \in Signatures |-> IF Uses(s) = 0 THEN 0 ELSE repeats[s] + Uses(s)]

Collect ==
    LET counts == TrackRepeats
        worst == Max({counts[s] : s \in Signatures})
        stop == worst >= RepeatNotice /\ (loop.noticed \/ worst >= RepeatStop)
        notice == worst >= RepeatNotice /\ ~stop
        results == UseIds(loop.turns, calls)
    IN  /\ loop.pc = "tools" /\ \A i \in DOMAIN calls : calls[i].at = "done"
        /\ repeats' = counts
        /\ messages' = Append(messages, ToModel(
               IF notice THEN results \cup {[turn |-> loop.turns, n |-> 0]} ELSE results))
        /\ loop' = [loop EXCEPT
               !.noticed = @ \/ notice,
               !.pc = IF stop THEN "ended" ELSE "head",
               !.stop = IF stop THEN "repeated_tool_calls" ELSE @]
        /\ streak' = [s \in Signatures |-> IF Uses(s) = 0 THEN 0 ELSE streak[s] + 1]
        /\ calls' = <<>>
        /\ UNCHANGED <<sandbox, world>>

-----------------------------------------------------------------------------
(* The world: the caller cancels, the deadline passes.  Neither is looked at *)
(* while the tools run, so both are let happen only before or after that.    *)

CallerAborts ==
    /\ loop.pc \in {"head", "recording", "asking"} /\ ~aborted
    /\ aborted' = TRUE
    /\ UNCHANGED <<loop, talk, calls, sandbox, late>>

DeadlinePasses ==
    /\ loop.pc \notin {"tools", "ended"} /\ ~late
    /\ late' = TRUE
    /\ UNCHANGED <<loop, talk, calls, sandbox, aborted>>

Init ==
    /\ loop = [pc |-> "head", turns |-> 0, out |-> 0, noticed |-> FALSE, stop |-> "none",
               listening |-> FALSE, timedOut |-> FALSE, cancelled |-> FALSE]
    /\ messages = <<UserTask>>
    /\ repeats = [s \in Signatures |-> 0] /\ streak = [s \in Signatures |-> 0]
    /\ calls = <<>>
    /\ file \in Files /\ left = FALSE /\ anchor = NoAnchor
    /\ late = FALSE /\ aborted = FALSE

Tool(i) ==
    \/ Rejected(i) \/ ReadInline(i) \/ CommandLands(i) \/ CommandReturns(i) \/ TailRead(i)
    \/ PutLands(i) \/ PutReturns(i) \/ ChangeLost(i) \/ ChangeDelayed(i)
    \/ ReadBegins(i) \/ ReadEnds(i) \/ ReadFails(i)

\* What the loop does by itself.
LoopStep ==
    \/ OutOfTurns \/ StopAtLimit \/ BeginTurn \/ AskModel
    \/ CutByTimer \/ CutByCaller \/ GiveUp \/ Collect

Next ==
    \/ LoopStep \/ (\E i \in 1 .. MaxUses : Tool(i)) \/ UnseenChange
    \/ ModelAnswers \/ ModelFails \/ TimerFiresLate \/ CallerAborts \/ DeadlinePasses

\* What has no time limit: the windows of a large read and of a log, and a command.
Unlimited(i) ==
    calls[i].at \in {"half", "tail"} \/ (calls[i].name = "bash" /\ calls[i].at = "landed")

\* Requests for a whole file, a write and the start of a command have time limits;
\* a window does not (sandbox-api.ts, #openStream: the signal it takes is never
\* given), and execInSandbox may wait for ever for an end it missed.  The model
\* may stay silent for ever.  Time passes.
Spec ==
    /\ Init /\ [][Next]_vars
    /\ WF_vars(LoopStep) /\ WF_vars(DeadlinePasses)
    /\ WF_vars(\E i \in 1 .. MaxUses : Running(i) /\ ~Unlimited(i) /\ Tool(i))

-----------------------------------------------------------------------------
(* Properties. *)

\* Every variable stays in its domain; the conversation alternates.
TypeOK ==
    /\ loop.pc \in {"head", "recording", "asking", "failing", "tools", "ended"}
    /\ loop.turns \in 0 .. MaxTurns
    /\ loop.out \in Nat
    /\ loop.stop \in StopReasons \cup {"none"} /\ (loop.stop # "none" <=> loop.pc = "ended")
    /\ \A i \in DOMAIN messages :
        /\ messages[i].uses \subseteq Ids /\ messages[i].results \subseteq Ids
        /\ messages[i].uses # {} => messages[i].results = {}
    /\ repeats \in [Signatures -> Nat] /\ streak \in [Signatures -> 0 .. MaxTurns]
    /\ file \in Files /\ left \in BOOLEAN
    /\ anchor \in [line : 0 .. Lines, offset : Nat, doubt : BOOLEAN]
    /\ \A i \in DOMAIN calls :
        calls[i] \in [name : Signatures, at : {"sent", "landed", "half", "tail", "done"},
                      line : 0 .. Lines, offset : Nat, doubt : BOOLEAN]

\* What the API demands of a conversation: every tool use is answered in the
\* very next message.  It holds of every request sent, after any eliding, and of
\* the conversation the run returns; of that one, the model's last message is
\* excepted if its end_turn or refusal ended the run, whatever uses it carries.
EveryUseIsAnswered ==
    loop.pc \in {"asking", "ended"} =>
        \A i \in DOMAIN messages :
            \/ messages[i].uses = {}
            \/ i < Len(messages) /\ messages[i].uses \subseteq messages[i + 1].results
            \/ i = Len(messages) /\ loop.stop \in {"end_turn", "refusal"}

\* A run that goes on has not made one call in RepeatStop consecutive turns,
\* and one made in RepeatNotice of them has been pointed out to the model.
RepeatsAreCaught ==
    loop.pc = "head" =>
        \A s \in Signatures :
            /\ streak[s] < RepeatStop
            /\ streak[s] >= RepeatNotice => loop.noticed

\* Between turns the anchor gives the place of its line.  The causes of another
\* place, each a doubt where it arises:
\*   - a change between the first window of the read that made it and its end;
\*   - the read began at an anchor which a change under way had made stale;
\*   - the reply to the change that made it stale was lost, or the call was given
\*     up before the change;
\*   - a process that a command left behind made the change;
\*   - the read began its scan at a U+FEFF.
\* A bash or a write that is seen to end is never one.
StaleAnchorHasACause ==
    (loop.pc = "head" /\ anchor.line # 0) =>
        anchor.doubt \/ anchor.offset = file.start[anchor.line]

\* Every run ends, even if the model never answers (the timer cuts the call),
\* unless it waits for ever for a tool whose wait has no time limit.
RunEndsUnlessCallHangs ==
    <>(loop.pc = "ended") \/ <>[](\E i \in DOMAIN calls : Unlimited(i))
=============================================================================
