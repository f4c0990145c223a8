----------------------------- MODULE EventStream -----------------------------
(***************************************************************************)
(* The events of one execution, from the pipes of the command to the       *)
(* control plane: output mergers (exec/output.ts), output budget and       *)
(* finalization (exec/spawn.ts), event buffer (exec/events.ts) and the SSE *)
(* client that reads it over connections that end (client/sse.ts).         *)
(* An event is its type and size, and for output the place of its bytes in *)
(* what the command wrote; its id is the place in the log of all events    *)
(* ever published.                                                         *)
(***************************************************************************)
EXTENDS Integers, Sequences, FiniteSets, FiniteSetsExt

CONSTANTS
  ChunkBytes,    \* a merger passes on what has reached this size
  MaxOutput,     \* maxOutputBytes, the budget of inline output
  MaxEvents,     \* capacity of the buffer in events ...
  MaxBytes,      \* ... and in bytes
  MaxReconnects,
  MaxWrite,      \* bound: bytes of one read from a pipe
  MaxWritten,    \* bound: bytes the command writes
  MaxTrouble     \* bound: troubles of the log file

ASSUME SizesAssumption ==
  /\ ChunkBytes \in Nat \ {0} /\ MaxOutput \in Nat \ {0}
  /\ MaxEvents \in Nat \ {0} /\ MaxBytes \in Nat \ {0}
  /\ MaxReconnects \in Nat /\ MaxWrite \in Nat /\ MaxWritten \in Nat /\ MaxTrouble \in Nat

Stream == {"stdout", "stderr"}

VARIABLES
  sent,     \* log and oldest of the bus, inlineBytes and truncated of the record
  pending,  \* #bytes of each merger
  written,  \* stdoutBytes and stderrBytes
  eof,      \* stdoutEnded and stderrEnded
  exited,   \* childExited
  phase,    \* running, finishing, closed
  trouble,  \* what LogFile has reported
  client,   \* connecting, reading, finished, failed
  cursor,   \* lastEventId, 0 for null
  attempt,  \* reconnects so far
  wire,     \* frames of the current connection that were not read yet
  got       \* all frames read; a frame is an event's id, or Gap

outputVars == <<sent, pending, written, eof, exited, phase, trouble>>
clientVars == <<client, cursor, attempt, wire, got>>
vars == <<outputVars, clientVars>>

Gap == 0

(* `size` bytes of stream s after the first `from`; anything else.         *)
Chunk(s, from, size) == [type |-> s, from |-> from, size |-> size]
Notice(type) == [type |-> type, from |-> 0, size |-> 1]

log == sent.log

Quiet(l) == [log |-> l, oldest |-> 1, inline |-> 0, truncated |-> FALSE]

Init ==
  /\ \/ sent = Quiet(<<Notice("started")>>) /\ phase = "running"
     \/ sent = Quiet(<<>>) /\ phase = "finishing"
  /\ pending = [s \in Stream |-> 0]
  /\ written = [s \in Stream |-> 0]
  /\ eof = [s \in Stream |-> FALSE]
  /\ exited = FALSE
  /\ trouble = {}
  /\ client = "connecting" /\ cursor = 0 /\ attempt = 0
  /\ wire = <<>> /\ got = <<>>

------------------------------------------------------------------------------

(* The event with id `first` and its successors fit in the buffer; the     *)
(* last event always does.                                                 *)
Fits(l, first) ==
  \/ first = Len(l)
  \/ /\ Len(l) - first + 1 <= MaxEvents
     /\ MapThenSumSet(LAMBDA k : l[k].size, first .. Len(l)) <= MaxBytes

(* EventBus.publish: the event enters the buffer, then the oldest ones     *)
(* leave it until the rest fits.                                           *)
Publish(o, event) ==
  LET l == Append(o.log, event)
  IN [log |-> l, oldest |-> Min({k \in o.oldest .. Len(l) : Fits(l, k)}),
      inline |-> o.inline, truncated |-> o.truncated]

(* emitChunk: b bytes within the budget, or the prefix that fits (whole    *)
(* characters only, so `fit` bytes of it), once, and then the notice.      *)
EmitChunk(o, s, from, b, fit) ==
  LET left == MaxOutput - o.inline
      prefix == IF fit <= left THEN fit ELSE left
      out(n) == IF n = 0 THEN o ELSE [Publish(o, Chunk(s, from, n)) EXCEPT !.inline = @ + n]
  IN IF b = 0 \/ o.truncated THEN o
     ELSE IF b <= left THEN out(b)
     ELSE [Publish(out(prefix), Notice("output_limit")) EXCEPT !.truncated = TRUE]

(* What was published goes to the subscriber of the current connection.    *)
Deliver(o) ==
  /\ sent' = o
  /\ wire' = IF client = "reading"
             THEN wire \o [k \in 1 .. Len(o.log) - Len(log) |-> Len(log) + k]
             ELSE wire

(* finalize up to log.end(): timers off, mergers closed.  What they still  *)
(* hold is refused by emitChunk, as `finishing` is set already.            *)
Finalize == phase' = "finishing" /\ pending' = [s \in Stream |-> 0]

(* LogFile is full (told in a data callback, before the output itself) or  *)
(* broken; each at most once.                                              *)
Report(o, kind) == Publish(o, Notice(kind))

MayReport(kind) == kind \notin trouble /\ Cardinality(trouble) < MaxTrouble

(* A read from a pipe: LogFile.write, then OutputMerger.push, which        *)
(* flushes before what would not fit in the chunk, and a chunk that is     *)
(* full.                                                                   *)
Data(s) ==
  /\ phase = "running" /\ ~ eof[s]
  /\ \E b \in 1 .. MaxWrite, fit \in 0 .. MaxOutput, full \in BOOLEAN :
       /\ written["stdout"] + written["stderr"] + b <= MaxWritten
       /\ written' = [written EXCEPT ![s] = @ + b]
       /\ full => MayReport("log_limit")
       /\ trouble' = IF full THEN trouble \cup {"log_limit"} ELSE trouble
       /\ LET from == written[s] - pending[s]
              early == IF pending[s] + b > ChunkBytes THEN pending[s] ELSE 0
              held == pending[s] - early + b
              late == IF held >= ChunkBytes THEN held ELSE 0
              told == IF full THEN Report(sent, "log_limit") ELSE sent
          IN /\ Deliver(EmitChunk(EmitChunk(told, s, from, early, fit), s, from + early, late, fit))
             /\ pending' = [pending EXCEPT ![s] = held - late]
  /\ UNCHANGED <<eof, exited, phase, client, cursor, attempt, got>>

(* OutputMerger.flush: what the merger holds are the last bytes read.      *)
Emit(o, s, fit) == EmitChunk(o, s, written[s] - pending[s], pending[s], fit)

(* The flush interval of a merger. *)
Flush(s) ==
  /\ phase = "running" /\ pending[s] > 0
  /\ \E fit \in 0 .. MaxOutput : Deliver(Emit(sent, s, fit))
  /\ pending' = [pending EXCEPT ![s] = 0]
  /\ UNCHANGED <<written, eof, exited, phase, trouble, client, cursor, attempt, got>>

(* Both mergers, stdout first. *)
EmitPending(fit) == Deliver(Emit(Emit(sent, "stdout", fit), "stderr", fit))

(* requestKill flushes both mergers. *)
KillFlush ==
  /\ phase = "running"
  /\ \E s \in Stream : pending[s] > 0
  /\ \E fit \in 0 .. MaxOutput : EmitPending(fit)
  /\ pending' = [s \in Stream |-> 0]
  /\ UNCHANGED <<written, eof, exited, phase, trouble, client, cursor, attempt, got>>

(* The end of a pipe: the merger ends, and maybeComplete. *)
Eof(s) ==
  /\ phase = "running" /\ ~ eof[s]
  /\ eof' = [eof EXCEPT ![s] = TRUE]
  /\ \E fit \in 0 .. MaxOutput : Deliver(Emit(sent, s, fit))
  /\ IF exited /\ \A t \in Stream \ {s} : eof[t]
     THEN Finalize
     ELSE pending' = [pending EXCEPT ![s] = 0] /\ UNCHANGED phase
  /\ UNCHANGED <<written, exited, trouble, client, cursor, attempt, got>>

(* The command exits: it is complete, or the drain window opens.           *)
Exits ==
  /\ phase = "running" /\ ~ exited
  /\ exited' = TRUE
  /\ IF \A s \in Stream : eof[s] THEN Finalize ELSE UNCHANGED <<pending, phase>>
  /\ UNCHANGED <<sent, written, eof, trouble, clientVars>>

(* Mutant: the mergers are left to finalize. *)
DrainFires_NoEnd ==
  /\ phase = "running" /\ exited
  /\ Finalize
  /\ UNCHANGED <<sent, written, eof, exited, trouble, clientVars>>

(* Mutant: the window is only opened once a pipe has ended. *)
DrainFires_AfterEof ==
  /\ phase = "running" /\ exited /\ \E s \in Stream : eof[s]
  /\ \E fit \in 0 .. MaxOutput : EmitPending(fit)
  /\ Finalize
  /\ UNCHANGED <<written, eof, exited, trouble, client, cursor, attempt, got>>

(* The drain window closes over a pipe that is still held open.            *)
DrainFires ==
  /\ phase = "running" /\ exited
  /\ \E fit \in 0 .. MaxOutput : EmitPending(fit)
  /\ Finalize
  /\ UNCHANGED <<written, eof, exited, trouble, client, cursor, attempt, got>>

(* The child's error event: the command was not found. *)
SpawnError ==
  /\ phase = "running" /\ ~ exited
  /\ \A s \in Stream : written[s] = 0 /\ ~ eof[s]
  /\ Finalize
  /\ UNCHANGED <<sent, written, eof, exited, trouble, clientVars>>

(* A write to the log fails, at any time; publishIfOpen.                   *)
LogFails ==
  /\ phase # "closed" /\ MayReport("log_failed")
  /\ trouble' = trouble \cup {"log_failed"}
  /\ Deliver(Report(sent, "log_failed"))
  /\ UNCHANGED <<pending, written, eof, exited, phase, client, cursor, attempt, got>>

(* After log.end(): the terminal event, and the bus is closed.             *)
Announce ==
  /\ phase = "finishing"
  /\ phase' = "closed"
  /\ Deliver(Publish(sent, Notice("end")))
  /\ UNCHANGED <<pending, written, eof, exited, trouble, client, cursor, attempt, got>>

------------------------------------------------------------------------------
(* Mutant: the gap is noticed one event too late. *)
Subscribe_OffByOne ==
  LET first == IF cursor >= sent.oldest THEN cursor + 1 ELSE sent.oldest
  IN wire' = (IF cursor # 0 /\ cursor < sent.oldest - 2 THEN <<Gap>> ELSE <<>>)
               \o [k \in 1 .. Len(log) - first + 1 |-> first + k - 1]

(* EventBus.subscribe: the notice of a gap, then the replay.               *)
Subscribe ==
  LET first == IF cursor >= sent.oldest THEN cursor + 1 ELSE sent.oldest
  IN wire' = (IF cursor # 0 /\ cursor < sent.oldest - 1 THEN <<Gap>> ELSE <<>>)
               \o [k \in 1 .. Len(log) - first + 1 |-> first + k - 1]

(* readSseStream connects: the first time without a cursor.                *)
Connect ==
  /\ client = "connecting"
  /\ Subscribe
  /\ client' = "reading"
  /\ UNCHANGED <<outputVars, cursor, attempt, got>>

(* A connection that cannot be made, or breaks with an error, is final.    *)
Breaks ==
  /\ client \in {"connecting", "reading"}
  /\ client' = "failed"
  /\ wire' = <<>>
  /\ UNCHANGED <<outputVars, cursor, attempt, got>>

(* One frame: only events move the cursor; the consumer leaves at the      *)
(* terminal event.                                                         *)
Read ==
  /\ client = "reading" /\ wire # <<>>
  /\ got' = Append(got, Head(wire))
  /\ cursor' = IF Head(wire) = Gap THEN cursor ELSE Head(wire)
  /\ IF Head(wire) # Gap /\ log[Head(wire)].type = "end"
     THEN client' = "finished" /\ wire' = <<>>
     ELSE wire' = Tail(wire) /\ UNCHANGED client
  /\ UNCHANGED <<outputVars, attempt>>

(* The connection is ended by something in between, with the frames that   *)
(* are on their way; the client reconnects until it has no attempt left.   *)
Cut ==
  /\ client = "reading"
  /\ wire' = <<>>
  /\ IF attempt >= MaxReconnects
     THEN client' = "failed" /\ UNCHANGED attempt
     ELSE client' = "connecting" /\ attempt' = attempt + 1
  /\ UNCHANGED <<outputVars, cursor, got>>

------------------------------------------------------------------------------
CommandStep ==
  \/ \E s \in Stream : Data(s) \/ Flush(s) \/ Eof(s)
  \/ KillFlush \/ Exits \/ SpawnError

ClientStep == Connect \/ Breaks \/ Read \/ Cut

Next == CommandStep \/ DrainFires \/ LogFails \/ Announce \/ ClientStep

Spec == Init /\ [][Next]_vars

(* The drain timer fires, log.end() returns within a second, a client that *)
(* connects either succeeds or fails, and what was sent to it arrives.     *)
Fairness ==
  /\ WF_vars(DrainFires) /\ WF_vars(Announce)
  /\ WF_vars(Connect) /\ WF_vars(Read)

FairSpec == Spec /\ Fairness

------------------------------------------------------------------------------
EventTypes == Stream \cup {"started", "output_limit", "log_limit", "log_failed", "end"}

(* Types of all variables; a merger never holds a full chunk, and inline   *)
(* output stays within its budget.                                         *)
TypeOK ==
  /\ log \in Seq([type : EventTypes, from : Nat, size : Nat])
  /\ sent.oldest \in 1 .. Len(log) + 1 /\ (log # <<>> => sent.oldest <= Len(log))
  /\ sent.inline \in 0 .. MaxOutput /\ sent.truncated \in BOOLEAN
  /\ pending \in [Stream -> 0 .. ChunkBytes - 1]
  /\ written \in [Stream -> 0 .. MaxWritten]
  /\ eof \in [Stream -> BOOLEAN] /\ exited \in BOOLEAN
  /\ phase \in {"running", "finishing", "closed"}
  /\ trouble \subseteq {"log_limit", "log_failed"}
  /\ client \in {"connecting", "reading", "finished", "failed"}
  /\ cursor \in 0 .. Len(log) /\ attempt \in 0 .. MaxReconnects
  /\ wire \in Seq(0 .. Len(log)) /\ got \in Seq(0 .. Len(log))

(* Of two events read one after the other the second has the next id,      *)
(* unless notices of a gap came between them, and then it has not.         *)
Told(frames) ==
  \A i, j \in DOMAIN frames :
    (/\ i < j /\ frames[i] # Gap /\ frames[j] # Gap
     /\ \A k \in i + 1 .. j - 1 : frames[k] = Gap) =>
      frames[i] < frames[j] /\ (j = i + 1 <=> frames[j] = frames[i] + 1)

(* "No loss and no duplicate over a reconnect" (sse.ts:20): what the client *)
(* has read is consecutive but for the gaps it was told of, and none of    *)
(* these notices is wrong.                                                 *)
GapsAreTold == Told(got)

(* Among the given events, those of stream s carry its first `total` bytes, *)
(* every byte once and in the order it was written.                        *)
Kept(l, s, ids, total) ==
  LET mine == {k \in ids : l[k].type = s}
      end(k) == l[k].from + l[k].size
  IN /\ \A n \in 1 .. total : \E k \in mine : l[k].from < n /\ n <= end(k)
     /\ \A k \in mine : end(k) <= total
     /\ \A i, j \in mine : i < j => end(i) <= l[j].from

(* "What is sent is a contiguous beginning" (spawn.ts:406): the output     *)
(* events carry a beginning of each stream, within the budget, none after  *)
(* the notice of the limit, and the flag in the terminal event is set      *)
(* exactly when output is missing, whatever flushed the mergers last:      *)
(* timer, kill, end of a pipe, drain window.                               *)
InlineIsPrefix ==
  /\ \A i, j \in DOMAIN log : log[i].type = "output_limit" /\ i < j => log[j].type \notin Stream
  /\ \E cut \in [Stream -> 0 .. MaxWritten] :
       /\ cut["stdout"] + cut["stderr"] <= MaxOutput
       /\ \A s \in Stream : Kept(log, s, DOMAIN log, cut[s])
       /\ phase = "closed" => (sent.truncated <=> \E s \in Stream : cut[s] # written[s])

(* End to end: a client that reached the terminal event from the first     *)
(* event on, was told of no gap and reads truncated = FALSE has every byte *)
(* the command wrote, once and in order, over any number of connections.   *)
OutputComplete ==
  LET ids == {got[k] : k \in DOMAIN got}
  IN client = "finished" /\ got[1] = 1 /\ Gap \notin ids /\ ~ sent.truncated =>
       \A s \in Stream : Kept(log, s, ids, written[s])

(* What the buffer and what the client keep of the output.                 *)
OutputIsKept == InlineIsPrefix /\ OutputComplete

(* Once the command has exited, or could not start, the client reaches the *)
(* terminal event or fails: background processes that hold the pipes and   *)
(* evicted events do not leave it waiting.                                 *)
ClientSettles == exited \/ phase # "running" ~> client \in {"finished", "failed"}
=============================================================================
