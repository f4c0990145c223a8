----------------------------- MODULE EgressProxy -----------------------------
(***************************************************************************)
(* The egress proxy: the control plane's side that keeps one container of  *)
(* it (provider/egress-proxy.ts: ensureRunning, reload, stop, called by    *)
(* several programs at once), and the process inside                       *)
(* (deploy/egress-proxy/src/proxy.ts): its start, its signals, its list    *)
(* and the callbacks of one connection, a CONNECT tunnel or a plain        *)
(* request, each callback a step.                                          *)
(*                                                                         *)
(* Data.  An image is the number of its build.  The bytes, the texts of    *)
(* the answers and the fields of a log line are left out; a log line is    *)
(* counted.  The container sees the file through a bind mount, which may   *)
(* show a change late or, when the file was replaced, never.               *)
(***************************************************************************)
EXTENDS Allowlist, FiniteSets

CONSTANTS
    Files,       \* the contents the allow-list file takes, sets of lines
    First,       \* the one it starts with
    Missing,     \* the file is not there or not a regular file
    Hosts,       \* the hosts that are asked for
    Callers,     \* programs that call the control plane's side
    MaxCalls,    \* bound on their calls
    MaxEdits,    \* bound on the changes of the file
    MaxBuilds,   \* bound on the builds of the image
    MaxRequests  \* bound on the requests of sandboxes

ASSUME EgressAssumption ==
    /\ MaxCalls \in Nat /\ MaxEdits \in Nat /\ MaxRequests \in Nat /\ MaxBuilds \in Nat \ {0}
    /\ Missing \notin Files /\ First \in Files
    /\ \A text \in Files : text \subseteq AnyLine
    /\ Hosts \subseteq AnyHost

VARIABLES
    file,     \* the file on the host
    seen,     \* what the container sees of it
    image,    \* the newest build of the image
    box,      \* the container that has the name: a set of at most one
    ids,      \* the highest container id given out
    proc,     \* the process in it
    allow,    \* the list in force
    source,   \* history: the file it was read from
    hup,      \* a SIGHUP waits to be handled
    conn,     \* the connection
    caller,   \* the callers
    left      \* what is left of the bounds

outside == <<file, seen, image>>
process == <<proc, allow, source, hup>>
vars == <<outside, box, ids, process, conn, caller, left>>

Empty == [rules |-> {}]
\* says is history: what the file in force said of the host.
Idle == [kind |-> "none", client |-> "closed", up |-> "none", granted |-> FALSE,
         says |-> FALSE, open |-> FALSE, heard |-> TRUE, lines |-> 0]

-----------------------------------------------------------------------------
(* The process. *)

\* The process ends: its connections with it.
Die ==
    /\ proc' = "off" /\ allow' = Empty /\ source' = {} /\ hup' = FALSE /\ conn' = Idle
    /\ box' = {[b EXCEPT !.status = "exited"] : b \in box}

\* The list is read before anything else; SIGTERM is handled from here on.
Load ==
    /\ proc = "boot"
    /\ IF seen = Missing \/ ParseAllowlist(seen) = Refused
       THEN Die
       ELSE /\ allow' = ParseAllowlist(seen) /\ source' = seen /\ proc' = "loaded"
            /\ UNCHANGED <<hup, conn, box>>
    /\ UNCHANGED <<outside, ids, caller, left>>

\* Listening; SIGHUP is handled only from here on.
Listen ==
    /\ proc = "loaded"
    /\ proc' = "up"
    /\ UNCHANGED <<outside, box, ids, allow, source, hup, conn, caller, left>>

\* reload: a list that cannot be read or parsed leaves the old one in force.
Reload ==
    IF seen = Missing \/ ParseAllowlist(seen) = Refused
    THEN UNCHANGED <<allow, source>>
    ELSE allow' = ParseAllowlist(seen) /\ source' = seen

HandleHup ==
    /\ proc \in {"up", "closing"} /\ hup
    /\ hup' = FALSE
    /\ Reload
    /\ UNCHANGED <<outside, box, ids, proc, conn, caller, left>>

\* History: a signal ends the process under the callers.
Disturb == caller' = [c \in Callers |-> [caller[c] EXCEPT !.calm = FALSE]]

\* A client destroyed by close(): only CONNECT clients are tracked.
Terminate ==
    /\ proc \in {"boot", "loaded", "up"}
    /\ IF proc = "boot" THEN Die
       ELSE /\ proc' = "closing"
            /\ conn' = IF conn.kind = "connect" /\ conn.client # "closed"
                       THEN [conn EXCEPT !.client = "destroyed"] ELSE conn
            /\ UNCHANGED <<allow, source, hup, box>>
    /\ Disturb
    /\ UNCHANGED <<outside, ids, left>>

Exit ==
    /\ proc = "closing"
    /\ Die /\ Disturb
    /\ UNCHANGED <<outside, ids, left>>

-----------------------------------------------------------------------------
(* A connection.  A socket that is destroyed emits 'close' in a later step;  *)
(* "ended" is a client that has sent its FIN, "answered" one we have sent    *)
(* ours.                                                                     *)

Working == proc \in {"loaded", "up", "closing"}
Step(next) == conn' = next /\ UNCHANGED <<outside, box, ids, process, caller, left>>

\* finish: one line per request.
Finish(c) == IF c.granted /\ c.lines = 0 THEN [c EXCEPT !.lines = 1] ELSE c

\* denySocket, sendText: our answer and our FIN.
Deny(c) == [c EXCEPT !.client = IF @ = "open" THEN "answered"
                                ELSE IF @ = "ended" THEN "destroyed" ELSE @]
DestroyUp(c) == [c EXCEPT !.up = IF @ \in {"connecting", "open", "ended"} THEN "destroyed" ELSE @]
DestroyClient(c) == [c EXCEPT !.client = IF @ # "closed" THEN "destroyed" ELSE @]

\* The error listener of a CONNECT socket comes before anything else.
\* Mutant: it comes after the verdict.
ListensFrom_Verdict(granted) == granted
ListensFrom(granted) == TRUE

Over(c) == c.client = "closed" /\ c.up \in {"none", "closed"}

Arrive(kind, host) ==
    /\ proc = "up" /\ Over(conn) /\ left.requests > 0
    /\ LET granted == Decide(allow, host)
           asked == [kind |-> kind, client |-> "open",
                     up |-> IF granted THEN "connecting" ELSE "none", granted |-> granted,
                     says |-> Says(source, host), open |-> FALSE,
                     heard |-> ListensFrom(granted), lines |-> IF granted THEN 0 ELSE 1]
       IN  conn' = IF granted THEN asked ELSE Deny(asked)
    /\ left' = [left EXCEPT !.requests = @ - 1]
    /\ UNCHANGED <<outside, box, ids, process, caller>>

\* The tunnel stands, or the head of the answer has come: the time limit is
\* off and the 'close' listeners are set.  A client that has ended by now ends
\* the upstream too.
Connected ==
    /\ Working /\ conn.up = "connecting"
    /\ Step([conn EXCEPT !.up = IF conn.client = "ended" THEN "ended" ELSE "open", !.open = TRUE])

\* No route, refused, or the time limit: 502.
ConnectFails ==
    /\ Working /\ conn.up = "connecting"
    /\ Step(Finish(Deny([conn EXCEPT !.up = "closed"])))

UpstreamBreaks ==
    /\ Working /\ conn.up \in {"open", "ended"}
    /\ Step(Finish(DestroyClient([conn EXCEPT !.up = "destroyed"])))

\* The upstream is done: its FIN is passed on; an HTTP answer is complete.
UpstreamEnds ==
    /\ Working /\ conn.up \in {"open", "ended"}
    /\ LET ended == Deny([conn EXCEPT !.up = "destroyed"])
       IN  Step(IF conn.kind = "http" THEN Finish(ended) ELSE ended)

\* 'close' of the upstream; of an HTTP request that was destroyed, its 'error'.
\* Mutant: the tunnel's other side is not taken along.
UpstreamCloses_Alone ==
    /\ Working /\ conn.up = "destroyed"
    /\ Step(Finish([conn EXCEPT !.up = "closed"]))
UpstreamCloses ==
    /\ Working /\ conn.up = "destroyed"
    /\ LET closed == [conn EXCEPT !.up = "closed"]
       IN  Step(IF conn.kind = "http" THEN Finish(closed)
                ELSE IF conn.open THEN Finish(DestroyClient(closed)) ELSE closed)

\* A reset by the client.  An 'error' nobody listens to ends the process.
ClientBreaks ==
    /\ Working /\ conn.client \in {"open", "ended", "answered"}
    /\ IF conn.heard
       THEN Step(LET broken == DestroyUp([conn EXCEPT !.client = "destroyed"])
                 IN  IF conn.kind = "connect" THEN Finish(broken) ELSE broken)
       ELSE Die /\ UNCHANGED <<outside, ids, caller, left>>

\* The client's FIN: half a close for a tunnel, the end of a plain connection.
ClientEnds ==
    /\ Working /\ conn.client \in {"open", "answered"}
    /\ Step(IF conn.client = "answered" THEN [conn EXCEPT !.client = "destroyed"]
            ELSE IF conn.kind = "http" THEN DestroyUp([conn EXCEPT !.client = "destroyed"])
            ELSE [conn EXCEPT !.client = "ended", !.up = IF @ = "open" THEN "ended" ELSE @])

\* 'close' of a tunnel's client takes the upstream along, once it stands.
ClientCloses ==
    /\ Working /\ conn.client = "destroyed"
    /\ LET closed == [conn EXCEPT !.client = "closed"]
       IN  Step(IF conn.kind = "connect" /\ conn.open THEN Finish(DestroyUp(closed)) ELSE closed)

-----------------------------------------------------------------------------
(* The control plane's side. *)

IdleCaller == [op |-> "none", pc |-> "idle", image |-> 0, id |-> 0, calm |-> FALSE, slow |-> FALSE]
Calling(c) == caller[c].pc \notin {"idle", "ok"}
AtPc(c, pc) == caller[c].pc = pc
Move(c, pc) == [caller EXCEPT ![c].pc = pc]
\* The call failed, or returned with nothing to say about the container.
Return(c) == [caller EXCEPT ![c] = IdleCaller]
Running(id) == \E b \in box : b.id = id /\ b.status = "running"

\* The file is checked and the image looked up once, at the start of the call.
AllowlistFileThere == file # Missing
LocalImage == image

Call(c, op) ==
    /\ ~Calling(c) /\ left.calls > 0
    /\ LET alone == \A d \in Callers \ {c} : ~Calling(d)
       IN  caller' = [d \in Callers |->
             IF d # c THEN [caller[d] EXCEPT !.calm = FALSE]
             ELSE IF op = "ensure" /\ ~AllowlistFileThere THEN IdleCaller
             ELSE [op |-> op, pc |-> "inspect", image |-> LocalImage, id |-> 0,
                   calm |-> alone /\ op = "ensure", slow |-> FALSE]]
    /\ left' = [left EXCEPT !.calls = @ - 1]
    /\ UNCHANGED <<outside, box, ids, process, conn>>

\* Mutant: a running container of ours is always reused.
MatchesDesired_Always(b, build) == TRUE
MatchesDesired(b, build) == b.image = build

Inspect(c) ==
    /\ AtPc(c, "inspect")
    /\ LET op == caller[c].op
           After(b) ==
             IF op = "reload" THEN "kill"
             ELSE IF op = "stop" \/ ~MatchesDesired(b, caller[c].image) THEN "remove"
             ELSE IF b.status = "running" THEN "ok" ELSE "start"
       IN  \/ /\ box = {}
              /\ caller' = IF op = "ensure" THEN Move(c, "create") ELSE Return(c)
           \/ \E b \in box :
                caller' = IF b.ours
                          THEN [caller EXCEPT ![c].pc = After(b), ![c].id = b.id,
                                              ![c].slow = proc = "boot"]
                          ELSE Return(c)
    /\ UNCHANGED <<outside, box, ids, process, conn, left>>

\* Forced, by id; a container that is gone is as good.
RemoveContainer(c) ==
    /\ AtPc(c, "remove")
    /\ IF \E b \in box : b.id = caller[c].id
       THEN /\ box' = {} /\ proc' = "off" /\ allow' = Empty /\ source' = {} /\ hup' = FALSE
            /\ conn' = Idle
       ELSE UNCHANGED <<box, process, conn>>
    /\ caller' = IF caller[c].op = "stop" THEN Return(c) ELSE Move(c, "create")
    /\ UNCHANGED <<outside, ids, left>>

\* A name that was taken since the inspection ends the call.
CreateContainer(c) ==
    /\ AtPc(c, "create")
    /\ IF box = {}
       THEN /\ ids' = ids + 1
            /\ box' = {[id |-> ids', ours |-> TRUE, image |-> caller[c].image, status |-> "created"]}
            /\ caller' = [caller EXCEPT ![c].pc = "start", ![c].id = ids']
       ELSE caller' = Return(c) /\ UNCHANGED <<box, ids>>
    /\ UNCHANGED <<outside, process, conn, left>>

\* 304 when it runs; the bind mount is resolved anew.
StartContainer(c) ==
    /\ AtPc(c, "start")
    /\ \E b \in box : b.id = caller[c].id
    /\ IF Running(caller[c].id) THEN UNCHANGED <<box, proc, seen>>
       ELSE /\ box' = {[b EXCEPT !.status = "running"] : b \in box}
            /\ proc' = "boot" /\ seen' = file
    /\ caller' = Move(c, "wait")
    /\ UNCHANGED <<file, image, ids, allow, source, hup, conn, left>>

\* Seen running, then seen running once more half a second later.  The second
\* look does not ask the process whether it has read its list.
Confirms(c) == Running(caller[c].id)

WaitUntilRunning(c) ==
    \/ /\ AtPc(c, "wait")
       /\ caller' = IF Running(caller[c].id) THEN Move(c, "confirm") ELSE Return(c)
       /\ UNCHANGED <<outside, box, ids, process, conn, left>>
    \/ /\ AtPc(c, "confirm")
       /\ caller' = IF Confirms(c)
                    THEN [caller EXCEPT ![c].pc = "ok", ![c].slow = proc = "boot"] ELSE Return(c)
       /\ UNCHANGED <<outside, box, ids, process, conn, left>>

\* docker kill -s HUP: 404 and 409 fail the call.  A process that does not
\* handle the signal yet is ended by it.
KillHup(c) ==
    /\ AtPc(c, "kill")
    /\ IF ~Running(caller[c].id)
       THEN caller' = Return(c) /\ UNCHANGED <<box, process, conn>>
       ELSE /\ caller' = [d \in Callers |-> IF d = c THEN IdleCaller ELSE
                 [caller[d] EXCEPT !.calm = @ /\ proc \in {"up", "closing"}]]
            /\ IF proc \in {"up", "closing"}
               THEN hup' = TRUE /\ UNCHANGED <<box, proc, allow, source, conn>>
               ELSE Die
    /\ UNCHANGED <<outside, ids, left>>

\* Any request to Docker may fail; there is no rollback.
CallFails(c) ==
    /\ Calling(c)
    /\ caller' = Return(c)
    /\ UNCHANGED <<outside, box, ids, process, conn, left>>

-----------------------------------------------------------------------------
(* The rest of the world. *)

Edit ==
    /\ left.edits > 0
    /\ file' \in (Files \cup {Missing}) \ {file}
    /\ left' = [left EXCEPT !.edits = @ - 1]
    /\ UNCHANGED <<seen, image, box, ids, process, conn, caller>>

Propagate ==
    /\ seen # file
    /\ seen' = file
    /\ UNCHANGED <<file, image, box, ids, process, conn, caller, left>>

Build ==
    /\ image < MaxBuilds
    /\ image' = image + 1
    /\ UNCHANGED <<file, seen, box, ids, process, conn, caller, left>>

-----------------------------------------------------------------------------
\* A container of somebody else may have the name from the start, or one of
\* ours that an earlier build left behind.
Init ==
    /\ file = First /\ seen = First /\ image = 1
    /\ box \in {{}, {[id |-> 0, ours |-> FALSE, image |-> 0, status |-> "running"]},
                {[id |-> 0, ours |-> TRUE, image |-> 0, status |-> "exited"]}}
    /\ ids = 0 /\ proc = "off" /\ allow = Empty /\ source = {} /\ hup = FALSE
    /\ conn = Idle /\ caller = [c \in Callers |-> IdleCaller]
    /\ left = [calls |-> MaxCalls, edits |-> MaxEdits, requests |-> MaxRequests]

ProcessStep == Load \/ Listen \/ HandleHup
SocketStep == UpstreamCloses \/ ClientCloses
PeerStep == Connected \/ ConnectFails \/ UpstreamBreaks \/ UpstreamEnds \/ ClientBreaks \/ ClientEnds
CallStep(c) ==
    \/ Inspect(c) \/ RemoveContainer(c) \/ CreateContainer(c) \/ StartContainer(c)
    \/ WaitUntilRunning(c) \/ KillHup(c) \/ CallFails(c)

Next ==
    \/ ProcessStep \/ Terminate \/ Exit \/ SocketStep \/ PeerStep
    \/ \E kind \in {"connect", "http"}, host \in Hosts : Arrive(kind, host)
    \/ \E c \in Callers : CallStep(c) \/ \E op \in {"ensure", "reload", "stop"} : Call(c, op)
    \/ Edit \/ Propagate \/ Build

\* The process runs, and a destroyed socket emits 'close'.  A connecting
\* upstream connects, fails or meets the time limit.  Nobody has to call, edit,
\* connect or close, and an open or half-closed tunnel may stay.
Spec ==
    /\ Init /\ [][Next]_vars
    /\ WF_vars(ProcessStep) /\ WF_vars(SocketStep) /\ WF_vars(Exit)
    /\ WF_vars(conn.up = "connecting" /\ (Connected \/ ConnectFails))

-----------------------------------------------------------------------------
(* Properties. *)

\* A request reaches its host exactly when the file the list in force was read
\* from says so (Allowlist.Says): no IP, no name above a wildcard, no spelling
\* of a name, and no reload half way, changes the verdict.
VerdictsAreRight == conn.kind # "none" => (conn.granted <=> conn.says)

\* The list in force is one whole file the syntax accepts, never the readable
\* part of a broken one (proxy.ts header: refuse to start, keep the old list).
ListIsWhole == Working => IsList(source) /\ allow = ParseAllowlist(source)

\* Every request that was granted or refused leaves exactly one line in the
\* log, whichever of its sockets' events come, and in whichever order.
OneLinePerRequest == conn.lines <= 1 /\ (conn.kind # "none" /\ Over(conn) => conn.lines = 1)

\* A request is judged by one whole list, rightly, and logged once.
RequestsAreJudged == VerdictsAreRight /\ ListIsWhole /\ OneLinePerRequest

\* A side that is gone takes the other along, whatever order the two sockets'
\* events come in (proxy.ts:283, "or half-open sockets pile up").
TunnelsEnd ==
    (conn.granted /\ conn.client = "destroyed")
        \/ (conn.kind = "connect" /\ conn.open /\ conn.up = "destroyed")
    ~> Over(conn)

\* No client ends the process: it leaves "up" and "loaded" only by a signal or
\* with its container.
ClientsCannotStopIt ==
    [][(proc \in {"loaded", "up"} /\ proc' = "off") => (caller' # caller)]_vars

\* ensureRunning returned, and no other call and no signal came in between:
\* a container of ours with the image it resolved runs, provided the process
\* had read its list when it was last looked at.  (One that is reused is looked
\* at once, one that was started twice; neither asks whether the list was read.)
EnsuredRuns ==
    \A c \in Callers : caller[c].op = "ensure" /\ AtPc(c, "ok") /\ caller[c].calm =>
        \E b \in box : b.id = caller[c].id /\ b.ours /\ b.image = caller[c].image
                       /\ (b.status = "running" \/ caller[c].slow)

=============================================================================
