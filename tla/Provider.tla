------------------------------ MODULE Provider ------------------------------
(***************************************************************************)
(* The container provider (provider/local-docker.ts) over the Docker       *)
(* daemon, for one sandbox id: create with its rollback, and destroy, each *)
(* a chain of requests to the daemon between which anything may happen: a  *)
(* second call, a foreign container under our name, a request that times   *)
(* out at the client and is carried out later, a crash of the control      *)
(* plane.                                                                  *)
(*                                                                         *)
(* Data.  A sandbox has a container "box", on darwin a second one "fwd"    *)
(* that publishes its port, and a volume that "box" mounts.  A container   *)
(* is its id, its name, whether its labels are ours for this sandbox,      *)
(* whether it runs and whether its agent reports ready.  A removal or a    *)
(* start that fails is taken as not done: one that was done after all only *)
(* leaves less behind.                                                     *)
(***************************************************************************)
EXTENDS Naturals, FiniteSets

CONSTANTS
    Platforms,    \* the platforms the control plane may run on
    Destroyers,   \* callers of destroy
    MaxCalls      \* bound on the calls of create and destroy together

ASSUME ProviderAssumption ==
    /\ Platforms \subseteq {"linux", "darwin"}
    /\ MaxCalls \in Nat

VARIABLES
    platform,    \* process.platform
    containers,  \* the containers under this sandbox's two names
    volume,      \* the workspace volume exists
    pinned,      \* a container of somebody else mounts the volume
    network,     \* the shared network: "none", "internal" or "other"
    born,        \* the highest container id given out
    stray,       \* requests of ours the daemon may still carry out, unawaited
    creating,    \* the create call
    destroying,  \* the destroy calls
    budget,      \* calls left
    own,         \* history: the containers made for the last create
    excused      \* history: a request whose effect is unknown, or a failed clean-up

docker == <<containers, volume, born>>
around == <<platform, pinned, network>>
history == <<own, excused>>
vars == <<platform, containers, volume, pinned, network, born, stray,
          creating, destroying, budget, own, excused>>

Names == {"box", "fwd"}
NoId == 0
ForeignId == 1
FirstId == 2

-----------------------------------------------------------------------------
(* The daemon. *)

Named(name) == {c \in containers : c.name = name}
WithId(id) == {c \in containers : c.id = id}
ListManaged == {c \in containers : c.ours}     \* by label; volumes are not listed

\* Containers are removed by id.
Without(id) == containers \ WithId(id)

\* isOwnedBy.  Mutant: whoever has the name is taken for ours.
IsOwned_ByName(name) == Named(name)
IsOwned(name) == {c \in Named(name) : c.ours}

\* The requests' names, labels and mounts: both containers carry our labels,
\* the box mounts the volume, and a mounted volume that is missing is made.
DaemonCreates(name) ==
    /\ Named(name) = {}
    /\ born' = born + 1
    /\ containers' = containers \cup
         {[id |-> born', name |-> name, ours |-> TRUE, up |-> FALSE, agent |-> FALSE]}
    /\ volume' = (volume \/ name = "box")

DaemonStarts(id) ==
    /\ WithId(id) # {}
    /\ containers' = Without(id) \cup {[c EXCEPT !.up = TRUE] : c \in WithId(id)}

\* 409 while a container mounts the volume.
VolumeInUse == pinned \/ Named("box") \cap ListManaged # {}

\* The forwarder hands a connection to whatever is called "box"; the agent
\* only answers to the token its own container was created with.
Reachable(c) ==
    /\ \E box \in WithId(c.box) : box.up
    /\ platform = "darwin" => \E fwd \in WithId(c.fwd) : fwd.up

\* Mutant: an agent that is still starting will do.
Answers_Starting(c) == Reachable(c)
Answers(c) == Reachable(c) /\ \E box \in WithId(c.box) : box.agent

-----------------------------------------------------------------------------
(* create. *)

Requests == {"network", "volume", "create", "inspect", "evict", "retry", "start", "endpoint", "health"}
Polls == {"endpoint", "health"}
Cleaning == {"undo_fwd", "undo_box", "undo_vol"}
Creating == {"image", "pull"} \cup Requests \cup Cleaning
\* A spec the validation refuses ends the call before any request.
ValidateSpec == {"image", "failed"}
NewCall(calm) ==
    [pc |-> "image", target |-> "box", box |-> NoId, fwd |-> NoId, made |-> FALSE,
     found |-> NoId, late |-> FALSE, kept |-> FALSE, calm |-> calm]

Active(d) == destroying[d].pc \notin {"idle", "done", "failed"}

BeginCreate ==
    /\ creating.pc \notin Creating \cup {"cut"} /\ budget > 0
    /\ \E step \in ValidateSpec :
          creating' = [NewCall(\A d \in Destroyers : ~Active(d)) EXCEPT !.pc = step]
    /\ destroying' = [d \in Destroyers |-> [destroying[d] EXCEPT !.alone = FALSE]]
    /\ budget' = budget - 1
    /\ own' = {}
    /\ UNCHANGED <<docker, around, stray, excused>>

\* One step of create that leaves the rest of the world to its action.
Create(next) ==
    creating' = next /\ UNCHANGED <<around, destroying, budget>>
At(step) == creating.pc = step
To(step) == [creating EXCEPT !.pc = step]

\* The image is looked up locally first; it is pulled on a 404, unless it is a bare id.
FindImage ==
    /\ At("image")
    /\ \E outcome \in {"network", "pull", "failed"} : Create(To(outcome))
    /\ UNCHANGED <<docker, stray, history>>

\* The pull's progress stream ends well, ends in an error, or is cut by us at
\* a complete line that reports an error: the response is destroyed without an
\* error, so neither 'end' nor 'error' follows and nobody settles the call.
PullEnds == {"network", "failed", "cut"}
PullImage ==
    /\ At("pull")
    /\ \E outcome \in PullEnds : Create(To(outcome))
    /\ UNCHANGED <<docker, stray, history>>

\* rollback: the forwarder, the sandbox container, then the volume, each only
\* when this call knows it made it.  Mutant: the forwarder is forgotten.
AfterUndo_NoForwarder(c, step) ==
    IF step \in {"start", "undo_fwd"} /\ c.box # NoId THEN "undo_box"
    ELSE IF c.made THEN "undo_vol" ELSE "failed"
AfterUndo(c, step) ==
    IF step = "start" /\ c.fwd # NoId THEN "undo_fwd"
    ELSE IF step \in {"start", "undo_fwd"} /\ c.box # NoId THEN "undo_box"
    ELSE IF c.made THEN "undo_vol" ELSE "failed"
Undo == [creating EXCEPT !.pc = AfterUndo(creating, "start"), !.found = NoId, !.late = FALSE]

EnsureNetwork ==
    /\ At("network")
    /\ IF network = "other" THEN creating' = Undo ELSE creating' = To("volume")
    /\ network' = IF network = "none" THEN "internal" ELSE network
    /\ UNCHANGED <<docker, platform, pinned, stray, destroying, budget, history>>

CreateVolume ==
    /\ At("volume")
    /\ volume' = TRUE
    /\ Create([creating EXCEPT !.pc = "create", !.made = TRUE])
    /\ UNCHANGED <<containers, born, stray, history>>

\* The first attempt and the retry; the id is known once the answer arrives.
CreateContainer ==
    /\ creating.pc \in {"create", "retry"}
    /\ DaemonCreates(creating.target)
    /\ own' = own \cup {born'}
    /\ Create([creating EXCEPT !.pc = "start", ![creating.target] = born', !.found = NoId])
    /\ UNCHANGED <<stray, excused>>

NameTaken ==
    /\ creating.pc \in {"create", "retry"} /\ Named(creating.target) # {}
    /\ Create(IF At("create") THEN To("inspect") ELSE Undo)
    /\ UNCHANGED <<docker, stray, history>>

\* Ours is a leftover and goes; somebody else's, or none any more, ends the call.
InspectTaken ==
    /\ At("inspect")
    /\ IF IsOwned(creating.target) = {}
       THEN Create(Undo)
       ELSE \E c \in IsOwned(creating.target) :
                Create([creating EXCEPT !.pc = "evict", !.found = c.id])
    /\ UNCHANGED <<docker, stray, history>>

EvictLeftover ==
    /\ At("evict")
    /\ containers' = Without(creating.found)
    /\ Create(To("retry"))
    /\ UNCHANGED <<volume, born, stray, history>>

CreateForwarder == [creating EXCEPT !.pc = "create", !.target = "fwd"]

StartContainer ==
    /\ At("start")
    /\ DaemonStarts(creating[creating.target])
    /\ Create(IF creating.target = "box" /\ platform = "darwin"
              THEN CreateForwarder ELSE To("endpoint"))
    /\ UNCHANGED <<volume, born, stray, history>>

\* The address is read off the container created last: its address in the
\* shared network, or on darwin the port it publishes.
ResolveEndpoint ==
    /\ At("endpoint")
    /\ \E c \in WithId(creating[creating.target]) : c.up
    /\ Create(To("health"))
    /\ UNCHANGED <<docker, stray, history>>

AgentIsReady ==
    /\ At("health") /\ Answers(creating)
    /\ Create([To("done") EXCEPT !.late = FALSE])
    /\ UNCHANGED <<docker, stray, history>>

\* The two polls give up at the deadline.
DeadlinePasses ==
    /\ creating.pc \in Polls /\ ~creating.late
    /\ Create([creating EXCEPT !.late = TRUE])
    /\ UNCHANGED <<docker, stray, history>>

\* Mutant: the polls never look at the clock.
GiveUp_Never == FALSE
GiveUp == creating.pc \in Polls /\ creating.late

OutOfTime ==
    /\ GiveUp
    /\ Create(Undo)
    /\ UNCHANGED <<docker, stray, history>>

\* The daemon refuses or is away, or a container has vanished.
RequestFails ==
    /\ creating.pc \in Requests \ Polls
    /\ Create(Undo)
    /\ UNCHANGED <<docker, stray, history>>

\* The container has vanished, or the agent says "error".
PollFails ==
    /\ creating.pc \in Polls
    /\ Create(Undo)
    /\ UNCHANGED <<docker, stray, history>>

\* A creation that timed out at the client may still be carried out.
Pending == IF creating.pc \in {"create", "retry"} THEN {creating.target}
           ELSE IF At("volume") THEN {"volume"} ELSE {}

RequestLost ==
    /\ Pending # {}
    /\ stray' = stray \cup Pending
    /\ excused' = TRUE
    /\ Create(Undo)
    /\ UNCHANGED <<docker, own>>

RollbackContainer ==
    /\ creating.pc \in {"undo_fwd", "undo_box"}
    /\ \/ /\ containers' = Without(IF At("undo_fwd") THEN creating.fwd ELSE creating.box)
          /\ UNCHANGED excused
       \/ excused' = TRUE /\ UNCHANGED containers
    /\ Create(To(AfterUndo(creating, creating.pc)))
    /\ UNCHANGED <<volume, born, stray, own>>

RollbackVolume ==
    /\ At("undo_vol")
    /\ \/ volume' = (volume /\ VolumeInUse) /\ UNCHANGED excused
       \/ excused' = TRUE /\ UNCHANGED volume
    /\ Create([To("failed") EXCEPT !.kept = pinned \/ \E c \in ListManaged : c.name = "box" /\ c.id \notin own])
    /\ UNCHANGED <<containers, born, stray, own>>

\* The control plane dies: every call of this process ends where it stands.
Crash ==
    /\ creating.pc \in Creating
    /\ creating' = To("crashed")
    /\ destroying' = [d \in Destroyers |-> [destroying[d] EXCEPT !.pc = IF Active(d) THEN "failed" ELSE @]]
    /\ \E late \in SUBSET Pending : stray' = stray \cup late
    /\ excused' = TRUE
    /\ UNCHANGED <<docker, around, budget, own>>

-----------------------------------------------------------------------------
(* destroy. *)

Destroy(d, next) ==
    /\ destroying' = [destroying EXCEPT ![d] = next]
    /\ UNCHANGED <<around, born, stray, budget, history>>
Goto(d, step, id) == [destroying[d] EXCEPT !.pc = step, !.found = id]

BeginDestroy(d) ==
    /\ ~Active(d) /\ budget > 0
    /\ destroying' = [destroying EXCEPT ![d] =
         [pc |-> "inspect_fwd", found |-> NoId, kept |-> FALSE,
          alone |-> stray = {} /\ creating.pc \notin Creating]]
    /\ creating' = [creating EXCEPT !.calm = FALSE]
    /\ budget' = budget - 1
    /\ UNCHANGED <<docker, around, stray, history>>

\* The forwarder goes first; a name that is not ours is left alone.
InspectForwarder(d) ==
    /\ destroying[d].pc = "inspect_fwd"
    /\ IF IsOwned("fwd") = {}
       THEN Destroy(d, Goto(d, "inspect_box", NoId))
       ELSE \E c \in IsOwned("fwd") : Destroy(d, Goto(d, "remove_fwd", c.id))
    /\ UNCHANGED <<containers, volume, creating>>

RemoveForwarder(d) ==
    /\ destroying[d].pc = "remove_fwd"
    /\ containers' = Without(destroying[d].found)
    /\ Destroy(d, Goto(d, "inspect_box", NoId))
    /\ UNCHANGED <<volume, creating>>

InspectBox(d) ==
    /\ destroying[d].pc = "inspect_box"
    /\ IF IsOwned("box") = {}
       THEN Destroy(d, Goto(d, "volume", NoId))
       ELSE \E c \in IsOwned("box") : Destroy(d, Goto(d, "stop_box", c.id))
    /\ UNCHANGED <<containers, volume, creating>>

StopBox(d) ==
    /\ destroying[d].pc = "stop_box"
    /\ containers' = Without(destroying[d].found) \cup
                     {[c EXCEPT !.up = FALSE, !.agent = FALSE] : c \in WithId(destroying[d].found)}
    /\ Destroy(d, Goto(d, "remove_box", destroying[d].found))
    /\ UNCHANGED <<volume, creating>>

RemoveBox(d) ==
    /\ destroying[d].pc = "remove_box"
    /\ containers' = Without(destroying[d].found)
    /\ Destroy(d, Goto(d, "volume", NoId))
    /\ UNCHANGED <<volume, creating>>

\* The volume goes whoever holds the container's name; one in use is left with a warning.
RemoveVolume(d) ==
    /\ destroying[d].pc = "volume"
    /\ volume' = (volume /\ VolumeInUse)
    /\ Destroy(d, [Goto(d, "done", NoId) EXCEPT !.kept = volume /\ pinned])
    /\ UNCHANGED <<containers, creating>>

DestroyFails(d) ==
    /\ Active(d)
    /\ Destroy(d, Goto(d, "failed", NoId))
    /\ UNCHANGED <<containers, volume, creating>>

DestroyStep(d) ==
    \/ InspectForwarder(d) \/ RemoveForwarder(d) \/ InspectBox(d) \/ StopBox(d)
    \/ RemoveBox(d) \/ RemoveVolume(d) \/ DestroyFails(d)

-----------------------------------------------------------------------------
(* The rest of the world. *)

Outside == UNCHANGED <<platform, network, creating, destroying, budget, own, excused>>

StrayLands ==
    /\ \E request \in stray :
          /\ stray' = stray \ {request}
          /\ IF request = "volume" THEN volume' = TRUE /\ UNCHANGED <<containers, born>>
             ELSE IF Named(request) = {} THEN DaemonCreates(request) ELSE UNCHANGED docker
    /\ Outside /\ UNCHANGED pinned

AgentComesUp ==
    /\ \E c \in ListManaged : /\ c.name = "box" /\ c.up /\ ~c.agent
                       /\ containers' = Without(c.id) \cup {[c EXCEPT !.agent = TRUE]}
    /\ Outside /\ UNCHANGED <<volume, born, stray, pinned>>

ForeignTakes(name) ==
    /\ WithId(ForeignId) = {} /\ Named(name) = {}
    /\ containers' = containers \cup
         {[id |-> ForeignId, name |-> name, ours |-> FALSE, up |-> TRUE, agent |-> FALSE]}
    /\ Outside /\ UNCHANGED <<volume, born, stray, pinned>>

ForeignLeaves ==
    /\ WithId(ForeignId) # {}
    /\ containers' = containers \ WithId(ForeignId)
    /\ Outside /\ UNCHANGED <<volume, born, stray, pinned>>

Pin ==
    /\ volume /\ ~pinned
    /\ pinned' = TRUE
    /\ Outside /\ UNCHANGED <<docker, stray>>

Unpin ==
    /\ pinned
    /\ pinned' = FALSE
    /\ Outside /\ UNCHANGED <<docker, stray>>

-----------------------------------------------------------------------------
Init ==
    /\ platform \in Platforms /\ network \in {"none", "internal", "other"}
    /\ containers = {} /\ volume = FALSE /\ pinned = FALSE /\ born = FirstId - 1 /\ stray = {}
    /\ creating = [NewCall(TRUE) EXCEPT !.pc = "idle"]
    /\ destroying = [d \in Destroyers |-> [pc |-> "idle", found |-> NoId, kept |-> FALSE, alone |-> FALSE]]
    /\ budget = MaxCalls
    /\ own = {} /\ excused = FALSE

CreateStep ==
    \/ FindImage \/ PullImage \/ EnsureNetwork \/ CreateVolume \/ CreateContainer \/ NameTaken
    \/ InspectTaken \/ EvictLeftover \/ StartContainer \/ ResolveEndpoint \/ AgentIsReady
    \/ OutOfTime \/ RequestFails \/ RequestLost \/ RollbackContainer \/ RollbackVolume

Next ==
    \/ BeginCreate \/ CreateStep \/ PollFails \/ DeadlinePasses \/ Crash
    \/ \E d \in Destroyers : BeginDestroy(d) \/ DestroyStep(d)
    \/ StrayLands \/ AgentComesUp \/ ForeignLeaves \/ Pin \/ Unpin
    \/ \E name \in Names : ForeignTakes(name)

\* Every request has a time limit, so a call moves on; the deadline is a clock.
\* Nothing makes an agent come up, a stray request land or a guest leave.
Spec ==
    /\ Init /\ [][Next]_vars
    /\ WF_vars(CreateStep) /\ WF_vars(DeadlinePasses)
    /\ \A d \in Destroyers : WF_vars(DestroyStep(d))

-----------------------------------------------------------------------------
(* Properties. *)

Container == [id : Nat, name : Names, ours : BOOLEAN, up : BOOLEAN, agent : BOOLEAN]

\* Every variable has its type, and names and ids are unique in the daemon.
TypeOK ==
    /\ platform \in Platforms /\ network \in {"none", "internal", "other"}
    /\ containers \subseteq Container
    /\ \A c, d \in containers : c = d \/ (c.id # d.id /\ c.name # d.name)
    /\ volume \in BOOLEAN /\ pinned \in BOOLEAN /\ excused \in BOOLEAN
    /\ born \in Nat /\ own \subseteq FirstId .. born /\ \A c \in containers : c.id <= born \/ c.id = ForeignId
    /\ stray \subseteq Names \cup {"volume"}
    /\ creating \in [pc : Creating \cup {"idle", "done", "failed", "crashed", "cut"}, target : Names,
                     box : Nat, fwd : Nat, made : BOOLEAN, found : Nat, late : BOOLEAN, kept : BOOLEAN, calm : BOOLEAN]
    /\ destroying \in [Destroyers ->
         [pc : {"idle", "inspect_fwd", "remove_fwd", "inspect_box", "stop_box", "remove_box",
                "volume", "done", "failed"},
          found : Nat, kept : BOOLEAN, alone : BOOLEAN]]
    /\ budget \in 0 .. MaxCalls

\* No call of ours ever removes a container that is not ours, even one that
\* took the name between two requests of the call (local-docker.ts:683, 1077).
ForeignUntouched ==
    [][\A c \in containers : ~c.ours /\ c \notin containers' => UNCHANGED <<creating, destroying>>]_vars

\* From the moment create returns until the next destroy begins, the handle
\* names a running container of ours whose agent reported ready, with its
\* volume and, on darwin, its forwarder: no request of an earlier create that
\* the daemon carries out late, and no leftover, takes them away.
HandleIsLive ==
    At("done") /\ creating.calm =>
        /\ \E c \in WithId(creating.box) : c.ours /\ c.up /\ c.agent
        /\ volume
        /\ platform = "darwin" => \E c \in WithId(creating.fwd) : c.ours /\ c.up

\* A create that threw leaves nothing it made: no container, and no volume
\* unless a container that is not its own mounted it.  Excused are a request whose outcome
\* the client never learnt, and a removal of the rollback itself that failed.
FailedCreateLeavesNothing ==
    At("failed") /\ ~excused =>
        /\ \A c \in containers : c.id \notin own
        /\ creating.made /\ volume => creating.kept

\* A destroy that returned, and that no create overlapped, leaves no container
\* of ours, and the volume only if somebody else mounted it, whatever other
\* destroy ran at the same time.
DestroyedLeavesNothing ==
    \A d \in Destroyers : destroying[d].pc = "done" /\ destroying[d].alone =>
        ListManaged = {} /\ (volume => destroying[d].kept)

\* Neither a create that failed nor a destroy leaves anything behind.
NothingLeftBehind == FailedCreateLeavesNothing /\ DestroyedLeavesNothing

\* Every create ends within its deadline, but for the one hole in the client
\* below it: a pull whose error line made us cut its own progress stream.
CreateEndsUnlessCut == creating.pc \in Creating ~> creating.pc \notin Creating

=============================================================================
