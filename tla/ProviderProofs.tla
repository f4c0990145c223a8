--------------------------- MODULE ProviderProofs ---------------------------
(***************************************************************************)
(* Theorems about the container provider.  Whatever it removes, stops or   *)
(* starts it addresses by an id, which it got from an answer to its own    *)
(* create or from an inspection whose labels it compared.  So the proof    *)
(* has to show of every id in hand that it is not the id of a foreign      *)
(* container, however the name it was found under has changed hands since. *)
(* What the calls leave behind is a second invariant on top of it.         *)
(***************************************************************************)
EXTENDS Provider, TLAPS

-----------------------------------------------------------------------------
(* The inductive invariant. *)

\* What the daemon holds: names and ids are unique, and none of our containers
\* has the id of a foreign one.
Daemon ==
    /\ containers \subseteq Container
    /\ \A c, d \in containers : c = d \/ (c.id # d.id /\ c.name # d.name)
    /\ born \in Nat /\ born >= ForeignId
    /\ \A c \in containers : c.id <= born \/ c.id = ForeignId
    /\ \A c \in containers : c.ours <=> c.id # ForeignId
    /\ volume \in BOOLEAN

\* The rest of the types.
Around ==
    /\ platform \in Platforms /\ network \in {"none", "internal", "other"}
    /\ pinned \in BOOLEAN /\ excused \in BOOLEAN
    /\ own \subseteq FirstId .. born
    /\ stray \subseteq Names \cup {"volume"}
    /\ budget \in 0 .. MaxCalls

CreateCall ==
    [pc : Creating \cup {"idle", "done", "failed", "crashed", "cut"}, target : Names,
     box : Nat, fwd : Nat, made : BOOLEAN, found : Nat, late : BOOLEAN, kept : BOOLEAN,
     calm : BOOLEAN]

DestroyCall ==
    [pc : {"idle", "inspect_fwd", "remove_fwd", "inspect_box", "stop_box", "remove_box",
           "volume", "done", "failed"},
     found : Nat, kept : BOOLEAN, alone : BOOLEAN]

\* No call has the id of a foreign container in hand.
CreateIsOurs(c) == c \in CreateCall /\ ForeignId \notin {c.box, c.fwd, c.found}
DestroyIsOurs(c) == c \in DestroyCall /\ c.found # ForeignId

IInv ==
    /\ Daemon /\ Around
    /\ CreateIsOurs(creating)
    /\ destroying \in [Destroyers -> DestroyCall]
    /\ \A d \in Destroyers : DestroyIsOurs(destroying[d])

\* The foreign containers are all still there, as they were.
GuestsStay == \A c \in containers : ~c.ours => c \in containers'

-----------------------------------------------------------------------------
(* What requests do to the daemon. *)

\* A removal by an id that is not a foreign one spares the foreign ones.
LEMMA Removal ==
    ASSUME Daemon, NEW id \in Nat \ {ForeignId}, containers' = Without(id),
           UNCHANGED <<volume, born>>
    PROVE  Daemon' /\ GuestsStay
BY DEF Daemon, Without, WithId, GuestsStay, ForeignId

\* A creation gives an id that no container has had.
LEMMA Creation ==
    ASSUME Daemon, NEW name \in Names, DaemonCreates(name)
    PROVE  /\ Daemon' /\ GuestsStay
           /\ born' \in Nat /\ born' = born + 1 /\ born' # ForeignId
<1> DEFINE new == [id |-> born', name |-> name, ours |-> TRUE, up |-> FALSE, agent |-> FALSE]
<1>1. born' = born + 1 /\ born' \in Nat /\ born' > ForeignId
  BY DEF Daemon, DaemonCreates, ForeignId
<1>2. new \in Container /\ new.ours /\ new.id # ForeignId
  BY <1>1 DEF Container
<1>3. \A c \in containers : c.id # born' /\ c.name # name
  BY <1>1 DEF Daemon, DaemonCreates, Named, Container, ForeignId
<1>4. containers' = containers \cup {new}
  BY DEF DaemonCreates
<1>5. volume' \in BOOLEAN
  BY DEF DaemonCreates, Daemon
<1> HIDE DEF new
<1>6. \A c \in containers : c.id <= born' \/ c.id = ForeignId
  BY <1>1 DEF Daemon, Container, ForeignId
<1>7. new.id = born' /\ new.name = name
  BY DEF new
<1>8. \A c, d \in containers' : c = d \/ (c.id # d.id /\ c.name # d.name)
  BY <1>3, <1>4, <1>7 DEF Daemon
<1>. QED  BY <1>1, <1>2, <1>4, <1>5, <1>6, <1>7, <1>8 DEF Daemon, GuestsStay, ForeignId

\* What changes only whether a container of ours runs or answers leaves names,
\* ids and the foreign containers alone.
LEMMA Switching ==
    ASSUME Daemon, NEW id \in Nat \ {ForeignId}, NEW switched \in SUBSET Container,
           \A c \in switched : \E d \in WithId(id) :
               c.id = d.id /\ c.name = d.name /\ c.ours = d.ours,
           \A c, d \in switched : c = d,
           containers' = Without(id) \cup switched,
           UNCHANGED <<volume, born>>
    PROVE  Daemon' /\ GuestsStay
<1>1. \A c \in containers' : \E d \in containers :
         c.id = d.id /\ c.name = d.name /\ c.ours = d.ours /\ c \in Container
  BY DEF Daemon, Without, WithId
<1>2. \A c, d \in containers' : c.id = d.id => c = d
  BY DEF Daemon, Without, WithId
<1>3. \A c, d \in containers' : c = d \/ (c.id # d.id /\ c.name # d.name)
  BY <1>1, <1>2 DEF Daemon
<1>4. GuestsStay
  BY DEF Daemon, Without, WithId, GuestsStay
<1>. QED  BY <1>1, <1>3, <1>4 DEF Daemon

\* The two requests and the agent's start that do so.
LEMMA Starting ==
    ASSUME Daemon, NEW id \in Nat \ {ForeignId}, DaemonStarts(id), UNCHANGED <<volume, born>>
    PROVE  Daemon' /\ GuestsStay
<1> DEFINE switched == {[c EXCEPT !.up = TRUE] : c \in WithId(id)}
<1>1. switched \in SUBSET Container
  BY DEF Daemon, WithId, Container
<1>2. \A c \in switched : \E d \in WithId(id) : c.id = d.id /\ c.name = d.name /\ c.ours = d.ours
  BY DEF Daemon, WithId, Container
<1>3. \A c, d \in switched : c = d
  BY DEF Daemon, WithId
<1>4. containers' = Without(id) \cup switched
  BY DEF DaemonStarts
<1> HIDE DEF switched
<1>. QED  BY <1>1, <1>2, <1>3, <1>4, Switching

LEMMA Stopping ==
    ASSUME Daemon, NEW id \in Nat \ {ForeignId},
           containers' = Without(id) \cup {[c EXCEPT !.up = FALSE, !.agent = FALSE] : c \in WithId(id)},
           UNCHANGED <<volume, born>>
    PROVE  Daemon' /\ GuestsStay
<1> DEFINE switched == {[c EXCEPT !.up = FALSE, !.agent = FALSE] : c \in WithId(id)}
<1>0. \A d \in WithId(id) :
         LET c == [d EXCEPT !.up = FALSE, !.agent = FALSE]
         IN  c \in Container /\ c.id = d.id /\ c.name = d.name /\ c.ours = d.ours
  BY DEF Daemon, WithId, Container
<1>1. switched \in SUBSET Container
  BY <1>0
<1>2. \A c \in switched : \E d \in WithId(id) : c.id = d.id /\ c.name = d.name /\ c.ours = d.ours
  BY <1>0
<1>3. \A c, d \in switched : c = d
  BY DEF Daemon, WithId
<1>4. containers' = Without(id) \cup switched
  OBVIOUS
<1> HIDE DEF switched
<1>. QED  BY <1>1, <1>2, <1>3, <1>4, Switching

LEMMA ComingUp ==
    ASSUME Daemon, NEW c \in ListManaged, UNCHANGED <<volume, born>>,
           containers' = Without(c.id) \cup {[c EXCEPT !.agent = TRUE]}
    PROVE  Daemon' /\ GuestsStay
<1> DEFINE switched == {[c EXCEPT !.agent = TRUE]}
<1>1. c \in Container /\ c \in WithId(c.id) /\ c.id \in Nat \ {ForeignId}
  BY DEF Daemon, WithId, ListManaged, Container
<1>2. switched \in SUBSET Container
  BY <1>1 DEF Container
<1>3. \A s \in switched : \E d \in WithId(c.id) : s.id = d.id /\ s.name = d.name /\ s.ours = d.ours
  BY <1>1 DEF Container
<1>4. \A s, d \in switched : s = d
  OBVIOUS
<1>5. containers' = Without(c.id) \cup switched
  OBVIOUS
<1> HIDE DEF switched
<1>. QED  BY <1>1, <1>2, <1>3, <1>4, <1>5, Switching

\* A container whose labels were compared is ours, and its id with it.
LEMMA OwnedId ==
    ASSUME Daemon, NEW name, NEW c \in IsOwned(name)
    PROVE  c.id \in Nat \ {ForeignId}
BY DEF Daemon, IsOwned, Named, Container

\* A step that leaves the daemon alone.
LEMMA DaemonSame ==
    ASSUME Daemon, UNCHANGED docker
    PROVE  Daemon' /\ GuestsStay
BY DEF Daemon, docker, GuestsStay

\* The volume may come and go.
LEMMA VolumeChanges ==
    ASSUME Daemon, volume' \in BOOLEAN, UNCHANGED <<containers, born>>
    PROVE  Daemon' /\ GuestsStay
BY DEF Daemon, GuestsStay

-----------------------------------------------------------------------------
(* What calls do to what they have in hand. *)

LEMMA ToOurs ==
    ASSUME CreateIsOurs(creating), NEW step \in Creating \cup {"idle", "done", "failed", "crashed", "cut"}
    PROVE  CreateIsOurs(To(step))
BY DEF CreateIsOurs, CreateCall, To

LEMMA UndoOurs ==
    ASSUME CreateIsOurs(creating)
    PROVE  CreateIsOurs(Undo)
<1>1. AfterUndo(creating, "start") \in Creating \cup {"failed"}
  BY DEF AfterUndo, Creating, Cleaning
<1>2. Undo \in CreateCall
  BY <1>1 DEF Undo, CreateIsOurs, CreateCall, NoId
<1>3. Undo.box = creating.box /\ Undo.fwd = creating.fwd /\ Undo.found = NoId
  BY DEF Undo, CreateIsOurs, CreateCall
<1>. QED  BY <1>2, <1>3 DEF CreateIsOurs, NoId, ForeignId

\* A new call has nothing in hand.
LEMMA NewCallIsOurs ==
    ASSUME NEW calm \in BOOLEAN
    PROVE  CreateIsOurs(NewCall(calm))
<1>1. NewCall(calm) \in CreateCall
  BY DEF NewCall, CreateCall, Creating, Names, NoId
<1>. QED  BY <1>1 DEF NewCall, CreateIsOurs, NoId, ForeignId

LEMMA CreateKeeps ==
    ASSUME IInv, NEW next, CreateIsOurs(next), Create(next), Daemon',
           own' \subseteq FirstId .. born', stray' \subseteq Names \cup {"volume"}, excused' \in BOOLEAN
    PROVE  IInv'
<1>1. Around'
  BY DEF IInv, Around, Create, around
<1>2. CreateIsOurs(creating)'
  BY DEF Create, CreateIsOurs
<1>3. destroying' = destroying
  BY DEF Create
<1>. QED  BY <1>1, <1>2, <1>3 DEF IInv, DestroyIsOurs

\* The same, when the daemon and the history stay as they are.
LEMMA CreateMoves ==
    ASSUME IInv, NEW next, CreateIsOurs(next), Create(next), UNCHANGED <<docker, stray, history>>
    PROVE  IInv' /\ GuestsStay
<1>1. Daemon' /\ GuestsStay
  BY DaemonSame DEF IInv
<1>2. own' = own /\ born' = born /\ stray' = stray /\ excused' = excused
  BY DEF docker, history
<1>. QED  BY <1>1, <1>2, CreateKeeps DEF IInv, Around

LEMMA DestroyKeeps ==
    ASSUME IInv, NEW d \in Destroyers, NEW next, DestroyIsOurs(next), Destroy(d, next),
           Daemon', UNCHANGED creating
    PROVE  IInv'
<1>1. Around'
  BY DEF IInv, Around, Destroy, around, history
<1>2. destroying' \in [Destroyers -> DestroyCall]
  BY DEF IInv, Destroy, DestroyIsOurs
<1>3. \A e \in Destroyers : DestroyIsOurs(destroying'[e])
  BY DEF IInv, Destroy
<1>. QED  BY <1>1, <1>2, <1>3 DEF IInv, CreateIsOurs, DestroyIsOurs

LEMMA GotoOurs ==
    ASSUME IInv, NEW d \in Destroyers, NEW id \in Nat \ {ForeignId},
           NEW step \in {"inspect_fwd", "remove_fwd", "inspect_box", "stop_box", "remove_box",
                         "volume", "done", "failed"}
    PROVE  DestroyIsOurs(Goto(d, step, id))
<1>1. destroying[d] \in DestroyCall
  BY DEF IInv
<1>. QED  BY <1>1 DEF Goto, DestroyIsOurs, DestroyCall

-----------------------------------------------------------------------------
(* create. *)

LEMMA CreatingKeeps ==
    ASSUME IInv, CreateStep \/ PollFails \/ DeadlinePasses
    PROVE  IInv' /\ GuestsStay
<1>0. CreateIsOurs(creating) /\ Daemon /\ CreateIsOurs(Undo)
  BY UndoOurs DEF IInv
<1> DEFINE Ends == Creating \cup {"idle", "done", "failed", "crashed", "cut"}
<1>t. \A step \in Ends : CreateIsOurs(To(step))
  BY <1>0, ToOurs
<1>1. CASE FindImage
  BY <1>1, <1>t, CreateMoves DEF FindImage, Creating, Requests
<1>2. CASE PullImage
  BY <1>2, <1>t, CreateMoves DEF PullImage, PullEnds, Creating, Requests
<1>3. CASE EnsureNetwork
  <2>1. Daemon' /\ GuestsStay
    BY <1>0, <1>3, DaemonSame DEF EnsureNetwork
  <2>2. Around'
    BY <1>3 DEF EnsureNetwork, IInv, Around, docker, history
  <2>3. CreateIsOurs(creating)'
    <3>1. creating' = Undo \/ creating' = To("volume")
      BY <1>3 DEF EnsureNetwork
    <3>. QED  BY <3>1, <1>0, <1>t DEF CreateIsOurs, Creating, Requests
  <2>. QED  BY <2>1, <2>2, <2>3, <1>3 DEF EnsureNetwork, IInv, DestroyIsOurs
<1>4. CASE CreateVolume
  <2>1. Daemon' /\ GuestsStay
    BY <1>0, <1>4, VolumeChanges DEF CreateVolume
  <2>2. CreateIsOurs([creating EXCEPT !.pc = "create", !.made = TRUE])
    BY <1>0 DEF CreateIsOurs, CreateCall, Creating, Requests
  <2>. QED  BY <2>1, <2>2, <1>4, CreateKeeps DEF CreateVolume, IInv, Around, history
<1>5. CASE CreateContainer
  <2>1. creating.target \in Names
    BY <1>0 DEF CreateIsOurs, CreateCall
  <2>2. Daemon' /\ GuestsStay /\ born' \in Nat /\ born' = born + 1 /\ born' # ForeignId
    BY <1>0, <1>5, <2>1, Creation DEF CreateContainer
  <2>3. CreateIsOurs([creating EXCEPT !.pc = "start", ![creating.target] = born', !.found = NoId])
    <3> DEFINE next == [creating EXCEPT !.pc = "start", ![creating.target] = born', !.found = NoId]
    <3>1. CASE creating.target = "box"
      <4>1. next \in CreateCall
        BY <1>0, <2>2, <3>1 DEF CreateIsOurs, CreateCall, Creating, Requests, NoId
      <4>2. next.box = born' /\ next.fwd = creating.fwd /\ next.found = NoId
        BY <1>0, <3>1 DEF CreateIsOurs, CreateCall
      <4>. QED  BY <1>0, <2>2, <4>1, <4>2 DEF CreateIsOurs, NoId, ForeignId
    <3>2. CASE creating.target = "fwd"
      <4>1. next \in CreateCall
        BY <1>0, <2>2, <3>2 DEF CreateIsOurs, CreateCall, Creating, Requests, NoId
      <4>2. next.fwd = born' /\ next.box = creating.box /\ next.found = NoId
        BY <1>0, <3>2 DEF CreateIsOurs, CreateCall
      <4>. QED  BY <1>0, <2>2, <4>1, <4>2 DEF CreateIsOurs, NoId, ForeignId
    <3>. QED  BY <2>1, <3>1, <3>2 DEF Names
  <2>4. own' \subseteq FirstId .. born'
    BY <1>5, <2>2 DEF CreateContainer, IInv, Around, Daemon, FirstId, ForeignId
  <2>. QED  BY <1>5, <2>2, <2>3, <2>4, CreateKeeps DEF CreateContainer, IInv, Around
<1>6. CASE NameTaken
  <2>1. Create(To("inspect")) \/ Create(Undo)
    BY <1>6 DEF NameTaken
  <2>. QED  BY <1>6, <2>1, <1>0, <1>t, CreateMoves DEF NameTaken, Creating, Requests
<1>7. CASE InspectTaken
  <2>1. CASE Create(Undo)
    BY <1>7, <2>1, <1>0, CreateMoves DEF InspectTaken
  <2>2. ASSUME NEW c \in IsOwned(creating.target), Create([creating EXCEPT !.pc = "evict", !.found = c.id])
        PROVE  IInv' /\ GuestsStay
    <3>1. c.id \in Nat \ {ForeignId}
      BY <1>0, OwnedId
    <3>2. CreateIsOurs([creating EXCEPT !.pc = "evict", !.found = c.id])
      BY <1>0, <3>1 DEF CreateIsOurs, CreateCall, Creating, Requests
    <3>. QED  BY <1>7, <2>2, <3>2, CreateMoves DEF InspectTaken
  <2>. QED  BY <1>7, <2>1, <2>2 DEF InspectTaken
<1>8. CASE EvictLeftover
  <2>1. creating.found \in Nat \ {ForeignId}
    BY <1>0 DEF CreateIsOurs, CreateCall
  <2>2. Daemon' /\ GuestsStay
    BY <1>0, <1>8, <2>1, Removal DEF EvictLeftover
  <2>3. Create(To("retry")) /\ UNCHANGED <<born, stray, history>>
    BY <1>8 DEF EvictLeftover
  <2>4. CreateIsOurs(To("retry"))
    BY <1>t DEF Creating, Requests
  <2>. QED  BY <2>2, <2>3, <2>4, CreateKeeps DEF IInv, Around, history
<1>9. CASE StartContainer
  <2>1. creating[creating.target] \in Nat \ {ForeignId}
    BY <1>0 DEF CreateIsOurs, CreateCall, Names
  <2>2. Daemon' /\ GuestsStay
    BY <1>0, <1>9, <2>1, Starting DEF StartContainer
  <2>3. CreateIsOurs(CreateForwarder) /\ CreateIsOurs(To("endpoint"))
    BY <1>0, <1>t DEF CreateForwarder, CreateIsOurs, CreateCall, Names, Creating, Requests
  <2>4. Create(CreateForwarder) \/ Create(To("endpoint"))
    BY <1>9 DEF StartContainer
  <2>. QED  BY <1>9, <2>2, <2>3, <2>4, CreateKeeps DEF StartContainer, IInv, Around, history
<1>10. CASE ResolveEndpoint
  BY <1>10, <1>t, CreateMoves DEF ResolveEndpoint, Creating, Requests
<1>11. CASE AgentIsReady
  <2>1. CreateIsOurs([To("done") EXCEPT !.late = FALSE])
    BY <1>0 DEF To, CreateIsOurs, CreateCall
  <2>. QED  BY <1>11, <2>1, CreateMoves DEF AgentIsReady
<1>12. CASE OutOfTime \/ RequestFails \/ PollFails
  BY <1>12, <1>0, CreateMoves DEF OutOfTime, RequestFails, PollFails
<1>13. CASE RequestLost
  <2>1. Daemon' /\ GuestsStay
    BY <1>0, <1>13, DaemonSame DEF RequestLost
  <2>2. Pending \subseteq Names \cup {"volume"}
    BY <1>0 DEF Pending, CreateIsOurs, CreateCall
  <2>3. born' = born /\ own' = own /\ stray' = stray \cup Pending /\ excused' = TRUE /\ Create(Undo)
    BY <1>13 DEF RequestLost, docker
  <2>. QED  BY <1>0, <2>1, <2>2, <2>3, CreateKeeps DEF IInv, Around
<1>14. CASE RollbackContainer
  <2>1. creating.fwd \in Nat \ {ForeignId} /\ creating.box \in Nat \ {ForeignId}
    BY <1>0 DEF CreateIsOurs, CreateCall
  <2>2. UNCHANGED <<volume, born, stray, own>> /\ excused' \in BOOLEAN
    BY <1>14 DEF RollbackContainer, IInv, Around
  <2>3. \/ containers' = containers
        \/ containers' = Without(creating.fwd)
        \/ containers' = Without(creating.box)
    BY <1>14 DEF RollbackContainer
  <2>4. Daemon' /\ GuestsStay
    BY <1>0, <2>1, <2>2, <2>3, Removal, DaemonSame DEF docker
  <2>5. AfterUndo(creating, creating.pc) \in Ends
    BY DEF AfterUndo, Creating, Cleaning
  <2>6. Create(To(AfterUndo(creating, creating.pc))) /\ CreateIsOurs(To(AfterUndo(creating, creating.pc)))
    BY <1>14, <1>t, <2>5 DEF RollbackContainer
  <2>. QED  BY <2>2, <2>4, <2>6, CreateKeeps DEF IInv, Around
<1>15. CASE RollbackVolume
  <2>1. UNCHANGED <<containers, born, stray, own>> /\ excused' \in BOOLEAN
    BY <1>15 DEF RollbackVolume, IInv, Around
  <2>2. volume' \in BOOLEAN
    BY <1>15, <1>0 DEF RollbackVolume, Daemon
  <2>3. Daemon' /\ GuestsStay
    BY <1>0, <2>1, <2>2, VolumeChanges
  <2> DEFINE gone == pinned \/ \E c \in ListManaged : c.name = "box" /\ c.id \notin own
             next == [To("failed") EXCEPT !.kept = gone]
  <2>4. Create(next)
    BY <1>15 DEF RollbackVolume
  <2>5. gone \in BOOLEAN
    BY DEF IInv, Around
  <2>6. CreateIsOurs(next)
    <3> HIDE DEF gone
    <3>. QED  BY <1>0, <2>5 DEF To, CreateIsOurs, CreateCall
  <2> HIDE DEF next
  <2>. QED  BY <2>1, <2>3, <2>4, <2>6, CreateKeeps DEF IInv, Around
<1>16. CASE DeadlinePasses
  <2>1. CreateIsOurs([creating EXCEPT !.late = TRUE])
    BY <1>0 DEF CreateIsOurs, CreateCall
  <2>. QED  BY <1>16, <2>1, CreateMoves DEF DeadlinePasses
<1>. QED  BY <1>1, <1>2, <1>3, <1>4, <1>5, <1>6, <1>7, <1>8, <1>9, <1>10, <1>11, <1>12,
             <1>13, <1>14, <1>15, <1>16 DEF CreateStep

-----------------------------------------------------------------------------
(* destroy. *)

LEMMA DestroyingKeeps ==
    ASSUME IInv, NEW d \in Destroyers, DestroyStep(d)
    PROVE  IInv' /\ GuestsStay
<1>0. Daemon /\ destroying[d] \in DestroyCall /\ destroying[d].found \in Nat \ {ForeignId}
  BY DEF IInv, DestroyIsOurs, DestroyCall
<1>1. NoId \in Nat \ {ForeignId}
  BY DEF NoId, ForeignId
<1> DEFINE Labels == {"inspect_fwd", "remove_fwd", "inspect_box", "stop_box", "remove_box",
                      "volume", "done", "failed"}
<1>2. \A step \in Labels, id \in Nat \ {ForeignId} : DestroyIsOurs(Goto(d, step, id))
  BY GotoOurs
\* A step that only looks at what has a name.
<1>3. ASSUME NEW name, NEW miss \in Labels, NEW hit \in Labels, UNCHANGED <<containers, volume, creating>>,
             IF IsOwned(name) = {} THEN Destroy(d, Goto(d, miss, NoId))
             ELSE \E c \in IsOwned(name) : Destroy(d, Goto(d, hit, c.id))
      PROVE  IInv' /\ GuestsStay
  <2>1. PICK step \in Labels, id \in Nat \ {ForeignId} : Destroy(d, Goto(d, step, id))
    BY <1>0, <1>1, <1>3, OwnedId
  <2>2. Daemon' /\ GuestsStay
    BY <1>0, <1>3, <2>1, DaemonSame DEF docker, Destroy
  <2>. QED  BY <1>2, <1>3, <2>1, <2>2, DestroyKeeps
\* A step that removes what is in hand.
<1>4. ASSUME NEW step \in Labels, Destroy(d, Goto(d, step, NoId)), UNCHANGED <<volume, creating>>,
             containers' = Without(destroying[d].found)
      PROVE  IInv' /\ GuestsStay
  <2>1. Daemon' /\ GuestsStay
    BY <1>0, <1>4, Removal DEF Destroy
  <2>. QED  BY <1>1, <1>2, <1>4, <2>1, DestroyKeeps
<1>5. CASE InspectForwarder(d)
  BY <1>5, <1>3 DEF InspectForwarder
<1>6. CASE RemoveForwarder(d)
  BY <1>6, <1>4 DEF RemoveForwarder
<1>7. CASE InspectBox(d)
  BY <1>7, <1>3 DEF InspectBox
<1>8. CASE StopBox(d)
  <2>1. Destroy(d, Goto(d, "remove_box", destroying[d].found)) /\ UNCHANGED <<volume, born, creating>>
    BY <1>8 DEF StopBox, Destroy
  <2>2. Daemon' /\ GuestsStay
    BY <1>0, <1>8, <2>1, Stopping DEF StopBox
  <2>. QED  BY <1>0, <1>2, <2>1, <2>2, DestroyKeeps
<1>9. CASE RemoveBox(d)
  BY <1>9, <1>4 DEF RemoveBox
<1>10. CASE RemoveVolume(d)
  <2> DEFINE next == [Goto(d, "done", NoId) EXCEPT !.kept = volume /\ pinned]
  <2>1. Daemon' /\ GuestsStay
    <3>1. volume' \in BOOLEAN
      BY <1>0, <1>10 DEF RemoveVolume, Daemon
    <3>. QED  BY <1>0, <1>10, <3>1, VolumeChanges DEF RemoveVolume, Destroy
  <2>2. (volume /\ pinned) \in BOOLEAN
    OBVIOUS
  <2>3. DestroyIsOurs(next)
    <3>1. DestroyIsOurs(Goto(d, "done", NoId))
      BY <1>1, <1>2
    <3> DEFINE kept == volume /\ pinned
    <3> HIDE DEF kept
    <3>. QED  BY <2>2, <3>1 DEF DestroyIsOurs, DestroyCall, kept
  <2>4. Destroy(d, next) /\ UNCHANGED creating
    BY <1>10 DEF RemoveVolume
  <2> HIDE DEF next
  <2>. QED  BY <2>1, <2>3, <2>4, DestroyKeeps
<1>11. CASE DestroyFails(d)
  <2>1. Daemon' /\ GuestsStay
    BY <1>0, <1>11, DaemonSame DEF DestroyFails, Destroy, docker
  <2>. QED  BY <1>1, <1>2, <1>11, <2>1, DestroyKeeps DEF DestroyFails
<1>. QED  BY <1>5, <1>6, <1>7, <1>8, <1>9, <1>10, <1>11 DEF DestroyStep

-----------------------------------------------------------------------------
(* The begin of a call, a crash, and the rest of the world. *)

LEMMA BeginningKeeps ==
    ASSUME IInv, BeginCreate \/ Crash \/ \E d \in Destroyers : BeginDestroy(d)
    PROVE  IInv' /\ GuestsStay
<1>1. CASE BeginCreate
  <2>1. Daemon' /\ GuestsStay
    BY <1>1, DaemonSame DEF IInv, BeginCreate
  <2>2. Around'
    BY <1>1, ProviderAssumption DEF IInv, Around, BeginCreate, around, docker
  <2> DEFINE calm == \A d \in Destroyers : ~Active(d)
  <2>3. calm \in BOOLEAN
    OBVIOUS
  <2>4. PICK step \in ValidateSpec : creating' = [NewCall(calm) EXCEPT !.pc = step]
    BY <1>1 DEF BeginCreate
  <2>5. CreateIsOurs(creating')
    <3> HIDE DEF calm
    <3>1. CreateIsOurs(NewCall(calm))
      BY <2>3, NewCallIsOurs
    <3>. QED  BY <2>4, <3>1 DEF ValidateSpec, CreateIsOurs, CreateCall, Creating
  <2>6. destroying' = [d \in Destroyers |-> [destroying[d] EXCEPT !.alone = FALSE]]
    BY <1>1 DEF BeginCreate
  <2>7. \A d \in Destroyers : DestroyIsOurs(destroying'[d])
    BY <2>6 DEF IInv, DestroyIsOurs, DestroyCall
  <2>8. destroying' \in [Destroyers -> DestroyCall]
    BY <2>6, <2>7 DEF DestroyIsOurs
  <2>. QED  BY <2>1, <2>2, <2>5, <2>7, <2>8 DEF IInv, CreateIsOurs, DestroyIsOurs
<1>2. CASE Crash
  <2>1. Daemon' /\ GuestsStay
    BY <1>2, DaemonSame DEF IInv, Crash
  <2>2. Pending \subseteq Names \cup {"volume"}
    BY DEF Pending, IInv, CreateIsOurs, CreateCall
  <2>3. Around'
    BY <1>2, <2>2 DEF IInv, Around, Crash, around, docker
  <2>4. CreateIsOurs(creating')
    BY <1>2, ToOurs DEF Crash, IInv
  <2>5. destroying' = [d \in Destroyers |->
                         [destroying[d] EXCEPT !.pc = IF Active(d) THEN "failed" ELSE @]]
    BY <1>2 DEF Crash
  <2>6. \A d \in Destroyers : DestroyIsOurs(destroying'[d])
    BY <2>5 DEF IInv, DestroyIsOurs, DestroyCall
  <2>7. destroying' \in [Destroyers -> DestroyCall]
    BY <2>5, <2>6 DEF DestroyIsOurs
  <2>. QED  BY <2>1, <2>3, <2>4, <2>6, <2>7 DEF IInv, CreateIsOurs, DestroyIsOurs
<1>3. ASSUME NEW d \in Destroyers, BeginDestroy(d)
      PROVE  IInv' /\ GuestsStay
  <2>1. Daemon' /\ GuestsStay
    BY <1>3, DaemonSame DEF IInv, BeginDestroy
  <2>2. Around'
    BY <1>3, ProviderAssumption DEF IInv, Around, BeginDestroy, around, docker, history
  <2>3. CreateIsOurs(creating')
    BY <1>3 DEF BeginDestroy, IInv, CreateIsOurs, CreateCall
  <2> DEFINE alone == stray = {} /\ creating.pc \notin Creating
             begun == [pc |-> "inspect_fwd", found |-> NoId, kept |-> FALSE, alone |-> alone]
  <2>4. alone \in BOOLEAN
    OBVIOUS
  <2>5. DestroyIsOurs(begun)
    <3> HIDE DEF alone
    <3>. QED  BY <2>4 DEF DestroyIsOurs, DestroyCall, NoId, ForeignId
  <2>6. destroying' = [destroying EXCEPT ![d] = begun]
    BY <1>3 DEF BeginDestroy
  <2> HIDE DEF begun
  <2>7. \A e \in Destroyers : DestroyIsOurs(destroying'[e])
    BY <2>5, <2>6 DEF IInv
  <2>8. destroying' \in [Destroyers -> DestroyCall]
    BY <2>5, <2>6 DEF IInv, DestroyIsOurs
  <2>. QED  BY <2>1, <2>2, <2>3, <2>7, <2>8 DEF IInv, CreateIsOurs, DestroyIsOurs
<1>. QED  BY <1>1, <1>2, <1>3

\* Outside a call, only a guest that leaves takes a foreign container away.
LEMMA WorldKeeps ==
    ASSUME IInv, \/ StrayLands \/ AgentComesUp \/ ForeignLeaves \/ Pin \/ Unpin
                 \/ \E name \in Names : ForeignTakes(name)
    PROVE  IInv' /\ UNCHANGED <<creating, destroying>>
<1>0. ASSUME Outside, Daemon', born' >= born, stray' \subseteq stray, pinned' \in BOOLEAN
      PROVE  IInv' /\ UNCHANGED <<creating, destroying>>
  <2>1. Around'
    BY <1>0 DEF IInv, Around, Outside, Daemon, FirstId
  <2>. QED  BY <1>0, <2>1 DEF IInv, Outside, CreateIsOurs, DestroyIsOurs
<1>1. Daemon /\ born >= born /\ pinned \in BOOLEAN
  BY DEF IInv, Around, Daemon
<1>2. CASE StrayLands
  <2>1. PICK request \in stray :
          /\ stray' = stray \ {request}
          /\ IF request = "volume" THEN volume' = TRUE /\ UNCHANGED <<containers, born>>
             ELSE IF Named(request) = {} THEN DaemonCreates(request) ELSE UNCHANGED docker
    BY <1>2 DEF StrayLands
  <2>2. Daemon' /\ born' >= born
    <3>1. CASE request = "volume"
      BY <1>1, <2>1, <3>1, VolumeChanges
    <3>2. CASE request # "volume" /\ Named(request) = {}
      <4>1. request \in Names
        BY <3>2 DEF IInv, Around
      <4>2. Daemon' /\ born' = born + 1
        BY <1>1, <2>1, <3>2, <4>1, Creation
      <4>. QED  BY <1>1, <4>2 DEF Daemon
    <3>3. CASE request # "volume" /\ Named(request) # {}
      BY <1>1, <2>1, <3>3, DaemonSame DEF docker
    <3>. QED  BY <3>1, <3>2, <3>3
  <2>. QED  BY <1>0, <1>1, <1>2, <2>1, <2>2 DEF StrayLands
<1>3. CASE AgentComesUp
  <2>1. Daemon'
    BY <1>1, <1>3, ComingUp DEF AgentComesUp
  <2>. QED  BY <1>0, <1>1, <1>3, <2>1 DEF AgentComesUp
<1>4. CASE ForeignLeaves
  <2>1. Daemon'
    BY <1>1, <1>4 DEF ForeignLeaves, Daemon
  <2>. QED  BY <1>0, <1>1, <1>4, <2>1 DEF ForeignLeaves
<1>5. CASE Pin \/ Unpin
  <2>1. Daemon'
    BY <1>1, <1>5, DaemonSame DEF Pin, Unpin
  <2>. QED  BY <1>0, <1>1, <1>5, <2>1 DEF Pin, Unpin, docker
<1>6. ASSUME NEW name \in Names, ForeignTakes(name)
      PROVE  IInv' /\ UNCHANGED <<creating, destroying>>
  <2> DEFINE guest == [id |-> ForeignId, name |-> name, ours |-> FALSE, up |-> TRUE, agent |-> FALSE]
  <2>1. guest \in Container /\ guest.id = ForeignId /\ guest.name = name /\ ~guest.ours
    BY DEF Container, ForeignId
  <2>2. containers' = containers \cup {guest} /\ UNCHANGED <<volume, born, stray, pinned>> /\ Outside
    BY <1>6 DEF ForeignTakes
  <2>3. \A c \in containers : c.id # ForeignId /\ c.name # name
    BY <1>6 DEF ForeignTakes, WithId, Named
  <2> HIDE DEF guest
  <2>4. Daemon'
    BY <1>1, <2>1, <2>2, <2>3 DEF Daemon
  <2>. QED  BY <1>0, <1>1, <2>2, <2>4
<1>. QED  BY <1>2, <1>3, <1>4, <1>5, <1>6

-----------------------------------------------------------------------------
(* The theorems. *)

LEMMA Start == Init => IInv
<1> SUFFICES ASSUME Init PROVE IInv
  OBVIOUS
<1>1. containers = {} /\ born = 1 /\ volume = FALSE /\ pinned = FALSE /\ stray = {}
  BY DEF Init, FirstId
<1>2. Daemon
  <2>1. born \in Nat /\ born >= ForeignId
    BY <1>1 DEF ForeignId
  <2>2. volume \in BOOLEAN
    BY <1>1
  <2>3. \A c \in containers : FALSE
    BY <1>1
  <2>. QED  BY <2>1, <2>2, <2>3, Zenon DEF Daemon
<1>3. budget \in 0 .. MaxCalls
  BY ProviderAssumption DEF Init
<1>4. Around
  BY <1>1, <1>3 DEF Init, Around
<1>5. CreateIsOurs([NewCall(TRUE) EXCEPT !.pc = "idle"])
  BY NewCallIsOurs DEF CreateIsOurs, CreateCall
<1>6. CreateIsOurs(creating)
  BY <1>5 DEF Init
<1>7. destroying \in [Destroyers -> DestroyCall] /\ \A d \in Destroyers : DestroyIsOurs(destroying[d])
  BY DEF Init, DestroyCall, DestroyIsOurs, NoId, ForeignId
<1>. QED  BY <1>2, <1>4, <1>6, <1>7 DEF IInv

LEMMA Step ==
    ASSUME IInv, Next
    PROVE  IInv' /\ (GuestsStay \/ UNCHANGED <<creating, destroying>>)
<1>1. CASE CreateStep \/ PollFails \/ DeadlinePasses
  BY <1>1, CreatingKeeps
<1>2. CASE BeginCreate \/ Crash \/ \E d \in Destroyers : BeginDestroy(d)
  BY <1>2, BeginningKeeps
<1>3. CASE \E d \in Destroyers : DestroyStep(d)
  BY <1>3, DestroyingKeeps
<1>4. CASE \/ StrayLands \/ AgentComesUp \/ ForeignLeaves \/ Pin \/ Unpin
           \/ \E name \in Names : ForeignTakes(name)
  BY <1>4, WorldKeeps
<1>. QED  BY <1>1, <1>2, <1>3, <1>4 DEF Next

LEMMA Inductive == Spec => []IInv
<1>1. IInv /\ [Next]_vars => IInv'
  <2> SUFFICES ASSUME IInv, [Next]_vars PROVE IInv'
    OBVIOUS
  <2>1. CASE Next
    BY <2>1, Step
  <2>2. CASE UNCHANGED vars
    BY <2>2 DEF vars, IInv, Daemon, Around, CreateIsOurs, DestroyIsOurs
  <2>. QED  BY <2>1, <2>2
<1>. QED  BY Start, <1>1, PTL DEF Spec

\* Every variable keeps its type, and ids and names stay unique, for any
\* number of callers and calls (local-docker.ts, create and destroy).
THEOREM TypeCorrect == Spec => []TypeOK
<1>1. IInv => TypeOK
  BY DEF IInv, Daemon, Around, CreateIsOurs, CreateCall, DestroyCall, TypeOK
<1>. QED  BY Inductive, <1>1, PTL

\* No call of create or destroy ever removes or changes a container that is
\* not ours (local-docker.ts:683, 1077), whatever fails, is lost, or is carried
\* out late, and whoever takes a name between two requests.
THEOREM GuestsAreSafe == Spec => ForeignUntouched
<1> DEFINE A == \A c \in containers : ~c.ours /\ c \notin containers' => UNCHANGED <<creating, destroying>>
<1>1. IInv /\ [Next]_vars => [A]_vars
  <2> SUFFICES ASSUME IInv, Next PROVE A
    OBVIOUS
  <2>1. GuestsStay \/ UNCHANGED <<creating, destroying>>
    BY Step
  <2>. QED  BY <2>1 DEF GuestsStay
<1> HIDE DEF A
<1>2. Spec => [][A]_vars
  BY Inductive, <1>1, PTL DEF Spec
<1>. QED  BY <1>2 DEF ForeignUntouched, A

-----------------------------------------------------------------------------
(* What a call leaves. *)

\* The requests before there is a volume, and before there is the container
\* that `target` names.
Early == {"image", "pull", "network", "volume"}
Before == Early \cup {"create", "inspect", "evict", "retry"}

\* The box has been created, and nothing is being undone.
Mounted(c) == c.pc \in {"start"} \cup Polls \/ (c.pc \in Before /\ c.target = "fwd")

\* What is not made yet is not in hand, so that an id in hand is never
\* overwritten and the rollback forgets none.
Fresh(c) ==
    /\ c.pc \in Early => c.target = "box" /\ ~c.made
    /\ c.pc \in Before => c.fwd = NoId /\ (c.target = "box" => c.box = NoId)
    /\ c.pc = "start" /\ c.target = "box" => c.fwd = NoId

\* While nobody else is at work the volume is there, from the box on; and the
\* handle is good from the moment create returns.
HandleOk ==
    /\ creating.calm => \A d \in Destroyers : ~Active(d)
    /\ creating.calm /\ Mounted(creating) => volume
    /\ HandleIsLive

\* The containers that the rollback has still to remove, or would have to.
Undoes(c) ==
    IF c.pc \in {"undo_vol", "failed"} THEN {}
    ELSE {c.box} \cup (IF c.pc = "undo_box" THEN {} ELSE {c.fwd})

RollbackOk ==
    /\ Fresh(creating)
    /\ ~excused => /\ stray = {}
                   /\ \A c \in containers : c.id \in own => c.id \in Undoes(creating)
                   /\ At("failed") /\ creating.made /\ volume => creating.kept

\* How far a destroy has got with the names of the sandbox.
Cleared(d) ==
    LET step == destroying[d].pc IN
    /\ step = "remove_fwd" => \A c \in IsOwned("fwd") : c.id = destroying[d].found
    /\ step \in {"inspect_box", "stop_box", "remove_box", "volume", "done"} => IsOwned("fwd") = {}
    /\ step \in {"stop_box", "remove_box"} => \A c \in IsOwned("box") : c.id = destroying[d].found
    /\ step \in {"volume", "done"} => IsOwned("box") = {}
    /\ step = "done" /\ volume => destroying[d].kept

\* No container of ours comes while a destroy is alone.
DestroyOk ==
    \A d \in Destroyers : destroying[d].alone =>
        stray = {} /\ creating.pc \notin Creating /\ Cleared(d)

LInv == HandleOk /\ RollbackOk /\ DestroyOk

\* Beside those a request of ours creates, no container of ours is new.
NothingNew ==
    \A c \in containers' : c.ours =>
        \E d \in containers : d.ours /\ d.id = c.id /\ d.name = c.name

LEMMA Newcomers ==
    ASSUME IInv, Next, ~CreateContainer, ~StrayLands
    PROVE  NothingNew
<1>0. containers \subseteq Container
  BY DEF IInv, Daemon
<1>1. CASE UNCHANGED containers
  BY <1>1 DEF NothingNew
<1>2. ASSUME NEW id, containers' = Without(id)
      PROVE  NothingNew
  BY <1>2 DEF NothingNew, Without
<1>3. ASSUME NEW id, DaemonStarts(id)
      PROVE  NothingNew
  BY <1>0, <1>3 DEF NothingNew, DaemonStarts, Without, WithId, Container
<1>4. ASSUME NEW d \in Destroyers, StopBox(d)
      PROVE  NothingNew
  <2> DEFINE id == destroying[d].found
  <2>1. containers' = Without(id) \cup {[c EXCEPT !.up = FALSE, !.agent = FALSE] : c \in WithId(id)}
    BY <1>4 DEF StopBox
  <2>2. \A c \in WithId(id) :
           LET b == [c EXCEPT !.up = FALSE, !.agent = FALSE]
           IN  c \in containers /\ b.ours = c.ours /\ b.id = c.id /\ b.name = c.name
    BY <1>0 DEF WithId, Container
  <2> HIDE DEF id
  <2>. QED  BY <2>1, <2>2 DEF NothingNew, Without
<1>5. CASE AgentComesUp
  BY <1>0, <1>5 DEF AgentComesUp, NothingNew, Without, ListManaged, Container
<1>6. ASSUME NEW name, ForeignTakes(name)
      PROVE  NothingNew
  BY <1>6 DEF ForeignTakes, NothingNew
<1>7. CASE ForeignLeaves
  BY <1>7 DEF ForeignLeaves, NothingNew
<1>8. CASE CreateStep
  BY <1>1, <1>2, <1>3, <1>8 DEF CreateStep, FindImage, PullImage, EnsureNetwork, CreateVolume,
     NameTaken, InspectTaken, EvictLeftover, StartContainer, ResolveEndpoint, AgentIsReady,
     OutOfTime, RequestFails, RequestLost, RollbackContainer, RollbackVolume, docker
<1>9. ASSUME NEW d \in Destroyers, DestroyStep(d)
      PROVE  NothingNew
  BY <1>1, <1>2, <1>4, <1>9 DEF DestroyStep, InspectForwarder, RemoveForwarder, InspectBox,
     RemoveBox, RemoveVolume, DestroyFails
<1>10. CASE \/ BeginCreate \/ PollFails \/ DeadlinePasses \/ Crash \/ Pin \/ Unpin
            \/ \E d \in Destroyers : BeginDestroy(d)
  BY <1>1, <1>10 DEF BeginCreate, PollFails, DeadlinePasses, Crash, Pin, Unpin, BeginDestroy, docker
<1>. QED  BY <1>5, <1>6, <1>7, <1>8, <1>9, <1>10 DEF Next

-----------------------------------------------------------------------------
(* The handle. *)

\* An agent that reports ready is that of the container in hand, which is ours.
LEMMA ReadyIsOurs ==
    ASSUME IInv, Answers(creating), volume
    PROVE  /\ \E c \in WithId(creating.box) : c.ours /\ c.up /\ c.agent
           /\ volume
           /\ platform = "darwin" => \E c \in WithId(creating.fwd) : c.ours /\ c.up
<1>1. \A c \in containers : c.id # ForeignId => c.ours
  BY DEF IInv, Daemon
<1>2. creating.box # ForeignId /\ creating.fwd # ForeignId
  BY DEF IInv, CreateIsOurs
<1>3. \A b, x \in WithId(creating.box) : b = x
  BY DEF IInv, Daemon, WithId
<1>. QED  BY <1>1, <1>2, <1>3 DEF Answers, Reachable, WithId

\* The fields of the call after the steps that set several.
LEMMA CreateFields ==
    ASSUME CreateIsOurs(creating)
    PROVE  /\ \A step : LET c == To(step) IN
                 /\ c.pc = step /\ c.target = creating.target /\ c.box = creating.box
                 /\ c.fwd = creating.fwd /\ c.made = creating.made /\ c.calm = creating.calm
                 /\ c.kept = creating.kept
           /\ Undo.pc = AfterUndo(creating, "start") /\ Undo.target = creating.target
           /\ Undo.box = creating.box /\ Undo.fwd = creating.fwd /\ Undo.made = creating.made
           /\ Undo.calm = creating.calm /\ Undo.kept = creating.kept
           /\ creating.target \in Names
<1>1. creating \in CreateCall
  BY DEF CreateIsOurs
<1>2. \A step : LET c == To(step) IN
         /\ c.pc = step /\ c.target = creating.target /\ c.box = creating.box
         /\ c.fwd = creating.fwd /\ c.made = creating.made /\ c.calm = creating.calm
         /\ c.kept = creating.kept
  BY <1>1 DEF To, CreateCall
<1>3. /\ Undo.pc = AfterUndo(creating, "start") /\ Undo.target = creating.target
      /\ Undo.box = creating.box /\ Undo.fwd = creating.fwd /\ Undo.made = creating.made
      /\ Undo.calm = creating.calm /\ Undo.kept = creating.kept
  <2> DEFINE next == AfterUndo(creating, "start")
  <2> HIDE DEF next
  <2>1. LET c == [creating EXCEPT !.pc = next, !.found = NoId, !.late = FALSE] IN
         /\ c.pc = next /\ c.target = creating.target /\ c.box = creating.box
         /\ c.fwd = creating.fwd /\ c.made = creating.made /\ c.calm = creating.calm
         /\ c.kept = creating.kept
    BY <1>1 DEF CreateCall
  <2>. QED  BY <2>1 DEF Undo, next
<1>. QED  BY <1>1, <1>2, <1>3 DEF CreateCall

\* The same of the container that has just been created.
LEMMA CreatedFields ==
    ASSUME IInv, CreateContainer
    PROVE  /\ creating'.pc = "start" /\ creating'.target = creating.target
           /\ creating'.made = creating.made /\ creating'.calm = creating.calm
           /\ creating.target = "box" => creating'.box = born' /\ creating'.fwd = creating.fwd
           /\ creating.target = "fwd" => creating'.fwd = born' /\ creating'.box = creating.box
           /\ creating.target \in Names
<1>1. creating \in CreateCall
  BY DEF IInv, CreateIsOurs
<1>2. creating' = [creating EXCEPT !.pc = "start", ![creating.target] = born', !.found = NoId]
  BY DEF CreateContainer, Create
<1>3. creating.target \in Names
  BY <1>1 DEF CreateCall
<1>4. CASE creating.target = "box"
  BY <1>1, <1>2, <1>4 DEF CreateCall
<1>5. CASE creating.target = "fwd"
  BY <1>1, <1>2, <1>5 DEF CreateCall
<1>. QED  BY <1>3, <1>4, <1>5 DEF Names

\* Of the rest of the world, nothing stops or takes a container of ours.
LEMMA WorldSpares ==
    ASSUME IInv, \/ StrayLands \/ AgentComesUp \/ ForeignLeaves \/ Pin \/ Unpin
                 \/ \E name \in Names : ForeignTakes(name)
    PROVE  /\ \A c \in containers : c.id # ForeignId =>
                \E d \in containers' : d.id = c.id /\ d.ours = c.ours /\ (c.up => d.up) /\ (c.agent => d.agent)
           /\ volume => volume'
           /\ UNCHANGED <<creating, destroying, platform, excused, own>>
<1>0. containers \subseteq Container
  BY DEF IInv, Daemon
<1>1. CASE StrayLands
  BY <1>1 DEF StrayLands, DaemonCreates, docker, Outside
<1>2. CASE AgentComesUp
  <2>1. PICK c \in containers : containers' = Without(c.id) \cup {[c EXCEPT !.agent = TRUE]}
    BY <1>2 DEF AgentComesUp, ListManaged
  <2> DEFINE awake == [c EXCEPT !.agent = TRUE]
  <2>2. awake.id = c.id /\ awake.ours = c.ours /\ awake.up = c.up /\ awake.agent
    BY <1>0 DEF Container
  <2>3. \A x \in containers : x.id = c.id => x = c
    BY DEF IInv, Daemon
  <2>4. containers' = Without(c.id) \cup {awake}
    BY <2>1
  <2> HIDE DEF awake
  <2>5. \A x \in containers : x.id # ForeignId =>
           \E d \in containers' : d.id = x.id /\ d.ours = x.ours /\ (x.up => d.up) /\ (x.agent => d.agent)
    BY <2>2, <2>3, <2>4 DEF Without, WithId
  <2>. QED  BY <1>2, <2>5 DEF AgentComesUp, Outside
<1>3. CASE ForeignLeaves \/ Pin \/ Unpin \/ \E name \in Names : ForeignTakes(name)
  BY <1>3 DEF ForeignLeaves, Pin, Unpin, ForeignTakes, WithId, docker, Outside
<1>. QED  BY <1>1, <1>2, <1>3

LEMMA HandleStep ==
    ASSUME IInv, HandleOk, Fresh(creating), Next
    PROVE  HandleOk'
<1>0. creating \in CreateCall /\ CreateIsOurs(creating) /\ destroying \in [Destroyers -> DestroyCall]
  BY DEF IInv, CreateIsOurs
<1>f. /\ Undo.pc \in Cleaning \cup {"failed"} /\ Undo.calm = creating.calm
      /\ \A step : To(step).pc = step /\ To(step).target = creating.target /\ To(step).calm = creating.calm
  <2>1. AfterUndo(creating, "start") \in Cleaning \cup {"failed"}
    BY DEF AfterUndo, Cleaning
  <2>. QED  BY <1>0, <2>1, CreateFields
\* A step of create.
<1>1. ASSUME creating'.calm = creating.calm, UNCHANGED destroying, creating'.pc # "done",
             creating.calm /\ Mounted(creating') => volume'
      PROVE  HandleOk'
  BY <1>1 DEF HandleOk, HandleIsLive, At, Active
\* ... that is over, or falls back to its rollback.
<1>2. ASSUME NEW next, Create(next), next.calm = creating.calm,
             next.pc \in Cleaning \cup {"failed", "cut", "network", "volume"},
             next.pc \in {"network", "volume"} => next.target = "box"
      PROVE  HandleOk'
  <2>1. ~ Mounted(creating')
    BY <1>2 DEF Create, Mounted, Cleaning, Polls, Before, Early
  <2>. QED  BY <1>1, <1>2, <2>1 DEF Create, Cleaning
<1>u. Create(Undo) => HandleOk'
  <2>1. Undo.pc \notin {"network", "volume"}
    BY <1>f DEF Cleaning
  <2>. QED  BY <1>2, <1>f, <2>1
\* ... or goes on, with the volume as it is.
<1>3. ASSUME NEW next, Create(next), next.calm = creating.calm, next.pc # "done",
             Mounted(next) => Mounted(creating), volume => volume'
      PROVE  HandleOk'
  <2>1. creating.calm /\ Mounted(creating) => volume
    BY DEF HandleOk
  <2>. QED  BY <1>1, <1>3, <2>1 DEF Create
<1>4. CASE FindImage \/ PullImage
  <2>1. PICK step \in {"network", "pull", "failed", "cut"} : Create(To(step)) /\ creating.target = "box"
    BY <1>4 DEF FindImage, PullImage, PullEnds, At, Fresh, Early
  <2>2. CASE step = "pull"
    <3>1. ~ Mounted(To(step))
      BY <1>f, <2>1, <2>2 DEF Mounted, Polls, Before, Early
    <3>. QED  BY <1>3, <1>4, <1>f, <2>1, <2>2, <3>1 DEF FindImage, PullImage, docker
  <2>. QED  BY <1>2, <1>f, <2>1, <2>2
<1>5. CASE EnsureNetwork
  <2>1. creating' = Undo \/ (creating' = To("volume") /\ creating.target = "box")
    BY <1>5 DEF EnsureNetwork, At, Fresh, Early
  <2>2. ~ Mounted(creating') /\ creating'.pc # "done" /\ creating'.calm = creating.calm
    BY <1>f, <2>1 DEF Mounted, Cleaning, Polls, Before, Early
  <2>. QED  BY <1>1, <1>5, <2>2 DEF EnsureNetwork
<1>6. CASE CreateVolume
  <2>1. LET next == [creating EXCEPT !.pc = "create", !.made = TRUE]
        IN  next.calm = creating.calm /\ next.pc = "create"
    BY <1>0 DEF CreateCall
  <2>. QED  BY <1>1, <1>6, <2>1 DEF CreateVolume, Create
<1>7. CASE CreateContainer
  <2>1. /\ creating'.pc = "start" /\ creating'.calm = creating.calm /\ UNCHANGED destroying
        /\ volume' = (volume \/ creating.target = "box")
        /\ creating.pc \in {"create", "retry"} /\ creating.target \in Names
    BY <1>7, CreatedFields DEF CreateContainer, Create, DaemonCreates
  <2>2. creating.target = "fwd" => Mounted(creating)
    BY <2>1 DEF Mounted, Before
  <2>. QED  BY <1>1, <2>1, <2>2 DEF HandleOk, Names
<1>8. CASE NameTaken
  <2>1. CASE Create(Undo)
    BY <1>u, <2>1
  <2>2. CASE Create(To("inspect")) /\ At("create")
    <3>1. Mounted(To("inspect")) => Mounted(creating)
      BY <1>f, <2>2 DEF Mounted, Before, At, Polls
    <3>. QED  BY <1>3, <1>8, <1>f, <2>2, <3>1 DEF NameTaken, docker
  <2>. QED  BY <1>8, <2>1, <2>2 DEF NameTaken
<1>9. CASE InspectTaken
  <2>1. CASE Create(Undo)
    BY <1>u, <2>1
  <2>2. ASSUME NEW c, Create([creating EXCEPT !.pc = "evict", !.found = c.id])
        PROVE  HandleOk'
    <3> DEFINE next == [creating EXCEPT !.pc = "evict", !.found = c.id]
    <3>1. next.pc = "evict" /\ next.calm = creating.calm /\ next.target = creating.target
      BY <1>0 DEF CreateCall
    <3>2. Mounted(next) => Mounted(creating)
      <4> HIDE DEF next
      <4>. QED  BY <1>9, <3>1 DEF InspectTaken, Mounted, Before, At, Polls
    <3>. QED  BY <1>3, <1>9, <2>2, <3>1, <3>2 DEF InspectTaken, docker
  <2>. QED  BY <1>9, <2>1, <2>2 DEF InspectTaken
<1>10. CASE EvictLeftover
  <2>1. Mounted(To("retry")) => Mounted(creating)
    BY <1>f, <1>10 DEF EvictLeftover, Mounted, Before, At, Polls
  <2>. QED  BY <1>3, <1>10, <1>f, <2>1 DEF EvictLeftover
<1>11. CASE StartContainer
  <2>1. Mounted(creating)
    BY <1>11 DEF StartContainer, Mounted, At
  <2>2. CreateForwarder.pc = "create" /\ CreateForwarder.calm = creating.calm
    BY <1>0 DEF CreateForwarder, CreateCall
  <2>3. Create(CreateForwarder) \/ Create(To("endpoint"))
    BY <1>11 DEF StartContainer
  <2>4. UNCHANGED volume
    BY <1>11 DEF StartContainer
  <2>. QED  BY <1>3, <1>f, <2>1, <2>2, <2>3, <2>4
<1>12. CASE ResolveEndpoint
  <2>1. Mounted(creating) /\ Create(To("health")) /\ UNCHANGED volume
    BY <1>12 DEF ResolveEndpoint, Mounted, At, Polls, docker
  <2>. QED  BY <1>3, <1>f, <2>1
<1>13. CASE AgentIsReady
  <2>1. /\ creating'.pc = "done" /\ creating'.calm = creating.calm
        /\ creating'.box = creating.box /\ creating'.fwd = creating.fwd
    BY <1>0, <1>13 DEF AgentIsReady, Create, To, CreateCall
  <2>2. UNCHANGED <<containers, volume, destroying, platform>> /\ Answers(creating) /\ Mounted(creating)
    BY <1>13 DEF AgentIsReady, Create, docker, around, At, Mounted, Polls
  <2>3. creating.calm => volume
    BY <2>2 DEF HandleOk
  <2>4. HandleIsLive'
    BY <2>1, <2>2, <2>3, ReadyIsOurs DEF HandleIsLive, At, WithId
  <2>5. ~ Mounted(creating')
    BY <2>1 DEF Mounted, Polls, Before, Early
  <2>. QED  BY <2>1, <2>2, <2>4, <2>5 DEF HandleOk, Active
<1>14. CASE OutOfTime \/ RequestFails \/ PollFails \/ RequestLost
  BY <1>u, <1>14 DEF OutOfTime, RequestFails, PollFails, RequestLost
<1>15. CASE RollbackContainer
  <2>1. AfterUndo(creating, creating.pc) \in Cleaning \cup {"failed"}
    BY DEF AfterUndo, Cleaning
  <2>2. Create(To(AfterUndo(creating, creating.pc)))
    BY <1>15 DEF RollbackContainer
  <2>. QED  BY <1>2, <1>f, <2>1, <2>2 DEF Cleaning
<1>16. CASE RollbackVolume
  <2> DEFINE gone == pinned \/ \E c \in ListManaged : c.name = "box" /\ c.id \notin own
             next == [To("failed") EXCEPT !.kept = gone]
  <2>1. next.pc = "failed" /\ next.calm = creating.calm
    <3> HIDE DEF gone
    <3>. QED  BY <1>0 DEF To, CreateCall
  <2>2. Create(next)
    BY <1>16 DEF RollbackVolume
  <2> HIDE DEF next
  <2>. QED  BY <1>2, <2>1, <2>2
<1>17. CASE DeadlinePasses
  <2>1. LET next == [creating EXCEPT !.late = TRUE]
        IN  next.pc = creating.pc /\ next.calm = creating.calm
    BY <1>0 DEF CreateCall
  <2>2. Mounted(creating) /\ creating.pc # "done"
    BY <1>17 DEF DeadlinePasses, Mounted, Polls
  <2>. QED  BY <1>3, <1>17, <2>1, <2>2 DEF DeadlinePasses, docker
<1>18. CASE BeginCreate
  <2> DEFINE quiet == \A d \in Destroyers : ~Active(d)
  <2>1. PICK step \in ValidateSpec : creating' = [NewCall(quiet) EXCEPT !.pc = step]
    BY <1>18 DEF BeginCreate
  <2>2. creating'.pc \in {"image", "failed"} /\ creating'.target = "box" /\ creating'.calm = quiet
    <3> HIDE DEF quiet
    <3>. QED  BY <2>1 DEF ValidateSpec, NewCall
  <2>3. \A d \in Destroyers : destroying'[d].pc = destroying[d].pc
    BY <1>0, <1>18 DEF BeginCreate, DestroyCall
  <2>4. ~ Mounted(creating')
    BY <2>2 DEF Mounted, Polls, Before, Early
  <2>. QED  BY <2>2, <2>3, <2>4 DEF HandleOk, HandleIsLive, At, Active
<1>19. CASE Crash
  <2>1. creating' = To("crashed")
    BY <1>19 DEF Crash
  <2>2. creating'.pc = "crashed" /\ ~ Mounted(creating')
    BY <1>f, <2>1 DEF Mounted, Polls, Before, Early
  <2>3. \A d \in Destroyers : destroying'[d].pc \in {"idle", "done", "failed"}
    BY <1>0, <1>19 DEF Crash, DestroyCall, Active
  <2>. QED  BY <2>2, <2>3 DEF HandleOk, HandleIsLive, At, Active
<1>20. ASSUME NEW d \in Destroyers, BeginDestroy(d)
       PROVE  HandleOk'
  <2>1. ~ creating'.calm
    BY <1>0, <1>20 DEF BeginDestroy, CreateCall
  <2>. QED  BY <2>1 DEF HandleOk, HandleIsLive
<1>21. ASSUME NEW d \in Destroyers, DestroyStep(d)
       PROVE  HandleOk'
  <2>1. UNCHANGED creating /\ Active(d)
    BY <1>21 DEF DestroyStep, InspectForwarder, RemoveForwarder, InspectBox, StopBox, RemoveBox,
       RemoveVolume, DestroyFails, Active
  <2>. QED  BY <2>1 DEF HandleOk, HandleIsLive
<1>22. CASE \/ StrayLands \/ AgentComesUp \/ ForeignLeaves \/ Pin \/ Unpin
            \/ \E name \in Names : ForeignTakes(name)
  <2>1. /\ \A c \in containers : c.id # ForeignId =>
             \E d \in containers' : d.id = c.id /\ d.ours = c.ours /\ (c.up => d.up) /\ (c.agent => d.agent)
        /\ volume => volume'
        /\ UNCHANGED <<creating, destroying, platform>>
    BY <1>22, WorldSpares
  <2>2. creating.box # ForeignId /\ creating.fwd # ForeignId
    BY <1>0 DEF CreateIsOurs
  <2>3. ASSUME At("done"), creating.calm
        PROVE  /\ \E c \in containers' : c.id = creating.box /\ c.ours /\ c.up /\ c.agent
               /\ volume'
               /\ platform = "darwin" => \E c \in containers' : c.id = creating.fwd /\ c.ours /\ c.up
    <3>1. /\ \E c \in containers : c.id = creating.box /\ c.ours /\ c.up /\ c.agent
          /\ volume
          /\ platform = "darwin" => \E c \in containers : c.id = creating.fwd /\ c.ours /\ c.up
      BY <2>3 DEF HandleOk, HandleIsLive, WithId
    <3>. QED  BY <2>1, <2>2, <3>1
  <2>4. HandleIsLive'
    BY <2>1, <2>3 DEF HandleIsLive, At, WithId
  <2>5. creating'.calm => \A d \in Destroyers : ~ Active(d)'
    BY <2>1 DEF HandleOk, Active
  <2>6. creating'.calm /\ Mounted(creating') => volume'
    BY <2>1 DEF HandleOk
  <2>. QED  BY <2>4, <2>5, <2>6 DEF HandleOk
<1>. QED  BY <1>4, <1>5, <1>6, <1>7, <1>8, <1>9, <1>10, <1>11, <1>12, <1>13, <1>14, <1>15, <1>16,
             <1>17, <1>18, <1>19, <1>20, <1>21, <1>22 DEF Next, CreateStep

-----------------------------------------------------------------------------
(* The rollback. *)

\* A destroy makes no container and no volume, and leaves the create alone.
LEMMA DestroyFrame ==
    ASSUME IInv, NEW d \in Destroyers, DestroyStep(d)
    PROVE  /\ UNCHANGED <<creating, stray, own, excused, born>>
           /\ volume' => volume
           /\ \A e \in Destroyers \ {d} : destroying'[e] = destroying[e]
           /\ NothingNew
<1>0. volume \in BOOLEAN /\ born \in Nat /\ destroying \in [Destroyers -> DestroyCall]
  BY DEF IInv, Daemon
<1>1. PICK next : Destroy(d, next)
  BY DEF DestroyStep, InspectForwarder, RemoveForwarder, InspectBox, StopBox, RemoveBox,
     RemoveVolume, DestroyFails
<1>2. UNCHANGED <<stray, own, excused, born>>
  BY <1>1 DEF Destroy, history
<1>3. UNCHANGED creating
  BY DEF DestroyStep, InspectForwarder, RemoveForwarder, InspectBox, StopBox, RemoveBox,
     RemoveVolume, DestroyFails
<1>4. volume' => volume
  BY DEF DestroyStep, InspectForwarder, RemoveForwarder, InspectBox, StopBox, RemoveBox,
     RemoveVolume, DestroyFails
<1>5. \A e \in Destroyers \ {d} : destroying'[e] = destroying[e]
  BY <1>0, <1>1 DEF Destroy
<1>6. ~ CreateContainer
  BY <1>0, <1>2 DEF CreateContainer, DaemonCreates
<1>7. ~ StrayLands
  BY <1>2 DEF StrayLands, IInv, Around
<1>8. NothingNew
  BY <1>6, <1>7, Newcomers DEF Next
<1>. QED  BY <1>2, <1>3, <1>4, <1>5, <1>8

LEMMA RollbackStep ==
    ASSUME IInv, IInv', RollbackOk, Next
    PROVE  RollbackOk'
<1>0. /\ creating \in CreateCall /\ CreateIsOurs(creating) /\ Fresh(creating)
      /\ \A id \in own : id # NoId /\ id # ForeignId
      /\ excused \in BOOLEAN /\ excused' \in BOOLEAN
  BY DEF IInv, CreateIsOurs, Around, RollbackOk, NoId, ForeignId, FirstId
<1>f. /\ Undo.pc = AfterUndo(creating, "start") /\ Undo.made = creating.made
      /\ Undo.box = creating.box /\ Undo.fwd = creating.fwd
      /\ \A step : /\ To(step).pc = step /\ To(step).target = creating.target
                   /\ To(step).made = creating.made /\ To(step).kept = creating.kept
                   /\ To(step).box = creating.box /\ To(step).fwd = creating.fwd
      /\ creating.target \in Names
  BY <1>0, CreateFields
\* Nothing new, and nothing dropped from the rollback that is still there.
<1>1. ASSUME Fresh(creating'), NothingNew, own' = own, ~excused' => ~excused /\ stray' = stray,
             ~excused => \A id \in own \cap Undoes(creating) :
                            id \in Undoes(creating') \/ \A c \in containers' : c.id # id,
             ~excused /\ creating'.pc = "failed" /\ creating'.made /\ volume' => creating'.kept
      PROVE  RollbackOk'
  <2>1. ASSUME ~excused', NEW c \in containers', c.id \in own
        PROVE  c.id \in Undoes(creating')
    <3>1. c.ours
      BY <1>0, <2>1 DEF IInv, Daemon
    <3>2. c.id \in Undoes(creating)
      BY <1>1, <2>1, <3>1 DEF NothingNew, RollbackOk
    <3>. QED  BY <1>1, <2>1, <3>2
  <2>2. ~excused' => stray' = {}
    BY <1>1 DEF RollbackOk
  <2>3. ~excused' /\ creating'.pc = "failed" /\ creating'.made /\ volume' => creating'.kept
    BY <1>1
  <2>. QED  BY <1>1, <2>1, <2>2, <2>3 DEF RollbackOk, At
<1>2. \A id \in own : id \in Undoes(creating) => id \in {creating.box, creating.fwd}
  BY DEF Undoes
\* The call goes on, or has nothing to undo yet.
<1>3. ASSUME NEW next, Create(next), Fresh(next), NothingNew, UNCHANGED <<stray, history>>,
             next.box = creating.box, next.fwd = creating.fwd,
             next.pc \notin {"undo_box", "undo_vol", "failed"}
      PROVE  RollbackOk'
  <2>1. Undoes(next) = {creating.box, creating.fwd}
    BY <1>3 DEF Undoes
  <2>. QED  BY <1>1, <1>2, <1>3, <2>1 DEF Create, history
\* The call begins its rollback.
<1>4. ASSUME Create(Undo), NothingNew, own' = own, ~excused' => ~excused /\ stray' = stray
      PROVE  RollbackOk'
  <2>1. Undo.pc \in Cleaning \cup {"failed"} /\ (Undo.pc = "failed" => ~ creating.made)
    BY <1>f DEF AfterUndo, Cleaning
  <2>2. Fresh(Undo)
    BY <2>1 DEF Fresh, Before, Early, Cleaning
  <2>3. \A id \in {creating.box, creating.fwd} : id = NoId \/ id \in Undoes(Undo)
    BY <1>f DEF AfterUndo, Undoes
  <2>. QED  BY <1>0, <1>1, <1>2, <1>4, <1>f, <2>1, <2>2, <2>3 DEF Create
<1>5. CASE FindImage \/ PullImage
  <2>1. PICK step \in {"network", "pull", "failed", "cut"} : Create(To(step))
    BY <1>5 DEF FindImage, PullImage, PullEnds
  <2>2. /\ creating.pc \in {"image", "pull"} /\ UNCHANGED <<stray, history>>
        /\ NothingNew
    BY <1>5 DEF FindImage, PullImage, At, docker, NothingNew
  <2>3. /\ creating.target = "box" /\ ~ creating.made
        /\ creating.fwd = NoId /\ creating.box = NoId
    BY <1>0, <2>2 DEF Fresh, Before, Early
  <2>4. Fresh(To(step))
    BY <1>f, <2>3 DEF Fresh
  <2>. QED  BY <1>0, <1>1, <1>2, <1>f, <2>1, <2>2, <2>3, <2>4 DEF Create, history
<1>6. CASE EnsureNetwork
  <2>1. NothingNew /\ own' = own /\ excused' = excused /\ stray' = stray /\ UNCHANGED <<volume, destroying>>
    BY <1>6 DEF EnsureNetwork, docker, history, NothingNew
  <2>2. CASE creating' = Undo
    <3>1. Undo.pc \in Cleaning \cup {"failed"} /\ (Undo.pc = "failed" => ~ creating.made)
      BY <1>f DEF AfterUndo, Cleaning
    <3>2. Fresh(Undo)
      BY <3>1 DEF Fresh, Before, Early, Cleaning
    <3>3. \A id \in {creating.box, creating.fwd} : id = NoId \/ id \in Undoes(Undo)
      BY <1>f DEF AfterUndo, Undoes
    <3>. QED  BY <1>0, <1>1, <1>2, <1>f, <2>1, <2>2, <3>1, <3>2, <3>3
  <2>3. CASE creating' = To("volume")
    <3>1. Fresh(To("volume"))
      BY <1>0, <1>6, <1>f DEF EnsureNetwork, At, Fresh, Before, Early
    <3>2. Undoes(To("volume")) = {creating.box, creating.fwd}
      BY <1>f DEF Undoes
    <3>. QED  BY <1>1, <1>2, <1>f, <2>1, <2>3, <3>1, <3>2
  <2>. QED  BY <1>6, <2>2, <2>3 DEF EnsureNetwork
<1>7. CASE CreateVolume
  <2> DEFINE next == [creating EXCEPT !.pc = "create", !.made = TRUE]
  <2>1. /\ next.pc = "create" /\ next.target = creating.target
        /\ next.box = creating.box /\ next.fwd = creating.fwd
    BY <1>0 DEF CreateCall
  <2>2. Create(next) /\ creating.pc = "volume" /\ NothingNew /\ UNCHANGED <<stray, history>>
    BY <1>7 DEF CreateVolume, At, NothingNew
  <2> HIDE DEF next
  <2>3. Fresh(next)
    BY <1>0, <2>1, <2>2 DEF Fresh, Before, Early
  <2>. QED  BY <1>3, <2>1, <2>2, <2>3
<1>8. CASE CreateContainer
  <2>1. /\ creating'.pc = "start" /\ creating'.target = creating.target
        /\ creating.target = "box" => creating'.box = born' /\ creating'.fwd = creating.fwd
        /\ creating.target = "fwd" => creating'.fwd = born' /\ creating'.box = creating.box
        /\ creating.target \in Names
    BY <1>8, CreatedFields
  <2>2. creating.pc \in {"create", "retry"} /\ own' = own \cup {born'} /\ UNCHANGED <<stray, excused>>
    BY <1>8 DEF CreateContainer
  <2>3. /\ creating.fwd = NoId /\ (creating.target = "box" => creating.box = NoId)
    BY <1>0, <2>2 DEF Fresh, Before
  <2>4. Fresh(creating')
    BY <2>1, <2>3 DEF Fresh, Before, Early
  <2>5. \A c \in containers' : c \in containers \/ c.id = born'
    BY <1>8 DEF CreateContainer, DaemonCreates
  <2>6. born' \in Undoes(creating')
    BY <2>1 DEF Undoes, Names
  <2>7. ASSUME ~excused, NEW c \in containers, c.id \in own
        PROVE  c.id \in Undoes(creating')
    <3>1. c.id \in {creating.box, creating.fwd} /\ c.id # NoId
      BY <1>0, <1>2, <2>7 DEF RollbackOk
    <3>2. creating.target = "fwd" /\ c.id = creating.box
      BY <2>1, <2>3, <3>1 DEF Names
    <3>. QED  BY <2>1, <3>2 DEF Undoes
  <2>. QED  BY <1>0, <2>1, <2>2, <2>4, <2>5, <2>6, <2>7 DEF RollbackOk, At
<1>9. CASE NameTaken
  <2>1. NothingNew /\ UNCHANGED <<stray, history>>
    BY <1>9 DEF NameTaken, docker, NothingNew
  <2>2. CASE Create(Undo)
    BY <1>4, <2>1, <2>2 DEF history
  <2>3. CASE Create(To("inspect")) /\ At("create")
    <3>1. Fresh(To("inspect"))
      BY <1>0, <1>f, <2>3 DEF Fresh, At, Before, Early
    <3>. QED  BY <1>3, <1>f, <2>1, <2>3, <3>1
  <2>. QED  BY <1>9, <2>2, <2>3 DEF NameTaken
<1>10. CASE InspectTaken
  <2>1. NothingNew /\ UNCHANGED <<stray, history>> /\ creating.pc = "inspect"
    BY <1>10 DEF InspectTaken, docker, NothingNew, At
  <2>2. CASE Create(Undo)
    BY <1>4, <2>1, <2>2 DEF history
  <2>3. ASSUME NEW c, Create([creating EXCEPT !.pc = "evict", !.found = c.id])
        PROVE  RollbackOk'
    <3> DEFINE next == [creating EXCEPT !.pc = "evict", !.found = c.id]
    <3>1. /\ next.pc = "evict" /\ next.target = creating.target
          /\ next.box = creating.box /\ next.fwd = creating.fwd
      BY <1>0 DEF CreateCall
    <3>2. Create(next)
      BY <2>3
    <3> HIDE DEF next
    <3>3. Fresh(next)
      BY <1>0, <2>1, <3>1 DEF Fresh, Before, Early
    <3>. QED  BY <1>3, <2>1, <3>1, <3>2, <3>3
  <2>. QED  BY <1>10, <2>2, <2>3 DEF InspectTaken
<1>11. CASE EvictLeftover
  <2>1. NothingNew /\ UNCHANGED <<stray, history>> /\ creating.pc = "evict" /\ Create(To("retry"))
    BY <1>11 DEF EvictLeftover, NothingNew, Without, At
  <2>2. Fresh(To("retry"))
    BY <1>0, <1>f, <2>1 DEF Fresh, Before, Early
  <2>. QED  BY <1>3, <1>f, <2>1, <2>2
<1>12. CASE StartContainer
  <2>1. NothingNew
    BY <1>12, Newcomers DEF StartContainer, CreateContainer, StrayLands, At, Create, DaemonStarts,
       Outside, Next, CreateStep
  <2>2. UNCHANGED <<stray, history>> /\ creating.pc = "start"
    BY <1>12 DEF StartContainer, At
  <2>3. CASE Create(CreateForwarder) /\ creating.target = "box"
    <3>1. /\ CreateForwarder.pc = "create" /\ CreateForwarder.target = "fwd"
          /\ CreateForwarder.box = creating.box /\ CreateForwarder.fwd = creating.fwd
      BY <1>0 DEF CreateForwarder, CreateCall
    <3>2. Fresh(CreateForwarder)
      BY <1>0, <2>2, <2>3, <3>1 DEF Fresh, Before, Early
    <3>. QED  BY <1>3, <2>1, <2>2, <2>3, <3>1, <3>2
  <2>4. CASE Create(To("endpoint"))
    <3>1. Fresh(To("endpoint"))
      BY <1>f DEF Fresh, Before, Early
    <3>. QED  BY <1>3, <1>f, <2>1, <2>2, <2>4, <3>1
  <2>. QED  BY <1>12, <2>3, <2>4 DEF StartContainer
<1>13. CASE ResolveEndpoint
  <2>1. Create(To("health")) /\ NothingNew /\ UNCHANGED <<stray, history>>
    BY <1>13 DEF ResolveEndpoint, docker, NothingNew
  <2>2. Fresh(To("health"))
    BY <1>f DEF Fresh, Before, Early
  <2>. QED  BY <1>3, <1>f, <2>1, <2>2
<1>14. CASE AgentIsReady \/ DeadlinePasses
  <2>1. PICK next : /\ Create(next) /\ next.pc \in {"done"} \cup Polls
                    /\ next.box = creating.box /\ next.fwd = creating.fwd
    <3>1. LET next == [To("done") EXCEPT !.late = FALSE]
          IN  next.pc = "done" /\ next.box = creating.box /\ next.fwd = creating.fwd
      BY <1>0 DEF To, CreateCall
    <3>2. LET next == [creating EXCEPT !.late = TRUE]
          IN  next.pc = creating.pc /\ next.box = creating.box /\ next.fwd = creating.fwd
      BY <1>0 DEF CreateCall
    <3>. QED  BY <1>14, <3>1, <3>2 DEF AgentIsReady, DeadlinePasses
  <2>2. NothingNew /\ UNCHANGED <<stray, history>>
    BY <1>14 DEF AgentIsReady, DeadlinePasses, docker, NothingNew
  <2>3. Fresh(next) /\ next.pc \notin {"undo_box", "undo_vol", "failed"}
    BY <2>1 DEF Fresh, Before, Early, Polls
  <2>. QED  BY <1>3, <2>1, <2>2, <2>3
<1>15. CASE OutOfTime \/ RequestFails \/ PollFails \/ RequestLost
  <2>1. Create(Undo) /\ NothingNew /\ own' = own /\ (~excused' => ~excused /\ stray' = stray)
    BY <1>15 DEF OutOfTime, RequestFails, PollFails, RequestLost, docker, history, NothingNew
  <2>. QED  BY <1>4, <2>1
<1>16. CASE RollbackContainer
  <2> DEFINE step == AfterUndo(creating, creating.pc)
  <2>1. /\ Create(To(step)) /\ UNCHANGED <<volume, stray, own>>
        /\ creating.pc \in {"undo_fwd", "undo_box"}
        /\ \/ excused' = TRUE /\ containers' = containers
           \/ /\ excused' = excused
              /\ containers' = Without(IF At("undo_fwd") THEN creating.fwd ELSE creating.box)
    BY <1>16 DEF RollbackContainer
  <2>2. /\ step \in {"undo_box", "undo_vol", "failed"}
        /\ step = "failed" => ~ creating.made
        /\ creating.pc = "undo_fwd" /\ creating.box # NoId => step = "undo_box"
    BY <2>1 DEF AfterUndo
  <2> HIDE DEF step
  <2>3. NothingNew
    BY <2>1 DEF NothingNew, Without
  <2>4. Fresh(To(step))
    BY <1>f, <2>2 DEF Fresh, Before, Early
  <2>5. CASE excused' = TRUE
    BY <1>f, <2>1, <2>4, <2>5 DEF RollbackOk, Create
  <2>6. CASE excused' = excused /\ containers' = Without(IF At("undo_fwd") THEN creating.fwd ELSE creating.box)
    <3>1. ASSUME NEW id \in own \cap Undoes(creating)
          PROVE  id \in Undoes(To(step)) \/ \A c \in containers' : c.id # id
      <4>1. id # NoId /\ id \in {creating.box, creating.fwd}
        BY <1>0, <1>2
      <4>2. CASE creating.pc = "undo_fwd" /\ id = creating.box
        BY <1>f, <2>2, <4>1, <4>2 DEF Undoes
      <4>3. CASE creating.pc = "undo_fwd" /\ id = creating.fwd
        BY <2>6, <4>3 DEF At, Without, WithId
      <4>4. CASE creating.pc = "undo_box"
        <5>1. id = creating.box
          BY <4>4 DEF Undoes
        <5>. QED  BY <2>6, <4>4, <5>1 DEF At, Without, WithId
      <4>. QED  BY <2>1, <4>1, <4>2, <4>3, <4>4
    <3>. QED  BY <1>1, <1>f, <2>1, <2>2, <2>3, <2>4, <2>6, <3>1 DEF Create
  <2>. QED  BY <2>1, <2>5, <2>6
<1>17. CASE RollbackVolume
  <2> DEFINE gone == pinned \/ \E c \in ListManaged : c.name = "box" /\ c.id \notin own
             next == [To("failed") EXCEPT !.kept = gone]
  <2>1. next.pc = "failed" /\ next.kept = gone
    <3> HIDE DEF gone
    <3>. QED  BY <1>0 DEF To, CreateCall
  <2>2. Create(next) /\ UNCHANGED <<containers, stray, own>> /\ At("undo_vol")
    BY <1>17 DEF RollbackVolume
  <2>3. (excused' = excused /\ volume' = (volume /\ VolumeInUse)) \/ excused' = TRUE
    BY <1>17 DEF RollbackVolume
  <2> HIDE DEF next
  <2>4. Fresh(next)
    BY <2>1 DEF Fresh, Before, Early
  <2>5. ~excused => \A c \in containers : c.id \notin own
    BY <2>2 DEF RollbackOk, Undoes, At
  <2>6. ~excused /\ VolumeInUse => gone
    BY <2>5 DEF VolumeInUse, Named
  <2> HIDE DEF gone
  <2>7. Undoes(creating) = {}
    BY <2>2 DEF Undoes, At
  <2>8. NothingNew
    BY <2>2 DEF NothingNew
  <2>. QED  BY <1>0, <1>1, <2>1, <2>2, <2>3, <2>4, <2>6, <2>7, <2>8 DEF Create, RollbackOk
<1>18. CASE BeginCreate
  <2> DEFINE quiet == \A d \in Destroyers : ~Active(d)
  <2>1. PICK step \in ValidateSpec : creating' = [NewCall(quiet) EXCEPT !.pc = step]
    BY <1>18 DEF BeginCreate
  <2>2. /\ creating'.pc \in {"image", "failed"} /\ creating'.target = "box" /\ ~ creating'.made
        /\ creating'.box = NoId /\ creating'.fwd = NoId
    <3> HIDE DEF quiet
    <3>. QED  BY <2>1 DEF ValidateSpec, NewCall
  <2>3. own' = {} /\ UNCHANGED <<stray, excused>>
    BY <1>18 DEF BeginCreate
  <2>4. Fresh(creating')
    BY <2>2 DEF Fresh
  <2>. QED  BY <2>2, <2>3, <2>4 DEF RollbackOk
<1>19. CASE Crash
  <2>1. creating' = To("crashed") /\ excused' = TRUE
    BY <1>19 DEF Crash
  <2>2. Fresh(creating')
    BY <1>f, <2>1 DEF Fresh, Before, Early
  <2>. QED  BY <2>1, <2>2 DEF RollbackOk
<1>20. ASSUME NEW d \in Destroyers, BeginDestroy(d)
       PROVE  RollbackOk'
  <2>1. /\ creating'.pc = creating.pc /\ creating'.target = creating.target
        /\ creating'.made = creating.made /\ creating'.kept = creating.kept
        /\ creating'.box = creating.box /\ creating'.fwd = creating.fwd
    BY <1>0, <1>20 DEF BeginDestroy, CreateCall
  <2>2. Fresh(creating') /\ Undoes(creating') = Undoes(creating)
    BY <1>0, <2>1 DEF Fresh, Undoes
  <2>3. UNCHANGED <<containers, volume, stray, own, excused>>
    BY <1>20 DEF BeginDestroy, docker, history
  <2>. QED  BY <2>1, <2>2, <2>3 DEF RollbackOk, At
<1>21. ASSUME NEW d \in Destroyers, DestroyStep(d)
       PROVE  RollbackOk'
  <2>1. UNCHANGED <<creating, stray, own, excused>> /\ NothingNew
    BY <1>21, DestroyFrame
  <2>2. volume' => volume
    BY <1>21, DestroyFrame
  <2>. QED  BY <1>0, <1>1, <2>1, <2>2 DEF RollbackOk, At
<1>22. CASE StrayLands
  <2>1. excused /\ UNCHANGED <<excused, creating>>
    BY <1>22 DEF StrayLands, RollbackOk, Outside
  <2>. QED  BY <1>0, <2>1 DEF RollbackOk
<1>23. CASE \/ AgentComesUp \/ ForeignLeaves \/ Pin \/ Unpin
            \/ \E name \in Names : ForeignTakes(name)
  <2>1. UNCHANGED <<creating, stray, own, excused, volume, born>>
    BY <1>23 DEF AgentComesUp, ForeignLeaves, Pin, Unpin, ForeignTakes, Outside, docker
  <2>2. ~ CreateContainer /\ ~ StrayLands
    BY <2>1 DEF CreateContainer, DaemonCreates, StrayLands, IInv, Daemon
  <2>3. NothingNew
    BY <2>2, Newcomers
  <2>. QED  BY <1>0, <1>1, <2>1, <2>3 DEF RollbackOk, At
<1>. QED  BY <1>5, <1>6, <1>7, <1>8, <1>9, <1>10, <1>11, <1>12, <1>13, <1>14, <1>15, <1>16, <1>17,
             <1>18, <1>19, <1>20, <1>21, <1>22, <1>23 DEF Next, CreateStep


-----------------------------------------------------------------------------
(* The destroy. *)

\* Where nothing of ours is new, what holds a name of ours held it before.
LEMMA NamesShrink ==
    ASSUME NothingNew, NEW name, NEW c \in IsOwned(name)'
    PROVE  \E b \in IsOwned(name) : b.id = c.id
BY DEF NothingNew, IsOwned, Named

\* A lone destroy that does not move keeps what it has cleared.
LEMMA LoneWaits ==
    ASSUME IInv, DestroyOk, NEW e \in Destroyers, destroying'[e] = destroying[e],
           destroying[e].alone, NothingNew, volume' => volume
    PROVE  Cleared(e)'
<1>1. Cleared(e)
  BY DEF DestroyOk
<1>2. \A name : \A c \in IsOwned(name)' : \E b \in IsOwned(name) : b.id = c.id
  BY NamesShrink
<1>. QED  BY <1>1, <1>2 DEF Cleared

\* One that does gets a step further.
LEMMA LoneMoves ==
    ASSUME IInv, DestroyOk, NEW d \in Destroyers, DestroyStep(d), destroying[d].alone
    PROVE  Cleared(d)'
<1>0. destroying \in [Destroyers -> DestroyCall] /\ destroying[d] \in DestroyCall /\ NothingNew /\ Cleared(d)
  BY DestroyFrame DEF IInv, DestroyOk
<1>s. \A name : \A c \in IsOwned(name)' : \E b \in IsOwned(name) : b.id = c.id
  BY <1>0, NamesShrink
<1>u. \A name : \A b, c \in IsOwned(name) : b = c
  BY DEF IInv, Daemon, IsOwned, Named
<1>g. ASSUME NEW step, NEW id, Destroy(d, Goto(d, step, id))
      PROVE  destroying'[d].pc = step /\ destroying'[d].found = id
  BY <1>0, <1>g DEF Destroy, Goto, DestroyCall
<1>1. CASE InspectForwarder(d)
  <2>1. CASE IsOwned("fwd") = {} /\ Destroy(d, Goto(d, "inspect_box", NoId))
    <3>1. destroying'[d].pc = "inspect_box"
      BY <1>g, <2>1
    <3>. QED  BY <1>s, <2>1, <3>1 DEF Cleared
  <2>2. ASSUME NEW c \in IsOwned("fwd"), Destroy(d, Goto(d, "remove_fwd", c.id))
        PROVE  Cleared(d)'
    <3>1. destroying'[d].pc = "remove_fwd" /\ destroying'[d].found = c.id
      BY <1>g, <2>2
    <3>. QED  BY <1>s, <1>u, <3>1 DEF Cleared
  <2>. QED  BY <1>1, <2>1, <2>2 DEF InspectForwarder
<1>2. CASE RemoveForwarder(d)
  <2>1. destroying'[d].pc = "inspect_box"
    BY <1>2, <1>g DEF RemoveForwarder
  <2>2. \A b \in IsOwned("fwd") : b.id = destroying[d].found
    BY <1>0, <1>2 DEF RemoveForwarder, Cleared
  <2>3. \A c \in IsOwned("fwd")' : c.id # destroying[d].found
    BY <1>2 DEF RemoveForwarder, Without, WithId, IsOwned, Named
  <2>. QED  BY <1>s, <2>1, <2>2, <2>3 DEF Cleared
<1>3. CASE InspectBox(d)
  <2>0. IsOwned("fwd") = {}
    BY <1>0, <1>3 DEF InspectBox, Cleared
  <2>1. CASE IsOwned("box") = {} /\ Destroy(d, Goto(d, "volume", NoId))
    <3>1. destroying'[d].pc = "volume"
      BY <1>g, <2>1
    <3>. QED  BY <1>s, <2>0, <2>1, <3>1 DEF Cleared
  <2>2. ASSUME NEW c \in IsOwned("box"), Destroy(d, Goto(d, "stop_box", c.id))
        PROVE  Cleared(d)'
    <3>1. destroying'[d].pc = "stop_box" /\ destroying'[d].found = c.id
      BY <1>g, <2>2
    <3>. QED  BY <1>s, <1>u, <2>0, <3>1 DEF Cleared
  <2>. QED  BY <1>3, <2>1, <2>2 DEF InspectBox
<1>4. CASE StopBox(d)
  <2>1. destroying'[d].pc = "remove_box" /\ destroying'[d].found = destroying[d].found
    BY <1>4, <1>g DEF StopBox
  <2>2. IsOwned("fwd") = {} /\ \A b \in IsOwned("box") : b.id = destroying[d].found
    BY <1>0, <1>4 DEF StopBox, Cleared
  <2>. QED  BY <1>s, <2>1, <2>2 DEF Cleared
<1>5. CASE RemoveBox(d)
  <2>1. destroying'[d].pc = "volume"
    BY <1>5, <1>g DEF RemoveBox
  <2>2. IsOwned("fwd") = {} /\ \A b \in IsOwned("box") : b.id = destroying[d].found
    BY <1>0, <1>5 DEF RemoveBox, Cleared
  <2>3. \A c \in IsOwned("box")' : c.id # destroying[d].found
    BY <1>5 DEF RemoveBox, Without, WithId, IsOwned, Named
  <2>. QED  BY <1>s, <2>1, <2>2, <2>3 DEF Cleared
<1>6. CASE RemoveVolume(d)
  <2> DEFINE kept == volume /\ pinned
             next == [Goto(d, "done", NoId) EXCEPT !.kept = kept]
  <2>1. next.pc = "done" /\ next.kept = kept
    <3> HIDE DEF kept
    <3>. QED  BY <1>0 DEF Goto, DestroyCall
  <2>2. Destroy(d, next) /\ volume' = (volume /\ VolumeInUse)
    BY <1>6 DEF RemoveVolume
  <2> HIDE DEF next
  <2>3. destroying'[d] = next
    BY <1>0, <2>2 DEF Destroy
  <2>4. IsOwned("fwd") = {} /\ IsOwned("box") = {}
    BY <1>0, <1>6 DEF RemoveVolume, Cleared
  <2>5. volume' => kept
    BY <2>2, <2>4 DEF VolumeInUse, ListManaged, IsOwned
  <2>. QED  BY <1>s, <2>1, <2>3, <2>4, <2>5 DEF Cleared
<1>7. CASE DestroyFails(d)
  <2>1. destroying'[d].pc = "failed"
    BY <1>7, <1>g DEF DestroyFails
  <2>. QED  BY <2>1 DEF Cleared
<1>. QED  BY <1>1, <1>2, <1>3, <1>4, <1>5, <1>6, <1>7 DEF DestroyStep

LEMMA DestroyOkStep ==
    ASSUME IInv, DestroyOk, Next
    PROVE  DestroyOk'
<1>0. destroying \in [Destroyers -> DestroyCall] /\ \A e \in Destroyers : destroying[e] \in DestroyCall
  BY DEF IInv
<1> SUFFICES ASSUME NEW e \in Destroyers, destroying'[e].alone
             PROVE  stray' = {} /\ creating'.pc \notin Creating /\ Cleared(e)'
  BY DEF DestroyOk
\* While a destroy is alone, no create is under way and nothing is to land.
<1>1. destroying[e].alone => stray = {} /\ creating.pc \notin Creating
  BY DEF DestroyOk
<1>2. CASE CreateStep \/ PollFails \/ DeadlinePasses
  <2>1. creating.pc \in Creating /\ destroying' = destroying
    BY <1>2 DEF CreateStep, FindImage, PullImage, EnsureNetwork, CreateVolume, CreateContainer,
       NameTaken, InspectTaken, EvictLeftover, StartContainer, ResolveEndpoint, AgentIsReady,
       OutOfTime, GiveUp, RequestFails, RequestLost, Pending, RollbackContainer, RollbackVolume,
       PollFails, DeadlinePasses, Create, At, Creating, Requests, Polls, Cleaning
  <2>. QED  BY <1>1, <2>1
<1>3. CASE Crash
  <2>1. destroying'[e].alone = destroying[e].alone /\ creating.pc \in Creating
    BY <1>0, <1>3 DEF Crash, DestroyCall
  <2>. QED  BY <1>1, <2>1
<1>4. CASE BeginCreate
  <2>1. ~ destroying'[e].alone
    BY <1>0, <1>4 DEF BeginCreate, DestroyCall
  <2>. QED  BY <2>1
<1>5. ASSUME NEW d \in Destroyers, BeginDestroy(d)
      PROVE  stray' = {} /\ creating'.pc \notin Creating /\ Cleared(e)'
  <2>1. stray' = stray /\ creating'.pc = creating.pc /\ UNCHANGED <<containers, volume>>
    BY <1>5 DEF BeginDestroy, IInv, CreateIsOurs, CreateCall, docker
  <2>2. NothingNew
    BY <2>1 DEF NothingNew
  <2>3. CASE e = d
    <3>1. destroying'[d].pc = "inspect_fwd" /\ (destroying'[d].alone <=> stray = {} /\ creating.pc \notin Creating)
      BY <1>0, <1>5 DEF BeginDestroy
    <3>. QED  BY <2>1, <2>3, <3>1 DEF Cleared
  <2>4. CASE e # d
    <3>1. destroying'[e] = destroying[e]
      BY <1>0, <1>5, <2>4 DEF BeginDestroy
    <3>. QED  BY <1>1, <2>1, <2>2, <3>1, LoneWaits
  <2>. QED  BY <2>3, <2>4
<1>6. ASSUME NEW d \in Destroyers, DestroyStep(d)
      PROVE  stray' = {} /\ creating'.pc \notin Creating /\ Cleared(e)'
  <2>1. /\ UNCHANGED <<stray, creating>> /\ NothingNew
        /\ volume' => volume
        /\ e # d => destroying'[e] = destroying[e]
    BY <1>6, DestroyFrame
  <2>2. CASE e = d
    <3>1. PICK next : Destroy(d, next) /\ next.alone = destroying[d].alone
      <4>1. \A step, id : Goto(d, step, id).alone = destroying[d].alone
        BY <1>0 DEF Goto, DestroyCall
      <4>2. \A kept : [Goto(d, "done", NoId) EXCEPT !.kept = kept].alone = destroying[d].alone
        BY <1>0 DEF Goto, DestroyCall
      <4>3. (\E step, id : Destroy(d, Goto(d, step, id))) \/ (\E kept : Destroy(d, [Goto(d, "done", NoId) EXCEPT !.kept = kept]))
        BY <1>6 DEF DestroyStep, InspectForwarder, RemoveForwarder, InspectBox, StopBox,
           RemoveBox, RemoveVolume, DestroyFails
      <4>. QED  BY <4>1, <4>2, <4>3
    <3>2. destroying[d].alone
      BY <1>0, <2>2, <3>1 DEF Destroy
    <3>. QED  BY <1>1, <1>6, <2>1, <2>2, <3>2, LoneMoves
  <2>3. CASE e # d
    BY <1>1, <2>1, <2>3, LoneWaits
  <2>. QED  BY <2>2, <2>3
<1>7. CASE StrayLands
  <2>1. destroying' = destroying /\ stray # {}
    BY <1>7 DEF StrayLands, Outside
  <2>. QED  BY <1>1, <2>1
<1>8. CASE \/ AgentComesUp \/ ForeignLeaves \/ Pin \/ Unpin
           \/ \E name \in Names : ForeignTakes(name)
  <2>1. UNCHANGED <<creating, destroying, stray, volume, born>>
    BY <1>8 DEF AgentComesUp, ForeignLeaves, Pin, Unpin, ForeignTakes, Outside, docker
  <2>2. ~ CreateContainer /\ ~ StrayLands
    BY <2>1 DEF CreateContainer, DaemonCreates, StrayLands, IInv, Around, Daemon
  <2>3. NothingNew
    BY <2>2, Newcomers
  <2>. QED  BY <1>1, <2>1, <2>3, LoneWaits
<1>. QED  BY <1>2, <1>3, <1>4, <1>5, <1>6, <1>7, <1>8 DEF Next

-----------------------------------------------------------------------------
(* What a call leaves: the theorems. *)

LEMMA LeavesStart == Init => LInv
<1> SUFFICES ASSUME Init PROVE LInv
  OBVIOUS
<1>1. /\ creating.pc = "idle" /\ creating.target = "box" /\ creating.box = NoId /\ creating.fwd = NoId
  BY DEF Init, NewCall
<1>2. \A d \in Destroyers : destroying[d].pc = "idle" /\ ~destroying[d].alone
  BY DEF Init
<1>3. stray = {} /\ own = {} /\ containers = {}
  BY DEF Init
<1>4. HandleOk
  BY <1>1, <1>2 DEF HandleOk, Active, Mounted, Polls, Before, Early, HandleIsLive, At
<1>5. RollbackOk
  BY <1>1, <1>3 DEF RollbackOk, Fresh, Before, Early, At
<1>. QED  BY <1>2, <1>4, <1>5 DEF LInv, DestroyOk

LEMMA LeavesInductive == Spec => []LInv
<1>1. IInv /\ IInv' /\ LInv /\ [Next]_vars => LInv'
  <2> SUFFICES ASSUME IInv, IInv', LInv, [Next]_vars PROVE LInv'
    OBVIOUS
  <2>1. CASE Next
    BY <2>1, HandleStep, RollbackStep, DestroyOkStep DEF LInv, RollbackOk
  <2>2. CASE UNCHANGED vars
    <3>1. UNCHANGED <<platform, containers, volume, pinned, stray, creating, destroying, own, excused>>
      BY <2>2 DEF vars
    <3>2. HandleOk'
      BY <3>1 DEF LInv, HandleOk, HandleIsLive, Active, At, WithId
    <3>3. RollbackOk'
      BY <3>1 DEF LInv, RollbackOk, At
    <3>4. DestroyOk'
      BY <3>1 DEF LInv, DestroyOk, Cleared, IsOwned, Named
    <3>. QED  BY <3>2, <3>3, <3>4 DEF LInv
  <2>. QED  BY <2>1, <2>2
<1>. QED  BY Inductive, LeavesStart, <1>1, PTL DEF Spec

\* A handle that create returned stays good until a destroy begins: its
\* container runs with a ready agent, the volume is there and on darwin the
\* forwarder runs, whatever leftovers and late requests there are
\* (local-docker.ts:610).
THEOREM HandleStaysLive == Spec => []HandleIsLive
<1>1. LInv => HandleIsLive
  BY DEF LInv, HandleOk
<1>. QED  BY LeavesInductive, <1>1, PTL

\* A create that threw leaves none of its containers, and its volume only
\* under somebody else's; a destroy that returned, and that no create
\* overlapped, leaves nothing of ours at all (local-docker.ts:675, 695).
THEOREM NothingIsLeft == Spec => []NothingLeftBehind
<1>1. LInv => FailedCreateLeavesNothing
  BY DEF LInv, RollbackOk, FailedCreateLeavesNothing, Undoes, At
<1>2. IInv /\ LInv => DestroyedLeavesNothing
  <2> SUFFICES ASSUME IInv, LInv, NEW d \in Destroyers, destroying[d].pc = "done", destroying[d].alone
               PROVE  ListManaged = {} /\ (volume => destroying[d].kept)
    BY DEF DestroyedLeavesNothing
  <2>1. IsOwned("fwd") = {} /\ IsOwned("box") = {} /\ (volume => destroying[d].kept)
    BY DEF LInv, DestroyOk, Cleared
  <2>2. \A c \in containers : c.name \in {"box", "fwd"}
    BY DEF IInv, Daemon, Container, Names
  <2>. QED  BY <2>1, <2>2 DEF ListManaged, IsOwned, Named
<1>. QED  BY Inductive, LeavesInductive, <1>1, <1>2, PTL DEF NothingLeftBehind
=============================================================================
