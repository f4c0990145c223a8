--------------------------- MODULE DeliveryProofs ---------------------------
(***************************************************************************)
(* Theorems about delivery: for any number of runs of a task, of commits   *)
(* of third parties and of retries, a push overwrites what others pushed   *)
(* only where they put it back after the run had read it, success is real, *)
(* and the last undisturbed run wins.                                      *)
(***************************************************************************)
EXTENDS Delivery, SequenceTheorems, FiniteSetTheorems, TLAPS

------------------------------------------------------------------------------
(* The invariant. *)

Commits == Run \cup Theirs \cup {None}
AnyTree == [version : Int, root : BOOLEAN]
Origins == {"none", "patch", "archive"}
Results == {"none", "failed", "patch", "published"}

Record ==
  [at : Steps, tries : Int, work : Int, diff : Int, tree : AnyTree, how : Origins, sha : Commits,
   back : BOOLEAN, late : BOOLEAN, found : Int, result : Results, alone : BOOLEAN]

PullRequest == [open : BOOLEAN, body : [run : Run, how : Origins]]

\* What the steps change of a record leaves one.
LEMMA Updates ==
  ASSUME NEW q \in Record
  PROVE  /\ \A n \in Int : [q EXCEPT !.tries = n] \in Record
         /\ \A n \in Int : [q EXCEPT !.work = n] \in Record
         /\ \A b \in BOOLEAN : [q EXCEPT !.late = b] \in Record
         /\ \A b \in BOOLEAN : [q EXCEPT !.alone = b] \in Record
         /\ \A n \in Int, b \in BOOLEAN : [q EXCEPT !.tries = n, !.late = b] \in Record
         /\ \A at \in Steps, n \in Int : [q EXCEPT !.at = at, !.tries = n] \in Record
         /\ \A at \in Steps, n \in Int : [q EXCEPT !.at = at, !.diff = n] \in Record
         /\ \A at \in Steps, b \in BOOLEAN : [q EXCEPT !.at = at, !.alone = b] \in Record
         /\ \A at \in Steps, how \in Origins, tree \in AnyTree :
               [q EXCEPT !.at = at, !.how = how, !.tree = tree] \in Record
         /\ \A at \in Steps, how \in Origins, tree \in AnyTree, n \in Int :
               [q EXCEPT !.at = at, !.how = how, !.tree = tree, !.diff = n] \in Record
         /\ \A at \in Steps, result \in Results :
               [q EXCEPT !.at = at, !.result = result] \in Record
         /\ \A at \in Steps, n \in Int, sha \in Commits, b \in BOOLEAN :
               [q EXCEPT !.at = at, !.tries = n, !.sha = sha, !.back = b] \in Record
         /\ \A b \in BOOLEAN, c \in BOOLEAN : [q EXCEPT !.alone = b, !.back = c] \in Record
         /\ \A at \in Steps, n \in Int, b \in BOOLEAN :
               [q EXCEPT !.at = at, !.tries = n, !.late = b] \in Record
         /\ \A at \in Steps, n \in Int, m \in Int :
               [q EXCEPT !.at = at, !.tries = n, !.found = m] \in Record
         /\ \A at \in Steps, n \in Int, m \in Int, result \in Results :
               [q EXCEPT !.at = at, !.tries = n, !.found = m, !.result = result] \in Record
<1>1. ASSUME NEW n \in Int PROVE [q EXCEPT !.tries = n] \in Record
  BY DEF Record
<1>2. ASSUME NEW n \in Int PROVE [q EXCEPT !.work = n] \in Record
  BY DEF Record
<1>3. ASSUME NEW b \in BOOLEAN PROVE [q EXCEPT !.late = b] \in Record
  BY DEF Record
<1>4. ASSUME NEW b \in BOOLEAN PROVE [q EXCEPT !.alone = b] \in Record
  BY DEF Record
<1>5. ASSUME NEW n \in Int, NEW b \in BOOLEAN
      PROVE  [q EXCEPT !.tries = n, !.late = b] \in Record
  BY DEF Record
<1>6. ASSUME NEW at \in Steps, NEW n \in Int PROVE [q EXCEPT !.at = at, !.tries = n] \in Record
  BY DEF Record
<1>7. ASSUME NEW at \in Steps, NEW n \in Int PROVE [q EXCEPT !.at = at, !.diff = n] \in Record
  BY DEF Record
<1>8. ASSUME NEW at \in Steps, NEW b \in BOOLEAN
      PROVE  [q EXCEPT !.at = at, !.alone = b] \in Record
  BY DEF Record
<1>9. ASSUME NEW at \in Steps, NEW how \in Origins, NEW tree \in AnyTree
      PROVE  [q EXCEPT !.at = at, !.how = how, !.tree = tree] \in Record
  BY DEF Record
<1>10. ASSUME NEW at \in Steps, NEW how \in Origins, NEW tree \in AnyTree, NEW n \in Int
      PROVE  [q EXCEPT !.at = at, !.how = how, !.tree = tree, !.diff = n] \in Record
  BY DEF Record
<1>11. ASSUME NEW at \in Steps, NEW result \in Results
      PROVE  [q EXCEPT !.at = at, !.result = result] \in Record
  BY DEF Record
<1>12. ASSUME NEW at \in Steps, NEW n \in Int, NEW sha \in Commits, NEW b \in BOOLEAN
      PROVE  [q EXCEPT !.at = at, !.tries = n, !.sha = sha, !.back = b] \in Record
  BY DEF Record
<1>16. ASSUME NEW b \in BOOLEAN, NEW c \in BOOLEAN
       PROVE  [q EXCEPT !.alone = b, !.back = c] \in Record
  BY DEF Record
<1>13. ASSUME NEW at \in Steps, NEW n \in Int, NEW b \in BOOLEAN
      PROVE  [q EXCEPT !.at = at, !.tries = n, !.late = b] \in Record
  BY DEF Record
<1>14. ASSUME NEW at \in Steps, NEW n \in Int, NEW m \in Int
      PROVE  [q EXCEPT !.at = at, !.tries = n, !.found = m] \in Record
  BY DEF Record
<1>15. ASSUME NEW at \in Steps, NEW n \in Int, NEW m \in Int, NEW result \in Results
      PROVE  [q EXCEPT !.at = at, !.tries = n, !.found = m, !.result = result] \in Record
  BY DEF Record
<1>. QED
  BY <1>1, <1>2, <1>3, <1>4, <1>5, <1>6, <1>7, <1>8, <1>9, <1>10, <1>11, <1>12, <1>13,
     <1>14, <1>15, <1>16, Zenon

\* Types, and GitHub's part: the branch has at most one open pull request.
World ==
  /\ run \in [Run -> Record]
  /\ tip \in landed \cup {None} /\ landed \subseteq Run \cup Theirs
  /\ prs \in Seq(PullRequest)
  /\ \A m, n \in OpenPrs : m = n

Collecting == {"idle", "create", "clone", "upload", "unpack", "agent", "verify", "diff",
               "patch", "apply", "archive", "hung"}
Inspecting == Collecting \cup {"collected", "token", "ls", "fetch", "commit"}
Pushed == {"clean", "token2", "list", "post", "patchPr"}

\* A push, at work or late, whose lease names a commit of somebody else cannot
\* land: that commit is not the tip, unless a third party brought it back.
LeaseOk(r) ==
  /\ run[r].at \in Inspecting => ~ run[r].late
  /\ (run[r].at \in {"commit", "push", "leased"} \/ run[r].late)
        /\ run[r].sha \in Theirs /\ ~ run[r].back => run[r].sha # tip

\* Only a commit that has landed is described, and only then is it a success.
ShippedOk(r) ==
  /\ run[r].at \in Pushed => r \in landed
  /\ run[r].at = "patchPr" => run[r].found \in DOMAIN prs
  /\ run[r].result = "published" => r \in landed /\ run[r].found \in DOMAIN prs
  /\ run[r].result # "none" => run[r].at \in {"cleanup", "ended", "crashed"}

\* Who is alone is under way, or was the last to be.
Solitary(r) ==
  run[r].alone => run[r].at # "idle" /\ \A p \in Run \ {r} : ~ Active(p) /\ ~ run[p].late

\* While nobody else is about, what a run reached stays as it left it.
StandsOk(r) ==
  run[r].alone =>
    /\ run[r].at \in Pushed \/ run[r].result = "published" => tip = r
    /\ run[r].at = "post" => OpenPrs = {}
    /\ run[r].at = "patchPr" \/ run[r].result = "published" => run[r].found \in OpenPrs
    /\ run[r].result = "published" => prs[run[r].found].body = Body(r)

RunOk(r) == LeaseOk(r) /\ ShippedOk(r) /\ StandsOk(r)

IInv == World /\ \A r \in Run : RunOk(r) /\ Solitary(r)
------------------------------------------------------------------------------
(* One run moves, and nothing of the remote changes but by its own hand. *)

\* What a run does to the remote: its commit becomes the tip, and the pull requests
\* that there are keep their numbers.
OwnHand(r) ==
  /\ tip' \in {tip, r} /\ tip' \in landed' \cup {None}
  /\ landed \subseteq landed' /\ landed' \subseteq landed \cup {r}
  /\ prs' \in Seq(PullRequest) /\ DOMAIN prs \subseteq DOMAIN prs'
  /\ \A m, n \in OpenPrs' : m = n

\* The invariant is kept by a step of one run that keeps it for that run: to be
\* alone is to be out of reach of every other.
LEMMA RunMoves ==
  ASSUME IInv, NEW r \in Run, NEW new \in Record, run' = [run EXCEPT ![r] = new],
         Active(r) \/ run[r].late, new.at # "idle", new.alone => run[r].alone,
         OwnHand(r), RunOk(r)'
  PROVE  IInv'
<1>1. World'
  BY DEF IInv, World, OwnHand
<1>2. run'[r] = new /\ \A q \in Run \ {r} : run'[q] = run[q]
  BY DEF IInv, World
<1>3. Solitary(r)'
  BY <1>2 DEF IInv, Solitary, Active
<1>4. ASSUME NEW q \in Run \ {r} PROVE RunOk(q)' /\ Solitary(q)'
  <2>1. ~ run[q].alone /\ run'[q] = run[q] /\ RunOk(q)
    BY <1>2 DEF IInv, Solitary, Active
  <2>2. LeaseOk(q)'
    BY <2>1, DeliveryAssumption DEF RunOk, LeaseOk, OwnHand, DeliveryAssumption
  <2>3. ShippedOk(q)'
    BY <2>1 DEF RunOk, ShippedOk, OwnHand
  <2>. QED  BY <2>1, <2>2, <2>3 DEF RunOk, Solitary, StandsOk
<1>. QED  BY <1>1, <1>3, <1>4 DEF IInv

\* A step that leaves the remote alone leaves it in the run's own hand.
LEMMA RemoteStays ==
  ASSUME IInv, NEW r \in Run, UNCHANGED remote
  PROVE  OwnHand(r) /\ OpenPrs' = OpenPrs
BY DEF IInv, World, OwnHand, OpenPrs, remote

\* A retry changes a count that nothing rests on.
LEMMA Retries ==
  ASSUME IInv, NEW r \in Run, Active(r), NEW n \in Int, UNCHANGED remote,
         run' = [run EXCEPT ![r] = [@ EXCEPT !.tries = n]]
  PROVE  IInv'
<1> DEFINE new == [run[r] EXCEPT !.tries = n]
<1>1. run[r] \in Record /\ new \in Record /\ run'[r] = new
  <2>1. run[r] \in Record /\ run'[r] = new
    BY DEF IInv, World
  <2>. QED  BY <2>1 DEF Record
<1>2. RunOk(r)'
  BY <1>1, RemoteStays
  DEF IInv, World, RunOk, LeaseOk, ShippedOk, StandsOk, Record, Body, remote
<1>3. new.at # "idle" /\ new.alone = run[r].alone
  BY <1>1 DEF Active, Record
<1> HIDE DEF new
<1>. QED  BY <1>1, <1>2, <1>3, RemoteStays, RunMoves DEF new

\* What may come after a step of a run, for what the invariant says of the next.
MayGo(r, to) ==
  /\ Active(r) /\ run[r].at # "cleanup"
  /\ to \in Steps \ {"idle", "patchPr"}
  /\ to \in Collecting => run[r].at \in Collecting
  /\ to \in Inspecting => run[r].at \in Inspecting
  /\ to \in {"fetch", "commit", "push", "leased"} =>
       \/ run[r].at \in {"commit", "push", "leased"}
       \/ run[r].at = "fetch" /\ tip \in Run
  /\ to \in Pushed => run[r].at \in Pushed \/ tip = r
  /\ to = "post" => OpenPrs = {}

LEMMA Moves ==
  ASSUME IInv, NEW r \in Run, NEW to \in Steps, MayGo(r, to), Goes(r, to), UNCHANGED remote
  PROVE  IInv'
<1> DEFINE new == [run[r] EXCEPT !.at = to, !.tries = 1]
<1>1. run[r] \in Record /\ new \in Record /\ run'[r] = new
  <2>1. run[r] \in Record /\ run'[r] = new
    BY DEF IInv, World, Goes
  <2>2. 1 \in Int
    OBVIOUS
  <2>. QED  BY <2>1, <2>2, Updates, Zenon
<1>2. /\ new.at = to /\ new.late = run[r].late /\ new.sha = run[r].sha /\ new.back = run[r].back
      /\ new.how = run[r].how /\ new.found = run[r].found /\ new.result = run[r].result
      /\ new.alone = run[r].alone
  BY <1>1 DEF Record
<1> HIDE DEF new
<1>3. LeaseOk(r)'
  BY <1>1, <1>2, DeliveryAssumption
  DEF IInv, RunOk, LeaseOk, MayGo, remote, DeliveryAssumption, Inspecting, Collecting
<1>4. ShippedOk(r)'
  <2>1. tip = r => r \in landed
    BY DeliveryAssumption DEF IInv, World, DeliveryAssumption
  <2>2. run[r].result = "none"
    BY DEF IInv, RunOk, ShippedOk, MayGo, Active
  <2>. QED  BY <1>1, <1>2, <2>1, <2>2 DEF IInv, RunOk, ShippedOk, MayGo, remote
<1>5. StandsOk(r)'
  <2>1. run[r].result = "none"
    BY DEF IInv, RunOk, ShippedOk, MayGo, Active
  <2>. QED  BY <1>1, <1>2, <2>1, RemoteStays DEF IInv, RunOk, StandsOk, MayGo, remote
<1>. QED
  BY <1>1, <1>2, <1>3, <1>4, <1>5, RemoteStays, RunMoves DEF new, RunOk, Goes, MayGo

\* An exception is a move to the finally block.
LEMMA Thrown ==
  ASSUME IInv, NEW r \in Run, Active(r), run[r].at # "cleanup", Throws(r), UNCHANGED remote
  PROVE  IInv'
<1>1. MayGo(r, "cleanup")
  BY DEF MayGo, Steps, Collecting, Inspecting, Pushed
<1>2. "cleanup" \in Steps
  BY DEF Steps
<1>. QED  BY <1>1, <1>2, Moves DEF Throws

LEMMA GitRetried ==
  ASSUME IInv, NEW r \in Run, Active(r), run[r].at # "cleanup", NEW end,
         RetryTransientGit(r, end), UNCHANGED remote
  PROVE  IInv'
<1>1. run[r].tries + 1 \in Int
  BY DEF IInv, World, Record
<1>2. CASE end = "transient" /\ run[r].tries < GitTries
  <2>1. run' = [run EXCEPT ![r] = [@ EXCEPT !.tries = run[r].tries + 1]]
    BY <1>2 DEF RetryTransientGit
  <2>. QED  BY <1>1, <2>1, Retries
<1>3. CASE ~ (end = "transient" /\ run[r].tries < GitTries)
  BY <1>3, Thrown DEF RetryTransientGit
<1>. QED  BY <1>2, <1>3

LEMMA ApiRetried ==
  ASSUME IInv, NEW r \in Run, Active(r), run[r].at # "cleanup", NEW end,
         RetryOnRateLimit(r, end), UNCHANGED remote
  PROVE  IInv'
<1>1. run[r].tries + 1 \in Int
  BY DEF IInv, World, Record
<1>2. CASE end = "limited" /\ run[r].tries <= ApiRetries
  <2>1. run' = [run EXCEPT ![r] = [@ EXCEPT !.tries = run[r].tries + 1]]
    BY <1>2 DEF RetryOnRateLimit
  <2>. QED  BY <1>1, <2>1, Retries
<1>3. CASE ~ (end = "limited" /\ run[r].tries <= ApiRetries)
  BY <1>3, Thrown DEF RetryOnRateLimit
<1>. QED  BY <1>2, <1>3

------------------------------------------------------------------------------
(* The steps that only go on or give up. *)

Simple(r) ==
  \/ CloneRepo(r) \/ UploadRepo(r) \/ UnpackRepo(r) \/ RunAgent(r) \/ VerifyInSandbox(r)
  \/ Publish(r) \/ TokenFor(r) \/ Commit(r) \/ PushLeaseRejected(r) \/ AssertCleanWorktree(r)

LEMMA SimpleKeeps ==
  ASSUME IInv, NEW r \in Run, Simple(r)
  PROVE  IInv'
<1>1. UNCHANGED remote
  BY DEF Simple, CloneRepo, UploadRepo, UnpackRepo, RunAgent, VerifyInSandbox, Publish, TokenFor,
         Commit, PushLeaseRejected, AssertCleanWorktree
<1>2. Active(r) /\ run[r].at # "cleanup"
  BY DEF Active, Simple, CloneRepo, UploadRepo, UnpackRepo, RunAgent, VerifyInSandbox, Publish,
         TokenFor, Commit, PushLeaseRejected, AssertCleanWorktree
<1>3. \/ Throws(r)
      \/ \E to \in Steps : Goes(r, to) /\
           \/ run[r].at \in Collecting /\ to \in Collecting \ {"idle"}
           \/ run[r].at \in Inspecting /\ to \in {"token", "ls"}
           \/ run[r].at = "commit" /\ to = "push"
           \/ run[r].at = "push" /\ to = "leased"
           \/ run[r].at \in Pushed /\ to \in {"token2", "list"}
  BY DEF Simple, CloneRepo, UploadRepo, UnpackRepo, RunAgent, VerifyInSandbox, Publish, TokenFor,
         Commit, PushLeaseRejected, AssertCleanWorktree, Collecting, Inspecting, Pushed, Steps
<1>4. CASE Throws(r)
  BY <1>1, <1>2, <1>4, Thrown
<1>5. ASSUME NEW to \in Steps, Goes(r, to),
             \/ run[r].at \in Collecting /\ to \in Collecting \ {"idle"}
             \/ run[r].at \in Inspecting /\ to \in {"token", "ls"}
             \/ run[r].at = "commit" /\ to = "push"
             \/ run[r].at = "push" /\ to = "leased"
             \/ run[r].at \in Pushed /\ to \in {"token2", "list"}
      PROVE  IInv'
  <2>1. MayGo(r, to)
    BY <1>2, <1>5 DEF MayGo, Collecting, Inspecting, Pushed
  <2>. QED  BY <1>1, <1>5, <2>1, Moves
<1>. QED  BY <1>3, <1>4, <1>5

------------------------------------------------------------------------------
(* A run begins, and its sandbox. *)

LEMMA StartKeeps ==
  ASSUME IInv, NEW r \in Run, Start(r)
  PROVE  IInv'
<1> DEFINE alone == \A p \in Run \ {r} : ~ Active(p) /\ ~ run[p].late
           new == [run[r] EXCEPT !.at = "create", !.alone = alone]
<1>1. /\ run \in [Run -> Record] /\ \A q \in Run : run[q] \in Record
      /\ run' = [q \in Run |-> IF q = r THEN new ELSE [run[q] EXCEPT !.alone = FALSE]]
      /\ UNCHANGED remote /\ run[r].at = "idle"
  BY DEF IInv, World, Start
<1>2. alone \in BOOLEAN /\ "create" \in Steps /\ FALSE \in BOOLEAN
  BY DEF Steps
<1>3. /\ new \in Record /\ run'[r] = new
      /\ \A q \in Run \ {r} : /\ run'[q] = [run[q] EXCEPT !.alone = FALSE]
                              /\ [run[q] EXCEPT !.alone = FALSE] \in Record
  BY <1>1, <1>2, Updates, Zenon
<1>4. World'
  <2>1. run' \in [Run -> Record]
    BY <1>1, <1>3
  <2>. QED  BY <1>1, <2>1 DEF IInv, World, OpenPrs, remote
<1>5. RunOk(r)' /\ Solitary(r)'
  <2>1. /\ new.at = "create" /\ new.late = run[r].late /\ new.how = run[r].how
        /\ new.result = run[r].result /\ new.alone = alone
    BY <1>1 DEF Record
  <2>2. run[r].result = "none" /\ ~ run[r].late
    BY <1>1 DEF IInv, RunOk, ShippedOk, LeaseOk, Inspecting, Collecting
  <2> HIDE DEF new
  <2>3. LeaseOk(r)' /\ ShippedOk(r)' /\ StandsOk(r)'
    BY <1>3, <2>1, <2>2 DEF LeaseOk, ShippedOk, StandsOk, Pushed
  <2>5. Solitary(r)'
    <3>1. ASSUME NEW p \in Run \ {r}, alone PROVE ~ Active(p)' /\ ~ run'[p].late
      <4>1. run'[p].at = run[p].at /\ run'[p].late = run[p].late
        BY <1>1, <1>3 DEF Record
      <4>. QED  BY <3>1, <4>1 DEF Active
    <3> HIDE DEF alone
    <3>. QED  BY <1>3, <2>1, <3>1 DEF Solitary
  <2>. QED  BY <2>3, <2>5 DEF RunOk
<1>6. ASSUME NEW q \in Run \ {r} PROVE RunOk(q)' /\ Solitary(q)'
  <2> DEFINE left == [run[q] EXCEPT !.alone = FALSE]
  <2>1. /\ left.at = run[q].at /\ left.late = run[q].late /\ left.how = run[q].how
        /\ left.result = run[q].result /\ left.sha = run[q].sha /\ left.back = run[q].back
        /\ left.found = run[q].found
        /\ ~ left.alone
    BY <1>1 DEF Record
  <2>2. run'[q] = left
    BY <1>3
  <2> HIDE DEF left
  <2>3. RunOk(q) /\ tip' = tip /\ landed' = landed /\ prs' = prs
    BY <1>1 DEF IInv, remote
  <2>4. LeaseOk(q)' /\ ShippedOk(q)'
    BY <2>1, <2>2, <2>3 DEF RunOk, LeaseOk, ShippedOk
  <2>. QED  BY <2>1, <2>2, <2>4 DEF RunOk, StandsOk, Solitary
<1>. QED  BY <1>4, <1>5, <1>6 DEF IInv

LEMMA CreateSandboxKeeps ==
  ASSUME IInv, NEW r \in Run, CreateSandbox(r)
  PROVE  IInv'
<1>1. run[r].at = "create" /\ UNCHANGED remote
  BY DEF CreateSandbox
<1>2. CASE Goes(r, "clone")
  <2>1. MayGo(r, "clone") /\ "clone" \in Steps
    BY <1>1 DEF MayGo, Steps, Collecting, Inspecting, Pushed, Active
  <2>. QED  BY <1>1, <1>2, <2>1, Moves
<1>3. CASE run' = [run EXCEPT ![r] = [@ EXCEPT !.at = "ended", !.result = "failed"]]
  <2> DEFINE new == [run[r] EXCEPT !.at = "ended", !.result = "failed"]
  <2>1. /\ run[r] \in Record /\ run' = [run EXCEPT ![r] = new] /\ run'[r] = new
        /\ "ended" \in Steps /\ "failed" \in Results
    BY <1>3 DEF IInv, World, Steps, Results
  <2>2. new \in Record
    BY <2>1, Updates, Zenon
  <2>3. /\ new.at = "ended" /\ new.late = run[r].late /\ new.how = run[r].how
        /\ new.result = "failed" /\ new.alone = run[r].alone
    BY <2>1 DEF Record
  <2> HIDE DEF new
  <2>4. RunOk(r)'
    BY <1>1, <2>1, <2>3
    DEF IInv, RunOk, LeaseOk, ShippedOk, StandsOk, Pushed, Inspecting, Collecting
  <2>5. Active(r)
    BY <1>1 DEF Active
  <2>. QED  BY <1>1, <2>1, <2>2, <2>3, <2>4, <2>5, RemoteStays, RunMoves
<1>. QED  BY <1>2, <1>3 DEF CreateSandbox

------------------------------------------------------------------------------
(* The changes are fetched from the sandbox. *)

LEMMA SandboxWritesKeeps ==
  ASSUME IInv, NEW r \in Run, SandboxWrites(r)
  PROVE  IInv'
<1> DEFINE new == [run[r] EXCEPT !.work = run[r].work + 1]
<1>1. /\ run[r] \in Record /\ run' = [run EXCEPT ![r] = new] /\ run'[r] = new /\ UNCHANGED remote
      /\ run[r].work \in Int /\ run[r].work + 1 \in Int
      /\ run[r].at \in {"agent", "verify", "diff", "patch", "apply", "archive"}
  BY DEF IInv, World, Record, SandboxWrites
<1>2. new \in Record
  BY <1>1, Updates, Zenon
<1>3. /\ new.at = run[r].at /\ new.late = run[r].late /\ new.sha = run[r].sha
      /\ new.back = run[r].back /\ new.how = run[r].how /\ new.found = run[r].found
      /\ new.result = run[r].result /\ new.alone = run[r].alone
  BY <1>1 DEF Record
<1> HIDE DEF new
<1>4. RunOk(r) /\ RunOk(r)'
  <2>1. RunOk(r) /\ tip' = tip /\ landed' = landed /\ prs' = prs
    BY <1>1 DEF IInv, remote
  <2>2. LeaseOk(r)' /\ ShippedOk(r)' /\ StandsOk(r)'
    BY <1>1, <1>3, <2>1 DEF RunOk, LeaseOk, ShippedOk, StandsOk, Inspecting, Collecting, Pushed
  <2>. QED  BY <2>1, <2>2 DEF RunOk
<1>5. Active(r) /\ new.at # "idle"
  BY <1>1, <1>3 DEF Active
<1>. QED  BY <1>1, <1>2, <1>3, <1>4, <1>5, RemoteStays, RunMoves

\* A step of the collection that fills in what the clone holds.
LEMMA CollectKeeps ==
  ASSUME IInv, NEW r \in Run, UNCHANGED remote, NEW new \in Record,
         run' = [run EXCEPT ![r] = new],
         run[r].at \in Collecting \ {"idle"},
         new.at \in (Collecting \ {"idle"}) \cup {"collected"},
         new.late = run[r].late, new.found = run[r].found, new.result = run[r].result,
         new.alone = run[r].alone
  PROVE  IInv'
<1>1. run'[r] = new /\ RunOk(r) /\ tip' = tip /\ landed' = landed /\ prs' = prs
  BY DEF IInv, World, remote
<1>2. ~ run[r].late /\ run[r].result = "none"
  BY <1>1 DEF RunOk, LeaseOk, ShippedOk, Inspecting, Collecting
<1>3. LeaseOk(r)' /\ ShippedOk(r)' /\ StandsOk(r)'
  BY <1>1, <1>2 DEF LeaseOk, ShippedOk, StandsOk, Inspecting, Collecting, Pushed
<1>4. Active(r) /\ new.at # "idle"
  BY DEF Active, Collecting
<1>. QED  BY <1>1, <1>3, <1>4, RemoteStays, RunMoves DEF RunOk

LEMMA ReadDiffKeeps ==
  ASSUME IInv, NEW r \in Run, ReadDiff(r)
  PROVE  IInv'
<1>1. run[r].at = "diff" /\ UNCHANGED remote /\ run[r] \in Record
  BY DEF ReadDiff, IInv, World
<1>2. CASE run' = [run EXCEPT ![r] = [@ EXCEPT !.at = "patch", !.diff = run[r].work]]
  <2> DEFINE new == [run[r] EXCEPT !.at = "patch", !.diff = run[r].work]
  <2>1. run[r].work \in Int /\ "patch" \in Steps
    BY <1>1 DEF Record, Steps
  <2>2. new \in Record
    BY <1>1, <2>1, Updates, Zenon
  <2>3. /\ new.at = "patch" /\ new.late = run[r].late /\ new.sha = run[r].sha
        /\ new.back = run[r].back /\ new.how = run[r].how /\ new.found = run[r].found
        /\ new.result = run[r].result /\ new.alone = run[r].alone
    BY <1>1 DEF Record
  <2>4. run' = [run EXCEPT ![r] = new]
    BY <1>2
  <2> HIDE DEF new
  <2>. QED  BY <1>1, <2>2, <2>3, <2>4, CollectKeeps DEF Collecting
<1>3. CASE Goes(r, "archive")
  <2>1. MayGo(r, "archive") /\ "archive" \in Steps
    BY <1>1 DEF MayGo, Steps, Collecting, Inspecting, Pushed, Active
  <2>. QED  BY <1>1, <1>3, <2>1, Moves
<1>4. CASE Throws(r)
  BY <1>1, <1>4, Thrown DEF Active
<1>. QED  BY <1>2, <1>3, <1>4 DEF ReadDiff

LEMMA MaterializePatchKeeps ==
  ASSUME IInv, NEW r \in Run, MaterializePatch(r)
  PROVE  IInv'
<1>1. run[r].at = "patch" /\ UNCHANGED remote /\ run[r] \in Record
  BY DEF MaterializePatch, IInv, World
<1>2. ASSUME NEW n \in 0 .. MaxWrites,
             run' = [run EXCEPT ![r] = [@ EXCEPT !.at = "apply", !.diff = n]]
      PROVE  IInv'
  <2> DEFINE new == [run[r] EXCEPT !.at = "apply", !.diff = n]
  <2>1. n \in Int /\ "apply" \in Steps
    BY DEF Steps
  <2>2. new \in Record
    BY <1>1, <2>1, Updates, Zenon
  <2>3. /\ new.at = "apply" /\ new.late = run[r].late /\ new.sha = run[r].sha
        /\ new.back = run[r].back /\ new.how = run[r].how /\ new.found = run[r].found
        /\ new.result = run[r].result /\ new.alone = run[r].alone
    BY <1>1 DEF Record
  <2>4. run' = [run EXCEPT ![r] = new]
    BY <1>2
  <2> HIDE DEF new
  <2>. QED  BY <1>1, <2>2, <2>3, <2>4, CollectKeeps DEF Collecting
<1>3. CASE Goes(r, "archive")
  <2>1. MayGo(r, "archive") /\ "archive" \in Steps
    BY <1>1 DEF MayGo, Steps, Collecting, Inspecting, Pushed, Active
  <2>. QED  BY <1>1, <1>3, <2>1, Moves
<1>. QED  BY <1>2, <1>3 DEF MaterializePatch

LEMMA ApplyPatchKeeps ==
  ASSUME IInv, NEW r \in Run, ApplyPatch(r)
  PROVE  IInv'
<1>1. run[r].at = "apply" /\ UNCHANGED remote /\ run[r] \in Record
  BY DEF ApplyPatch, IInv, World
<1>2. ASSUME run' = [run EXCEPT ![r] = [@ EXCEPT !.at = "collected", !.how = "patch",
                                                 !.tree = AtRoot(run[r].diff), !.diff = 0]]
      PROVE  IInv'
  <2> DEFINE new == [run[r] EXCEPT !.at = "collected", !.how = "patch",
                               !.tree = AtRoot(run[r].diff), !.diff = 0]
  <2>1. /\ "patch" \in Origins /\ "collected" \in Steps /\ AtRoot(run[r].diff) \in AnyTree /\ 0 \in Int
    BY <1>1 DEF Origins, Steps, AtRoot, AnyTree, Record
  <2>2. new \in Record
    BY <1>1, <2>1, Updates, Zenon
  <2>3. /\ new.at = "collected" /\ new.late = run[r].late /\ new.sha = run[r].sha
        /\ new.back = run[r].back /\ new.how = "patch" /\ new.found = run[r].found
        /\ new.result = run[r].result /\ new.alone = run[r].alone
    BY <1>1 DEF Record
  <2>4. run' = [run EXCEPT ![r] = new]
    BY <1>2
  <2> HIDE DEF new
  <2>. QED  BY <1>1, <2>2, <2>3, <2>4, CollectKeeps DEF Collecting
<1>3. CASE Goes(r, "archive")
  <2>1. MayGo(r, "archive") /\ "archive" \in Steps
    BY <1>1 DEF MayGo, Steps, Collecting, Inspecting, Pushed, Active
  <2>. QED  BY <1>1, <1>3, <2>1, Moves
<1>. QED  BY <1>2, <1>3 DEF ApplyPatch

LEMMA ReplaceFromArchiveKeeps ==
  ASSUME IInv, NEW r \in Run, ReplaceFromArchive(r)
  PROVE  IInv'
<1>1. run[r].at = "archive" /\ UNCHANGED remote /\ run[r] \in Record
  BY DEF ReplaceFromArchive, IInv, World
<1>2. CASE run' = [run EXCEPT ![r] = [@ EXCEPT !.at = "collected", !.how = "archive",
                                               !.tree = ArchiveOf(r), !.diff = 0]]
  <2> DEFINE new == [run[r] EXCEPT !.at = "collected", !.how = "archive",
                               !.tree = ArchiveOf(r), !.diff = 0]
  <2>1. /\ "archive" \in Origins /\ "collected" \in Steps /\ ArchiveOf(r) \in AnyTree /\ 0 \in Int
    BY <1>1 DEF Origins, Steps, ArchiveOf, AnyTree, Record
  <2>2. new \in Record
    BY <1>1, <2>1, Updates, Zenon
  <2>3. /\ new.at = "collected" /\ new.late = run[r].late /\ new.sha = run[r].sha
        /\ new.back = run[r].back /\ new.how = "archive" /\ new.found = run[r].found
        /\ new.result = run[r].result /\ new.alone = run[r].alone
    BY <1>1 DEF Record
  <2>4. run' = [run EXCEPT ![r] = new]
    BY <1>2
  <2> HIDE DEF new
  <2>. QED  BY <1>1, <2>2, <2>3, <2>4, CollectKeeps DEF Collecting
<1>3. CASE Throws(r)
  BY <1>1, <1>3, Thrown DEF Active
<1>. QED  BY <1>2, <1>3 DEF ReplaceFromArchive

LEMMA KeepPatchKeeps ==
  ASSUME IInv, NEW r \in Run, KeepPatch(r)
  PROVE  IInv'
<1> DEFINE new == [run[r] EXCEPT !.at = "cleanup", !.result = "patch"]
<1>1. /\ run[r] \in Record /\ run' = [run EXCEPT ![r] = new] /\ run'[r] = new /\ UNCHANGED remote
      /\ run[r].at = "collected" /\ "cleanup" \in Steps /\ "patch" \in Results
  BY DEF IInv, World, KeepPatch, Steps, Results
<1>2. new \in Record
  BY <1>1, Updates, Zenon
<1>3. /\ new.at = "cleanup" /\ new.late = run[r].late /\ new.sha = run[r].sha
      /\ new.back = run[r].back /\ new.how = run[r].how /\ new.found = run[r].found
      /\ new.result = "patch" /\ new.alone = run[r].alone
  BY <1>1 DEF Record
<1> HIDE DEF new
<1>4. RunOk(r)'
  <2>1. RunOk(r) /\ tip' = tip /\ landed' = landed /\ prs' = prs
    BY <1>1 DEF IInv, remote
  <2>. QED
    BY <1>1, <1>3, <2>1
    DEF RunOk, LeaseOk, ShippedOk, StandsOk, Inspecting, Collecting, Pushed
<1>5. Active(r) /\ new.at # "idle"
  BY <1>1, <1>3 DEF Active
<1>. QED  BY <1>1, <1>2, <1>3, <1>4, <1>5, RemoteStays, RunMoves

------------------------------------------------------------------------------
(* The branch is inspected. *)

LEMMA LsRemoteShaKeeps ==
  ASSUME IInv, NEW r \in Run, LsRemoteSha(r)
  PROVE  IInv'
<1>1. run[r].at = "ls" /\ UNCHANGED remote /\ run[r] \in Record /\ Active(r)
  BY DEF LsRemoteSha, IInv, World, Active
<1>2. ASSUME NEW to \in {"commit", "fetch"}, to = "commit" => tip = None,
             run' = [run EXCEPT ![r] = [@ EXCEPT !.at = to, !.tries = 1, !.sha = tip,
                                                 !.back = FALSE]]
      PROVE  IInv'
  <2> DEFINE new == [run[r] EXCEPT !.at = to, !.tries = 1, !.sha = tip, !.back = FALSE]
  <2>1. to \in Steps /\ tip \in Commits /\ 1 \in Int /\ FALSE \in BOOLEAN
    BY DEF Steps, Commits, IInv, World
  <2>2. new \in Record
    BY <1>1, <2>1, Updates, Zenon
  <2>3. /\ new.at = to /\ new.late = run[r].late /\ new.sha = tip /\ new.how = run[r].how
        /\ new.found = run[r].found /\ new.result = run[r].result /\ new.alone = run[r].alone
    BY <1>1 DEF Record
  <2>4. run' = [run EXCEPT ![r] = new] /\ run'[r] = new
    BY <1>2 DEF IInv, World
  <2> HIDE DEF new
  <2>5. RunOk(r) /\ tip' = tip /\ landed' = landed /\ prs' = prs
    BY <1>1 DEF IInv, remote
  <2>6. LeaseOk(r)'
    <3>1. ~ run[r].late /\ None \notin Theirs
      BY <1>1, <2>5, DeliveryAssumption
      DEF DeliveryAssumption, IInv, World, RunOk, LeaseOk, Inspecting, Collecting
    <3>. QED  BY <1>2, <2>3, <2>4, <2>5, <3>1 DEF LeaseOk
  <2>7. ShippedOk(r)' /\ StandsOk(r)'
    BY <1>1, <2>3, <2>4, <2>5 DEF RunOk, ShippedOk, StandsOk, Collecting, Pushed
  <2>. QED  BY <1>1, <2>2, <2>3, <2>4, <2>6, <2>7, RemoteStays, RunMoves DEF RunOk
<1>3. ASSUME NEW end \in GitEnds, RetryTransientGit(r, end) PROVE IInv'
  BY <1>1, <1>3, GitRetried
<1>. QED  BY <1>2, <1>3 DEF LsRemoteSha

LEMMA InspectRemoteBranchKeeps ==
  ASSUME IInv, NEW r \in Run, InspectRemoteBranch(r)
  PROVE  IInv'
<1>1. run[r].at = "fetch" /\ UNCHANGED remote /\ Active(r)
  BY DEF InspectRemoteBranch, Active
<1>2. CASE OurCommitter(tip) /\ Goes(r, "commit")
  <2>1. MayGo(r, "commit") /\ "commit" \in Steps
    BY <1>1, <1>2 DEF MayGo, Steps, Collecting, Inspecting, Pushed, Active, OurCommitter
  <2>. QED  BY <1>1, <1>2, <2>1, Moves
<1>3. CASE Throws(r)
  BY <1>1, <1>3, Thrown
<1>4. ASSUME NEW end \in GitEnds, RetryTransientGit(r, end) PROVE IInv'
  BY <1>1, <1>4, GitRetried
<1>. QED  BY <1>2, <1>3, <1>4 DEF InspectRemoteBranch

------------------------------------------------------------------------------
(* The branch is pushed. *)

\* A push that lands makes the run's commit the tip and touches nothing else.
LEMMA Lands ==
  ASSUME IInv, NEW r \in Run, Land(r)
  PROVE  /\ OwnHand(r) /\ tip' = r /\ r \in landed' /\ landed \subseteq landed' /\ prs' = prs
         /\ OpenPrs' = OpenPrs /\ r \notin Theirs
BY DeliveryAssumption DEF IInv, World, OwnHand, Land, OpenPrs, DeliveryAssumption

LEMMA PushAgainKeeps ==
  ASSUME IInv, NEW r \in Run, run[r].at = "push", NEW late \in BOOLEAN, PushAgain(r, late),
         UNCHANGED remote \/ Land(r)
  PROVE  IInv'
<1>1. run[r] \in Record /\ RunOk(r) /\ Active(r)
  BY DEF IInv, World, Active
<1>2. /\ OwnHand(r) /\ landed \subseteq landed' /\ prs' = prs
      /\ tip' = tip \/ (tip' = r /\ r \notin Theirs)
  BY Lands, RemoteStays DEF remote
<1>3. ASSUME NEW new \in Record, run' = [run EXCEPT ![r] = new],
             new.at \in {"push", "cleanup"}, new.late = late, new.sha = run[r].sha,
             new.back = run[r].back, new.how = run[r].how, new.found = run[r].found,
             new.result = run[r].result, new.alone = run[r].alone
      PROVE  IInv'
  <2>1. run'[r] = new
    BY <1>3 DEF IInv, World
  <2>2. LeaseOk(r)'
    BY <1>1, <1>2, <1>3, <2>1 DEF RunOk, LeaseOk, Inspecting, Collecting
  <2>3. run[r].result = "none"
    BY <1>1 DEF RunOk, ShippedOk
  <2>4. ShippedOk(r)' /\ StandsOk(r)'
    BY <1>1, <1>3, <2>1, <2>3 DEF RunOk, ShippedOk, StandsOk, Collecting, Pushed
  <2>. QED  BY <1>1, <1>2, <1>3, <2>2, <2>4, RunMoves DEF RunOk
<1>4. CASE run' = [run EXCEPT ![r] = [@ EXCEPT !.tries = run[r].tries + 1, !.late = late]]
  <2> DEFINE new == [run[r] EXCEPT !.tries = run[r].tries + 1, !.late = late]
  <2>1. run[r].tries + 1 \in Int
    BY <1>1 DEF Record
  <2>2. new \in Record
    BY <1>1, <2>1, Updates, Zenon
  <2>3. /\ new.at = run[r].at /\ new.late = late /\ new.sha = run[r].sha /\ new.back = run[r].back
        /\ new.how = run[r].how /\ new.found = run[r].found /\ new.result = run[r].result
        /\ new.alone = run[r].alone
    BY <1>1 DEF Record
  <2>4. run' = [run EXCEPT ![r] = new]
    BY <1>4
  <2> HIDE DEF new
  <2>. QED  BY <1>3, <2>2, <2>3, <2>4
<1>5. CASE run' = [run EXCEPT ![r] = [@ EXCEPT !.at = "cleanup", !.tries = 1, !.late = late]]
  <2> DEFINE new == [run[r] EXCEPT !.at = "cleanup", !.tries = 1, !.late = late]
  <2>1. 1 \in Int /\ "cleanup" \in Steps
    BY DEF Steps
  <2>2. new \in Record
    BY <1>1, <2>1, Updates, Zenon
  <2>3. /\ new.at = "cleanup" /\ new.late = late /\ new.sha = run[r].sha /\ new.back = run[r].back
        /\ new.how = run[r].how /\ new.found = run[r].found /\ new.result = run[r].result
        /\ new.alone = run[r].alone
    BY <1>1 DEF Record
  <2>4. run' = [run EXCEPT ![r] = new]
    BY <1>5
  <2> HIDE DEF new
  <2>. QED  BY <1>3, <2>2, <2>3, <2>4
<1>. QED  BY <1>4, <1>5 DEF PushAgain

LEMMA PushKeeps ==
  ASSUME IInv, NEW r \in Run, PushReplyLost(r) \/ PushFails(r)
  PROVE  IInv'
<1>1. run[r].late \in BOOLEAN
  BY DEF IInv, World, Record
<1>. QED  BY <1>1, PushAgainKeeps DEF PushReplyLost, PushFails

LEMMA PushSucceedsKeeps ==
  ASSUME IInv, NEW r \in Run, PushSucceeds(r)
  PROVE  IInv'
<1> DEFINE new == [run[r] EXCEPT !.at = "clean", !.tries = 1]
<1>1. /\ run[r] \in Record /\ run' = [run EXCEPT ![r] = new] /\ run'[r] = new
      /\ RunOk(r) /\ Land(r) /\ run[r].at = "push" /\ Active(r)
      /\ "clean" \in Steps /\ 1 \in Int
  BY DEF IInv, World, Active, PushSucceeds, Goes, Steps
<1>2. new \in Record
  BY <1>1, Updates, Zenon
<1>3. /\ new.at = "clean" /\ new.late = run[r].late /\ new.sha = run[r].sha
      /\ new.back = run[r].back /\ new.how = run[r].how /\ new.found = run[r].found
      /\ new.result = run[r].result /\ new.alone = run[r].alone
  BY <1>1 DEF Record
<1> HIDE DEF new
<1>4. RunOk(r)'
  <2>1. LeaseOk(r)'
    BY <1>1, <1>3, Lands DEF RunOk, LeaseOk, Inspecting, Collecting
  <2>2. run[r].result = "none"
    BY <1>1 DEF RunOk, ShippedOk
  <2>3. ShippedOk(r)' /\ StandsOk(r)'
    BY <1>1, <1>3, <2>2, Lands DEF RunOk, ShippedOk, StandsOk, Collecting
  <2>. QED  BY <2>1, <2>3 DEF RunOk
<1>. QED  BY <1>1, <1>2, <1>3, <1>4, Lands, RunMoves

LEMMA RecheckLeaseKeeps ==
  ASSUME IInv, NEW r \in Run, RecheckLease(r)
  PROVE  IInv'
<1>1. run[r].at = "leased" /\ UNCHANGED remote /\ Active(r)
  BY DEF RecheckLease, Active
<1>2. CASE AlreadyPushed(r) /\ Goes(r, "clean")
  <2>1. MayGo(r, "clean") /\ "clean" \in Steps
    BY <1>1, <1>2 DEF MayGo, Steps, Collecting, Inspecting, AlreadyPushed
  <2>. QED  BY <1>1, <1>2, <2>1, Moves
<1>3. CASE Throws(r)
  BY <1>1, <1>3, Thrown
<1>4. ASSUME NEW end \in GitEnds, RetryTransientGit(r, end) PROVE IInv'
  BY <1>1, <1>4, GitRetried
<1>. QED  BY <1>2, <1>3, <1>4 DEF RecheckLease

------------------------------------------------------------------------------
(* The pull request is found or created. *)

LEMMA ListOpenByHeadKeeps ==
  ASSUME IInv, NEW r \in Run, ListOpenByHead(r)
  PROVE  IInv'
<1>1. run[r].at = "list" /\ UNCHANGED remote /\ run[r] \in Record /\ Active(r)
  BY DEF ListOpenByHead, IInv, World, Active
<1>2. CASE OpenPrs = {} /\ Goes(r, "post")
  <2>1. MayGo(r, "post") /\ "post" \in Steps
    BY <1>1, <1>2 DEF MayGo, Steps, Collecting, Inspecting, Pushed
  <2>. QED  BY <1>1, <1>2, <2>1, Moves
<1>3. ASSUME NEW n \in OpenPrs,
             run' = [run EXCEPT ![r] = [@ EXCEPT !.at = "patchPr", !.tries = 1, !.found = n]]
      PROVE  IInv'
  <2> DEFINE new == [run[r] EXCEPT !.at = "patchPr", !.tries = 1, !.found = n]
  <2>1. "patchPr" \in Steps /\ n \in DOMAIN prs /\ n \in Int /\ 1 \in Int
    BY DEF Steps, OpenPrs, IInv, World
  <2>2. new \in Record
    BY <1>1, <2>1, Updates, Zenon
  <2>3. /\ new.at = "patchPr" /\ new.late = run[r].late /\ new.sha = run[r].sha
        /\ new.back = run[r].back /\ new.how = run[r].how /\ new.found = n
        /\ new.result = run[r].result /\ new.alone = run[r].alone
    BY <1>1 DEF Record
  <2>4. run' = [run EXCEPT ![r] = new] /\ run'[r] = new
    BY <1>3 DEF IInv, World
  <2> HIDE DEF new
  <2>5. /\ RunOk(r) /\ tip' = tip /\ landed' = landed /\ prs' = prs /\ OpenPrs' = OpenPrs
        /\ OwnHand(r)
    BY <1>1, RemoteStays DEF IInv, remote
  <2>6. run[r].result = "none"
    BY <1>1, <2>5 DEF RunOk, ShippedOk
  <2>7. RunOk(r)'
    BY <1>1, <2>1, <2>3, <2>4, <2>5, <2>6
    DEF RunOk, LeaseOk, ShippedOk, StandsOk, Inspecting, Collecting, Pushed
  <2>. QED  BY <1>1, <2>2, <2>3, <2>4, <2>5, <2>7, RunMoves
<1>4. ASSUME NEW end \in ApiEnds, RetryOnRateLimit(r, end) PROVE IInv'
  BY <1>1, <1>4, ApiRetried
<1>. QED  BY <1>2, <1>3, <1>4 DEF ListOpenByHead

\* The pull request n now describes the run; the run may have seen the answer or not.
LEMMA DescribesKeeps ==
  ASSUME IInv, NEW r \in Run, run[r].at \in {"post", "patchPr"}, OwnHand(r),
         UNCHANGED <<tip, landed>>, NEW n \in DOMAIN prs', prs'[n].body = Body(r),
         run[r].alone => n \in OpenPrs', Published(r, n) \/ Throws(r)
  PROVE  IInv'
<1>1. run[r] \in Record /\ RunOk(r) /\ Active(r) /\ n \in Int /\ 1 \in Int
  BY DEF IInv, World, Active, OwnHand
<1>2. "cleanup" \in Steps /\ "published" \in Results
  BY DEF Steps, Results
<1>3. run[r].result = "none" /\ r \in landed /\ (run[r].alone => tip = r)
  BY <1>1 DEF RunOk, ShippedOk, StandsOk, Pushed
<1>4. ASSUME NEW new \in Record, run' = [run EXCEPT ![r] = new], new.at = "cleanup",
             new.late = run[r].late, new.sha = run[r].sha, new.back = run[r].back,
             new.how = run[r].how, new.alone = run[r].alone,
             new.result = "none" \/ (new.result = "published" /\ new.found = n)
      PROVE  IInv'
  <2>1. run'[r] = new
    BY <1>4 DEF IInv, World
  <2>2. LeaseOk(r)' /\ ShippedOk(r)'
    BY <1>1, <1>3, <1>4, <2>1
    DEF RunOk, LeaseOk, ShippedOk, Inspecting, Collecting, Pushed
  <2>3. StandsOk(r)'
    BY <1>3, <1>4, <2>1 DEF StandsOk, Pushed, Body
  <2>. QED  BY <1>1, <1>4, <2>2, <2>3, RunMoves DEF RunOk
<1>5. CASE Published(r, n)
  <2> DEFINE new == [run[r] EXCEPT !.at = "cleanup", !.tries = 1, !.found = n,
                               !.result = "published"]
  <2>1. new \in Record
    BY <1>1, <1>2, Updates, Zenon
  <2>2. /\ new.at = "cleanup" /\ new.late = run[r].late /\ new.sha = run[r].sha
        /\ new.back = run[r].back /\ new.how = run[r].how /\ new.found = n
        /\ new.result = "published" /\ new.alone = run[r].alone
    BY <1>1 DEF Record
  <2>3. run' = [run EXCEPT ![r] = new]
    BY <1>5 DEF Published
  <2> HIDE DEF new
  <2>. QED  BY <1>4, <2>1, <2>2, <2>3
<1>6. CASE Throws(r)
  <2> DEFINE new == [run[r] EXCEPT !.at = "cleanup", !.tries = 1]
  <2>1. new \in Record
    BY <1>1, <1>2, Updates, Zenon
  <2>2. /\ new.at = "cleanup" /\ new.late = run[r].late /\ new.sha = run[r].sha
        /\ new.back = run[r].back /\ new.how = run[r].how /\ new.found = run[r].found
        /\ new.result = run[r].result /\ new.alone = run[r].alone
    BY <1>1 DEF Record
  <2>3. run' = [run EXCEPT ![r] = new]
    BY <1>6 DEF Throws, Goes
  <2> HIDE DEF new
  <2>. QED  BY <1>3, <1>4, <2>1, <2>2, <2>3
<1>. QED  BY <1>5, <1>6

LEMMA CreatePullRequestKeeps ==
  ASSUME IInv, NEW r \in Run, CreatePullRequest(r)
  PROVE  IInv'
<1>1. run[r].at = "post" /\ UNCHANGED <<tip, landed>> /\ Active(r) /\ prs \in Seq(PullRequest)
  BY DEF CreatePullRequest, Active, IInv, World
<1>2. ASSUME OpenPrs = {}, prs' = Append(prs, [open |-> TRUE, body |-> Body(r)]),
             Published(r, Len(prs) + 1) \/ Throws(r)
      PROVE  IInv'
  <2> DEFINE pr == [open |-> TRUE, body |-> Body(r)]
             n == Len(prs) + 1
  <2>1. run[r].how \in Origins
    BY DEF IInv, World, Record
  <2>2. pr \in PullRequest
    BY <2>1 DEF PullRequest, Body
  <2>3. /\ prs' \in Seq(PullRequest) /\ n \in DOMAIN prs' /\ prs'[n] = pr
        /\ DOMAIN prs \subseteq DOMAIN prs' /\ Len(prs') = n /\ n \in Nat
        /\ \A i \in 1 .. Len(prs) : prs'[i] = prs[i]
    BY <1>1, <1>2, <2>2
  <2>4. pr.open /\ pr.body = Body(r)
    OBVIOUS
  <2> HIDE DEF pr, n
  <2>5. OpenPrs' = {n}
    <3>1. \A i \in 1 .. Len(prs) : ~ prs'[i].open
      BY <1>2, <2>3 DEF OpenPrs
    <3>2. 1 .. Len(prs') = (1 .. Len(prs)) \cup {n}
      BY <1>1, <2>3 DEF n
    <3>. QED  BY <2>3, <2>4, <3>1, <3>2 DEF OpenPrs
  <2>6. OwnHand(r)
    BY <1>1, <2>3, <2>5 DEF OwnHand, IInv, World
  <2>. QED  BY <1>1, <1>2, <2>3, <2>4, <2>5, <2>6, DescribesKeeps DEF n
<1>3. ASSUME NEW end \in ApiEnds, RetryOnRateLimit(r, end), UNCHANGED prs PROVE IInv'
  <2>1. UNCHANGED remote
    BY <1>1, <1>3 DEF remote
  <2>. QED  BY <1>1, <1>3, <2>1, ApiRetried
<1>. QED  BY <1>2, <1>3 DEF CreatePullRequest

LEMMA UpdatePullRequestKeeps ==
  ASSUME IInv, NEW r \in Run, UpdatePullRequest(r)
  PROVE  IInv'
<1>1. run[r].at = "patchPr" /\ UNCHANGED <<tip, landed>> /\ Active(r) /\ prs \in Seq(PullRequest)
  BY DEF UpdatePullRequest, Active, IInv, World
<1> DEFINE n == run[r].found
<1>2. ASSUME prs' = [prs EXCEPT ![n].body = Body(r)], Published(r, n) \/ Throws(r)
      PROVE  IInv'
  <2>1. n \in DOMAIN prs /\ (run[r].alone => n \in OpenPrs)
    BY <1>1 DEF IInv, RunOk, ShippedOk, StandsOk
  <2>2. run[r].how \in Origins
    BY DEF IInv, World, Record
  <2>3. Body(r) \in [run : Run, how : Origins]
    BY <2>2 DEF Body
  <2>4. prs[n] \in PullRequest
    BY <1>1, <2>1
  <2> DEFINE pr == [prs[n] EXCEPT !.body = Body(r)]
  <2>5. pr \in PullRequest /\ pr.open = prs[n].open /\ pr.body = Body(r)
    BY <2>3, <2>4 DEF PullRequest
  <2>6. prs' = [prs EXCEPT ![n] = pr]
    BY <1>2
  <2> HIDE DEF pr, n
  <2>7. prs' \in Seq(PullRequest) /\ DOMAIN prs' = DOMAIN prs /\ Len(prs') = Len(prs)
    BY <1>1, <2>1, <2>5, <2>6
  <2>8. prs'[n] = pr /\ \A i \in DOMAIN prs \ {n} : prs'[i] = prs[i]
    BY <1>1, <2>1, <2>6
  <2>9. OpenPrs' = OpenPrs
    BY <1>1, <2>5, <2>7, <2>8 DEF OpenPrs
  <2>10. OwnHand(r)
    BY <1>1, <2>7, <2>9 DEF OwnHand, IInv, World
  <2>11. n \in DOMAIN prs' /\ prs'[n].body = Body(r) /\ (run[r].alone => n \in OpenPrs')
    BY <2>1, <2>5, <2>7, <2>8, <2>9
  <2>. QED  BY <1>1, <1>2, <2>10, <2>11, DescribesKeeps
<1>3. ASSUME NEW end \in ApiEnds, RetryOnRateLimit(r, end), UNCHANGED prs PROVE IInv'
  <2>1. UNCHANGED remote
    BY <1>1, <1>3 DEF remote
  <2>. QED  BY <1>1, <1>3, <2>1, ApiRetried
<1>. QED  BY <1>2, <1>3 DEF UpdatePullRequest

------------------------------------------------------------------------------
(* A run ends, and what it left under way arrives. *)

LEMMA OverKeeps ==
  ASSUME IInv, NEW r \in Run, Active(r), UNCHANGED remote, NEW at \in {"ended", "crashed"},
         NEW late \in BOOLEAN, late => run[r].late \/ run[r].at = "push",
         NEW result \in Results, result = "published" <=> run[r].result = "published",
         Over(r, at, result, late)
  PROVE  IInv'
<1> DEFINE told  == result = "published"
           sha   == IF late THEN run[r].sha ELSE None
           back  == late /\ run[r].back
           how   == IF told THEN run[r].how ELSE "none"
           found == IF told THEN run[r].found ELSE 0
           alone == told /\ run[r].alone
           new   == [Idle EXCEPT !.at = at, !.result = result, !.late = late, !.sha = sha,
                                 !.back = back, !.how = how, !.found = found, !.alone = alone]
<1>1. run[r] \in Record /\ run' = [run EXCEPT ![r] = new] /\ run'[r] = new /\ RunOk(r)
  BY DEF IInv, World, Over
<1>2. Idle \in Record
  BY DEF Idle, Record, Steps, AnyTree, AtRoot, Origins, Commits, Results
<1>3. /\ sha \in Commits /\ back \in BOOLEAN /\ how \in Origins /\ found \in Int
      /\ alone \in BOOLEAN /\ at \in Steps
  BY <1>1 DEF Record, Commits, Steps, Origins
<1>4. /\ late => sha = run[r].sha /\ back = run[r].back
      /\ result = "published" => how = run[r].how /\ found = run[r].found
      /\ alone => result = "published" /\ run[r].alone
  <2>1. run[r].back \in BOOLEAN
    BY <1>1 DEF Record
  <2>. QED  BY <2>1
<1> HIDE DEF told, sha, back, how, found, alone
<1>5. new \in Record
  <2>1. result \in Results /\ late \in BOOLEAN
    OBVIOUS
  <2>. QED  BY <1>2, <1>3, <2>1 DEF Record
<1>6. /\ new.at = at /\ new.late = late /\ new.sha = sha /\ new.back = back /\ new.how = how
      /\ new.found = found /\ new.result = result /\ new.alone = alone
  BY <1>2 DEF Record
<1> HIDE DEF new
<1>7. RunOk(r)'
  <2>1. tip' = tip /\ landed' = landed /\ prs' = prs /\ OpenPrs' = OpenPrs
    BY RemoteStays DEF remote
  <2>2. LeaseOk(r)'
    BY <1>1, <1>4, <1>6, <2>1 DEF RunOk, LeaseOk, Inspecting, Collecting
  <2>3. ShippedOk(r)'
    BY <1>1, <1>4, <1>6, <2>1 DEF RunOk, ShippedOk, Pushed
  <2>4. StandsOk(r)'
    BY <1>1, <1>4, <1>6, <2>1 DEF RunOk, StandsOk, Pushed, Body
  <2>. QED  BY <2>2, <2>3, <2>4 DEF RunOk
<1>. QED  BY <1>1, <1>4, <1>5, <1>6, <1>7, RemoteStays, RunMoves

LEMMA EndKeeps ==
  ASSUME IInv, NEW r \in Run, CleanUp(r) \/ Crash(r)
  PROVE  IInv'
<1>1. run[r].late \in BOOLEAN /\ run[r].result \in Results /\ "failed" \in Results
  BY DEF IInv, World, Record, Results
<1>2. CASE CleanUp(r)
  <2> DEFINE result == IF run[r].result = "none" THEN "failed" ELSE run[r].result
  <2>1. result \in Results /\ (result = "published" <=> run[r].result = "published")
    BY <1>1
  <2>2. Over(r, "ended", result, run[r].late) /\ UNCHANGED remote /\ Active(r)
    BY <1>2 DEF CleanUp, Active
  <2> HIDE DEF result
  <2>. QED  BY <1>1, <2>1, <2>2, OverKeeps
<1>3. CASE Crash(r)
  <2>1. PICK late \in {run[r].late, run[r].at = "push" \/ run[r].late} :
          Over(r, "crashed", run[r].result, late)
    BY <1>3 DEF Crash
  <2>2. late \in BOOLEAN /\ (late => run[r].late \/ run[r].at = "push")
    BY <1>1
  <2>3. UNCHANGED remote /\ Active(r)
    BY <1>3 DEF Crash
  <2>. QED  BY <1>1, <2>1, <2>2, <2>3, OverKeeps
<1>. QED  BY <1>2, <1>3

LEMMA HangsKeeps ==
  ASSUME IInv, NEW r \in Run, Hangs(r)
  PROVE  IInv'
<1>1. "hung" \in Steps /\ MayGo(r, "hung")
  BY DEF Hangs, MayGo, Steps, Active, Collecting, Inspecting, Pushed
<1>. QED  BY <1>1, Moves DEF Hangs

LEMMA LateLandsKeeps ==
  ASSUME IInv, NEW r \in Run, LateLands(r)
  PROVE  IInv'
<1> DEFINE new == [run[r] EXCEPT !.late = FALSE]
<1>1. /\ run[r] \in Record /\ run' = [run EXCEPT ![r] = new] /\ run'[r] = new /\ RunOk(r)
      /\ run[r].late /\ FALSE \in BOOLEAN
  BY DEF IInv, World, LateLands
<1>2. new \in Record
  BY <1>1, Updates, Zenon
<1>3. /\ new.at = run[r].at /\ ~ new.late /\ new.sha = run[r].sha /\ new.back = run[r].back
      /\ new.how = run[r].how /\ new.found = run[r].found /\ new.result = run[r].result
      /\ new.alone = run[r].alone
  BY <1>1 DEF Record
<1> HIDE DEF new
<1>4. /\ OwnHand(r) /\ landed \subseteq landed' /\ prs' = prs /\ OpenPrs' = OpenPrs
      /\ tip' = tip \/ (tip' = r /\ r \notin Theirs)
  BY Lands, RemoteStays DEF LateLands, remote
<1>5. new.at # "idle"
  BY <1>1, <1>3 DEF RunOk, LeaseOk, Inspecting, Collecting
<1>6. RunOk(r)'
  <2>1. LeaseOk(r)'
    BY <1>1, <1>3, <1>4 DEF RunOk, LeaseOk
  <2>2. ShippedOk(r)'
    BY <1>1, <1>3, <1>4 DEF RunOk, ShippedOk
  <2>3. StandsOk(r)'
    BY <1>1, <1>3, <1>4 DEF RunOk, StandsOk, Body
  <2>. QED  BY <2>1, <2>2, <2>3 DEF RunOk
<1>. QED  BY <1>1, <1>2, <1>3, <1>4, <1>5, <1>6, RunMoves

------------------------------------------------------------------------------
(* Third parties. *)

\* What they do to the branch and the pull requests leaves the runs where they are;
\* nobody is alone, and who reads or holds a commit of theirs that comes back is marked.
LEMMA OthersKeep ==
  ASSUME IInv, run' \in [Run -> Record],
         \A q \in Run :
           /\ run'[q].at = run[q].at /\ run'[q].late = run[q].late /\ run'[q].how = run[q].how
           /\ run'[q].result = run[q].result /\ run'[q].sha = run[q].sha
           /\ run'[q].found = run[q].found /\ ~ run'[q].alone
           /\ run[q].back => run'[q].back
           /\ Leases(q) /\ run[q].sha = tip' /\ tip' \notin {tip, None} => run'[q].back,
         tip' \in landed' \cup {None}, landed \subseteq landed', landed' \subseteq Run \cup Theirs,
         prs' \in Seq(PullRequest), DOMAIN prs \subseteq DOMAIN prs',
         \A m, n \in OpenPrs' : m = n
  PROVE  IInv'
<1>1. World'
  BY DEF World
<1>2. ASSUME NEW q \in Run PROVE RunOk(q)' /\ Solitary(q)'
  <2>1. RunOk(q) /\ None \notin Theirs
    BY DeliveryAssumption DEF IInv, DeliveryAssumption
  <2>2. LeaseOk(q)'
    BY <2>1 DEF RunOk, LeaseOk, Leases
  <2>3. ShippedOk(q)'
    BY <2>1 DEF RunOk, ShippedOk
  <2>. QED  BY <2>2, <2>3 DEF RunOk, StandsOk, Solitary
<1>. QED  BY <1>1, <1>2 DEF IInv

LEMMA TheyPushKeeps ==
  ASSUME IInv, NEW c \in Run \cup Theirs, TheyPush(c)
  PROVE  IInv'
<1> DEFINE back(q) == run[q].back \/ (Leases(q) /\ run[q].sha = c)
           left(q) == [run[q] EXCEPT !.alone = FALSE, !.back = back(q)]
<1>1. run' = [q \in Run |-> left(q)]
  BY DEF TheyPush
<1>2. ASSUME NEW q \in Run
      PROVE  /\ left(q) \in Record /\ left(q).at = run[q].at /\ left(q).late = run[q].late
             /\ left(q).how = run[q].how /\ left(q).result = run[q].result
             /\ left(q).sha = run[q].sha /\ left(q).found = run[q].found /\ ~ left(q).alone
             /\ left(q).back = back(q)
  <2>1. run[q] \in Record /\ FALSE \in BOOLEAN /\ back(q) \in BOOLEAN
    BY DEF IInv, World, Record
  <2>2. left(q) \in Record
    <3> HIDE DEF back
    <3>. QED  BY <2>1, Updates, Zenon
  <2> HIDE DEF back
  <2>. QED  BY <2>1, <2>2 DEF Record
<1> HIDE DEF left
<1>3. /\ run' \in [Run -> Record] /\ \A q \in Run : run'[q] = left(q)
  BY <1>1, <1>2
<1>4. tip' = c /\ landed' = landed \cup {c} /\ prs' = prs /\ OpenPrs' = OpenPrs
  BY DEF TheyPush, OpenPrs
<1>. QED  BY <1>2, <1>3, <1>4, OthersKeep DEF IInv, World

\* Closing keeps the numbers, and leaves none open.
LEMMA ClosedPrs ==
  ASSUME IInv, prs' = Closed
  PROVE  prs' \in Seq(PullRequest) /\ DOMAIN prs' = DOMAIN prs /\ OpenPrs' = {}
<1>1. prs \in Seq(PullRequest) /\ Len(prs) \in Nat /\ DOMAIN prs = 1 .. Len(prs)
  BY DEF IInv, World
<1>2. ASSUME NEW n \in 1 .. Len(prs)
      PROVE  prs'[n] \in PullRequest /\ ~ prs'[n].open
  <2>1. prs[n] \in PullRequest /\ prs'[n] = [prs[n] EXCEPT !.open = FALSE]
    BY <1>1 DEF Closed
  <2>. QED  BY <2>1 DEF PullRequest
<1>3. prs' = [n \in 1 .. Len(prs) |-> prs'[n]]
  BY <1>1 DEF Closed
<1>4. prs' \in Seq(PullRequest)
  BY <1>1, <1>2, <1>3, IsASeq
<1>5. DOMAIN prs' = 1 .. Len(prs) /\ Len(prs') = Len(prs)
  BY <1>1, <1>4 DEF Closed
<1>. QED  BY <1>1, <1>2, <1>4, <1>5 DEF OpenPrs

LEMMA TheyCloseKeeps ==
  ASSUME IInv, TheyDelete \/ TheyClose
  PROVE  IInv'
<1>1. prs' = Closed /\ landed' = landed /\ NotAlone /\ (tip' = tip \/ tip' = None)
  BY DEF TheyDelete, TheyClose
<1> DEFINE left(q) == [run[q] EXCEPT !.alone = FALSE]
<1>2. ASSUME NEW q \in Run
      PROVE  /\ left(q) \in Record /\ left(q).at = run[q].at /\ left(q).late = run[q].late
             /\ left(q).how = run[q].how /\ left(q).result = run[q].result
             /\ left(q).sha = run[q].sha /\ left(q).found = run[q].found /\ ~ left(q).alone
             /\ left(q).back = run[q].back
  <2>1. run[q] \in Record /\ FALSE \in BOOLEAN
    BY DEF IInv, World
  <2>2. left(q) \in Record
    BY <2>1, Updates, Zenon
  <2>. QED  BY <2>1, <2>2 DEF Record
<1>3. run' = [q \in Run |-> left(q)]
  BY <1>1 DEF NotAlone
<1> HIDE DEF left
<1>4. run' \in [Run -> Record] /\ \A q \in Run : run'[q] = left(q)
  BY <1>2, <1>3
<1>. QED  BY <1>1, <1>2, <1>4, ClosedPrs, OthersKeep DEF IInv, World

------------------------------------------------------------------------------
(* The theorems. *)

LEMMA Start0 == Init => IInv
<1> SUFFICES ASSUME Init PROVE IInv
  OBVIOUS
<1>1. Idle \in Record
  BY DEF Idle, Record, Steps, AnyTree, AtRoot, Origins, Commits, Results
<1>2. World
  BY <1>1 DEF Init, World, OpenPrs
<1>3. ASSUME NEW r \in Run PROVE RunOk(r) /\ Solitary(r)
  BY DEF Init, Idle, RunOk, LeaseOk, ShippedOk, StandsOk, Solitary, Pushed,
         Collecting
<1>. QED  BY <1>2, <1>3 DEF IInv

LEMMA Step == IInv /\ [Next]_vars => IInv'
<1> SUFFICES ASSUME IInv, [Next]_vars PROVE IInv'
  OBVIOUS
<1>1. ASSUME NEW r \in Run, Proceed(r) PROVE IInv'
  BY <1>1, CreateSandboxKeeps, SimpleKeeps, ReadDiffKeeps, MaterializePatchKeeps, ApplyPatchKeeps,
     ReplaceFromArchiveKeeps, KeepPatchKeeps, LsRemoteShaKeeps, InspectRemoteBranchKeeps,
     PushSucceedsKeeps, PushKeeps, RecheckLeaseKeeps, ListOpenByHeadKeeps,
     CreatePullRequestKeeps, UpdatePullRequestKeeps, EndKeeps
  DEF Proceed, Simple
<1>2. ASSUME NEW r \in Run, Start(r) \/ SandboxWrites(r) \/ Crash(r) \/ Hangs(r) \/ LateLands(r)
      PROVE  IInv'
  BY <1>2, StartKeeps, SandboxWritesKeeps, EndKeeps, HangsKeeps, LateLandsKeeps
<1>3. ASSUME NEW c \in Run \cup Theirs, TheyPush(c) PROVE IInv'
  BY <1>3, TheyPushKeeps
<1>4. CASE TheyDelete \/ TheyClose
  BY <1>4, TheyCloseKeeps
<1>5. CASE UNCHANGED vars
  BY <1>5
  DEF vars, remote, IInv, World, OpenPrs, RunOk, LeaseOk, ShippedOk, StandsOk, Solitary,
      Active, Body
<1>. QED  BY <1>1, <1>2, <1>3, <1>4, <1>5 DEF Next

LEMMA Inductive == Spec => []IInv
BY Start0, Step, PTL DEF Spec

\* A run that reports success has had its commit at the tip of the branch and has
\* described a pull request that exists, for any number of runs and retries and
\* however answers are lost (push.ts:351, pr.ts:385).
THEOREM SuccessHappened == Spec => []SuccessIsReal
<1>1. IInv => SuccessIsReal
  <2> SUFFICES ASSUME IInv, NEW r \in Run, run[r].result = "published"
               PROVE  r \in landed /\ run[r].found \in 1 .. Len(prs)
    BY DEF SuccessIsReal
  <2>. QED  BY DEF IInv, World, RunOk, ShippedOk
<1>. QED  BY Inductive, <1>1, PTL

\* A run nobody disturbed leaves the branch at its commit and one open pull request,
\* which describes it, whatever earlier runs left (agent-run.ts, pr.ts:373).
THEOREM UndisturbedRunWins == Spec => []LastRunWins
<1>1. IInv => LastRunWins
  <2> SUFFICES ASSUME IInv, NEW r \in Run, run[r].result = "published", run[r].alone
               PROVE  /\ tip = r
                      /\ {prs[n].body : n \in OpenPrs} = {Body(r)}
                      /\ Cardinality(OpenPrs) = 1
    BY DEF LastRunWins
  <2>1. tip = r /\ run[r].found \in OpenPrs /\ prs[run[r].found].body = Body(r)
    BY DEF IInv, RunOk, StandsOk
  <2>2. OpenPrs = {run[r].found}
    BY <2>1 DEF IInv, World
  <2>3. Cardinality(OpenPrs) = 1
    BY <2>2, FS_Singleton
  <2>. QED  BY <2>1, <2>2, <2>3
<1>. QED  BY Inductive, <1>1, PTL

\* A push of ours replaces a commit of somebody else only if a third party put that
\* very commit back after the run had read it, in whatever order inspection, retries
\* and late arrivals come, for any number of runs and commits, and however often the
\* branch is moved away and back (pr.ts:619, push.ts:228).
THEOREM OverwritesNeedAReturn == Spec => OverwriteNeedsReturn
<1> DEFINE A == \A c \in Theirs, r \in Run :
                  tip = c /\ tip' = r /\ ~ TheyPush(r) => run[r].back
<1>1. IInv /\ [Next]_vars => [A]_vars
  <2> SUFFICES ASSUME IInv, Next, NEW c \in Theirs, NEW r \in Run,
                      tip = c, tip' = r, ~ TheyPush(r), ~ run[r].back
               PROVE  FALSE
    OBVIOUS
  <2>1. tip' # tip /\ tip' # None /\ r \notin Theirs
    BY DeliveryAssumption DEF DeliveryAssumption
  <2>2. ASSUME NEW q \in Run, LeaseHolds(q), run[q].at = "push" \/ run[q].late, Land(q)
        PROVE  FALSE
    <3>1. q = r /\ run[r].sha = c
      BY <2>1, <2>2, DeliveryAssumption DEF LeaseHolds, Land, DeliveryAssumption
    <3>. QED  BY <2>2, <3>1 DEF IInv, RunOk, LeaseOk
  <2>3. ASSUME NEW q \in Run, Proceed(q) PROVE FALSE
    BY <2>1, <2>2, <2>3
    DEF Proceed, CreateSandbox, CloneRepo, UploadRepo, UnpackRepo, RunAgent, VerifyInSandbox,
        ReadDiff, MaterializePatch, ApplyPatch, ReplaceFromArchive, KeepPatch, Publish, TokenFor,
        LsRemoteSha, InspectRemoteBranch, Commit, PushSucceeds, PushReplyLost, PushFails,
        PushLeaseRejected, RecheckLease, AssertCleanWorktree, ListOpenByHead,
        CreatePullRequest, UpdatePullRequest, CleanUp, remote
  <2>4. ASSUME NEW q \in Run, Start(q) \/ SandboxWrites(q) \/ Crash(q) \/ Hangs(q) \/ LateLands(q)
        PROVE  FALSE
    BY <2>1, <2>2, <2>4 DEF Start, SandboxWrites, Crash, Hangs, LateLands, remote
  <2>5. ASSUME NEW d \in Run \cup Theirs, TheyPush(d) PROVE FALSE
    BY <2>1, <2>5 DEF TheyPush
  <2>. QED  BY <2>1, <2>3, <2>4, <2>5 DEF Next, TheyDelete, TheyClose
<1> HIDE DEF A
<1>2. Spec => [][A]_vars
  BY Inductive, <1>1, PTL DEF Spec
<1>. QED  BY <1>2 DEF OverwriteNeedsReturn, A
=============================================================================
