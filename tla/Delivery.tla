------------------------------ MODULE Delivery ------------------------------
(***************************************************************************)
(* How a run leaves the sandbox (scripts/agent-run.ts, agent/run.ts,       *)
(* repo/): the repository is cloned and put into a sandbox, the agent      *)
(* changes it there, the changes are fetched back, pushed to the branch of *)
(* the task and described by a pull request.  Runs of one task share the   *)
(* branch; they are processes that may overlap, be repeated and die.       *)
(* Trees are numbered: 0 is the base commit, n what the sandbox holds      *)
(* after the n-th change.  The commit a run makes has the run's name.      *)
(***************************************************************************)
EXTENDS Integers, Sequences, FiniteSets

CONSTANTS
  Run,          \* processes that work on one task
  Theirs,       \* commits of third parties
  None,
  GitTries,     \* GIT_TRANSIENT_ATTEMPTS
  PushTries,    \* GIT_PUSH_ATTEMPTS
  ApiRetries,   \* RATE_LIMIT_MAX_RETRIES
  MaxWrites     \* bound: changes of the tree in a sandbox

ASSUME DeliveryAssumption ==
  /\ GitTries \in Nat \ {0} /\ PushTries \in Nat \ {0}
  /\ ApiRetries \in Nat /\ MaxWrites \in Nat
  /\ Run \cap Theirs = {} /\ None \notin Run \cup Theirs

VARIABLES
  run,     \* what the process of a run knows, and its sandbox and clone
  tip,     \* the commit the branch of the task points to
  landed,  \* commits that have been its tip
  prs      \* pull requests from that branch, by number

remote == <<tip, landed, prs>>
vars == <<run, remote>>

(* A tree in the clone: which one, and whether it lies at the root.        *)
Tree == [version : 0 .. MaxWrites, root : BOOLEAN]
AtRoot(n) == [version |-> n, root |-> TRUE]

Steps == {"idle", "create", "clone", "upload", "unpack", "agent", "verify", "diff",
          "patch", "apply", "archive", "collected", "token", "ls", "fetch", "commit",
          "push", "leased", "clean", "token2", "list", "post", "patchPr",
          "cleanup", "hung", "ended", "crashed"}

Active(r) == run[r].at \notin {"idle", "ended", "crashed"}

(* Steps that use nothing but the run's own sandbox, clone and processes.  *)
(* They commute with the steps of everybody else, so it is enough to look  *)
(* at the orders in which they are not interrupted.                        *)
Local(r) == run[r].at \in Steps \ {"idle", "ls", "fetch", "push", "leased", "list",
                                   "post", "patchPr", "hung", "ended", "crashed"}

MayMove(r) == \A p \in Run \ {r} : ~ Local(p)

Idle ==
  [at |-> "idle", tries |-> 1, work |-> 0, diff |-> 0, tree |-> AtRoot(0), how |-> "none",
   sha |-> None, back |-> FALSE, late |-> FALSE, found |-> 0, result |-> "none",
   alone |-> FALSE]

Init ==
  /\ run = [r \in Run |-> Idle]
  /\ tip = None /\ landed = {} /\ prs = <<>>

------------------------------------------------------------------------------
(* Steps of a process.                                                     *)
Goes(r, to) == run' = [run EXCEPT ![r] = [@ EXCEPT !.at = to, !.tries = 1]]

(* An exception: main() goes to its finally block.                         *)
Throws(r) == Goes(r, "cleanup")

(* Mutant: the count starts again instead of ending the retries. *)
RetryTransientGit_Restarts(r, end) ==
  IF end = "transient"
  THEN run' = [run EXCEPT ![r].tries = IF @ < GitTries THEN @ + 1 ELSE 1] ELSE Throws(r)

(* retryTransientGit: another attempt while there is one left and the      *)
(* failure looks transient.                                                *)
RetryTransientGit(r, end) ==
  IF end = "transient" /\ run[r].tries < GitTries
  THEN run' = [run EXCEPT ![r] = [@ EXCEPT !.tries = run[r].tries + 1]] ELSE Throws(r)

(* retryOnRateLimit: GitHub says to wait, not too long.                    *)
RetryOnRateLimit(r, end) ==
  IF end = "limited" /\ run[r].tries <= ApiRetries
  THEN run' = [run EXCEPT ![r] = [@ EXCEPT !.tries = run[r].tries + 1]] ELSE Throws(r)

(* How a request to the agent ends: answered, refused by the agent (an     *)
(* HTTP status), or not answered.                                          *)
Answers == {"ok", "http_error", "unreachable"}

(* How execAndWait ends: the command completed with status 0, it ended in  *)
(* another way, or its start or stream failed.                             *)
CommandEnds == {"zero", "other", "throws"}

(* execOrThrow of injectRepo                                               *)
ExecOrThrow(end) == end = "zero"

(* How a git command that talks to the remote ends, by its exit and what   *)
(* stderr looks like.                                                      *)
GitEnds == {"ok", "transient", "final"}

(* How a call of the GitHub API ends: rate limited with a wait that is     *)
(* short enough, any other error, or without an answer (which is not       *)
(* retried, as the call may have been carried out).                        *)
ApiEnds == {"ok", "limited", "error", "no answer"}

(* main() begins; it is alone while no other run of the task is about.     *)
Start(r) ==
  /\ run[r].at = "idle"
  /\ run' = [q \in Run |->
       IF q = r
       THEN [run[q] EXCEPT !.at = "create",
               !.alone = \A p \in Run \ {r} : ~ Active(p) /\ ~ run[p].late]
       ELSE [run[q] EXCEPT !.alone = FALSE]]
  /\ UNCHANGED remote

(* createSandbox; without one there is nothing to clean up.                *)
CreateSandbox(r) ==
  /\ run[r].at = "create"
  /\ \/ Goes(r, "clone")
     \/ run' = [run EXCEPT ![r] = [@ EXCEPT !.at = "ended", !.result = "failed"]]
  /\ UNCHANGED remote

(* cloneRepo; what fails leaves no directory.                              *)
CloneRepo(r) ==
  /\ run[r].at = "clone"
  /\ Goes(r, "upload") \/ Throws(r)
  /\ UNCHANGED remote

(* packDirectory into PUT /files, and the digests compared.                *)
UploadRepo(r) ==
  /\ run[r].at = "upload"
  /\ \E answer \in Answers, same \in BOOLEAN :
       IF answer = "ok" /\ same THEN Goes(r, "unpack") ELSE Throws(r)
  /\ UNCHANGED remote

(* The commands of injectRepo: mkdir, tar, rev-parse, rm.                  *)
UnpackRepo(r) ==
  /\ run[r].at = "unpack"
  /\ \E end \in CommandEnds, head \in BOOLEAN :
       IF ExecOrThrow(end) /\ head THEN Goes(r, "agent") ELSE Throws(r)
  /\ UNCHANGED remote

(* A command of the agent, or a process one left behind, changes the tree. *)
SandboxWrites(r) ==
  /\ run[r].work < MaxWrites
  /\ run[r].at \in {"agent", "verify", "diff", "patch", "apply", "archive"}
  /\ run' = [run EXCEPT ![r] = [@ EXCEPT !.work = run[r].work + 1]]
  /\ UNCHANGED remote

(* runAgentLoop and the upload of its transcript.                          *)
RunAgent(r) ==
  /\ run[r].at = "agent"
  /\ Goes(r, "verify") \/ Throws(r)
  /\ UNCHANGED remote

(* verifyInSandbox: a failed test is reported and goes on.                 *)
VerifyInSandbox(r) ==
  /\ run[r].at = "verify"
  /\ \E end \in CommandEnds : IF end = "throws" THEN Throws(r) ELSE Goes(r, "diff")
  /\ UNCHANGED remote

------------------------------------------------------------------------------
(* collectSandboxChanges.                                                  *)

(* GET /diff: an answer of the agent that is an error leads to the         *)
(* archive, a sandbox that cannot be reached is an exception.              *)
ReadDiff(r) ==
  /\ run[r].at = "diff"
  /\ \E answer \in Answers :
       CASE answer = "ok" -> run' = [run EXCEPT ![r] = [@ EXCEPT !.at = "patch", !.diff = run[r].work]]
         [] answer = "http_error" -> Goes(r, "archive")
         [] OTHER -> Throws(r)
  /\ UNCHANGED remote

(* materializePatch: inline, or read from a file of the sandbox; a patch   *)
(* of another length is given up.  One that was damaged otherwise is not   *)
(* noticed: it is the patch of some other change (n).                      *)
MaterializePatch(r) ==
  /\ run[r].at = "patch"
  /\ \/ \E n \in 0 .. MaxWrites :
          /\ n = 0 <=> run[r].diff = 0
          /\ run' = [run EXCEPT ![r] = [@ EXCEPT !.at = "apply", !.diff = n]]
     \/ Goes(r, "archive")
  /\ UNCHANGED remote

(* git apply refuses a patch without a hunk, so there is none to apply     *)
(* when nothing was changed.                                               *)
Applies(n) == n # 0

(* git apply, then writeWorktreeDiff: the patch is accepted if the diff of *)
(* the tree it gave has the digest of the patch that was received.  Both   *)
(* digests are taken here, so a damaged patch that applies gives a tree    *)
(* that agrees with it.                                                    *)
ApplyPatch(r) ==
  /\ run[r].at = "apply"
  /\ \/ /\ Applies(run[r].diff)
        /\ run' = [run EXCEPT ![r] = [@ EXCEPT !.at = "collected", !.how = "patch",
                                               !.tree = AtRoot(run[r].diff), !.diff = 0]]
     \/ Goes(r, "archive")
  /\ UNCHANGED remote

(* What GET /archive holds: the workspace, with the repository below it.   *)
ArchiveOf(r) == [version |-> run[r].work, root |-> FALSE]

(* tar unpacks the stream, and there is something in it.                   *)
Unpacked(answer, exit, entries) == answer = "ok" /\ exit = 0 /\ entries > 0

(* replaceWorktreeFromArchive: the clone, but for its .git, becomes what   *)
(* the archive holds.                                                      *)
ReplaceFromArchive(r) ==
  /\ run[r].at = "archive"
  /\ \E answer \in Answers, exit \in 0 .. 1, entries \in 0 .. 1 :
       IF Unpacked(answer, exit, entries)
       THEN run' = [run EXCEPT ![r] = [@ EXCEPT !.at = "collected", !.how = "archive",
                               !.tree = ArchiveOf(r), !.diff = 0]]
       ELSE Throws(r)
  /\ UNCHANGED remote

(* Without --pr the patch is copied and that is all.                       *)
KeepPatch(r) ==
  /\ run[r].at = "collected"
  /\ run' = [run EXCEPT ![r] = [@ EXCEPT !.at = "cleanup", !.result = "patch"]]
  /\ UNCHANGED remote

------------------------------------------------------------------------------
(* publishRun: the branch.                                                 *)
Publish(r) ==
  /\ run[r].at = "collected"
  /\ Goes(r, "token")
  /\ UNCHANGED remote

(* tokenFor: cached or signed now; the second one is taken after the push. *)
TokenFor(r) ==
  /\ \/ run[r].at = "token" /\ (Goes(r, "ls") \/ Throws(r))
     \/ run[r].at = "token2" /\ (Goes(r, "list") \/ Throws(r))
  /\ UNCHANGED remote

(* lsRemoteSha of inspectRemoteBranch.  (back: history, that a third party *)
(* has put this very commit back since.)                                   *)
LsRemoteSha(r) ==
  /\ run[r].at = "ls"
  /\ \E end \in GitEnds :
       IF end = "ok"
       THEN run' = [run EXCEPT ![r] = [@ EXCEPT !.at = IF tip = None THEN "commit" ELSE "fetch",
                               !.tries = 1, !.sha = tip, !.back = FALSE]]
       ELSE RetryTransientGit(r, end)
  /\ UNCHANGED remote

(* Mutant: the branch is taken over whoever committed last. *)
InspectRemoteBranch_AnyOwner(r) ==
  /\ run[r].at = "fetch"
  /\ \E end \in GitEnds :
       IF end = "ok" THEN tip # None /\ Goes(r, "commit") ELSE RetryTransientGit(r, end)
  /\ UNCHANGED remote

(* The committer of a commit is the bot.                                   *)
OurCommitter(c) == c \in Run

(* inspectRemoteBranch fetches the branch, which may have moved, for the   *)
(* committer of its tip; publishRun refuses one that is not the bot's.     *)
InspectRemoteBranch(r) ==
  /\ run[r].at = "fetch"
  /\ \E end \in GitEnds :
       CASE end # "ok" -> RetryTransientGit(r, end)
         [] end = "ok" /\ OurCommitter(tip) -> Goes(r, "commit")
         [] OTHER -> Throws(r)
  /\ UNCHANGED remote

(* add -A, and nothing_to_commit when the tree is the base commit's.       *)
Commit(r) ==
  /\ run[r].at = "commit"
  /\ \/ run[r].tree # AtRoot(0) /\ Goes(r, "push")
     \/ Throws(r)
  /\ UNCHANGED remote

(* The remote's answer to a push: --force-with-lease compares the tip with *)
(* what was inspected; a tip that is there already is up to date.          *)
LeaseHolds(r) == tip \in {run[r].sha, r}

Land(r) == tip' = r /\ landed' = landed \cup {r} /\ UNCHANGED prs

PushSucceeds(r) ==
  /\ run[r].at = "push" /\ LeaseHolds(r)
  /\ Land(r)
  /\ Goes(r, "clean")

(* isTransientPushFailure: another attempt, or the failure is final (a     *)
(* timeout after the transfer began, an exhausted count, or anything the   *)
(* server refuses for good).                                               *)
PushAgain(r, late) ==
  \/ /\ run[r].tries < PushTries
     /\ run' = [run EXCEPT ![r] = [@ EXCEPT !.tries = run[r].tries + 1, !.late = late]]
  \/ run' = [run EXCEPT ![r] = [@ EXCEPT !.at = "cleanup", !.tries = 1, !.late = late]]

(* The push landed but its answer was lost.                                *)
PushReplyLost(r) ==
  /\ run[r].at = "push" /\ LeaseHolds(r)
  /\ Land(r)
  /\ PushAgain(r, run[r].late)

(* The push failed: not at all, or the server goes on with it (late).      *)
PushFails(r) ==
  /\ run[r].at = "push"
  /\ \E late \in {run[r].late, TRUE} : PushAgain(r, late)
  /\ UNCHANGED remote

PushLeaseRejected(r) ==
  /\ run[r].at = "push" /\ ~ LeaseHolds(r)
  /\ Goes(r, "leased")
  /\ UNCHANGED remote

(* Mutant: a rejected lease is taken for an earlier success. *)
AlreadyPushed_Assumed(r) == TRUE

(* leaseRejectionMeansAlreadyPushed *)
AlreadyPushed(r) == tip = r

(* The lease was rejected: the branch is asked for its tip once more; an   *)
(* answer that does not come counts as no.                                 *)
RecheckLease(r) ==
  /\ run[r].at = "leased"
  /\ \E end \in GitEnds :
       CASE end # "ok" -> RetryTransientGit(r, end)
         [] end = "ok" /\ AlreadyPushed(r) -> Goes(r, "clean")
         [] OTHER -> Throws(r)
  /\ UNCHANGED remote

(* assertCleanWorktree *)
AssertCleanWorktree(r) ==
  /\ run[r].at = "clean"
  /\ Goes(r, "token2") \/ Throws(r)
  /\ UNCHANGED remote

------------------------------------------------------------------------------
(* findOrCreatePullRequest.                                                *)
OpenPrs == {n \in 1 .. Len(prs) : prs[n].open}

ListOpenByHead(r) ==
  /\ run[r].at = "list"
  /\ \E end \in ApiEnds :
       IF end # "ok" THEN RetryOnRateLimit(r, end)
       ELSE \/ OpenPrs = {} /\ Goes(r, "post")
            \/ \E n \in OpenPrs :
                 run' = [run EXCEPT ![r] = [@ EXCEPT !.at = "patchPr", !.tries = 1, !.found = n]]
  /\ UNCHANGED remote

(* buildPullRequestBody: which run, and where its tree comes from.         *)
Body(r) == [run |-> r, how |-> run[r].how]

Published(r, n) ==
  run' = [run EXCEPT ![r] = [@ EXCEPT !.at = "cleanup", !.tries = 1, !.found = n,
                                      !.result = "published"]]

(* POST /pulls; GitHub refuses a second one for the branch, and one for a  *)
(* branch that is gone.  The answer may be lost.                           *)
CreatePullRequest(r) ==
  /\ run[r].at = "post"
  /\ \E end \in ApiEnds :
       \/ /\ end \in {"ok", "no answer"}
          /\ OpenPrs = {} /\ tip # None
          /\ prs' = Append(prs, [open |-> TRUE, body |-> Body(r)])
          /\ IF end = "ok" THEN Published(r, Len(prs) + 1) ELSE Throws(r)
       \/ end # "ok" /\ RetryOnRateLimit(r, end) /\ UNCHANGED prs
  /\ UNCHANGED <<tip, landed>>

(* Mutant: an existing pull request keeps its text. *)
UpdatePullRequest_KeepsBody(r) ==
  /\ run[r].at = "patchPr"
  /\ \E end \in ApiEnds : IF end = "ok" THEN Published(r, run[r].found) ELSE RetryOnRateLimit(r, end)
  /\ UNCHANGED remote

(* PATCH of the one that was found: its text names the run.                *)
UpdatePullRequest(r) ==
  /\ run[r].at = "patchPr"
  /\ \E end \in ApiEnds :
       \/ /\ end \in {"ok", "no answer"}
          /\ prs' = [prs EXCEPT ![run[r].found].body = Body(r)]
          /\ IF end = "ok" THEN Published(r, run[r].found) ELSE Throws(r)
       \/ end # "ok" /\ RetryOnRateLimit(r, end) /\ UNCHANGED prs
  /\ UNCHANGED <<tip, landed>>

------------------------------------------------------------------------------
(* Of a process that is over remain its report and what git still does for *)
(* it.                                                                     *)
Over(r, at, result, late) ==
  LET told == result = "published"
  IN run' = [run EXCEPT ![r] =
       [Idle EXCEPT !.at = at, !.result = result, !.late = late,
          !.sha = IF late THEN run[r].sha ELSE None, !.back = late /\ run[r].back,
          !.how = IF told THEN run[r].how ELSE "none",
          !.found = IF told THEN run[r].found ELSE 0, !.alone = told /\ run[r].alone]]

(* The finally block: destroySandbox, whose failure is left to the         *)
(* sweeper, and removeRunDir.                                              *)
CleanUp(r) ==
  /\ run[r].at = "cleanup"
  /\ Over(r, "ended", IF run[r].result = "none" THEN "failed" ELSE run[r].result, run[r].late)
  /\ UNCHANGED remote

(* The process is killed; a git push it started lives on (detached).       *)
Crash(r) ==
  /\ Active(r)
  /\ \E late \in {run[r].late, run[r].at = "push" \/ run[r].late} :
       Over(r, "crashed", run[r].result, late)
  /\ UNCHANGED remote

(* A wait without a time limit never ends: for an image to be pulled, for  *)
(* the events of a command (no caller of execAndWait gives it a signal),   *)
(* or for the agent.                                                       *)
Hangs(r) ==
  /\ run[r].at \in {"create", "unpack", "agent", "verify"}
  /\ Goes(r, "hung")
  /\ UNCHANGED remote

(* What is still under way to the remote arrives, under the same lease.    *)
LateLands(r) ==
  /\ run[r].late
  /\ \/ LeaseHolds(r) /\ Land(r)
     \/ UNCHANGED remote
  /\ run' = [run EXCEPT ![r] = [@ EXCEPT !.late = FALSE]]

NotAlone == run' = [r \in Run |-> [run[r] EXCEPT !.alone = FALSE]]

(* The sha a run has read still counts: it is, or will be, its lease.      *)
Leases(r) == run[r].at \in {"fetch", "commit", "push", "leased"} \/ run[r].late

(* Somebody else pushes a commit of theirs, or moves the branch back to    *)
(* one it had before, ours included, as often as they like.                *)
TheyPush(c) ==
  /\ c # tip /\ c \in Theirs \cup landed
  /\ tip' = c /\ landed' = landed \cup {c} /\ UNCHANGED prs
  /\ run' = [r \in Run |-> [run[r] EXCEPT !.alone = FALSE,
                               !.back = @ \/ (Leases(r) /\ run[r].sha = c)]]

(* They delete the branch or close the pull request; GitHub closes it when *)
(* the branch goes.                                                        *)

Closed == [n \in DOMAIN prs |-> [prs[n] EXCEPT !.open = FALSE]]

TheyDelete ==
  /\ tip # None
  /\ tip' = None /\ prs' = Closed /\ UNCHANGED landed
  /\ NotAlone

TheyClose ==
  /\ OpenPrs # {}
  /\ prs' = Closed /\ UNCHANGED <<tip, landed>>
  /\ NotAlone

------------------------------------------------------------------------------
(* What the process of a run does by itself.                               *)
Proceed(r) ==
  \/ CreateSandbox(r) \/ CloneRepo(r) \/ UploadRepo(r) \/ UnpackRepo(r)
  \/ RunAgent(r) \/ VerifyInSandbox(r)
  \/ ReadDiff(r) \/ MaterializePatch(r) \/ ApplyPatch(r) \/ ReplaceFromArchive(r)
  \/ KeepPatch(r) \/ Publish(r) \/ TokenFor(r)
  \/ LsRemoteSha(r) \/ InspectRemoteBranch(r) \/ Commit(r)
  \/ PushSucceeds(r) \/ PushReplyLost(r) \/ PushFails(r) \/ PushLeaseRejected(r)
  \/ RecheckLease(r) \/ AssertCleanWorktree(r)
  \/ ListOpenByHead(r) \/ CreatePullRequest(r) \/ UpdatePullRequest(r)
  \/ CleanUp(r)

Next ==
  \/ \E r \in Run : /\ MayMove(r)
                    /\ \/ Start(r) \/ Proceed(r) \/ SandboxWrites(r)
                       \/ Hangs(r) \/ Crash(r) \/ LateLands(r)
  \/ /\ \A r \in Run : ~ Local(r)
     /\ \/ \E c \in Run \cup Theirs : TheyPush(c)
        \/ TheyDelete \/ TheyClose

Spec == Init /\ [][Next]_vars

(* Every awaited call returns, has a time limit or hangs (Hangs); nobody   *)
(* has to start a run, and faults and third parties are never owed.        *)
FairSpec == Spec /\ \A r \in Run : WF_vars(MayMove(r) /\ Proceed(r))

------------------------------------------------------------------------------
MaxTries(at) ==
  IF at \in {"ls", "fetch", "leased"} THEN GitTries
  ELSE IF at = "push" THEN PushTries
  ELSE IF at \in {"list", "post", "patchPr"} THEN ApiRetries + 1 ELSE 1

(* Types; no call is tried more often than its limit.                      *)
TypeOK ==
  /\ \A r \in Run :
       /\ run[r].at \in Steps /\ run[r].tries \in 1 .. MaxTries(run[r].at)
       /\ {run[r].late, run[r].alone, run[r].back} \subseteq BOOLEAN
       /\ run[r].work \in 0 .. MaxWrites /\ run[r].diff \in 0 .. MaxWrites
       /\ run[r].tree \in Tree /\ run[r].how \in {"none", "patch", "archive"}
       /\ run[r].sha \in Run \cup Theirs \cup {None}
       /\ run[r].found \in 0 .. Len(prs)
       /\ run[r].result \in {"none", "failed", "patch", "published"}
  /\ tip \in landed \cup {None} /\ landed \subseteq Run \cup Theirs
  /\ \A n \in 1 .. Len(prs) : prs[n] \in [open : BOOLEAN, body : [run : Run, how : {"patch", "archive"}]]

(* A push of ours replaces a commit of somebody else only if a third party *)
(* put that very commit back after the run had read it as the tip: neither *)
(* retries, lost answers, late arrivals nor other runs of the task lead to *)
(* it (pr.ts 600, push.ts 228).                                            *)
OverwriteNeedsReturn ==
  [][\A c \in Theirs, r \in Run :
       tip = c /\ tip' = r /\ ~ TheyPush(r) => run[r].back]_vars

(* A run reports success only if its commit really became the tip and its  *)
(* text the pull request's (push.ts 351, pr.ts 385).                       *)
SuccessIsReal ==
  \A r \in Run : run[r].result = "published" =>
    /\ r \in landed
    /\ run[r].found \in 1 .. Len(prs)

(* Runs repeat: one that was not disturbed leaves the branch at its commit *)
(* and one open pull request that describes it, whatever earlier runs left *)
(* behind when they died (agent-run.ts: the same branch is updated).       *)
LastRunWins ==
  \A r \in Run : run[r].result = "published" /\ run[r].alone =>
    /\ tip = r
    /\ {prs[n].body : n \in OpenPrs} = {Body(r)} /\ Cardinality(OpenPrs) = 1

(* A run that begins comes to an end, for every retry is counted, unless   *)
(* it waits for ever where a wait has no time limit.                       *)
RunsEnd == \A r \in Run : (run[r].at # "idle") ~> (run[r].at \in {"ended", "crashed", "hung"})

(* Where nothing was changed in the sandbox the run pushes nothing (push.ts *)
(* 165).                                                                    *)
NoOutputNoPush ==
  \A r \in landed \cap Run : Active(r) => run[r].work # 0
=============================================================================
