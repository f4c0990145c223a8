-------------------------- MODULE AgentExecProofs --------------------------
(***************************************************************************)
(* Proofs about the exec engine, for any number of executions and jobs.    *)
(***************************************************************************)
EXTENDS AgentExec, TLAPS

Active(j) == job[j] \in {"open", "spawned", "tracked", "exited"}

(* Whoever runs, ends or has a job open is in the gate. *)
GateHeld ==
  /\ \A e \in Exec : status[e] = "running" \/ finish[e] = "logging" => gate = e
  /\ \A j \in Job : Active(j) => gate = j

(* finalize decides the outcome, and nothing else does. *)
EndDecided == \A e \in Exec : finish[e] # "no" <=> status[e] \in Terminal

(* Without a running execution there is neither a command nor a timer.     *)
Quiet ==
  \A e \in Exec : status[e] # "running" => leader[e] # "alive" /\ timers[e] = NoTimers

(* What is seen, drained or killed with SIGKILL is a dead leader. *)
DeathSeen ==
  \A e \in Exec :
    /\ exitSeen[e] \/ timers[e].escalation = "fired" => leader[e] = "dead"
    /\ timers[e].drain => exitSeen[e]

Fresh ==
  \A e \in Exec :
    status[e] = "none" => leader[e] = "none" /\ reason[e] = "none" /\ answer[e] = "none"

(* A kill that was answered has left its mark. *)
Answered ==
  \A e \in Exec : answer[e] = "killing" =>
    IF status[e] = "running" THEN reason[e] # "none" ELSE status[e] \in {"killed", "timeout"}

(* In shutdown all that runs is awaited and being killed. *)
Closing ==
  /\ agent # "up" => \A e \in Exec : status[e] = "running" =>
                        e \in awaited /\ timers[e].escalation # "none"
  /\ agent \in {"closing", "gone"} => \A e \in Exec : leader[e] # "alive"

IInv ==
  /\ TypeOK /\ GateHeld /\ EndDecided /\ Quiet /\ DeathSeen /\ Fresh /\ Answered /\ Closing

------------------------------------------------------------------------------
LEMMA NoTimersHere ==
  /\ NoTimers \in TimerType
  /\ NoTimers.timeout = FALSE /\ NoTimers.drain = FALSE /\ NoTimers.escalation = "none"
PROOF BY DEF TimerType, NoTimers

(* What requestKill leaves of a set of executions. *)
Hit(es) == {e \in es : status[e] = "running" /\ finish[e] = "no"}
KillEffect(es, why) ==
  /\ reason' \in [Exec -> {"none", "killed", "timeout"}]
  /\ timers' \in [Exec -> TimerType]
  /\ \A e \in Exec : e \notin Hit(es) => reason'[e] = reason[e] /\ timers'[e] = timers[e]
  /\ \A e \in Hit(es) : reason'[e] = (IF reason[e] = "none" THEN why ELSE reason[e])
  /\ \A e \in Hit(es) :
       /\ timers'[e].escalation # "none"
       /\ timers'[e].escalation = "fired" <=> timers[e].escalation = "fired"
       /\ timers'[e].drain = timers[e].drain

LEMMA RequestKillEffect ==
  ASSUME TypeOK, NEW es \in SUBSET Exec, NEW why \in {"killed", "timeout"},
         RequestKill(es, why)
  PROVE  KillEffect(es, why)
PROOF
<1>1. \A e \in Exec : timers'[e] =
         IF e \notin Hit(es) THEN timers[e] ELSE
           [timers[e] EXCEPT !.timeout = FALSE,
                             !.escalation = IF @ = "none" THEN "armed" ELSE @]
  BY DEF RequestKill, Hit
<1>2. \A t \in TimerType :
        LET u == [t EXCEPT !.timeout = FALSE,
                           !.escalation = IF @ = "none" THEN "armed" ELSE @]
        IN /\ u \in TimerType /\ u.escalation # "none" /\ u.drain = t.drain
           /\ u.escalation = "fired" <=> t.escalation = "fired"
  BY DEF TimerType
<1>3. \A e \in Exec : timers[e] \in TimerType
  BY DEF TypeOK
<1>4. timers' \in [Exec -> TimerType]
  <2>1. \A e \in Exec : timers'[e] \in TimerType
    BY <1>1, <1>2, <1>3
  <2>2. timers' = [e \in Exec |-> timers'[e]]
    BY DEF RequestKill
  <2> QED
    BY <2>1, <2>2
<1>5. Hit(es) \subseteq Exec
  BY DEF Hit
<1>6. /\ reason' \in [Exec -> {"none", "killed", "timeout"}]
      /\ \A e \in Exec : e \notin Hit(es) => reason'[e] = reason[e]
      /\ \A e \in Hit(es) : reason'[e] = (IF reason[e] = "none" THEN why ELSE reason[e])
  BY DEF RequestKill, Hit, TypeOK
<1>7. \A e \in Hit(es) :
       /\ timers'[e].escalation # "none"
       /\ timers'[e].escalation = "fired" <=> timers[e].escalation = "fired"
       /\ timers'[e].drain = timers[e].drain
  <2> TAKE e \in Hit(es)
  <2>1. timers'[e] = [timers[e] EXCEPT !.timeout = FALSE,
                                       !.escalation = IF @ = "none" THEN "armed" ELSE @]
    BY <1>1, <1>5
  <2> QED
    BY <2>1, <1>2, <1>3, <1>5
<1> QED
  BY <1>1, <1>4, <1>6, <1>7 DEF KillEffect

(* What maybeComplete may leave: nothing, the end, or the drain window.    *)
Completes(e, exited) ==
  \/ UNCHANGED <<finish, status, timers>>
  \/ finish[e] = "no" /\ status[e] = "running" /\ exited /\ Finalize(e)
  \/ /\ finish[e] = "no" /\ status[e] = "running" /\ exited
     /\ UNCHANGED <<finish, status>>
     /\ timers' \in [Exec -> TimerType]
     /\ \A x \in Exec : x # e => timers'[x] = timers[x]
     /\ timers'[e].escalation = timers[e].escalation

LEMMA MaybeCompleteEffect ==
  ASSUME TypeOK, NEW e \in Exec, NEW exited \in BOOLEAN, NEW ended \in BOOLEAN,
         MaybeComplete(e, exited, ended)
  PROVE  Completes(e, exited)
PROOF
<1>1. timers \in [Exec -> TimerType]
  BY DEF TypeOK
<1>2. ASSUME timers' = [timers EXCEPT ![e].drain = TRUE]
      PROVE  /\ timers' \in [Exec -> TimerType]
             /\ \A x \in Exec : x # e => timers'[x] = timers[x]
             /\ timers'[e].escalation = timers[e].escalation
  BY <1>1, <1>2 DEF TimerType
<1>3. CASE finish[e] # "no" \/ status[e] # "running" \/ ~ exited
  BY <1>3 DEF MaybeComplete, Completes
<1>4. CASE finish[e] = "no" /\ status[e] = "running" /\ exited
  BY <1>2, <1>4 DEF MaybeComplete, Completes
<1> QED
  BY <1>3, <1>4

(* Every step of the engine preserves the invariant. *)
LEMMA StepInductive == IInv /\ [Next]_vars => IInv'
PROOF
<1> SUFFICES ASSUME IInv, [Next]_vars PROVE IInv'
  OBVIOUS
<1> USE DEF IInv
<1>1. ASSUME NEW e \in Exec, Start(e) PROVE IInv'
  <2>0. /\ timers' \in [Exec -> TimerType]
        /\ \A x \in Exec :
             /\ x # e => timers'[x] = timers[x]
             /\ timers'[x].escalation = timers[x].escalation
             /\ timers'[x].drain = timers[x].drain
    <3>1. CASE timers' = [timers EXCEPT ![e].timeout = TRUE]
      <4>1. \A t \in TimerType :
              LET u == [t EXCEPT !.timeout = TRUE]
              IN u \in TimerType /\ u.escalation = t.escalation /\ u.drain = t.drain
        BY DEF TimerType
      <4> QED
        BY <3>1, <4>1 DEF TypeOK
    <3>2. CASE UNCHANGED timers
      BY <3>2 DEF TypeOK
    <3> QED
      BY <1>1, <3>1, <3>2 DEF Start
  <2>1. TypeOK'
    BY <1>1, <2>0, NamesAssumption DEF TypeOK, Terminal, Start, jobVars,
       lifeVars
  <2>2. GateHeld'
    BY <1>1, <2>0, NamesAssumption DEF TypeOK, GateHeld, Active, Start,
       jobVars
  <2>3. EndDecided'
    BY <1>1, <2>0 DEF TypeOK, EndDecided, Terminal, Start
  <2>4. Quiet'
    BY <1>1, <2>0 DEF TypeOK, Quiet, Start
  <2>5. DeathSeen'
    BY <1>1, <2>0 DEF TypeOK, DeathSeen, Fresh, Start
  <2>6. Fresh'
    BY <1>1, <2>0 DEF TypeOK, Fresh, Start
  <2>7. Answered'
    BY <1>1, <2>0 DEF TypeOK, Answered, Start
  <2>8. Closing'
    BY <1>1, <2>0 DEF Closing, Start, lifeVars
  <2> QED
    BY <2>1, <2>2, <2>3, <2>4, <2>5, <2>6, <2>7, <2>8
<1>2. ASSUME NEW e \in Exec, Kill(e) PROVE IInv'
  <2>0. KillEffect({e}, "killed")
    BY <1>2, RequestKillEffect DEF Kill
  <2>1. TypeOK'
    BY <1>2, <2>0 DEF TypeOK, KillEffect, Kill, groupVars, jobVars,
       lifeVars
  <2>2. GateHeld'
    BY <1>2, <2>0 DEF GateHeld, Active, Kill, jobVars
  <2>3. EndDecided'
    BY <1>2, <2>0 DEF EndDecided, Kill
  <2>4. Quiet'
    BY <1>2, <2>0 DEF Quiet, KillEffect, Hit, Kill, groupVars
  <2>5. DeathSeen'
    BY <1>2, <2>0 DEF DeathSeen, KillEffect, Kill, groupVars
  <2>6. Fresh'
    BY <1>2, <2>0 DEF Fresh, KillEffect, Hit, Kill, groupVars
  <2>7. Answered'
    BY <1>2, <2>0 DEF TypeOK, Answered, EndDecided, Terminal, KillEffect,
       Hit, Kill
  <2>8. Closing'
    BY <1>2, <2>0 DEF Closing, KillEffect, Kill, groupVars, lifeVars
  <2> QED
    BY <2>1, <2>2, <2>3, <2>4, <2>5, <2>6, <2>7, <2>8
<1>3. ASSUME NEW e \in Exec, TimeoutFires(e) PROVE IInv'
  <2>0. KillEffect({e}, "timeout")
    BY <1>3, RequestKillEffect DEF TimeoutFires
  <2>1. TypeOK'
    BY <1>3, <2>0 DEF TypeOK, KillEffect, TimeoutFires, groupVars,
       jobVars, lifeVars
  <2>2. GateHeld'
    BY <1>3, <2>0 DEF GateHeld, Active, TimeoutFires, jobVars
  <2>3. EndDecided'
    BY <1>3, <2>0 DEF EndDecided, TimeoutFires
  <2>4. Quiet'
    BY <1>3, <2>0 DEF Quiet, KillEffect, Hit, TimeoutFires, groupVars
  <2>5. DeathSeen'
    BY <1>3, <2>0 DEF DeathSeen, KillEffect, TimeoutFires, groupVars
  <2>6. Fresh'
    BY <1>3, <2>0 DEF Fresh, KillEffect, Hit, TimeoutFires, groupVars
  <2>7. Answered'
    BY <1>3, <2>0 DEF Answered, KillEffect, TimeoutFires
  <2>8. Closing'
    BY <1>3, <2>0 DEF Closing, KillEffect, TimeoutFires, groupVars,
       lifeVars
  <2> QED
    BY <2>1, <2>2, <2>3, <2>4, <2>5, <2>6, <2>7, <2>8
<1>4. ASSUME NEW e \in Exec, EscalationFires(e) PROVE IInv'
  <2>0. /\ timers' \in [Exec -> TimerType]
        /\ \A x \in Exec :
             /\ x # e => timers'[x] = timers[x]
             /\ timers'[x].drain = timers[x].drain
        /\ timers'[e].escalation = "fired"
    BY <1>4 DEF EscalationFires, TypeOK, TimerType
  <2>1. TypeOK'
    BY <1>4, <2>0 DEF TypeOK, EscalationFires, jobVars, lifeVars
  <2>2. GateHeld'
    BY <1>4, <2>0 DEF GateHeld, Active, EscalationFires, jobVars
  <2>3. EndDecided'
    BY <1>4, <2>0 DEF EndDecided, EscalationFires
  <2>4. Quiet'
    BY <1>4, <2>0, NoTimersHere DEF Quiet, EscalationFires
  <2>5. DeathSeen'
    BY <1>4, <2>0 DEF TypeOK, DeathSeen, EscalationFires
  <2>6. Fresh'
    BY <1>4, <2>0, NoTimersHere DEF Fresh, Quiet, EscalationFires
  <2>7. Answered'
    BY <1>4, <2>0 DEF Answered, EscalationFires
  <2>8. Closing'
    BY <1>4, <2>0 DEF Closing, EscalationFires, lifeVars
  <2> QED
    BY <2>1, <2>2, <2>3, <2>4, <2>5, <2>6, <2>7, <2>8
<1>5. ASSUME NEW e \in Exec, ExitSeen(e) PROVE IInv'
  <2>0. Completes(e, TRUE)
    BY <1>5, MaybeCompleteEffect DEF ExitSeen, TypeOK
  <2>1. TypeOK'
    BY <1>5, <2>0, NoTimersHere DEF TypeOK, Terminal, Completes, Finalize,
       ExitSeen, groupVars, jobVars, lifeVars
  <2>2. GateHeld'
    BY <1>5, <2>0 DEF TypeOK, GateHeld, Active, Completes, Finalize,
       ExitSeen, jobVars
  <2>3. EndDecided'
    BY <1>5, <2>0 DEF TypeOK, EndDecided, Terminal, Completes, Finalize
  <2>4. Quiet'
    BY <1>5, <2>0 DEF TypeOK, Quiet, Completes, Finalize, ExitSeen,
       groupVars
  <2>5. DeathSeen'
    BY <1>5, <2>0 DEF TypeOK, DeathSeen, Completes, Finalize, ExitSeen,
       groupVars
  <2>6. Fresh'
    BY <1>5, <2>0 DEF TypeOK, Fresh, Completes, Finalize, ExitSeen,
       groupVars
  <2>7. Answered'
    BY <1>5, <2>0 DEF TypeOK, Answered, Completes, Finalize, ExitSeen
  <2>8. Closing'
    BY <1>5, <2>0 DEF TypeOK, Closing, Completes, Finalize, ExitSeen,
       groupVars, lifeVars
  <2> QED
    BY <2>1, <2>2, <2>3, <2>4, <2>5, <2>6, <2>7, <2>8
<1>6. ASSUME NEW e \in Exec, PipesEnd(e) PROVE IInv'
  <2>0. Completes(e, exitSeen[e])
    BY <1>6, MaybeCompleteEffect DEF PipesEnd, TypeOK
  <2>1. TypeOK'
    BY <1>6, <2>0, NoTimersHere DEF TypeOK, Terminal, Completes, Finalize,
       PipesEnd, groupVars, jobVars, lifeVars
  <2>2. GateHeld'
    BY <1>6, <2>0 DEF TypeOK, GateHeld, Active, Completes, Finalize,
       PipesEnd, jobVars
  <2>3. EndDecided'
    BY <1>6, <2>0 DEF TypeOK, EndDecided, Terminal, Completes, Finalize
  <2>4. Quiet'
    BY <1>6, <2>0 DEF TypeOK, Quiet, DeathSeen, Completes, Finalize,
       PipesEnd, groupVars
  <2>5. DeathSeen'
    BY <1>6, <2>0 DEF TypeOK, DeathSeen, Completes, Finalize, PipesEnd,
       groupVars
  <2>6. Fresh'
    BY <1>6, <2>0 DEF TypeOK, Fresh, Completes, Finalize, PipesEnd,
       groupVars
  <2>7. Answered'
    BY <1>6, <2>0 DEF TypeOK, Answered, Completes, Finalize, PipesEnd
  <2>8. Closing'
    BY <1>6, <2>0 DEF TypeOK, Closing, Completes, Finalize, PipesEnd,
       groupVars, lifeVars
  <2> QED
    BY <2>1, <2>2, <2>3, <2>4, <2>5, <2>6, <2>7, <2>8
<1>7. ASSUME NEW e \in Exec, DrainFires(e) PROVE IInv'
  <2>1. TypeOK'
    BY <1>7, NoTimersHere DEF TypeOK, Terminal, Finalize, DrainFires,
       groupVars, jobVars, lifeVars
  <2>2. GateHeld'
    BY <1>7, NoTimersHere DEF GateHeld, Quiet, Active, Finalize,
       DrainFires, jobVars
  <2>3. EndDecided'
    BY <1>7 DEF TypeOK, EndDecided, Terminal, Finalize, DrainFires
  <2>4. Quiet'
    BY <1>7 DEF TypeOK, Quiet, DeathSeen, Finalize, DrainFires, groupVars
  <2>5. DeathSeen'
    BY <1>7 DEF DeathSeen, Finalize, DrainFires, groupVars
  <2>6. Fresh'
    BY <1>7 DEF Fresh, Finalize, DrainFires, groupVars
  <2>7. Answered'
    BY <1>7, NoTimersHere DEF TypeOK, Answered, Quiet, Finalize,
       DrainFires
  <2>8. Closing'
    BY <1>7 DEF TypeOK, Closing, Finalize, DrainFires, groupVars, lifeVars
  <2> QED
    BY <2>1, <2>2, <2>3, <2>4, <2>5, <2>6, <2>7, <2>8
<1>8. ASSUME NEW e \in Exec, Announce(e) PROVE IInv'
  <2>1. TypeOK'
    BY <1>8 DEF TypeOK, Release, Announce, groupVars, jobVars, lifeVars
  <2>2. GateHeld'
    BY <1>8, NamesAssumption DEF TypeOK, GateHeld, Active, EndDecided,
       Terminal, Announce, jobVars
  <2>3. EndDecided'
    BY <1>8 DEF EndDecided, Announce
  <2>4. Quiet'
    BY <1>8 DEF Quiet, Announce, groupVars
  <2>5. DeathSeen'
    BY <1>8 DEF DeathSeen, Announce, groupVars
  <2>6. Fresh'
    BY <1>8 DEF Fresh, Announce, groupVars
  <2>7. Answered'
    BY <1>8 DEF Answered, Announce
  <2>8. Closing'
    BY <1>8 DEF Closing, Announce, groupVars, lifeVars
  <2> QED
    BY <2>1, <2>2, <2>3, <2>4, <2>5, <2>6, <2>7, <2>8
<1>9. ASSUME NEW e \in Exec, LeaderExits(e) PROVE IInv'
  <2>1. TypeOK'
    BY <1>9 DEF TypeOK, LeaderExits, recordVars, jobVars, lifeVars
  <2>2. GateHeld'
    BY <1>9 DEF GateHeld, Active, LeaderExits, recordVars, jobVars
  <2>3. EndDecided'
    BY <1>9 DEF EndDecided, LeaderExits, recordVars
  <2>4. Quiet'
    BY <1>9 DEF Quiet, LeaderExits, recordVars
  <2>5. DeathSeen'
    BY <1>9 DEF DeathSeen, LeaderExits, recordVars
  <2>6. Fresh'
    BY <1>9 DEF Fresh, LeaderExits, recordVars
  <2>7. Answered'
    BY <1>9 DEF Answered, LeaderExits, recordVars
  <2>8. Closing'
    BY <1>9 DEF Closing, LeaderExits, recordVars, lifeVars
  <2> QED
    BY <2>1, <2>2, <2>3, <2>4, <2>5, <2>6, <2>7, <2>8
<1>10. ASSUME NEW e \in Exec, Forks(e) PROVE IInv'
  <2>1. TypeOK'
    BY <1>10 DEF TypeOK, Forks, recordVars, jobVars, lifeVars
  <2>2. GateHeld'
    BY <1>10 DEF GateHeld, Active, Forks, recordVars, jobVars
  <2>3. EndDecided'
    BY <1>10 DEF EndDecided, Forks, recordVars
  <2>4. Quiet'
    BY <1>10 DEF Quiet, Forks, recordVars
  <2>5. DeathSeen'
    BY <1>10 DEF DeathSeen, Forks, recordVars
  <2>6. Fresh'
    BY <1>10 DEF Fresh, Forks, recordVars
  <2>7. Answered'
    BY <1>10 DEF Answered, Forks, recordVars
  <2>8. Closing'
    BY <1>10 DEF Closing, Forks, recordVars, lifeVars
  <2> QED
    BY <2>1, <2>2, <2>3, <2>4, <2>5, <2>6, <2>7, <2>8
<1>11. ASSUME NEW e \in Exec, BehindExits(e) PROVE IInv'
  <2>1. TypeOK'
    BY <1>11 DEF TypeOK, BehindExits, recordVars, jobVars, lifeVars
  <2>2. GateHeld'
    BY <1>11 DEF GateHeld, Active, BehindExits, recordVars, jobVars
  <2>3. EndDecided'
    BY <1>11 DEF EndDecided, BehindExits, recordVars
  <2>4. Quiet'
    BY <1>11 DEF Quiet, BehindExits, recordVars
  <2>5. DeathSeen'
    BY <1>11 DEF DeathSeen, BehindExits, recordVars
  <2>6. Fresh'
    BY <1>11 DEF Fresh, BehindExits, recordVars
  <2>7. Answered'
    BY <1>11 DEF Answered, BehindExits, recordVars
  <2>8. Closing'
    BY <1>11 DEF Closing, BehindExits, recordVars, lifeVars
  <2> QED
    BY <2>1, <2>2, <2>3, <2>4, <2>5, <2>6, <2>7, <2>8
<1>12. ASSUME NEW j \in Job, JobBegin(j) PROVE IInv'
  <2>1. TypeOK'
    BY <1>12 DEF TypeOK, JobBegin, recordVars, groupVars, lifeVars
  <2>2. GateHeld'
    BY <1>12, NamesAssumption DEF GateHeld, Active, JobBegin, recordVars
  <2>3. EndDecided'
    BY <1>12 DEF EndDecided, JobBegin, recordVars
  <2>4. Quiet'
    BY <1>12 DEF Quiet, JobBegin, recordVars, groupVars
  <2>5. DeathSeen'
    BY <1>12 DEF DeathSeen, JobBegin, recordVars, groupVars
  <2>6. Fresh'
    BY <1>12 DEF Fresh, JobBegin, recordVars, groupVars
  <2>7. Answered'
    BY <1>12 DEF Answered, JobBegin, recordVars
  <2>8. Closing'
    BY <1>12 DEF Closing, JobBegin, lifeVars
  <2> QED
    BY <2>1, <2>2, <2>3, <2>4, <2>5, <2>6, <2>7, <2>8
<1>13. ASSUME NEW j \in Job, JobSpawn(j) PROVE IInv'
  <2>1. TypeOK'
    BY <1>13 DEF TypeOK, JobSpawn, recordVars, groupVars, lifeVars
  <2>2. GateHeld'
    BY <1>13 DEF GateHeld, Active, JobSpawn, recordVars
  <2>3. EndDecided'
    BY <1>13 DEF EndDecided, JobSpawn, recordVars
  <2>4. Quiet'
    BY <1>13 DEF Quiet, JobSpawn, recordVars, groupVars
  <2>5. DeathSeen'
    BY <1>13 DEF DeathSeen, JobSpawn, recordVars, groupVars
  <2>6. Fresh'
    BY <1>13 DEF Fresh, JobSpawn, recordVars, groupVars
  <2>7. Answered'
    BY <1>13 DEF Answered, JobSpawn, recordVars
  <2>8. Closing'
    BY <1>13 DEF Closing, JobSpawn, recordVars, groupVars, lifeVars
  <2> QED
    BY <2>1, <2>2, <2>3, <2>4, <2>5, <2>6, <2>7, <2>8
<1>14. ASSUME NEW j \in Job, JobTrack(j) PROVE IInv'
  <2>1. TypeOK'
    BY <1>14 DEF TypeOK, JobTrack, recordVars, groupVars, lifeVars
  <2>2. GateHeld'
    BY <1>14 DEF GateHeld, Active, JobTrack, recordVars
  <2>3. EndDecided'
    BY <1>14 DEF EndDecided, JobTrack, recordVars
  <2>4. Quiet'
    BY <1>14 DEF Quiet, JobTrack, recordVars, groupVars
  <2>5. DeathSeen'
    BY <1>14 DEF DeathSeen, JobTrack, recordVars, groupVars
  <2>6. Fresh'
    BY <1>14 DEF Fresh, JobTrack, recordVars, groupVars
  <2>7. Answered'
    BY <1>14 DEF Answered, JobTrack, recordVars
  <2>8. Closing'
    BY <1>14 DEF Closing, JobTrack, recordVars, groupVars, lifeVars
  <2> QED
    BY <2>1, <2>2, <2>3, <2>4, <2>5, <2>6, <2>7, <2>8
<1>15. ASSUME NEW j \in Job, JobExits(j) PROVE IInv'
  <2>1. TypeOK'
    BY <1>15 DEF TypeOK, JobExits, recordVars, groupVars, lifeVars
  <2>2. GateHeld'
    BY <1>15 DEF GateHeld, Active, JobExits, recordVars
  <2>3. EndDecided'
    BY <1>15 DEF EndDecided, JobExits, recordVars
  <2>4. Quiet'
    BY <1>15 DEF Quiet, JobExits, recordVars, groupVars
  <2>5. DeathSeen'
    BY <1>15 DEF DeathSeen, JobExits, recordVars, groupVars
  <2>6. Fresh'
    BY <1>15 DEF Fresh, JobExits, recordVars, groupVars
  <2>7. Answered'
    BY <1>15 DEF Answered, JobExits, recordVars
  <2>8. Closing'
    BY <1>15 DEF Closing, JobExits, recordVars, groupVars, lifeVars
  <2> QED
    BY <2>1, <2>2, <2>3, <2>4, <2>5, <2>6, <2>7, <2>8
<1>16. ASSUME NEW j \in Job, JobContinues(j) PROVE IInv'
  <2>1. TypeOK'
    BY <1>16 DEF TypeOK, JobContinues, recordVars, groupVars, lifeVars
  <2>2. GateHeld'
    BY <1>16 DEF GateHeld, Active, JobContinues, recordVars
  <2>3. EndDecided'
    BY <1>16 DEF EndDecided, JobContinues, recordVars
  <2>4. Quiet'
    BY <1>16 DEF Quiet, JobContinues, recordVars, groupVars
  <2>5. DeathSeen'
    BY <1>16 DEF DeathSeen, JobContinues, recordVars, groupVars
  <2>6. Fresh'
    BY <1>16 DEF Fresh, JobContinues, recordVars, groupVars
  <2>7. Answered'
    BY <1>16 DEF Answered, JobContinues, recordVars
  <2>8. Closing'
    BY <1>16 DEF Closing, JobContinues, recordVars, groupVars, lifeVars
  <2> QED
    BY <2>1, <2>2, <2>3, <2>4, <2>5, <2>6, <2>7, <2>8
<1>17. ASSUME NEW j \in Job, JobFinish(j) PROVE IInv'
  <2>1. TypeOK'
    BY <1>17 DEF TypeOK, Release, JobFinish, recordVars, groupVars,
       lifeVars
  <2>2. GateHeld'
    BY <1>17, NamesAssumption DEF TypeOK, GateHeld, Active, JobFinish,
       recordVars
  <2>3. EndDecided'
    BY <1>17 DEF EndDecided, JobFinish, recordVars
  <2>4. Quiet'
    BY <1>17 DEF Quiet, JobFinish, recordVars, groupVars
  <2>5. DeathSeen'
    BY <1>17 DEF DeathSeen, JobFinish, recordVars, groupVars
  <2>6. Fresh'
    BY <1>17 DEF Fresh, JobFinish, recordVars, groupVars
  <2>7. Answered'
    BY <1>17 DEF Answered, JobFinish, recordVars
  <2>8. Closing'
    BY <1>17 DEF Closing, JobFinish, recordVars, groupVars, lifeVars
  <2> QED
    BY <2>1, <2>2, <2>3, <2>4, <2>5, <2>6, <2>7, <2>8
<1>18. ASSUME NEW j \in Job, JobAborts(j) PROVE IInv'
  <2>1. TypeOK'
    BY <1>18 DEF TypeOK, KillTracked, JobAborts, recordVars, groupVars,
       lifeVars
  <2>2. GateHeld'
    BY <1>18 DEF GateHeld, Active, KillTracked, JobAborts, recordVars
  <2>3. EndDecided'
    BY <1>18 DEF EndDecided, JobAborts, recordVars
  <2>4. Quiet'
    BY <1>18 DEF Quiet, JobAborts, recordVars, groupVars
  <2>5. DeathSeen'
    BY <1>18 DEF DeathSeen, JobAborts, recordVars, groupVars
  <2>6. Fresh'
    BY <1>18 DEF Fresh, JobAborts, recordVars, groupVars
  <2>7. Answered'
    BY <1>18 DEF Answered, JobAborts, recordVars
  <2>8. Closing'
    BY <1>18 DEF Closing, JobAborts, recordVars, groupVars, lifeVars
  <2> QED
    BY <2>1, <2>2, <2>3, <2>4, <2>5, <2>6, <2>7, <2>8
<1>19. ASSUME Shutdown PROVE IInv'
  <2>0. KillEffect({x \in Exec : status[x] = "running"}, "killed")
    BY <1>19, RequestKillEffect DEF Shutdown
  <2>1. TypeOK'
    BY <1>19, <2>0 DEF TypeOK, KillTracked, KillEffect, Shutdown,
       groupVars
  <2>2. GateHeld'
    BY <1>19, <2>0 DEF GateHeld, Active, KillTracked, Shutdown
  <2>3. EndDecided'
    BY <1>19, <2>0 DEF EndDecided, Shutdown
  <2>4. Quiet'
    BY <1>19, <2>0 DEF Quiet, KillEffect, Hit, Shutdown, groupVars
  <2>5. DeathSeen'
    BY <1>19, <2>0 DEF DeathSeen, KillEffect, Shutdown, groupVars
  <2>6. Fresh'
    BY <1>19, <2>0 DEF Fresh, KillEffect, Hit, Shutdown, groupVars
  <2>7. Answered'
    BY <1>19, <2>0 DEF Answered, KillEffect, Shutdown
  <2>8. Closing'
    BY <1>19, <2>0 DEF Closing, Quiet, EndDecided, Terminal, KillEffect,
       Hit, Shutdown, groupVars
  <2> QED
    BY <2>1, <2>2, <2>3, <2>4, <2>5, <2>6, <2>7, <2>8
<1>20. ASSUME ShutdownWaited PROVE IInv'
  <2>1. TypeOK'
    BY <1>20 DEF TypeOK, ShutdownWaited, recordVars, groupVars, jobVars
  <2>2. GateHeld'
    BY <1>20 DEF GateHeld, Active, ShutdownWaited, recordVars, jobVars
  <2>3. EndDecided'
    BY <1>20 DEF EndDecided, ShutdownWaited, recordVars
  <2>4. Quiet'
    BY <1>20 DEF Quiet, ShutdownWaited, recordVars, groupVars
  <2>5. DeathSeen'
    BY <1>20 DEF DeathSeen, ShutdownWaited, recordVars, groupVars
  <2>6. Fresh'
    BY <1>20 DEF Fresh, ShutdownWaited, recordVars, groupVars
  <2>7. Answered'
    BY <1>20 DEF Answered, ShutdownWaited, recordVars
  <2>8. Closing'
    <3>1. ASSUME NEW e \in awaited, status[e] = "running", agent = "draining",
                 timers[e].escalation # "armed"
          PROVE  leader[e] # "alive"
      <4>1. timers[e].escalation \in {"none", "armed", "fired"}
        BY DEF TypeOK, TimerType
      <4> QED
        BY <3>1, <4>1 DEF TypeOK, Closing, DeathSeen
    <3>2. ASSUME NEW e \in awaited, finish[e] = "done"
          PROVE  status[e] # "running"
      BY <3>2 DEF TypeOK, EndDecided, Terminal
    <3> QED
      BY <1>20, <3>1, <3>2 DEF ShutdownWaited, TypeOK, Closing, Quiet, recordVars, groupVars
  <2> QED
    BY <2>1, <2>2, <2>3, <2>4, <2>5, <2>6, <2>7, <2>8
<1>21. ASSUME Exit PROVE IInv'
  <2>1. TypeOK'
    BY <1>21 DEF TypeOK, KillTracked, Exit, recordVars, groupVars
  <2>2. GateHeld'
    BY <1>21 DEF GateHeld, Active, KillTracked, Exit, recordVars
  <2>3. EndDecided'
    BY <1>21 DEF EndDecided, Exit, recordVars
  <2>4. Quiet'
    BY <1>21 DEF Quiet, Exit, recordVars, groupVars
  <2>5. DeathSeen'
    BY <1>21 DEF DeathSeen, Exit, recordVars, groupVars
  <2>6. Fresh'
    BY <1>21 DEF Fresh, Exit, recordVars, groupVars
  <2>7. Answered'
    BY <1>21 DEF Answered, Exit, recordVars
  <2>8. Closing'
    BY <1>21 DEF Closing, Exit, recordVars, groupVars
  <2> QED
    BY <2>1, <2>2, <2>3, <2>4, <2>5, <2>6, <2>7, <2>8
<1>22. CASE UNCHANGED vars
  BY <1>22 DEF vars, recordVars, groupVars, jobVars, lifeVars, TypeOK, GateHeld, Active,
     EndDecided, Quiet, DeathSeen, Fresh, Answered, Closing
<1> QED
  BY <1>1, <1>2, <1>3, <1>4, <1>5, <1>6, <1>7, <1>8, <1>9, <1>10, <1>11,
     <1>12, <1>13, <1>14, <1>15, <1>16, <1>17, <1>18, <1>19, <1>20, <1>21, <1>22 DEF Next, LoopStep, GroupStep, JobStep

------------------------------------------------------------------------------
LEMMA InitInductive == Init => IInv
PROOF
  BY NamesAssumption DEF Init, IInv, TypeOK, TimerType, NoTimers, Terminal, GateHeld, Active,
     EndDecided, Quiet, DeathSeen, Fresh, Answered, Closing

THEOREM Inductive == Spec => []IInv
PROOF
<1>1. Init => IInv
  BY InitInductive
<1>2. IInv /\ [Next]_vars => IInv'
  BY StepInductive
<1> QED
  BY <1>1, <1>2, PTL DEF Spec

(* All variables have their types. *)
THEOREM TypeCorrect == Spec => []TypeOK
PROOF
<1>1. IInv => TypeOK
  BY DEF IInv
<1> QED
  BY <1>1, Inductive, PTL

(* However many callers start, kill and shut down: what is alive is what   *)
(* the gate names, so never two commands at a time.                        *)
THEOREM NeverTwoAtATime == Spec => []OneAtATime
PROOF
<1>1. IInv => OneAtATime
  BY DEF IInv, OneAtATime, TypeOK, GateHeld, Active, Quiet
<1> QED
  BY <1>1, Inductive, PTL

(* No terminal event before the death of the command, and no timer after.  *)
THEOREM EndsAreReal == Spec => []EndIsReal
PROOF
<1>1. IInv => EndIsReal
  BY DEF IInv, EndIsReal, TypeOK, EndDecided, Quiet, Terminal
<1> QED
  BY <1>1, Inductive, PTL

(* A kill answered "killing" never ends as completed. *)
THEOREM KillAnswersKept == Spec => []KillAnswerKept
PROOF
<1>1. IInv => KillAnswerKept
  BY DEF IInv, KillAnswerKept, Answered
<1> QED
  BY <1>1, Inductive, PTL

(* When the agent has exited nothing it started is alive. *)
THEOREM NothingOutlivesAgent == Spec => []NoOrphan
PROOF
<1>1. IInv => NoOrphan
  BY DEF IInv, NoOrphan, Closing
<1> QED
  BY <1>1, Inductive, PTL

(* Only the first reason to end an execution counts, and an outcome stays. *)
THEOREM FirstReasonStays == Spec => FirstReasonCounts
PROOF
<1> DEFINE Stays == \A e \in Exec : /\ reason[e] # "none" => reason'[e] = reason[e]
                                    /\ status[e] \in Terminal => status'[e] = status[e]
<1>1. ASSUME IInv, [Next]_vars PROVE Stays
  <2> USE <1>1 DEF IInv
  <2>1. ASSUME NEW es \in SUBSET Exec, NEW why \in {"killed", "timeout"},
               RequestKill(es, why), UNCHANGED status
        PROVE  Stays
    BY <2>1, RequestKillEffect DEF KillEffect, Hit, TypeOK
  <2>2. ASSUME NEW e \in Exec, Finalize(e), status[e] = "running", UNCHANGED reason
        PROVE  Stays
    BY <2>2 DEF Finalize, TypeOK, Terminal
  <2>3. ASSUME NEW e \in Exec, Start(e) PROVE Stays
    BY <2>3 DEF Start, TypeOK, Terminal
  <2>4. ASSUME NEW e \in Exec, Kill(e) PROVE Stays
    BY <2>1, <2>4 DEF Kill
  <2>5. ASSUME NEW e \in Exec, TimeoutFires(e) PROVE Stays
    BY <2>1, <2>5 DEF TimeoutFires
  <2>6. ASSUME NEW e \in Exec, ExitSeen(e) PROVE Stays
    BY <2>2, <2>6 DEF ExitSeen, MaybeComplete
  <2>7. ASSUME NEW e \in Exec, PipesEnd(e) PROVE Stays
    BY <2>2, <2>7 DEF PipesEnd, MaybeComplete
  <2>8. ASSUME NEW e \in Exec, DrainFires(e) PROVE Stays
    BY <2>2, <2>8, NoTimersHere DEF DrainFires, Quiet
  <2>9. CASE Shutdown
    BY <2>1, <2>9 DEF Shutdown
  <2>10. CASE UNCHANGED <<status, reason>>
    BY <2>10
  <2> QED
    BY <1>1, <2>3, <2>4, <2>5, <2>6, <2>7, <2>8, <2>9, <2>10
    DEF Next, LoopStep, GroupStep, JobStep, EscalationFires, Announce, LeaderExits, Forks,
        BehindExits, JobBegin, JobSpawn, JobTrack, JobExits, JobContinues, JobFinish,
        JobAborts, ShutdownWaited, Exit, vars, recordVars
<1>2. IInv /\ [Next]_vars => [Stays]_vars
  BY <1>1
<1> QED
  BY <1>2, Inductive, PTL DEF Spec, FirstReasonCounts

------------------------------------------------------------------------------
(* The steps of the abstract agent that the engine's steps map to.         *)

(* A kill of what runs decides its outcome; a second one is a stutter.     *)
LEMMA KillMaps ==
  ASSUME IInv, NEW es \in SUBSET Exec, NEW why \in {"killed", "timeout"},
         RequestKill(es, why), UNCHANGED <<gate, status, finish>>,
         agent # "gone", agent' # "gone"
  PROVE  View!Next \/ UNCHANGED View!vars
PROOF
<1> USE NamesAssumption DEF IInv
<1>0. KillEffect(es, why)
  BY RequestKillEffect
<1>1. CASE \E e \in es : status[e] = "running" /\ finish[e] = "no" /\ reason[e] = "none"
  <2>1. PICK e \in es : status[e] = "running" /\ finish[e] = "no" /\ reason[e] = "none"
    BY <1>1
  <2>2. \A x \in Exec : x # e => status[x] # "running"
    BY <2>1 DEF TypeOK, GateHeld
  <2>3. reason' = [reason EXCEPT ![e] = why]
    BY <1>0, <2>1, <2>2 DEF KillEffect, Hit, TypeOK
  <2>4. View!Decide(e)
    <3>1. PhaseSeen[e] = "running" /\ PhaseSeen' = [PhaseSeen EXCEPT ![e] = "dying"]
      BY <2>1, <2>3 DEF PhaseSeen, TypeOK
    <3>2. OutSeen' = [OutSeen EXCEPT ![e] = why]
      BY <2>1, <2>3 DEF OutSeen, TypeOK, Terminal
    <3>3. SlotSeen' = SlotSeen
      BY DEF SlotSeen
    <3> QED
      BY <3>1, <3>2, <3>3 DEF View!Decide
  <2> QED
    BY <2>4 DEF View!Next
<1>2. CASE ~ \E e \in es : status[e] = "running" /\ finish[e] = "no" /\ reason[e] = "none"
  <2>1. \A x \in Exec : reason'[x] = reason[x]
    BY <1>0, <1>2 DEF KillEffect, Hit, TypeOK
  <2> QED
    BY <2>1 DEF View!vars, PhaseSeen, OutSeen, SlotSeen
<1> QED
  BY <1>1, <1>2

(* The synchronous part of finalize decides the outcome, unless a kill did. *)
LEMMA FinalizeMaps ==
  ASSUME IInv, NEW e \in Exec, Finalize(e), status[e] = "running",
         UNCHANGED <<gate, reason, agent>>, agent # "gone"
  PROVE  View!Next \/ UNCHANGED View!vars
PROOF
<1> USE DEF IInv
<1>1. /\ finish[e] = "no"
      /\ status' = [status EXCEPT ![e] = IF reason[e] = "none" THEN "completed" ELSE reason[e]]
      /\ finish' = [finish EXCEPT ![e] = "logging"]
      /\ reason[e] \in {"none", "killed", "timeout"}
  BY DEF Finalize, TypeOK, EndDecided, Terminal
<1>2. CASE reason[e] = "none"
  <2>1. View!Decide(e)
    <3>1. PhaseSeen[e] = "running" /\ PhaseSeen' = [PhaseSeen EXCEPT ![e] = "dying"]
      BY <1>1, <1>2 DEF PhaseSeen, TypeOK
    <3>2. OutSeen' = [OutSeen EXCEPT ![e] = "completed"]
      BY <1>1, <1>2 DEF OutSeen, TypeOK, Terminal
    <3>3. SlotSeen' = SlotSeen
      BY DEF SlotSeen
    <3> QED
      BY <3>1, <3>2, <3>3 DEF View!Decide
  <2> QED
    BY <2>1 DEF View!Next
<1>3. CASE reason[e] # "none"
  <2>1. UNCHANGED PhaseSeen
    BY <1>1, <1>3 DEF PhaseSeen, TypeOK, Terminal
  <2>2. UNCHANGED OutSeen
    BY <1>1, <1>3 DEF OutSeen, TypeOK, Terminal
  <2> QED
    BY <2>1, <2>2 DEF View!vars, SlotSeen
<1> QED
  BY <1>2, <1>3

(* The exec engine implements the agent the control plane relies on.       *)
THEOREM ImplementsView == Spec => ViewSpec
PROOF
<1>1. Init => View!Init
  BY NamesAssumption DEF Init, View!Init, SlotSeen, PhaseSeen, OutSeen, Terminal
<1>2. ASSUME IInv, [Next]_vars PROVE View!Next \/ UNCHANGED View!vars
  <2> USE <1>2, NamesAssumption DEF IInv, Terminal
  <2> DEFINE Maps == View!Next \/ UNCHANGED View!vars
  <2>1. ASSUME NEW e \in Exec, Start(e) PROVE Maps
    <3>1. View!Start(e)
      <4>1. SlotSeen = "free" /\ SlotSeen' = e /\ PhaseSeen[e] = "unused"
        BY <2>1 DEF Start, SlotSeen, PhaseSeen, lifeVars
      <4>2. finish[e] = "no" /\ reason[e] = "none"
        BY <2>1 DEF Start, TypeOK, EndDecided, Fresh
      <4>3. CASE status' = [status EXCEPT ![e] = "running"] /\ UNCHANGED finish
        <5>1. PhaseSeen' = [PhaseSeen EXCEPT ![e] = "running"]
          BY <2>1, <4>2, <4>3 DEF Start, PhaseSeen, TypeOK, lifeVars
        <5>2. UNCHANGED OutSeen
          BY <2>1, <4>2, <4>3 DEF Start, OutSeen, TypeOK
        <5> QED
          BY <4>1, <5>1, <5>2 DEF View!Start
      <4>4. CASE status' = [status EXCEPT ![e] = "failed"]
                 /\ finish' = [finish EXCEPT ![e] = "logging"]
        <5>1. PhaseSeen' = [PhaseSeen EXCEPT ![e] = "dying"]
          BY <2>1, <4>2, <4>4 DEF Start, PhaseSeen, TypeOK, lifeVars
        <5>2. OutSeen' = [OutSeen EXCEPT ![e] = "failed"]
          BY <2>1, <4>2, <4>4 DEF Start, OutSeen, TypeOK
        <5> QED
          BY <4>1, <5>1, <5>2 DEF View!Start
      <4> QED
        BY <2>1, <4>3, <4>4 DEF Start
    <3> QED
      BY <3>1 DEF View!Next
  <2>2. ASSUME NEW e \in Exec, Kill(e) PROVE Maps
    BY <2>2, KillMaps DEF Kill, Alive, lifeVars
  <2>3. ASSUME NEW e \in Exec, TimeoutFires(e) PROVE Maps
    BY <2>3, KillMaps DEF TimeoutFires, Alive, lifeVars
  <2>4. ASSUME NEW e \in Exec, ExitSeen(e) PROVE Maps
    <3>1. CASE Finalize(e) /\ status[e] = "running"
      BY <2>4, <3>1, FinalizeMaps DEF ExitSeen, Alive, lifeVars
    <3>2. CASE UNCHANGED <<status, finish>>
      BY <2>4, <3>2 DEF ExitSeen, View!vars, SlotSeen, PhaseSeen, OutSeen, lifeVars
    <3> QED
      BY <2>4, <3>1, <3>2 DEF ExitSeen, MaybeComplete
  <2>5. ASSUME NEW e \in Exec, PipesEnd(e) PROVE Maps
    <3>1. CASE Finalize(e) /\ status[e] = "running"
      BY <2>5, <3>1, FinalizeMaps DEF PipesEnd, Alive, lifeVars
    <3>2. CASE UNCHANGED <<status, finish>>
      BY <2>5, <3>2 DEF PipesEnd, View!vars, SlotSeen, PhaseSeen, OutSeen, lifeVars
    <3> QED
      BY <2>5, <3>1, <3>2 DEF PipesEnd, MaybeComplete
  <2>6. ASSUME NEW e \in Exec, DrainFires(e) PROVE Maps
    BY <2>6, FinalizeMaps, NoTimersHere DEF DrainFires, Alive, lifeVars, Quiet
  <2>7. ASSUME NEW e \in Exec, Announce(e) PROVE Maps
    <3>1. View!Finish(e)
      <4>1. gate = e /\ status[e] \in {"completed", "failed", "timeout", "killed"}
        BY <2>7 DEF Announce, TypeOK, GateHeld, EndDecided
      <4>2. SlotSeen = e /\ SlotSeen' = "free"
        BY <2>7, <4>1 DEF Announce, Release, Alive, SlotSeen
      <4>3. PhaseSeen[e] = "dying" /\ PhaseSeen' = [PhaseSeen EXCEPT ![e] = "over"]
        <5>1. finish \in [Exec -> {"no", "logging", "done"}]
          BY DEF TypeOK
        <5>2. /\ finish[e] = "logging" /\ finish' = [finish EXCEPT ![e] = "done"]
              /\ agent # "gone" /\ UNCHANGED <<agent, status, reason>>
          BY <2>7 DEF Announce, Alive, lifeVars
        <5>3. PhaseSeen[e] = "dying" /\ PhaseSeen'[e] = "over"
          BY <4>1, <5>1, <5>2 DEF PhaseSeen
        <5>4. \A x \in Exec \ {e} : PhaseSeen'[x] = PhaseSeen[x]
          BY <5>1, <5>2 DEF PhaseSeen
        <5> QED
          BY <5>3, <5>4 DEF PhaseSeen
      <4>4. UNCHANGED OutSeen
        BY <2>7 DEF Announce, OutSeen
      <4> QED
        BY <4>2, <4>3, <4>4 DEF View!Finish
    <3> QED
      BY <3>1 DEF View!Next
  <2>8. ASSUME NEW j \in Job, JobBegin(j) PROVE Maps
    <3>1. View!JobBegins
      BY <2>8 DEF JobBegin, View!JobBegins, SlotSeen, PhaseSeen, OutSeen, recordVars, lifeVars
    <3> QED
      BY <3>1 DEF View!Next
  <2>9. ASSUME NEW j \in Job, JobFinish(j) PROVE Maps
    <3>1. View!JobEnds
      BY <2>9 DEF JobFinish, Release, Alive, View!JobEnds, SlotSeen, PhaseSeen, OutSeen,
         GateHeld, Active, recordVars, lifeVars
    <3> QED
      BY <3>1 DEF View!Next
  <2>10. CASE Shutdown
    BY <2>10, KillMaps DEF Shutdown
  <2>11. CASE Exit
    <3>1. View!Die
      BY <2>11 DEF Exit, View!Die, SlotSeen, PhaseSeen, OutSeen, recordVars
    <3> QED
      BY <3>1 DEF View!Next
  <2>12. CASE UNCHANGED <<gate, status, reason, finish>> /\ (agent = "gone" <=> agent' = "gone")
    BY <2>12 DEF View!vars, SlotSeen, PhaseSeen, OutSeen
  <2> QED
    BY <2>1, <2>2, <2>3, <2>4, <2>5, <2>6, <2>7, <2>8, <2>9, <2>10, <2>11, <2>12
    DEF Next, LoopStep, GroupStep, JobStep, EscalationFires, LeaderExits, Forks, BehindExits,
        JobSpawn, JobTrack, JobExits, JobContinues, JobAborts, ShutdownWaited,
        vars, recordVars, lifeVars
<1>3. IInv /\ [Next]_vars => [View!Next]_(View!vars)
  BY <1>2
<1> QED
  BY <1>1, <1>3, Inductive, PTL DEF Spec, ViewSpec, View!Spec
=============================================================================
