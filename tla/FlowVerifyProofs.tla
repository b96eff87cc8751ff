-------------------------- MODULE FlowVerifyProofs --------------------------
(***************************************************************************)
(* A run of arc-flow, for any configuration, repository and environment:   *)
(* a pass is earned, and no container is left without a reason.            *)
(*                                                                         *)
(* The invariant has three layers.  Orderly says what the main thread has  *)
(* under way at each point: a child or none, a step, the service it is     *)
(* starting.  On it rests Covered, which accounts for every container.     *)
(* Judged follows the verdict from the scope to the report and does not    *)
(* touch it.                                                               *)
(*                                                                         *)
(* The second part is about the two scans such a run begins with.          *)
(***************************************************************************)
EXTENDS FlowVerify, FlowScan, WellFoundedInduction, FiniteSetTheorems, TLAPS

(* The stages in which a service is being started *)
AtWork == {"info", "run", "ready", "port", "health", "undo"}

(* The stages in which nothing is running *)
Alone == {"secrets", "audit", "gate", "steps", "services", "ready", "json", "md", "ended"}

Orderly ==
    /\ child.stage = "none" => child = NoChild
    /\ pc \in Alone => child = NoChild
    /\ pc = "scope" /\ child # NoChild => calls > 0
    /\ pc \in {"services", "task"} \cup AtWork => todo # {}
    /\ pc \in AtWork =>
          /\ Missing # {} /\ svc[Current] = "new"
          /\ Current \in Docker /\ run.environment[Current] = None
    /\ pc = "task" => Missing = {}
    /\ pc = "drop" /\ child # NoChild => owned # {}

(* The clean-up does not give way to a signal. *)
Shielded ==
    pc \in {"undo", "drop"} =>
        child.result # "cancelled" /\ (child.stage = "watched" => ~child.observes)

BaseInv == TypeOK /\ Orderly /\ Shielded

Excused(s) == \E why \in {"rm failed", "run cut short"} : <<s, why>> \in excuse

(* A container has an owner who will remove it, or is being created by a   *)
(* client that still runs, or is excused.                                  *)
Covered ==
    /\ \A s \in containers : \/ s \in owned \/ Excused(s)
                             \/ pc = "run" /\ child # NoChild /\ s = Current
    /\ pc \in {"json", "md", "ended"} => owned = {}

(* The paths of the change have led to a scope. *)
Scoped == scope = Detected /\ (repo.unmatched = "fail" => Unmatched = {})

ScanSource == IF inv.mode = "hook" THEN "index" ELSE "work"

Scanned ==
    /\ scans.secrets = "clean" => ScanSource \notin repo.secretIn
    /\ scans.audit = "clean" => "work" \notin repo.violationIn

(* A step that was selected is still to be executed, or has a result. *)
Accounted ==
    \A i \in DOMAIN Steps : ScansClean /\ Selected(Steps[i]) =>
        i \in todo \/ results[i] # "none"

Earned ==
    /\ ScanSource \notin repo.secretIn
    /\ "work" \notin repo.violationIn
    /\ repo.unmatched = "fail" => \A p \in Changed : Match[p] # {}
    /\ \A i \in DOMAIN Steps : Asked(Steps[i]) => results[i] = "pass"

Early == {"scope", "secrets", "audit", "gate"}

Judged ==
    /\ Scanned
    /\ pc \notin {"drop", "ended"} => exit = "none"
    /\ pc # "scope" /\ exit = "none" => Scoped
    /\ pc \notin Early /\ exit = "none" => Accounted
    /\ pc \in {"drop", "json", "md"} /\ exit = "none" => todo = {}
    /\ pc \notin {"md", "ended"} /\ exit = "none" => report.json = "old"
    /\ pc = "md" => report.json = Verdict
    /\ report.json = "pass" => pc \in {"md", "drop", "ended"} /\ Earned
    /\ exit = "success" => pc = "ended" /\ report.json = "pass" /\ report.md = "pass"

-----------------------------------------------------------------------------
(* The operators *)

(* A set of numbers that is not empty has a first one. *)
LEMMA MinIn ==
  ASSUME NEW S \in SUBSET Nat, S # {}
  PROVE  Min(S) \in S
<1>1. IsWellFoundedOn(OpToRel(<, Nat), Nat)
  BY NatLessThanWellFounded
<1>2. PICK n \in S : \A m \in S : ~(<<m, n>> \in OpToRel(<, Nat))
  BY <1>1, WFMin
<1>3. \A m \in S : ~(m < n)
  BY <1>2 DEF OpToRel
<1>4. \A m \in S : n <= m
  BY <1>3
<1>5. QED BY <1>4 DEF Min

(* The step to be executed is one of the configured ones. *)
LEMMA StepType ==
  ASSUME TypeOK, todo # {}
  PROVE  /\ Min(todo) \in todo /\ Min(todo) \in DOMAIN Steps
         /\ Needed \in Seq(Service)
<1>1. DOMAIN Steps \subseteq Nat
  BY FlowAssumption
<1>2. todo \in SUBSET Nat
  BY <1>1 DEF TypeOK
<1>3. Min(todo) \in todo
  BY <1>2, MinIn
<1>4. Min(todo) \in DOMAIN Steps
  BY <1>3 DEF TypeOK
<1>5. Steps[Min(todo)] \in Step
  BY <1>4, FlowAssumption
<1>6. QED BY <1>3, <1>4, <1>5, FlowAssumption DEF Needed

(* The service to be started is one of its services, and does not run. *)
LEMMA CurrentType ==
  ASSUME TypeOK, todo # {}, Missing # {}
  PROVE  Current \in Service /\ svc[Current] # "up"
<1>1. Needed \in Seq(Service)
  BY StepType
<1>2. Missing \in SUBSET Nat
  BY <1>1 DEF Missing
<1>3. Min(Missing) \in Missing
  BY <1>2, MinIn
<1>4. QED BY <1>1, <1>3 DEF Missing, Current

(* The service at hand depends on nothing but the steps and the services. *)
LEMMA SameCurrent ==
  ASSUME UNCHANGED <<todo, svc>>
  PROVE  Needed' = Needed /\ Missing' = Missing /\ Current' = Current
  BY DEF Needed, Missing, Current

(* No child is a child in its own right. *)
LEMMA NoChildType ==
  /\ NoChild \in ChildState
  /\ NoChild.stage = "none" /\ NoChild.result = "none" /\ NoChild.alive = {}
  BY DEF NoChild, ChildState, Stage

(* command.spawn(): the child that is there, or the error. *)
LEMMA SpawnFacts ==
  ASSUME TypeOK, NEW pipes \in BOOLEAN, NEW observes \in BOOLEAN, Spawn(pipes, observes)
  PROVE  /\ ProcessType' /\ child = NoChild /\ child'.stage # "none"
         /\ child'.result # "cancelled"
         /\ child'.stage = "watched" => child'.observes = observes
<1>1. cancelled' \in BOOLEAN
  BY DEF Spawn, TypeOK, ProcessType
<1>2. ASSUME NEW group \in {{"leader"}, {"leader", "descendant"}},
             child' = [NoChild EXCEPT !.stage = "watched", !.alive = group,
                                      !.pipes = pipes, !.observes = observes]
      PROVE  /\ child' \in ChildState /\ child'.stage = "watched"
             /\ child'.result = "none" /\ child'.observes = observes
  BY <1>2 DEF NoChild, ChildState, Stage
<1>3. ASSUME child' = [NoChild EXCEPT !.stage = "ended", !.result = "error"]
      PROVE  child' \in ChildState /\ child'.stage = "ended" /\ child'.result = "error"
  BY <1>3 DEF NoChild, ChildState, Stage
<1>4. QED BY <1>1, <1>2, <1>3, NoChildType DEF Spawn, ProcessType

(* What goes on in the child is its own: it stays the same command, and it *)
(* ends as cancelled only when the loop looks at the flag.                 *)
Lives ==
    /\ ProcessType'
    /\ child'.stage = "none" => child = NoChild /\ child' = NoChild
    /\ child.stage = "none" => child' = NoChild
    /\ child'.result = "cancelled" =>
          child.result = "cancelled" \/ (child.stage = "watched" /\ child.observes)
    /\ child'.stage = "watched" => child.stage = "watched" /\ child'.observes = child.observes

(* A signal, an exit, a turn of the loop, a timeout. *)
LEMMA ProcessLives ==
  ASSUME TypeOK, child.stage = "none" => child = NoChild,
         \/ Signal \/ Watch \/ Clock \/ DescendantExits
         \/ \E ok \in BOOLEAN : LeaderExits(ok)
  PROVE  Lives
<1>0. child \in ChildState /\ cancelled \in BOOLEAN
  BY DEF TypeOK, ProcessType
<1>1. CASE Signal
  BY <1>0, <1>1 DEF Signal, Lives, ProcessType
<1>2. CASE SeeExit
  BY <1>0, <1>2, NoChildType DEF SeeExit, Lives, ProcessType, ChildState, Stage
<1>3. CASE SeeCancel
  BY <1>0, <1>3, NoChildType DEF SeeCancel, Lives, ProcessType, ChildState, Stage
<1>4. CASE SeeTimeout
  BY <1>0, <1>4, NoChildType DEF SeeTimeout, Lives, ProcessType, ChildState, Stage
<1>5. CASE TermSeen
  BY <1>0, <1>5, NoChildType DEF TermSeen, Lives, ProcessType, ChildState, Stage
<1>6. CASE TermKills
  BY <1>0, <1>6, NoChildType DEF TermKills, Lives, ProcessType, ChildState, Stage
<1>7. CASE Join
  BY <1>0, <1>7, NoChildType DEF Join, Lives, ProcessType, ChildState, Stage
<1>8. CASE DescendantExits
  BY <1>0, <1>8, NoChildType DEF DescendantExits, Lives, ProcessType, ChildState, Stage
<1>9. ASSUME NEW ok \in BOOLEAN, LeaderExits(ok) PROVE Lives
  BY <1>0, <1>9, NoChildType DEF LeaderExits, Lives, ProcessType, ChildState, Stage
<1>10. QED
  BY <1>1, <1>2, <1>3, <1>4, <1>5, <1>6, <1>7, <1>8, <1>9 DEF Watch, Clock

-----------------------------------------------------------------------------
(* The main thread and what it has under way *)

(* All but the process. *)
LEMMA MainStays ==
  ASSUME TypeOK, UNCHANGED main, ProcessType'
  PROVE  TypeOK' /\ Needed' = Needed /\ Missing' = Missing /\ Current' = Current
<1>1. UNCHANGED <<todo, svc>>
  BY DEF main, services
<1>2. TypeOK'
  BY DEF main, services, outcome, TypeOK
<1>3. QED BY <1>1, <1>2, SameCurrent

(* While the child lives its life, the main thread waits. *)
LEMMA LivesBase ==
  ASSUME BaseInv, UNCHANGED main, Lives
  PROVE  BaseInv'
<1>1. TypeOK /\ Orderly /\ Shielded
  BY DEF BaseInv
<1>2. TypeOK' /\ Missing' = Missing /\ Current' = Current
  BY <1>1, MainStays DEF Lives
<1>3. UNCHANGED <<pc, calls, todo, svc, run, owned>>
  BY DEF main, services
<1>4. Orderly'
  BY <1>1, <1>2, <1>3, NoChildType DEF Orderly, Lives, Alone
<1>5. Shielded'
  BY <1>1, <1>3 DEF Shielded, Lives
<1>6. QED BY <1>2, <1>4, <1>5 DEF BaseInv

(* A command is started: nothing else changes. *)
LEMMA SpawnBase ==
  ASSUME BaseInv, NEW pipes \in BOOLEAN, NEW observes \in BOOLEAN,
         Spawn(pipes, observes), UNCHANGED main,
         pc \notin Alone, pc \in {"undo", "drop"} => ~observes,
         pc = "drop" => owned # {}, pc = "scope" => calls > 0
  PROVE  BaseInv'
<1>1. TypeOK /\ Orderly /\ Shielded
  BY DEF BaseInv
<1>2. /\ ProcessType' /\ child'.stage # "none" /\ child'.result # "cancelled"
      /\ child'.stage = "watched" => child'.observes = observes
  BY <1>1, SpawnFacts
<1>3. TypeOK' /\ Missing' = Missing /\ Current' = Current
  BY <1>1, <1>2, MainStays
<1>4. UNCHANGED <<pc, calls, todo, svc, run, owned>>
  BY DEF main, services
<1>5. Orderly'
  BY <1>1, <1>2, <1>3, <1>4 DEF Orderly
<1>6. Shielded'
  BY <1>1, <1>2, <1>4 DEF Shielded
<1>7. QED BY <1>3, <1>5, <1>6 DEF BaseInv

(* The stages at which nothing of a service or a step is under way. *)
Between == {"secrets", "audit", "gate", "steps", "drop", "json", "md", "ended"}

(* A move to such a stage, with nothing running, needs nothing more. *)
LEMMA BetweenBase ==
  ASSUME TypeOK', child' = NoChild, pc' \in Between
  PROVE  BaseInv'
  BY NoChildType DEF BaseInv, Orderly, Shielded, Between, AtWork, Alone

(* The paths of a change are paths. *)
LEMMA ChangedPaths == ASSUME TypeOK PROVE Changed \subseteq Path
<1>1. repo \in Repositories
  BY DEF TypeOK, repo
<1>2. /\ repo.unstaged \subseteq Path /\ repo.staged \subseteq Path
      /\ repo.untracked \subseteq Path /\ repo.committed \subseteq Path
  BY <1>1, FlowAssumption
<1>3. QED BY <1>2 DEF Changed

(* The scope and the scans. *)
LEMMA ScopeBase ==
  ASSUME BaseInv,
         GitReturns \/ DetectScope \/ ScanSecrets \/ Audit \/ Gate
  PROVE  BaseInv'
<1>1. TypeOK /\ Orderly /\ Shielded
  BY DEF BaseInv
<1>2. CASE GitReturns
  <2>1. TypeOK'
    <3>0. calls > 0
      <4>1. pc = "scope" /\ child.stage = "ended"
        BY <1>2 DEF GitReturns, Ended
      <4>2. child # NoChild
        BY <4>1, NoChildType
      <4>3. QED BY <1>1, <4>1, <4>2 DEF Orderly
    <3>1. calls' \in 0..4
      <4>1. calls' = calls - 1 \/ calls' = calls
        BY <1>2 DEF GitReturns
      <4>2. calls \in 0..4
        BY <1>1 DEF TypeOK
      <4>3. QED BY <3>0, <4>1, <4>2
    <3>5. pc' \in Stages /\ exit' \in {"none", "success", "failure"}
      BY <1>1, <1>2 DEF GitReturns, Bail, TypeOK, Stages, outcome
    <3>2. UNCHANGED <<run, scope, scans, todo, results, services, report, cancelled>>
      BY <1>2 DEF GitReturns, Bail, outcome, Return
    <3>3. child' = NoChild
      BY <1>2 DEF GitReturns, Return
    <3>4. QED BY <1>1, <3>1, <3>2, <3>3, <3>5, NoChildType DEF TypeOK, ProcessType, services
  <2>2. child' = NoChild /\ pc' \in {"scope", "drop"}
    BY <1>2 DEF GitReturns, Return, Bail
  <2>3. QED
    BY <2>1, <2>2, NoChildType DEF BaseInv, Orderly, Shielded, AtWork, Alone
<1>3. CASE DetectScope
  <2>1. child' = NoChild /\ pc' \in {"secrets", "drop"}
    BY <1>3 DEF DetectScope, Bail, process
  <2>2. AllComponents \subseteq Component
    BY FlowAssumption DEF AllComponents
  <2>3. Classified \subseteq Component
    BY <1>1, ChangedPaths, FlowAssumption DEF Classified
  <2>4. scope' \in SUBSET Component
    <3>1. inv \in Invocations
      BY <1>1 DEF TypeOK, inv
    <3>2. inv.mode = "step" => ComponentOf[inv.step] \in Component
      BY <3>1, FlowAssumption
    <3>3. CASE scope' = scope
      BY <1>1, <3>3 DEF TypeOK
    <3>4. CASE /\ inv.mode = "components" => inv.components \subseteq AllComponents
               /\ scope' = Detected
      BY <2>2, <2>3, <3>2, <3>4 DEF Detected
    <3>5. QED BY <1>3, <3>3, <3>4 DEF DetectScope
  <2>5. TypeOK'
    BY <1>1, <1>3, <2>1, <2>4 DEF DetectScope, Bail, TypeOK, process, services, outcome, ProcessType, Stages
  <2>6. QED BY <2>1, <2>5, BetweenBase DEF Between
<1>4. CASE ScanSecrets
  <2>1. child' = NoChild /\ pc' \in {"audit", "gate", "drop"}
    BY <1>1, <1>4 DEF ScanSecrets, Bail, process, Orderly, Alone
  <2>2. scans' \in [secrets : {"none", "clean", "found"}, audit : {"none", "clean", "found"}]
    BY <1>1, <1>4 DEF ScanSecrets, TypeOK
  <2>3. TypeOK'
    BY <1>1, <1>4, <2>1, <2>2
    DEF ScanSecrets, Bail, TypeOK, process, services, outcome, ProcessType, Stages
  <2>4. QED BY <2>1, <2>3, BetweenBase DEF Between
<1>5. CASE Audit
  <2>1. child' = NoChild /\ pc' \in {"gate", "drop"}
    BY <1>1, <1>5 DEF Audit, Bail, process, Orderly, Alone
  <2>2. scans' \in [secrets : {"none", "clean", "found"}, audit : {"none", "clean", "found"}]
    BY <1>1, <1>5 DEF Audit, TypeOK
  <2>3. TypeOK'
    BY <1>1, <1>5, <2>1, <2>2
    DEF Audit, Bail, TypeOK, process, services, outcome, ProcessType, Stages
  <2>4. QED BY <2>1, <2>3, BetweenBase DEF Between
<1>6. CASE Gate
  <2>1. child' = NoChild /\ pc' \in {"steps", "drop"}
    BY <1>1, <1>6 DEF Gate, Bail, process, Orderly, Alone
  <2>2. TypeOK'
    BY <1>1, <1>6, <2>1
    DEF Gate, Bail, TypeOK, process, services, outcome, ProcessType, Stages
  <2>3. QED BY <2>1, <2>2, BetweenBase DEF Between
<1>7. QED BY <1>2, <1>3, <1>4, <1>5, <1>6

(* A step is to be given its services: nothing runs, and it is known. *)
LEMMA ServicesBase ==
  ASSUME TypeOK', child' = NoChild, pc' = "services", todo' # {}
  PROVE  BaseInv'
  BY NoChildType DEF BaseInv, Orderly, Shielded, AtWork, Alone

(* A service goes on being started: between two commands. *)
LEMMA WorkBase ==
  ASSUME BaseInv, pc \in AtWork, TypeOK', UNCHANGED <<todo, svc, run>>,
         child' = NoChild, pc' \in AtWork
  PROVE  BaseInv'
<1>1. Missing' = Missing /\ Current' = Current
  BY SameCurrent
<1>2. QED
  BY <1>1, NoChildType DEF BaseInv, Orderly, Shielded, AtWork, Alone

(* What is under way while a service is started. *)
LEMMA WorkFacts ==
  ASSUME BaseInv, pc \in AtWork
  PROVE  /\ todo # {} /\ Missing # {} /\ Current \in Docker /\ Current \in Service
         /\ svc[Current] = "new" /\ run.environment[Current] = None
  BY FlowAssumption DEF BaseInv, Orderly

(* A result is noted, and the loop goes on to the next step. *)
LEMMA FinishType ==
  ASSUME TypeOK, todo # {}, NEW passed, Finish(passed)
  PROVE  /\ todo' \in SUBSET DOMAIN Steps /\ pc' = "steps"
         /\ results' \in [DOMAIN Steps -> {"none", "pass", "fail"}]
  BY StepType DEF Finish, TypeOK

(* The loop over the steps and the services that need no Docker. *)
LEMMA StepsBase ==
  ASSUME BaseInv, NextStep \/ ServiceFailed \/ UseEnvironment \/ StartDocker
  PROVE  BaseInv'
<1>1. TypeOK /\ Orderly
  BY DEF BaseInv
<1>2. child' = NoChild /\ ProcessType'
  <2>1. pc \in Alone /\ UNCHANGED process
    BY DEF NextStep, ServiceFailed, UseEnvironment, StartDocker, Alone
  <2>2. QED BY <1>1, <2>1 DEF Orderly, process, TypeOK, ProcessType
<1>3. CASE NextStep
  <2>1. TypeOK'
    BY <1>1, <1>2, <1>3
    DEF NextStep, Bail, TypeOK, services, outcome, Stages
  <2>2. CASE pc' = "drop"
    BY <1>2, <2>1, <2>2, BetweenBase DEF Between
  <2>3. CASE pc' = "services" /\ todo' # {}
    BY <1>2, <2>1, <2>3, ServicesBase
  <2>4. QED BY <1>3, <2>2, <2>3 DEF NextStep, Bail
<1>4. CASE ServiceFailed
  <2>1. todo # {}
    BY <1>1, <1>4 DEF Orderly, ServiceFailed
  <2>2. TypeOK' /\ pc' = "steps"
    BY <1>1, <1>2, <1>4, <2>1, FinishType
    DEF ServiceFailed, TypeOK, services, outcome, Stages
  <2>3. QED BY <1>2, <2>2, BetweenBase DEF Between
<1>5. CASE UseEnvironment
  <2>1. todo # {} /\ UNCHANGED todo /\ pc' = "services"
    BY <1>1, <1>5 DEF Orderly, UseEnvironment
  <2>2. Current \in Service
    BY <1>1, <1>5, <2>1, CurrentType DEF UseEnvironment
  <2>3. svc' \in [Service -> {"new", "up", "failed"}]
    BY <1>1, <1>5, <2>2 DEF UseEnvironment, TypeOK
  <2>4. TypeOK'
    BY <1>1, <1>2, <1>5, <2>3 DEF UseEnvironment, TypeOK, outcome
  <2>5. QED BY <1>2, <2>1, <2>4, ServicesBase
<1>6. CASE StartDocker
  <2>1. todo # {} /\ UNCHANGED <<todo, svc, run>> /\ pc' = "info"
    BY <1>1, <1>6 DEF Orderly, StartDocker
  <2>2. TypeOK'
    BY <1>1, <1>2, <1>6 DEF StartDocker, TypeOK, outcome, Stages
  <2>3. Missing' = Missing /\ Current' = Current
    BY <2>1, SameCurrent
  <2>4. QED
    BY <1>2, <1>6, <2>1, <2>2, <2>3, NoChildType
    DEF StartDocker, BaseInv, Orderly, Shielded, AtWork, Alone
<1>7. QED BY <1>3, <1>4, <1>5, <1>6

(* Giving up on a service leaves it failed. *)
LEMMA FailedType ==
  ASSUME BaseInv, pc \in AtWork
  PROVE  /\ [svc EXCEPT ![Current] = "failed"] \in [Service -> {"new", "up", "failed"}]
         /\ [svc EXCEPT ![Current] = "up"] \in [Service -> {"new", "up", "failed"}]
  BY WorkFacts DEF BaseInv, TypeOK

(* Steps of start_docker that run no command. *)
LEMMA DockerBase ==
  ASSUME BaseInv, Expire \/ DockerLate \/ Ready \/ DaemonCreates
  PROVE  BaseInv'
<1>1. TypeOK /\ Orderly /\ Shielded
  BY DEF BaseInv
<1>2. pc \in AtWork
  BY DEF Expire, Starting, DockerLate, Ready, DaemonCreates, AtWork
<1>3. ProcessType' /\ UNCHANGED child
  BY <1>1 DEF Expire, DockerLate, Ready, DaemonCreates, process, TypeOK, ProcessType
<1>4. CASE Expire
  <2>1. TypeOK' /\ UNCHANGED <<pc, calls, todo, svc, run, owned, child>>
    BY <1>1, <1>3, <1>4 DEF Expire, TypeOK, outcome
  <2>2. Missing' = Missing /\ Current' = Current
    BY <2>1, SameCurrent
  <2>3. QED BY <1>1, <2>1, <2>2 DEF BaseInv, Orderly, Shielded
<1>5. CASE DockerLate
  <2>1. child' = NoChild
    BY <1>3, <1>5 DEF DockerLate
  <2>2. CASE pc' = "undo" /\ UNCHANGED <<svc, owned>>
    <3>1. TypeOK' /\ UNCHANGED <<todo, svc, run>>
      BY <1>1, <1>3, <1>5, <2>2 DEF DockerLate, TypeOK, outcome, Stages
    <3>2. QED BY <1>2, <2>1, <2>2, <3>1, WorkBase DEF AtWork
  <2>3. CASE StartFails
    <3>1. TypeOK' /\ UNCHANGED todo /\ pc' = "services"
      BY <1>1, <1>2, <1>3, <1>5, <2>3, FailedType
      DEF DockerLate, StartFails, TypeOK, outcome, Stages
    <3>2. QED BY <1>2, <2>1, <3>1, WorkFacts, ServicesBase
  <2>4. QED BY <1>5, <2>2, <2>3 DEF DockerLate, DockerFails
<1>6. CASE Ready
  <2>1. child' = NoChild /\ pc' \in AtWork
    BY <1>1, <1>3, <1>6 DEF Ready, Orderly, Alone, AtWork
  <2>2. TypeOK' /\ UNCHANGED <<todo, svc, run>>
    BY <1>1, <1>3, <1>6 DEF Ready, TypeOK, services, outcome, Stages
  <2>3. QED BY <1>2, <2>1, <2>2, WorkBase
<1>7. CASE DaemonCreates
  <2>1. TypeOK' /\ UNCHANGED <<pc, calls, todo, svc, run, owned, child>>
    BY <1>1, <1>2, <1>3, <1>7, WorkFacts DEF DaemonCreates, TypeOK, outcome
  <2>2. Missing' = Missing /\ Current' = Current
    BY <2>1, SameCurrent
  <2>3. QED BY <1>1, <2>1, <2>2 DEF BaseInv, Orderly, Shielded
<1>8. QED BY <1>4, <1>5, <1>6, <1>7

(* What the answer of a docker command leads to. *)
LEMMA DockerOutcome ==
  ASSUME DockerReturns
  PROVE  \/ pc' \in {"run", "health", "undo"} /\ UNCHANGED <<svc, owned>>
         \/ pc' = "ready" /\ UNCHANGED svc /\ (owned' = owned \/ owned' = owned \cup {Current})
         \/ pc' = "services" /\ svc' = [svc EXCEPT ![Current] = "up"] /\ UNCHANGED owned
         \/ pc' = "services" /\ svc' = [svc EXCEPT ![Current] = "failed"] /\ UNCHANGED owned
<1>1. CASE pc = "info"
  BY <1>1 DEF DockerReturns, DockerFails, StartFails
<1>2. CASE pc = "run"
  BY <1>2 DEF DockerReturns, DockerFails, StartFails
<1>3. CASE pc = "port"
  BY <1>3 DEF DockerReturns, DockerFails, StartFails
<1>4. CASE pc = "health"
  BY <1>4 DEF DockerReturns, DockerFails, StartFails
<1>5. QED BY <1>1, <1>2, <1>3, <1>4 DEF DockerReturns

(* One more excuse. *)
LEMMA ExcuseType ==
  ASSUME TypeOK, NEW s \in Docker, NEW why \in {"rm failed", "run cut short"},
         NEW E, E = excuse \/ E = excuse \cup {<<s, why>>}
  PROVE  E \in SUBSET (Docker \X {"rm failed", "run cut short"})
<1> DEFINE All == Docker \X {"rm failed", "run cut short"}
<1>1. <<s, why>> \in All
  OBVIOUS
<1>2. excuse \in SUBSET All
  BY DEF TypeOK
<1> HIDE DEF All
<1>3. E \in SUBSET All
  BY <1>1, <1>2
<1>4. QED BY <1>3 DEF All

(* A docker command has answered. *)
LEMMA DockerReturnsBase ==
  ASSUME BaseInv, DockerReturns
  PROVE  BaseInv'
<1>1. TypeOK /\ Orderly /\ Shielded
  BY DEF BaseInv
<1>2. pc \in AtWork
  BY DEF DockerReturns, AtWork
<1>3. child' = NoChild /\ ProcessType'
  BY <1>1, NoChildType DEF DockerReturns, Return, TypeOK, ProcessType
<1>4. Current \in Docker /\ Current \in Service /\ todo # {}
  BY <1>2, WorkFacts
<1>5. TypeOK'
  <2>1. excuse' \in SUBSET (Docker \X {"rm failed", "run cut short"})
    <3>1. excuse' = excuse \/ excuse' = excuse \cup {<<Current, "run cut short">>}
      BY DEF DockerReturns
    <3>2. QED BY <1>1, <1>4, <3>1, ExcuseType
  <2>2. pc' \in Stages /\ owned' \in SUBSET Docker
    BY <1>1, <1>4, DockerOutcome DEF TypeOK, Stages
  <2>3. svc' \in [Service -> {"new", "up", "failed"}]
    BY <1>1, <1>2, DockerOutcome, FailedType DEF TypeOK
  <2>4. QED BY <1>1, <1>3, <2>1, <2>2, <2>3 DEF DockerReturns, TypeOK, outcome
<1>6. UNCHANGED <<todo, run>>
  BY DEF DockerReturns
<1>7. CASE pc' = "services"
  BY <1>3, <1>4, <1>5, <1>6, <1>7, ServicesBase
<1>8. CASE pc' \in AtWork /\ UNCHANGED svc
  BY <1>2, <1>3, <1>5, <1>6, <1>8, WorkBase
<1>9. QED BY <1>7, <1>8, DockerOutcome DEF AtWork

(* What docker rm leaves behind. *)
LEMMA RemoveTypes ==
  ASSUME TypeOK, RemoveReturns, Victim \in Docker
  PROVE  /\ excuse' \in SUBSET (Docker \X {"rm failed", "run cut short"})
         /\ containers' \in SUBSET Docker /\ owned' \in SUBSET Docker
<1>1. excuse' = excuse \/ excuse' = excuse \cup {<<Victim, "rm failed">>}
  BY DEF RemoveReturns
<1>2. containers' = containers \/ containers' = containers \ {Victim}
  BY DEF RemoveReturns
<1>3. owned' = owned \ {Victim}
  BY DEF RemoveReturns
<1>4. excuse' \in SUBSET (Docker \X {"rm failed", "run cut short"})
  BY <1>1, ExcuseType
<1>5. QED BY <1>2, <1>3, <1>4 DEF TypeOK

(* docker rm has answered. *)
LEMMA RemoveReturnsBase ==
  ASSUME BaseInv, RemoveReturns
  PROVE  BaseInv'
<1>1. TypeOK /\ Orderly /\ Shielded
  BY DEF BaseInv
<1>2. child' = NoChild /\ ProcessType'
  BY <1>1, NoChildType DEF RemoveReturns, Return, TypeOK, ProcessType
<1>3. CASE pc = "undo"
  <2>1. pc \in AtWork
    BY <1>3 DEF AtWork
  <2>2. Victim = Current /\ Current \in Docker /\ todo # {}
    BY <1>3, <2>1, WorkFacts DEF Victim
  <2>3. /\ pc' = "services" /\ UNCHANGED todo
        /\ svc' = [svc EXCEPT ![Current] = "failed"] /\ owned' = owned \ {Current}
    BY <1>3, <2>2 DEF RemoveReturns
  <2>4. /\ excuse' \in SUBSET (Docker \X {"rm failed", "run cut short"})
        /\ containers' \in SUBSET Docker
    BY <1>1, <2>2, RemoveTypes
  <2>5. svc' \in [Service -> {"new", "up", "failed"}]
    BY <2>1, <2>3, FailedType
  <2>6. TypeOK'
    BY <1>1, <1>2, <2>3, <2>4, <2>5 DEF RemoveReturns, TypeOK, outcome, Stages
  <2>7. QED BY <1>2, <2>2, <2>3, <2>6, ServicesBase
<1>4. CASE pc = "drop"
  <2>1. child.stage = "ended"
    BY DEF RemoveReturns, Ended
  <2>2. owned # {}
    BY <1>1, <1>4, <2>1, NoChildType DEF Orderly
  <2>3. Victim \in owned /\ Victim \in Docker
    BY <1>1, <1>4, <2>2 DEF Victim, TypeOK
  <2>4. /\ excuse' \in SUBSET (Docker \X {"rm failed", "run cut short"})
        /\ containers' \in SUBSET Docker /\ owned' \in SUBSET Docker
    BY <1>1, <2>3, RemoveTypes
  <2>5. pc' = "drop" /\ UNCHANGED svc
    BY <1>4 DEF RemoveReturns
  <2>6. TypeOK'
    BY <1>1, <1>2, <2>4, <2>5 DEF RemoveReturns, TypeOK, outcome, Stages
  <2>7. QED BY <1>2, <2>5, <2>6, BetweenBase DEF Between
<1>5. QED BY <1>3, <1>4 DEF RemoveReturns

(* git, docker and docker rm are called. *)
LEMMA CallBase ==
  ASSUME BaseInv, GitCall \/ DockerCall \/ RemoveCall
  PROVE  BaseInv'
<1>1. UNCHANGED main
  BY DEF GitCall, DockerCall, RemoveCall, Call, main
<1>2. CASE GitCall
  BY <1>1, <1>2, SpawnBase DEF GitCall, Call, Alone
<1>3. CASE DockerCall
  BY <1>1, <1>3, SpawnBase DEF DockerCall, Call, Alone
<1>4. CASE RemoveCall
  BY <1>1, <1>4, SpawnBase DEF RemoveCall, CleanupObserves, Alone
<1>5. QED BY <1>2, <1>3, <1>4

(* A step is executed, and the run comes to its end. *)
LEMMA TaskBase ==
  ASSUME BaseInv, TaskCall \/ TaskReturns \/ Dropped \/ WriteJson \/ WriteMd
  PROVE  BaseInv'
<1>1. TypeOK /\ Orderly /\ Shielded
  BY DEF BaseInv
<1>2. CASE TaskCall
  <2>1. /\ ProcessType' /\ child'.stage # "none"
    BY <1>1, <1>2, SpawnFacts DEF TaskCall
  <2>2. TypeOK' /\ UNCHANGED <<todo, svc>> /\ pc' = "task"
    BY <1>1, <1>2, <2>1 DEF TaskCall, TypeOK, services, outcome, Stages
  <2>3. Missing' = {} /\ todo' # {}
    BY <1>1, <1>2, <2>2, SameCurrent DEF TaskCall, Orderly
  <2>4. QED
    BY <2>1, <2>2, <2>3 DEF BaseInv, Orderly, Shielded, AtWork, Alone
<1>3. CASE TaskReturns
  <2>1. child' = NoChild /\ ProcessType'
    BY <1>1, <1>3, NoChildType DEF TaskReturns, Return, TypeOK, ProcessType
  <2>2. todo # {}
    BY <1>1, <1>3 DEF TaskReturns, Orderly
  <2>3. CASE Bail /\ UNCHANGED <<todo, results>>
    <3>1. TypeOK' /\ pc' = "drop"
      BY <1>1, <1>3, <2>1, <2>3 DEF TaskReturns, Bail, TypeOK, services, Stages
    <3>2. QED BY <2>1, <3>1, BetweenBase DEF Between
  <2>4. ASSUME NEW parsed \in BOOLEAN, Finish(Succeeded /\ parsed), UNCHANGED outcome
        PROVE  BaseInv'
    <3>1. /\ todo' \in SUBSET DOMAIN Steps /\ pc' = "steps"
          /\ results' \in [DOMAIN Steps -> {"none", "pass", "fail"}]
      BY <1>1, <2>2, <2>4, FinishType
    <3>2. TypeOK'
      BY <1>1, <1>3, <2>1, <2>4, <3>1 DEF TaskReturns, TypeOK, services, outcome, Stages
    <3>3. QED BY <2>1, <3>1, <3>2, BetweenBase DEF Between
  <2>5. QED BY <1>3, <2>3, <2>4 DEF TaskReturns
<1>4. CASE Dropped
  <2>1. child' = NoChild /\ ProcessType'
    BY <1>1, <1>4 DEF Dropped, process, Orderly, TypeOK, ProcessType
  <2>2. TypeOK' /\ pc' \in {"ended", "json"}
    BY <1>1, <1>4, <2>1 DEF Dropped, TypeOK, services, outcome, Stages
  <2>3. QED BY <2>1, <2>2, BetweenBase DEF Between
<1>5. CASE WriteJson
  <2>1. child' = NoChild /\ ProcessType'
    BY <1>1, <1>5 DEF WriteJson, process, Orderly, Alone, TypeOK, ProcessType
  <2>2. report' \in [json : {"old", "pass", "fail"}, md : {"old", "pass", "fail"}]
    BY <1>1, <1>5 DEF WriteJson, Bail, Verdict, TypeOK
  <2>3. TypeOK' /\ pc' \in {"md", "drop"}
    BY <1>1, <1>5, <2>1, <2>2 DEF WriteJson, Bail, TypeOK, services, Stages
  <2>4. QED BY <2>1, <2>3, BetweenBase DEF Between
<1>6. CASE WriteMd
  <2>1. child' = NoChild /\ ProcessType'
    BY <1>1, <1>6 DEF WriteMd, process, Orderly, Alone, TypeOK, ProcessType
  <2>2. report' \in [json : {"old", "pass", "fail"}, md : {"old", "pass", "fail"}]
    BY <1>1, <1>6 DEF WriteMd, Bail, Verdict, TypeOK
  <2>3. TypeOK' /\ pc' \in {"ended", "drop"}
    BY <1>1, <1>6, <2>1, <2>2 DEF WriteMd, Bail, TypeOK, services, Stages
  <2>4. QED BY <2>1, <2>3, BetweenBase DEF Between
<1>7. QED BY <1>2, <1>3, <1>4, <1>5, <1>6

(* A step of the world, of the polling loop or of time in the child. *)
ChildStep ==
    /\ UNCHANGED main
    /\ \/ Signal \/ Watch \/ Clock \/ DescendantExits
       \/ \E ok \in BOOLEAN : LeaderExits(ok)

(* The steps of a run, sorted by what they touch. *)
LEMMA StepsOfNext ==
  ASSUME [Next]_vars
  PROVE  \/ GitReturns \/ DetectScope \/ ScanSecrets \/ Audit \/ Gate
         \/ NextStep \/ ServiceFailed \/ UseEnvironment \/ StartDocker
         \/ Expire \/ DockerLate \/ Ready \/ DaemonCreates
         \/ DockerReturns \/ RemoveReturns
         \/ GitCall \/ DockerCall \/ RemoveCall
         \/ TaskCall \/ TaskReturns \/ Dropped \/ WriteJson \/ WriteMd
         \/ ChildStep \/ UNCHANGED vars
  BY DEF Next, Main, World, ChildStep

(* The step of every part of the run. *)
LEMMA BaseNext ==
  ASSUME BaseInv, [Next]_vars
  PROVE  BaseInv'
<1>1. CASE ChildStep
  BY <1>1, ProcessLives, LivesBase DEF ChildStep, BaseInv, Orderly
<1>2. CASE UNCHANGED vars
  <2>1. Missing' = Missing /\ Current' = Current
    BY <1>2, SameCurrent DEF vars
  <2>2. TypeOK'
    BY <1>2 DEF vars, BaseInv, TypeOK, ProcessType
  <2>3. QED BY <1>2, <2>1, <2>2 DEF vars, BaseInv, Orderly, Shielded
<1>3. QED
  BY <1>1, <1>2, StepsOfNext, ScopeBase, StepsBase, DockerBase, DockerReturnsBase,
     RemoveReturnsBase, CallBase, TaskBase

(* At the beginning nothing is under way. *)
LEMMA BaseInit == ASSUME Init PROVE BaseInv
<1>1. CallsOf(run.invocation.mode) \in 0..4
  BY DEF CallsOf
<1>2. TypeOK
  BY <1>1, NoChildType DEF Init, ProcessInit, TypeOK, ProcessType, Stages
<1>3. pc = "scope" /\ child = NoChild
  BY DEF Init, ProcessInit
<1>4. QED BY <1>2, <1>3, NoChildType DEF BaseInv, Orderly, Shielded, AtWork, Alone

(* Every variable of the run keeps its type, for any configuration,        *)
(* repository and environment, the service being started and the step      *)
(* being executed included (verify.rs, service.rs).                        *)
THEOREM FlowTypeCorrect == Spec => []TypeOK
<1>1. Init => BaseInv
  BY BaseInit
<1>2. BaseInv /\ [Next]_vars => BaseInv'
  BY BaseNext
<1>3. BaseInv => TypeOK
  BY DEF BaseInv
<1>4. QED BY <1>1, <1>2, <1>3, PTL DEF Spec

-----------------------------------------------------------------------------
(* The containers *)

(* Nothing happens to a container, and a client goes on running. *)
LEMMA CoveredSame ==
  ASSUME Covered, UNCHANGED <<containers, owned, excuse>>,
         pc = "run" /\ child # NoChild => pc' = "run" /\ child' # NoChild /\ Current' = Current,
         pc' \in {"json", "md", "ended"} => owned = {}
  PROVE  Covered'
  BY DEF Covered, Excused

(* Most steps do nothing to a container. *)
LEMMA CoveredQuiet ==
  ASSUME BaseInv, Covered,
         \/ GitReturns \/ DetectScope \/ ScanSecrets \/ Audit \/ Gate
         \/ NextStep \/ ServiceFailed \/ UseEnvironment \/ StartDocker
         \/ DockerLate \/ Ready \/ GitCall \/ RemoveCall
         \/ TaskCall \/ TaskReturns \/ Dropped \/ WriteJson \/ WriteMd
  PROVE  Covered'
<1>1. UNCHANGED <<containers, owned, excuse>>
  <2>1. CASE UseEnvironment
    BY <2>1 DEF UseEnvironment
  <2>2. CASE StartDocker
    BY <2>2 DEF StartDocker
  <2>3. CASE DockerLate
    BY <2>3 DEF DockerLate, DockerFails, StartFails
  <2>4. QED
    BY <2>1, <2>2, <2>3
    DEF GitReturns, DetectScope, ScanSecrets, Audit, Gate, NextStep, ServiceFailed, Ready,
        GitCall, RemoveCall, Call, TaskCall, TaskReturns, Dropped, WriteJson, WriteMd, services
<1>2. ~(pc = "run" /\ child # NoChild)
  BY DEF GitReturns, DetectScope, ScanSecrets, Audit, Gate, NextStep, ServiceFailed,
         UseEnvironment, StartDocker, DockerLate, Ready, GitCall, RemoveCall,
         TaskCall, TaskReturns, Dropped, WriteJson, WriteMd
<1>3. pc' \in {"json", "md", "ended"} => owned = {}
  <2>1. CASE Dropped
    BY <2>1 DEF Dropped
  <2>2. CASE WriteJson \/ WriteMd
    BY <2>2 DEF WriteJson, WriteMd, Covered
  <2>3. CASE TaskReturns
    BY <2>3 DEF TaskReturns, Bail, Finish
  <2>4. CASE DockerLate
    BY <2>4 DEF DockerLate, DockerFails, StartFails
  <2>5. QED
    BY <2>1, <2>2, <2>3, <2>4
    DEF GitReturns, DetectScope, ScanSecrets, Audit, Gate, NextStep, ServiceFailed, Ready,
        GitCall, RemoveCall, Call, TaskCall, UseEnvironment, StartDocker, Bail, Finish
<1>4. QED BY <1>1, <1>2, <1>3, CoveredSame

(* The steps during which a client of Docker may be running. *)
LEMMA CoveredRunning ==
  ASSUME BaseInv, Covered, Expire \/ DockerCall \/ DaemonCreates \/ ChildStep
  PROVE  Covered'
<1>1. TypeOK /\ Orderly
  BY DEF BaseInv
<1>2. UNCHANGED <<pc, todo, svc, owned, excuse>>
  BY DEF Expire, DockerCall, Call, DaemonCreates, ChildStep, main, services
<1>3. Current' = Current
  BY <1>2, SameCurrent
<1>4. pc \in {"json", "md", "ended"} => owned = {}
  BY DEF Covered
<1>5. child # NoChild => child' # NoChild
  <2>1. CASE Expire \/ DaemonCreates
    BY <2>1 DEF Expire, DaemonCreates, process
  <2>2. CASE DockerCall
    BY <2>2 DEF DockerCall
  <2>3. CASE ChildStep
    BY <1>1, <2>3, ProcessLives, NoChildType DEF ChildStep, Lives, Orderly
  <2>4. QED BY <2>1, <2>2, <2>3
<1>6. CASE Expire \/ DockerCall \/ ChildStep
  <2>1. UNCHANGED containers
    BY <1>6 DEF Expire, DockerCall, Call, ChildStep, main, services
  <2>2. QED BY <1>2, <1>3, <1>4, <1>5, <2>1, CoveredSame
<1>7. CASE DaemonCreates
  <2>1. pc = "run" /\ containers' = containers \cup {Current} /\ child # NoChild
    BY <1>7, NoChildType DEF DaemonCreates
  <2>2. QED BY <1>2, <1>3, <1>4, <1>5, <2>1 DEF Covered, Excused
<1>8. QED BY <1>6, <1>7

(* docker run has answered: its container is owned from now on, or the     *)
(* client was cut short.                                                   *)
LEMMA CoveredDocker ==
  ASSUME BaseInv, Covered, DockerReturns
  PROVE  Covered'
<1>1. UNCHANGED containers /\ pc' \notin {"json", "md", "ended"}
  BY DockerOutcome DEF DockerReturns
<1>2. owned \subseteq owned' /\ excuse \subseteq excuse'
  BY DockerOutcome DEF DockerReturns
<1>3. CASE pc = "run" /\ Succeeded
  <2>1. Current \in owned'
    BY <1>3 DEF DockerReturns
  <2>2. QED BY <1>1, <1>2, <1>3, <2>1 DEF Covered, Excused
<1>4. CASE pc = "run" /\ ~Succeeded
  <2>1. <<Current, "run cut short">> \in excuse'
    BY <1>4 DEF DockerReturns
  <2>2. QED BY <1>1, <1>2, <1>4, <2>1 DEF Covered, Excused
<1>5. CASE pc # "run"
  BY <1>1, <1>2, <1>5 DEF Covered, Excused
<1>6. QED BY <1>3, <1>4, <1>5

(* docker rm has answered: the container is gone, or is excused.           *)
LEMMA CoveredRemove ==
  ASSUME BaseInv, Covered, RemoveReturns
  PROVE  Covered'
<1>1. child.result # "cancelled" /\ pc # "run"
  BY DEF BaseInv, Shielded, RemoveReturns
<1>2. pc' \notin {"json", "md", "ended"}
  BY DEF RemoveReturns
<1>3. owned' = owned \ {Victim} /\ containers' \subseteq containers /\ excuse \subseteq excuse'
  BY DEF RemoveReturns
<1>4. Victim \in containers' => <<Victim, "rm failed">> \in excuse'
  <2>1. CASE Succeeded
    BY <2>1 DEF RemoveReturns
  <2>2. CASE ~Succeeded
    BY <1>1, <2>2 DEF RemoveReturns
  <2>3. QED BY <2>1, <2>2
<1>5. QED BY <1>1, <1>2, <1>3, <1>4 DEF Covered, Excused

(* service.rs:338, Drop: a run that has ended leaves a container behind    *)
(* only when docker rm failed or docker run was cut short, whatever        *)
(* services, failures, timeouts and signals there were.                    *)
THEOREM CleanupLeavesNothing == Spec => []NothingLeftBehind
<1>1. Init => BaseInv /\ Covered
  BY BaseInit DEF Init, Covered
<1>2. ASSUME BaseInv, Covered, [Next]_vars PROVE Covered'
  <2>1. CASE UNCHANGED vars
    <3>1. Current' = Current
      BY <2>1, SameCurrent DEF vars
    <3>2. QED BY <1>2, <2>1, <3>1, CoveredSame DEF vars, Covered
  <2>2. QED
    BY <1>2, <2>1, StepsOfNext, CoveredQuiet, CoveredRunning, CoveredDocker, CoveredRemove
<1>3. BaseInv /\ [Next]_vars => BaseInv'
  BY BaseNext
<1>4. Covered => NothingLeftBehind
  BY DEF Covered, Excused, NothingLeftBehind
<1>5. QED BY <1>1, <1>2, <1>3, <1>4, PTL DEF Spec

-----------------------------------------------------------------------------
(* The verdict *)

(* What the run was asked, and of what, does not change. *)
LEMMA RunSame ==
  ASSUME UNCHANGED run
  PROVE  /\ inv' = inv /\ repo' = repo /\ ScanSource' = ScanSource
         /\ Changed' = Changed /\ Unmatched' = Unmatched /\ Detected' = Detected
         /\ \A st : Asked(st)' <=> Asked(st)
<1>1. inv' = inv /\ repo' = repo
  BY DEF inv, repo
<1>2. Changed' = Changed
  BY <1>1 DEF Changed
<1>3. Unmatched' = Unmatched /\ Classified' = Classified
  BY <1>2 DEF Unmatched, Classified
<1>4. Detected' = Detected
  BY <1>1, <1>3 DEF Detected, AllComponents
<1>5. ASSUME NEW st PROVE Asked(st)' <=> Asked(st)
  BY <1>1, <1>2 DEF Asked
<1>6. QED BY <1>1, <1>2, <1>3, <1>4, <1>5 DEF ScanSource

(* The same for what was selected. *)
LEMMA RunSameSelected ==
  ASSUME UNCHANGED <<run, scope>>
  PROVE  \A st : Selected(st)' <=> Selected(st)
<1>1. inv' = inv
  BY RunSame
<1>2. QED BY <1>1 DEF Selected

(* The same for what was earned. *)
LEMMA RunSameEarned ==
  ASSUME UNCHANGED <<run, results>>
  PROVE  Earned' <=> Earned
  BY RunSame DEF Earned

(* The stages of the loop over the steps *)
Working == {"steps", "services", "task"} \cup AtWork

(* A step that only moves on leaves the verdict alone. *)
LEMMA JudgedMove ==
  ASSUME TypeOK, Judged, UNCHANGED <<run, scope, scans, todo, results, report, exit>>,
         \/ pc' = pc
         \/ pc \in Working /\ pc' \in Working
         \/ pc = "steps" /\ pc' = "drop" /\ todo = {}
         \/ pc = "drop" /\ pc' = IF exit = "failure" THEN "ended" ELSE "json"
  PROVE  Judged'
<1>1. /\ ScanSource' = ScanSource /\ repo' = repo /\ Detected' = Detected /\ Unmatched' = Unmatched
      /\ \A st : Selected(st)' <=> Selected(st)
      /\ Earned' <=> Earned
  BY RunSame, RunSameSelected, RunSameEarned
<1>2. (Scanned' <=> Scanned) /\ (Scoped' <=> Scoped) /\ (Accounted' <=> Accounted)
  BY <1>1 DEF Scanned, Scoped, Accounted, ScansClean
<1>3. Verdict' = Verdict
  BY DEF Verdict, AllPassed, ScansClean
<1>4. exit \in {"none", "success", "failure"}
  BY DEF TypeOK
<1>5. CASE pc' = pc
  BY <1>1, <1>2, <1>3, <1>5 DEF Judged
<1>6. CASE pc \in Working /\ pc' \in Working
  BY <1>1, <1>2, <1>3, <1>6 DEF Judged, Working, AtWork, Early
<1>7. CASE pc = "steps" /\ pc' = "drop" /\ todo = {}
  BY <1>1, <1>2, <1>3, <1>7 DEF Judged, Early
<1>8. CASE pc = "drop" /\ pc' = IF exit = "failure" THEN "ended" ELSE "json"
  BY <1>1, <1>2, <1>3, <1>4, <1>8 DEF Judged, Early
<1>9. QED BY <1>5, <1>6, <1>7, <1>8

(* A run that is given up has no verdict, or the one it had. *)
LEMMA JudgedBail ==
  ASSUME Judged, Bail, UNCHANGED <<run, scope, scans, todo, results>>
  PROVE  Judged'
<1>1. ScanSource' = ScanSource /\ repo' = repo /\ (Earned' <=> Earned)
  BY RunSame, RunSameEarned
<1>2. Scanned' <=> Scanned
  BY <1>1 DEF Scanned
<1>3. QED BY <1>1, <1>2 DEF Judged, Bail

(* Before the report is written there is nothing to be earned. *)
LEMMA JudgedEarly ==
  ASSUME UNCHANGED <<run, report, exit>>, report.json = "old", exit = "none",
         Scanned', pc' \in {"audit", "gate", "steps", "secrets"}, Scoped',
         pc' = "steps" => Accounted'
  PROVE  Judged'
  BY DEF Judged, Early

(* The scope and the scans tell the truth. *)
LEMMA JudgedScope ==
  ASSUME TypeOK, Judged, DetectScope \/ ScanSecrets \/ Audit \/ Gate
  PROVE  Judged'
<1>1. UNCHANGED run
  BY DEF DetectScope, ScanSecrets, Audit, Gate
<1>2. /\ ScanSource' = ScanSource /\ repo' = repo /\ inv' = inv
      /\ Detected' = Detected /\ Unmatched' = Unmatched
  BY <1>1, RunSame
<1>3. pc \in Early /\ report.json = "old" /\ exit = "none"
  BY DEF DetectScope, ScanSecrets, Audit, Gate, Judged, Early
<1>4. CASE DetectScope
  <2>1. CASE Bail /\ UNCHANGED scope
    BY <1>4, <2>1, JudgedBail DEF DetectScope
  <2>2. CASE scope' = Detected /\ pc' = "secrets" /\ UNCHANGED outcome /\
             ~(repo.unmatched = "fail" /\ Unmatched # {})
    <3>1. Scanned' /\ Scoped'
      BY <1>2, <1>4, <2>2 DEF DetectScope, Judged, Scanned, Scoped
    <3>2. QED BY <1>1, <1>3, <2>2, <3>1, JudgedEarly DEF outcome
  <2>3. QED BY <1>4, <2>1, <2>2 DEF DetectScope
<1>5. CASE ScanSecrets
  <2>1. CASE Bail /\ UNCHANGED scans
    BY <1>5, <2>1, JudgedBail DEF ScanSecrets
  <2>2. CASE /\ scans' = [scans EXCEPT !.secrets =
                    IF ScanSource \in repo.secretIn THEN "found" ELSE "clean"]
             /\ pc' \in {"audit", "gate"} /\ UNCHANGED outcome
    <3>1. Scanned'
      BY <1>2, <2>2 DEF Judged, Scanned, TypeOK
    <3>2. Scoped'
      BY <1>2, <1>3, <1>5 DEF ScanSecrets, Judged, Scoped
    <3>3. QED BY <1>1, <1>3, <2>2, <3>1, <3>2, JudgedEarly DEF outcome
  <2>3. QED BY <1>5, <2>1, <2>2 DEF ScanSecrets, ScanSource
<1>6. CASE Audit
  <2>1. CASE Bail /\ UNCHANGED scans
    BY <1>6, <2>1, JudgedBail DEF Audit
  <2>2. CASE /\ scans' = [scans EXCEPT !.audit =
                    IF "work" \in repo.violationIn THEN "found" ELSE "clean"]
             /\ pc' = "gate" /\ UNCHANGED outcome
    <3>1. Scanned'
      BY <1>2, <2>2 DEF Judged, Scanned, TypeOK
    <3>2. Scoped'
      BY <1>2, <1>3, <1>6 DEF Audit, Judged, Scoped
    <3>3. QED BY <1>1, <1>3, <2>2, <3>1, <3>2, JudgedEarly DEF outcome
  <2>3. QED BY <1>6, <2>1, <2>2 DEF Audit
<1>7. CASE Gate
  <2>1. CASE Bail /\ UNCHANGED todo
    BY <1>7, <2>1, JudgedBail DEF Gate
  <2>2. CASE /\ todo' = {i \in DOMAIN Steps : ScansClean /\ Selected(Steps[i])}
             /\ pc' = "steps" /\ UNCHANGED outcome
    <3>1. UNCHANGED <<run, scope, scans, results>>
      BY <1>7 DEF Gate
    <3>2. Scanned' /\ Scoped'
      BY <1>2, <1>3, <1>7, <3>1 DEF Gate, Judged, Scanned, Scoped
    <3>3. \A st : Selected(st)' <=> Selected(st)
      BY <3>1, RunSameSelected
    <3>4. Accounted'
      BY <2>2, <3>1, <3>3 DEF Accounted, ScansClean
    <3>5. QED BY <1>1, <1>3, <2>2, <3>2, <3>4, JudgedEarly DEF outcome
  <2>3. QED BY <1>7, <2>1, <2>2 DEF Gate
<1>8. QED BY <1>4, <1>5, <1>6, <1>7

(* A step that has a result is accounted for. *)
LEMMA JudgedFinish ==
  ASSUME TypeOK, todo # {}, Judged, pc \in Working, NEW passed, Finish(passed),
         UNCHANGED <<run, scope, scans, report, exit>>
  PROVE  Judged'
<1>1. /\ ScanSource' = ScanSource /\ repo' = repo /\ Detected' = Detected /\ Unmatched' = Unmatched
      /\ \A st : Selected(st)' <=> Selected(st)
  BY RunSame, RunSameSelected
<1>2. report.json = "old" /\ exit = "none" /\ Scanned /\ Scoped /\ Accounted
  BY DEF Judged, Working, AtWork, Early
<1>3. Scanned' /\ Scoped'
  BY <1>1, <1>2 DEF Scanned, Scoped
<1>4. Min(todo) \in DOMAIN Steps
  BY StepType
<1>5. Accounted'
  <2>1. todo' = todo \ {Min(todo)} /\ results'[Min(todo)] # "none"
    BY <1>4 DEF Finish, TypeOK
  <2>2. \A i \in DOMAIN Steps : i # Min(todo) => results'[i] = results[i]
    BY DEF Finish, TypeOK
  <2>3. ASSUME NEW i \in DOMAIN Steps, ScansClean', Selected(Steps[i])'
        PROVE  i \in todo' \/ results'[i] # "none"
    <3>1. ScansClean /\ Selected(Steps[i])
      BY <1>1, <2>3 DEF ScansClean
    <3>2. i \in todo \/ results[i] # "none"
      BY <1>2, <3>1 DEF Accounted
    <3>3. QED BY <2>1, <2>2, <3>2
  <2>4. QED BY <2>3 DEF Accounted
<1>6. pc' = "steps"
  BY DEF Finish
<1>7. QED BY <1>2, <1>3, <1>5, <1>6, JudgedEarly

(* What the command line and the change ask for has been selected. *)
LEMMA AskedSelected ==
  ASSUME Scoped, NEW i \in DOMAIN Steps, Asked(Steps[i])
  PROVE  Selected(Steps[i])
<1>1. scope = Detected
  BY DEF Scoped
<1>2. ComponentOf[Steps[i]] \in AllComponents
  BY DEF AllComponents
<1>3. CASE inv.mode = "step"
  BY <1>1, <1>3 DEF Asked, Selected, Detected
<1>4. CASE inv.mode # "step"
  <2>1. inv.profile \in ProfilesOf[Steps[i]]
    BY <1>4 DEF Asked
  <2>2. CASE inv.mode \in {"all", "components"}
    BY <1>1, <1>2, <1>4, <2>1, <2>2 DEF Asked, Selected, Detected
  <2>3. CASE inv.mode \notin {"all", "components"}
    <3>1. PICK p \in Changed : \/ ComponentOf[Steps[i]] \in Match[p]
                               \/ Match[p] = {} /\ repo.unmatched = "all"
      BY <1>4, <2>3 DEF Asked
    <3>2. \/ ComponentOf[Steps[i]] \in Classified
          \/ repo.unmatched = "all"
      BY <3>1 DEF Classified
    <3>3. ComponentOf[Steps[i]] \in Detected
      BY <1>2, <1>4, <2>3, <3>2 DEF Detected
    <3>4. QED BY <1>1, <1>4, <2>1, <3>3 DEF Selected
  <2>4. QED BY <2>2, <2>3
<1>5. QED BY <1>3, <1>4

(* A verdict that is good has been earned. *)
LEMMA VerdictEarned ==
  ASSUME TypeOK, Scanned, Scoped, Accounted, todo = {}, Verdict = "pass"
  PROVE  Earned
<1>1. ScansClean /\ \A i \in DOMAIN Steps : results[i] # "fail"
  BY DEF Verdict, AllPassed
<1>2. ScanSource \notin repo.secretIn /\ "work" \notin repo.violationIn
  BY <1>1 DEF ScansClean, Scanned
<1>3. repo.unmatched = "fail" => \A p \in Changed : Match[p] # {}
  BY DEF Scoped, Unmatched
<1>4. ASSUME NEW i \in DOMAIN Steps, Asked(Steps[i]) PROVE results[i] = "pass"
  <2>1. Selected(Steps[i])
    BY <1>4, AskedSelected
  <2>2. results[i] # "none" /\ results[i] # "fail"
    BY <1>1, <2>1 DEF Accounted
  <2>3. QED BY <2>2 DEF TypeOK
<1>5. QED BY <1>2, <1>3, <1>4 DEF Earned

(* The report is written. *)
LEMMA JudgedWrite ==
  ASSUME TypeOK, Judged, WriteJson \/ WriteMd
  PROVE  Judged'
<1>1. UNCHANGED <<run, scope, scans, todo, results>>
  BY DEF WriteJson, WriteMd
<1>2. CASE Bail
  BY <1>1, <1>2, JudgedBail
<1>3. /\ pc \in {"json", "md"} /\ exit = "none"
      /\ Scanned /\ Scoped /\ Accounted /\ todo = {}
  BY DEF WriteJson, WriteMd, Judged, Early
<1>4. /\ ScanSource' = ScanSource /\ repo' = repo /\ Detected' = Detected /\ Unmatched' = Unmatched
      /\ \A st : Selected(st)' <=> Selected(st)
      /\ Earned' <=> Earned
  BY <1>1, RunSame, RunSameSelected, RunSameEarned
<1>5. Scanned' /\ Scoped' /\ Accounted'
  BY <1>1, <1>3, <1>4 DEF Scanned, Scoped, Accounted, ScansClean
<1>6. Verdict' = Verdict /\ (AllPassed <=> Verdict = "pass")
  BY <1>1 DEF Verdict, AllPassed, ScansClean
<1>7. Verdict = "pass" => Earned
  BY <1>3, VerdictEarned
<1>8. CASE WriteJson /\ report' = [report EXCEPT !.json = Verdict] /\ pc' = "md" /\ UNCHANGED exit
  <2>1. report'.json = Verdict
    BY <1>8 DEF TypeOK
  <2>2. QED BY <1>1, <1>3, <1>4, <1>5, <1>6, <1>7, <1>8, <2>1 DEF Judged
<1>9. CASE /\ WriteMd /\ report' = [report EXCEPT !.md = Verdict] /\ pc' = "ended"
           /\ exit' = IF AllPassed THEN "success" ELSE "failure"
  <2>1. report'.json = report.json /\ report'.md = Verdict
    BY <1>9 DEF TypeOK
  <2>2. pc = "md" /\ report.json = Verdict
    BY <1>9 DEF WriteMd, Judged
  <2>3. QED BY <1>1, <1>3, <1>4, <1>5, <1>6, <1>7, <1>9, <2>1, <2>2 DEF Judged
<1>10. QED BY <1>2, <1>8, <1>9 DEF WriteJson, WriteMd

(* The steps that execute something. *)
LEMMA JudgedExecute ==
  ASSUME BaseInv, Judged, GitReturns \/ NextStep \/ ServiceFailed \/ TaskReturns
  PROVE  Judged'
<1>1. TypeOK /\ Orderly
  BY DEF BaseInv
<1>2. CASE Bail /\ UNCHANGED <<run, scope, scans, todo, results>>
  BY <1>2, JudgedBail
<1>3. CASE GitReturns
  BY <1>1, <1>2, <1>3, JudgedMove DEF GitReturns, outcome
<1>4. CASE NextStep
  BY <1>1, <1>2, <1>4, JudgedMove DEF NextStep, outcome, Working
<1>5. CASE ServiceFailed
  BY <1>1, <1>5, JudgedFinish DEF ServiceFailed, Orderly, Working, outcome
<1>6. CASE TaskReturns
  <2>1. todo # {} /\ pc \in Working /\ UNCHANGED <<run, scope, scans>>
    BY <1>1, <1>6 DEF TaskReturns, Orderly, Working
  <2>2. ASSUME NEW parsed \in BOOLEAN, Finish(Succeeded /\ parsed), UNCHANGED outcome
        PROVE  Judged'
    BY <1>1, <2>1, <2>2, JudgedFinish DEF outcome
  <2>3. QED BY <1>2, <1>6, <2>1, <2>2 DEF TaskReturns
<1>7. QED BY <1>3, <1>4, <1>5, <1>6

(* What starts and ends services and children says nothing of the verdict. *)
LEMMA JudgedOther ==
  ASSUME BaseInv, Judged,
         \/ UseEnvironment \/ StartDocker \/ Expire \/ DockerLate \/ Ready \/ DaemonCreates
         \/ DockerReturns \/ RemoveReturns \/ GitCall \/ DockerCall \/ RemoveCall
         \/ TaskCall \/ Dropped \/ ChildStep \/ UNCHANGED vars
  PROVE  Judged'
<1>1. TypeOK
  BY DEF BaseInv
<1>2. UNCHANGED <<run, scope, scans, todo, results, report, exit>>
  BY DEF UseEnvironment, StartDocker, Expire, DockerLate, Ready, DaemonCreates, DockerReturns,
         RemoveReturns, GitCall, DockerCall, RemoveCall, Call, TaskCall, Dropped, ChildStep,
         main, outcome, vars
<1>3. CASE pc \in Working /\ pc' \in Working
  BY <1>1, <1>2, <1>3, JudgedMove
<1>4. CASE pc' = pc
  BY <1>1, <1>2, <1>4, JudgedMove
<1>5. CASE Dropped
  BY <1>1, <1>2, <1>5, JudgedMove DEF Dropped
<1>6. CASE DockerReturns
  BY <1>3, <1>6, DockerOutcome DEF DockerReturns, Working, AtWork
<1>7. CASE DockerLate
  BY <1>3, <1>7 DEF DockerLate, DockerFails, StartFails, Working, AtWork
<1>8. CASE RemoveReturns
  BY <1>3, <1>4, <1>8 DEF RemoveReturns, Working, AtWork
<1>9. QED
  BY <1>3, <1>4, <1>5, <1>6, <1>7, <1>8
  DEF UseEnvironment, StartDocker, Expire, Ready, DaemonCreates, GitCall, DockerCall,
      RemoveCall, Call, TaskCall, ChildStep, main, vars, Working, AtWork

(* README.md:310, docs/configuration.md:377: for any configuration, change *)
(* and environment, a report says pass only when the snapshot is clean, no *)
(* path was lost and every step asked for passed, and the exit code agrees *)
(* with it, whatever fails or is interrupted (verify.rs:99).               *)
THEOREM PassEarned == Spec => []PassIsEarned
<1>1. Init => BaseInv /\ Judged
  <2>1. Init => Judged
    BY DEF Init, Judged, Scanned, Early
  <2>2. QED BY <2>1, BaseInit
<1>2. ASSUME BaseInv, Judged, [Next]_vars PROVE Judged'
  <2>1. TypeOK
    BY <1>2 DEF BaseInv
  <2>2. QED
    BY <1>2, <2>1, StepsOfNext, JudgedScope, JudgedWrite, JudgedExecute, JudgedOther
<1>3. BaseInv /\ [Next]_vars => BaseInv'
  BY BaseNext
<1>4. Judged => PassIsEarned
  BY DEF Judged, Earned, ScanSource, PassIsEarned
<1>5. QED BY <1>1, <1>2, <1>3, <1>4, PTL DEF Spec

-----------------------------------------------------------------------------
(***************************************************************************)
(* The two scans of arc-flow, for files of any length, any rules and any   *)
(* changes of the repository while they run: what they report of the files *)
(* that stay is exact, and the verdict is about what they report.          *)
(*                                                                         *)
(* CommentsExact is about the lexer alone: its one pass over a text marks  *)
(* the comments that matching delimiters define.  Between two boundaries   *)
(* the lexer is inside one construct, whose extent is the reference's; the *)
(* boundaries follow one another as the constructs do.  The invariant      *)
(* ScanInv says what the phases have found so far of the files that have   *)
(* not changed, and with CommentsExact it gives the properties.            *)
(***************************************************************************)

-----------------------------------------------------------------------------
(* Induction and recursion over numbers *)

(* A set of numbers that is not empty has a first one. *)
LEMMA MinOf ==
  ASSUME NEW S \in SUBSET Nat, S # {}
  PROVE  Min(S) \in S /\ \A m \in S : Min(S) <= m
<1>1. IsWellFoundedOn(OpToRel(<, Nat), Nat)
  BY NatLessThanWellFounded
<1>2. PICK n \in S : \A m \in S : ~(<<m, n>> \in OpToRel(<, Nat))
  BY <1>1, WFMin
<1>3. \A m \in S : ~(m < n)
  BY <1>2 DEF OpToRel
<1>4. \A m \in S : n <= m
  BY <1>3
<1>5. QED BY <1>4 DEF Min

(* A set that contains the first number of a range, and with a number the  *)
(* next one, contains the range.                                           *)
LEMMA RangeInduction ==
  ASSUME NEW a \in Nat, NEW b \in Nat, NEW S,
         a <= b => a \in S,
         \A m \in a..b : m \in S /\ m < b => m + 1 \in S
  PROVE  \A m \in a..b : m \in S
<1> SUFFICES ASSUME NEW m \in a..b, m \notin S PROVE FALSE
  OBVIOUS
<1> DEFINE bad == {k \in a..b : k \notin S}
<1>1. bad \in SUBSET Nat /\ bad # {}
  OBVIOUS
<1>2. PICK n \in bad : \A k \in bad : n <= k
  BY <1>1, MinOf
<1>3. n # a
  BY <1>2
<1>4. n - 1 \in a..b /\ n - 1 \in S /\ n - 1 < b
  BY <1>2, <1>3
<1> QED BY <1>2, <1>4

(* The same, when a number may need all that come before it. *)
LEMMA StrongInduction ==
  ASSUME NEW a \in Nat, NEW b \in Nat, NEW S,
         \A m \in a..b : (\A k \in a..(m - 1) : k \in S) => m \in S
  PROVE  \A m \in a..b : m \in S
<1> SUFFICES ASSUME NEW m \in a..b, m \notin S PROVE FALSE
  OBVIOUS
<1> DEFINE bad == {k \in a..b : k \notin S}
<1>1. bad \in SUBSET Nat /\ bad # {}
  OBVIOUS
<1>2. PICK n \in bad : \A k \in bad : n <= k
  BY <1>1, MinOf
<1>3. \A k \in a..(n - 1) : k \in S
  BY <1>2
<1> QED BY <1>2, <1>3

(* The last number of a range that is in a set, if there is one *)
LEMMA LastBelow ==
  ASSUME NEW a \in Nat, NEW b \in Nat, NEW S, a \in S, a <= b
  PROVE  \E k \in a..b : k \in S /\ \A m \in (k + 1)..b : m \notin S
<1> DEFINE back == {b - k : k \in {m \in a..b : m \in S}}
<1>1. back \in SUBSET Nat
  OBVIOUS
<1>2. b - a \in back
  OBVIOUS
<1>3. PICK d \in back : \A e \in back : d <= e
  BY <1>1, <1>2, MinOf
<1>4. PICK k \in a..b : k \in S /\ d = b - k
  BY <1>3
<1>5. ASSUME NEW m \in (k + 1)..b, m \in S PROVE FALSE
  <2>1. b - m \in back
    BY <1>5
  <2>2. d <= b - m
    BY <1>3, <2>1
  <2> QED BY <1>4, <2>2
<1> QED BY <1>4, <1>5

(* A state machine that is given by what it does at each step has a run. *)
LEMMA RunExists ==
  ASSUME NEW S, NEW start \in S, NEW n \in Nat, NEW T \in [1..n -> [S -> S]]
  PROVE  \E f \in [0..n -> S] : f[0] = start /\ \A i \in 1..n : f[i] = T[i][f[i - 1]]
<1> DEFINE good == {m \in 0..n :
              \E f \in [0..m -> S] : f[0] = start /\ \A i \in 1..m : f[i] = T[i][f[i - 1]]}
<1>1. 0 \in good
  <2> DEFINE f == [i \in 0..0 |-> start]
  <2>1. f \in [0..0 -> S] /\ f[0] = start /\ \A i \in 1..0 : f[i] = T[i][f[i - 1]]
    OBVIOUS
  <2>2. 0 \in 0..n
    OBVIOUS
  <2> HIDE DEF f
  <2> QED BY <2>1, <2>2
<1>2. ASSUME NEW m \in 0..n, m \in good, m < n PROVE m + 1 \in good
  <2>1. PICK f \in [0..m -> S] : f[0] = start /\ \A i \in 1..m : f[i] = T[i][f[i - 1]]
    BY <1>2
  <2> DEFINE g == [i \in 0..(m + 1) |-> IF i = m + 1 THEN T[m + 1][f[m]] ELSE f[i]]
  <2>2. T[m + 1][f[m]] \in S
    BY <1>2
  <2>3. g \in [0..(m + 1) -> S]
    BY <2>2
  <2>4. g[0] = start
    BY <2>1
  <2>5. ASSUME NEW i \in 1..(m + 1) PROVE g[i] = T[i][g[i - 1]]
    <3>1. CASE i = m + 1
      BY <3>1
    <3>2. CASE i # m + 1
      <4>1. i \in 1..m /\ i \in 0..(m + 1) /\ i - 1 \in 0..(m + 1) /\ i - 1 # m + 1
        BY <3>2
      <4>2. g[i] = f[i] /\ g[i - 1] = f[i - 1]
        BY <3>2, <4>1
      <4> QED BY <2>1, <4>1, <4>2
    <3> QED BY <3>1, <3>2
  <2>6. m + 1 \in 0..n
    BY <1>2
  <2> HIDE DEF g
  <2> QED BY <2>3, <2>4, <2>5, <2>6
<1>3. \A m \in 0..n : m \in good
  <2> HIDE DEF good
  <2> QED BY <1>1, <1>2, RangeInduction
<1>4. n \in good
  BY <1>3
<1> QED BY <1>4

-----------------------------------------------------------------------------
(* The lexer *)

LexState ==
    [state : {"code", "string", "escaped", "line", "block"}, depth : Int, comment : BOOLEAN]

(* A turn of the loop leads to a state. *)
LEMMA AfterType ==
  ASSUME NEW s \in LexState, NEW t, NEW nested \in BOOLEAN
  PROVE  After(s, t, nested) \in LexState
<1>1. /\ Code \in LexState /\ InLine \in LexState /\ InString \in LexState
      /\ [InString EXCEPT !.state = "escaped"] \in LexState
      /\ [Code EXCEPT !.comment = TRUE] \in LexState
  <2>1. Code \in LexState
    BY DEF LexState, Code
  <2>2. InLine \in LexState
    BY DEF LexState, InLine
  <2>3. InString \in LexState
    BY DEF LexState, InString
  <2>4. [InString EXCEPT !.state = "escaped"] \in LexState
    BY <2>3 DEF LexState
  <2>5. \A b \in BOOLEAN : [Code EXCEPT !.comment = b] \in LexState
    BY <2>1 DEF LexState
  <2> QED BY <2>1, <2>2, <2>3, <2>4, <2>5
<1>2. \A d \in Int : InBlock(d) \in LexState
  BY DEF LexState, InBlock
<1>3. s.depth \in Int /\ s.depth + 1 \in Int /\ s.depth - 1 \in Int /\ 1 \in Int
  BY DEF LexState
<1> QED BY <1>1, <1>2, <1>3 DEF After

(* The states comment_ranges goes through: the definition of the recursive *)
(* function has a solution, and so it is one.                              *)
LEMMA LexerRuns ==
  ASSUME NEW c, Len(c) \in Nat, NEW nested \in BOOLEAN
  PROVE  LET lex == CommentRanges(c, nested) IN
         /\ lex \in [0..Len(c) -> LexState]
         /\ lex[0] = Code
         /\ \A i \in 1..Len(c) : lex[i] = After(lex[i - 1], c[i], nested)
<1> DEFINE n == Len(c)
           T == [i \in 1..n |-> [s \in LexState |-> After(s, c[i], nested)]]
           Solves(f) == f = [i \in 0..n |->
                               IF i = 0 THEN Code ELSE After(f[i - 1], c[i], nested)]
           lex == CommentRanges(c, nested)
<1>1. T \in [1..n -> [LexState -> LexState]]
  BY AfterType
<1>2. Code \in LexState
  BY DEF Code, LexState
<1>3. PICK f \in [0..n -> LexState] : f[0] = Code /\ \A i \in 1..n : f[i] = T[i][f[i - 1]]
  <2> HIDE DEF T, n
  <2>1. n \in Nat
    BY DEF n
  <2>2. PICK k, U, S, start : k = n /\ U = T /\ S = LexState /\ start = Code
    OBVIOUS
  <2>3. k \in Nat /\ U \in [1..k -> [S -> S]] /\ start \in S
    BY <1>1, <1>2, <2>1, <2>2
  <2>4. \E f \in [0..k -> S] : f[0] = start /\ \A i \in 1..k : f[i] = U[i][f[i - 1]]
    <3>1. k \in Nat
      BY <2>3
    <3>2. U \in [1..k -> [S -> S]]
      BY <2>3
    <3>3. start \in S
      BY <2>3
    <3> HIDE DEF Solves, lex
    <3> QED BY ONLY <3>1, <3>2, <3>3, RunExists
  <2> QED BY <2>2, <2>4
<1>4. ASSUME NEW i \in 1..n PROVE f[i] = After(f[i - 1], c[i], nested)
  <2>1. f[i - 1] \in LexState
    OBVIOUS
  <2> QED BY <1>3, <2>1
<1>5. Solves(f)
  <2>1. \A i \in 0..n : i # 0 => i \in 1..n
    OBVIOUS
  <2> QED BY <1>3, <1>4, <2>1
<1>6. lex = CHOOSE g : Solves(g)
  BY DEF CommentRanges
<1>7. Solves(lex)
  <2> HIDE DEF Solves, lex
  <2> QED BY <1>5, <1>6
<1>8. lex[0] = Code /\ \A i \in 1..n : lex[i] = After(lex[i - 1], c[i], nested)
  <2> HIDE DEF lex
  <2> QED BY <1>7
<1>9. \A i \in 0..n : lex[i] \in LexState
  <2> DEFINE S == {i \in 0..n : lex[i] \in LexState}
  <2>1. 0 \in S
    BY <1>2, <1>8
  <2>2. ASSUME NEW m \in 0..n, m \in S, m < n PROVE m + 1 \in S
    <3>1. m + 1 \in 1..n /\ (m + 1) - 1 = m
      BY <2>2
    <3>2. lex[m + 1] = After(lex[m], c[m + 1], nested)
      BY <1>8, <3>1
    <3> HIDE DEF lex
    <3> QED BY <2>2, <3>1, <3>2, AfterType
  <2>3. \A m \in 0..n : m \in S
    <3> HIDE DEF S
    <3> QED BY <2>1, <2>2, RangeInduction
  <2> QED BY <2>3
<1>10. lex \in [0..n -> LexState]
  <2> HIDE DEF lex
  <2> QED BY <1>7, <1>9
<1> QED BY <1>8, <1>10

-----------------------------------------------------------------------------
(* Where constructs begin *)

(* A chain of constructs, each of which begins where another has ended *)
LEMMA ChainExists ==
  ASSUME NEW n \in Nat, NEW E
  PROVE  \E B \in SUBSET (1..n) : \A i \in 1..n :
            i \in B <=> i = 1 \/ \E j \in 1..(i - 1) : j \in B /\ E[j] = i - 1
<1> DEFINE Chain(B, m) == \A i \in 1..m :
              i \in B <=> i = 1 \/ \E j \in 1..(i - 1) : j \in B /\ E[j] = i - 1
           good == {m \in 0..n : \E B \in SUBSET (1..m) : Chain(B, m)}
<1>1. 0 \in good
  <2>1. Chain({}, 0)
    <3>1. 1..0 = {}
      OBVIOUS
    <3> QED BY <3>1
  <2>2. 0 \in 0..n
    OBVIOUS
  <2>3. {} \in SUBSET (1..0)
    OBVIOUS
  <2> HIDE DEF Chain
  <2> QED BY <2>1, <2>2, <2>3
<1>2. ASSUME NEW m \in 0..n, m \in good, m < n PROVE m + 1 \in good
  <2>1. PICK B \in SUBSET (1..m) : Chain(B, m)
    BY <1>2
  <2> DEFINE new == m + 1 = 1 \/ \E j \in 1..m : j \in B /\ E[j] = m
             C == B \cup {i \in {m + 1} : new}
  <2>2. C \in SUBSET (1..(m + 1))
    <3>1. \A i \in B : i \in 1..(m + 1)
      OBVIOUS
    <3>2. \A i \in {m + 1} : i \in 1..(m + 1)
      OBVIOUS
    <3> HIDE DEF new
    <3> QED BY <3>1, <3>2
  <2>3. \A j \in 1..m : j \in C <=> j \in B
    OBVIOUS
  <2>4. ASSUME NEW i \in 1..(m + 1)
        PROVE  i \in C <=> i = 1 \/ \E j \in 1..(i - 1) : j \in C /\ E[j] = i - 1
    <3>1. CASE i = m + 1
      <4>1. i - 1 = m /\ (i \in C <=> new)
        BY <2>1, <3>1
      <4> HIDE DEF C
      <4> QED BY <2>3, <3>1, <4>1
    <3>2. CASE i # m + 1
      <4>1. i \in 1..m /\ \A j \in 1..(i - 1) : j \in 1..m
        BY <3>2
      <4> HIDE DEF C
      <4> QED BY <2>1, <2>3, <4>1
    <3> QED BY <3>1, <3>2
  <2>5. m + 1 \in 0..n /\ Chain(C, m + 1)
    BY <1>2, <2>4
  <2> HIDE DEF C, Chain
  <2> QED BY <2>2, <2>5
<1>3. \A m \in 0..n : m \in good
  <2> HIDE DEF good
  <2> QED BY <1>1, <1>2, RangeInduction
<1>4. n \in good
  BY <1>3
<1> QED BY <1>4

(* The definition of Begins has a solution, and so it is one. *)
LEMMA BeginsUnfolds ==
  ASSUME NEW c, Len(c) \in Nat, NEW nested \in BOOLEAN
  PROVE  \A i \in 1..(Len(c) + 1) :
            Begins(c, nested)[i] <=>
               i = 1 \/ \E j \in 1..(i - 1) : /\ Begins(c, nested)[j]
                                              /\ Extent(c, j, nested) = i - 1
<1> DEFINE n == Len(c) + 1
           E == [j \in 1..n |-> Extent(c, j, nested)]
           Solves(f) == f = [i \in 1..n |->
              i = 1 \/ \E j \in 1..(i - 1) : f[j] /\ Extent(c, j, nested) = i - 1]
           begins == Begins(c, nested)
<1>1. n \in Nat
  OBVIOUS
<1>2. PICK B \in SUBSET (1..n) : \A i \in 1..n :
         i \in B <=> i = 1 \/ \E j \in 1..(i - 1) : j \in B /\ E[j] = i - 1
  <2> HIDE DEF n, E, Solves, begins
  <2> QED BY ONLY <1>1, ChainExists
<1> DEFINE f == [i \in 1..n |-> i \in B]
<1>3. Solves(f)
  <2>1. ASSUME NEW i \in 1..n
        PROVE  (i \in B) = (i = 1 \/ \E j \in 1..(i - 1) : f[j] /\ Extent(c, j, nested) = i - 1)
    <3>1. \A j \in 1..(i - 1) : j \in 1..n
      BY <1>1
    <3>2. \A j \in 1..n : (f[j] <=> j \in B) /\ E[j] = Extent(c, j, nested)
      BY Zenon
    <3>3. i \in B <=> i = 1 \/ \E j \in 1..(i - 1) : f[j] /\ Extent(c, j, nested) = i - 1
      <4> HIDE DEF f, E
      <4> QED BY <1>2, <3>1, <3>2
    <3> QED BY <3>3
  <2> QED BY <2>1
<1>4. begins = CHOOSE g : Solves(g)
  BY DEF Begins
<1>5. Solves(begins)
  <2> HIDE DEF Solves, begins
  <2> QED BY <1>3, <1>4
<1>6. ASSUME NEW i \in 1..n
      PROVE  begins[i] <=>
               i = 1 \/ \E j \in 1..(i - 1) : begins[j] /\ Extent(c, j, nested) = i - 1
  <2>1. begins[i] = (i = 1 \/ \E j \in 1..(i - 1) : begins[j] /\ Extent(c, j, nested) = i - 1)
    <3> HIDE DEF begins
    <3> QED BY <1>5
  <2> QED BY <2>1
<1> QED BY <1>6

-----------------------------------------------------------------------------
(* The constructs of a file, one by one *)

(* A run of the lexer over a file *)
Runs(c, nested, lex) ==
    /\ lex \in [0..Len(c) -> LexState]
    /\ lex[0] = Code
    /\ \A i \in 1..Len(c) : lex[i] = After(lex[i - 1], c[i], nested)

(* The lexer is between two constructs.  A line comment is over when its   *)
(* newline comes, of which the lexer does not know yet.                    *)
Boundary(c, lex, k) ==
    \/ lex[k - 1].state = "code"
    \/ lex[k - 1].state = "line" /\ c[k] = "newline"

(* The lexer sees one construct from j to its end, and a comment just if   *)
(* it is one.                                                              *)
Construct(c, nested, lex, j) ==
    LET e == Extent(c, j, nested) IN
    /\ e \in j..Len(c)
    /\ \A m \in j..e : lex[m].comment <=> c[j] \in {"line", "open"}
    /\ \A m \in (j + 1)..e : ~Boundary(c, lex, m)
    /\ e < Len(c) => Boundary(c, lex, e + 1)

(* A construct ends where it first closes, or with the file. *)
LEMMA ExtentIs ==
  ASSUME NEW c, Len(c) \in Nat, NEW nested \in BOOLEAN, NEW j \in 1..Len(c)
  PROVE  LET e == Extent(c, j, nested) IN
         /\ e \in j..Len(c)
         /\ \A m \in j..(e - 1) : ~Closes(c, j, m, nested)
         /\ e < Len(c) => Closes(c, j, e, nested)
<1> DEFINE ends == {m \in j..Len(c) : Closes(c, j, m, nested)}
           e == Extent(c, j, nested)
<1>1. ends \in SUBSET Nat
  OBVIOUS
<1>2. e = IF ends = {} THEN Len(c) ELSE Min(ends)
  BY DEF Extent
<1>3. /\ e \in j..Len(c)
      /\ \A m \in j..(e - 1) : ~Closes(c, j, m, nested)
      /\ e < Len(c) => Closes(c, j, e, nested)
  <2>1. CASE ends = {}
    <3>1. e = Len(c)
      BY <1>2, <2>1
    <3>2. \A m \in j..Len(c) : ~Closes(c, j, m, nested)
      BY <2>1
    <3> HIDE DEF e
    <3> QED BY <3>1, <3>2
  <2>2. CASE ends # {}
    <3>1. e \in ends /\ \A m \in ends : e <= m
      <4> HIDE DEF ends, e
      <4> QED BY <1>1, <1>2, <2>2, MinOf
    <3>2. e \in j..Len(c) /\ Closes(c, j, e, nested)
      BY <3>1
    <3> HIDE DEF e
    <3>3. \A m \in j..(e - 1) : ~Closes(c, j, m, nested)
      BY <3>1, <3>2
    <3> QED BY <3>2, <3>3
  <2> QED BY <2>1, <2>2
<1> QED BY <1>3

(* What each state does with a lexeme *)
LEMMA AfterCode ==
  ASSUME NEW s, s.state = "code", NEW t, NEW nested \in BOOLEAN
  PROVE  After(s, t, nested) = CASE t = "quote" -> InString [] t = "open" -> InBlock(1)
                                 [] t = "line" -> InLine [] OTHER -> Code
  BY DEF After

(* A line comment lasts to the end of the line. *)
LEMMA AfterLine ==
  ASSUME NEW s, s.state = "line", NEW t, NEW nested \in BOOLEAN
  PROVE  After(s, t, nested) = IF t = "newline" THEN Code ELSE InLine
  BY DEF After

(* A string lasts to the next quote, *)
LEMMA AfterString ==
  ASSUME NEW s, s.state = "string", NEW t, NEW nested \in BOOLEAN
  PROVE  After(s, t, nested) = CASE t = "escape" -> [InString EXCEPT !.state = "escaped"]
                                 [] t = "quote" -> Code [] OTHER -> InString
  BY DEF After

(* unless that is escaped. *)
LEMMA AfterEscaped ==
  ASSUME NEW s, s.state = "escaped", NEW t, NEW nested \in BOOLEAN
  PROVE  After(s, t, nested) = InString
  BY DEF After

(* A block comment lasts to the closing token of its depth. *)
LEMMA AfterBlock ==
  ASSUME NEW s, s.state = "block", NEW t, NEW nested \in BOOLEAN
  PROVE  /\ t = "open" /\ nested => After(s, t, nested) = InBlock(s.depth + 1)
         /\ t = "close" /\ s.depth = 1 => After(s, t, nested) = [Code EXCEPT !.comment = TRUE]
         /\ t = "close" /\ s.depth # 1 => After(s, t, nested) = InBlock(s.depth - 1)
         /\ t # "close" /\ ~(t = "open" /\ nested) => After(s, t, nested) = InBlock(s.depth)
  BY DEF After

(* The states themselves *)
LEMMA StateFields ==
  /\ Code.state = "code" /\ ~Code.comment
  /\ InLine.state = "line" /\ InLine.comment
  /\ InString.state = "string" /\ ~InString.comment
  /\ \A d : InBlock(d).state = "block" /\ InBlock(d).depth = d /\ InBlock(d).comment
  /\ [InString EXCEPT !.state = "escaped"].state = "escaped"
  /\ ~[InString EXCEPT !.state = "escaped"].comment
  /\ [Code EXCEPT !.comment = TRUE].state = "code"
  /\ [Code EXCEPT !.comment = TRUE].comment
  BY DEF Code, InLine, InString, InBlock

(* A lexeme that is a construct of its own *)
LEMMA OtherConstruct ==
  ASSUME NEW c, Len(c) \in Nat, NEW nested \in BOOLEAN, NEW lex, Runs(c, nested, lex),
         NEW j \in 1..Len(c), Boundary(c, lex, j), c[j] \notin {"line", "open", "quote"}
  PROVE  Construct(c, nested, lex, j)
<1> DEFINE e == Extent(c, j, nested)
<1>1. \A m : Closes(c, j, m, nested) <=> m = j
  BY DEF Closes
<1>2. e \in j..Len(c) /\ \A m \in j..(e - 1) : ~Closes(c, j, m, nested)
  BY ExtentIs
<1> HIDE DEF e
<1>3. e = j
  BY <1>1, <1>2
<1>4. lex[j] = After(lex[j - 1], c[j], nested)
  BY DEF Runs
<1>5. lex[j] = Code
  <2>1. CASE lex[j - 1].state = "code"
    BY <1>4, <2>1, AfterCode
  <2>2. CASE lex[j - 1].state = "line" /\ c[j] = "newline"
    BY <1>4, <2>2, AfterLine
  <2> QED BY <2>1, <2>2 DEF Boundary
<1>6. ~lex[j].comment /\ Boundary(c, lex, j + 1)
  <2>1. (j + 1) - 1 = j
    OBVIOUS
  <2> QED BY <1>5, <2>1, StateFields DEF Boundary
<1>7. /\ e \in j..Len(c)
      /\ \A m \in j..e : lex[m].comment <=> c[j] \in {"line", "open"}
      /\ \A m \in (j + 1)..e : ~Boundary(c, lex, m)
      /\ e < Len(c) => Boundary(c, lex, e + 1)
  <2>1. \A m \in j..e : m = j
    BY <1>3
  <2>2. \A m \in (j + 1)..e : FALSE
    BY <1>3
  <2> QED BY <1>2, <1>3, <1>6, <2>1, <2>2
<1> QED BY <1>7 DEF Construct, e

(* A line comment *)
LEMMA LineConstruct ==
  ASSUME NEW c, Len(c) \in Nat, NEW nested \in BOOLEAN, NEW lex, Runs(c, nested, lex),
         NEW j \in 1..Len(c), Boundary(c, lex, j), c[j] = "line"
  PROVE  Construct(c, nested, lex, j)
<1> DEFINE e == Extent(c, j, nested)
<1>1. \A m : Closes(c, j, m, nested) <=> m < Len(c) /\ c[m + 1] = "newline"
  BY DEF Closes
<1>2. /\ e \in j..Len(c) /\ \A m \in j..(e - 1) : ~Closes(c, j, m, nested)
      /\ e < Len(c) => Closes(c, j, e, nested)
  BY ExtentIs
<1> HIDE DEF e
<1>3. ASSUME NEW m \in j..(e - 1) PROVE c[m + 1] # "newline"
  <2>1. m < Len(c)
    BY <1>2
  <2> QED BY <1>1, <1>2, <2>1
<1>4. lex[j] = InLine
  <2>1. lex[j] = After(lex[j - 1], c[j], nested)
    BY DEF Runs
  <2>2. lex[j - 1].state = "code"
    BY DEF Boundary
  <2> QED BY <2>1, <2>2, AfterCode
<1>5. \A m \in j..e : lex[m] = InLine
  <2> DEFINE S == {m \in j..e : lex[m] = InLine}
  <2>1. j \in S
    BY <1>2, <1>4
  <2>2. ASSUME NEW m \in j..e, m \in S, m < e PROVE m + 1 \in S
    <3>1. m + 1 \in 1..Len(c) /\ m + 1 \in j..e /\ (m + 1) - 1 = m /\ m \in j..(e - 1)
      BY <1>2, <2>2
    <3>2. lex[m + 1] = After(lex[m], c[m + 1], nested)
      BY <3>1 DEF Runs
    <3>3. lex[m].state = "line"
      BY <2>2, StateFields
    <3> QED BY <1>3, <3>1, <3>2, <3>3, AfterLine
  <2>3. e \in Nat /\ j \in Nat
    BY <1>2
  <2>4. \A m \in j..e : m \in S
    <3> HIDE DEF S
    <3> QED BY <2>1, <2>2, <2>3, RangeInduction
  <2> QED BY <2>4
<1>6. \A m \in j..e : lex[m].comment
  BY <1>5, StateFields
<1>7. ASSUME NEW m \in (j + 1)..e PROVE ~Boundary(c, lex, m)
  <2>1. m - 1 \in j..e /\ m - 1 \in j..(e - 1) /\ (m - 1) + 1 = m
    BY <1>2, <1>7
  <2> QED BY <1>3, <1>5, <2>1, StateFields DEF Boundary
<1>8. e < Len(c) => Boundary(c, lex, e + 1)
  <2>1. e \in j..e /\ (e + 1) - 1 = e
    BY <1>2
  <2> QED BY <1>1, <1>2, <1>5, <2>1, StateFields DEF Boundary
<1> QED BY <1>2, <1>6, <1>7, <1>8 DEF Construct, e

(* A block comment where they do not nest *)
LEMMA FlatConstruct ==
  ASSUME NEW c, Len(c) \in Nat, NEW nested \in BOOLEAN, NEW lex, Runs(c, nested, lex),
         NEW j \in 1..Len(c), Boundary(c, lex, j), c[j] = "open", ~nested
  PROVE  Construct(c, nested, lex, j)
<1> DEFINE e == Extent(c, j, nested)
<1>1. \A m : Closes(c, j, m, nested) <=> m > j /\ c[m] = "close"
  BY DEF Closes
<1>2. /\ e \in j..Len(c) /\ \A m \in j..(e - 1) : ~Closes(c, j, m, nested)
      /\ e < Len(c) => Closes(c, j, e, nested)
  BY ExtentIs
<1> HIDE DEF e
<1>3. \A m \in (j + 1)..(e - 1) : c[m] # "close"
  BY <1>1, <1>2
<1>4. lex[j] = InBlock(1)
  <2>1. lex[j] = After(lex[j - 1], c[j], nested)
    BY DEF Runs
  <2>2. lex[j - 1].state = "code"
    BY DEF Boundary
  <2> QED BY <2>1, <2>2, AfterCode
<1>5. ASSUME NEW m \in j..(e - 1), lex[m] = InBlock(1)
      PROVE  lex[m + 1] = IF c[m + 1] = "close" THEN [Code EXCEPT !.comment = TRUE]
                                                ELSE InBlock(1)
  <2>1. m + 1 \in 1..Len(c) /\ (m + 1) - 1 = m
    BY <1>2
  <2>2. lex[m + 1] = After(lex[m], c[m + 1], nested)
    BY <2>1 DEF Runs
  <2>3. lex[m].state = "block" /\ lex[m].depth = 1
    BY <1>5, StateFields
  <2>4. /\ c[m + 1] = "close" => After(lex[m], c[m + 1], nested) = [Code EXCEPT !.comment = TRUE]
        /\ c[m + 1] # "close" => After(lex[m], c[m + 1], nested) = InBlock(1)
    <3>1. PICK s, t : s = lex[m] /\ t = c[m + 1]
      OBVIOUS
    <3>2. s.state = "block" /\ s.depth = 1
      BY <2>3, <3>1
    <3>3. t = "close" => After(s, t, nested) = [Code EXCEPT !.comment = TRUE]
      BY <3>2, AfterBlock
    <3>4. t # "close" => After(s, t, nested) = InBlock(1)
      BY <3>2, AfterBlock
    <3> QED BY <3>1, <3>3, <3>4
  <2> QED BY <2>2, <2>4
<1>6. \A m \in j..(e - 1) : lex[m] = InBlock(1)
  <2> DEFINE S == {m \in j..(e - 1) : lex[m] = InBlock(1)}
  <2>1. j <= e - 1 => j \in S
    BY <1>4
  <2>2. ASSUME NEW m \in j..(e - 1), m \in S, m < e - 1 PROVE m + 1 \in S
    <3>1. m + 1 \in (j + 1)..(e - 1) /\ m + 1 \in j..(e - 1)
      BY <1>2, <2>2
    <3> QED BY <1>3, <1>5, <2>2, <3>1
  <2>3. e - 1 \in Nat /\ j \in Nat
    BY <1>2
  <2>4. \A m \in j..(e - 1) : m \in S
    <3> HIDE DEF S
    <3> QED BY <2>1, <2>2, <2>3, RangeInduction
  <2> QED BY <2>4
<1>7. /\ lex[e].comment
      /\ e < Len(c) => lex[e].state = "code"
  <2>1. CASE e = j
    BY <1>1, <1>2, <1>4, <2>1, StateFields
  <2>2. CASE e # j
    <3>1. e - 1 \in j..(e - 1) /\ (e - 1) + 1 = e
      BY <1>2, <2>2
    <3>2. lex[e] = IF c[e] = "close" THEN [Code EXCEPT !.comment = TRUE] ELSE InBlock(1)
      BY <1>5, <1>6, <3>1
    <3> QED BY <1>1, <1>2, <3>2, StateFields
  <2> QED BY <2>1, <2>2
<1>8. ASSUME NEW m \in j..e PROVE lex[m].comment
  <2>1. m = e \/ m \in j..(e - 1)
    BY <1>2
  <2> QED BY <1>6, <1>7, <2>1, StateFields
<1>9. ASSUME NEW m \in (j + 1)..e PROVE ~Boundary(c, lex, m)
  <2>1. m - 1 \in j..(e - 1)
    BY <1>2
  <2> QED BY <1>6, <2>1, StateFields DEF Boundary
<1>10. e < Len(c) => Boundary(c, lex, e + 1)
  <2>1. (e + 1) - 1 = e
    BY <1>2
  <2> QED BY <1>7, <2>1 DEF Boundary
<1> QED BY <1>2, <1>8, <1>9, <1>10 DEF Construct, e

(* How often lexeme x occurs from j to m *)
Tally(c, x, j, m) == Cardinality({k \in j..m : c[k] = x})

(* Counting on from one lexeme to the next *)
LEMMA CountNext ==
  ASSUME NEW c, NEW x, NEW j \in Nat, NEW m \in Nat, j <= m + 1
  PROVE  /\ Tally(c, x, j, m) \in Nat
         /\ c[m + 1] = x => Tally(c, x, j, m + 1) = Tally(c, x, j, m) + 1
         /\ c[m + 1] # x => Tally(c, x, j, m + 1) = Tally(c, x, j, m)
<1> DEFINE A == {k \in j..m : c[k] = x}
           B == {k \in j..(m + 1) : c[k] = x}
<1>1. IsFiniteSet(j..m)
  BY FS_Interval
<1>2. IsFiniteSet(A)
  <2>1. A \in SUBSET (j..m)
    OBVIOUS
  <2> HIDE DEF A
  <2> QED BY <1>1, <2>1, FS_Subset
<1>3. Cardinality(A) \in Nat
  BY <1>2, FS_CardinalityType
<1>4. m + 1 \notin A
  OBVIOUS
<1>5. c[m + 1] = x => Cardinality(B) = Cardinality(A) + 1
  <2> SUFFICES ASSUME c[m + 1] = x PROVE Cardinality(B) = Cardinality(A) + 1
    OBVIOUS
  <2>1. B = A \cup {m + 1}
    OBVIOUS
  <2> HIDE DEF A, B
  <2> QED BY <1>2, <1>4, <2>1, FS_AddElement
<1>6. c[m + 1] # x => Cardinality(B) = Cardinality(A)
  <2> SUFFICES ASSUME c[m + 1] # x PROVE Cardinality(B) = Cardinality(A)
    OBVIOUS
  <2>1. B = A
    OBVIOUS
  <2> HIDE DEF A, B
  <2> QED BY <2>1
<1>7. Cardinality(A) = Tally(c, x, j, m) /\ Cardinality(B) = Tally(c, x, j, m + 1)
  BY DEF Tally
<1> HIDE DEF A, B
<1> QED BY <1>3, <1>5, <1>6, <1>7

(* A block comment where they nest: the depth is the number of openings    *)
(* that are not closed.                                                    *)
LEMMA NestedConstruct ==
  ASSUME NEW c, Len(c) \in Nat, NEW nested \in BOOLEAN, NEW lex, Runs(c, nested, lex),
         NEW j \in 1..Len(c), Boundary(c, lex, j), c[j] = "open", nested
  PROVE  Construct(c, nested, lex, j)
<1> DEFINE e == Extent(c, j, nested)
           O == [m \in Nat |-> Tally(c, "open", j, m)]
           K == [m \in Nat |-> Tally(c, "close", j, m)]
<1>1. ASSUME NEW m \in Nat
      PROVE  Closes(c, j, m, nested) <=> m > j /\ c[m] = "close" /\ O[m] = K[m]
  <2>1. O[m] = Tally(c, "open", j, m) /\ K[m] = Tally(c, "close", j, m)
    OBVIOUS
  <2> HIDE DEF O, K
  <2> QED BY <2>1 DEF Closes, Tally
<1>2. ASSUME NEW m \in Nat, j <= m + 1
      PROVE  /\ O[m] \in Nat /\ K[m] \in Nat
             /\ c[m + 1] = "open" => O[m + 1] = O[m] + 1 /\ K[m + 1] = K[m]
             /\ c[m + 1] = "close" => O[m + 1] = O[m] /\ K[m + 1] = K[m] + 1
             /\ c[m + 1] \notin {"open", "close"} => O[m + 1] = O[m] /\ K[m + 1] = K[m]
  <2>1. m + 1 \in Nat /\ j \in Nat
    OBVIOUS
  <2>2. O[m] = Tally(c, "open", j, m) /\ K[m] = Tally(c, "close", j, m)
    OBVIOUS
  <2>3. O[m + 1] = Tally(c, "open", j, m + 1) /\ K[m + 1] = Tally(c, "close", j, m + 1)
    BY <2>1
  <2> HIDE DEF O, K
  <2>4. /\ O[m] \in Nat /\ c[m + 1] = "open" => O[m + 1] = O[m] + 1
        /\ O[m] \in Nat /\ c[m + 1] # "open" => O[m + 1] = O[m]
    BY <1>2, <2>1, <2>2, <2>3, CountNext
  <2>5. /\ K[m] \in Nat /\ c[m + 1] = "close" => K[m + 1] = K[m] + 1
        /\ K[m] \in Nat /\ c[m + 1] # "close" => K[m + 1] = K[m]
    BY <1>2, <2>1, <2>2, <2>3, CountNext
  <2>6. O[m] \in Nat /\ K[m] \in Nat
    BY <1>2, <2>1, <2>2, CountNext
  <2> QED BY <2>4, <2>5, <2>6
<1>3. O[j] = 1 /\ K[j] = 0
  <2>1. {k \in j..j : c[k] = "open"} = {j} /\ {k \in j..j : c[k] = "close"} = {}
    OBVIOUS
  <2>2. Cardinality({j}) = 1 /\ Cardinality({}) = 0
    BY FS_Singleton, FS_EmptySet
  <2> QED BY <2>1, <2>2 DEF Tally
<1> HIDE DEF O, K
<1>4. /\ e \in j..Len(c) /\ \A m \in j..(e - 1) : ~Closes(c, j, m, nested)
      /\ e < Len(c) => Closes(c, j, e, nested)
  BY ExtentIs
<1> HIDE DEF e
<1>5. lex[j] = InBlock(1)
  <2>1. lex[j] = After(lex[j - 1], c[j], nested)
    BY DEF Runs
  <2>2. lex[j - 1].state = "code"
    BY DEF Boundary
  <2> QED BY <2>1, <2>2, AfterCode
<1> DEFINE Deep(m) == lex[m] = InBlock(O[m] - K[m]) /\ O[m] - K[m] >= 1
<1>6. ASSUME NEW m \in j..(e - 1), Deep(m)
      PROVE  /\ ~Closes(c, j, m + 1, nested) => Deep(m + 1)
             /\ Closes(c, j, m + 1, nested) => lex[m + 1] = [Code EXCEPT !.comment = TRUE]
  <2>1. /\ m + 1 \in 1..Len(c) /\ (m + 1) - 1 = m /\ m \in Nat /\ m + 1 \in Nat
        /\ j <= m + 1 /\ m + 1 > j
    BY <1>4
  <2>2. PICK s, t : s = lex[m] /\ t = c[m + 1]
    OBVIOUS
  <2>3. lex[m + 1] = After(s, t, nested)
    BY <2>1, <2>2 DEF Runs
  <2>4. PICK d : d = O[m] - K[m]
    OBVIOUS
  <2>5. s.state = "block" /\ s.depth = d /\ d >= 1 /\ d \in Int
    <3>1. O[m] \in Nat /\ K[m] \in Nat
      BY <1>2, <2>1
    <3> QED BY <1>6, <2>2, <2>4, <3>1, StateFields
  <2>6. CASE t = "open"
    <3>1. lex[m + 1] = InBlock(d + 1)
      BY <2>3, <2>5, <2>6, AfterBlock
    <3>2. O[m + 1] = O[m] + 1 /\ K[m + 1] = K[m] /\ O[m] \in Nat /\ K[m] \in Nat
      BY <1>2, <2>1, <2>2, <2>6
    <3>3. O[m + 1] - K[m + 1] = d + 1 /\ d + 1 >= 1
      BY <2>4, <2>5, <3>2
    <3>4. Deep(m + 1)
      BY <3>1, <3>3
    <3>5. ~Closes(c, j, m + 1, nested)
      BY <1>1, <2>1, <2>2, <2>6
    <3> QED BY <3>4, <3>5
  <2>7. CASE t = "close"
    <3>1. O[m + 1] = O[m] /\ K[m + 1] = K[m] + 1 /\ O[m] \in Nat /\ K[m] \in Nat
      BY <1>2, <2>1, <2>2, <2>7
    <3>2. O[m + 1] - K[m + 1] = d - 1
      BY <2>4, <3>1
    <3>3. Closes(c, j, m + 1, nested) <=> d = 1
      <4>1. Closes(c, j, m + 1, nested) <=> O[m + 1] = K[m + 1]
        BY <1>1, <2>1, <2>2, <2>7
      <4>2. O[m + 1] = K[m + 1] <=> d = 1
        BY <2>4, <3>1
      <4> QED BY <4>1, <4>2
    <3>4. CASE d = 1
      <4>1. lex[m + 1] = [Code EXCEPT !.comment = TRUE]
        <5>1. s.depth = 1
          BY <2>5, <3>4
        <5> QED BY <2>3, <2>5, <2>7, <5>1, AfterBlock
      <4> QED BY <3>3, <3>4, <4>1
    <3>5. CASE d # 1
      <4>1. lex[m + 1] = InBlock(d - 1)
        BY <2>3, <2>5, <2>7, <3>5, AfterBlock
      <4>2. d - 1 >= 1
        BY <2>5, <3>5
      <4>3. Deep(m + 1)
        BY <3>2, <4>1, <4>2
      <4> QED BY <3>3, <3>5, <4>3
    <3> QED BY <3>4, <3>5
  <2>8. CASE t \notin {"open", "close"}
    <3>1. lex[m + 1] = InBlock(d)
      BY <2>3, <2>5, <2>8, AfterBlock
    <3>2. O[m + 1] - K[m + 1] = d
      BY <1>2, <2>1, <2>2, <2>4, <2>8
    <3>3. Deep(m + 1)
      BY <2>5, <3>1, <3>2
    <3>4. ~Closes(c, j, m + 1, nested)
      BY <1>1, <2>1, <2>2, <2>8
    <3> QED BY <3>3, <3>4
  <2> QED BY <2>6, <2>7, <2>8
<1>7. \A m \in j..(e - 1) : Deep(m)
  <2> DEFINE S == {m \in j..(e - 1) : Deep(m)}
  <2>1. j <= e - 1 => j \in S
    BY <1>3, <1>5
  <2>2. ASSUME NEW m \in j..(e - 1), m \in S, m < e - 1 PROVE m + 1 \in S
    <3>1. m + 1 \in j..(e - 1)
      BY <1>4, <2>2
    <3> HIDE DEF Deep
    <3> QED BY <1>4, <1>6, <2>2, <3>1
  <2>3. e - 1 \in Nat /\ j \in Nat
    BY <1>4
  <2>4. \A m \in j..(e - 1) : m \in S
    <3> HIDE DEF S
    <3> QED BY <2>1, <2>2, <2>3, RangeInduction
  <2> QED BY <2>4
<1>8. /\ lex[e].comment
      /\ e < Len(c) => lex[e].state = "code"
  <2>1. CASE e = j
    <3>1. ~Closes(c, j, j, nested)
      <4>1. j \in Nat /\ ~(j > j)
        OBVIOUS
      <4> QED BY <1>1, <4>1
    <3> QED BY <1>4, <1>5, <2>1, <3>1, StateFields
  <2>2. CASE e # j
    <3>1. e - 1 \in j..(e - 1) /\ (e - 1) + 1 = e
      BY <1>4, <2>2
    <3>2. /\ ~Closes(c, j, e, nested) => Deep(e)
          /\ Closes(c, j, e, nested) => lex[e] = [Code EXCEPT !.comment = TRUE]
      <4> HIDE DEF Deep
      <4> QED BY <1>6, <1>7, <3>1
    <3> QED BY <1>4, <3>2, StateFields
  <2> QED BY <2>1, <2>2
<1>9. ASSUME NEW m \in j..e PROVE lex[m].comment
  <2>1. m = e \/ m \in j..(e - 1)
    BY <1>4
  <2> QED BY <1>7, <1>8, <2>1, StateFields
<1>10. ASSUME NEW m \in (j + 1)..e PROVE ~Boundary(c, lex, m)
  <2>1. m - 1 \in j..(e - 1)
    BY <1>4
  <2> QED BY <1>7, <2>1, StateFields DEF Boundary
<1>11. e < Len(c) => Boundary(c, lex, e + 1)
  <2>1. (e + 1) - 1 = e
    BY <1>4
  <2> QED BY <1>8, <2>1 DEF Boundary
<1> QED BY <1>4, <1>9, <1>10, <1>11 DEF Construct, e

(* The last lexeme up to m, from j on, that is not an escape *)
Lead(c, j, m) == Min({k \in j..m : \A q \in (k + 1)..m : c[q] = "escape"})

(* A minimum, by what it is *)
LEMMA MinIs ==
  ASSUME NEW S \in SUBSET Nat, NEW x \in S, \A y \in S : x <= y
  PROVE  Min(S) = x
<1>1. Min(S) \in S /\ \A y \in S : Min(S) <= y
  BY MinOf
<1>2. Min(S) \in Nat /\ x \in Nat /\ Min(S) <= x /\ x <= Min(S)
  BY <1>1
<1> QED BY <1>2

(* How it moves from one lexeme to the next *)
LEMMA LeadNext ==
  ASSUME NEW c, NEW j \in Nat, NEW m \in Nat, j <= m
  PROVE  /\ Lead(c, j, m) \in j..m
         /\ Lead(c, j, j) = j
         /\ c[m + 1] = "escape" => Lead(c, j, m + 1) = Lead(c, j, m)
         /\ c[m + 1] # "escape" => Lead(c, j, m + 1) = m + 1
<1> DEFINE R(n) == {k \in j..n : \A q \in (k + 1)..n : c[q] = "escape"}
<1>1. ASSUME NEW n \in Nat PROVE R(n) \in SUBSET Nat /\ \A k \in R(n) : k \in j..n
  OBVIOUS
<1>2. m \in R(m) /\ m + 1 \in R(m + 1) /\ j \in R(j)
  OBVIOUS
<1>3. Lead(c, j, m) = Min(R(m)) /\ Lead(c, j, j) = Min(R(j)) /\ Lead(c, j, m + 1) = Min(R(m + 1))
  BY DEF Lead
<1>4. Min(R(m)) \in R(m) /\ \A k \in R(m) : Min(R(m)) <= k
  <2>1. R(m) \in SUBSET Nat /\ R(m) # {}
    BY <1>1, <1>2
  <2> HIDE DEF R
  <2> QED BY <2>1, MinOf
<1>5. Min(R(j)) = j
  <2>1. R(j) \in SUBSET Nat /\ \A k \in R(j) : j <= k
    BY <1>1
  <2> HIDE DEF R
  <2> QED BY <1>2, <2>1, MinIs
<1>6. ASSUME c[m + 1] = "escape" PROVE Min(R(m + 1)) = Min(R(m))
  <2>1. ASSUME NEW k \in R(m) PROVE k \in R(m + 1)
    <3>1. k \in j..(m + 1)
      OBVIOUS
    <3>2. ASSUME NEW q \in (k + 1)..(m + 1) PROVE c[q] = "escape"
      <4>1. q = m + 1 \/ q \in (k + 1)..m
        BY <3>1
      <4> QED BY <1>6, <4>1
    <3> QED BY <3>1, <3>2
  <2>2. ASSUME NEW k \in R(m + 1) PROVE Min(R(m)) <= k
    <3>1. CASE k = m + 1
      <4>1. Min(R(m)) \in j..m
        BY <1>4
      <4> QED BY <3>1, <4>1
    <3>2. CASE k # m + 1
      <4>1. k \in j..m /\ \A q \in (k + 1)..m : q \in (k + 1)..(m + 1)
        BY <3>2
      <4>2. k \in R(m)
        BY <4>1
      <4> QED BY <1>4, <4>2
    <3> QED BY <3>1, <3>2
  <2>3. R(m + 1) \in SUBSET Nat /\ Min(R(m)) \in R(m + 1)
    BY <1>4, <2>1
  <2> HIDE DEF R
  <2> QED BY <2>2, <2>3, MinIs
<1>7. ASSUME c[m + 1] # "escape" PROVE Min(R(m + 1)) = m + 1
  <2>1. ASSUME NEW k \in R(m + 1) PROVE m + 1 <= k
    <3>1. k \in j..(m + 1)
      OBVIOUS
    <3>2. ~(m + 1 \in (k + 1)..(m + 1))
      BY <1>7
    <3> QED BY <3>1, <3>2
  <2>2. R(m + 1) \in SUBSET Nat
    OBVIOUS
  <2> HIDE DEF R
  <2> QED BY <1>2, <2>1, <2>2, MinIs
<1>8. Min(R(m)) \in j..m
  BY <1>4
<1> HIDE DEF R
<1> QED BY <1>3, <1>5, <1>6, <1>7, <1>8

(* Even and odd take turns. *)
LEMMA Parity ==
  ASSUME NEW x \in Nat
  PROVE  /\ x % 2 \in {0, 1} /\ 0 % 2 = 0
         /\ x % 2 = 0 <=> (x + 1) % 2 = 1
         /\ x % 2 = 1 <=> (x + 1) % 2 = 0
  OBVIOUS

(* A string: a quote is escaped when an odd number of escapes precede it. *)
LEMMA StringConstruct ==
  ASSUME NEW c, Len(c) \in Nat, NEW nested \in BOOLEAN, NEW lex, Runs(c, nested, lex),
         NEW j \in 1..Len(c), Boundary(c, lex, j), c[j] = "quote"
  PROVE  Construct(c, nested, lex, j)
<1> DEFINE e == Extent(c, j, nested)
           Odd(m) == (m - Lead(c, j, m)) % 2
           Escaped == [InString EXCEPT !.state = "escaped"]
           Inside(m) == /\ Odd(m) = 0 => lex[m] = InString
                        /\ Odd(m) = 1 => lex[m] = Escaped
<1>1. ASSUME NEW m \in Nat, j <= m
      PROVE  Closes(c, j, m + 1, nested) <=> c[m + 1] = "quote" /\ Odd(m) = 0
  <2>1. (m + 1) - 1 = m /\ m + 1 > j
    BY <1>1
  <2>2. Closes(c, j, m + 1, nested) <=>
           /\ m + 1 > j /\ c[m + 1] = "quote"
           /\ ((m + 1) - 1 - Min({k \in j..((m + 1) - 1) :
                                    \A q \in (k + 1)..((m + 1) - 1) : c[q] = "escape"})) % 2 = 0
    BY DEF Closes
  <2> QED BY <2>1, <2>2 DEF Lead
<1>2. ~Closes(c, j, j, nested)
  <2>1. ~(j > j)
    OBVIOUS
  <2> QED BY <2>1 DEF Closes
<1>3. ASSUME NEW m \in Nat, j <= m
      PROVE  /\ Odd(m) \in {0, 1}
             /\ c[m + 1] = "escape" /\ Odd(m) = 0 => Odd(m + 1) = 1
             /\ c[m + 1] = "escape" /\ Odd(m) = 1 => Odd(m + 1) = 0
             /\ c[m + 1] # "escape" => Odd(m + 1) = 0
  <2>0. /\ Lead(c, j, m) \in j..m
        /\ c[m + 1] = "escape" => Lead(c, j, m + 1) = Lead(c, j, m)
        /\ c[m + 1] # "escape" => Lead(c, j, m + 1) = m + 1
    <3>1. j \in Nat
      OBVIOUS
    <3>2. m \in Nat
      OBVIOUS
    <3>3. j <= m
      BY <1>3
    <3> QED BY ONLY <3>1, <3>2, <3>3, LeadNext
  <2>1. PICK l \in j..m : l = Lead(c, j, m)
    BY <2>0
  <2>2. m - l \in Nat /\ (m + 1) - l = (m - l) + 1 /\ (m + 1) - (m + 1) = 0
    BY <1>3
  <2>3. Odd(m) = (m - l) % 2
    BY <2>1
  <2>4. c[m + 1] = "escape" => Odd(m + 1) = ((m - l) + 1) % 2
    BY <2>0, <2>1, <2>2
  <2>5. c[m + 1] # "escape" => Odd(m + 1) = 0 % 2
    BY <2>0, <2>2
  <2> HIDE DEF Odd
  <2> QED BY <2>2, <2>3, <2>4, <2>5, Parity
<1>4. Odd(j) = 0
  <2>0. j \in Nat /\ j <= j /\ j - j = 0
    OBVIOUS
  <2>1. Lead(c, j, j) = j
    BY ONLY <2>0, LeadNext
  <2> QED BY <2>0, <2>1, Parity
<1>5. /\ e \in j..Len(c) /\ \A m \in j..(e - 1) : ~Closes(c, j, m, nested)
      /\ e < Len(c) => Closes(c, j, e, nested)
  BY ExtentIs
<1> HIDE DEF e, Odd
<1>6. /\ InString.state = "string" /\ ~InString.comment
      /\ Escaped.state = "escaped" /\ ~Escaped.comment
  BY StateFields
<1>7. Inside(j)
  <2>1. lex[j] = After(lex[j - 1], c[j], nested)
    BY DEF Runs
  <2>2. lex[j - 1].state = "code"
    BY DEF Boundary
  <2>3. lex[j] = InString
    BY <2>1, <2>2, AfterCode
  <2> QED BY <1>4, <2>3
<1>8. ASSUME NEW m \in j..(e - 1), Inside(m)
      PROVE  /\ ~Closes(c, j, m + 1, nested) => Inside(m + 1)
             /\ Closes(c, j, m + 1, nested) => lex[m + 1] = Code
  <2>1. m + 1 \in 1..Len(c) /\ (m + 1) - 1 = m /\ m \in Nat /\ j <= m
    BY <1>5
  <2>2. PICK s, t : s = lex[m] /\ t = c[m + 1]
    OBVIOUS
  <2>3. lex[m + 1] = After(s, t, nested)
    BY <2>1, <2>2 DEF Runs
  <2>4. Odd(m) \in {0, 1}
    BY <1>3, <2>1
  <2>5. CASE Odd(m) = 0
    <3>1. s.state = "string"
      BY <1>6, <1>8, <2>2, <2>5
    <3>2. CASE t = "quote"
      <4>1. lex[m + 1] = Code
        BY <2>3, <3>1, <3>2, AfterString
      <4>2. Closes(c, j, m + 1, nested)
        BY <1>1, <2>1, <2>2, <2>5, <3>2
      <4> QED BY <4>1, <4>2
    <3>3. CASE t = "escape"
      <4>1. lex[m + 1] = Escaped
        BY <2>3, <3>1, <3>3, AfterString
      <4>2. ~Closes(c, j, m + 1, nested)
        BY <1>1, <2>1, <2>2, <3>3
      <4>3. Odd(m + 1) = 1
        BY <1>3, <2>1, <2>2, <2>5, <3>3
      <4> QED BY <4>1, <4>2, <4>3
    <3>4. CASE t \notin {"quote", "escape"}
      <4>1. lex[m + 1] = InString
        BY <2>3, <3>1, <3>4, AfterString
      <4>2. ~Closes(c, j, m + 1, nested)
        BY <1>1, <2>1, <2>2, <3>4
      <4>3. Odd(m + 1) = 0
        BY <1>3, <2>1, <2>2, <3>4
      <4> QED BY <4>1, <4>2, <4>3
    <3> QED BY <3>2, <3>3, <3>4
  <2>6. CASE Odd(m) = 1
    <3>1. s.state = "escaped"
      BY <1>6, <1>8, <2>2, <2>6
    <3>2. lex[m + 1] = InString
      BY <2>3, <3>1, AfterEscaped
    <3>3. ~Closes(c, j, m + 1, nested)
      BY <1>1, <2>1, <2>6
    <3>4. Odd(m + 1) = 0
      BY <1>3, <2>1, <2>6
    <3> QED BY <3>2, <3>3, <3>4
  <2> QED BY <2>4, <2>5, <2>6
<1>9. \A m \in j..(e - 1) : Inside(m)
  <2> DEFINE S == {m \in j..(e - 1) : Inside(m)}
  <2>1. j <= e - 1 => j \in S
    <3>1. j <= e - 1 => j \in j..(e - 1)
      BY <1>5
    <3> HIDE DEF Inside
    <3> QED BY <1>7, <3>1
  <2>2. ASSUME NEW m \in j..(e - 1), m \in S, m < e - 1 PROVE m + 1 \in S
    <3>1. m + 1 \in j..(e - 1)
      BY <1>5, <2>2
    <3> HIDE DEF Inside
    <3> QED BY <1>5, <1>8, <2>2, <3>1
  <2>3. e - 1 \in Nat /\ j \in Nat
    BY <1>5
  <2>4. \A m \in j..(e - 1) : m \in S
    <3> HIDE DEF S
    <3> QED BY <2>1, <2>2, <2>3, RangeInduction
  <2> QED BY <2>4
<1>10. ASSUME NEW m \in Nat, j <= m, Inside(m)
       PROVE  ~lex[m].comment /\ lex[m].state \in {"string", "escaped"}
  BY <1>3, <1>6, <1>10
<1>11. /\ ~lex[e].comment
       /\ e < Len(c) => lex[e].state = "code"
  <2>1. CASE e = j
    <3> HIDE DEF Inside
    <3> QED BY <1>2, <1>5, <1>7, <1>10, <2>1
  <2>2. CASE e # j
    <3>1. e - 1 \in j..(e - 1) /\ (e - 1) + 1 = e /\ e \in Nat /\ j <= e
      BY <1>5, <2>2
    <3>2. /\ ~Closes(c, j, e, nested) => Inside(e)
          /\ Closes(c, j, e, nested) => lex[e] = Code
      <4> HIDE DEF Inside
      <4> QED BY <1>8, <1>9, <3>1
    <3> HIDE DEF Inside
    <3> QED BY <1>5, <1>10, <3>1, <3>2, StateFields
  <2> QED BY <2>1, <2>2
<1> HIDE DEF Inside
<1>12. ASSUME NEW m \in j..e PROVE ~lex[m].comment
  <2>1. m = e \/ m \in j..(e - 1)
    BY <1>5
  <2>2. m \in Nat /\ j <= m
    BY <1>5
  <2> QED BY <1>9, <1>10, <1>11, <2>1, <2>2
<1>13. ASSUME NEW m \in (j + 1)..e PROVE ~Boundary(c, lex, m)
  <2>1. m - 1 \in j..(e - 1) /\ m - 1 \in Nat /\ j <= m - 1
    BY <1>5
  <2> QED BY <1>9, <1>10, <2>1 DEF Boundary
<1>14. e < Len(c) => Boundary(c, lex, e + 1)
  <2>1. (e + 1) - 1 = e
    BY <1>5
  <2> QED BY <1>11, <2>1 DEF Boundary
<1> QED BY <1>5, <1>12, <1>13, <1>14 DEF Construct, e

(* Every construct *)
LEMMA Constructs ==
  ASSUME NEW c, Len(c) \in Nat, NEW nested \in BOOLEAN, NEW lex, Runs(c, nested, lex),
         NEW j \in 1..Len(c), Boundary(c, lex, j)
  PROVE  Construct(c, nested, lex, j)
<1>1. CASE c[j] = "line"
  BY <1>1, LineConstruct
<1>2. CASE c[j] = "open"
  <2>1. CASE nested
    BY <1>2, <2>1, NestedConstruct
  <2>2. CASE ~nested
    BY <1>2, <2>2, FlatConstruct
  <2> QED BY <2>1, <2>2
<1>3. CASE c[j] = "quote"
  BY <1>3, StringConstruct
<1>4. CASE c[j] \notin {"line", "open", "quote"}
  BY <1>4, OtherConstruct
<1> QED BY <1>1, <1>2, <1>3, <1>4

(* Constructs begin just where the lexer is between two of them. *)
LEMMA BeginsAreBoundaries ==
  ASSUME NEW c, Len(c) \in Nat, NEW nested \in BOOLEAN, NEW lex, Runs(c, nested, lex)
  PROVE  \A i \in 1..Len(c) : Begins(c, nested)[i] <=> Boundary(c, lex, i)
<1> DEFINE B(i) == Begins(c, nested)[i]
           E(i) == Extent(c, i, nested)
           S == {i \in 1..Len(c) : B(i) <=> Boundary(c, lex, i)}
<1>1. ASSUME NEW i \in 1..Len(c)
      PROVE  B(i) <=> i = 1 \/ \E j \in 1..(i - 1) : B(j) /\ E(j) = i - 1
  <2>1. i \in 1..(Len(c) + 1)
    OBVIOUS
  <2> QED BY <2>1, BeginsUnfolds
<1>2. ASSUME NEW j \in 1..Len(c), Boundary(c, lex, j)
      PROVE  /\ E(j) \in j..Len(c)
             /\ \A m \in (j + 1)..E(j) : ~Boundary(c, lex, m)
             /\ E(j) < Len(c) => Boundary(c, lex, E(j) + 1)
  <2>1. Construct(c, nested, lex, j)
    BY <1>2, Constructs
  <2> QED BY <2>1 DEF Construct
<1>3. ASSUME 1 <= Len(c) PROVE Boundary(c, lex, 1)
  <2>1. lex[0].state = "code"
    BY DEF Runs, Code
  <2> QED BY <2>1 DEF Boundary
<1> HIDE DEF B, E
<1>4. ASSUME NEW i \in 1..Len(c), \A k \in 1..(i - 1) : k \in S
      PROVE  i \in S
  <2>1. \A k \in 1..(i - 1) : k \in 1..Len(c) /\ (B(k) <=> Boundary(c, lex, k))
    BY <1>4
  <2>2. CASE i = 1
    BY <1>1, <1>3, <2>2
  <2>3. CASE i # 1
    <3>1. ASSUME B(i) PROVE Boundary(c, lex, i)
      <4>1. PICK j \in 1..(i - 1) : B(j) /\ E(j) = i - 1
        BY <1>1, <2>3, <3>1
      <4>2. j \in 1..Len(c) /\ Boundary(c, lex, j)
        BY <2>1, <4>1
      <4>3. E(j) < Len(c) /\ E(j) + 1 = i
        BY <4>1
      <4> QED BY <1>2, <4>2, <4>3
    <3>2. ASSUME Boundary(c, lex, i) PROVE B(i)
      <4> DEFINE P == {k \in 1..(i - 1) : Boundary(c, lex, k)}
      <4>1. i - 1 \in Nat /\ 1 \in Nat /\ 1 <= i - 1 /\ 1 \in P
        BY <1>3, <2>3
      <4>2. PICK j \in 1..(i - 1) : j \in P /\ \A m \in (j + 1)..(i - 1) : m \notin P
        <5> HIDE DEF P
        <5> QED BY ONLY <4>1, LastBelow
      <4>3. j \in 1..Len(c) /\ Boundary(c, lex, j) /\ E(j) \in j..Len(c)
        BY <1>2, <4>2
      <4>4. ~(E(j) >= i)
        <5>1. E(j) >= i => i \in (j + 1)..E(j)
          BY <4>3
        <5> QED BY <1>2, <3>2, <4>3, <5>1
      <4>5. ~(E(j) < i - 1)
        <5>1. ASSUME E(j) < i - 1 PROVE FALSE
          <6>1. E(j) + 1 \in (j + 1)..(i - 1) /\ E(j) < Len(c) /\ E(j) + 1 \in 1..(i - 1)
            BY <4>3, <5>1
          <6>2. Boundary(c, lex, E(j) + 1)
            BY <1>2, <4>3, <6>1
          <6> QED BY <4>2, <6>1, <6>2
        <5> QED BY <5>1
      <4>6. E(j) = i - 1
        BY <4>3, <4>4, <4>5
      <4> QED BY <1>1, <2>1, <4>3, <4>6
    <3> QED BY <3>1, <3>2
  <2> QED BY <2>2, <2>3
<1>5. \A i \in 1..Len(c) : i \in S
  <2> HIDE DEF S
  <2>1. 1 \in Nat
    OBVIOUS
  <2> QED BY <1>4, <2>1, StrongInduction
<1> QED BY <1>5 DEF B

(* comment_ranges (audit.rs:437) finds the comments: the offsets its one   *)
(* pass marks are those of the constructs that begin with a comment token, *)
(* in a text of any length, with any strings, escapes and nesting.         *)
THEOREM CommentsExact ==
  ASSUME NEW c, Len(c) \in Nat, DOMAIN c = 1..Len(c), NEW nested \in BOOLEAN
  PROVE  CommentOffsets(c, nested) = TrueComments(c, nested)
<1>1. PICK lex : lex = CommentRanges(c, nested)
  OBVIOUS
<1>2. Runs(c, nested, lex)
  BY <1>1, LexerRuns DEF Runs
<1> DEFINE E(i) == Extent(c, i, nested)
           Opens(i) == c[i] \in {"line", "open"}
<1>3. CommentOffsets(c, nested) = {i \in 1..Len(c) : lex[i].comment}
  BY <1>1 DEF CommentOffsets
<1>4. \A i \in 1..Len(c) : Begins(c, nested)[i] <=> Boundary(c, lex, i)
  BY <1>2, BeginsAreBoundaries
<1>5. TrueComments(c, nested)
        = UNION {i..E(i) : i \in {k \in 1..Len(c) : Boundary(c, lex, k) /\ Opens(k)}}
  <2>1. {k \in DOMAIN c : Begins(c, nested)[k] /\ Opens(k)}
           = {k \in 1..Len(c) : Boundary(c, lex, k) /\ Opens(k)}
    BY <1>4
  <2>2. TrueComments(c, nested)
          = UNION {i..E(i) : i \in {k \in DOMAIN c : Begins(c, nested)[k] /\ Opens(k)}}
    BY DEF TrueComments
  <2> QED BY <2>1, <2>2
<1>6. ASSUME NEW j \in 1..Len(c), Boundary(c, lex, j)
      PROVE  /\ E(j) \in j..Len(c)
             /\ \A m \in j..E(j) : lex[m].comment <=> Opens(j)
             /\ E(j) < Len(c) => Boundary(c, lex, E(j) + 1)
  <2>1. Construct(c, nested, lex, j)
    BY <1>2, <1>6, Constructs
  <2> QED BY <2>1 DEF Construct
<1> HIDE DEF E, Opens
<1>7. ASSUME NEW m \in 1..Len(c)
      PROVE  \E j \in 1..Len(c) : Boundary(c, lex, j) /\ m \in j..E(j)
  <2> DEFINE P == {k \in 1..m : Boundary(c, lex, k)}
  <2>1. m \in Nat /\ 1 \in Nat /\ 1 <= m /\ 1 \in P
    <3>1. lex[0].state = "code"
      BY <1>2 DEF Runs, Code
    <3> QED BY <3>1 DEF Boundary
  <2>2. PICK j \in 1..m : j \in P /\ \A k \in (j + 1)..m : k \notin P
    <3> HIDE DEF P
    <3> QED BY ONLY <2>1, LastBelow
  <2>3. j \in 1..Len(c) /\ Boundary(c, lex, j) /\ E(j) \in j..Len(c)
    BY <1>6, <2>2
  <2>4. ASSUME E(j) < m PROVE FALSE
    <3>1. E(j) + 1 \in (j + 1)..m /\ E(j) < Len(c) /\ E(j) + 1 \in 1..m
      BY <2>3, <2>4
    <3>2. Boundary(c, lex, E(j) + 1)
      BY <1>6, <2>3, <3>1
    <3> QED BY <2>2, <3>1, <3>2
  <2>5. m \in j..E(j)
    BY <2>3, <2>4
  <2> QED BY <2>3, <2>5
<1>8. ASSUME NEW m \in CommentOffsets(c, nested) PROVE m \in TrueComments(c, nested)
  <2>1. m \in 1..Len(c) /\ lex[m].comment
    BY <1>3
  <2>2. PICK j \in 1..Len(c) : Boundary(c, lex, j) /\ m \in j..E(j)
    BY <1>7, <2>1
  <2>3. Opens(j)
    BY <1>6, <2>1, <2>2
  <2> QED BY <1>5, <2>2, <2>3
<1>9. ASSUME NEW m \in TrueComments(c, nested) PROVE m \in CommentOffsets(c, nested)
  <2>1. PICK j \in 1..Len(c) : Boundary(c, lex, j) /\ Opens(j) /\ m \in j..E(j)
    BY <1>5
  <2>2. lex[m].comment
    BY <1>6, <2>1
  <2>3. E(j) \in j..Len(c)
    BY <1>6, <2>1
  <2>4. m \in 1..Len(c)
    BY <2>1, <2>3
  <2> QED BY <1>3, <2>2, <2>4
<1> QED BY <1>8, <1>9

-----------------------------------------------------------------------------
(* The matches of a pattern *)

(* A sequence has a length, and that is its domain. *)
LEMMA SequenceIs ==
  ASSUME NEW s, IsSequence(s)
  PROVE  Len(s) \in Nat /\ DOMAIN s = 1..Len(s)
<1>1. PICK S : s \in Seq(S)
  BY DEF IsSequence
<1> QED BY <1>1

(* From the left, the members of a set of which none begins before the one *)
(* taken before it has ended                                               *)
LEMMA LeftmostExists ==
  ASSUME NEW n \in Nat, NEW O, NEW E
  PROVE  \E B \in SUBSET (1..n) : \A i \in 1..n :
            i \in B <=> i \in O /\ \A j \in 1..(i - 1) : j \in B => E[j] < i
<1> DEFINE Taken(B, m) == \A i \in 1..m :
              i \in B <=> i \in O /\ \A j \in 1..(i - 1) : j \in B => E[j] < i
           good == {m \in 0..n : \E B \in SUBSET (1..m) : Taken(B, m)}
<1>1. 0 \in good
  <2>1. Taken({}, 0)
    <3>1. 1..0 = {}
      OBVIOUS
    <3> QED BY <3>1
  <2>2. 0 \in 0..n
    OBVIOUS
  <2>3. {} \in SUBSET (1..0)
    OBVIOUS
  <2> HIDE DEF Taken
  <2> QED BY <2>1, <2>2, <2>3
<1>2. ASSUME NEW m \in 0..n, m \in good, m < n PROVE m + 1 \in good
  <2>1. PICK B \in SUBSET (1..m) : Taken(B, m)
    BY <1>2
  <2> DEFINE new == m + 1 \in O /\ \A j \in 1..m : j \in B => E[j] < m + 1
             C == B \cup {i \in {m + 1} : new}
  <2>2. C \in SUBSET (1..(m + 1))
    <3>1. \A i \in B : i \in 1..(m + 1)
      OBVIOUS
    <3>2. \A i \in {m + 1} : i \in 1..(m + 1)
      OBVIOUS
    <3> HIDE DEF new
    <3> QED BY <3>1, <3>2
  <2>3. \A j \in 1..m : j \in C <=> j \in B
    OBVIOUS
  <2>4. ASSUME NEW i \in 1..(m + 1)
        PROVE  i \in C <=> i \in O /\ \A j \in 1..(i - 1) : j \in C => E[j] < i
    <3>1. CASE i = m + 1
      <4>1. i - 1 = m /\ (i \in C <=> new)
        BY <2>1, <3>1
      <4> HIDE DEF C
      <4> QED BY <2>3, <3>1, <4>1
    <3>2. CASE i # m + 1
      <4>1. i \in 1..m /\ \A j \in 1..(i - 1) : j \in 1..m
        BY <3>2
      <4> HIDE DEF C
      <4> QED BY <2>1, <2>3, <4>1
    <3> QED BY <3>1, <3>2
  <2>5. m + 1 \in 0..n /\ Taken(C, m + 1)
    BY <1>2, <2>4
  <2> HIDE DEF C, Taken
  <2> QED BY <2>2, <2>5
<1>3. \A m \in 0..n : m \in good
  <2> HIDE DEF good
  <2> QED BY <1>1, <1>2, RangeInduction
<1>4. n \in good
  BY <1>3
<1> QED BY <1>4

(* The definition of FindIter has a solution, and so it is one. *)
LEMMA FindIterUnfolds ==
  ASSUME NEW p, NEW c, Len(c) \in Nat
  PROVE  /\ FindIter(p, c) \subseteq 1..Len(c)
         /\ \A i \in 1..Len(c) :
               i \in FindIter(p, c) <=>
                  /\ Found(p, c, i) # {}
                  /\ \A j \in 1..(i - 1) : j \in FindIter(p, c) => EndOf(p, c, j) < i
<1> DEFINE n == Len(c)
           O == {i \in 1..n : Found(p, c, i) # {}}
           E == [j \in 1..n |-> EndOf(p, c, j)]
           Solves(f) == f = [i \in 1..n |->
              /\ Found(p, c, i) # {}
              /\ \A j \in 1..(i - 1) : f[j] => EndOf(p, c, j) < i]
           match == CHOOSE g : Solves(g)
<1>1. n \in Nat
  OBVIOUS
<1>2. PICK B \in SUBSET (1..n) : \A i \in 1..n :
         i \in B <=> i \in O /\ \A j \in 1..(i - 1) : j \in B => E[j] < i
  <2> HIDE DEF n, O, E, Solves, match
  <2> QED BY ONLY <1>1, LeftmostExists
<1> DEFINE f == [i \in 1..n |-> i \in B]
<1>3. Solves(f)
  <2>1. ASSUME NEW i \in 1..n
        PROVE  (i \in B) = (/\ Found(p, c, i) # {}
                            /\ \A j \in 1..(i - 1) : f[j] => EndOf(p, c, j) < i)
    <3>1. \A j \in 1..(i - 1) : j \in 1..n
      BY <1>1
    <3>2. \A j \in 1..n : (f[j] <=> j \in B) /\ E[j] = EndOf(p, c, j)
      BY Zenon
    <3>3. i \in O <=> Found(p, c, i) # {}
      OBVIOUS
    <3>4. i \in B <=> /\ Found(p, c, i) # {}
                      /\ \A j \in 1..(i - 1) : f[j] => EndOf(p, c, j) < i
      <4> HIDE DEF f, E, O
      <4> QED BY <1>2, <3>1, <3>2, <3>3
    <3> DEFINE first == /\ Found(p, c, i) # {}
                        /\ \A j \in 1..(i - 1) : f[j] => EndOf(p, c, j) < i
    <3>5. (i \in B <=> first) /\ first \in BOOLEAN
      BY <3>4
    <3>6. (i \in B) = first
      <4> HIDE DEF first
      <4> QED BY <3>5
    <3> QED BY <3>6
  <2> QED BY <2>1
<1>4. Solves(match)
  <2> HIDE DEF Solves
  <2> QED BY <1>3
<1>5. FindIter(p, c) = {i \in 1..n : match[i]}
  BY DEF FindIter
<1>6. \A i \in 1..n : match[i] <=> /\ Found(p, c, i) # {}
                                   /\ \A j \in 1..(i - 1) : match[j] => EndOf(p, c, j) < i
  <2> HIDE DEF match
  <2> QED BY <1>4
<1> HIDE DEF match
<1>7. ASSUME NEW i \in 1..n
      PROVE  i \in FindIter(p, c) <=>
                /\ Found(p, c, i) # {}
                /\ \A j \in 1..(i - 1) : j \in FindIter(p, c) => EndOf(p, c, j) < i
  <2>1. \A j \in 1..(i - 1) : j \in 1..n
    BY <1>1
  <2>2. \A j \in 1..n : j \in FindIter(p, c) <=> match[j]
    BY <1>5
  <2> QED BY <1>6, <2>1, <2>2
<1>8. FindIter(p, c) \subseteq 1..n
  BY <1>5
<1> QED BY <1>7, <1>8

(* Where a pattern occurs it begins a match, or lies in an earlier one. *)
LEMMA FoundOrOverrun ==
  ASSUME NEW p, IsPattern(p), NEW c, Len(c) \in Nat,
         NEW i \in 1..Len(c), Found(p, c, i) # {}, i \notin FindIter(p, c)
  PROVE  Overrun(p, c, i)
<1>1. PICK j \in 1..(i - 1) : j \in FindIter(p, c) /\ ~(EndOf(p, c, j) < i)
  BY FindIterUnfolds
<1>2. j \in 1..Len(c) /\ Found(p, c, j) # {}
  <2>1. j \in 1..Len(c)
    OBVIOUS
  <2> QED BY <1>1, <2>1, FindIterUnfolds
<1>3. EndOf(p, c, j) \in Int
  <2>1. DOMAIN p.words \subseteq Nat /\ \A n \in DOMAIN p.words : Len(p.words[n]) \in Nat
    BY SequenceIs DEF IsPattern
  <2>2. PICK F : F = Found(p, c, j)
    OBVIOUS
  <2>3. F \in SUBSET Nat /\ F # {} /\ F \subseteq DOMAIN p.words
    BY <1>2, <2>1, <2>2 DEF Found
  <2>4. Min(F) \in DOMAIN p.words
    BY <2>3, MinOf
  <2>5. EndOf(p, c, j) = j + Len(p.words[Min(F)]) - 1
    BY <2>2 DEF EndOf
  <2>6. PICK k : k = Len(p.words[Min(F)])
    OBVIOUS
  <2> QED BY <2>1, <2>4, <2>5, <2>6
<1> QED BY <1>1, <1>2, <1>3 DEF Overrun

-----------------------------------------------------------------------------
(* The invariant *)

(* The configuration is one of those to start from. *)
Configured == \E start \in Starts : config = start.config

(* The files the listing takes, and those of them that hold a secret *)
Listed(f) ==
    IF mode = "staged" THEN index[f] \notin {Absent, Committed[f]}
    ELSE index[f] # Absent \/ tree[f] # Absent
Hit(f) == Listed(f) /\ Snapshot[f] # Absent /\ SecretIn(Snapshot[f])

(* The secret scan: what is known of the files that have not changed *)
SecretsInv ==
    /\ phase \in {"list", "load"} => findings = {}
    /\ phase = "load" => \A f \in still : f \in unread <=> Listed(f)
    /\ phase \notin {"list", "load", "error"} =>
          scanner = Policy /\ Policy # Absent /\ FromSource(Policy)
    /\ phase = "secrets" => \A f \in still :
          /\ f \in unread => Listed(f) /\ f \notin findings
          /\ f \notin unread => (f \in findings <=> Hit(f))
    /\ phase \notin {"list", "load", "secrets", "error"} =>
          \A f \in still : f \in findings <=> Hit(f)

(* The audit is under way or over. *)
Auditing ==
    phase \in {"walk", "audit", "json", "markdown"} \/ (phase = "report" /\ findings = {})

(* The lines of a file that a rule has reported *)
Lines(r, f) == {v.line : v \in {w \in violations : w.rule = r /\ w.file = f}}

(* The rule has been through the file. *)
Searched(r, f) == r <= at \/ (r = at + 1 /\ phase = "audit" /\ f \notin unread)

Progress ==
    /\ ~Auditing => violations = {}
    /\ phase \in {"list", "load", "secrets", "config"} => at = 0
    /\ Auditing => ValidateAudit(config.audit)
    /\ phase = "audit" => at < Len(Rules)
    /\ Auditing /\ phase \notin {"walk", "audit"} => at = Len(Rules)
    /\ phase \in {"config", "walk", "audit", "json", "markdown"} => findings = {}

ViolationsInv ==
    Auditing => \A f \in still : tree[f] # Absent =>
        /\ phase = "audit" /\ f \in unread => Applies(at + 1, f)
        /\ \A r \in 1..Len(Rules) :
              Lines(r, f) = IF Searched(r, f) /\ Applies(r, f)
                            THEN MatchedLines(r, f, tree[f]) ELSE {}

ReportsInv ==
    phase = "markdown" \/ (phase = "report" /\ findings = {}) =>
        reports[config.audit.json] = "json"

ScanInv ==
    /\ ScanTypeOK /\ Configured /\ IsFiniteSet(violations)
    /\ SecretsInv /\ Progress /\ ViolationsInv /\ ReportsInv

-----------------------------------------------------------------------------
(* What every step leaves as it is *)

(* Nothing but an edit touches the repository, and that counts. *)
Keeps ==
    /\ config' = config /\ mode' = mode /\ still' \subseteq still
    /\ \A f \in still' : tree'[f] = tree[f] /\ index'[f] = index[f]

(* The steps of the scans, one by one *)
ScanSteps ==
    \/ List \/ LoadScanner \/ SecretsDone \/ LoadAudit \/ Walk \/ RuleDone \/ Report
    \/ WriteReports \/ IoError
    \/ (\E f \in File : ReadSecrets(f)) \/ (\E f \in File : ReadSource(f))
    \/ (\E f \in File, content \in Edits : Edit(f, content))
    \/ (\E f \in File : \E content \in {tree[f], Absent} : StageFile(f, content))
    \/ UNCHANGED scanVars

(* Every step is one of them. *)
LEMMA StepsAre ==
  ASSUME [ScanNext]_scanVars
  PROVE  ScanSteps
  BY DEF ScanNext, Scan, ScanSteps

(* A failure leaves the repository alone. *)
LEMMA FailKeeps ==
  ASSUME Fail
  PROVE  UNCHANGED repository
  BY DEF Fail

(* Each step keeps the files that count as still. *)
LEMMA StepKeeps ==
  ASSUME ScanTypeOK, ScanSteps
  PROVE  Keeps
<1>1. ASSUME UNCHANGED repository PROVE Keeps
  BY <1>1 DEF repository, Keeps
<1>2. CASE List \/ LoadScanner \/ SecretsDone \/ LoadAudit \/ Walk \/ RuleDone \/ Report
             \/ WriteReports \/ IoError
  <2>1. UNCHANGED repository
    BY <1>2, FailKeeps DEF List, LoadScanner, SecretsDone, LoadAudit, Walk, RuleDone, Report,
          WriteReports, IoError
  <2> QED BY <1>1, <2>1
<1>3. CASE \E f \in File : ReadSecrets(f)
  BY <1>1, <1>3 DEF ReadSecrets
<1>4. CASE \E f \in File : ReadSource(f)
  <2>1. UNCHANGED repository
    BY <1>4, FailKeeps DEF ReadSource
  <2> QED BY <1>1, <2>1
<1>5. CASE \E f \in File, content \in Edits : Edit(f, content)
  <2>1. PICK f \in File, content \in Edits : Edit(f, content)
    BY <1>5
  <2>2. /\ tree' = [tree EXCEPT ![f] = content] /\ still' = still \ {f}
        /\ index' = index /\ config' = config /\ mode' = mode
    BY <2>1 DEF Edit
  <2> QED BY <2>2 DEF Keeps, ScanTypeOK
<1>6. CASE \E f \in File : \E content \in {tree[f], Absent} : StageFile(f, content)
  <2>0. PICK f \in File : \E content : StageFile(f, content)
    BY <1>6
  <2>1. PICK content : StageFile(f, content)
    BY <2>0
  <2>2. /\ index' = [index EXCEPT ![f] = content] /\ still' = still \ {f}
        /\ tree' = tree /\ config' = config /\ mode' = mode
    BY <2>1 DEF StageFile
  <2> QED BY <2>2 DEF Keeps, ScanTypeOK
<1>7. CASE UNCHANGED scanVars
  BY <1>1, <1>7 DEF scanVars, repository
<1> QED BY <1>2, <1>3, <1>4, <1>5, <1>6, <1>7 DEF ScanSteps

(* The rules, and what they say of a text, stay. *)
LEMMA RulesStay ==
  ASSUME config' = config
  PROVE  /\ HardRules' = HardRules /\ Rules' = Rules
         /\ \A r, f : Applies(r, f)' <=> Applies(r, f)
         /\ \A r, f, c : MatchedLines(r, f, c)' = MatchedLines(r, f, c)
<1>1. HardRules' = HardRules
  BY DEF HardRules
<1>2. Rules' = Rules
  BY <1>1 DEF Rules
<1>3. ASSUME NEW r, NEW f PROVE Applies(r, f)' <=> Applies(r, f)
  BY <1>2 DEF Applies
<1>4. ASSUME NEW r, NEW f, NEW c PROVE MatchedLines(r, f, c)' = MatchedLines(r, f, c)
  <2>1. Comments(f, c)' = Comments(f, c)
    BY DEF Comments
  <2>2. \A i : Allowed(r, c, i)' <=> Allowed(r, c, i)
    BY <1>2 DEF Allowed
  <2>3. \A k : PatternLines(r, k, f, c)' = PatternLines(r, k, f, c)
    BY <1>2, <2>1, <2>2 DEF PatternLines
  <2> QED BY <1>2, <2>3 DEF MatchedLines
<1> QED BY <1>1, <1>2, <1>3, <1>4

(* What the secret scan says of a file that does not change stays. *)
LEMMA SnapshotStays ==
  ASSUME Keeps, NEW f \in still'
  PROVE  /\ f \in still /\ Policy' = Policy
         /\ Listed(f)' <=> Listed(f)
         /\ scanner' = scanner => (Hit(f)' <=> Hit(f))
<1>1. f \in still /\ tree'[f] = tree[f] /\ index'[f] = index[f]
  BY DEF Keeps
<1>2. mode' = mode /\ config' = config
  BY DEF Keeps
<1>3. Policy' = Policy
  BY <1>2 DEF Policy
<1>4. Listed(f)' <=> Listed(f)
  BY <1>1, <1>2 DEF Listed
<1>5. Snapshot'[f] = Snapshot[f]
  BY <1>1, <1>2 DEF Snapshot
<1>6. ASSUME scanner' = scanner PROVE Hit(f)' <=> Hit(f)
  <2>1. PICK c : c = Snapshot[f]
    OBVIOUS
  <2>2. SecretIn(c)' <=> SecretIn(c)
    BY <1>6 DEF SecretIn
  <2>3. Hit(f) <=> Listed(f) /\ c # Absent /\ SecretIn(c)
    BY <2>1 DEF Hit
  <2>4. Hit(f)' <=> Listed(f)' /\ c # Absent /\ SecretIn(c)'
    BY <1>5, <2>1 DEF Hit, SecretIn
  <2> QED BY <1>4, <2>2, <2>3, <2>4
<1> QED BY <1>1, <1>3, <1>4, <1>6

-----------------------------------------------------------------------------
(* The secret scan *)

(* The invariant of the secret scan, in a form that names what it reads *)
LEMMA SecretsStay ==
  ASSUME SecretsInv, Keeps, UNCHANGED <<phase, scanner, unread, findings>>
  PROVE  SecretsInv'
<1>1. Policy' = Policy
  BY DEF Keeps, Policy
<1>2. ASSUME NEW f \in still'
      PROVE  f \in still /\ (Listed(f)' <=> Listed(f)) /\ (Hit(f)' <=> Hit(f))
  BY SnapshotStays
<1>3. FromSource(Policy)' <=> FromSource(Policy)
  BY <1>1 DEF FromSource, ValidRule
<1> QED BY <1>1, <1>2, <1>3 DEF SecretsInv

(* After the scan the findings stay. *)
LEMMA FindingsStay ==
  ASSUME SecretsInv, Keeps, UNCHANGED <<scanner, findings>>,
         phase \notin {"list", "load", "secrets", "error"},
         phase' \notin {"list", "load", "secrets", "error"}
  PROVE  SecretsInv'
<1>1. Policy' = Policy
  BY DEF Keeps, Policy
<1>2. ASSUME NEW f \in still'
      PROVE  f \in still /\ (Listed(f)' <=> Listed(f)) /\ (Hit(f)' <=> Hit(f))
  BY SnapshotStays
<1>3. FromSource(Policy)' <=> FromSource(Policy)
  BY <1>1 DEF FromSource, ValidRule
<1> QED BY <1>1, <1>2, <1>3 DEF SecretsInv

(* A failure says nothing. *)
LEMMA FailSecrets ==
  ASSUME Fail
  PROVE  SecretsInv'
  BY DEF Fail, SecretsInv

(* Each step preserves the invariant of the secret scan. *)
LEMMA SecretsStep ==
  ASSUME ScanTypeOK, SecretsInv, ScanSteps
  PROVE  SecretsInv'
<1>0. Keeps
  BY StepKeeps
<1>1. CASE List
  <2>1. phase = "list" /\ phase' = "load" /\ findings' = findings
    BY <1>1 DEF List
  <2>2. mode' = mode /\ tree' = tree /\ index' = index /\ still' = still
    BY <1>1 DEF List, repository
  <2>3. ASSUME NEW f \in still' PROVE f \in unread' <=> Listed(f)'
    <3>1. f \in File
      BY <2>2 DEF ScanTypeOK
    <3>2. f \in unread' <=> Listed(f)
      BY <1>1, <3>1 DEF List, Listed
    <3>3. Listed(f)' <=> Listed(f)
      BY <1>0, SnapshotStays
    <3> QED BY <3>2, <3>3
  <2> QED BY <2>1, <2>3 DEF SecretsInv
<1>2. CASE LoadScanner
  <2>1. CASE Policy # Absent /\ FromSource(Policy)
    <3>1. /\ phase = "load" /\ phase' = "secrets" /\ scanner' = Policy
          /\ unread' = unread /\ findings' = findings
      BY <1>2, <2>1 DEF LoadScanner, Policy
    <3>2. Policy' = Policy
      BY <1>0 DEF Keeps, Policy
    <3>3. FromSource(Policy)'
      BY <2>1, <3>2 DEF FromSource, ValidRule
    <3>4. ASSUME NEW f \in still'
          PROVE  /\ f \in unread' => Listed(f)' /\ f \notin findings'
                 /\ f \notin unread' => (f \in findings' <=> Hit(f)')
      <4>1. f \in still /\ (Listed(f)' <=> Listed(f))
        BY <1>0, SnapshotStays
      <4>2. f \in unread <=> Listed(f)
        BY <3>1, <4>1 DEF SecretsInv
      <4>3. findings = {}
        BY <3>1 DEF SecretsInv
      <4>4. Hit(f)' => Listed(f)'
        BY DEF Hit
      <4> QED BY <3>1, <4>1, <4>2, <4>3, <4>4
    <3> QED BY <2>1, <3>1, <3>2, <3>3, <3>4 DEF SecretsInv
  <2>2. CASE ~(Policy # Absent /\ FromSource(Policy))
    <3>1. Fail
      BY <1>2, <2>2 DEF LoadScanner, Policy
    <3> QED BY <3>1, FailSecrets
  <2> QED BY <2>1, <2>2
<1>3. CASE SecretsDone
  <2>1. /\ phase = "secrets" /\ phase' \in {"config", "report"} /\ unread = {}
        /\ scanner' = scanner /\ findings' = findings
    BY <1>3 DEF SecretsDone
  <2>2. ASSUME NEW f \in still' PROVE f \in findings' <=> Hit(f)'
    <3>1. f \in still /\ (Hit(f)' <=> Hit(f))
      BY <1>0, <2>1, SnapshotStays
    <3> QED BY <2>1, <3>1 DEF SecretsInv
  <2>3. Policy' = Policy
    BY <1>0 DEF Keeps, Policy
  <2>4. FromSource(Policy)' <=> FromSource(Policy)
    BY <2>3 DEF FromSource, ValidRule
  <2> QED BY <2>1, <2>2, <2>3, <2>4 DEF SecretsInv
<1>4. CASE LoadAudit
  <2>1. CASE Fail
    BY <2>1, FailSecrets
  <2>2. CASE ~Fail
    BY <1>0, <1>4, <2>2, FindingsStay DEF LoadAudit
  <2> QED BY <2>1, <2>2
<1>5. CASE Walk \/ RuleDone \/ Report \/ WriteReports
  <2>1. /\ phase \notin {"list", "load", "secrets", "error"}
        /\ phase' \notin {"list", "load", "secrets", "error"}
        /\ UNCHANGED <<scanner, findings>>
    BY <1>5 DEF Walk, RuleDone, Report, WriteReports
  <2> QED BY <1>0, <2>1, FindingsStay
<1>6. CASE IoError
  BY <1>6, FailSecrets DEF IoError
<1>7. CASE \E f \in File : ReadSecrets(f)
  <2>1. PICK g \in File : ReadSecrets(g)
    BY <1>7
  <2>2. /\ phase = "secrets" /\ phase' = "secrets" /\ scanner' = scanner
        /\ g \in unread /\ unread' = unread \ {g}
        /\ findings' = IF Snapshot[g] # Absent /\ SecretIn(Snapshot[g])
                       THEN findings \cup {g} ELSE findings
    BY <2>1 DEF ReadSecrets
  <2>3. ASSUME NEW f \in still'
        PROVE  /\ f \in unread' => Listed(f)' /\ f \notin findings'
               /\ f \notin unread' => (f \in findings' <=> Hit(f)')
    <3>1. f \in still /\ (Listed(f)' <=> Listed(f)) /\ (Hit(f)' <=> Hit(f))
      BY <1>0, <2>2, SnapshotStays
    <3>2. /\ f \in unread => Listed(f) /\ f \notin findings
          /\ f \notin unread => (f \in findings <=> Hit(f))
      BY <2>2, <3>1 DEF SecretsInv
    <3>3. CASE f = g
      <4>1. f \in findings' <=> Snapshot[f] # Absent /\ SecretIn(Snapshot[f])
        BY <2>2, <3>2, <3>3
      <4>2. Hit(f) <=> Snapshot[f] # Absent /\ SecretIn(Snapshot[f])
        BY <2>2, <3>2, <3>3 DEF Hit
      <4> QED BY <2>2, <3>1, <3>3, <4>1, <4>2
    <3>4. CASE f # g
      <4>1. (f \in unread' <=> f \in unread) /\ (f \in findings' <=> f \in findings)
        BY <2>2, <3>4
      <4> QED BY <3>1, <3>2, <4>1
    <3> QED BY <3>3, <3>4
  <2>4. Policy' = Policy
    BY <1>0 DEF Keeps, Policy
  <2>5. FromSource(Policy)' <=> FromSource(Policy)
    BY <2>4 DEF FromSource, ValidRule
  <2> QED BY <2>2, <2>3, <2>4, <2>5 DEF SecretsInv
<1>8. CASE \E f \in File : ReadSource(f)
  <2>1. PICK f \in File : ReadSource(f)
    BY <1>8
  <2>2. CASE Fail
    BY <2>2, FailSecrets
  <2>3. CASE ~Fail
    BY <1>0, <2>1, <2>3, FindingsStay DEF ReadSource
  <2> QED BY <2>2, <2>3
<1>9. CASE \E f \in File, content \in Edits : Edit(f, content)
  BY <1>0, <1>9, SecretsStay DEF Edit
<1>10. CASE \E f \in File : \E content \in {tree[f], Absent} : StageFile(f, content)
  BY <1>0, <1>10, SecretsStay DEF StageFile
<1>11. CASE UNCHANGED scanVars
  BY <1>0, <1>11, SecretsStay DEF scanVars
<1> QED BY <1>1, <1>2, <1>3, <1>4, <1>5, <1>6, <1>7, <1>8, <1>9, <1>10, <1>11 DEF ScanSteps

(* A rule that was accepted matches what it finds credible of its kind. *)
LEMMA AcceptedMatches ==
  ASSUME NEW policy, FromSource(policy),
         \A i \in DOMAIN policy.rules : policy.rules[i].groups \in Nat,
         NEW r \in DOMAIN policy.rules, NEW x \in DOMAIN Captured
  PROVE  RuleMatches(policy, policy.rules[r], Captured[x])
           <=> /\ Captured[x].kind = policy.rules[r].kind
               /\ Credible(policy, policy.rules[r], Captured[x])
<1>1. ValidRule(policy.rules[r])
  BY DEF FromSource
<1>2. \A i \in DOMAIN policy.rules[r].captures :
         policy.rules[r].captures[i] <= policy.rules[r].groups
  <2>1. PICK k, g : k = policy.rules[r].captures /\ g = policy.rules[r].groups
    OBVIOUS
  <2>2. g \in Nat /\ \A i \in DOMAIN k : k[i] \in 1..g
    BY <1>1, <2>1 DEF ValidRule
  <2>3. \A i \in DOMAIN k : k[i] <= g
    BY <2>2
  <2> QED BY <2>1, <2>3
<1> QED BY <1>2 DEF RuleMatches

(* What is known of the files that stay is what SecretsExact says of them. *)
LEMMA SecretsFollow ==
  ASSUME ScanFacts, ScanTypeOK, Configured, SecretsInv
  PROVE  SecretsExact
<1> SUFFICES ASSUME phase \notin {"list", "load", "secrets", "error"}, NEW f \in still
             PROVE  f \in findings <=>
                      /\ Concerned(f)
                      /\ \E i \in DOMAIN Snapshot[f], r \in DOMAIN Policy.rules :
                            /\ Snapshot[f][i] \in DOMAIN Captured
                            /\ Captured[Snapshot[f][i]].kind = Policy.rules[r].kind
                            /\ Credible(Policy, Policy.rules[r], Captured[Snapshot[f][i]])
  BY DEF SecretsExact
<1>1. scanner = Policy /\ Policy # Absent /\ FromSource(Policy) /\ (f \in findings <=> Hit(f))
  BY DEF SecretsInv
<1>2. \A i \in DOMAIN Policy.rules : Policy.rules[i].groups \in Nat
  <2>1. PICK start \in Starts : config = start.config
    BY DEF Configured
  <2>2. Policy \in {start.config.working, start.config.staged} \ {Absent}
    BY <1>1, <2>1 DEF Policy
  <2> QED BY <1>1, <2>2 DEF ScanFacts
<1>3. Concerned(f) <=> Listed(f) /\ Snapshot[f] # Absent
  BY DEF Concerned, Listed, Snapshot, ScanTypeOK
<1>4. PICK p, c : p = Policy /\ c = Snapshot[f]
  OBVIOUS
<1>5. \A r \in DOMAIN p.rules, x \in DOMAIN Captured :
         RuleMatches(p, p.rules[r], Captured[x])
           <=> Captured[x].kind = p.rules[r].kind /\ Credible(p, p.rules[r], Captured[x])
  <2>1. FromSource(p) /\ \A i \in DOMAIN p.rules : p.rules[i].groups \in Nat
    BY <1>1, <1>2, <1>4
  <2> QED BY <2>1, AcceptedMatches
<1>6. SecretIn(c) <=> \E i \in DOMAIN c, r \in DOMAIN p.rules :
                         /\ c[i] \in DOMAIN Captured
                         /\ RuleMatches(p, p.rules[r], Captured[c[i]])
  BY <1>1, <1>4 DEF SecretIn
<1>7. SecretIn(c) <=> \E i \in DOMAIN c, r \in DOMAIN p.rules :
                         /\ c[i] \in DOMAIN Captured
                         /\ Captured[c[i]].kind = p.rules[r].kind
                         /\ Credible(p, p.rules[r], Captured[c[i]])
  BY <1>5, <1>6
<1>8. f \in findings <=> Listed(f) /\ c # Absent /\ SecretIn(c)
  BY <1>1, <1>4 DEF Hit
<1> QED BY <1>3, <1>4, <1>7, <1>8

-----------------------------------------------------------------------------
(* The audit *)

(* The rules are a sequence. *)
LEMMA RulesAre ==
  ASSUME ScanFacts, Configured
  PROVE  /\ Len(HardRules) \in Nat /\ Len(Rules) \in Nat /\ DOMAIN Rules = 1..Len(Rules)
         /\ \A r \in 1..Len(Rules) :
               /\ IsSequence(Rules[r].name) /\ IsSequence(Rules[r].forbidden)
               /\ \A k \in DOMAIN Rules[r].forbidden : IsPattern(Rules[r].forbidden[k])
         /\ \A e \in DOMAIN config.audit.syntax : config.audit.syntax[e].nested \in BOOLEAN
<1>1. PICK start \in Starts : config = start.config
  BY DEF Configured
<1>2. WellFormedAudit(config.audit)
  BY <1>1 DEF ScanFacts
<1>3. PICK S, h, a : /\ S = Range(config.audit.hard) \cup Range(config.audit.arch)
                     /\ h = config.audit.hard /\ a = config.audit.arch
  OBVIOUS
<1>4. h \in Seq(S) /\ a \in Seq(S)
  BY <1>2, <1>3 DEF WellFormedAudit
<1>5. HardRules = h /\ Rules = h \o a
  BY <1>3 DEF HardRules, Rules
<1>6. h \o a \in Seq(S) /\ Len(h) \in Nat
  BY <1>4
<1>7. Len(h \o a) \in Nat /\ DOMAIN (h \o a) = 1..Len(h \o a)
      /\ \A r \in 1..Len(h \o a) : (h \o a)[r] \in S
  BY <1>6
<1>8. \A rule \in S :
         /\ IsSequence(rule.name) /\ IsSequence(rule.forbidden)
         /\ \A k \in DOMAIN rule.forbidden : IsPattern(rule.forbidden[k])
  BY <1>2, <1>3 DEF WellFormedAudit
<1>9. \A e \in DOMAIN config.audit.syntax : config.audit.syntax[e].nested \in BOOLEAN
  BY <1>2 DEF WellFormedAudit
<1> QED BY <1>5, <1>6, <1>7, <1>8, <1>9

(* A file that is there is a sequence of lexemes. *)
LEMMA TextIs ==
  ASSUME ScanFacts, ScanTypeOK, NEW f \in File, tree[f] # Absent
  PROVE  Len(tree[f]) \in Nat /\ DOMAIN tree[f] = 1..Len(tree[f])
<1>1. tree[f] \in Content \ {Absent}
  BY DEF ScanTypeOK
<1> QED BY <1>1, SequenceIs DEF ScanFacts

(* What a function makes of a finite set is finite. *)
LEMMA ImageFinite ==
  ASSUME NEW S, IsFiniteSet(S), NEW g, g = [x \in S |-> g[x]]
  PROVE  IsFiniteSet({g[x] : x \in S})
<1> DEFINE T == {g[x] : x \in S}
<1>1. g \in Surjection(S, T)
  BY DEF Surjection
<1> HIDE DEF T
<1>2. IsFiniteSet(T)
  BY <1>1, FS_Surjection
<1> QED BY <1>2 DEF T

(* The lines found in a text are finitely many, and numbers. *)
LEMMA MatchedLinesAre ==
  ASSUME NEW c, Len(c) \in Nat, DOMAIN c = 1..Len(c), NEW r, NEW f
  PROVE  IsFiniteSet(MatchedLines(r, f, c)) /\ \A l \in MatchedLines(r, f, c) : l \in Nat
<1>1. ASSUME NEW i \in 1..Len(c) PROVE LineAt(c, i) \in Nat
  <2> DEFINE N == {j \in 1..(i - 1) : c[j] = "newline"}
  <2>1. IsFiniteSet(1..(i - 1))
    BY FS_Interval
  <2>2. N \subseteq 1..(i - 1)
    OBVIOUS
  <2>3. Cardinality(N) \in Nat
    <3> HIDE DEF N
    <3>1. IsFiniteSet(N)
      BY <2>1, <2>2, FS_Subset
    <3> QED BY <3>1, FS_CardinalityType
  <2> QED BY <2>3 DEF LineAt
<1> DEFINE S == {LineAt(c, i) : i \in 1..Len(c)}
<1>2. IsFiniteSet(S)
  <2> DEFINE g == [i \in 1..Len(c) |-> LineAt(c, i)]
  <2>1. g = [i \in 1..Len(c) |-> g[i]] /\ \A i \in 1..Len(c) : g[i] = LineAt(c, i)
    OBVIOUS
  <2>2. IsFiniteSet(1..Len(c))
    BY FS_Interval
  <2> HIDE DEF g
  <2>3. IsFiniteSet({g[i] : i \in 1..Len(c)})
    BY <2>1, <2>2, ImageFinite
  <2>4. {g[i] : i \in 1..Len(c)} = S
    BY <2>1
  <2> QED BY <2>3, <2>4
<1>3. MatchedLines(r, f, c) \subseteq S
  <2>1. \A k : FindIter(Rules[r].forbidden[k], c) \subseteq 1..Len(c)
    BY FindIterUnfolds
  <2>2. \A k : PatternLines(r, k, f, c) \subseteq S
    BY <2>1 DEF PatternLines
  <2> HIDE DEF S
  <2> QED BY <2>2 DEF MatchedLines
<1>4. IsFiniteSet(MatchedLines(r, f, c))
  <2> HIDE DEF S
  <2> QED BY <1>2, <1>3, FS_Subset
<1> QED BY <1>1, <1>3, <1>4

(* The part of ScanTypeOK about the progress of the scans *)
ScanType ==
    /\ phase \in {"list", "load", "secrets", "config", "walk", "audit", "json", "markdown",
                  "report", "error"}
    /\ unread \in SUBSET File /\ findings \in SUBSET File
    /\ at \in 0..Len(Rules)
    /\ \A v \in violations :
          /\ v.rule \in 1..Len(Rules) /\ v.file \in File /\ v.line \in Nat
          /\ v.pattern \in DOMAIN Rules[v.rule].forbidden
    /\ reports \in [{config.audit.json, config.audit.markdown} -> {"old", "json", "markdown"}]

(* and the part about the repository *)
RepositoryType ==
    /\ mode \in {"staged", "working"}
    /\ tree \in [File -> Content] /\ index \in [File -> Content]
    /\ edits \in 0..MaxEdits /\ still \in SUBSET File

(* ScanTypeOK is the two together. *)
LEMMA TypeParts ==
  ScanTypeOK <=> ScanType /\ RepositoryType
  BY DEF ScanTypeOK, ScanType, RepositoryType

(* Edits leave a repository behind. *)
LEMMA RepositoryStep ==
  ASSUME ScanFacts, ScanTypeOK, ScanSteps
  PROVE  RepositoryType'
<1>0. RepositoryType /\ MaxEdits \in Nat /\ Absent \in Content /\ Edits \subseteq Content
  BY TypeParts DEF ScanFacts, Content
<1>1. ASSUME UNCHANGED repository PROVE RepositoryType'
  BY <1>0, <1>1 DEF repository, RepositoryType
<1>2. CASE \E f \in File, content \in Edits : Edit(f, content)
  <2>1. PICK f \in File, content \in Content : Edit(f, content)
    BY <1>0, <1>2
  <2>2. /\ tree' = [tree EXCEPT ![f] = content] /\ still' = still \ {f} /\ edits' = edits + 1
        /\ index' = index /\ mode' = mode /\ edits < MaxEdits
    BY <2>1 DEF Edit
  <2> QED BY <1>0, <2>2 DEF RepositoryType
<1>3. CASE \E f \in File : \E content \in {tree[f], Absent} : StageFile(f, content)
  <2>1. PICK f \in File : \E content \in {tree[f], Absent} : StageFile(f, content)
    BY <1>3
  <2> PICK content \in {tree[f], Absent} : StageFile(f, content)
    BY <2>1
  <2>2. /\ index' = [index EXCEPT ![f] = content] /\ still' = still \ {f} /\ edits' = edits + 1
        /\ tree' = tree /\ mode' = mode /\ edits < MaxEdits
    BY DEF StageFile
  <2>3. content \in Content
    BY <1>0 DEF RepositoryType
  <2> QED BY <1>0, <2>2, <2>3 DEF RepositoryType
<1>4. CASE ~\/ \E f \in File, content \in Edits : Edit(f, content)
            \/ \E f \in File : \E content \in {tree[f], Absent} : StageFile(f, content)
  <2>1. UNCHANGED repository
    <3>1. CASE List \/ LoadScanner \/ SecretsDone \/ LoadAudit \/ Walk \/ RuleDone \/ Report
                 \/ WriteReports \/ IoError
      BY <3>1, FailKeeps DEF List, LoadScanner, SecretsDone, LoadAudit, Walk, RuleDone, Report,
            WriteReports, IoError
    <3>2. CASE \E f \in File : ReadSecrets(f)
      BY <3>2 DEF ReadSecrets
    <3>3. CASE \E f \in File : ReadSource(f)
      BY <3>3, FailKeeps DEF ReadSource
    <3>4. CASE UNCHANGED scanVars
      BY <3>4 DEF scanVars, repository
    <3> QED BY <1>4, <3>1, <3>2, <3>3, <3>4 DEF ScanSteps
  <2> QED BY <1>1, <2>1
<1> QED BY <1>2, <1>3, <1>4

(* What a file adds to the violations *)
NewViolations(r, f, c) ==
    {[rule |-> r, file |-> f, line |-> l, pattern |-> FirstPattern(r, f, c, l)] :
        l \in MatchedLines(r, f, c)}

(* A line that is found is found by a pattern of the rule. *)
LEMMA FirstPatternIs ==
  ASSUME NEW c, NEW r, NEW f, IsSequence(Rules[r].forbidden), NEW l \in MatchedLines(r, f, c)
  PROVE  FirstPattern(r, f, c, l) \in DOMAIN Rules[r].forbidden
<1> DEFINE F == {k \in DOMAIN Rules[r].forbidden : l \in PatternLines(r, k, f, c)}
<1>1. F # {}
  BY DEF MatchedLines
<1>2. F \subseteq DOMAIN Rules[r].forbidden
  OBVIOUS
<1>3. DOMAIN Rules[r].forbidden \subseteq Nat
  BY SequenceIs
<1>4. FirstPattern(r, f, c, l) = Min(F)
  BY DEF FirstPattern
<1> HIDE DEF F
<1>5. Min(F) \in F
  BY <1>1, <1>2, <1>3, MinOf
<1> QED BY <1>2, <1>4, <1>5

(* They are finitely many. *)
LEMMA NewViolationsAre ==
  ASSUME NEW c, Len(c) \in Nat, DOMAIN c = 1..Len(c), NEW r, NEW f,
         IsSequence(Rules[r].forbidden)
  PROVE  /\ IsFiniteSet(NewViolations(r, f, c))
         /\ \A v \in NewViolations(r, f, c) :
               /\ v.rule = r /\ v.file = f /\ v.line \in Nat
               /\ v.pattern \in DOMAIN Rules[r].forbidden
<1>1. IsFiniteSet(MatchedLines(r, f, c)) /\ \A l \in MatchedLines(r, f, c) : l \in Nat
  BY MatchedLinesAre
<1>2. PICK L : L = MatchedLines(r, f, c)
  OBVIOUS
<1> DEFINE New(l) == [rule |-> r, file |-> f, line |-> l, pattern |-> FirstPattern(r, f, c, l)]
           g == [l \in L |-> New(l)]
<1>3. g = [l \in L |-> g[l]] /\ \A l \in L : g[l] = New(l)
  OBVIOUS
<1>4. IsFiniteSet({g[l] : l \in L})
  <2> HIDE DEF g
  <2> QED BY <1>1, <1>2, <1>3, ImageFinite
<1>5. {g[l] : l \in L} = NewViolations(r, f, c)
  <2> HIDE DEF g
  <2> QED BY <1>2, <1>3 DEF NewViolations
<1>6. ASSUME NEW v \in NewViolations(r, f, c)
      PROVE  /\ v.rule = r /\ v.file = f /\ v.line \in Nat
             /\ v.pattern \in DOMAIN Rules[r].forbidden
  <2>1. PICK l \in MatchedLines(r, f, c) :
           v = [rule |-> r, file |-> f, line |-> l, pattern |-> FirstPattern(r, f, c, l)]
    BY DEF NewViolations
  <2>2. FirstPattern(r, f, c, l) \in DOMAIN Rules[r].forbidden
    BY FirstPatternIs
  <2> QED BY <1>1, <2>1, <2>2
<1> QED BY <1>4, <1>5, <1>6

(* A file is read: it adds to the violations, or the command fails. *)
LEMMA ReadSourceIs ==
  ASSUME NEW f \in File, ReadSource(f)
  PROVE  /\ phase = "audit" /\ f \in unread
         /\ \/ Fail
            \/ /\ tree[f] # Absent
               /\ violations' = violations \cup NewViolations(at + 1, f, tree[f])
               /\ unread' = unread \ {f}
               /\ UNCHANGED <<repository, phase, scanner, at, findings, reports>>
  BY DEF ReadSource, NewViolations

(* Each step preserves the types of the scans. *)
LEMMA ScanTypeStep ==
  ASSUME ScanFacts, ScanTypeOK, Configured, IsFiniteSet(violations), Progress, ScanSteps
  PROVE  ScanType' /\ IsFiniteSet(violations)'
<1>0. ScanType /\ Keeps
  BY TypeParts, StepKeeps
<1>1. config' = config /\ Rules' = Rules /\ Len(Rules) \in Nat
  BY <1>0, RulesStay, RulesAre DEF Keeps
<1>2. ASSUME Fail PROVE ScanType' /\ IsFiniteSet(violations)'
  <2>1. IsFiniteSet({})
    BY FS_EmptySet
  <2> QED BY <1>0, <1>1, <1>2, <2>1 DEF Fail, ScanType
<1>3. CASE List \/ SecretsDone \/ Walk \/ Report
  BY <1>0, <1>1, <1>3 DEF List, SecretsDone, Walk, Report, ScanType
<1>4. CASE LoadScanner \/ LoadAudit \/ IoError
  <2>1. CASE Fail
    BY <1>2, <2>1
  <2>2. CASE ~Fail
    BY <1>0, <1>1, <1>4, <2>2 DEF LoadScanner, LoadAudit, IoError, ScanType
  <2> QED BY <2>1, <2>2
<1>5. CASE RuleDone
  <2>1. at < Len(Rules)
    BY <1>5 DEF RuleDone, Progress
  <2> QED BY <1>0, <1>1, <1>5, <2>1 DEF RuleDone, ScanType
<1>6. CASE WriteReports
  <2>1. reports' \in [{config.audit.json, config.audit.markdown} -> {"old", "json", "markdown"}]
    BY <1>0, <1>6 DEF WriteReports, ScanType
  <2> QED BY <1>0, <1>1, <1>6, <2>1 DEF WriteReports, ScanType
<1>7. CASE \E f \in File : ReadSecrets(f)
  BY <1>0, <1>1, <1>7 DEF ReadSecrets, ScanType
<1>8. CASE \E f \in File : ReadSource(f)
  <2>1. PICK f \in File : ReadSource(f)
    BY <1>8
  <2>2. CASE Fail
    BY <1>2, <2>2
  <2>3. CASE ~Fail
    <3>1. /\ phase = "audit" /\ tree[f] # Absent
          /\ violations' = violations \cup NewViolations(at + 1, f, tree[f])
          /\ unread' = unread \ {f}
          /\ UNCHANGED <<phase, at, findings, reports>>
      BY <2>1, <2>3, ReadSourceIs
    <3>2. Len(tree[f]) \in Nat /\ DOMAIN tree[f] = 1..Len(tree[f])
      BY <3>1, TextIs
    <3>3. PICK N : N = NewViolations(at + 1, f, tree[f])
      OBVIOUS
    <3>6. at + 1 \in 1..Len(Rules)
      BY <1>0, <1>1, <3>1 DEF Progress, ScanType
    <3>4. /\ IsFiniteSet(N)
          /\ \A v \in N : /\ v.rule = at + 1 /\ v.file = f /\ v.line \in Nat
                          /\ v.pattern \in DOMAIN Rules[at + 1].forbidden
      BY <3>2, <3>3, <3>6, NewViolationsAre, RulesAre
    <3>5. IsFiniteSet(violations')
      BY <3>1, <3>3, <3>4, FS_Union
    <3> QED BY <1>0, <1>1, <3>1, <3>3, <3>4, <3>5, <3>6 DEF ScanType
  <2> QED BY <2>2, <2>3
<1>9. CASE \E f \in File, content \in Edits : Edit(f, content)
  BY <1>0, <1>1, <1>9 DEF Edit, ScanType
<1>10. CASE \E f \in File : \E content \in {tree[f], Absent} : StageFile(f, content)
  BY <1>0, <1>1, <1>10 DEF StageFile, ScanType
<1>11. CASE UNCHANGED scanVars
  BY <1>0, <1>1, <1>11 DEF scanVars, ScanType
<1> QED BY <1>3, <1>4, <1>5, <1>6, <1>7, <1>8, <1>9, <1>10, <1>11 DEF ScanSteps

(* A failure ends the audit. *)
LEMMA FailProgress ==
  ASSUME Fail
  PROVE  Progress' /\ ReportsInv' /\ ViolationsInv' /\ ~Auditing'
  BY DEF Fail, Progress, ReportsInv, ViolationsInv, Auditing

(* Each step preserves how far the audit is. *)
LEMMA ProgressStep ==
  ASSUME ScanFacts, ScanTypeOK, Configured, SecretsInv, Progress, ScanSteps
  PROVE  Progress'
<1>0. Keeps /\ at \in 0..Len(Rules)
  BY StepKeeps DEF ScanTypeOK
<1>1. config' = config /\ Rules' = Rules /\ Len(Rules) \in Nat
  BY <1>0, RulesStay, RulesAre DEF Keeps
<1>2. ValidateAudit(config.audit)' <=> ValidateAudit(config.audit)
  BY <1>1 DEF ValidateAudit, ValidEngine
<1>3. ASSUME UNCHANGED <<phase, at, findings, violations>> PROVE Progress'
  BY <1>1, <1>2, <1>3 DEF Progress, Auditing
<1>4. CASE List
  BY <1>4 DEF List, Progress, Auditing
<1>5. CASE LoadScanner
  <2>1. CASE Fail
    BY <2>1, FailProgress
  <2>2. CASE ~Fail
    BY <1>5, <2>2 DEF LoadScanner, Progress, Auditing
  <2> QED BY <2>1, <2>2
<1>6. CASE SecretsDone
  BY <1>6 DEF SecretsDone, Progress, Auditing
<1>7. CASE LoadAudit
  <2>1. CASE Fail
    BY <2>1, FailProgress
  <2>2. CASE ~Fail
    BY <1>1, <1>2, <1>7, <2>2 DEF LoadAudit, Progress, Auditing
  <2> QED BY <2>1, <2>2
<1>8. CASE Walk
  BY <1>1, <1>2, <1>8 DEF Walk, Progress, Auditing
<1>9. CASE RuleDone
  BY <1>1, <1>2, <1>9 DEF RuleDone, Progress, Auditing
<1>10. CASE Report
  BY <1>1, <1>2, <1>10 DEF Report, Progress, Auditing
<1>11. CASE WriteReports
  BY <1>1, <1>2, <1>11 DEF WriteReports, Progress, Auditing
<1>12. CASE IoError
  BY <1>12, FailProgress DEF IoError
<1>13. CASE \E f \in File : ReadSecrets(f)
  BY <1>13 DEF ReadSecrets, Progress, Auditing
<1>14. CASE \E f \in File : ReadSource(f)
  <2>1. PICK f \in File : ReadSource(f)
    BY <1>14
  <2>2. CASE Fail
    BY <2>2, FailProgress
  <2>3. CASE ~Fail
    <3>1. phase = "audit" /\ UNCHANGED <<phase, at, findings>>
      BY <2>1, <2>3, ReadSourceIs
    <3> QED BY <1>1, <1>2, <3>1 DEF Progress, Auditing
  <2> QED BY <2>2, <2>3
<1>15. CASE \E f \in File, content \in Edits : Edit(f, content)
  BY <1>3, <1>15 DEF Edit
<1>16. CASE \E f \in File : \E content \in {tree[f], Absent} : StageFile(f, content)
  BY <1>3, <1>16 DEF StageFile
<1>17. CASE UNCHANGED scanVars
  BY <1>3, <1>17 DEF scanVars
<1> QED BY <1>4, <1>5, <1>6, <1>7, <1>8, <1>9, <1>10, <1>11, <1>12, <1>13, <1>14, <1>15,
           <1>16, <1>17 DEF ScanSteps

(* Each step preserves what the report files hold. *)
LEMMA ReportsStep ==
  ASSUME ScanTypeOK, SecretsInv, Progress, ReportsInv, ScanSteps
  PROVE  ReportsInv'
<1>0. config' = config
  BY StepKeeps DEF Keeps
<1>1. ASSUME UNCHANGED <<phase, findings, reports>> PROVE ReportsInv'
  BY <1>0, <1>1 DEF ReportsInv
<1>2. CASE List \/ Walk \/ RuleDone \/ Report
  BY <1>2 DEF List, Walk, RuleDone, Report, ReportsInv
<1>3. CASE LoadScanner \/ LoadAudit \/ IoError
  <2>1. CASE Fail
    BY <2>1, FailProgress
  <2>2. CASE ~Fail
    BY <1>3, <2>2 DEF LoadScanner, LoadAudit, IoError, ReportsInv
  <2> QED BY <2>1, <2>2
<1>4. CASE SecretsDone
  BY <1>4 DEF SecretsDone, ReportsInv
<1>5. CASE WriteReports
  <2>1. DOMAIN reports = {config.audit.json, config.audit.markdown}
    BY DEF ScanTypeOK
  <2>2. CASE phase = "json"
    <3>1. reports' = [reports EXCEPT ![config.audit.json] = "json"]
      BY <1>5, <2>2 DEF WriteReports
    <3>2. reports'[config.audit.json] = "json"
      BY <2>1, <3>1 DEF ScanTypeOK
    <3> QED BY <1>0, <3>2 DEF ReportsInv
  <2>3. CASE phase = "markdown"
    <3>1. reports' = [reports EXCEPT ![config.audit.markdown] = "markdown"]
      BY <1>5, <2>3 DEF WriteReports
    <3>2. config.audit.json # config.audit.markdown
      BY <2>3 DEF Progress, Auditing, ValidateAudit, ValidEngine
    <3>3. reports[config.audit.json] = "json"
      BY <2>3 DEF ReportsInv
    <3>4. reports'[config.audit.json] = "json"
      BY <2>1, <3>1, <3>2, <3>3 DEF ScanTypeOK
    <3> QED BY <1>0, <3>4 DEF ReportsInv
  <2> QED BY <1>5, <2>2, <2>3 DEF WriteReports
<1>6. CASE \E f \in File : ReadSecrets(f)
  BY <1>6 DEF ReadSecrets, ReportsInv
<1>7. CASE \E f \in File : ReadSource(f)
  <2>1. PICK f \in File : ReadSource(f)
    BY <1>7
  <2>2. CASE Fail
    BY <2>2, FailProgress
  <2>3. CASE ~Fail
    <3>1. phase = "audit" /\ UNCHANGED <<phase, findings, reports>>
      BY <2>1, <2>3, ReadSourceIs
    <3> QED BY <1>1, <3>1
  <2> QED BY <2>2, <2>3
<1>8. CASE \E f \in File, content \in Edits : Edit(f, content)
  BY <1>1, <1>8 DEF Edit
<1>9. CASE \E f \in File : \E content \in {tree[f], Absent} : StageFile(f, content)
  BY <1>1, <1>9 DEF StageFile
<1>10. CASE UNCHANGED scanVars
  BY <1>1, <1>10 DEF scanVars
<1> QED BY <1>2, <1>3, <1>4, <1>5, <1>6, <1>7, <1>8, <1>9, <1>10 DEF ScanSteps

(* What the audit has found out about one file *)
FileInv(f) ==
    /\ phase = "audit" /\ f \in unread => Applies(at + 1, f)
    /\ \A r \in 1..Len(Rules) :
          Lines(r, f) = IF Searched(r, f) /\ Applies(r, f)
                        THEN MatchedLines(r, f, tree[f]) ELSE {}

(* FileInv after a step, from what the step does to the progress *)
LEMMA FileNext ==
  ASSUME Keeps, NEW f \in still',
         phase' = "audit" /\ f \in unread' => Applies(at' + 1, f),
         \A r \in 1..Len(Rules) :
            Lines(r, f)' = IF Searched(r, f)' /\ Applies(r, f)
                           THEN MatchedLines(r, f, tree[f]) ELSE {}
  PROVE  FileInv(f)'
<1>1. config' = config /\ tree'[f] = tree[f]
  BY DEF Keeps
<1>2. PICK c, k : c = tree[f] /\ k = at'
  OBVIOUS
<1>3. /\ Rules' = Rules /\ (Applies(k + 1, f)' <=> Applies(k + 1, f))
      /\ \A r : Applies(r, f)' <=> Applies(r, f)
      /\ \A r : MatchedLines(r, f, c)' = MatchedLines(r, f, c)
  BY <1>1, RulesStay
<1>4. phase' = "audit" /\ f \in unread' => Applies(k + 1, f)'
  BY <1>2, <1>3
<1>5. ASSUME NEW r \in 1..Len(Rules)
      PROVE  Lines(r, f)' = IF Searched(r, f)' /\ Applies(r, f)'
                            THEN MatchedLines(r, f, c)' ELSE {}
  BY <1>2, <1>3
<1>6. \A r : MatchedLines(r, f, tree[f])' = MatchedLines(r, f, c)'
  <2>1. \A r, n : PatternLines(r, n, f, tree[f])' = PatternLines(r, n, f, c)'
    BY <1>1, <1>2 DEF PatternLines, Comments, Allowed
  <2> QED BY <2>1 DEF MatchedLines
<1>7. Applies(at + 1, f)' <=> Applies(k + 1, f)'
  BY <1>2 DEF Applies
<1> QED BY <1>3, <1>4, <1>5, <1>6, <1>7 DEF FileInv

(* The invariant is about each file that has not changed and is there. *)
LEMMA ViolationsByFile ==
  ASSUME Keeps,
         \A f \in still' : Auditing' /\ tree[f] # Absent => FileInv(f)'
  PROVE  ViolationsInv'
<1>1. ASSUME NEW f \in still' PROVE tree'[f] = tree[f]
  BY DEF Keeps
<1> QED BY <1>1 DEF ViolationsInv, FileInv

(* ScanSteps that do not move the audit *)
LEMMA ViolationsStay ==
  ASSUME ViolationsInv, Keeps, UNCHANGED <<violations, unread, at>>,
         Auditing' => Auditing /\ (phase' = "audit" <=> phase = "audit")
  PROVE  ViolationsInv'
<1>1. ASSUME NEW f \in still', Auditing', tree[f] # Absent PROVE FileInv(f)'
  <2>1. f \in still
    BY DEF Keeps
  <2>2. FileInv(f)
    BY <1>1, <2>1 DEF ViolationsInv, FileInv
  <2>3. phase' = "audit" /\ f \in unread' => Applies(at' + 1, f)
    BY <1>1, <2>2 DEF FileInv
  <2>4. ASSUME NEW r \in 1..Len(Rules)
        PROVE  Lines(r, f)' = IF Searched(r, f)' /\ Applies(r, f)
                              THEN MatchedLines(r, f, tree[f]) ELSE {}
    <3>1. Lines(r, f)' = Lines(r, f)
      BY DEF Lines
    <3>2. Searched(r, f)' <=> Searched(r, f)
      BY <1>1 DEF Searched
    <3> QED BY <2>2, <3>1, <3>2 DEF FileInv
  <2> QED BY <2>3, <2>4, FileNext
<1> QED BY <1>1, ViolationsByFile

(* A file is read by a rule. *)
LEMMA ReadStep ==
  ASSUME ScanTypeOK, ViolationsInv, Keeps, NEW g \in File, phase = "audit", g \in unread,
         tree[g] # Absent, at + 1 \in 1..Len(Rules),
         violations' = violations \cup NewViolations(at + 1, g, tree[g]),
         unread' = unread \ {g}, UNCHANGED <<phase, at, findings>>
  PROVE  ViolationsInv'
<1>1. ASSUME NEW f \in still', Auditing', tree[f] # Absent PROVE FileInv(f)'
  <2>0. f \in still /\ Auditing /\ at \in Nat
    BY DEF Keeps, Auditing, ScanTypeOK
  <2>1. FileInv(f)
    BY <1>1, <2>0 DEF ViolationsInv, FileInv
  <2>2. phase' = "audit" /\ f \in unread' => Applies(at' + 1, f)
    BY <2>1 DEF FileInv
  <2>3. PICK N : N = NewViolations(at + 1, g, tree[g])
    OBVIOUS
  <2>4. ASSUME NEW r \in 1..Len(Rules)
        PROVE  Lines(r, f)' = IF Searched(r, f)' /\ Applies(r, f)
                              THEN MatchedLines(r, f, tree[f]) ELSE {}
    <3>0. Lines(r, f) = IF Searched(r, f) /\ Applies(r, f)
                        THEN MatchedLines(r, f, tree[f]) ELSE {}
      BY <2>1 DEF FileInv
    <3>1. CASE f = g /\ r = at + 1
      <4>1. ~Searched(r, f) /\ Searched(r, f)' /\ Applies(r, f)
        BY <2>0, <2>1, <3>1 DEF Searched, FileInv
      <4>2. Lines(r, f) = {}
        BY <3>0, <4>1
      <4>3. {w \in violations : w.rule = r /\ w.file = f} = {}
        BY <4>2 DEF Lines
      <4>4. {w \in violations' : w.rule = r /\ w.file = f} = N
        <5>1. \A w \in N : w.rule = r /\ w.file = f
          BY <2>3, <3>1 DEF NewViolations
        <5> QED BY <2>3, <4>3, <5>1
      <4>5. {v.line : v \in N} = MatchedLines(r, f, tree[f])
        <5>1. PICK L, q : L = MatchedLines(r, f, tree[f]) /\ q = at + 1
          OBVIOUS
        <5>2. PICK P : N = {[rule |-> q, file |-> f, line |-> l, pattern |-> P[l]] : l \in L}
          <6>1. PICK P : P = [l \in L |-> FirstPattern(q, f, tree[f], l)]
            OBVIOUS
          <6>2. N = {[rule |-> q, file |-> f, line |-> l,
                      pattern |-> FirstPattern(q, f, tree[f], l)] : l \in L}
            BY <2>3, <3>1, <5>1 DEF NewViolations
          <6>3. \A l \in L : P[l] = FirstPattern(q, f, tree[f], l)
            BY <6>1
          <6> QED BY <6>2, <6>3
        <5>3. ASSUME NEW l \in L PROVE \E v \in N : v.line = l
          <6>1. PICK v : v = [rule |-> q, file |-> f, line |-> l, pattern |-> P[l]]
            OBVIOUS
          <6>2. v \in N
            BY <5>2, <6>1
          <6>3. v.line = l
            BY <6>1
          <6> QED BY <6>2, <6>3
        <5>4. \A v \in N : v.line \in L
          BY <5>2
        <5> QED BY <5>1, <5>3, <5>4
      <4>6. Lines(r, f)' = MatchedLines(r, f, tree[f])
        BY <4>4, <4>5 DEF Lines
      <4> QED BY <4>1, <4>6
    <3>2. CASE ~(f = g /\ r = at + 1)
      <4>1. \A w \in N : ~(w.rule = r /\ w.file = f)
        BY <2>3, <3>2 DEF NewViolations
      <4>2. {w \in violations' : w.rule = r /\ w.file = f}
              = {w \in violations : w.rule = r /\ w.file = f}
        BY <2>3, <4>1
      <4>3. Lines(r, f)' = Lines(r, f)
        BY <4>2 DEF Lines
      <4>4. Searched(r, f)' <=> Searched(r, f)
        BY <2>0, <3>2 DEF Searched
      <4> QED BY <3>0, <4>3, <4>4
    <3> QED BY <3>1, <3>2
  <2> QED BY <2>2, <2>4, FileNext
<1> QED BY <1>1, ViolationsByFile

(* Each step preserves what the audit has found out. *)
LEMMA ViolationsStep ==
  ASSUME ScanFacts, ScanTypeOK, Configured, Progress, ViolationsInv, ScanSteps
  PROVE  ViolationsInv'
<1>0. Keeps /\ at \in Nat /\ still \subseteq File /\ Len(Rules) \in Nat
  BY StepKeeps, RulesAre DEF ScanTypeOK
<1>1. ASSUME ~Auditing' PROVE ViolationsInv'
  BY <1>1 DEF ViolationsInv
<1>2. CASE List \/ LoadScanner \/ SecretsDone \/ IoError
  <2>1. ~Auditing'
    <3>1. CASE Fail
      BY <3>1, FailProgress
    <3>2. CASE ~Fail
      BY <1>2, <3>2 DEF List, LoadScanner, SecretsDone, IoError, Auditing
    <3> QED BY <3>1, <3>2
  <2> QED BY <1>1, <2>1
<1>3. CASE LoadAudit
  <2>1. CASE Fail
    BY <2>1, FailProgress
  <2>2. CASE ~Fail
    <3>1. phase' = "walk" /\ violations' = {} /\ at' = 0
      BY <1>3, <2>2 DEF LoadAudit, Progress, Auditing
    <3>2. ASSUME NEW f \in still' PROVE FileInv(f)'
      <4>1. ASSUME NEW r \in 1..Len(Rules) PROVE Lines(r, f)' = {} /\ ~Searched(r, f)'
        <5>1. ~(r <= 0)
          OBVIOUS
        <5> QED BY <3>1, <5>1 DEF Lines, Searched
      <4>2. \A r \in 1..Len(Rules) :
              Lines(r, f)' = IF Searched(r, f)' /\ Applies(r, f)
                             THEN MatchedLines(r, f, tree[f]) ELSE {}
        BY <4>1
      <4>3. phase' = "audit" /\ f \in unread' => Applies(at' + 1, f)
        BY <3>1
      <4> QED BY <1>0, <4>2, <4>3, FileNext
    <3> QED BY <1>0, <3>2, ViolationsByFile
  <2> QED BY <2>1, <2>2
<1>4. CASE Walk
  <2>1. /\ phase = "walk" /\ phase' = "audit" /\ at < Len(Rules)
        /\ unread' = {f \in File : tree[f] # Absent /\ Applies(at + 1, f)}
        /\ at' = at /\ violations' = violations
    BY <1>4 DEF Walk
  <2>2. ASSUME NEW f \in still', tree[f] # Absent PROVE FileInv(f)'
    <3>1. f \in still /\ f \in File
      BY <1>0 DEF Keeps
    <3>2. FileInv(f)
      BY <2>1, <2>2, <3>1 DEF ViolationsInv, FileInv, Auditing
    <3>3. f \in unread' <=> Applies(at + 1, f)
      BY <2>1, <2>2, <3>1
    <3>4. ASSUME NEW r \in 1..Len(Rules)
          PROVE  Lines(r, f)' = IF Searched(r, f)' /\ Applies(r, f)
                                THEN MatchedLines(r, f, tree[f]) ELSE {}
      <4>1. Lines(r, f)' = Lines(r, f)
        BY <2>1 DEF Lines
      <4>2. Searched(r, f) <=> r <= at
        BY <2>1 DEF Searched
      <4>3. Searched(r, f)' /\ Applies(r, f) <=> r <= at /\ Applies(r, f)
        BY <2>1, <3>3 DEF Searched
      <4> QED BY <3>2, <4>1, <4>2, <4>3 DEF FileInv
    <3>5. phase' = "audit" /\ f \in unread' => Applies(at' + 1, f)
      BY <2>1, <3>3
    <3> QED BY <1>0, <3>4, <3>5, FileNext
  <2> QED BY <1>0, <2>2, ViolationsByFile
<1>5. CASE RuleDone
  <2>1. /\ phase = "audit" /\ phase' = "walk" /\ unread = {} /\ at' = at + 1
        /\ violations' = violations
    BY <1>5 DEF RuleDone
  <2>2. ASSUME NEW f \in still', tree[f] # Absent PROVE FileInv(f)'
    <3>1. f \in still
      BY <1>0 DEF Keeps
    <3>2. FileInv(f)
      BY <2>1, <2>2, <3>1 DEF ViolationsInv, FileInv, Auditing
    <3>3. ASSUME NEW r \in 1..Len(Rules)
          PROVE  Lines(r, f)' = IF Searched(r, f)' /\ Applies(r, f)
                                THEN MatchedLines(r, f, tree[f]) ELSE {}
      <4>1. Lines(r, f)' = Lines(r, f)
        BY <2>1 DEF Lines
      <4>2. Searched(r, f)' <=> r <= at + 1
        BY <2>1 DEF Searched
      <4>3. Searched(r, f) <=> r <= at + 1
        BY <1>0, <2>1 DEF Searched
      <4> QED BY <3>2, <4>1, <4>2, <4>3 DEF FileInv
    <3>4. phase' = "audit" /\ f \in unread' => Applies(at' + 1, f)
      BY <2>1
    <3> QED BY <1>0, <3>3, <3>4, FileNext
  <2> QED BY <1>0, <2>2, ViolationsByFile
<1>6. CASE Report \/ WriteReports
  <2>1. /\ UNCHANGED <<violations, unread, at>>
        /\ phase' # "audit" /\ phase # "audit" /\ Auditing
    BY <1>6 DEF Report, WriteReports, Auditing
  <2> QED BY <1>0, <2>1, ViolationsStay
<1>7. CASE \E f \in File : ReadSecrets(f)
  <2>1. ~Auditing'
    BY <1>7 DEF ReadSecrets, Auditing
  <2> QED BY <1>1, <2>1
<1>8. CASE \E f \in File : ReadSource(f)
  <2>1. PICK f \in File : ReadSource(f)
    BY <1>8
  <2>2. CASE Fail
    BY <2>2, FailProgress
  <2>3. CASE ~Fail
    <3>1. /\ phase = "audit" /\ f \in unread /\ tree[f] # Absent
          /\ violations' = violations \cup NewViolations(at + 1, f, tree[f])
          /\ unread' = unread \ {f}
          /\ UNCHANGED <<phase, at, findings>>
      BY <2>1, <2>3, ReadSourceIs
    <3>2. at + 1 \in 1..Len(Rules)
      BY <1>0, <3>1 DEF Progress
    <3> QED BY <1>0, <3>1, <3>2, ReadStep
  <2> QED BY <2>2, <2>3
<1>9. CASE \/ \E f \in File, content \in Edits : Edit(f, content)
           \/ \E f \in File : \E content \in {tree[f], Absent} : StageFile(f, content)
           \/ UNCHANGED scanVars
  <2>1. UNCHANGED <<violations, unread, at, phase, findings>>
    BY <1>9 DEF Edit, StageFile, scanVars
  <2>2. Auditing' => Auditing /\ (phase' = "audit" <=> phase = "audit")
    BY <2>1 DEF Auditing
  <2> QED BY <1>0, <2>1, <2>2, ViolationsStay
<1> QED BY <1>2, <1>3, <1>4, <1>5, <1>6, <1>7, <1>8, <1>9 DEF ScanSteps

-----------------------------------------------------------------------------
(* What follows at the end *)

(* A sequence is a prefix of itself with something behind it. *)
LEMMA PrefixOf ==
  ASSUME NEW s, IsSequence(s), NEW t, IsSequence(t), NEW x
  PROVE  IsPrefix(s, s \o (<<x>> \o t))
<1>1. PICK S, T : s \in Seq(S) /\ t \in Seq(T)
  BY DEF IsSequence
<1>2. PICK U : U = S \cup T \cup {x}
  OBVIOUS
<1>3. s \in Seq(U) /\ t \in Seq(U) /\ <<x>> \in Seq(U)
  BY <1>1, <1>2
<1>4. PICK z : z = <<x>>
  OBVIOUS
<1>5. PICK y : y = z \o t
  OBVIOUS
<1>6. y \in Seq(U)
  BY <1>3, <1>4, <1>5
<1> QED BY <1>3, <1>4, <1>5, <1>6 DEF IsPrefix

(* A rule counts each of its own violations. *)
LEMMA CountedIs ==
  ASSUME ScanFacts, ScanTypeOK, Configured, IsFiniteSet(violations), NEW r \in 1..Len(Rules)
  PROVE  /\ Counted(r) \in Nat
         /\ violations = {} => Counted(r) = 0
         /\ \A v \in violations : v.rule = r => Counted(r) >= 1
<1> DEFINE W == {v \in violations :
                    IF IsHard(r) THEN IsHard(v.rule) /\ IsPrefix(Rules[r].name, Label(v))
                    ELSE v.rule = r}
<1>1. Counted(r) = Cardinality(W)
  BY DEF Counted
<1>2. W \subseteq violations
  OBVIOUS
<1>3. ASSUME NEW v \in violations, v.rule = r PROVE v \in W
  <2>1. IsSequence(Rules[r].name) /\ IsSequence(Rules[r].forbidden[v.pattern].text)
    BY <1>3, RulesAre DEF ScanTypeOK, IsPattern
  <2>2. IsPrefix(Rules[r].name, Label(v))
    BY <1>3, <2>1, PrefixOf DEF Label
  <2> QED BY <1>3, <2>2
<1> HIDE DEF W
<1>4. IsFiniteSet(W)
  BY <1>2, FS_Subset
<1>5. Cardinality(W) \in Nat /\ (Cardinality(W) = 0 <=> W = {})
  BY <1>4, FS_CardinalityType, FS_EmptySet
<1>6. violations = {} => W = {}
  BY <1>2
<1>7. ASSUME NEW v \in violations, v.rule = r PROVE Counted(r) >= 1
  <2>1. W # {}
    BY <1>3, <1>7
  <2> QED BY <1>1, <1>5, <2>1
<1> QED BY <1>1, <1>5, <1>6, <1>7

(* The total of the report is a sum: the definition of the recursive       *)
(* function has a solution, and so it is one.                              *)
LEMMA TotalRuns ==
  ASSUME NEW n \in Nat, n = Len(Rules), \A r \in 1..n : Counted(r) \in Nat
  PROVE  \E g \in [0..n -> Nat] : /\ g[0] = 0 /\ TotalViolations = g[n]
                                  /\ \A r \in 1..n : g[r] = g[r - 1] + Counted(r)
<1> DEFINE T == [r \in 1..n |-> [s \in Nat |-> s + Counted(r)]]
           Solves(g) == g = [r \in 0..n |-> IF r = 0 THEN 0 ELSE g[r - 1] + Counted(r)]
           total == CHOOSE g : Solves(g)
<1>1. T \in [1..n -> [Nat -> Nat]]
  OBVIOUS
<1>2. PICK f \in [0..n -> Nat] : f[0] = 0 /\ \A r \in 1..n : f[r] = T[r][f[r - 1]]
  <2>1. PICK S, U, start : S = Nat /\ U = T /\ start = 0
    OBVIOUS
  <2>2. U \in [1..n -> [S -> S]]
    BY <1>1, <2>1
  <2>3. start \in S
    BY <2>1
  <2>4. n \in Nat
    OBVIOUS
  <2>5. \E f \in [0..n -> S] : f[0] = start /\ \A r \in 1..n : f[r] = U[r][f[r - 1]]
    BY ONLY <2>2, <2>3, <2>4, RunExists
  <2> QED BY <2>1, <2>5
<1>3. ASSUME NEW r \in 1..n PROVE f[r] = f[r - 1] + Counted(r)
  <2>1. f[r - 1] \in Nat
    OBVIOUS
  <2> QED BY <1>2, <2>1
<1>4. Solves(f)
  <2>1. \A r \in 0..n : r # 0 => r \in 1..n
    OBVIOUS
  <2> QED BY <1>2, <1>3, <2>1
<1>5. Solves(total)
  <2> HIDE DEF Solves
  <2> QED BY <1>4
<1>6. TotalViolations = total[n]
  BY DEF TotalViolations
<1> HIDE DEF total
<1>7. total[0] = 0 /\ \A r \in 1..n : total[r] = total[r - 1] + Counted(r)
  BY <1>5
<1>8. \A r \in 0..n : total[r] \in Nat
  <2> DEFINE S == {r \in 0..n : total[r] \in Nat}
  <2>1. 0 \in S
    BY <1>7
  <2>2. ASSUME NEW m \in 0..n, m \in S, m < n PROVE m + 1 \in S
    <3>1. m + 1 \in 1..n /\ (m + 1) - 1 = m
      BY <2>2
    <3>2. total[m + 1] = total[m] + Counted(m + 1) /\ Counted(m + 1) \in Nat
      BY <1>7, <3>1
    <3> QED BY <2>2, <3>1, <3>2
  <2>3. \A m \in 0..n : m \in S
    <3> HIDE DEF S
    <3> QED BY <2>1, <2>2, RangeInduction
  <2> QED BY <2>3
<1>9. total \in [0..n -> Nat]
  BY <1>5, <1>8
<1> QED BY <1>6, <1>7, <1>9

(* The verdict is about the violations, and the full report is there. *)
LEMMA GateFollows ==
  ASSUME ScanFacts, ScanInv
  PROVE  GateIsViolations
<1> SUFFICES ASSUME phase = "report", findings = {}
             PROVE  /\ TotalViolations = 0 <=> violations = {}
                    /\ reports[config.audit.json] = "json"
  BY DEF GateIsViolations
<1>1. reports[config.audit.json] = "json"
  BY DEF ScanInv, ReportsInv
<1>2. PICK n \in Nat : n = Len(Rules)
  BY RulesAre DEF ScanInv
<1>3. ASSUME NEW r \in 1..n
      PROVE  /\ Counted(r) \in Nat
             /\ violations = {} => Counted(r) = 0
             /\ \A v \in violations : v.rule = r => Counted(r) >= 1
  BY <1>2, CountedIs DEF ScanInv
<1>4. PICK g \in [0..n -> Nat] : /\ g[0] = 0 /\ TotalViolations = g[n]
                                 /\ \A r \in 1..n : g[r] = g[r - 1] + Counted(r)
  BY <1>2, <1>3, TotalRuns
<1>5. ASSUME NEW m \in 0..n, m < n
      PROVE  /\ m + 1 \in 1..n /\ g[m + 1] = g[m] + Counted(m + 1)
             /\ g[m] \in Nat /\ Counted(m + 1) \in Nat
  <2>1. m + 1 \in 1..n /\ (m + 1) - 1 = m
    BY <1>5
  <2> QED BY <1>3, <1>4, <2>1
<1>6. ASSUME violations = {} PROVE TotalViolations = 0
  <2> DEFINE S == {r \in 0..n : g[r] = 0}
  <2>1. 0 \in S
    BY <1>4
  <2>2. ASSUME NEW m \in 0..n, m \in S, m < n PROVE m + 1 \in S
    <3>1. Counted(m + 1) = 0
      BY <1>3, <1>5, <1>6, <2>2
    <3> QED BY <1>5, <2>2, <3>1
  <2>3. \A m \in 0..n : m \in S
    <3> HIDE DEF S
    <3> QED BY <2>1, <2>2, RangeInduction
  <2> QED BY <1>4, <2>3
<1>7. ASSUME violations # {} PROVE TotalViolations # 0
  <2>1. PICK v \in violations : TRUE
    BY <1>7
  <2>2. PICK k \in 1..n : k = v.rule
    BY <1>2 DEF ScanInv, ScanTypeOK
  <2> DEFINE S == {r \in k..n : g[r] >= 1}
  <2>3. k \in S
    <3>1. k - 1 \in 0..n /\ k - 1 < n /\ (k - 1) + 1 = k
      OBVIOUS
    <3>2. g[k] = g[k - 1] + Counted(k) /\ g[k - 1] \in Nat /\ Counted(k) \in Nat
      BY <1>5, <3>1
    <3>3. Counted(k) >= 1
      BY <1>3, <2>2
    <3> QED BY <3>2, <3>3
  <2>4. ASSUME NEW m \in k..n, m \in S, m < n PROVE m + 1 \in S
    <3>1. m \in 0..n
      OBVIOUS
    <3>2. g[m + 1] = g[m] + Counted(m + 1) /\ g[m] \in Nat /\ Counted(m + 1) \in Nat
      BY <1>5, <2>4, <3>1
    <3> QED BY <2>4, <3>2
  <2>5. \A m \in k..n : m \in S
    <3> HIDE DEF S
    <3>1. k \in Nat
      OBVIOUS
    <3> QED BY <2>3, <2>4, <3>1, RangeInduction
  <2>6. g[n] >= 1
    BY <2>5
  <2> QED BY <1>4, <2>6
<1> QED BY <1>1, <1>6, <1>7

(* At the end every rule has been through every file, and the comments are *)
(* the true ones.                                                          *)
LEMMA ViolationsFollow ==
  ASSUME ScanFacts, ScanInv
  PROVE  ViolationsAccounted
<1> SUFFICES ASSUME phase = "report", findings = {}, NEW f \in still, tree[f] # Absent,
                    NEW r \in 1..Len(Rules)
             PROVE  IF Applies(r, f)
                    THEN /\ Lines(r, f) \subseteq
                              {LineAt(tree[f], i) :
                                  i \in UNION {Violating(r, k, f) : k \in DOMAIN Rules[r].forbidden}}
                         /\ \A k \in DOMAIN Rules[r].forbidden : \A i \in Violating(r, k, f) :
                              \/ LineAt(tree[f], i) \in Lines(r, f)
                              \/ Overrun(Rules[r].forbidden[k], tree[f], i)
                    ELSE Lines(r, f) = {}
  BY DEF ViolationsAccounted, Lines
<1>1. Auditing /\ at = Len(Rules) /\ Len(Rules) \in Nat /\ f \in File
  BY RulesAre DEF ScanInv, Auditing, Progress, ScanTypeOK
<1>2. Searched(r, f)
  BY <1>1 DEF Searched
<1>3. Lines(r, f) = IF Applies(r, f) THEN MatchedLines(r, f, tree[f]) ELSE {}
  BY <1>1, <1>2 DEF ScanInv, ViolationsInv
<1>4. CASE Applies(r, f)
  <2>1. Extension[f] \in DOMAIN config.audit.syntax
    <3>1. ValidateAudit(config.audit)
      BY <1>1 DEF ScanInv, Progress
    <3>2. Rules = config.audit.hard \o config.audit.arch /\ r \in DOMAIN Rules
      BY RulesAre DEF ScanInv, Rules, HardRules
    <3>3. Rules[r].extensions \subseteq DOMAIN config.audit.syntax
      BY <3>1, <3>2 DEF ValidateAudit
    <3> QED BY <1>4, <3>3 DEF Applies
  <2>2. PICK c, nested : c = tree[f] /\ nested = config.audit.syntax[Extension[f]].nested
    OBVIOUS
  <2>3. nested \in BOOLEAN
    BY <2>1, <2>2, RulesAre DEF ScanInv
  <2>4. Len(c) \in Nat /\ DOMAIN c = 1..Len(c)
    BY <1>1, <2>2, TextIs DEF ScanInv
  <2>5. Comments(f, c) = CommentOffsets(c, nested)
    BY <2>1, <2>2 DEF Comments
  <2>6. CommentOffsets(c, nested) = TrueComments(c, nested)
    BY <2>3, <2>4, CommentsExact
  <2>7. Comments(f, c) = TrueComments(c, nested)
    BY <2>5, <2>6
  <2>8. ASSUME NEW k \in DOMAIN Rules[r].forbidden
        PROVE  /\ PatternLines(r, k, f, c) \subseteq {LineAt(c, i) : i \in Violating(r, k, f)}
               /\ \A i \in Violating(r, k, f) :
                     LineAt(c, i) \in PatternLines(r, k, f, c) \/ Overrun(Rules[r].forbidden[k], c, i)
    <3>1. PICK p : p = Rules[r].forbidden[k]
      OBVIOUS
    <3>2. IsPattern(p)
      BY <3>1, RulesAre DEF ScanInv
    <3>3. Violating(r, k, f) = {i \in 1..Len(c) \ Comments(f, c) :
                                  Found(p, c, i) # {} /\ ~Allowed(r, c, i)}
      BY <2>2, <2>4, <2>7, <3>1 DEF Violating
    <3>4. PatternLines(r, k, f, c) =
             {LineAt(c, i) : i \in {j \in FindIter(p, c) :
                                     j \notin Comments(f, c) /\ ~Allowed(r, c, j)}}
      BY <3>1 DEF PatternLines
    <3>5. \A i \in FindIter(p, c) : i \in 1..Len(c) /\ Found(p, c, i) # {}
      BY <2>4, FindIterUnfolds
    <3>6. PatternLines(r, k, f, c) \subseteq {LineAt(c, i) : i \in Violating(r, k, f)}
      BY <3>3, <3>4, <3>5
    <3>7. ASSUME NEW i \in Violating(r, k, f)
          PROVE  LineAt(c, i) \in PatternLines(r, k, f, c) \/ Overrun(p, c, i)
      <4>1. CASE i \in FindIter(p, c)
        BY <3>3, <3>4, <4>1
      <4>2. CASE i \notin FindIter(p, c)
        BY <2>4, <3>2, <3>3, <4>2, FoundOrOverrun
      <4> QED BY <4>1, <4>2
    <3> QED BY <3>1, <3>6, <3>7
  <2>9. Lines(r, f) = UNION {PatternLines(r, k, f, c) : k \in DOMAIN Rules[r].forbidden}
    BY <1>3, <1>4, <2>2 DEF MatchedLines
  <2>10. Lines(r, f) \subseteq
           {LineAt(c, i) : i \in UNION {Violating(r, k, f) : k \in DOMAIN Rules[r].forbidden}}
    <3>1. ASSUME NEW l \in Lines(r, f)
          PROVE  \E i \in UNION {Violating(r, k, f) : k \in DOMAIN Rules[r].forbidden} :
                    l = LineAt(c, i)
      <4>1. PICK k \in DOMAIN Rules[r].forbidden : l \in PatternLines(r, k, f, c)
        BY <2>9
      <4>2. PICK i \in Violating(r, k, f) : l = LineAt(c, i)
        BY <2>8, <4>1
      <4> QED BY <4>2
    <3> QED BY <3>1
  <2>11. ASSUME NEW k \in DOMAIN Rules[r].forbidden, NEW i \in Violating(r, k, f)
         PROVE  LineAt(c, i) \in Lines(r, f) \/ Overrun(Rules[r].forbidden[k], c, i)
    BY <2>8, <2>9
  <2> QED BY <1>4, <2>2, <2>10, <2>11
<1> QED BY <1>3, <1>4

-----------------------------------------------------------------------------
(* The theorems *)

(* The invariant holds before the scans begin. *)
LEMMA ScanStart ==
  ASSUME ScanFacts, ScanInit
  PROVE  ScanInv
<1>1. PICK start \in Starts :
         /\ tree = start.tree /\ index = start.index /\ config = start.config
         /\ reports = [name \in {start.config.audit.json, start.config.audit.markdown} |-> "old"]
  BY DEF ScanInit
<1>2. Configured
  BY <1>1 DEF Configured
<1>3. Len(Rules) \in Nat
  BY <1>2, RulesAre
<1>4. phase = "list" /\ at = 0 /\ violations = {} /\ findings = {}
  BY DEF ScanInit
<1>5. ScanTypeOK
  <2>1. tree \in [File -> Content] /\ index \in [File -> Content] /\ MaxEdits \in Nat
    BY <1>1 DEF ScanFacts
  <2>2. reports \in [{config.audit.json, config.audit.markdown} -> {"old", "json", "markdown"}]
    BY <1>1
  <2> QED BY <1>3, <2>1, <2>2 DEF ScanTypeOK, ScanInit
<1>6. IsFiniteSet(violations)
  BY <1>4, FS_EmptySet
<1>7. SecretsInv /\ Progress /\ ViolationsInv /\ ReportsInv
  BY <1>4 DEF SecretsInv, Progress, ViolationsInv, ReportsInv, Auditing
<1> QED BY <1>2, <1>5, <1>6, <1>7 DEF ScanInv

(* Each step preserves it. *)
LEMMA ScanStep ==
  ASSUME ScanFacts, ScanInv, [ScanNext]_scanVars
  PROVE  ScanInv'
<1>1. ScanSteps
  BY StepsAre
<1>2. /\ ScanTypeOK /\ Configured /\ IsFiniteSet(violations)
      /\ SecretsInv /\ Progress /\ ViolationsInv /\ ReportsInv
  BY DEF ScanInv
<1>3. ScanType' /\ RepositoryType' /\ IsFiniteSet(violations)'
  BY <1>1, <1>2, ScanTypeStep, RepositoryStep
<1>4. ScanTypeOK'
  BY <1>3 DEF ScanTypeOK, ScanType, RepositoryType
<1>5. Configured'
  BY <1>1, <1>2, StepKeeps DEF Keeps, Configured
<1>6. SecretsInv'
  BY <1>1, <1>2, SecretsStep
<1>7. Progress'
  BY <1>1, <1>2, ProgressStep
<1>8. ViolationsInv'
  BY <1>1, <1>2, ViolationsStep
<1>9. ReportsInv'
  BY <1>1, <1>2, ReportsStep
<1> QED BY <1>3, <1>4, <1>5, <1>6, <1>7, <1>8, <1>9 DEF ScanInv

(* The inductive invariant of the two scans: what is known of the files    *)
(* that have not changed, rule by rule and file by file.                   *)
THEOREM ScanInvariant == ScanSpec => []ScanInv
<1>1. ScanInit => ScanInv
  BY ScanAssumption, ScanStart
<1>2. ScanInv /\ [ScanNext]_scanVars => ScanInv'
  BY ScanAssumption, ScanStep
<1> QED BY <1>1, <1>2, PTL DEF ScanSpec

(* secrets.rs:497: for any files, rules and edits between the listing and  *)
(* the reading, the files reported, of those that stay, are the ones with  *)
(* a capture that a rule of the snapshot's own policy finds credible.      *)
THEOREM ScanSecretsExact == ScanSpec => []SecretsExact
<1>1. ScanInv => SecretsExact
  BY ScanAssumption, SecretsFollow DEF ScanInv
<1> QED BY <1>1, ScanInvariant, PTL

(* audit.rs:620 and 720: for files of any length, with any strings,        *)
(* escapes and nested comments, and patterns of any length, the lines      *)
(* reported of a file that stays have a forbidden pattern that begins      *)
(* outside its comments, and all such lines are reported but those the     *)
(* pattern itself runs over from further to the left.                      *)
THEOREM ScanViolationsAccounted == ScanSpec => []ViolationsAccounted
<1>1. ScanInv => ViolationsAccounted
  BY ScanAssumption, ViolationsFollow
<1> QED BY <1>1, ScanInvariant, PTL

(* verify.rs:156: for any number of rules, however their names begin, the  *)
(* total of the report is zero just when nothing was found.                *)
THEOREM ScanGateIsViolations == ScanSpec => []GateIsViolations
<1>1. ScanInv => GateIsViolations
  BY ScanAssumption, GateFollows
<1> QED BY <1>1, ScanInvariant, PTL

=============================================================================
