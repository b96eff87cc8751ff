----------------------------- MODULE FlowVerify -----------------------------
(***************************************************************************)
(* One run of `arc-flow verify`, `hook` or `step` (main.rs, scope.rs,       *)
(* verify.rs, service.rs): the scope of the change, the two scans, the     *)
(* configured steps with the services they need, and the report.           *)
(*                                                                         *)
(* Every program is a child of FlowProcess.  What the scans find in a file *)
(* is the matter of FlowScan; here a snapshot is clean or not.  The Docker *)
(* daemon is external: a container exists once it has created it, whatever *)
(* has become of the client that asked for it.                             *)
(***************************************************************************)
EXTENDS FlowProcess, Sequences, FiniteSetsExt

CONSTANTS
    Step, Steps,            \* step ids, and the order they are configured in
    Component, ComponentOf, \* of each step
    Profile, ProfilesOf,    \* of each step
    Needs,                  \* the services of each step, in order
    Service, Docker,        \* service ids, those with the docker provider and the
                            \* isolated-postgres policy
    Path, Match,            \* paths, and the components of the rules they match
    Url, Production,        \* values of external_env; DATABASE_URL.  The database a
                            \* URL leads to is not to be seen from it.
    Invocations,            \* bound: the command lines
    Repositories,           \* bound: what is in the repository
    Environments,           \* bound: what the environment gives each service
    None

ASSUME FlowAssumption ==
    /\ Steps \in Seq(Step)
    /\ ComponentOf \in [Step -> Component]
    /\ ProfilesOf \in [Step -> SUBSET Profile]
    /\ Needs \in [Step -> Seq(Service)]
    /\ Docker \subseteq Service
    /\ Match \in [Path -> SUBSET Component]
    /\ Environments \subseteq [Service -> Url \cup {None}]
    /\ None \notin Url \cup Step
    /\ \A i \in Invocations : i.mode = "step" => i.step \in Step
    /\ \A r \in Repositories :
          {r.unstaged, r.staged, r.untracked, r.committed} \subseteq SUBSET Path

Stages == {"scope", "secrets", "audit", "gate", "steps", "services",
           "info", "run", "ready", "port", "health", "undo", "task", "drop",
           "json", "md", "ended"}

VARIABLES
    pc,         \* where the main thread is
    run,        \* what it was asked, and of what: fixed
    calls,      \* git commands still to be run for the scope
    scope,      \* ScopeResult.components
    scans,      \* the results of the scans
    todo,       \* the positions of the selected steps still to be executed
    results,    \* TaskResult.passed of each step, by its position
    svc,        \* ServiceManager: not asked for yet, running, failures
    owned,      \* the running services with a container to remove
    late,       \* the start-up deadline of the current service has passed
    containers, \* the Docker daemon's
    excuse,     \* history: why a container may be left behind
    report,     \* test_result.json and test_result.md
    exit        \* the exit code

vars == <<cancelled, child, pc, run, calls, scope, scans, todo, results, svc,
          owned, late, containers, excuse, report, exit>>

process == <<cancelled, child>>
services == <<svc, owned, late, containers, excuse>>
outcome == <<report, exit>>

TypeOK ==
    /\ ProcessType
    /\ pc \in Stages
    /\ run \in [invocation : Invocations, repository : Repositories,
                environment : Environments]
    /\ calls \in 0..4
    /\ scope \in SUBSET Component
    /\ scans \in [secrets : {"none", "clean", "found"}, audit : {"none", "clean", "found"}]
    /\ todo \in SUBSET DOMAIN Steps
    /\ results \in [DOMAIN Steps -> {"none", "pass", "fail"}]
    /\ svc \in [Service -> {"new", "up", "failed"}]
    /\ owned \in SUBSET Docker /\ containers \in SUBSET Docker
    /\ excuse \in SUBSET (Docker \X {"rm failed", "run cut short"})
    /\ late \in BOOLEAN
    /\ report \in [json : {"old", "pass", "fail"}, md : {"old", "pass", "fail"}]
    /\ exit \in {"none", "success", "failure"}

-----------------------------------------------------------------------------
(* The scope *)

inv == run.invocation
repo == run.repository

(* The git commands of detect for each mode, the worktree check included. *)
CallsOf(mode) ==
    CASE mode = "working" -> 4 [] mode = "base" -> 3
      [] mode \in {"staged", "hook"} -> 2 [] OTHER -> 0

(* The paths of detect: git_paths of each mode *)
Changed ==
    CASE inv.mode = "working" -> repo.unstaged \cup repo.staged \cup repo.untracked
      [] inv.mode \in {"staged", "hook"} -> repo.staged
      [] inv.mode = "base" -> repo.committed
      [] OTHER -> {}

(* classify_paths *)
Unmatched == {p \in Changed : Match[p] = {}}
Classified == UNION {Match[p] : p \in Changed}

(* FlowConfig::components *)
AllComponents == {ComponentOf[Steps[i]] : i \in DOMAIN Steps}

(* detect, explicit_scope.  Policy "all" adds every component whether or   *)
(* not a path is unmatched.                                                *)
Detected ==
    CASE inv.mode = "all" -> AllComponents
      [] inv.mode = "components" -> inv.components
      [] inv.mode = "step" -> {ComponentOf[inv.step]}
      [] OTHER -> Classified \cup IF repo.unmatched = "all" THEN AllComponents ELSE {}

(* run_configured_steps *)
Selected(st) ==
    /\ ComponentOf[st] \in scope
    /\ IF inv.mode = "step" THEN st = inv.step ELSE inv.profile \in ProfilesOf[st]

(* run: a profile no step has is refused *)
KnownProfile ==
    inv.mode = "step" \/ \E i \in DOMAIN Steps : inv.profile \in ProfilesOf[Steps[i]]

Init ==
    /\ ProcessInit
    /\ run \in [invocation : Invocations, repository : Repositories,
                environment : Environments]
    /\ pc = "scope" /\ calls = CallsOf(run.invocation.mode)
    /\ scope = {}
    /\ scans = [secrets |-> "none", audit |-> "none"]
    /\ todo = {}
    /\ results = [i \in DOMAIN Steps |-> "none"]
    /\ svc = [s \in Service |-> "new"]
    /\ owned = {} /\ late = FALSE /\ containers = {} /\ excuse = {}
    /\ report = [json |-> "old", md |-> "old"]
    /\ exit = "none"

-----------------------------------------------------------------------------
(* Starting a child, and going on when it has ended *)

Call(observes) ==
    /\ Spawn(TRUE, observes)
    /\ UNCHANGED <<pc, run, calls, scope, scans, todo, results, services, outcome>>

Return == child' = NoChild /\ UNCHANGED cancelled

(* An error of the verification: what is running is dropped on the way out. *)
Bail == pc' = "drop" /\ exit' = "failure" /\ UNCHANGED report

-----------------------------------------------------------------------------
(* detect *)

GitCall == pc = "scope" /\ calls > 0 /\ Call(TRUE)

GitReturns ==
    /\ pc = "scope" /\ Ended
    /\ Return
    /\ IF Succeeded THEN calls' = calls - 1 /\ UNCHANGED <<pc, outcome>>
                    ELSE Bail /\ UNCHANGED calls
    /\ UNCHANGED <<run, scope, scans, todo, results, services>>

DetectScope ==
    /\ pc = "scope" /\ calls = 0 /\ child = NoChild
    /\ IF \/ repo.unmatched = "fail" /\ Unmatched # {}
          \/ inv.mode = "components" /\ ~(inv.components \subseteq AllComponents)
          \/ ~KnownProfile
       THEN Bail /\ UNCHANGED scope
       ELSE scope' = Detected /\ pc' = "secrets" /\ UNCHANGED outcome
    /\ UNCHANGED <<process, run, calls, scans, todo, results, services>>

(* run_selected.  A scan may fail, and then the run is over. *)
ScanSecrets ==
    /\ pc = "secrets"
    /\ \/ /\ scans' = [scans EXCEPT !.secrets =
                IF (IF inv.mode = "hook" THEN "index" ELSE "work") \in repo.secretIn
                THEN "found" ELSE "clean"]
          /\ pc' = IF scans'.secrets = "clean" THEN "audit" ELSE "gate"
          /\ UNCHANGED outcome
       \/ Bail /\ UNCHANGED scans
    /\ UNCHANGED <<process, run, calls, scope, todo, results, services>>

(* audit::run reads the working tree in every mode. *)
Audit ==
    /\ pc = "audit"
    /\ \/ /\ scans' = [scans EXCEPT !.audit =
                IF "work" \in repo.violationIn THEN "found" ELSE "clean"]
          /\ pc' = "gate"
          /\ UNCHANGED outcome
       \/ Bail /\ UNCHANGED scans
    /\ UNCHANGED <<process, run, calls, scope, todo, results, services>>

ScansClean == scans.secrets = "clean" /\ scans.audit = "clean"

Gate ==
    /\ pc = "gate"
    /\ IF cancelled THEN Bail /\ UNCHANGED todo
       ELSE /\ todo' = {i \in DOMAIN Steps : ScansClean /\ Selected(Steps[i])}
            /\ pc' = "steps"
            /\ UNCHANGED outcome
    /\ UNCHANGED <<process, run, calls, scope, scans, results, services>>

-----------------------------------------------------------------------------
(* run_configured_steps *)

NextStep ==
    /\ pc = "steps"
    /\ IF todo = {} THEN pc' = "drop" /\ UNCHANGED outcome
       ELSE IF cancelled THEN Bail
       ELSE pc' = "services" /\ UNCHANGED outcome
    /\ UNCHANGED <<process, run, calls, scope, scans, todo, results, services>>

(* The services of the first step that are not running, and the first of   *)
(* them                                                                    *)
Needed == Needs[Steps[Min(todo)]]
Missing == {i \in DOMAIN Needed : svc[Needed[i]] # "up"}
Current == Needed[Min(Missing)]

(* The TaskResult of the step *)
Finish(passed) ==
    /\ results' = [results EXCEPT ![Min(todo)] = IF passed THEN "pass" ELSE "fail"]
    /\ todo' = todo \ {Min(todo)}
    /\ pc' = "steps"

(* Mutant: the step is skipped, and no result says so. *)
ServiceSkipped ==
    /\ pc = "services" /\ Missing # {} /\ svc[Current] = "failed"
    /\ todo' = todo \ {Min(todo)} /\ pc' = "steps" /\ UNCHANGED results
    /\ UNCHANGED <<process, run, calls, scope, scans, services, outcome>>

(* environment: "previously failed" *)
ServiceFailed ==
    /\ pc = "services" /\ Missing # {} /\ svc[Current] = "failed"
    /\ Finish(FALSE)
    /\ UNCHANGED <<process, run, calls, scope, scans, services, outcome>>

(* parse_postgres_target, validate_isolated_postgres_url: parsed, it has    *)
(* the scheme, a host and one database name; test, the name ends in _test   *)
(* or -test.  A DATABASE_URL that is not parsed is compared as a text only. *)
Isolated(url) ==
    /\ url.parsed /\ url.test
    /\ url.loopback \/ repo.allowRemote
    /\ Production # None =>
          /\ url # Production
          /\ Production.parsed =>
                ~ /\ url.host = Production.host \/ (url.loopback /\ Production.loopback)
                  /\ url.port = Production.port
                  /\ url.database = Production.database

(* RunningService::start: the environment gives the value, *)
UseEnvironment ==
    LET value == run.environment[Current] IN
    /\ pc = "services" /\ Missing # {} /\ svc[Current] = "new"
    /\ value # None \/ Current \notin Docker
    /\ svc' = [svc EXCEPT ![Current] =
            IF value # None /\ (Current \in Docker => Isolated(value)) THEN "up" ELSE "failed"]
    /\ UNCHANGED <<process, pc, run, calls, scope, scans, todo, results, owned, late,
                   containers, excuse, outcome>>

(* or Docker does. *)
StartDocker ==
    /\ pc = "services" /\ Missing # {} /\ svc[Current] = "new"
    /\ Current \in Docker /\ run.environment[Current] = None
    /\ pc' = "info" /\ late' = FALSE
    /\ UNCHANGED <<process, run, calls, scope, scans, todo, results, svc, owned,
                   containers, excuse, outcome>>

Starting == pc \in {"info", "run", "ready", "port", "health"}

(* The deadline passes. *)
Expire ==
    /\ Starting /\ ~late /\ late' = TRUE
    /\ UNCHANGED <<process, pc, run, calls, scope, scans, todo, results, svc, owned,
                   containers, excuse, outcome>>

(* environment: the failure is kept. *)
StartFails ==
    /\ pc' = "services" /\ svc' = [svc EXCEPT ![Current] = "failed"]
    /\ UNCHANGED owned

(* The client of the docker command of this stage; remaining() *)
DockerCall ==
    /\ pc \in {"info", "run", "port", "health"} /\ child = NoChild /\ ~late
    /\ Call(TRUE)

(* Before run has answered there is nothing to remove; afterwards the      *)
(* RunningService is dropped.                                              *)
DockerFails ==
    IF pc \in {"info", "run"} THEN StartFails
    ELSE pc' = "undo" /\ UNCHANGED <<svc, owned>>

DockerLate ==
    /\ pc \in {"info", "run", "port", "health"} /\ child = NoChild /\ late
    /\ DockerFails
    /\ UNCHANGED <<process, run, calls, scope, scans, todo, results, late, containers,
                   excuse, outcome>>

(* ensure_docker, start_docker and port.  No port yet, or a health check   *)
(* that fails: another round.                                              *)
DockerReturns ==
    /\ pc \in {"info", "run", "port", "health"} /\ Ended
    /\ Return
    /\ CASE pc = "info" /\ Succeeded -> pc' = "run" /\ UNCHANGED <<svc, owned>>
         [] pc = "run" /\ Succeeded ->
                pc' = "ready" /\ owned' = owned \cup {Current} /\ UNCHANGED svc
         [] pc = "port" /\ Succeeded -> pc' = "health" /\ UNCHANGED <<svc, owned>>
         [] pc = "health" /\ Succeeded ->
                pc' = "services" /\ svc' = [svc EXCEPT ![Current] = "up"] /\ UNCHANGED owned
         [] pc \in {"port", "health"} /\ ~Succeeded /\ ~Failed ->
                pc' = "ready" /\ UNCHANGED <<svc, owned>>
         [] OTHER -> DockerFails
    /\ excuse' = IF pc = "run" /\ ~Succeeded THEN excuse \cup {<<Current, "run cut short">>}
                                              ELSE excuse
    /\ UNCHANGED <<run, calls, scope, scans, todo, results, late, containers, outcome>>

(* The head of the loop of start_docker *)
Ready ==
    /\ pc = "ready"
    /\ pc' = IF late \/ cancelled THEN "undo" ELSE "port"
    /\ UNCHANGED <<process, run, calls, scope, scans, todo, results, services, outcome>>

(* The daemon creates the container of the client that is waiting for it. *)
DaemonCreates ==
    /\ pc = "run" /\ "leader" \in child.alive
    /\ containers' = containers \cup {Current}
    /\ UNCHANGED <<process, pc, run, calls, scope, scans, todo, results, svc, owned, late,
                   excuse, outcome>>

-----------------------------------------------------------------------------
(* Drop for RunningService: docker rm --force *)

Victim == IF pc = "undo" THEN Current ELSE CHOOSE s \in owned : TRUE

(* Mutant: the clean-up gives way to a signal. *)
ObservesCancel == TRUE

(* capture_cleanup *)
CleanupObserves == FALSE

RemoveCall ==
    /\ pc = "undo" \/ (pc = "drop" /\ owned # {})
    /\ child = NoChild
    /\ Spawn(TRUE, CleanupObserves)
    /\ UNCHANGED <<pc, run, calls, scope, scans, todo, results, services, outcome>>

(* Whatever the client says is ignored.  One that was stopped early may    *)
(* not have reached the daemon.                                            *)
RemoveReturns ==
    /\ pc \in {"undo", "drop"} /\ Ended
    /\ Return
    /\ excuse' = IF Succeeded \/ child.result = "cancelled" THEN excuse
                 ELSE excuse \cup {<<Victim, "rm failed">>}
    /\ IF Succeeded THEN containers' = containers \ {Victim}
                    ELSE containers' \in {containers, containers \ {Victim}}
    /\ owned' = owned \ {Victim}
    /\ IF pc = "undo" THEN pc' = "services" /\ svc' = [svc EXCEPT ![Victim] = "failed"]
                      ELSE UNCHANGED <<pc, svc>>
    /\ UNCHANGED <<run, calls, scope, scans, todo, results, late, outcome>>

Dropped ==
    /\ pc = "drop" /\ owned = {}
    /\ pc' = IF exit = "failure" THEN "ended" ELSE "json"
    /\ UNCHANGED <<process, run, calls, scope, scans, todo, results, services, outcome>>

-----------------------------------------------------------------------------
(* execute *)

TaskCall ==
    /\ pc = "services" /\ Missing = {}
    /\ Spawn(FALSE, TRUE)
    /\ pc' = "task"
    /\ UNCHANGED <<run, calls, scope, scans, todo, results, services, outcome>>

(* A parser may find too few results in the log of a task that succeeded. *)
TaskReturns ==
    /\ pc = "task" /\ Ended
    /\ Return
    /\ IF child.result \in {"error", "cancelled"} THEN Bail /\ UNCHANGED <<todo, results>>
       ELSE /\ \E parsed \in BOOLEAN : Finish(Succeeded /\ parsed)
            /\ UNCHANGED outcome
    /\ UNCHANGED <<run, calls, scope, scans, services>>

(* A step that passed, all that were executed *)
AllPassed == ScansClean /\ \A i \in DOMAIN Steps : results[i] # "fail"
Verdict == IF AllPassed THEN "pass" ELSE "fail"

(* VerificationReport::write, either file of which may fail, and main *)
WriteJson ==
    /\ pc = "json"
    /\ \/ report' = [report EXCEPT !.json = Verdict] /\ pc' = "md" /\ UNCHANGED exit
       \/ Bail
    /\ UNCHANGED <<process, run, calls, scope, scans, todo, results, services>>

WriteMd ==
    /\ pc = "md"
    /\ \/ /\ report' = [report EXCEPT !.md = Verdict]
          /\ exit' = IF AllPassed THEN "success" ELSE "failure"
          /\ pc' = "ended"
       \/ Bail
    /\ UNCHANGED <<process, run, calls, scope, scans, todo, results, services>>

-----------------------------------------------------------------------------
Main ==
    \/ GitCall \/ GitReturns \/ DetectScope \/ ScanSecrets \/ Audit \/ Gate \/ NextStep
    \/ ServiceFailed \/ UseEnvironment \/ StartDocker \/ DockerCall \/ DockerLate
    \/ DockerReturns \/ Ready \/ RemoveCall \/ RemoveReturns \/ Dropped
    \/ TaskCall \/ TaskReturns \/ WriteJson \/ WriteMd

main == <<pc, run, calls, scope, scans, todo, results, services, outcome>>

(* Left alone, docker run succeeds when its container is there and removes  *)
(* it (--rm) when it cannot be started.                                     *)
CanExit(ok) == pc = "run" => \/ ok = (Current \in containers)
                             \/ ~ok /\ child.stage = "term"

World ==
    \/ pc # "ended" /\ Signal /\ UNCHANGED main
    \/ \E ok \in BOOLEAN : CanExit(ok) /\ LeaderExits(ok) /\ UNCHANGED main
    \/ DaemonCreates

Next ==
    \/ Main \/ Expire \/ World
    \/ Watch /\ UNCHANGED main
    \/ Clock /\ UNCHANGED main
    \/ DescendantExits /\ UNCHANGED main
    \/ pc = "ended" /\ UNCHANGED vars

(* The main thread runs and time passes.  No program is asked to end: not  *)
(* the leader, and not what it has started.                                *)
Spec ==
    /\ Init /\ [][Next]_vars
    /\ WF_vars(Main)
    /\ WF_vars(Watch /\ UNCHANGED main)
    /\ WF_vars(Clock /\ UNCHANGED main)
    /\ WF_vars(Expire)

-----------------------------------------------------------------------------
(* Properties *)

(* What the command line, the profile and the changed paths ask for, said  *)
(* without the code's order of work.                                       *)
Asked(st) ==
    IF inv.mode = "step" THEN st = inv.step
    ELSE /\ inv.profile \in ProfilesOf[st]
         /\ CASE inv.mode = "all" -> TRUE
              [] inv.mode = "components" -> ComponentOf[st] \in inv.components
              [] OTHER -> \E p \in Changed :
                    \/ ComponentOf[st] \in Match[p]
                    \/ Match[p] = {} /\ repo.unmatched = "all"

(* "外部步骤前必须依次通过 secret scan 和 audit" (README.md:310) and        *)
(* "任一步失败后，报告判为失败" (docs/configuration.md:377): a report says  *)
(* pass only when the snapshot it is about is clean, no changed path was   *)
(* lost, and every step asked for was executed and passed, whatever        *)
(* services failed, tasks timed out or signals came on the way; and the    *)
(* exit code agrees with both files.                                       *)
PassIsEarned ==
    /\ report.json = "pass" =>
          /\ (IF inv.mode = "hook" THEN "index" ELSE "work") \notin repo.secretIn
          /\ "work" \notin repo.violationIn
          /\ repo.unmatched = "fail" => \A p \in Changed : Match[p] # {}
          /\ \A i \in DOMAIN Steps : Asked(Steps[i]) => results[i] = "pass"
    /\ exit = "success" => report.json = "pass" /\ report.md = "pass"

(* service.rs:338, Drop: after a success, a failure, a timeout or a signal *)
(* a container is left only when docker rm itself failed, or when docker   *)
(* run was cut short and its RunningService never came to be.              *)
NothingLeftBehind ==
    pc = "ended" => \A s \in containers : \E why \in {"rm failed", "run cut short"} :
                        <<s, why>> \in excuse

(* docs/configuration.md:275: "验证成功、失败、超时或收到中断信号时都会在   *)
(* 独立清理超时内尝试 docker rm --force".  It does not hold of a container  *)
(* whose docker run was cancelled or timed out (service.rs:263).            *)
CleanupAttempted ==
    pc = "ended" => \A s \in containers : <<s, "rm failed">> \in excuse

(* docs/configuration.md:277: isolated-postgres "拒绝与当前 DATABASE_URL 指向 *)
(* 同一数据库": no step is run with a service whose value leads to the      *)
(* database of DATABASE_URL.  It does not hold of a second name of its      *)
(* server, nor when DATABASE_URL is not parsed, as without a host           *)
(* (service.rs:214-217).                                                    *)
TestsSpareProduction ==
    pc = "task" /\ Production # None =>
        \A i \in DOMAIN Needed :
            LET s == Needed[i] IN
            s \in Docker /\ run.environment[s] # None =>
                run.environment[s].leadsTo # Production.leadsTo

(* "工作区没有变更时不会选择 component" (README.md:417).  It does not hold  *)
(* when unmatched = "all" (scope.rs:109).                                  *)
NoChangeNoComponent ==
    pc = "gate" /\ inv.mode \in {"working", "staged", "hook", "base"} /\ Changed = {}
        => scope = {}

(* Every run comes to an end, though its programs may not: each has a      *)
(* timeout, a service has a deadline, and the clean-up has its own.  The    *)
(* one thing that may keep a run for ever is a process that a captured      *)
(* command has left behind and that keeps its output open (process.rs:121). *)
RunEnds == <>(pc = "ended") \/ <>[]Lingering

=============================================================================
