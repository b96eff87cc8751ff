---------------------------- MODULE MCFlowProject ----------------------------
(* FlowProject with a valid user's file and one variant for each rule that *)
(* validation can break.                                                   *)
EXTENDS FlowProject, TLC

CONSTANTS c1, c2

Symmetry == Permutations({c1, c2})

MCVar == {"AUDITOR_CONFIG", "ARC_FLOW_AUDIT_CONFIG", "ARC_FLOW_SECRETS_CONFIG",
          "STEP_TIMEOUT", "ARC_FLOW_DATABASE_TIMEOUT_SECS"}

Plain == [v \in MCVar |-> None]
MCEnvironment ==
    {Plain,
     [Plain EXCEPT !["STEP_TIMEOUT"] = 0],
     [Plain EXCEPT !["STEP_TIMEOUT"] = -1],
     [Plain EXCEPT !["STEP_TIMEOUT"] = 60, !["ARC_FLOW_DATABASE_TIMEOUT_SECS"] = 30],
     [Plain EXCEPT !["AUDITOR_CONFIG"] = "escape", !["ARC_FLOW_AUDIT_CONFIG"] = "v1audit"],
     [Plain EXCEPT !["AUDITOR_CONFIG"] = "escape"],
     [Plain EXCEPT !["ARC_FLOW_SECRETS_CONFIG"] = "escape"]}

Task(id, services) ==
    [id |-> id, component |-> "api", profiles |-> {"full", "hook"}, cwd |-> "root",
     timeout |-> 600, timeoutEnv |-> "STEP_TIMEOUT", parser |-> None,
     services |-> services, remove |-> {"DATABASE_URL"}]

Database(inject) == [docker |-> TRUE, timeout |-> 30, timeoutEnv |-> None, inject |-> inject]

MCPreset ==
    [version |-> 2, default |-> "full", hook |-> "hook", audit |-> "audit",
     secrets |-> "secrets", aliases |-> {}, services |-> << >>, parsers |-> << >>,
     rules |-> <<{"api"}>>, steps |-> <<Task("test", << >>)>>, required |-> <<"test">>,
     checks |-> << >>]

Mine == [MCPreset EXCEPT !.services = [s \in {"db", "cache"} |-> Database(s)],
                         !.steps = <<Task("test", <<"db", "cache">>)>>]

MCUserConfigs ==
    {Mine,
     [Mine EXCEPT !.services["cache"].inject = "db"],
     [Mine EXCEPT !.services["db"].inject = "DATABASE_URL"],
     [Mine EXCEPT !.steps[1].services = <<"db", "queue">>],
     [Mine EXCEPT !.rules = <<{"api", "web"}>>],
     [Mine EXCEPT !.steps[1].profiles = {"full"}],
     [Mine EXCEPT !.required = <<"test", "lint">>]}

OldTask(database, profiles) ==
    [id |-> "test", component |-> "api", profiles |-> profiles, cwd |-> "backend",
     timeout |-> 600, timeoutEnv |-> None, parser |-> "rust", database |-> database]

Old == [version |-> 1, audit |-> "v1audit", timeout |-> 30, rules |-> <<{"api"}>>,
        steps |-> <<OldTask(TRUE, {"full", "hook"})>>, commands |-> <<"cargo">>]

MCLegacies == {Old, [Old EXCEPT !.steps = <<OldTask(FALSE, {"full"})>>]}

Ask(op, root, cwd, config, output, force, env) ==
    [op |-> op, root |-> root, cwd |-> cwd, config |-> config, output |-> output,
     force |-> force, env |-> env]

MCRequests ==
    {Ask("init", "root", "sub", None, None, FALSE, Plain),
     Ask("init", None, "root", None, None, TRUE, Plain),
     Ask("init", None, "sub", None, None, FALSE, Plain),
     Ask("migrate", "root", "sub", None, None, FALSE, Plain),
     Ask("migrate", None, "root", None, None, TRUE, Plain),
     Ask("migrate", None, "root", "v1", "ci", FALSE, Plain),
     Ask("verify", None, "sub", "ci", None, FALSE, Plain)}
    \cup {Ask("verify", None, "sub", None, None, FALSE, env) : env \in MCEnvironment}
    \cup {Ask("verify", "root", "root", "ci", None, FALSE, env) :
            env \in {Plain, [Plain EXCEPT !["AUDITOR_CONFIG"] = "v1audit"]}}

MCEdits == {Mine}

=============================================================================
