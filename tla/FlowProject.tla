---------------------------- MODULE FlowProject ----------------------------
(***************************************************************************)
(* The configuration of arc-flow: `init` and `config migrate` write it     *)
(* (preset.rs), every other command finds, loads and validates it          *)
(* (project.rs, config.rs) before it does anything.  Commands run side by  *)
(* side, may be killed between any two writes, and a write may fail; a     *)
(* write itself is a rename and takes effect at once.                      *)
(*                                                                         *)
(* There are two directories, the root of the repository and one below it. *)
(* A file is named by its directory and what it is: flow is                *)
(* .arc-flow/flow.toml, ci another workflow file, v1 the workflow file of  *)
(* schema 1 and v1audit the audit rules that one names.                    *)
(***************************************************************************)
EXTENDS Integers, Sequences, SequencesExt

CONSTANTS
    Cmd,            \* the commands that run
    Requests,       \* bound: command lines, each with its environment
    UserConfigs,    \* bound: what a user may have written into a workflow file
    Edits,          \* bound: what a user saves there while commands run
    Legacies,       \* bound: schema 1 workflow files
    Preset,         \* the configuration of the preset
    Var,            \* environment variables that are set somewhere
    None

Dir == {"root", "sub"}
Name == {"flow", "ci", "audit", "secrets", "ignore", "v1", "v1audit"}
File == Dir \X Name
Absent == [by |-> "nobody", config |-> None]

VARIABLES
    disk,       \* the files
    cmd         \* the commands

vars == <<disk, cmd>>

-----------------------------------------------------------------------------
(* FlowConfig::validate, on the fields that refer to one another           *)

(* FlowConfig::components *)
Components(c) == {c.steps[i].component : i \in DOMAIN c.steps}
Ids(c) == {c.steps[i].id : i \in DOMAIN c.steps}
Profiles(c) == UNION {c.steps[i].profiles : i \in DOMAIN c.steps}

NoDuplicates(seq) == \A i, j \in DOMAIN seq : seq[i] = seq[j] => i = j

ValidateServices(c) ==
    \A s \in DOMAIN c.services : c.services[s].docker => c.services[s].timeout \in 1..300

(* A parser is its minimum: the number of results it asks for. *)
ValidateParsers(c) == \A p \in DOMAIN c.parsers : c.parsers[p] > 0

ValidateDoctor(c) ==
    /\ NoDuplicates([i \in DOMAIN c.checks |-> c.checks[i].id])
    /\ \A i \in DOMAIN c.checks :
          c.checks[i].service # None => c.checks[i].service \in DOMAIN c.services

ValidateScope(c) ==
    /\ c.rules # << >>
    /\ \A i \in DOMAIN c.rules : c.rules[i] # {} /\ c.rules[i] \subseteq Components(c)

ValidateStep(c, st) ==
    /\ st.profiles # {}
    /\ st.cwd \in c.aliases \cup {"root"}
    /\ st.timeout \in 1..3600
    /\ st.parser # None => st.parser \in DOMAIN c.parsers
    /\ NoDuplicates(st.services)
    /\ \A i \in DOMAIN st.services : st.services[i] \in DOMAIN c.services
    /\ NoDuplicates([i \in DOMAIN st.services |-> c.services[st.services[i]].inject])
    /\ \A i \in DOMAIN st.services : c.services[st.services[i]].inject \notin st.remove

ValidateSteps(c) ==
    /\ c.steps # << >>
    /\ NoDuplicates([i \in DOMAIN c.steps |-> c.steps[i].id])
    /\ \A i \in DOMAIN c.steps : ValidateStep(c, c.steps[i])
    /\ c.default \in Profiles(c) /\ c.hook \in Profiles(c)
    /\ NoDuplicates(c.required)
    /\ \A i \in DOMAIN c.required : c.required[i] \in Ids(c)

(* A path is a name of this directory, or one that escapes it. *)
ValidateRepoPath(path) == path \in Name

Validate(c) ==
    /\ c.version = 2
    /\ ValidateRepoPath(c.audit) /\ ValidateRepoPath(c.secrets)
    /\ ValidateServices(c) /\ ValidateParsers(c) /\ ValidateDoctor(c)
    /\ ValidateScope(c) /\ ValidateSteps(c)

-----------------------------------------------------------------------------
(* The environment *)

(* override_string; a variable that is not set is None *)
Override(env, var, value) == IF var # None /\ env[var] # None THEN env[var] ELSE value

(* override_u64: here a value that does not parse is negative *)
Parses(env, var) == var # None /\ env[var] # None => env[var] >= 0

(* apply_environment: of two variables for a path the second wins.  Those  *)
(* for the reports, the aliases and the images change nothing that other   *)
(* parts of a configuration refer to.                                      *)
ApplyEnvironment(c, env) ==
    [c EXCEPT
        !.audit = Override(env, "ARC_FLOW_AUDIT_CONFIG", Override(env, "AUDITOR_CONFIG", c.audit)),
        !.secrets = Override(env, "ARC_FLOW_SECRETS_CONFIG", c.secrets),
        !.services = [s \in DOMAIN c.services |->
            [c.services[s] EXCEPT !.timeout = Override(env, c.services[s].timeoutEnv, @)]],
        !.steps = [i \in DOMAIN c.steps |->
            [c.steps[i] EXCEPT !.timeout = Override(env, c.steps[i].timeoutEnv, @)]]]

AllParse(c, env) ==
    /\ \A s \in DOMAIN c.services : Parses(env, c.services[s].timeoutEnv)
    /\ \A i \in DOMAIN c.steps : Parses(env, c.steps[i].timeoutEnv)

(* Mutant: what the environment says is not validated. *)
AcceptedAsWritten(c, env) == AllParse(c, env) /\ Validate(c)

(* FlowConfig::load *)
Accepted(c, env) == AllParse(c, env) /\ Validate(ApplyEnvironment(c, env))

-----------------------------------------------------------------------------
(* migrate_v1 *)

(* A step that needs the test database gets the service, and loses         *)
(* DATABASE_URL.                                                           *)
MigratedStep(st) ==
    [id |-> st.id, component |-> st.component, profiles |-> st.profiles, cwd |-> st.cwd,
     timeout |-> st.timeout, timeoutEnv |-> st.timeoutEnv, parser |-> st.parser,
     services |-> IF st.database THEN <<"test-postgres">> ELSE << >>,
     remove |-> IF st.database THEN {"DATABASE_URL"} ELSE {}]

(* The one service, in place of [database] *)
MigratedService(old) ==
    [docker |-> TRUE, timeout |-> old.timeout,
     timeoutEnv |-> "ARC_FLOW_DATABASE_TIMEOUT_SECS", inject |-> "TEST_DATABASE_URL"]

MigrateV1(old) ==
    [version |-> 2, default |-> "full", hook |-> "hook",
     audit |-> old.audit, secrets |-> "secrets",
     aliases |-> {"backend", "frontend", "tool_manifest"},
     services |-> [s \in {"test-postgres"} |-> MigratedService(old)],
     parsers |-> [p \in {"rust", "angular"} |-> 1],
     rules |-> old.rules,
     steps |-> [i \in DOMAIN old.steps |-> MigratedStep(old.steps[i])],
     required |-> [i \in DOMAIN old.steps |-> old.steps[i].id],
     checks |-> [i \in DOMAIN old.commands |-> [id |-> old.commands[i], service |-> None]]
                \o <<[id |-> "test.database", service |-> "test-postgres"]>>]

-----------------------------------------------------------------------------
Stages == {"idle", "check", "audit", "secrets", "flow", "ignore",
           "convert", "fill", "output", "locate", "load", "resolve", "using",
           "over", "refused"}

Idle == [stage |-> "idle", asked |-> None, dir |-> None, file |-> None, config |-> None]

Configs == UserConfigs \cup {Preset} \cup {MigrateV1(old) : old \in Legacies}
Environment == {req.env : req \in Requests}
Effective == {ApplyEnvironment(c, env) : c \in Configs, env \in Environment}

(* What serde accepts has every field. *)
HasFields(r, fields) == r = [x \in fields |-> r[x]]
IsConfig(c) ==
    /\ HasFields(c, {"version", "default", "hook", "audit", "secrets", "aliases", "services",
                     "parsers", "rules", "steps", "required", "checks"})
    /\ \A s \in DOMAIN c.services :
          HasFields(c.services[s], {"docker", "timeout", "timeoutEnv", "inject"})
    /\ \A i \in DOMAIN c.steps :
          HasFields(c.steps[i], {"id", "component", "profiles", "cwd", "timeout", "timeoutEnv",
                                 "parser", "services", "remove"})

ASSUME ProjectAssumption ==
    /\ \A env \in Environment : DOMAIN env = Var
    /\ {"AUDITOR_CONFIG", "ARC_FLOW_AUDIT_CONFIG", "ARC_FLOW_SECRETS_CONFIG"} \subseteq Var
    /\ \A req \in Requests :
          /\ req.root \in Dir \cup {None} /\ req.cwd \in Dir
          /\ req.config \in Name \cup {None} /\ req.output \in Name \cup {None}
    /\ Edits \subseteq UserConfigs
    /\ \A c \in UserConfigs \cup {Preset} : IsConfig(c)
    /\ Validate(Preset) /\ Preset.audit = "audit" /\ Preset.secrets = "secrets"

(* What the files hold, and what each command has read *)
TypeOK ==
    /\ disk \in [File -> [by : {"nobody", "user", "init", "migrate"},
                          config : Configs \cup Legacies \cup {None}]]
    /\ cmd \in [Cmd -> [stage : Stages, asked : Requests \cup {None}, dir : Dir \cup {None},
                        file : File \cup {None}, config : Configs \cup Effective \cup {None}]]

Present(file) == disk[file] # Absent

(* The user may have written any of the files by hand. *)
Init ==
    /\ \E there \in SUBSET {<<"root", n>> : n \in {"flow", "ci", "audit", "secrets", "v1audit"}},
          mine \in UserConfigs, old \in Legacies :
        disk = [f \in File |->
            IF f = <<"root", "v1">> THEN [by |-> "user", config |-> old]
            ELSE IF f \notin there THEN Absent
            ELSE [by |-> "user", config |-> IF f[2] \in {"flow", "ci"} THEN mine ELSE None]]
    /\ cmd = [c \in Cmd |-> Idle]

(* A command that is over has nothing more to say. *)
Step(c, from, to) ==
    /\ cmd[c].stage = from
    /\ cmd' = [cmd EXCEPT ![c] = [(IF to \in {"over", "refused"} THEN Idle ELSE @)
                                    EXCEPT !.stage = to]]
Refuse(c, from) == Step(c, from, "refused") /\ UNCHANGED disk

asked(c) == cmd[c].asked
At(c, name) == <<cmd[c].dir, name>>

(* main: init and migrate work in the directory given or the current one;  *)
(* the others look for the project.                                        *)
Start(c) ==
    \E req \in Requests :
        /\ cmd[c].stage = "idle"
        /\ cmd' = [cmd EXCEPT ![c] =
              [Idle EXCEPT !.asked = req,
                  !.dir = IF req.root # None THEN req.root ELSE req.cwd,
                  !.stage = CASE req.op = "init" -> "check" [] req.op = "migrate" -> "convert"
                              [] OTHER -> "locate"]]
        /\ UNCHANGED disk

-----------------------------------------------------------------------------
(* init *)

(* ensure_writable *)
Writable(c, name) == Present(At(c, name)) => asked(c).force

Check(c) ==
    /\ cmd[c].stage = "check"
    /\ IF \A n \in {"flow", "audit", "secrets"} : Writable(c, n)
       THEN Step(c, "check", "audit") ELSE Step(c, "check", "refused")
    /\ UNCHANGED disk

(* atomic_write, which may fail *)
Write(c, from, to, file, content) ==
    \/ Step(c, from, to) /\ disk' = [disk EXCEPT ![file] = content]
    \/ Refuse(c, from)

Template(by) == [by |-> by, config |-> None]

(* Mutant: the workflow file comes first. *)
FlowFirst(c) ==
    \/ Write(c, "audit", "secrets", At(c, "flow"), [by |-> "init", config |-> Preset])
    \/ Write(c, "secrets", "flow", At(c, "audit"), Template("init"))
    \/ Write(c, "flow", "ignore", At(c, "secrets"), Template("init"))

(* The three files, in this order *)
WriteFiles(c) ==
    \/ Write(c, "audit", "secrets", At(c, "audit"), Template("init"))
    \/ Write(c, "secrets", "flow", At(c, "secrets"), Template("init"))
    \/ Write(c, "flow", "ignore", At(c, "flow"), [by |-> "init", config |-> Preset])

WriteIgnore(c) ==
    /\ cmd[c].stage = "ignore"
    /\ IF Present(At(c, "ignore")) THEN Step(c, "ignore", "over") /\ UNCHANGED disk
       ELSE Write(c, "ignore", "over", At(c, "ignore"), Template("init"))

-----------------------------------------------------------------------------
(* migrate *)

Output(c) == At(c, IF asked(c).output # None THEN asked(c).output ELSE "flow")
Input(c) == disk[At(c, IF asked(c).config # None THEN asked(c).config ELSE "v1")]

(* The output is checked, the input read and converted; only a file of     *)
(* schema 1 parses.                                                        *)
Convert(c) ==
    LET new == MigrateV1(Input(c).config) IN
    /\ cmd[c].stage = "convert"
    /\ IF /\ Present(Output(c)) => asked(c).force
          /\ Input(c).config \in Legacies
          /\ Input(c).config.version = 1
          /\ Validate(new)
       THEN cmd' = [cmd EXCEPT ![c].stage = "fill", ![c].config = new]
       ELSE Step(c, "convert", "refused")
    /\ UNCHANGED disk

(* secrets.toml, unless it is there; nothing for the audit rules *)
Fill(c) ==
    /\ cmd[c].stage = "fill"
    /\ IF Present(At(c, "secrets")) THEN Step(c, "fill", "output") /\ UNCHANGED disk
       ELSE Write(c, "fill", "output", At(c, "secrets"), Template("migrate"))

WriteOutput(c) ==
    Write(c, "output", "over", Output(c), [by |-> "migrate", config |-> cmd[c].config])

-----------------------------------------------------------------------------
(* Project::discover *)

Ancestors(dir) == {dir, "root"}

(* find_root: the repository of the --config file, which is looked for     *)
(* from the current directory; else the nearest directory with a workflow  *)
(* file.                                                                   *)
FindRoot(cwd, config) ==
    IF config # None
    THEN IF Present(<<cwd, config>>) THEN "root" ELSE None
    ELSE LET found == {d \in Ancestors(cwd) : Present(<<d, "flow">>)}
         IN IF found = {} THEN None ELSE IF cwd \in found THEN cwd ELSE "root"

(* and resolve_config_path, from the root *)
Locate(c) ==
    LET req == asked(c)
        root == IF req.root # None THEN req.root ELSE FindRoot(req.cwd, req.config)
        file == <<root, IF req.config # None THEN req.config ELSE "flow">>
    IN /\ cmd[c].stage = "locate"
       /\ IF root # None /\ Present(file)
          THEN cmd' = [cmd EXCEPT ![c].stage = "load", ![c].dir = root, ![c].file = file]
          ELSE Step(c, "locate", "refused")
       /\ UNCHANGED disk

(* FlowConfig::load: a file of another schema does not parse. *)
Load(c) ==
    LET config == disk[cmd[c].file].config IN
    /\ cmd[c].stage = "load"
    /\ IF config \in Configs /\ Accepted(config, asked(c).env)
       THEN cmd' = [cmd EXCEPT ![c].stage = "resolve",
                               ![c].config = ApplyEnvironment(config, asked(c).env)]
       ELSE Step(c, "load", "refused")
    /\ UNCHANGED disk

(* resolve_repo_path and validate: the two rule files are there. *)
Resolve(c) ==
    /\ cmd[c].stage = "resolve"
    /\ IF \A path \in {cmd[c].config.audit, cmd[c].config.secrets} :
             ValidateRepoPath(path) /\ Present(At(c, path))
       THEN Step(c, "resolve", "using") ELSE Step(c, "resolve", "refused")
    /\ UNCHANGED disk

-----------------------------------------------------------------------------
(* A command may be killed wherever it is. *)
Kill(c) == \E s \in Stages \ {"idle", "using", "over", "refused"} :
              Step(c, s, "over") /\ UNCHANGED disk

(* The user saves a workflow file. *)
Edit ==
    /\ \E config \in Edits :
          disk' = [disk EXCEPT ![<<"root", "flow">>] = [by |-> "user", config |-> config]]
    /\ UNCHANGED cmd

Next ==
    \/ \E c \in Cmd : \/ Start(c) \/ Check(c) \/ WriteFiles(c) \/ WriteIgnore(c)
                      \/ Convert(c) \/ Fill(c) \/ WriteOutput(c)
                      \/ Locate(c) \/ Load(c) \/ Resolve(c) \/ Kill(c)
    \/ Edit

Spec == Init /\ [][Next]_vars

-----------------------------------------------------------------------------
(* Properties *)

(* README.md:117: init leaves no half of a configuration, and what init    *)
(* prints as the next command, config check, works.  At every moment,      *)
(* whatever commands overlap, are killed or fail to write, a workflow file *)
(* that arc-flow wrote is one it accepts, next to the rule files it names; *)
(* only the audit rules of a migrated file are the user's to supply.       *)
WrittenLoads ==
    \A dir \in Dir, n \in {"flow", "ci"} :
        LET file == disk[<<dir, n>>] IN
        file.by \in {"init", "migrate"} =>
            /\ Validate(file.config)
            /\ Present(<<dir, file.config.secrets>>)
            /\ file.by = "init" => Present(<<dir, file.config.audit>>)

(* What a step's process finds in each variable a service injects: Task    *)
(* sets what the services gave, and then takes the variables of remove     *)
(* away (configured_task, Task::run).                                      *)
ServiceOf(c, st) ==
    [v \in {c.services[st.services[i]].inject : i \in DOMAIN st.services} |->
        IF v \in st.remove THEN {}
        ELSE {st.services[i] : i \in {j \in DOMAIN st.services :
                c.services[st.services[j]].inject = v}}]

(* What a verification takes for granted of its configuration (verify.rs,  *)
(* service.rs, FlowVerify): whatever the file and the environment say,     *)
(* every child has a time limit, the environment's where it gives one;     *)
(* every component a path can select has a step to run, and so have the    *)
(* two profiles; every service a step names exists and gets its variable   *)
(* to the step; no required step is lost.                                  *)
LoadedIsRunnable ==
    \A p \in Cmd : cmd[p].stage = "using" =>
        LET c == cmd[p].config
            env == asked(p).env
        IN
        /\ \A i \in DOMAIN c.steps : LET st == c.steps[i] IN
              /\ st.timeout > 0
              /\ Override(env, st.timeoutEnv, st.timeout) = st.timeout
              /\ \A j \in DOMAIN st.services : LET s == st.services[j] IN
                    /\ s \in DOMAIN c.services
                    /\ c.services[s].docker => c.services[s].timeout > 0
                    /\ ServiceOf(c, st)[c.services[s].inject] = {s}
        /\ \A i \in DOMAIN c.rules : \A comp \in c.rules[i] :
              \E j \in DOMAIN c.steps : c.steps[j].component = comp
        /\ \A profile \in {c.default, c.hook} :
              \E j \in DOMAIN c.steps : profile \in c.steps[j].profiles
        /\ \A i \in DOMAIN c.required : \E j \in DOMAIN c.steps : c.steps[j].id = c.required[i]

(* README.md:117, "也不会覆盖已有配置，除非显式传入 --force": a step of init *)
(* without --force replaces no file.  It does not hold of a file that       *)
(* appeared since ensure_writable looked (preset.rs:59).                    *)
NeverReplaces ==
    [][\A c \in Cmd, f \in File :
          cmd[c].stage \in {"audit", "secrets", "flow"} /\ cmd'[c] # cmd[c] /\ ~asked(c).force
              /\ disk[f] # Absent
              => disk'[f] = disk[f]]_vars

(* docs/configuration.md:15, "相对路径按项目根解析": a relative --config    *)
(* that is there from the root of the repository is found from any          *)
(* directory below it.  It does not hold (project.rs:205).                  *)
RelativeToRoot ==
    [][\A c \in Cmd :
          LET req == asked(c) IN
          cmd[c].stage = "locate" /\ req.root = None /\ req.config # None
              /\ Present(<<"root", req.config>>)
              => cmd'[c].stage # "refused"]_vars

=============================================================================
