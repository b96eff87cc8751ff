---------------------------- MODULE MCFlowVerify ----------------------------
(* FlowVerify for TLC: two components, three steps, two services. *)
EXTENDS FlowVerify, TLC

CONSTANTS lint, unit, web, env, db, api, page, stray

MCSteps == <<lint, unit, web>>
MCComponentOf == (lint :> "backend") @@ (unit :> "backend") @@ (web :> "frontend")
MCProfilesOf == (lint :> {"fast", "full"}) @@ (unit :> {"full"}) @@ (web :> {"full"})
MCNeeds == (lint :> << >>) @@ (unit :> <<env, db>>) @@ (web :> <<db>>)
MCMatch == (api :> {"backend"}) @@ (page :> {"frontend"}) @@ (stray :> {})

Database(host, loopback, name, test, leadsTo) ==
    [parsed |-> TRUE, host |-> host, loopback |-> loopback, port |-> 5432,
     database |-> name, test |-> test, leadsTo |-> leadsTo]

(* A URL without a host, of the local socket *)
Socket(leadsTo) == [parsed |-> FALSE, leadsTo |-> leadsTo]

MCProduction == Database("localhost", TRUE, "app_test", TRUE, "app")
MCSocket == Socket("app")
MCUrl == {MCProduction, MCSocket,
          Database("127.0.0.1", TRUE, "app_test", TRUE, "app"),
          Database("127.0.0.1", TRUE, "other_test", TRUE, "other"),
          Database("db", FALSE, "app_test", TRUE, "app")}

MCInvocations ==
    {[mode |-> m, profile |-> "full", step |-> None, components |-> {}] :
        m \in {"working", "staged", "base", "all"}}
    \cup {[mode |-> "hook", profile |-> "fast", step |-> None, components |-> {}],
          [mode |-> "all", profile |-> "none", step |-> None, components |-> {}],
          [mode |-> "step", profile |-> "full", step |-> web, components |-> {}]}
    \cup {[mode |-> "components", profile |-> "full", step |-> None, components |-> C] :
            C \in {{"backend"}, {"unknown"}}}

Repository(unstaged, staged, untracked, unmatched, secretIn, violationIn, remote) ==
    [unstaged |-> unstaged, staged |-> staged, untracked |-> untracked,
     committed |-> staged, unmatched |-> unmatched, secretIn |-> secretIn,
     violationIn |-> violationIn, allowRemote |-> remote]

MCRepositories ==
    {Repository({api}, {}, {page}, "fail", {"index"}, {}, FALSE),
     Repository({page}, {api}, {stray}, "ignore", {}, {"index"}, TRUE),
     Repository({}, {stray}, {}, "all", {"work"}, {}, FALSE),
     Repository({}, {stray}, {page}, "fail", {}, {"work"}, FALSE)}

Given(e, d) == (env :> e) @@ (db :> d)

MCEnvironments ==
    LET any == MCProduction IN
    {Given(any, None), Given(None, None)} \cup {Given(any, u) : u \in MCUrl}

=============================================================================
