----------------------------- MODULE MCFlowScan -----------------------------
(* FlowScan for TLC: every source of up to MaxLength lexemes, a second     *)
(* file of another language, rule files of which some are not valid, and   *)
(* one change while the scans run.                                         *)
EXTENDS FlowScan, TLC

CONSTANTS a, b, MaxLength

MCExtension == (a :> "rs") @@ (b :> "ts")

Alphabet == {"open", "close", "line", "quote", "escape", "newline", "bad"}

(* The audit rules: some that are accepted, some that are not *)
Rule(name, extensions, forbidden, allowed) ==
    [name |-> name, severity |-> "error", extensions |-> extensions, excluded |-> {},
     forbidden |-> forbidden, allowed |-> allowed]

Pattern(text, words) == [text |-> <<text>>, words |-> words]
Bad == Pattern("b", << <<"bad">> >>)
Worse == Pattern("w", << <<"worse">> >>)
Lines == Pattern("s", << <<"bad", "newline", "bad">>, <<"bad">> >>)

Syntax(nested) == [nested |-> nested, sameTokens |-> FALSE]

Audit ==
    [version |-> 2, json |-> "audit.json", markdown |-> "audit.md", maxBytes |-> 1,
     syntax |-> ("rs" :> Syntax(TRUE)) @@ ("ts" :> Syntax(FALSE)),
     hard |-> <<Rule(<<"no">>, {"rs"}, <<Bad, Worse>>, {}),
                Rule(<<"no", ":", "b">>, {"rs", "ts"}, <<Worse, Lines>>, {})>>,
     arch |-> <<Rule(<<"layer">>, {"rs", "ts"}, <<Worse>>, {<<"fine">>, <<"quote", "bad">>})>>]

Audits ==
    {[Audit EXCEPT !.version = 1], [Audit EXCEPT !.markdown = "audit.json"],
     [Audit EXCEPT !.syntax = "rs" :> Syntax(TRUE)],
     [Audit EXCEPT !.arch[1].name = <<"no">>], [Audit EXCEPT !.hard[1].extensions = {}],
     [Audit EXCEPT !.hard = << >>]}

(* The secret rules *)
SecretRule(id, kind, captures, minimum) ==
    [id |-> id, kind |-> kind, captures |-> captures, groups |-> 4, minimum |-> minimum,
     pathMinimum |-> minimum, parameters |-> {"key"}, policy |-> "local"]

Secrets ==
    [version |-> 2, unique |-> 6, nonalphanumeric |-> 4,
     rules |-> <<SecretRule("pem", "direct", << >>, 0),
                 SecretRule("token", "value", <<1>>, 20),
                 SecretRule("password", "value", <<2>>, 12),
                 SecretRule("database", "postgres", <<1, 2, 3, 4>>, 8),
                 SecretRule("hook", "webhook", <<1>>, 20)>>]

OtherSecrets ==
    {[Secrets EXCEPT !.rules = <<@[2]>>], [Secrets EXCEPT !.rules[2].captures = <<5>>],
     [Secrets EXCEPT !.rules[4].captures = <<1, 1, 3, 4>>],
     [Secrets EXCEPT !.rules[2].id = "hook"], [Secrets EXCEPT !.unique = 0]}

Text(length, alphanumeric, unique, placeholder) ==
    [length |-> length, alphanumeric |-> alphanumeric, unique |-> unique,
     placeholder |-> placeholder]

Strong == Text(20, 16, 12, FALSE)
Weak == Text(20, 16, 2, FALSE)

MCCaptured ==
    ("pem" :> [kind |-> "direct"])
    @@ ("token" :> [kind |-> "value", value |-> Strong])
    @@ ("password" :> [kind |-> "value", value |-> Text(14, 10, 9, FALSE)])
    @@ ("example" :> [kind |-> "value", value |-> Text(30, 30, 12, TRUE)])
    @@ ("testdb" :> [kind |-> "postgres", value |-> Strong, localTest |-> TRUE])
    @@ ("proddb" :> [kind |-> "postgres", value |-> Text(8, 8, 6, FALSE), localTest |-> FALSE])
    @@ ("hook" :> [kind |-> "webhook", query |-> {[name |-> "key", value |-> Weak],
                                                  [name |-> "page", value |-> Strong]},
                   lastSegment |-> {Strong}])
    @@ ("link" :> [kind |-> "webhook", query |-> {[name |-> "page", value |-> Strong]},
                   lastSegment |-> {}])

Start(c, d, i, j, working, staged, audit) ==
    [tree |-> (a :> c) @@ (b :> d), index |-> (a :> i) @@ (b :> j),
     config |-> [working |-> working, staged |-> staged, audit |-> audit]]

Sources ==
    SeqOf(Alphabet, MaxLength) \cup {
        <<"open", "open", "close", "bad", "close", "bad">>,
        <<"open", "quote", "close", "bad", "quote", "open", "quote", "bad">>,
        <<"quote", "escape", "escape", "quote", "line", "bad", "newline", "bad">>,
        <<"quote", "line", "escape", "quote", "open", "quote", "bad", "close">>}

Contents ==
    {Absent, <<"testdb", "example", "bad">>, <<"open", "token", "close">>, <<"hook", "link">>,
     <<"proddb">>, <<"password">>, <<"open", "open", "close", "worse">>, <<"worse", "newline", "fine", "worse">>}

MCCommitted == (a :> Absent) @@ (b :> <<"pem">>)

MCStarts ==
    {Start(c, <<"worse">>, <<"link">>, Absent, Secrets, Secrets, Audit) : c \in Sources}
    \cup {Start(c, d, <<"token">>, j, Secrets, Secrets, Audit) :
            c \in {<<"line", "worse">>, Absent}, d \in Contents, j \in {<<"pem">>, Absent}}
    \cup {Start(<<"link">>, d, c, d, s, t, Audit) :
            c \in {<<"pem">>, <<"token">>}, d \in {<<"token">>, <<"proddb">>},
            s \in OtherSecrets \cup {Secrets}, t \in OtherSecrets \cup {Secrets, Absent}}
    \cup {Start(c, <<"open", "worse", "close", "worse">>, Absent, Absent, Secrets, Secrets, x) :
            c \in {<<"line", "bad">>, <<"worse">>}, x \in Audits}

MCEdits == {Absent, <<"worse", "token">>}

=============================================================================
