------------------------------ MODULE FlowScan ------------------------------
(***************************************************************************)
(* The two scans that open every verification (secrets.rs, audit.rs).      *)
(*                                                                         *)
(* Each lists the files first and reads them afterwards, the secret scan   *)
(* from the index or from the working tree, its rules included, the audit  *)
(* once per rule and always from the working tree, while an editor and git *)
(* go on changing both.  Files that git and the walk ignore are left out.  *)
(*                                                                         *)
(* A file is a sequence of lexemes: the tokens of the configured comment   *)
(* syntax, an end of line, what the patterns of the rules are made of,     *)
(* what a secret rule captures.  A pattern is the list of the words it     *)
(* matches, sequences of lexemes, in the order the regex prefers them.     *)
(***************************************************************************)
EXTENDS Naturals, Sequences, FiniteSets, FiniteSetsExt, SequencesExt

CONSTANTS
    File, Extension,    \* files, and the extension of each
    Committed,          \* the files of the last commit
    Captured,           \* what the secret rules capture: facts about a lexeme
    Starts,             \* bound: the repositories to start from
    Edits,              \* bound: what the editor may leave in a file
    MaxEdits,           \* bound: how often it does so
    Absent              \* no such file

VARIABLES
    mode,       \* SecretMode
    phase,      \* where the scans are
    tree,       \* the working tree
    index,      \* the index of git
    config,     \* secrets.toml, in the tree and in the index, and audit.toml
    scanner,    \* SecretScanner
    unread,     \* files listed and not yet read
    at,         \* number of rules the audit has finished with
    findings,   \* files with a secret
    violations, \* lines found, per rule and file, and the pattern that found them
    reports,    \* what the report files of the audit hold, by their name
    edits,      \* number of changes so far
    still       \* history: files that have not changed since the start

scanVars == <<mode, phase, tree, index, config, scanner, unread, at, findings, violations,
          reports, edits, still>>

repository == <<mode, tree, index, config, edits, still>>

(* audit::run takes the hard rules first. *)
HardRules == config.audit.hard
Rules == HardRules \o config.audit.arch
IsHard(r) == r <= Len(HardRules)

ScanInit ==
    /\ mode \in {"staged", "working"}
    /\ phase = "list"
    /\ \E start \in Starts :
          /\ tree = start.tree /\ index = start.index
          /\ config = start.config
          /\ reports = [name \in {start.config.audit.json, start.config.audit.markdown} |-> "old"]
    /\ scanner = Absent
    /\ unread = {} /\ at = 0 /\ findings = {} /\ violations = {}
    /\ edits = 0 /\ still = File

(* Any error ends the command, and nothing is said of the files. *)
Fail ==
    /\ phase' = "error"
    /\ unread' = {} /\ findings' = {} /\ violations' = {} /\ at' = 0
    /\ UNCHANGED <<repository, scanner, reports>>

-----------------------------------------------------------------------------
(* The rules of the secret scan *)

(* SecretScanner::from_source: validate_capture, validate_minimum,         *)
(* compile_local_test_policy                                               *)
ValidRule(rule) ==
    /\ rule.id # ""
    /\ \A i \in DOMAIN rule.captures : rule.captures[i] \in 1..rule.groups
    /\ rule.kind = "postgres" =>
          /\ Cardinality(Range(rule.captures)) = Len(rule.captures)
          /\ rule.policy # "empty"
    /\ rule.kind # "direct" => rule.minimum > 0
    /\ rule.kind = "webhook" => rule.pathMinimum > 0 /\ rule.parameters # {}

FromSource(c) ==
    /\ c.version = 2
    /\ c.rules # << >>
    /\ c.unique > 0
    /\ \A i, j \in DOMAIN c.rules : c.rules[i].id = c.rules[j].id => i = j
    /\ \A i \in DOMAIN c.rules : ValidRule(c.rules[i])

SaturatingSub(a, b) == IF a > b THEN a - b ELSE 0

(* looks_like_secret.  A value is its length, how many of its characters   *)
(* are alphanumeric and how many of those differ, and whether the prefixes, *)
(* markers and exact values of [placeholders] know it.                     *)
LooksLikeSecret(policy, v, minimum) ==
    /\ v.length >= minimum
    /\ ~v.placeholder
    /\ v.alphanumeric >= SaturatingSub(minimum, policy.nonalphanumeric)
    /\ v.unique >= policy.unique

(* What is_match, is_local_test_database and webhook_url_contains_secret   *)
(* make of a capture                                                       *)
Credible(policy, rule, c) ==
    CASE c.kind = "direct" -> TRUE
      [] c.kind = "value" -> LooksLikeSecret(policy, c.value, rule.minimum)
      [] c.kind = "postgres" -> /\ ~(rule.policy = "local" /\ c.localTest)
                                /\ LooksLikeSecret(policy, c.value, rule.minimum)
      [] c.kind = "webhook" ->
            \/ \E q \in c.query : /\ q.name \in rule.parameters
                                  /\ LooksLikeSecret(policy, q.value, rule.minimum)
            \/ \E v \in c.lastSegment : LooksLikeSecret(policy, v, rule.pathMinimum)

(* CompiledRule::is_match.  A capture the pattern does not have is None,   *)
(* and does not match.                                                     *)
RuleMatches(policy, rule, c) ==
    /\ c.kind = rule.kind
    /\ \A i \in DOMAIN rule.captures : rule.captures[i] <= rule.groups
    /\ Credible(policy, rule, c)

(* SecretScanner::is_match: comments and strings are searched too. *)
SecretIn(content) ==
    \E i \in DOMAIN content, r \in DOMAIN scanner.rules :
        /\ content[i] \in DOMAIN Captured
        /\ RuleMatches(scanner, scanner.rules[r], Captured[content[i]])

Snapshot == IF mode = "staged" THEN index ELSE tree

(* Mutant: ls-files without --others *)
ListTracked ==
    /\ phase = "list"
    /\ unread' = {f \in File : index[f] # Absent /\ (mode = "staged" => index[f] # Committed[f])}
    /\ phase' = "load"
    /\ UNCHANGED <<repository, scanner, at, findings, violations, reports>>

(* git_files: diff --cached --diff-filter=ACMR, or ls-files --cached --others. *)
(* A file has a content and no type here: a staged change of type, which the  *)
(* filter leaves out, is not modelled.                                        *)
List ==
    /\ phase = "list"
    /\ unread' = {f \in File : IF mode = "staged" THEN index[f] \notin {Absent, Committed[f]}
                               ELSE index[f] # Absent \/ tree[f] # Absent}
    /\ phase' = "load"
    /\ UNCHANGED <<repository, scanner, at, findings, violations, reports>>

(* scanner_for_mode: the rules are those of the snapshot. *)
LoadScanner ==
    LET source == IF mode = "staged" THEN config.staged ELSE config.working IN
    /\ phase = "load"
    /\ IF source # Absent /\ FromSource(source)
       THEN /\ scanner' = source /\ phase' = "secrets"
            /\ UNCHANGED <<repository, unread, at, findings, violations, reports>>
       ELSE Fail

(* scan: a file that is gone is passed over. *)
ReadSecrets(f) ==
    /\ phase = "secrets" /\ f \in unread
    /\ unread' = unread \ {f}
    /\ findings' = IF Snapshot[f] # Absent /\ SecretIn(Snapshot[f])
                   THEN findings \cup {f} ELSE findings
    /\ UNCHANGED <<repository, phase, scanner, at, violations, reports>>

(* run_selected: the audit is for a snapshot without findings. *)
SecretsDone ==
    /\ phase = "secrets" /\ unread = {}
    /\ phase' = IF findings = {} THEN "config" ELSE "report"
    /\ UNCHANGED <<repository, scanner, unread, at, findings, violations, reports>>

-----------------------------------------------------------------------------
(* The comments of a file *)

Code == [state |-> "code", depth |-> 0, comment |-> FALSE]
InLine == [state |-> "line", depth |-> 0, comment |-> TRUE]
InString == [state |-> "string", depth |-> 0, comment |-> FALSE]
InBlock(d) == [state |-> "block", depth |-> d, comment |-> TRUE]

(* One turn of the loop of comment_ranges: the state after lexeme t, and   *)
(* whether t belongs to a comment.                                         *)
After(s, t, nested) ==
    CASE s.state = "code" -> (CASE t = "quote" -> InString [] t = "open" -> InBlock(1)
                                [] t = "line" -> InLine [] OTHER -> Code)
      [] s.state = "string" -> (CASE t = "escape" -> [InString EXCEPT !.state = "escaped"]
                                  [] t = "quote" -> Code [] OTHER -> InString)
      [] s.state = "escaped" -> InString
      [] s.state = "line" -> IF t = "newline" THEN Code ELSE InLine
      [] OTHER -> (CASE t = "open" /\ nested -> InBlock(s.depth + 1)
                     [] t = "close" -> IF s.depth = 1 THEN [Code EXCEPT !.comment = TRUE]
                                                      ELSE InBlock(s.depth - 1)
                     [] OTHER -> InBlock(s.depth))

(* comment_ranges: the state after each lexeme *)
CommentRanges(content, nested) ==
    LET lex[i \in 0..Len(content)] ==
            IF i = 0 THEN Code ELSE After(lex[i - 1], content[i], nested)
    IN lex

(* The offsets is_comment_offset accepts *)
CommentOffsets(content, nested) ==
    LET lex == CommentRanges(content, nested) IN {i \in DOMAIN content : lex[i].comment}

(* source_line_at *)
LineAt(content, i) == 1 + Cardinality({j \in 1..(i - 1) : content[j] = "newline"})

-----------------------------------------------------------------------------
(* The audit *)

(* validate_engine_config *)
ValidEngine(c) ==
    /\ c.json # c.markdown
    /\ c.maxBytes > 0
    /\ \A e \in DOMAIN c.syntax : ~(c.syntax[e].nested /\ c.syntax[e].sameTokens)

(* validate_audit_config, validate_rule_extensions *)
ValidateAudit(c) ==
    LET rules == c.hard \o c.arch IN
    /\ c.version = 2
    /\ ValidEngine(c)
    /\ \A i, j \in DOMAIN rules : rules[i].name = rules[j].name => i = j
    /\ \A i \in DOMAIN rules :
          /\ rules[i].name # << >>
          /\ rules[i].severity \in {"blocker", "error", "warning"}
          /\ rules[i].forbidden # << >>
          /\ rules[i].extensions # {} /\ rules[i].extensions \subseteq DOMAIN c.syntax

LoadAudit ==
    /\ phase = "config"
    /\ IF ValidateAudit(config.audit)
       THEN /\ phase' = "walk"
            /\ UNCHANGED <<repository, scanner, unread, at, findings, violations, reports>>
       ELSE Fail

(* The filter of scan_files and scan_arch_rules: paths, extension,         *)
(* excluded directories, exclude_patterns and allowlist                    *)
Applies(r, f) ==
    Extension[f] \in Rules[r].extensions /\ f \notin Rules[r].excluded

(* engine.comment_syntax; without one there are no comments. *)
Comments(f, content) ==
    IF Extension[f] \in DOMAIN config.audit.syntax
    THEN CommentOffsets(content, config.audit.syntax[Extension[f]].nested) ELSE {}

(* A word occurs at lexeme i. *)
Occurs(w, content, i) ==
    /\ i + Len(w) <= Len(content) + 1
    /\ \A n \in DOMAIN w : content[i + n - 1] = w[n]

(* The words of a pattern that occur at i, and where its match there ends *)
Found(p, content, i) == {n \in DOMAIN p.words : Occurs(p.words[n], content, i)}
EndOf(p, content, i) == i + Len(p.words[Min(Found(p, content, i))]) - 1

(* Regex::find_iter: from the left, and each match begins behind the one   *)
(* before it.                                                              *)
FindIter(p, content) ==
    LET match[i \in 1..Len(content)] ==
            /\ Found(p, content, i) # {}
            /\ \A j \in 1..(i - 1) : match[j] => EndOf(p, content, j) < i
    IN {i \in 1..Len(content) : match[i]}

(* allowed_patterns are tried on the whole line. *)
Allowed(r, content, i) ==
    \E w \in Rules[r].allowed, j \in DOMAIN content :
        /\ Occurs(w, content, j)
        /\ \A n \in j..(j + Len(w) - 1) :
              content[n] # "newline" /\ LineAt(content, n) = LineAt(content, i)

(* The loop over the matches of pattern k.  A match that begins in a       *)
(* comment is passed over, all of it.                                      *)
PatternLines(r, k, f, content) ==
    {LineAt(content, i) : i \in {j \in FindIter(Rules[r].forbidden[k], content) :
        j \notin Comments(f, content) /\ ~Allowed(r, content, j)}}

(* Mutant: the line is marked as reported before the comments are looked at. *)
FirstMatchLines(r, f, content) ==
    UNION {LET matched == FindIter(Rules[r].forbidden[k], content)
               first == {i \in matched : \A j \in matched :
                            LineAt(content, j) = LineAt(content, i) => i <= j}
           IN {LineAt(content, i) : i \in {j \in first :
                  j \notin Comments(f, content) /\ ~Allowed(r, content, j)}} :
           k \in DOMAIN Rules[r].forbidden}

(* The loop over the patterns; reported_lines takes a line once, *)
MatchedLines(r, f, content) ==
    UNION {PatternLines(r, k, f, content) : k \in DOMAIN Rules[r].forbidden}

(* for the first pattern that finds it. *)
FirstPattern(r, f, content, line) ==
    Min({k \in DOMAIN Rules[r].forbidden : line \in PatternLines(r, k, f, content)})

(* WalkBuilder, collected before a file is read *)
Walk ==
    /\ phase = "walk" /\ at < Len(Rules)
    /\ unread' = {f \in File : tree[f] # Absent /\ Applies(at + 1, f)}
    /\ phase' = "audit"
    /\ UNCHANGED <<repository, scanner, at, findings, violations, reports>>

(* A file that is gone is an error here. *)
ReadSource(f) ==
    /\ phase = "audit" /\ f \in unread
    /\ IF tree[f] = Absent THEN Fail
       ELSE /\ violations' = violations \cup
                    {[rule |-> at + 1, file |-> f, line |-> l,
                      pattern |-> FirstPattern(at + 1, f, tree[f], l)] :
                        l \in MatchedLines(at + 1, f, tree[f])}
            /\ unread' = unread \ {f}
            /\ UNCHANGED <<repository, phase, scanner, at, findings, reports>>

RuleDone ==
    /\ phase = "audit" /\ unread = {}
    /\ at' = at + 1 /\ phase' = "walk"
    /\ UNCHANGED <<repository, scanner, unread, findings, violations, reports>>

Report ==
    /\ phase = "walk" /\ at = Len(Rules)
    /\ phase' = "json"
    /\ UNCHANGED <<repository, scanner, unread, at, findings, violations, reports>>

(* The full report, and the one that is cut to markdown_max_bytes *)
WriteReports ==
    /\ \/ phase = "json" /\ phase' = "markdown"
          /\ reports' = [reports EXCEPT ![config.audit.json] = "json"]
       \/ phase = "markdown" /\ phase' = "report"
          /\ reports' = [reports EXCEPT ![config.audit.markdown] = "markdown"]
    /\ UNCHANGED <<repository, scanner, unread, at, findings, violations>>

(* git, a directory or a file cannot be read, or a report not be written. *)
IoError == phase \notin {"report", "error"} /\ Fail

(* rule_name of a hard violation, for which the pattern is a text *)
Label(v) == Rules[v.rule].name \o (<<":">> \o Rules[v.rule].forbidden[v.pattern].text)

(* Mutant: the two names the wrong way round *)
CountedBackwards(r) ==
    Cardinality({v \in violations :
        IF IsHard(r) THEN IsHard(v.rule) /\ IsPrefix(Label(v), Rules[r].name)
        ELSE v.rule = r})

(* generate_report: hard violations are attributed by starts_with, so that *)
(* a rule whose name the label of another's violation begins with counts   *)
(* that one as well.                                                       *)
Counted(r) ==
    Cardinality({v \in violations :
        IF IsHard(r) THEN IsHard(v.rule) /\ IsPrefix(Rules[r].name, Label(v))
        ELSE v.rule = r})

TotalViolations ==
    LET total[r \in 0..Len(Rules)] == IF r = 0 THEN 0 ELSE total[r - 1] + Counted(r)
    IN total[Len(Rules)]

-----------------------------------------------------------------------------
(* Meanwhile *)

Edit(f, content) ==
    /\ phase \notin {"report", "error"} /\ edits < MaxEdits
    /\ tree' = [tree EXCEPT ![f] = content]
    /\ edits' = edits + 1 /\ still' = still \ {f}
    /\ UNCHANGED <<mode, phase, index, config, scanner, unread, at, findings, violations, reports>>

(* git add, git rm --cached *)
StageFile(f, content) ==
    /\ phase \notin {"report", "error"} /\ edits < MaxEdits
    /\ content \in {tree[f], Absent}
    /\ index' = [index EXCEPT ![f] = content]
    /\ edits' = edits + 1 /\ still' = still \ {f}
    /\ UNCHANGED <<mode, phase, tree, config, scanner, unread, at, findings, violations, reports>>

Scan ==
    \/ List \/ LoadScanner \/ SecretsDone \/ LoadAudit \/ Walk \/ RuleDone \/ Report
    \/ WriteReports \/ IoError
    \/ \E f \in File : ReadSecrets(f) \/ ReadSource(f)

ScanNext ==
    \/ Scan
    \/ \E f \in File, content \in Edits : Edit(f, content)
    \/ \E f \in File : \E content \in {tree[f], Absent} : StageFile(f, content)
    \/ phase \in {"report", "error"} /\ UNCHANGED scanVars

ScanSpec == ScanInit /\ [][ScanNext]_scanVars

-----------------------------------------------------------------------------
(* What the bounds may be *)

(* What a file may hold, nothing included *)
Content ==
    Edits \cup {Absent} \cup UNION {{start.tree[f], start.index[f]} : start \in Starts, f \in File}

IsSequence(s) == s \in Seq(Range(s))

(* A pattern has a text and a list of words. *)
IsPattern(p) ==
    /\ IsSequence(p.text) /\ IsSequence(p.words)
    /\ \A n \in DOMAIN p.words : IsSequence(p.words[n])

(* Rules, their names and patterns are sequences, a flag of a syntax is one. *)
WellFormedAudit(c) ==
    LET rules == Range(c.hard) \cup Range(c.arch) IN
    /\ c.hard \in Seq(rules) /\ c.arch \in Seq(rules)
    /\ \A rule \in rules :
          /\ IsSequence(rule.name) /\ IsSequence(rule.forbidden)
          /\ \A k \in DOMAIN rule.forbidden : IsPattern(rule.forbidden[k])
    /\ \A e \in DOMAIN c.syntax : c.syntax[e].nested \in BOOLEAN

ScanFacts ==
    /\ MaxEdits \in Nat
    /\ \A s \in Content \ {Absent} : IsSequence(s)
    /\ \A start \in Starts :
          /\ start.tree \in [File -> Content] /\ start.index \in [File -> Content]
          /\ WellFormedAudit(start.config.audit)
          /\ \A policy \in {start.config.working, start.config.staged} \ {Absent} :
                \A i \in DOMAIN policy.rules : policy.rules[i].groups \in Nat

ASSUME ScanAssumption == ScanFacts

-----------------------------------------------------------------------------
(* Properties *)

ScanTypeOK ==
    /\ mode \in {"staged", "working"}
    /\ phase \in {"list", "load", "secrets", "config", "walk", "audit", "json", "markdown",
                  "report", "error"}
    /\ tree \in [File -> Content] /\ index \in [File -> Content]
    /\ unread \in SUBSET File
    /\ at \in 0..Len(Rules)
    /\ findings \in SUBSET File
    /\ \A v \in violations :
          /\ v.rule \in 1..Len(Rules) /\ v.file \in File /\ v.line \in Nat
          /\ v.pattern \in DOMAIN Rules[v.rule].forbidden
    /\ reports \in [{config.audit.json, config.audit.markdown} -> {"old", "json", "markdown"}]
    /\ edits \in 0..MaxEdits
    /\ still \in SUBSET File

(* What a comment is, without an automaton.  A construct that begins at i  *)
(* ends where its closing token first occurs outside an escape, or where   *)
(* its nested openings are balanced, or with the file.                     *)
Closes(c, i, j, nested) ==
    CASE c[i] = "line" -> j < Len(c) /\ c[j + 1] = "newline"
      [] c[i] = "quote" ->
            /\ j > i /\ c[j] = "quote"
            /\ LET run == {k \in i..(j - 1) : \A m \in (k + 1)..(j - 1) : c[m] = "escape"}
               IN (j - 1 - Min(run)) % 2 = 0
      [] c[i] = "open" ->
            /\ j > i /\ c[j] = "close"
            /\ nested => Cardinality({k \in i..j : c[k] = "open"})
                         = Cardinality({k \in i..j : c[k] = "close"})
      [] OTHER -> j = i

Extent(c, i, nested) ==
    LET ends == {j \in i..Len(c) : Closes(c, i, j, nested)}
    IN IF ends = {} THEN Len(c) ELSE Min(ends)

(* Where a construct begins: at the start, and where one has ended. *)
Begins(c, nested) ==
    LET begins[i \in 1..(Len(c) + 1)] ==
            i = 1 \/ \E j \in 1..(i - 1) : begins[j] /\ Extent(c, j, nested) = i - 1
    IN begins

TrueComments(c, nested) ==
    LET begins == Begins(c, nested) IN
    UNION {i..Extent(c, i, nested) :
                i \in {k \in DOMAIN c : begins[k] /\ c[k] \in {"line", "open"}}}

(* Where pattern k is in code, in a line without an exception *)
Violating(r, k, f) ==
    LET c == tree[f]
        comments == TrueComments(c, config.audit.syntax[Extension[f]].nested)
    IN {i \in DOMAIN c \ comments :
            Found(Rules[r].forbidden[k], c, i) # {} /\ ~Allowed(r, c, i)}

(* It lies in what the pattern matches further to the left. *)
Overrun(p, content, i) ==
    \E j \in 1..(i - 1) : Found(p, content, j) # {} /\ EndOf(p, content, j) >= i

(* audit.rs:620 and 720: of a file that stays as it is, the audit reports   *)
(* only lines on which a forbidden pattern begins in code, and every such   *)
(* line but where the pattern itself runs over it from further to the left: *)
(* whatever strings, escapes and nested comments surround it, whatever      *)
(* happens to other files between the walk and the reading, and whatever    *)
(* rules were accepted: none of them is for a language without syntax.  Of  *)
(* patterns of one lexeme, the lines reported are exactly the lines that    *)
(* are forbidden.                                                           *)
ViolationsAccounted ==
    phase = "report" /\ findings = {} =>
        \A f \in still : tree[f] # Absent => \A r \in 1..Len(Rules) :
            LET lines == {v.line : v \in {w \in violations : w.rule = r /\ w.file = f}}
                patterns == DOMAIN Rules[r].forbidden
            IN  IF Applies(r, f)
                THEN /\ lines \subseteq
                          {LineAt(tree[f], i) : i \in UNION {Violating(r, k, f) : k \in patterns}}
                     /\ \A k \in patterns : \A i \in Violating(r, k, f) :
                          \/ LineAt(tree[f], i) \in lines
                          \/ Overrun(Rules[r].forbidden[k], tree[f], i)
                ELSE lines = {}

(* Every line on which a forbidden pattern begins in code is reported.  It  *)
(* does not hold of a pattern of several lexemes, which may begin in a      *)
(* comment and end in the code after it (audit.rs:632): nothing of that     *)
(* match is reported, and the search goes on behind it.                     *)
ViolationsComplete ==
    phase = "report" /\ findings = {} =>
        \A f \in still : tree[f] # Absent => \A r \in 1..Len(Rules) :
            Applies(r, f) => \A k \in DOMAIN Rules[r].forbidden : \A i \in Violating(r, k, f) :
                \E v \in violations :
                    v.rule = r /\ v.file = f /\ v.line = LineAt(tree[f], i)

(* The rules and the files the scan is asked about *)
Policy == IF mode = "staged" THEN config.staged ELSE config.working
Concerned(f) == IF mode = "staged" THEN index[f] \notin {Absent, Committed[f]} ELSE tree[f] # Absent

(* secrets.rs:497 and "invalid_secret_config_fails_closed" (secrets.rs:598): *)
(* of the files that stay as they are, the ones reported are those with a   *)
(* capture, in a comment or not, that a rule of the snapshot's own policy   *)
(* finds credible; files that come, go and change between the listing and   *)
(* the reading hide none of the others, the rules of the other snapshot     *)
(* have no part in it, and no accepted rule is one that never matches.      *)
SecretsExact ==
    phase \notin {"list", "load", "secrets", "error"} =>
        \A f \in still : f \in findings <=>
            /\ Concerned(f)
            /\ \E i \in DOMAIN Snapshot[f], r \in DOMAIN Policy.rules :
                  /\ Snapshot[f][i] \in DOMAIN Captured
                  /\ Captured[Snapshot[f][i]].kind = Policy.rules[r].kind
                  /\ Credible(Policy, Policy.rules[r], Captured[Snapshot[f][i]])

(* verify.rs:156: the verdict, which is taken from the total of the        *)
(* report, is about the violations found, although the report may count    *)
(* one of them for several rules; and the file the verdict points to holds *)
(* the full report, which the shortened one does not replace.              *)
GateIsViolations ==
    phase = "report" /\ findings = {} =>
        /\ TotalViolations = 0 <=> violations = {}
        /\ reports[config.audit.json] = "json"

(* What the name of the field says.  It does not hold when the label of a  *)
(* hard violation begins with the name of another rule (audit.rs:882).     *)
TotalIsExact == phase = "report" => TotalViolations = Cardinality(violations)

=============================================================================
