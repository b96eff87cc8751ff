# TLA+ models of arc-admin

arc-admin is an administration backend in Rust (axum, sqlx, PostgreSQL) with an
Angular frontend: accounts, roles, departments, server-side sessions, a second
factor for super administrators, and an audit log with a retention job. Beside it
stands arc-flow, the command-line tool that gates every change of the repository:
secret scan, audit of the sources, configured steps with their services. This
directory holds TLA+ models of the parts whose correctness depends on what
happens *between* steps. In the backend every handler validates on one connection of
the pool, waits for Argon2 or for its client, and writes in a later transaction,
while other requests do the same to the same rows. In arc-flow a run is a chain of
child processes, files and containers, any of which may fail, hang, change or be
interrupted on the way.

`PROJECT.json` lists the runs, the mutants that show each property can fail, the
source lines behind each definition, the hazards and the theorems. Paths in this
file are relative to `src/backend/src/` unless they start with another directory; those of
arc-flow (section 2, modules Flow...) to `src/codex-audit-pipeline/tools/arc-flow/src/`.

## 1. Inventory

| component | state | operations | what is hard | what makes it correct |
|---|---|---|---|---|
| login and sessions (`services/auth.rs`, `repositories/auth_sessions.rs`) | `users`, `auth_sessions` | login, create_login_session, change_password, logout, auth_context, enforce_user_limit, prune | the users row is read before Argon2 and a second factor; the session is written long after | a revoked session stays so, a new password fences logins in flight, the session limit holds among concurrent logins |
| login throttle (same files) | `auth_login_attempts` | locked_until, record_login_failure, clear_login_failures | check and count are apart; windows and locks run off independently | guesses per window are bounded, a lock lasts, an address is not reset by its own successes |
| second factors (`services/mfa.rs`, `repositories/mfa.rs`, `mfa.rs`) | `auth_mfa_challenges`, `user_mfa_settings`, `user_mfa_recovery_codes`, `user_passkeys` | begin_login, verify_totp_login, verify_totp_enrollment, verify_recovery_login, passkey ceremonies, re-authentication, renewal, revocation | answers arrive together; reads before locks; a challenge that gives way to another | one login per password check, codes and time steps work once, attempts are limited |
| user administration (`services/users.rs`, `repositories/users.rs`) | `users`, `user_roles` | create, update, delete, delete_many, assign_roles, assign_roles_many | the last super_admin under concurrent requests and batches; lock order | an active super_admin remains; every request ends |
| departments and data scopes (`services/departments.rs`, `repositories/departments.rs`, `access.rs`) | `departments`, `users.department_id` | create, update, delete_if_empty, validate_assignment | validation and write are apart | a tree without dangling references |
| audit log and archive job (`repositories/audit_logs.rs`, `bin/archive_audit_logs.rs`) | `audit_logs`, files | record, archive_batch, write_archive, delete_archived | crashes between system calls, jobs at the same time | nothing is deleted that is not durably archived; the job gets done |
| step-up tokens, module unlocks (`services/step_up.rs`, `services/module_unlock.rs`) | `auth_step_up_tokens`, `auth_module_unlocks` | issue, consume, require | a token is spent before the operation it is for | every sensitive operation is backed by one re-authentication |
| roles and grants (`services/roles.rs`, `services/permissions.rs`) | `roles`, `role_permissions` | create, update, delete, assign_permissions | what an actor may grant is checked before the write | nobody hands on more than he has |
| request authentication (`auth.rs`, `handlers/`) | none | authenticate, validate_csrf, resolve_client_ip, RequirePermission | order of checks per handler | no handler without its checks |
| connection pool (`db.rs`) | connections | acquire, release, time out | a second connection inside an open transaction | no mutual wait |
| start-up, configuration, metrics, OpenAPI, dashboard | none that lasts | - | - | - |
| frontend (`frontend/src/app`) | signals in the browser | session refresh, unlock cache, pages | - | - |
| arc-flow: verification (`process.rs`, `verify.rs`, `service.rs`, `scope.rs`, `main.rs`) | one child process, services, containers, results, report | detect, run_selected, run_configured_steps, RunningService::start and Drop, capture, Task::run, terminate | signals, timeouts and failures at every call; a daemon that acts on its own | a pass is earned, containers go, every run ends but for what a program leaves running |
| arc-flow: scans (`secrets.rs`, `audit.rs`) | index, working tree, rule files, reports | scan, scanner_for_mode, comment_ranges, scan_files, scan_arch_rules, generate_report | listing and reading apart; a lexer; counts by prefix | what is reported is exact, the verdict is about it |
| arc-flow: configuration (`config.rs`, `preset.rs`, `project.rs`) | the files below `.arc-flow/` | init, migrate, discover, load, validate | several commands, kills between writes, overrides | what is written loads, what is loaded can run |
| arc-flow: doctor (`doctor.rs`) | none | run | - | - |
| scripts, deployment, observability, mock-ups | - | - | - | - |

How they interact: a login runs through the throttle, then the password, then
(perhaps) the second factor, and ends in `create_login_session`. Administration,
password changes and changes of factors act on the same `users` and
`auth_sessions` rows from other requests. Roles decide whether a second factor is
required. Deleting and moving users changes who is in a department. Every
audited operation writes an `audit_logs` row in its own transaction, with the
actor's department; the archive job deletes those rows again. Nothing is shared in
memory between requests: all of it goes through PostgreSQL at READ COMMITTED, so
the models' atomic steps are statements and transactions, and their waits are row
locks. arc-flow shares nothing with the backend but the repository; its parts meet in
`verify`, which loads the configuration, runs both scans and then the steps.

## 2. Modules

Each module that is run has an `MC` module beside it (symmetry sets; for RoleGrants and
the Flow modules also the records of the instance) and its `.cfg` files.
Definitions that begin with the comment *Mutant* are wrong on purpose: they are
used by no specification and only show, put in the place of the definition after
them, that a property notices.

### LoginSessions

The path of one login request, as the program counter `req[p].pc`:
`verify` (row read, Argon2 running), `challenge` / `enroll` / `enrolling` /
`reread` (second factor), `create`, `begun`, `locked`, `wrote` (the transaction of
`create_login_session`), `done` or `failed`. `users[u]` holds what the code tests:
status, deletion, `token_version`, the password, whether the account is an active
super_admin and whether TOTP is enabled. `sessions` is `auth_sessions`; `Usable(i)`
is the WHERE clause of `auth_context`. Passwords and token hashes are model values
or absent. `AdminUpdate`, `Delete`, `Bootstrap`, `AssignSuper`, `RevokeFactor`,
`Logout` and `Expire` are whole operations of other requests and may come between
any two of those steps, except where the users row lock keeps them out.
A request with a session is two statements, `AuthRead` and `Touch`: the SELECT with that
WHERE clause, and later an UPDATE of `last_seen_at` that tests nothing but the row.
`idle` says that the session has passed the idle timeout (`IdleOut`), `found` that some
request has found it usable and has its UPDATE still to do; that UPDATE ends `idle`.

`second`, `checked` and `stale` are history: whether the login passed a second
factor, the token version its password was verified under, and whether all
sessions were revoked since. `clock` ranks the starts of transactions, because
`created_at` is `now()` of the transaction and a login that waits for the lock
commits later with an older time. The bounds are `MaxRows` and `MaxVersion`.

### SuperAdminGuard

Transactions statement by statement. `tx[t]` keeps the uncommitted writes
(`wrote`, `deleted`, `inserted`), `StatusSeen` and `RolesSeen` are what its
statements see, `Commit` publishes them. Row locks follow from the writes;
`locked` is the FOR UPDATE lock on the role row, and an INSERT into `user_roles`
takes the conflicting KEY SHARE lock through its foreign key. `Snapshot` and
`DeleteRoles` split a DELETE at the point where PostgreSQL waits: rows that appear
meanwhile are not seen, rows that disappear are skipped. `Abort` is a broken
connection or the victim of a deadlock. Batches take their users in any order.

### MfaChallenges

The second stage of one account. Challenge rows have kind, attempts, consumed and
expired; `held` is a request's FOR UPDATE locks. A transaction that locks its
challenge first is one step; the others are split where the code reads before it
locks, opens a second transaction, or replaces rows it has not locked. `wins`,
`spent`, `reauths`, `logins` count what the properties are about. Whether a code
or an assertion is right is a choice of the action; TOTP time steps are numbers
because their order is what the replay guard compares.

### LoginThrottle

Buckets by `<<account, address>>`, `<<account, None>>` and `<<None, address>>`.
Time is stored as ages: how old the window is and how long the lock still lasts,
with `Tick` moving all of them, so that no clock is bounded. `Counted` is the SQL
of `record_login_failure`, including its INSERT branch, which never locks. `rest` is the
time since the last failure that was counted: after `Retention` a bucket is pruned.
The `now()` of the failure's transaction is taken as an instant. Lockout and window have
any ratio, as in `config.rs`; `LocksInWindow` is the number of locks that can begin one
after the other in a window.

### AuditArchive

The job by system call. `dir` is what processes see; `disk` is what a machine
crash may leave: every binding a name had since the last sync of the directory,
where the empty contents stand for "missing". `Kill` ends a process anywhere,
`MachineCrash` ends all and chooses one binding for each name. `Lag` says how far
`created_at` may be out of the order of ids: it is the start of the writing
transaction, so rows of overlapping transactions expire in another order than
their ids. The run has `Lag = 1`. `met` is history: two jobs have overlapped while the
cutoff of one of them was not an initial part of the ids.

### Departments

Validation (`...Check`) and transaction (`...Write`) of each operation are two
steps. `Visible` is the recursive query of the actor's scope, `Below` the one of
the cycle check. `Above` is the way up, as the least set that has the parent of the
department and of each of its members: what the recursive query computes, in a form
that can be proved about. `logged` is the set of departments that audit rows refer to; `Act`
is any audited operation of a user.

Composition: `users`, `auth_sessions` and `auth_mfa_challenges` meet in the login.
LoginSessions contains the second stage with its order of reads (which of them
re-read the users row, and when) and leaves the outcome to a choice;
MfaChallenges contains what limits that choice.

### LoginTickets and MfaTickets

LoginTickets is what the second factor promises, in one variable: a correct password
opens a ticket and closes the one that was open, an open ticket admits its login once
or is closed, a closed one stays so. MfaTickets gives the mapping: the ticket of a
password check is `won` when its login was completed, `open` while one of its rows,
whichever that is by now, can still be answered, and `closed` after that.
`ImplementsTickets`, the abstract specification as a property, then says that no
interleaving of factors, ceremonies and logins does more. A row that has expired
counts as open while a passkey ceremony that found it in time holds its lock: that
ceremony ends in a login or not at all (`finish_passkey_authentication` does not look
at the clock again).

### RoleGrants

Roles with their permissions and members, step-up tokens and the unlocked module, and
requests in four stages: submitted, admitted (authentication, the handler's
permission, the token spent or the module unlocked), checked (the validation on the
pool), written. A replacement of permissions is two statements, because the DELETE sees
a snapshot and the INSERT meets what others have inserted meanwhile (a row that is
there already is a primary key violation, which aborts the request); a deletion of a
role is two as well. `ceiling` is what the ordinary users held together when the
behaviour began, `backs` counts the changes written on a token.

### FlowProcess and FlowVerify

FlowProcess is `process.rs`: one child with its group, the flag of the signal handler,
and the polling loop, split at every point where the leader, a descendant, a signal or
the clock may come in between. FlowVerify extends it with one whole run: `pc` is where
the main thread is, each docker, git or step command is a `Call` and a return, `svc`,
`owned` and `containers` are what arc-flow believes of its services, what it would
remove, and what the daemon has. `excuse` is history: why a container may be left.
What the repository holds is a record of facts (which paths changed, whether a scan
would find something in the index or the tree). Steps and their results are known by
their position in the configuration; `todo` is the positions the filter of
`run_configured_steps` has yet to reach.

### FlowScan

The two scans on files that are sequences of lexemes. The lexer of `comment_ranges` is
a function from one state and lexeme to the next; `TrueComments` is its reference, a
definition of comments by matching delimiters that has no states. Rule files are
records; `FromSource` and `ValidateAudit` are the conditions under which they are
accepted. `Edit` and `StageFile` change tree and index at any time; `still` remembers which
files have not changed, for those are what exactness can be asked of. `unread` is the list
of files not yet taken. `ScanFacts`, assumed as `ScanAssumption`, is what the constants
must satisfy: contents, rule lists and names are sequences, a pattern has a number of
groups.

A pattern is the list of the words it matches, and a word is a sequence of lexemes, which
may contain newlines. `FindIter` is `find_iter`: at each position the first word that
fits, leftmost first, and on behind its end. A match is judged by where it begins
(`audit.rs:632`): in a comment, or on a line that is excepted, it is dropped, and what it
runs over is not looked at again. Left out are anchors and look-around, staged changes of
type (which `--diff-filter=ACMR` does not list; the index of the model never changes the
type of a file) and symbolic links.

### FlowProject

Files below two directories, and commands that run side by side: `init` and `migrate`
write, the others find the root, locate the workflow file, load, override, validate
and resolve. Every write is atomic (a rename) and may fail; a command may be killed
between any two steps. `Validate` holds every condition that relates two parts of a
configuration, and the ranges of timeouts; conditions on the spelling of one value are
left out. `ProjectAssumption` is what the constants must satisfy: a configuration has the
fields serde asks for, requests name directories and files there are, and the preset that
`init` writes is one that `Validate` accepts (`preset.rs:226`, every_embedded_preset_is_valid).

## 3. Runs

One passing run per module, with its safety and its liveness properties on one
instance; each ends within three minutes with two workers.

| run | instance | states | shows |
|---|---|---|---|
| login_sessions | 1 account, 2 requests, 2 passwords, limit 1, 1 new version, fairness | 297,920 | `SessionLimit`, `LockDiscipline`, `NewPasswordEndsLogins`, `DeadForever`, `LoginAnswered` |
| super_admin | 2 accounts, 2 transactions, fairness | 73,650 | `AdminRemains`, `RequestsEnd` |
| mfa_challenges | 2 requests, 1 passkey, 2 attempts, 2 rows, 2 batches of codes, 2 time steps | 483,824 | `OneLoginPerPassword`, `RecoveryCodeOnce`, `OneOpenChallenge`, `OpenHasAttempts`, `ReauthOnce`, `ImplementsTickets` |
| login_throttle | 2 accounts, 1 address, 2 requests, limits 2 and 3, window 3, lockout 2, retention 3, fairness | 46,347 | `GuessesBounded`, `FullIsLocked`, `AddressKeepsCount`, `LockEnds` |
| audit_archive | 2 processes, 3 rows in and out of order, batches of 3, 2 seconds, 1 failure (`Bounded`), fairness | 635,698 | `DeletedIsArchived`, `RetentionDone` |
| departments | 3 departments, 2 users, 2 requests | 1,079,462 | `NoDangling`, `TreeUnlessRaced` |
| role_grants | 2 users, super_admin and 2 roles, 2 requests, 2 tokens, dependent permissions | 1,089,484 | `NoEscalation`, `DependenciesHold`, `TokenBacksOne` |
| flow_verify | 3 steps, 2 components, 2 services (1 in Docker), every scope mode, fairness | 91,580 | `PassIsEarned`, `NothingLeftBehind`, `RunEnds` |
| flow_scan | 2 files, all sources of up to 4 of 7 lexemes and some longer, 12 rule files with words of one lexeme and of several, 1 change | 1,154,290 | `ViolationsAccounted`, `SecretsExact`, `GateIsViolations` |
| flow_project | 2 commands, 2 directories, user files, edits, kills and failing writes | 465,796 | `WrittenLoads`, `LoadedIsRunnable` |

Why the bounds are enough. All accounts are independent in LoginSessions and
MfaChallenges (no action reads two), so one account with several requests has
every interleaving that matters. Two logins are one more than the limit of one
session, so the eviction happens, in both orders of begin and lock: a login that began
first and waited is the one evicted. Two accounts and two transactions let each of
two requests believe that the other's account remains, one of them a batch over both;
the theorem of section 5 has the rest. Two attempts are the smallest number with a
"not yet" and a "now"; two challenge rows are a login and the one that replaces it, or
a login and its passkey ceremony; two time steps can be used in order and out of
order. A window of three ticks and a lock of two let a lock end, and another begin, in
the window of the first. Three audit rows in batches of three are the smallest number
that gives two batches with equal ends and different middles, which is what a file name
does not tell apart: without `~met`, `DeletedIsArchived` fails on this instance. Two seconds
give equal and different file names; failures stop before the last second, as liveness
needs. `Bounded` in MCAuditArchive keeps the run small: the last row expires in the first
second or not at all, and then there is no failure; so every failure meets at most two
expired rows, in either order. The safety invariants were also checked, without fairness
and up to symmetry, on larger instances (three logins and a limit of two; three accounts;
three challenge rows; three throttled logins; the three audit rows without `Bounded`,
2,980,745 states), with the same result.
In RoleGrants two requests are the smallest number that overlap, and the offered
lists include one whose union with another would break a dependency if validation
let it pass. Four lexemes are enough for a string with an escape, a comment in a
string, a string in a comment, an unclosed comment and a nested one around nothing; the
longer sources add a nested comment with text before and after its closings. One change
is enough to meet a file before the listing, between listing and reading, and after;
two files have one that changes and one that stays. Two commands of arc-flow let one
write what the other is reading, with a user's edit between.
CHECK_DEADLOCK is off where the bounds on rows and versions let a behaviour run out
of ids; the throttle, the archive job, the departments and the super_admin
transactions can always go on and are checked for deadlock.

Fairness. LoginSessions: weak fairness of each request's own server-side steps;
clients, second factors and administrators owe nothing. A row lock is always
released by a step that is itself fair, and PostgreSQL grants it to a waiter.
SuperAdminGuard: strong fairness of a transaction's statements, because a lock queue
is first come, first served, and the deadlock detector eventually aborts a member of
a wait cycle. LoginThrottle: time passes, Argon2 ends. AuditArchive: a job that runs
goes on, the scheduler starts one again (`docs/audit-retention.md`), time passes.
FlowVerify: the main thread and its polling loop run, the clock reaches every timeout
and deadline; a program itself owes nothing and may hang for ever, and so may what a command leaves
running: `capture_command` joins its readers without a timeout (`process.rs:121`), so
`RunEnds` is that a run ends or waits for ever for a process that keeps the output of a
command which is over (`Lingering`).

## 4. Where the code and its documents disagree

Each of these is a run that TLC refutes, on an instance of the same module. The
property is the document's sentence; the trace is what the code does.

| run | property | trace in short |
|---|---|---|
| login_mfa_gap | `SuperAdminSessionsPassedMfa` | password-only session; promotion (the session is refused); enrolment in another login; the first session is accepted again without having passed a second factor |
| login_revocation_gap | `RevocationReachesLogins` | a login past its password check inserts its session after the suspension; reactivation makes it usable. Status changes do not touch `token_version`, and logins with a second factor read it afresh |

More statements are defined in the modules and do not hold of the code; no run is
kept for them. Adding one as INVARIANT (or PROPERTY) to a configuration of its module
shows the trace.

| module | statement | source of the sentence | what the code does |
|---|---|---|---|
| MfaChallenges | `FailuresEndLogin` | `docs/mfa-operations.md:25` | `start_passkey_authentication` (`services/mfa.rs:518`) replaces the login challenge by one whose count of failures starts at zero |
| LoginThrottle | `LockLasts` | `docs/architecture.md:39` | a failure in flight is counted after the window's end (`repositories/auth_sessions.rs:236`): new window, lock overwritten with NULL; needs `Lockout = 3` |
| LoginSessions | `IdleStaysOut` | the WHERE clause of `auth_context` (`repositories/auth_sessions.rs:62`) | a request that found the session in time does its UPDATE of `last_seen_at` (`repositories/auth_sessions.rs:85`) after the idle timeout has passed, and the session is accepted again |
| AuditArchive | `DeletedIsHeld` | `docs/audit-retention.md:3` | two jobs of one second, batches with equal ends and different middles, one file name (`bin/archive_audit_logs.rs:88`): the second rename replaces the archive of the first before that one deletes its rows |
| Departments | `IsTree` | `services/departments.rs:117` | two moves, each checked before the other is written, make a cycle |
| MfaChallenges | `OldCodesEnd` | `docs/mfa-operations.md:21` | two renewals that overlap (`repositories/mfa.rs:266`) leave both sets of codes valid; needs `MaxBatch = 3` |
| MfaChallenges | `TotpStepOnce` | `migrations/20260810080000_prevent_totp_replay.sql:1` | `verify_totp_login` (`services/mfa.rs:192`) neither reads nor stores the last counter, so the step of a login also confirms a sensitive request |
| MfaChallenges | `EnrolledTotpStays` | `docs/security-roadmap.md:8` | a login that read "not enrolled" (`services/mfa.rs:51`) before TOTP was enabled still gets an enrolment, which replaces it |
| LoginThrottle | `LimitLocks` | `docs/architecture.md:39` | the first failure is inserted without a lock (`repositories/auth_sessions.rs:219`); with a limit of 1, which `config.rs` accepts, nothing is locked until the second; needs `MaxFailures = 1` |
| Departments | `EmptyIsFree` | `repositories/departments.rs:192` | the audit rows of former members keep an empty department, through their foreign key |
| RoleGrants | `LastPutStands` | the name of `put_permissions` | two replacements that overlap leave the union of both lists (`repositories/roles.rs:201`) |
| FlowProcess | `HardTimeout` | `codex-audit-pipeline/README.md:318`, `process.rs:353` (test) | a captured command is over or terminated, what it started keeps its output open, and the readers are joined without a timeout (`process.rs:121`) |
| FlowVerify | `TestsSpareProduction` | `codex-audit-pipeline/docs/configuration.md:277` | hosts are compared as words, so a second name of the server passes (`service.rs:217`); a `DATABASE_URL` that does not parse, as one without a host, is not compared at all (`service.rs:214`; `Production <- MCSocket`) |
| FlowProcess | `GroupTerminated` | `codex-audit-pipeline/README.md:318`, `process.rs:273` | when the leader obeys SIGTERM, the rest of the group gets no SIGKILL |
| FlowVerify | `CleanupAttempted` | `codex-audit-pipeline/docs/configuration.md:275` | a docker run that is cancelled or times out after the daemon created the container leaves it, and nothing tries to remove it (`service.rs:263`) |
| FlowVerify | `NoChangeNoComponent` | `codex-audit-pipeline/README.md:417` | with `unmatched = "all"` every component is selected, whether or not a path changed (`scope.rs:109`) |
| FlowScan | `ViolationsComplete` | the name of `forbidden_patterns` (`audit.rs:164`) | a match that begins in a comment or on an excepted line is dropped, and the search goes on behind it: the match in the code it runs over is not reported (`audit.rs:632`) |
| FlowScan | `TotalIsExact` | the name of `total_violations` | a rule also counts the violations of a rule whose name begins with its own (`audit.rs:882`) |
| FlowProject | `NeverReplaces` | `codex-audit-pipeline/README.md:117` | a file that appears after `ensure_writable` looked is replaced without --force (`preset.rs:59`) |
| FlowProject | `RelativeToRoot` | `codex-audit-pipeline/docs/configuration.md:15` | a relative --config is looked for from the current directory first (`project.rs:205`) |

Some properties that pass are therefore narrower than the document's words, and say
so: `NewPasswordEndsLogins` is about logins without a second factor,
`DeadForever` counts an idle session only while no request that found it in time has its
UPDATE to do, `DeletedIsArchived` excepts jobs that overlapped while rows expired out of the
order of their ids, and `TreeUnlessRaced` excepts exactly the race of two moves.
`NothingLeftBehind` excepts a docker run that was cut short, `RunEnds` a process that keeps
the output of a command which is over, and `ViolationsAccounted` code that another match of the
same pattern runs over. `GuessesBounded` counts a limit of one as two (`LockingCount`),
because the first failure of a window never locks, and allows the logins in flight once for
each lock that fits into a window: with the defaults, both 15 minutes, that is once.
Nothing in `config.rs` keeps a lock from being shorter than a window.

## 5. Proofs

Checked by TLAPS for all values of the constants under the named assumptions.

**LoginSessionsProofs.** `TypeCorrect`, `LocksDisciplined` and `NewPasswordFences`
from one inductive invariant `IInv == TypeOK /\ WellFormed /\ LocksHeld /\
Provenance`. `WellFormed` says which fields a request has at which step (an account
from `verify` on, a row id once it wrote); `LocksHeld` is both directions of the lock
discipline; `Provenance` is what makes the fence inductive: a request without second
factor carries the token version its password was checked under all the way into its
row, and a row keeps it. `LockDiscipline` alone is not inductive, since a lock is
released by the request's user field, which only `WellFormed` says is set. The
assumptions are `SessionAssumption` (the bounds are numbers) and `NoneAssumption`.

`SessionsLimited` and `EndedForGood` rest on a second invariant beside it, `SessionsInv
== VersionsOld /\ FreshIds /\ Limited`. The limit is a cardinality over an ordered
eviction. `LimitEnforced` is the lemma about `enforce_user_limit`: of the rows it sees
it leaves at most `MaxSessions`, because the newest are found one by one by `(created_at,
id)` (`FirstAreFew`, an induction over the size of the set by well-foundedness). That is
a statement about the rows the login saw when it wrote; `Limited` carries it to the
commit: what the account has, with the new row and without the evicted ones, still
keeps the limit, because the row lock of `LocksHeld` lets no other login of the account
add a row meanwhile. Every step but the write and the commit of a login is `Quiet`: it
ends sessions, raises token versions and does neither backwards. `DeadForever` follows
from that and from `FreshIds` (an id is given out once) and `VersionsOld` (no row is
ahead of its account's version); a session that is idle with no UPDATE on its way stays
so, because `AuthRead` does not find it.

**MfaChallengesProofs.** `MfaTypeCorrect`, `PasswordOpensOneLogin`,
`RecoveryCodeOpensOne`, `StepConfirmsOne`, `SingleOpenChallenge` and `AttemptsBounded`
for any number of requests, passkeys, challenge rows, batches and time steps. The
inductive invariant has parts over disjoint variables, each proved by itself.
`StepsOnce`: a step beyond the stored counter has confirmed nothing. `CodesOnce`: a
code that is unused or not issued yet has opened nothing. `RowsInv` is about the
challenge rows: ids and logins below `nextId` (`Numbered`), at most one unconsumed row
(`OneOpen`), whose login has not been completed (`Winnable`), and the row locks
(`Holding`). The last is needed for `finish_passkey_authentication`, whose commit does
not look at the row again: it consumes an open row only because the row it has locked
cannot be consumed by anybody else meanwhile. `OneOpen` in turn is what makes the
completion of one login safe for the others: there is no other open row of the same
password check. The assumptions are `MfaAssumption` and `NoRow` (NULL is no row).

`SecondFactorImplementsTickets` is the refinement: `Spec => ImplementsTickets`, for all
values of the constants. The initial states have no ticket; every action maps to
opening one (which closes the one that was open), admitting, closing, or a stutter. The
same invariant carries it. `OneOpen` makes "the open ticket" one; `Winnable` says that a
row which can be answered belongs to a login that has not been admitted; `Holding` keeps
the ticket of a ceremony open until its commit. The cases that are no stutter are those
which consume, replace or expire a row: for each, the other tickets are shown to keep
their value.

**RoleGrantsProofs.** `TypeCorrect`, `NeverEscalates`, `DependenciesKept` and
`TokenOnce` for any number of users, roles, permissions, tokens and requests, and for
every catalogue to start from whose roles keep their dependencies. `TypeOK` needs
`Named`: a request under way has its session, and its role where the operation has
one. `SafeInv` is for `NoEscalation`, which alone says nothing of a request that was
checked a while ago. A role is safe when it has nothing beyond the ceiling; whatever is
written to a role is safe, so a safe role stays safe, and the reads on the pool may be
stale without harm. The one write that is not only the request's own list is a
replacement that meets another: `CheckedSafe` says that the rows it has not found are
safe too. `DepInv` is for `DependenciesHold`, where two replacements are not enough:
after the first commits, what the second leaves is what neither had found, and the
third has yet to commit. `LeftClosed` therefore speaks of every set of replacements
under way, the empty set being the property itself, and `CheckedClosed` of the rows they
have found, which are still there as long as the role is: without that, and the primary
key, a list could be inserted in part. `TokenInv` says that a token which is carried by
a request or has backed a change is spent, and carried by one at most. The assumptions
are `GrantsAssumption` and `RowAssumption` (NULL is no row).

**LoginThrottleProofs.** `ThrottleTypeCorrect`, `ThrottleBoundsGuesses`,
`ThrottleLocksFull` and `ThrottleKeepsAddress` for any accounts, addresses, limits,
window, lockout and retention and any finite number of requests. The bound is not
inductive: a state with a full bucket and logins past the check could count on.
`BurstsCounted` says that for a bucket which has reached the count that locks it there is a
number `m` of locks begun in its window (`Bursts`) that accounts for the count: the
failures stay below the limit and `m` times the requests, and while the bucket is
locked, the logins that may still fail are included. A lock takes `Lockout` of the window's
age and a new one begins after the last has ended, so `m` locks began only if the first
`m - 1` ended within the window; `LocksFit` turns this into `LocksInWindow`. `RestLocks`,
for `FullIsLocked`, says that what is left of a lock and the time since the failure that
set it make up `Lockout`. The assumptions are `ThrottleAssumption`, `RequestAssumption`
(finitely many requests: the bound is a number), `NoneAssumption` and `NoBucket`.

**AuditArchiveProofs.** `ArchiveTypeCorrect` without further assumptions, and
`ArchiveLosesNothing`, which is `DeletedIsArchived` for any number of jobs, rows, batches,
kills, crashes and orders in which rows expire, without a further assumption. Its invariant
is `FilesOK /\ (~met => Safe)`. As long as `met` is false, jobs that run together have
cutoffs in the order of the ids (`Together`). A batch taken from such a cutoff is an
interval of what is left: no row that is left precedes one of its rows without being in it
(`Leading`), and of its rows others have deleted the first ones (`GoneFirst`). Hence two
jobs that give a file the same name have the same rows in it (`SameName`: the first row
and the last are equal, and both are `Leading`), and a job that meets a file of a batch
already deleted cannot have its name: the first row is gone (`Kept`). A job that runs alone
needs none of this, whatever its cutoff. What is synced is then never replaced by
something else, and `DeletedKept` survives every `MachineCrash`. `JobFiles` connects the
point a job has reached with what it has made durable, which is the order of the calls of
`write_archive`.

**SuperAdminGuard**, in the second part of AuditArchiveProofs: `AdminTypeCorrect` and
`LastAdminRemains` for any number of accounts, roles and transactions. `AdminRemains` is
about committed state only, and nothing in it says that a transaction about to commit leaves somebody. `AdminInv` adds
`Disciplined` (a guarded operation writes nothing before it holds the role row and
never grants the role; any other takes role or status from nobody who has them, once
complete), `Exclusive` (the role row and each users row have one writer) and
`Standing` (while a transaction holds the role row, somebody other than the account
it is working on is an active super_admin in its view). The commit of an unguarded
transaction keeps the witness because it takes nothing away; the commit of a
guarded one because the witness it counted cannot be changed by anybody else: that
needs the role row.

**DepartmentsProofs.** `DepartmentsTypeCorrect`, `DepartmentsNeverDangle` and
`TreeUntilRaced` for any number of departments, users and requests. `NoDangling` is
inductive with the fields a request was checked for (`Submitted`) and the root, which is
never deleted (`RootStays`): the writes themselves look at what they refer to, through
the foreign keys and `delete_if_empty`. `TreeUnlessRaced` is not: between its check and
its write a move must remember what the check found. `SafeMove` says that a move which
no other has overtaken changes nothing or leads to a department that is not below, and
that this stays true while others create, delete and deactivate departments; `Recorded`
that it does not lead to a department yet to come, so that a creation cannot get
between. `MoveKeepsRoot` is the step over the tree: a move to a department that is not
below keeps every way to the root. It is proved from the least sets of `Above`, by
exhibiting a closed set, and needs no induction over paths.

**FlowVerifyProofs.** `FlowTypeCorrect`, `PassEarned` and `CleanupLeavesNothing`
for any configuration, command line, repository and environment.
`Orderly` says what the main thread has under way at each point (a child or none, a
step, the service being started), and is what makes "the first step" and "the first
service that is not running" exist. `CleanupLeavesNothing` adds `Covered`, that every
container is owned, excused, or being created by a client that still runs, and
`Shielded`, that the removal does not look at the flag of the signal handler: were it to,
a container would leave `owned` without an excuse. `PassEarned`
adds `Judged`, which follows the verdict through the run: the scope comes from the
change, a clean scan from its snapshot, every selected step is in `todo` or has a result,
and nothing is written before `todo` is empty. `AskedSelected` closes the gap between what
is selected and what was asked for, which the property says in its own words. The
assumption is `FlowAssumption`, the shape of the configuration as `config.rs` validates it.

**FlowProjectProofs.** `ProjectWrittenLoads` and `ProjectLoadedIsRunnable` for any number
of commands, any configurations of the user, any old configurations to migrate, and any environment. The
inductive invariant is `ProjectInv`. `WrittenLoads` is about files, and a file is written by
a command that looked around several steps earlier. `Prepared` says what a command that is
about to write can rely on: the rule files it has written or found are still there, since no
step removes one, and what `migrate` has converted was validated. `Complete` is the property
in the form the steps keep: a file of `init` holds the preset, one of `migrate` names the
standard secret rules. `LoadedIsRunnable` needs `Attended` (a command at work knows what it
was asked, in which environment) and `Loaded`: what it uses is some configuration with that
environment applied, validated after that. The rest is about `Validate` alone:
`ValidStepRuns` and `ValidRefers` derive from its conjuncts that limits are positive, that
services exist and each gets its variable to the step (`OneInjects`), and that components,
profiles and required steps are there; `EnvironmentApplied` that the override which was
validated is the one used. The assumption is `ProjectAssumption`.

**FlowScan**, in the second part of FlowVerifyProofs: `CommentsExact`, and
`ScanViolationsAccounted`, `ScanSecretsExact` and `ScanGateIsViolations` from the inductive invariant `ScanInv`, for any files of any length,
any rule files and any number of changes while the scans run; the assumption is
`ScanAssumption`.

`CommentsExact` is about the algorithm: for every text, the one pass of `comment_ranges`
marks what `TrueComments` defines by matching delimiters. The two have nothing in common:
one carries a state from lexeme to lexeme, the other asks for the extent of a construct
(parity of a run of escapes, balance of openings and closings, first newline) and chains
extents. The proof follows each of the four kinds of construct from its first lexeme: the
lexer stays in the construct's state, with the depth that the counts give or the parity of
the escapes so far, until the first position the reference accepts as its end, and is in
code after it. Hence the positions where the lexer is at a boundary are those where the
reference begins a construct, and a position is marked when the construct around it is a
comment. The lexer and the chain of constructs are recursive functions over positions;
induction over them is on sets of positions (`RangeInduction`, `StrongInduction`: a set
that is closed contains the range, since its complement has no first element), which the
provers can instantiate where an operator they cannot.

`ScanInv` says what each phase has found of the files that have not changed: `SecretsInv`,
which files have been listed and, of those read, that the findings are the ones that hit;
`Progress`, how far the rules have come; `ViolationsInv`, for each rule and file, that the
lines reported are those it matches, once it has been through the file, and none before;
`ReportsInv`, that the full report has been written and not overwritten by the shortened one
(`ValidateAudit` keeps their names apart). None of the three properties is inductive: each
speaks of the last phase. `ScanViolationsAccounted` then is `ViolationsInv` with `CommentsExact`
and needs two things more: that no accepted rule is for a language without syntax, and what
`FindIter` returns. `FindIter` is a recursive function from a position to the matches from
there on (`FindIterUnfolds`), `LeftmostExists` gives it its next match, and `FoundOrOverrun`
says, by induction over positions, that a position where a word fits is the beginning of a
match or lies in one that began further to the left. `ScanSecretsExact` needs
that an accepted rule refers to no group its pattern lacks (`validate_capture`), or it would
never match. `ScanGateIsViolations` is about a sum: each violation is counted by its own
rule, and a rule that counts one has found one of some rule, so the total is zero exactly
when there is none, although it may exceed their number (`TotalIsExact`, section 4).

SuperAdminGuard and FlowScan are extended together with AuditArchive and FlowVerify, so
their specifications carry a prefix (`AdminSpec`, `ScanSpec`); no proof uses both halves.

What stays with TLC, and why: liveness (`LoginAnswered`, `RequestsEnd`, `LockEnds`,
`RetentionDone`, `RunEnds`). It needs ENABLED and fairness, which the prover does not have.
Every safety property that a run checks is a theorem, and so is the refinement.

## 6. Plan

1. Done: LoginSessions, SuperAdminGuard, MfaChallenges, LoginThrottle, AuditArchive,
   Departments, RoleGrants with step-up tokens and module unlocks, FlowVerify with
   FlowProcess, FlowScan and FlowProject, each with its proofs; the refinement MfaTickets,
   checked and proved.
2. Left to model: the absolute expiry of a session as a time (it is one event);
   `resolve_client_ip` as an operator
   against a reference definition.

Not modelled, and why:

- cryptography (Argon2, AEAD, TOTP and WebAuthn arithmetic): right or wrong answers;
- `openapi.rs`, the DTOs of `models.rs`, `error.rs`, `telemetry.rs`, `app_metrics.rs`,
  the dashboard: formats and read-only queries, no state of their own;
- `config.rs` of the backend: read once at start-up; its ranges are the assumptions on
  the constants;
- the connection pool: sqlx's, not this repository's. A handler that needs a second
  connection inside a transaction waits at most `acquire_timeout`;
- `doctor.rs`, `parse-logs`, the layout of the reports: read-only or text to text;
- what the regular expressions match, character by character;
- the frontend, the maintenance scripts, deployment files, the design mock-ups, and the
  migrations beyond the constraints they create.
