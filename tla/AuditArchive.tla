---------------------------- MODULE AuditArchive ----------------------------
(***************************************************************************)
(* The retention job of the audit log (bin/archive_audit_logs.rs): batches *)
(* of expired rows are written to a directory, each with a manifest that   *)
(* holds its checksum, and then deleted from audit_logs.                   *)
(*                                                                         *)
(* Several jobs may run at once.  A job may be killed and the machine may  *)
(* crash between any two system calls; the contents of a file are durable  *)
(* after its own sync_all, its name only after that of the directory.      *)
(* A file is represented by the rows it holds, a manifest by the rows its  *)
(* checksum is of; a file that does not exist holds none.  The database is *)
(* durable.  Rows that never expire in a behaviour are left out: no batch  *)
(* has them.                                                               *)
(***************************************************************************)
EXTENDS Naturals, FiniteSets

CONSTANTS
    Process,    \* process ids; one is reused by a job that starts later
    MaxId,      \* bound: the rows of audit_logs have the ids 1..MaxId
    BatchSize,  \* AUDIT_ARCHIVE_BATCH_SIZE
    MaxSecond,  \* bound: seconds that pass
    MaxFailures, \* bound: crashes
    Lag         \* how far created_at may be out of the order of the ids

ASSUME ArchiveAssumption ==
    /\ MaxId \in Nat \ {0}
    /\ BatchSize \in Nat \ {0}
    /\ MaxSecond \in Nat \ {0}
    /\ MaxFailures \in Nat
    /\ Lag \in Nat

VARIABLES
    table,      \* audit_logs
    expired,    \* the rows older than the retention time
    second,     \* the wall clock, in the precision of a file name
    jobs,       \* the jobs, by process
    temps,      \* the temporary files that exist
    dir,        \* <<name, contents>> of the files in the output directory
    disk,       \* <<name, contents>> that a machine crash may leave
    failures,   \* crashes so far
    met         \* history: jobs have overlapped, rows expired out of order

files == <<temps, dir, disk>>
vars == <<table, expired, second, jobs, files, failures, met>>

Id == 1..MaxId
Second == 1..MaxSecond

(* The names audit-<first>-<last>-<cutoff>, with .jsonl or .manifest.json *)
File == {"archive", "manifest"} \X Id \X Id \X Second

(* cutoff: the rows that were expired when the job took its cutoff, which  *)
(* is finer than the second it is written with; rows: the current batch.   *)
Job == [pc : {"idle", "read", "create", "archive", "describe", "manifest",
              "sync", "delete"},
        cutoff : SUBSET Id, second : Second,
        rows : {S \in SUBSET Id : Cardinality(S) <= BatchSize}]

Idle == [pc |-> "idle", cutoff |-> {}, second |-> 1, rows |-> {}]

TypeOK ==
    /\ table \in SUBSET Id
    /\ expired \in SUBSET Id
    /\ second \in Second
    /\ jobs \in [Process -> Job]
    /\ temps \in SUBSET (File \X Process)
    /\ failures \in 0..MaxFailures
    /\ dir \in SUBSET (File \X SUBSET Id)
    /\ disk \in SUBSET (File \X SUBSET Id)
    /\ met \in BOOLEAN

Init ==
    /\ table = Id
    /\ expired = {}
    /\ second = 1
    /\ jobs = [p \in Process |-> Idle]
    /\ temps = {}
    /\ dir = {}
    /\ disk = {}
    /\ failures = 0
    /\ met = FALSE

-----------------------------------------------------------------------------
(* ORDER BY id LIMIT batch_size *)
Batch(S) == {i \in S : Cardinality({j \in S : j <= i}) <= BatchSize}

(* Mutant: files are named after their rows only. *)
NameUntimed(kind, j) ==
    <<kind, CHOOSE i \in j.rows : \A k \in j.rows : i <= k,
            CHOOSE i \in j.rows : \A k \in j.rows : i >= k, 1>>

Name(kind, j) ==
    <<kind, CHOOSE i \in j.rows : \A k \in j.rows : i <= k,
            CHOOSE i \in j.rows : \A k \in j.rows : i >= k, j.second>>

Goto(p, pc) == jobs' = [jobs EXCEPT ![p].pc = pc]

(* An error ends the program; what it has done stays. *)
Stop(p) == jobs' = [jobs EXCEPT ![p] = Idle]

(* A row has expired before one of a smaller id. *)
Disordered(cutoff) == \E i \in cutoff, j \in Id : j < i /\ j \notin cutoff

(* History: a job starts while another one runs, and the cutoff of either  *)
(* is not an initial part of the ids.                                      *)
Meet ==
    met' = (met \/ \E q \in Process :
                      /\ jobs[q].pc # "idle"
                      /\ Disordered(expired) \/ Disordered(jobs[q].cutoff))

(* Mutant: the second of the cutoff is rounded up. *)
StartRoundsUp(p) ==
    /\ jobs[p].pc = "idle"
    /\ jobs' = [jobs EXCEPT ![p] = [pc |-> "read", cutoff |-> expired,
                                    second |-> second + 1, rows |-> {}]]
    /\ Meet
    /\ UNCHANGED <<table, expired, second, files, failures>>

(* main, to the loop *)
Start(p) ==
    /\ jobs[p].pc = "idle"
    /\ jobs' = [jobs EXCEPT ![p] = [pc |-> "read", cutoff |-> expired,
                                    second |-> second, rows |-> {}]]
    /\ Meet
    /\ UNCHANGED <<table, expired, second, files, failures>>

(* archive_batch; an empty batch ends the job. *)
ReadBatch(p) ==
    LET rows == Batch(table \cap jobs[p].cutoff) IN
    /\ jobs[p].pc = "read"
    /\ jobs' = [jobs EXCEPT ![p] = IF rows = {} THEN Idle
                                   ELSE [@ EXCEPT !.pc = "create", !.rows = rows]]
    /\ UNCHANGED <<table, expired, second, files, failures, met>>

(* create_new, and the contents written and synced; it fails if a file of  *)
(* that name is left from an earlier job.                                  *)
CreateTemp(p, f, pc) ==
    /\ IF <<f, p>> \in temps
       THEN Stop(p) /\ UNCHANGED temps
       ELSE Goto(p, pc) /\ temps' = temps \cup {<<f, p>>}
    /\ UNCHANGED <<table, expired, second, dir, disk, failures, met>>

(* What a name may be found to be; {}: it may be missing. *)
Contents(f) == {e[2] : e \in {e \in disk : e[1] = f}}

(* fs::rename replaces what the name stood for. *)
Rename(p, f, pc) ==
    /\ temps' = temps \ {<<f, p>>}
    /\ dir' = {e \in dir : e[1] # f} \cup {<<f, jobs[p].rows>>}
    /\ disk' = disk \cup {<<f, jobs[p].rows>>}
                    \cup (IF Contents(f) = {} THEN {<<f, {}>>} ELSE {})
    /\ Goto(p, pc)
    /\ UNCHANGED <<table, expired, second, failures, met>>

(* write_archive, one action for each system call that others can see *)
CreateArchive(p) ==
    /\ jobs[p].pc = "create"
    /\ CreateTemp(p, Name("archive", jobs[p]), "archive")

RenameArchive(p) ==
    /\ jobs[p].pc = "archive"
    /\ Rename(p, Name("archive", jobs[p]), "describe")

CreateManifest(p) ==
    /\ jobs[p].pc = "describe"
    /\ CreateTemp(p, Name("manifest", jobs[p]), "manifest")

RenameManifest(p) ==
    /\ jobs[p].pc = "manifest"
    /\ Rename(p, Name("manifest", jobs[p]), "sync")

(* Mutant: the directory is not synced. *)
SyncNothing(p) ==
    /\ jobs[p].pc = "sync"
    /\ Goto(p, "delete")
    /\ UNCHANGED <<table, expired, second, files, failures, met>>

SyncDir(p) ==
    /\ jobs[p].pc = "sync"
    /\ disk' = dir
    /\ Goto(p, "delete")
    /\ UNCHANGED <<table, expired, second, temps, dir, failures, met>>

(* delete_archived: all rows of the batch, or none and an error. *)
DeleteArchived(p) ==
    /\ jobs[p].pc = "delete"
    /\ IF jobs[p].rows \subseteq table
       THEN table' = table \ jobs[p].rows /\ Goto(p, "read")
       ELSE Stop(p) /\ UNCHANGED table
    /\ UNCHANGED <<expired, second, files, failures, met>>

-----------------------------------------------------------------------------
(* A row passes the retention time.  created_at is the start of the        *)
(* transaction that wrote the row, so that transactions that overlap give  *)
(* ids and times in different orders.                                      *)
Age(i) ==
    /\ i \notin expired
    /\ \A j \in Id : j + Lag < i => j \in expired
    /\ expired' = expired \cup {i}
    /\ UNCHANGED <<table, second, jobs, files, failures, met>>

Tick ==
    /\ second < MaxSecond
    /\ second' = second + 1
    /\ UNCHANGED <<table, expired, jobs, files, failures, met>>

(* As a bound, the last second of a behaviour is one without failures. *)
Failure ==
    /\ second < MaxSecond
    /\ failures < MaxFailures
    /\ failures' = failures + 1

(* A job is killed, or a call of it fails. *)
Kill(p) ==
    /\ Failure
    /\ jobs[p].pc # "idle"
    /\ Stop(p)
    /\ UNCHANGED <<table, expired, second, files, met>>

(* The names not synced since they changed. *)
Unsettled == {f \in {e[1] : e \in disk} : Cardinality(Contents(f)) > 1}

(* The machine crashes: each name is what it was at the last sync or has   *)
(* been since; temporary files may be lost.                                *)
MachineCrash ==
    /\ Failure
    /\ jobs' = [p \in Process |-> Idle]
    /\ temps' \in SUBSET temps
    /\ \E found \in [Unsettled -> SUBSET Id] :
          /\ \A f \in Unsettled : found[f] \in Contents(f)
          /\ dir' = {e \in dir : e[1] \notin Unsettled}
                    \cup {<<f, found[f]>> : f \in {f \in Unsettled : found[f] # {}}}
    /\ disk' = dir'
    /\ UNCHANGED <<table, expired, second, met>>

Step(p) ==
    \/ ReadBatch(p) \/ CreateArchive(p) \/ RenameArchive(p) \/ CreateManifest(p)
    \/ RenameManifest(p) \/ SyncDir(p) \/ DeleteArchived(p)

Next ==
    \/ \E p \in Process : Start(p) \/ Step(p) \/ Kill(p)
    \/ \E i \in Id : Age(i)
    \/ Tick
    \/ MachineCrash

Spec == Init /\ [][Next]_vars

(* A job that runs goes on, the scheduler starts one every day             *)
(* (docs/audit-retention.md), time passes.                                 *)
Fairness ==
    /\ WF_vars(Tick)
    /\ \A p \in Process : WF_vars(Step(p)) /\ WF_vars(Start(p))

FairSpec == Spec /\ Fairness

-----------------------------------------------------------------------------
(* Properties *)

(* docs/audit-retention.md:3 and :28: a row is deleted only when an        *)
(* archive that holds it and a manifest that describes this archive are on *)
(* disk, and both survive whatever crash and whatever job comes later.     *)
(* The exception is real (see DeletedIsHeld): two jobs that overlap while  *)
(* created_at is out of the order of the ids.  A job that runs alone is    *)
(* safe in any order, and so are any number of them when rows expire in    *)
(* the order of their ids.                                                 *)
DeletedIsArchived ==
    ~met => \A i \in Id \ table : \E e \in disk :
        /\ i \in e[2]
        /\ \A kind \in {"archive", "manifest"} :
              Contents(<<kind, e[1][2], e[1][3], e[1][4]>>) = {e[2]}

(* docs/audit-retention.md:3, the part of it that matters most: rows are   *)
(* deleted only after they are in an archive; read as: a deleted row is in *)
(* a file of the directory.  Two jobs of one second can give batches that  *)
(* differ in the middle the same file name.                                *)
DeletedIsHeld ==
    \A i \in Id \ table : \E e \in dir : e[1][1] = "archive" /\ i \in e[2]

(* docs/audit-retention.md:28: the job can be run again; after crashes and *)
(* half-written batches every expired row is archived and deleted in the   *)
(* end.                                                                    *)
RetentionDone == \A i \in Id : i \in expired ~> i \notin table

=============================================================================
