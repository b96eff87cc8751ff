------------------------ MODULE AuditArchiveProofs -------------------------
(***************************************************************************)
(* No audit row is lost: for any number of jobs, rows, batches and         *)
(* crashes and any order in which rows expire, unless jobs have overlapped *)
(* while that order was not the one of the ids (met).                      *)
(*                                                                         *)
(* A file name has the first and the last row of a batch.  A job that runs *)
(* alone can only meet a name it knows by the hand of a job that was       *)
(* killed before it deleted anything.  Jobs that run together have cutoffs *)
(* that are initial parts of the ids: no row that is left precedes a batch *)
(* without being in it, and rows that others delete from a batch are its   *)
(* first ones.  So, while a batch is complete, every other batch of its    *)
(* name is the same set of rows, and what is synced before the batch is    *)
(* deleted is never replaced by something else.                            *)
(*                                                                         *)
(* The second part is about SuperAdminGuard, which shares no state with    *)
(* the job: both say what concurrent transactions may not take away.       *)
(***************************************************************************)
EXTENDS AuditArchive, SuperAdminGuard, FiniteSetTheorems, WellFoundedInduction, TLAPS

Kind == {"archive", "manifest"}

Busy == {"create", "archive", "describe", "manifest", "sync", "delete"}

(* Jobs that run together have cutoffs in the order of the ids. *)
Together ==
    \A p, q \in Process : p # q /\ jobs[p].pc # "idle" /\ jobs[q].pc # "idle" =>
        ~Disordered(jobs[p].cutoff)

(* No row that is left precedes a row of the batch without being in it. *)
Leading(S) == \A i \in table, k \in S : i < k => i \in S

(* The rows of a batch that others have deleted are its first ones. *)
GoneFirst(S) == \A k \in S, i \in S : k \notin table /\ i < k => i \notin table

BatchesInOrder ==
    \A p \in Process : jobs[p].pc \in Busy /\ ~Disordered(jobs[p].cutoff) =>
        Leading(jobs[p].rows) /\ GoneFirst(jobs[p].rows)

(* A name stands for one file, and that is on disk if nothing happens. *)
FilesOK ==
    /\ dir \subseteq disk
    /\ \A e, f \in dir : e[1] = f[1] => e = f

(* What a job has brought to the directory, and to the disk, of a batch    *)
(* that is still there to be deleted.                                      *)
JobFiles(p) ==
    LET j == jobs[p] IN
    j.rows \subseteq table =>
      /\ j.pc \in {"describe", "manifest", "sync", "delete"} =>
            <<Name("archive", j), j.rows>> \in dir
      /\ j.pc \in {"sync", "delete"} => <<Name("manifest", j), j.rows>> \in dir
      /\ j.pc = "delete" => \A kind \in Kind : Contents(Name(kind, j)) = {j.rows}

(* The rows S are archived and described under a name that no job will     *)
(* give to other rows: its first row is deleted.                           *)
Kept(a, b, s, S) ==
    /\ a \notin table
    /\ \A kind \in Kind : /\ <<<<kind, a, b, s>>, S>> \in dir
                          /\ Contents(<<kind, a, b, s>>) = {S}
    /\ \A p \in Process :
         jobs[p].pc \in Busy /\ Name("archive", jobs[p]) = <<"archive", a, b, s>> =>
             jobs[p].rows = S

DeletedKept ==
    \A i \in Id \ table : \E a, b \in Id, s \in Second, S \in SUBSET Id :
        i \in S /\ Kept(a, b, s, S)

Safe == Together /\ BatchesInOrder /\ DeletedKept /\ \A p \in Process : JobFiles(p)

IInv == FilesOK /\ (~met => Safe)

-----------------------------------------------------------------------------
(* Sets of ids *)

(* A set of naturals that is not empty has a least element. *)
LEMMA LeastNat ==
  ASSUME NEW S \in SUBSET Nat, S # {}
  PROVE  \E n \in S : \A m \in S : n <= m
<1>1. IsWellFoundedOn(OpToRel(<, Nat), Nat)
  BY NatLessThanWellFounded
<1>2. PICK n \in S : \A m \in S : ~(<<m, n>> \in OpToRel(<, Nat))
  BY <1>1, WFMin
<1>3. \A m \in S : ~(m < n)
  BY <1>2 DEF OpToRel
<1>4. QED BY <1>3

(* A set of ids that is not empty has a first and a last one. *)
LEMMA EndsOfIds ==
  ASSUME NEW S \in SUBSET Id, S # {}
  PROVE  /\ \E n \in S : \A m \in S : n <= m
         /\ \E n \in S : \A m \in S : n >= m
<1>0. Id \subseteq Nat /\ \A n \in Id : n <= MaxId
  BY ArchiveAssumption DEF Id
<1>1. \E n \in S : \A m \in S : n <= m
  BY <1>0, LeastNat
<1> DEFINE T == {d \in Nat : \E m \in S : m + d = MaxId}
<1>2. T # {}
  <2>1. PICK m \in S : TRUE
    OBVIOUS
  <2>2. MaxId - m \in Nat /\ m + (MaxId - m) = MaxId
    BY <1>0, ArchiveAssumption
  <2>3. QED BY <2>2
<1>3. PICK d \in T : \A c \in T : d <= c
  BY <1>2, LeastNat
<1>4. PICK n \in S : n + d = MaxId
  OBVIOUS
<1>5. ASSUME NEW m \in S PROVE n >= m
  <2>1. MaxId - m \in T
    BY <1>0, ArchiveAssumption
  <2>2. QED BY <1>0, <1>3, <1>4, <2>1, ArchiveAssumption
<1>6. QED BY <1>1, <1>5

(* Ids are finitely many. *)
LEMMA IdFinite == ASSUME NEW S \in SUBSET Id PROVE IsFiniteSet(S)
<1>1. IsFiniteSet(Id)
  BY ArchiveAssumption, FS_Interval DEF Id
<1>2. QED BY <1>1, FS_Subset

(* LIMIT batch_size: a batch has no more rows than that. *)
LEMMA BatchLimited ==
  ASSUME NEW S \in SUBSET Id
  PROVE  Batch(S) \in {T \in SUBSET Id : Cardinality(T) <= BatchSize}
<1>1. Batch(S) \in SUBSET Id
  BY DEF Batch
<1>2. CASE Batch(S) = {}
  BY <1>1, <1>2, FS_EmptySet, ArchiveAssumption
<1>3. CASE Batch(S) # {}
  <2>1. PICK m \in Batch(S) : \A i \in Batch(S) : m >= i
    BY <1>1, <1>3, EndsOfIds
  <2> DEFINE U == {j \in S : j <= m}
  <2>2. Cardinality(U) <= BatchSize /\ U \in SUBSET Id
    BY <2>1 DEF Batch
  <2>3. Batch(S) \subseteq U
    BY <1>1, <2>1, ArchiveAssumption DEF Batch, Id
  <2>4. /\ Cardinality(Batch(S)) <= Cardinality(U)
        /\ Cardinality(Batch(S)) \in Nat /\ Cardinality(U) \in Nat
    BY <1>1, <2>2, <2>3, IdFinite, FS_Subset, FS_CardinalityType
  <2>5. QED BY <1>1, <2>2, <2>4, ArchiveAssumption
<1>4. QED BY <1>2, <1>3

(* ORDER BY id: a batch has the first rows. *)
LEMMA BatchFirst ==
  ASSUME NEW S \in SUBSET Id, NEW i \in Batch(S), NEW j \in S, j <= i
  PROVE  j \in Batch(S)
<1> DEFINE U == {k \in S : k <= i}
           V == {k \in S : k <= j}
<1>1. i \in Nat /\ j \in Nat /\ S \subseteq Nat
  BY ArchiveAssumption DEF Batch, Id
<1>2. V \subseteq U /\ U \in SUBSET Id /\ V \in SUBSET Id
  <2>1. \A k \in S : k <= j => k <= i
    BY <1>1
  <2>2. QED BY <2>1
<1>3. Cardinality(U) <= BatchSize
  BY DEF Batch
<1>4. /\ Cardinality(V) <= Cardinality(U)
      /\ Cardinality(U) \in Nat /\ Cardinality(V) \in Nat
  BY <1>2, IdFinite, FS_Subset, FS_CardinalityType
<1>5. Cardinality(V) <= BatchSize
  BY <1>3, <1>4, ArchiveAssumption
<1>6. QED BY <1>5 DEF Batch

(* The file name of a batch has its first and its last row. *)
LEMMA NameEnds ==
  ASSUME NEW j, j.rows \in SUBSET Id, j.rows # {}
  PROVE  \E a, b \in j.rows :
            /\ \A k \in j.rows : a <= k /\ k <= b
            /\ \A kind : Name(kind, j) = <<kind, a, b, j.second>>
<1> DEFINE a == CHOOSE i \in j.rows : \A k \in j.rows : i <= k
           b == CHOOSE i \in j.rows : \A k \in j.rows : i >= k
<1>1. \E i \in j.rows : \A k \in j.rows : i <= k
  BY EndsOfIds
<1>2. \E i \in j.rows : \A k \in j.rows : i >= k
  BY EndsOfIds
<1>3. a \in j.rows /\ \A k \in j.rows : a <= k
  BY <1>1
<1>4. b \in j.rows /\ \A k \in j.rows : b >= k
  BY <1>2
<1>5. \A kind : Name(kind, j) = <<kind, a, b, j.second>>
  BY DEF Name
<1> HIDE DEF a, b
<1>6. \A k \in j.rows : k \in Nat
  BY ArchiveAssumption DEF Id
<1>7. \A k \in j.rows : a <= k /\ k <= b
  BY <1>3, <1>4, <1>6
<1>8. QED BY <1>3, <1>4, <1>5, <1>7

-----------------------------------------------------------------------------
(* Types, whatever the order in which rows expire *)

TypeInv == TypeOK /\ \A p \in Process : jobs[p].pc \in Busy => jobs[p].rows # {}

(* A batch that is not empty names a file. *)
LEMMA NameIsFile ==
  ASSUME NEW j \in Job, j.rows # {}, NEW kind \in Kind
  PROVE  Name(kind, j) \in File
<1> DEFINE a == CHOOSE i \in j.rows : \A k \in j.rows : i <= k
           b == CHOOSE i \in j.rows : \A k \in j.rows : i >= k
<1>1. j.rows \in SUBSET Id /\ j.second \in Second
  BY DEF Job
<1>2. a \in j.rows
  <2>1. \E i \in j.rows : \A k \in j.rows : i <= k
    BY <1>1, EndsOfIds
  <2>2. QED BY <2>1
<1>3. b \in j.rows
  <2>1. \E i \in j.rows : \A k \in j.rows : i >= k
    BY <1>1, EndsOfIds
  <2>2. QED BY <2>1
<1>4. Name(kind, j) = <<kind, a, b, j.second>>
  BY DEF Name
<1> HIDE DEF a, b
<1>5. QED BY <1>1, <1>2, <1>3, <1>4 DEF File, Kind

(* A job goes on with the same batch. *)
LEMMA GotoType ==
  ASSUME TypeInv, NEW p \in Process, NEW pc \in Busy \cup {"read"}, Goto(p, pc),
         pc \in Busy => jobs[p].pc \in Busy
  PROVE  /\ jobs' \in [Process -> Job]
         /\ \A q \in Process : jobs'[q].pc \in Busy => jobs'[q].rows # {}
         /\ jobs'[p].pc = pc /\ jobs'[p].cutoff = jobs[p].cutoff
         /\ jobs'[p].second = jobs[p].second /\ jobs'[p].rows = jobs[p].rows
         /\ \A q \in Process \ {p} : jobs'[q] = jobs[q]
<1> DEFINE r == [jobs[p] EXCEPT !.pc = pc]
<1>1. jobs[p] \in Job
  BY DEF TypeInv, TypeOK
<1>2. /\ r \in Job /\ r.pc = pc /\ r.rows = jobs[p].rows
      /\ r.cutoff = jobs[p].cutoff /\ r.second = jobs[p].second
  BY <1>1 DEF Job, Busy
<1>3. jobs' = [jobs EXCEPT ![p] = r]
  BY DEF Goto, TypeInv, TypeOK
<1> HIDE DEF r
<1>4. /\ jobs' \in [Process -> Job] /\ jobs'[p] = r
      /\ \A q \in Process \ {p} : jobs'[q] = jobs[q]
  BY <1>2, <1>3 DEF TypeInv, TypeOK
<1>5. \A q \in Process : jobs'[q].pc \in Busy => jobs'[q].rows # {}
  BY <1>2, <1>4 DEF TypeInv
<1>6. QED BY <1>2, <1>4, <1>5

(* A job is replaced by one that is busy with no empty batch. *)
LEMMA ReplaceType ==
  ASSUME TypeInv, NEW p \in Process, NEW r \in Job, r.pc \in Busy => r.rows # {},
         jobs' = [jobs EXCEPT ![p] = r]
  PROVE  /\ jobs' \in [Process -> Job] /\ jobs'[p] = r
         /\ \A q \in Process \ {p} : jobs'[q] = jobs[q]
         /\ \A q \in Process : jobs'[q].pc \in Busy => jobs'[q].rows # {}
<1>1. /\ jobs' \in [Process -> Job] /\ jobs'[p] = r
      /\ \A q \in Process \ {p} : jobs'[q] = jobs[q]
  BY DEF TypeInv, TypeOK
<1>2. QED BY <1>1 DEF TypeInv

(* A job that has ended. *)
LEMMA IdleType == Idle \in Job /\ Idle.pc = "idle" /\ Idle.pc \notin Busy /\ Idle.cutoff = {}
<1>1. {} \in {S \in SUBSET Id : Cardinality(S) <= BatchSize}
  BY FS_EmptySet, ArchiveAssumption
<1>2. QED BY <1>1, ArchiveAssumption DEF Idle, Job, Busy, Second

(* archive_batch: what a job has read. *)
LEMMA ReadJob ==
  ASSUME TypeInv, NEW p \in Process, ReadBatch(p)
  PROVE  \E r \in Job :
            /\ jobs' = [jobs EXCEPT ![p] = r]
            /\ r.pc \in {"idle", "create"}
            /\ r.pc \in Busy => /\ r.rows = Batch(table \cap jobs[p].cutoff)
                                /\ r.rows # {} /\ r.cutoff = jobs[p].cutoff
<1> DEFINE rows == Batch(table \cap jobs[p].cutoff)
           r == [jobs[p] EXCEPT !.pc = "create", !.rows = rows]
<1>1. jobs[p] \in Job /\ table \cap jobs[p].cutoff \in SUBSET Id
  BY DEF TypeInv, TypeOK
<1>2. rows \in {S \in SUBSET Id : Cardinality(S) <= BatchSize}
  BY <1>1, BatchLimited
<1>3. jobs' = [jobs EXCEPT ![p] = IF rows = {} THEN Idle ELSE r]
  BY DEF ReadBatch, TypeInv, TypeOK
<1> HIDE DEF rows
<1>4. r \in Job /\ r.pc = "create" /\ r.rows = rows /\ r.cutoff = jobs[p].cutoff
  BY <1>1, <1>2 DEF Job
<1> HIDE DEF r
<1>5. CASE rows = {}
  BY <1>3, <1>5, IdleType
<1>6. CASE rows # {}
  BY <1>3, <1>4, <1>6 DEF rows
<1>7. QED BY <1>5, <1>6

(* create_new of a temporary file, or the end of the job. *)
LEMMA CreateType ==
  ASSUME TypeInv, NEW p \in Process, jobs[p].pc \in Busy, NEW kind \in Kind,
         NEW pc \in Busy, CreateTemp(p, Name(kind, jobs[p]), pc)
  PROVE  TypeInv'
<1> DEFINE f == Name(kind, jobs[p])
<1>1. jobs[p] \in Job /\ jobs[p].rows # {}
  BY DEF TypeInv, TypeOK
<1>2. f \in File
  BY <1>1, NameIsFile
<1>3. UNCHANGED <<table, expired, second, dir, disk, failures, met>>
  BY DEF CreateTemp
<1> HIDE DEF f
<1>4. CASE Goto(p, pc) /\ temps' = temps \cup {<<f, p>>}
  <2>1. /\ jobs' \in [Process -> Job]
        /\ \A q \in Process : jobs'[q].pc \in Busy => jobs'[q].rows # {}
    BY <1>4, GotoType
  <2>2. QED BY <1>2, <1>3, <1>4, <2>1 DEF TypeInv, TypeOK
<1>5. CASE Stop(p) /\ temps' = temps
  <2>1. /\ jobs' \in [Process -> Job]
        /\ \A q \in Process : jobs'[q].pc \in Busy => jobs'[q].rows # {}
    BY <1>5, ReplaceType, IdleType DEF Stop
  <2>2. QED BY <1>3, <1>5, <2>1 DEF TypeInv, TypeOK
<1>6. QED BY <1>4, <1>5 DEF CreateTemp, f

(* fs::rename *)
LEMMA RenameType ==
  ASSUME TypeInv, NEW p \in Process, jobs[p].pc \in Busy, NEW kind \in Kind,
         NEW pc \in Busy, Rename(p, Name(kind, jobs[p]), pc)
  PROVE  TypeInv'
<1> DEFINE f == Name(kind, jobs[p])
<1>1. jobs[p] \in Job /\ jobs[p].rows # {} /\ jobs[p].rows \in SUBSET Id
  BY DEF TypeInv, TypeOK, Job
<1>2. f \in File
  BY <1>1, NameIsFile
<1>3. /\ UNCHANGED <<table, expired, second, failures, met>>
      /\ temps' = temps \ {<<f, p>>} /\ Goto(p, pc)
      /\ dir' = {e \in dir : e[1] # f} \cup {<<f, jobs[p].rows>>}
      /\ disk' \subseteq disk \cup {<<f, jobs[p].rows>>, <<f, {}>>}
  BY DEF Rename
<1> HIDE DEF f
<1>4. /\ jobs' \in [Process -> Job]
      /\ \A q \in Process : jobs'[q].pc \in Busy => jobs'[q].rows # {}
  BY <1>3, GotoType
<1>5. <<f, jobs[p].rows>> \in File \X SUBSET Id /\ <<f, {}>> \in File \X SUBSET Id
  BY <1>1, <1>2
<1>6. dir' \in SUBSET (File \X SUBSET Id) /\ disk' \in SUBSET (File \X SUBSET Id)
  BY <1>3, <1>5 DEF TypeInv, TypeOK
<1>7. temps' \in SUBSET (File \X Process)
  BY <1>3 DEF TypeInv, TypeOK
<1>8. QED BY <1>3, <1>4, <1>6, <1>7 DEF TypeInv, TypeOK

(* A machine crash leaves of each name what it was or has been. *)
LEMMA CrashType ==
  ASSUME TypeInv, MachineCrash
  PROVE  TypeInv'
<1>1. PICK found \in [Unsettled -> SUBSET Id] :
        dir' = {e \in dir : e[1] \notin Unsettled}
               \cup {<<f, found[f]>> : f \in {f \in Unsettled : found[f] # {}}}
  BY DEF MachineCrash
<1>2. Unsettled \subseteq File
  BY DEF Unsettled, TypeInv, TypeOK
<1>3. dir' \in SUBSET (File \X SUBSET Id)
  BY <1>1, <1>2 DEF TypeInv, TypeOK
<1>4. jobs' = [q \in Process |-> Idle] /\ failures' \in 0..MaxFailures
  BY ArchiveAssumption DEF MachineCrash, Failure, TypeInv, TypeOK
<1>5. /\ jobs' \in [Process -> Job]
      /\ \A q \in Process : jobs'[q].pc \in Busy => jobs'[q].rows # {}
  BY <1>4, IdleType
<1>6. /\ temps' \in SUBSET (File \X Process) /\ disk' = dir'
      /\ UNCHANGED <<table, expired, second, met>>
  BY DEF MachineCrash, TypeInv, TypeOK
<1>7. QED BY <1>3, <1>4, <1>5, <1>6 DEF TypeInv, TypeOK

(* A step of a job. *)
LEMMA JobType ==
  ASSUME TypeInv, NEW p \in Process, Start(p) \/ Step(p) \/ Kill(p)
  PROVE  TypeInv'
<1>1. CASE Start(p)
  <2> DEFINE r == [pc |-> "read", cutoff |-> expired, second |-> second, rows |-> {}]
  <2>1. {} \in {S \in SUBSET Id : Cardinality(S) <= BatchSize}
    BY FS_EmptySet, ArchiveAssumption
  <2>2. r \in Job /\ r.pc \notin Busy
    BY <2>1 DEF Job, Busy, TypeInv, TypeOK
  <2>3. jobs' = [jobs EXCEPT ![p] = r]
    BY <1>1 DEF Start
  <2> HIDE DEF r
  <2>4. /\ jobs' \in [Process -> Job]
        /\ \A q \in Process : jobs'[q].pc \in Busy => jobs'[q].rows # {}
    BY <2>2, <2>3, ReplaceType
  <2>5. met' \in BOOLEAN
    BY <1>1 DEF Start, Meet
  <2>6. QED BY <1>1, <2>4, <2>5 DEF Start, files, TypeInv, TypeOK
<1>2. CASE ReadBatch(p)
  <2>1. /\ jobs' \in [Process -> Job]
        /\ \A q \in Process : jobs'[q].pc \in Busy => jobs'[q].rows # {}
    BY <1>2, ReadJob, ReplaceType
  <2>2. QED BY <1>2, <2>1 DEF ReadBatch, files, TypeInv, TypeOK
<1>3. CASE CreateArchive(p)
  BY <1>3, CreateType DEF CreateArchive, Busy, Kind
<1>4. CASE RenameArchive(p)
  BY <1>4, RenameType DEF RenameArchive, Busy, Kind
<1>5. CASE CreateManifest(p)
  BY <1>5, CreateType DEF CreateManifest, Busy, Kind
<1>6. CASE RenameManifest(p)
  BY <1>6, RenameType DEF RenameManifest, Busy, Kind
<1>7. CASE SyncDir(p)
  <2>1. /\ jobs' \in [Process -> Job]
        /\ \A q \in Process : jobs'[q].pc \in Busy => jobs'[q].rows # {}
    BY <1>7, GotoType DEF SyncDir, Busy
  <2>2. QED BY <1>7, <2>1 DEF SyncDir, TypeInv, TypeOK
<1>8. CASE DeleteArchived(p)
  <2>1. \/ table' = table \ jobs[p].rows /\ Goto(p, "read")
        \/ Stop(p) /\ UNCHANGED table
    BY <1>8 DEF DeleteArchived
  <2>2. /\ jobs' \in [Process -> Job]
        /\ \A q \in Process : jobs'[q].pc \in Busy => jobs'[q].rows # {}
    BY <2>1, GotoType, ReplaceType, IdleType DEF Stop, Busy
  <2>3. QED BY <1>8, <2>1, <2>2 DEF DeleteArchived, files, TypeInv, TypeOK
<1>9. CASE Kill(p)
  <2>1. /\ jobs' \in [Process -> Job]
        /\ \A q \in Process : jobs'[q].pc \in Busy => jobs'[q].rows # {}
    BY <1>9, ReplaceType, IdleType DEF Kill, Stop
  <2>2. failures' \in 0..MaxFailures
    BY <1>9, ArchiveAssumption DEF Kill, Failure, TypeInv, TypeOK
  <2>3. QED BY <1>9, <2>1, <2>2 DEF Kill, files, TypeInv, TypeOK
<1>10. QED BY <1>1, <1>2, <1>3, <1>4, <1>5, <1>6, <1>7, <1>8, <1>9 DEF Step

(* The types, in every reachable state. *)
LEMMA TypeInductive == Spec => []TypeInv
<1>1. Init => TypeInv
  <2> SUFFICES ASSUME Init PROVE TypeInv
    OBVIOUS
  <2>1. /\ table \in SUBSET Id /\ expired \in SUBSET Id /\ second \in Second
        /\ failures \in 0..MaxFailures
    BY ArchiveAssumption DEF Init, Second
  <2>2. met \in BOOLEAN
    BY DEF Init
  <2>3. /\ jobs \in [Process -> Job]
        /\ \A p \in Process : jobs[p].pc \in Busy => jobs[p].rows # {}
    BY IdleType DEF Init
  <2>4. /\ temps \in SUBSET (File \X Process) /\ dir \in SUBSET (File \X SUBSET Id)
        /\ disk \in SUBSET (File \X SUBSET Id)
    BY DEF Init
  <2>5. QED BY <2>1, <2>2, <2>3, <2>4 DEF TypeInv, TypeOK
<1>2. ASSUME TypeInv, [Next]_vars PROVE TypeInv'
  <2>1. CASE \E i \in Id : Age(i)
    BY <1>2, <2>1 DEF Age, files, TypeInv, TypeOK
  <2>2. CASE Tick
    BY <1>2, <2>2, ArchiveAssumption DEF Tick, files, TypeInv, TypeOK, Second
  <2>3. CASE UNCHANGED vars
    BY <1>2, <2>3 DEF vars, files, TypeInv, TypeOK
  <2>4. QED BY <1>2, <2>1, <2>2, <2>3, JobType, CrashType DEF Next
<1>3. QED BY <1>1, <1>2, PTL DEF Spec

(* Every variable keeps its type: every batch has at most BatchSize rows,  *)
(* every file is named after two rows and a second.                        *)
THEOREM ArchiveTypeCorrect == Spec => []TypeOK
<1>1. TypeInv => TypeOK
  BY DEF TypeInv
<1>2. QED BY <1>1, TypeInductive, PTL

-----------------------------------------------------------------------------
(* What a step does to a file *)

(* A file that holds S goes on to, and if no crash could change that, none *)
(* can after the step.                                                     *)
Keeps(g, S) ==
    /\ <<g, S>> \in dir => <<g, S>> \in dir'
    /\ <<g, S>> \in dir /\ Contents(g) = {S} => Contents(g)' = {S}

(* Files that nobody touches. *)
LEMMA SameFiles ==
  ASSUME FilesOK, dir' = dir, disk' = disk
  PROVE  FilesOK' /\ \A g, S : Keeps(g, S)
  BY DEF FilesOK, Keeps, Contents

(* fs::rename: the files of other names stay, and so does one of this name *)
(* that holds the same rows.                                               *)
LEMMA RenameFiles ==
  ASSUME TypeInv, FilesOK, NEW p \in Process, NEW f, NEW pc, Rename(p, f, pc)
  PROVE  /\ FilesOK' /\ <<f, jobs[p].rows>> \in dir'
         /\ \A g, S : (g = f => S = jobs[p].rows) => Keeps(g, S)
<1> DEFINE R == jobs[p].rows
<1>1. /\ dir' = {e \in dir : e[1] # f} \cup {<<f, R>>}
      /\ disk' = disk \cup {<<f, R>>} \cup (IF Contents(f) = {} THEN {<<f, {}>>} ELSE {})
  BY DEF Rename
<1> HIDE DEF R
<1>2. <<f, R>>[1] = f /\ <<f, R>>[2] = R /\ <<f, {}>>[1] = f
  OBVIOUS
<1>3. FilesOK'
  BY <1>1, <1>2 DEF FilesOK
<1>4. ASSUME NEW g, NEW S, g = f => S = R PROVE Keeps(g, S)
  <2>1. <<g, S>>[1] = g /\ <<g, S>>[2] = S
    OBVIOUS
  <2>2. <<g, S>> \in dir => <<g, S>> \in dir'
    BY <1>1, <1>4, <2>1
  <2>3. ASSUME <<g, S>> \in dir, Contents(g) = {S} PROVE Contents(g)' = {S}
    <3>1. CASE g = f
      <4>1. disk' = disk \cup {<<f, R>>}
        BY <1>1, <2>3, <3>1
      <4>2. Contents(f)' = Contents(f) \cup {R}
        BY <1>2, <4>1 DEF Contents
      <4>3. QED BY <1>4, <2>3, <3>1, <4>2
    <3>2. CASE g # f
      <4>1. \A e : e[1] = g => (e \in disk' <=> e \in disk)
        BY <1>1, <1>2, <3>2
      <4>2. Contents(g)' = Contents(g)
        BY <4>1 DEF Contents
      <4>3. QED BY <2>3, <4>2
    <3>3. QED BY <3>1, <3>2
  <2>4. QED BY <2>2, <2>3 DEF Keeps
<1>5. QED BY <1>1, <1>3, <1>4 DEF R

(* sync_all of the directory: every name is settled. *)
LEMMA SyncFiles ==
  ASSUME TypeInv, FilesOK, disk' = dir, dir' = dir
  PROVE  /\ FilesOK' /\ \A g, S : Keeps(g, S)
         /\ \A g, S : <<g, S>> \in dir => Contents(g)' = {S}
<1>1. FilesOK'
  BY DEF FilesOK
<1>2. dir' \in SUBSET (File \X SUBSET Id)
  BY DEF TypeInv, TypeOK
<1>3. ASSUME NEW g, NEW S, <<g, S>> \in dir PROVE Contents(g)' = {S}
  <2>1. S \in Contents(g)'
    <3>1. <<g, S>>[1] = g /\ <<g, S>>[2] = S
      OBVIOUS
    <3>2. QED BY <1>3, <3>1 DEF Contents
  <2>2. ASSUME NEW x \in Contents(g)' PROVE x = S
    <3>1. PICK e \in dir : e[1] = g /\ e[2] = x
      BY DEF Contents
    <3>2. e = <<g, S>>
      BY <1>3, <3>1 DEF FilesOK
    <3>3. QED BY <3>1, <3>2
  <2>3. QED BY <2>1, <2>2
<1>4. QED BY <1>1, <1>3 DEF Keeps

(* The machine crashes: a name that was settled keeps what it stood for. *)
LEMMA CrashFiles ==
  ASSUME TypeInv, FilesOK, MachineCrash
  PROVE  FilesOK' /\ \A g, S : <<g, S>> \in dir /\ Contents(g) = {S} =>
                                  <<g, S>> \in dir' /\ Contents(g)' = {S}
<1>1. PICK found \in [Unsettled -> SUBSET Id] :
        dir' = {e \in dir : e[1] \notin Unsettled}
               \cup {<<f, found[f]>> : f \in {f \in Unsettled : found[f] # {}}}
  BY DEF MachineCrash
<1>2. disk' = dir'
  BY DEF MachineCrash
<1>3. \A e \in dir' : \/ e \in dir /\ e[1] \notin Unsettled
                      \/ e[1] \in Unsettled /\ e = <<e[1], found[e[1]]>>
  BY <1>1
<1>4. FilesOK'
  <2>1. \A e, f \in dir' : e[1] = f[1] => e = f
    BY <1>3 DEF FilesOK
  <2>2. QED BY <1>2, <2>1 DEF FilesOK
<1>5. ASSUME NEW g, NEW S, <<g, S>> \in dir, Contents(g) = {S}
      PROVE  <<g, S>> \in dir' /\ Contents(g)' = {S}
  <2>1. Cardinality(Contents(g)) = 1
    BY <1>5, FS_Singleton
  <2>2. g \notin Unsettled
    BY <2>1 DEF Unsettled
  <2>3. <<g, S>>[1] = g /\ <<g, S>>[2] = S
    OBVIOUS
  <2>4. <<g, S>> \in dir'
    BY <1>1, <1>5, <2>2, <2>3
  <2>5. ASSUME NEW x \in Contents(g)' PROVE x = S
    <3>1. PICK e \in dir' : e[1] = g /\ e[2] = x
      BY <1>2 DEF Contents
    <3>2. e = <<g, S>>
      BY <1>4, <2>3, <2>4, <3>1 DEF FilesOK
    <3>3. QED BY <2>3, <3>1, <3>2
  <2>6. S \in Contents(g)'
    BY <1>2, <2>3, <2>4 DEF Contents
  <2>7. QED BY <2>4, <2>5, <2>6
<1>6. QED BY <1>4, <1>5

-----------------------------------------------------------------------------
(* What a step does to the jobs *)

(* A job that is busy has a batch with a name. *)
LEMMA JobName ==
  ASSUME TypeInv, NEW p \in Process, jobs[p].pc \in Busy
  PROVE  \E a, b \in Id, s \in Second :
            /\ a \in jobs[p].rows /\ b \in jobs[p].rows
            /\ \A k \in jobs[p].rows : a <= k /\ k <= b
            /\ \A kind : Name(kind, jobs[p]) = <<kind, a, b, s>>
<1>1. jobs[p].rows \in SUBSET Id /\ jobs[p].second \in Second /\ jobs[p].rows # {}
  BY DEF TypeInv, TypeOK, Job
<1>2. PICK a, b \in jobs[p].rows :
            /\ \A k \in jobs[p].rows : a <= k /\ k <= b
            /\ \A kind : Name(kind, jobs[p]) = <<kind, a, b, jobs[p].second>>
  BY <1>1, NameEnds
<1>3. QED BY <1>1, <1>2

(* Jobs that run together and write files of the same name write the same  *)
(* rows, as long as the batch of one of them is complete.                  *)
LEMMA SameName ==
  ASSUME TypeInv, Together, BatchesInOrder,
         NEW p \in Process, NEW q \in Process, p # q,
         jobs[p].pc \in Busy, jobs[q].pc \in Busy, jobs[p].rows \subseteq table,
         NEW kind, Name(kind, jobs[p]) = Name(kind, jobs[q])
  PROVE  jobs[q].rows = jobs[p].rows
<1>1. ~Disordered(jobs[p].cutoff) /\ ~Disordered(jobs[q].cutoff)
  BY DEF Together, Busy
<1>2. /\ Leading(jobs[p].rows) /\ Leading(jobs[q].rows) /\ GoneFirst(jobs[q].rows)
  BY <1>1 DEF BatchesInOrder
<1>3. PICK a, b \in Id, s \in Second :
            /\ a \in jobs[p].rows /\ b \in jobs[p].rows
            /\ \A k \in jobs[p].rows : a <= k /\ k <= b
            /\ \A x : Name(x, jobs[p]) = <<x, a, b, s>>
  BY JobName
<1>4. PICK c, d \in Id, t \in Second :
            /\ c \in jobs[q].rows /\ d \in jobs[q].rows
            /\ \A k \in jobs[q].rows : c <= k /\ k <= d
            /\ \A x : Name(x, jobs[q]) = <<x, c, d, t>>
  BY JobName
<1>5. a = c /\ b = d
  BY <1>3, <1>4
<1>6. jobs[p].rows \in SUBSET Id /\ jobs[q].rows \in SUBSET Id /\ Id \subseteq Nat
  BY ArchiveAssumption DEF TypeInv, TypeOK, Job, Id
<1>7. ASSUME NEW k \in jobs[p].rows PROVE k \in jobs[q].rows
  <2>1. CASE k = b
    BY <1>4, <1>5, <2>1
  <2>2. CASE k # b
    <3>1. k < b /\ k \in table
      BY <1>3, <1>6, <2>2
    <3>2. QED BY <1>2, <1>4, <1>5, <3>1 DEF Leading
  <2>3. QED BY <2>1, <2>2
<1>8. ASSUME NEW k \in jobs[q].rows PROVE k \in jobs[p].rows
  <2>1. CASE k = a \/ k = b
    BY <1>3, <2>1
  <2>2. CASE k # a /\ k # b
    <3>1. a < k /\ k < b
      BY <1>4, <1>5, <1>6, <2>2
    <3>2. k \in table
      <4>1. a \in table /\ a \in jobs[q].rows
        BY <1>3, <1>4, <1>5
      <4>2. QED BY <1>2, <3>1, <4>1 DEF GoneFirst
    <3>3. QED BY <1>2, <1>3, <3>1, <3>2 DEF Leading
  <2>3. QED BY <2>1, <2>2
<1>9. QED BY <1>7, <1>8

(* What a job has brought to the directory of a batch that is complete it  *)
(* still has, as long as it stays where it is.                             *)
LEMMA JobKept ==
  ASSUME NEW q \in Process, JobFiles(q), jobs'[q] = jobs[q], table' \subseteq table,
         jobs[q].rows \subseteq table /\ jobs[q].pc \in Busy =>
            \A kind \in Kind : Keeps(Name(kind, jobs[q]), jobs[q].rows)
  PROVE  JobFiles(q)'
<1> DEFINE j == jobs[q]
<1>1. \A kind : Name(kind, jobs[q])' = Name(kind, jobs[q])
  BY DEF Name
<1>2. SUFFICES ASSUME j.rows \subseteq table,
                      j.pc \in {"describe", "manifest", "sync", "delete"}
               PROVE  JobFiles(q)'
  BY DEF JobFiles
<1>3. ASSUME NEW kind \in Kind, <<Name(kind, j), j.rows>> \in dir
      PROVE  /\ <<Name(kind, j), j.rows>> \in dir'
             /\ Contents(Name(kind, j)) = {j.rows} => Contents(Name(kind, j))' = {j.rows}
  <2>1. PICK g : g = Name(kind, j)
    OBVIOUS
  <2>2. Keeps(g, j.rows)
    BY <1>2, <2>1 DEF Busy
  <2>3. Contents(Name(kind, j))' = Contents(g)'
    BY <1>1, <2>1 DEF Contents
  <2>4. QED BY <1>3, <2>1, <2>2, <2>3 DEF Keeps
<1>4. <<Name("archive", j), j.rows>> \in dir'
  BY <1>2, <1>3 DEF JobFiles, Kind
<1>5. j.pc \in {"sync", "delete"} => <<Name("manifest", j), j.rows>> \in dir'
  BY <1>2, <1>3 DEF JobFiles, Kind
<1>6. ASSUME j.pc = "delete", NEW kind \in Kind PROVE Contents(Name(kind, j))' = {j.rows}
  BY <1>2, <1>3, <1>6 DEF JobFiles, Kind
<1>7. ASSUME j.pc = "delete", NEW kind \in Kind
      PROVE  Contents(Name(kind, jobs[q]))' = {j.rows}
  BY <1>6, <1>7
<1>8. QED BY <1>1, <1>4, <1>5, <1>7 DEF JobFiles

(* What the steps of a job do to the batches: each stays, is given up, or  *)
(* has just been read.                                                     *)
Batches ==
    \A q \in Process : jobs'[q].pc \in Busy =>
        \/ /\ jobs[q].pc \in Busy /\ jobs'[q].rows = jobs[q].rows
           /\ jobs'[q].second = jobs[q].second /\ jobs'[q].cutoff = jobs[q].cutoff
        \/ /\ jobs'[q].rows # {}
           /\ jobs'[q].rows = Batch(table \cap jobs'[q].cutoff)

(* No job takes another cutoff than its own. *)
Cutoffs ==
    \A q \in Process : jobs'[q].pc # "idle" =>
        jobs[q].pc # "idle" /\ jobs'[q].cutoff = jobs[q].cutoff

(* The rows that are safe stay safe. *)
LEMMA KeptKept ==
  ASSUME TypeInv, TypeInv', Batches, table' \subseteq table,
         NEW a, NEW b, NEW s, NEW S, Kept(a, b, s, S),
         \A kind \in Kind : /\ <<<<kind, a, b, s>>, S>> \in dir'
                            /\ Contents(<<kind, a, b, s>>)' = {S}
  PROVE  Kept(a, b, s, S)'
<1>1. a \notin table'
  BY DEF Kept
<1>2. ASSUME NEW p \in Process, jobs'[p].pc \in Busy,
             Name("archive", jobs'[p]) = <<"archive", a, b, s>>
      PROVE  jobs'[p].rows = S
  <2>1. CASE /\ jobs[p].pc \in Busy /\ jobs'[p].rows = jobs[p].rows
             /\ jobs'[p].second = jobs[p].second
    <3>1. Name("archive", jobs[p]) = Name("archive", jobs'[p])
      BY <2>1 DEF Name
    <3>2. QED BY <1>2, <2>1, <3>1 DEF Kept
  <2>2. CASE jobs'[p].rows # {} /\ jobs'[p].rows = Batch(table \cap jobs'[p].cutoff)
    <3>1. jobs'[p].rows \subseteq table /\ jobs'[p].rows \in SUBSET Id
      BY <2>2 DEF Batch, TypeInv, TypeOK
    <3>2. PICK c, d \in jobs'[p].rows :
              Name("archive", jobs'[p]) = <<"archive", c, d, jobs'[p].second>>
      BY <2>2, <3>1, NameEnds
    <3>3. QED BY <1>2, <3>1, <3>2 DEF Kept
  <2>3. QED BY <1>2, <2>1, <2>2 DEF Batches
<1>3. \A p \in Process : Name("archive", jobs[p])' = Name("archive", jobs'[p])
  BY DEF Name
<1>4. ASSUME NEW kind \in Kind
      PROVE  (<<<<kind, a, b, s>>, S>> \in dir /\ Contents(<<kind, a, b, s>>) = {S})'
  OBVIOUS
<1>5. QED BY <1>1, <1>2, <1>3, <1>4 DEF Kept

(* A batch that has just been read begins with the first row that is left, *)
(* if the cutoff is in the order of the ids.                               *)
LEMMA ReadInOrder ==
  ASSUME TypeInv, NEW C \in SUBSET Id, ~Disordered(C)
  PROVE  Leading(Batch(table \cap C)) /\ GoneFirst(Batch(table \cap C))
<1> DEFINE S == table \cap C
           B == Batch(S)
<1>1. S \in SUBSET Id /\ Id \subseteq Nat /\ B \subseteq S /\ table \in SUBSET Id
  BY ArchiveAssumption DEF Batch, Id, TypeInv, TypeOK
<1>2. ASSUME NEW i \in table, NEW k \in B, i < k PROVE i \in B
  <2>1. i \in S
    BY <1>1, <1>2 DEF Disordered
  <2>2. i \in Nat /\ k \in Nat
    BY <1>1
  <2>3. i <= k
    BY <1>2, <2>2
  <2>4. QED BY <1>1, <2>1, <2>3, BatchFirst
<1>3. QED BY <1>1, <1>2 DEF Leading, GoneFirst

(* A step that leaves the table alone. *)
LEMMA SafeStep ==
  ASSUME TypeInv, TypeInv', Safe, Batches, Cutoffs, table' = table,
         \A a, b, s, S : Kept(a, b, s, S) =>
            \A kind \in Kind : /\ <<<<kind, a, b, s>>, S>> \in dir'
                               /\ Contents(<<kind, a, b, s>>)' = {S},
         \A q \in Process : JobFiles(q)'
  PROVE  Safe'
<1>1. Together'
  BY DEF Safe, Together, Cutoffs, Disordered
<1>2. BatchesInOrder'
  <2> SUFFICES ASSUME NEW q \in Process, jobs'[q].pc \in Busy, ~Disordered(jobs'[q].cutoff)
               PROVE  Leading(jobs'[q].rows) /\ GoneFirst(jobs'[q].rows)
    BY DEF BatchesInOrder, Leading, GoneFirst, Disordered
  <2>1. CASE /\ jobs[q].pc \in Busy /\ jobs'[q].rows = jobs[q].rows
             /\ jobs'[q].cutoff = jobs[q].cutoff
    BY <2>1 DEF Safe, BatchesInOrder
  <2>2. CASE jobs'[q].rows = Batch(table \cap jobs'[q].cutoff)
    <3>1. jobs'[q].cutoff \in SUBSET Id
      BY DEF TypeInv, TypeOK, Job
    <3>2. QED BY <2>2, <3>1, ReadInOrder
  <2>3. QED BY <2>1, <2>2 DEF Batches
<1>3. DeletedKept'
  <2> SUFFICES ASSUME NEW i \in Id \ table
               PROVE  \E a, b \in Id, s \in Second, S \in SUBSET Id :
                          i \in S /\ Kept(a, b, s, S)'
    BY DEF DeletedKept
  <2>1. PICK a, b \in Id, s \in Second, S \in SUBSET Id : i \in S /\ Kept(a, b, s, S)
    BY DEF Safe, DeletedKept
  <2>2. Kept(a, b, s, S)'
    BY <2>1, KeptKept
  <2>3. QED BY <2>1, <2>2
<1>4. QED BY <1>1, <1>2, <1>3 DEF Safe

(* A step that leaves the files alone, too. *)
LEMMA QuietStep ==
  ASSUME TypeInv, TypeInv', FilesOK, Safe, Batches, Cutoffs,
         UNCHANGED <<table, dir, disk>>,
         \A q \in Process : jobs'[q] = jobs[q] \/ JobFiles(q)'
  PROVE  Safe'
<1>1. \A g, S : Keeps(g, S)
  BY SameFiles
<1>2. \A q \in Process : JobFiles(q)'
  BY <1>1, JobKept DEF Safe
<1>3. \A a, b, s, S : Kept(a, b, s, S) =>
         \A kind \in Kind : /\ <<<<kind, a, b, s>>, S>> \in dir'
                            /\ Contents(<<kind, a, b, s>>)' = {S}
  BY <1>1 DEF Kept, Keeps
<1>4. QED BY <1>2, <1>3, SafeStep

(* A job that has nothing to show for yet. *)
LEMMA NothingYet ==
  ASSUME NEW q \in Process,
         jobs'[q].pc \notin {"describe", "manifest", "sync", "delete"}
  PROVE  JobFiles(q)'
  BY DEF JobFiles

(* One job moves. *)
LEMMA OneJob ==
  ASSUME TypeInv, NEW p \in Process, NEW r \in Job, jobs' = [jobs EXCEPT ![p] = r],
         r.pc # "idle" => jobs[p].pc # "idle" /\ r.cutoff = jobs[p].cutoff,
         r.pc \in Busy => \/ /\ jobs[p].pc \in Busy /\ r.rows = jobs[p].rows
                             /\ r.second = jobs[p].second
                          \/ /\ r.rows # {} /\ r.rows = Batch(table \cap r.cutoff)
  PROVE  Batches /\ Cutoffs /\ jobs'[p] = r /\ \A q \in Process \ {p} : jobs'[q] = jobs[q]
<1>1. jobs'[p] = r /\ \A q \in Process \ {p} : jobs'[q] = jobs[q]
  BY DEF TypeInv, TypeOK
<1>2. Busy \subseteq {"create", "archive", "describe", "manifest", "sync", "delete"}
  BY DEF Busy
<1>3. QED BY <1>1, <1>2 DEF Batches, Cutoffs

(* An error or a signal ends a job. *)
LEMMA StopStep ==
  ASSUME TypeInv, TypeInv', FilesOK, Safe, NEW p \in Process, Stop(p),
         UNCHANGED <<table, dir, disk>>
  PROVE  Safe'
<1>1. /\ Batches /\ Cutoffs /\ jobs'[p] = Idle
      /\ \A q \in Process \ {p} : jobs'[q] = jobs[q]
  BY OneJob, IdleType DEF Stop
<1>2. JobFiles(p)'
  BY <1>1, IdleType, NothingYet
<1>3. QED BY <1>1, <1>2, QuietStep

(* archive_batch: the first rows that are left and have expired. *)
LEMMA ReadStep ==
  ASSUME TypeInv, TypeInv', FilesOK, Safe, NEW p \in Process, ReadBatch(p)
  PROVE  Safe'
<1>1. UNCHANGED <<table, dir, disk>> /\ jobs[p].pc = "read"
  BY DEF ReadBatch, files
<1>2. PICK r \in Job :
            /\ jobs' = [jobs EXCEPT ![p] = r]
            /\ r.pc \in {"idle", "create"}
            /\ r.pc \in Busy => /\ r.rows = Batch(table \cap jobs[p].cutoff)
                                /\ r.rows # {} /\ r.cutoff = jobs[p].cutoff
  BY ReadJob
<1>3. Batches /\ Cutoffs /\ jobs'[p] = r /\ \A q \in Process \ {p} : jobs'[q] = jobs[q]
  BY <1>1, <1>2, OneJob DEF Busy
<1>4. JobFiles(p)'
  BY <1>2, <1>3, NothingYet
<1>5. QED BY <1>1, <1>3, <1>4, QuietStep

(* A job goes on with its batch. *)
LEMMA GotoJob ==
  ASSUME TypeInv, NEW p \in Process, NEW pc \in Busy, jobs[p].pc \in Busy, Goto(p, pc)
  PROVE  /\ Batches /\ Cutoffs /\ jobs'[p].pc = pc /\ jobs'[p].rows = jobs[p].rows
         /\ \A kind : Name(kind, jobs'[p]) = Name(kind, jobs[p])
         /\ \A kind : Name(kind, jobs[p])' = Name(kind, jobs[p])
         /\ \A q \in Process \ {p} : jobs'[q] = jobs[q]
<1>1. /\ jobs'[p].pc = pc /\ jobs'[p].cutoff = jobs[p].cutoff
      /\ jobs'[p].second = jobs[p].second /\ jobs'[p].rows = jobs[p].rows
      /\ \A q \in Process \ {p} : jobs'[q] = jobs[q]
  BY GotoType
<1>2. /\ \A kind : Name(kind, jobs'[p]) = Name(kind, jobs[p])
      /\ \A kind : Name(kind, jobs[p])' = Name(kind, jobs[p])
  BY <1>1 DEF Name
<1>3. Batches
  BY <1>1 DEF Batches
<1>4. Cutoffs
  BY <1>1 DEF Cutoffs, Busy
<1>5. QED BY <1>1, <1>2, <1>3, <1>4

(* A temporary file is created, or the job ends. *)
LEMMA CreateStep ==
  ASSUME TypeInv, TypeInv', FilesOK, Safe, NEW p \in Process, NEW f,
         \/ jobs[p].pc = "create" /\ CreateTemp(p, f, "archive")
         \/ jobs[p].pc = "describe" /\ CreateTemp(p, f, "manifest")
  PROVE  Safe'
<1>1. UNCHANGED <<table, dir, disk>>
  BY DEF CreateTemp
<1>2. CASE Stop(p)
  BY <1>1, <1>2, StopStep
<1>3. CASE jobs[p].pc = "create" /\ Goto(p, "archive")
  <2>1. /\ Batches /\ Cutoffs /\ jobs'[p].pc = "archive"
        /\ \A q \in Process \ {p} : jobs'[q] = jobs[q]
    BY <1>3, GotoJob DEF Busy
  <2>2. JobFiles(p)'
    BY <2>1, NothingYet
  <2>3. QED BY <1>1, <2>1, <2>2, QuietStep
<1>4. CASE jobs[p].pc = "describe" /\ Goto(p, "manifest")
  <2>1. /\ Batches /\ Cutoffs /\ jobs'[p].pc = "manifest" /\ jobs'[p].rows = jobs[p].rows
        /\ \A kind : Name(kind, jobs[p])' = Name(kind, jobs[p])
        /\ \A q \in Process \ {p} : jobs'[q] = jobs[q]
    BY <1>4, GotoJob DEF Busy
  <2>2. JobFiles(p)'
    BY <1>1, <1>4, <2>1 DEF Safe, JobFiles
  <2>3. QED BY <1>1, <2>1, <2>2, QuietStep
<1>5. QED BY <1>2, <1>3, <1>4 DEF CreateTemp

(* A file gets its name: files of that name that matter hold the same. *)
LEMMA RenamedSafe ==
  ASSUME TypeInv, TypeInv', FilesOK, Safe, NEW p \in Process, jobs[p].pc \in Busy,
         NEW kind \in Kind, NEW pc \in Busy, Rename(p, Name(kind, jobs[p]), pc),
         JobFiles(p)'
  PROVE  Safe'
<1>1. /\ table' = table /\ Goto(p, pc)
  BY DEF Rename
<1>2. Batches /\ Cutoffs /\ \A q \in Process \ {p} : jobs'[q] = jobs[q]
  BY <1>1, GotoJob
<1>3. \A g, S : (g = Name(kind, jobs[p]) => S = jobs[p].rows) => Keeps(g, S)
  BY RenameFiles
<1>4. PICK c, d \in Id, t \in Second : \A k : Name(k, jobs[p]) = <<k, c, d, t>>
  BY JobName
<1>5. ASSUME NEW q \in Process \ {p} PROVE JobFiles(q)'
  <2>1. ASSUME jobs[q].rows \subseteq table, jobs[q].pc \in Busy, NEW k \in Kind
        PROVE  Keeps(Name(k, jobs[q]), jobs[q].rows)
    <3>1. PICK a, b \in Id, s \in Second : \A x : Name(x, jobs[q]) = <<x, a, b, s>>
      BY <2>1, JobName
    <3>2. ASSUME Name(k, jobs[q]) = Name(kind, jobs[p])
          PROVE  jobs[q].rows = jobs[p].rows
      <4>1. Name(kind, jobs[q]) = Name(kind, jobs[p])
        BY <1>4, <3>1, <3>2
      <4>2. QED BY <2>1, <4>1, SameName DEF Safe
    <3>3. QED BY <1>3, <3>2
  <2>2. QED BY <1>1, <1>2, <2>1, JobKept DEF Safe
<1>6. ASSUME NEW a, NEW b, NEW s, NEW S, Kept(a, b, s, S), NEW k \in Kind
      PROVE  <<<<k, a, b, s>>, S>> \in dir' /\ Contents(<<k, a, b, s>>)' = {S}
  <2>1. PICK g : g = <<k, a, b, s>>
    OBVIOUS
  <2>2. ASSUME g = Name(kind, jobs[p]) PROVE S = jobs[p].rows
    <3>1. Name("archive", jobs[p]) = <<"archive", a, b, s>>
      BY <1>4, <2>1, <2>2
    <3>2. QED BY <1>6, <3>1 DEF Kept
  <2>3. Keeps(g, S)
    BY <1>3, <2>2
  <2>4. <<g, S>> \in dir /\ Contents(g) = {S}
    BY <1>6, <2>1 DEF Kept
  <2>5. <<g, S>> \in dir' /\ Contents(g)' = {S}
    BY <2>3, <2>4 DEF Keeps
  <2>6. Contents(<<k, a, b, s>>)' = Contents(g)'
    BY <2>1 DEF Contents
  <2>7. QED BY <2>1, <2>5, <2>6
<1>7. QED BY <1>1, <1>2, <1>5, <1>6, SafeStep

(* The archive is renamed, then the manifest. *)
LEMMA RenameStep ==
  ASSUME TypeInv, TypeInv', FilesOK, Safe, NEW p \in Process,
         RenameArchive(p) \/ RenameManifest(p)
  PROVE  Safe'
<1>1. CASE RenameArchive(p)
  <2>1. /\ jobs[p].pc = "archive" /\ Rename(p, Name("archive", jobs[p]), "describe")
        /\ Goto(p, "describe")
    BY <1>1 DEF RenameArchive, Rename
  <2>2. <<Name("archive", jobs[p]), jobs[p].rows>> \in dir'
    BY <2>1, RenameFiles
  <2>3. /\ jobs'[p].pc = "describe" /\ jobs'[p].rows = jobs[p].rows
        /\ \A kind : Name(kind, jobs[p])' = Name(kind, jobs[p])
    BY <2>1, GotoJob DEF Busy
  <2>4. JobFiles(p)'
    BY <2>2, <2>3 DEF JobFiles
  <2>5. QED BY <2>1, <2>4, RenamedSafe DEF Busy, Kind
<1>2. CASE RenameManifest(p)
  <2>1. /\ jobs[p].pc = "manifest" /\ Rename(p, Name("manifest", jobs[p]), "sync")
        /\ Goto(p, "sync") /\ table' = table
    BY <1>2 DEF RenameManifest, Rename
  <2>2. /\ <<Name("manifest", jobs[p]), jobs[p].rows>> \in dir'
        /\ \A g, S : (g = Name("manifest", jobs[p]) => S = jobs[p].rows) => Keeps(g, S)
    BY <2>1, RenameFiles
  <2>3. /\ jobs'[p].pc = "sync" /\ jobs'[p].rows = jobs[p].rows
        /\ \A kind : Name(kind, jobs[p])' = Name(kind, jobs[p])
    BY <2>1, GotoJob DEF Busy
  <2>4. jobs[p].rows \subseteq table => <<Name("archive", jobs[p]), jobs[p].rows>> \in dir'
    <3>1. Keeps(Name("archive", jobs[p]), jobs[p].rows)
      BY <2>2
    <3>2. QED BY <2>1, <3>1 DEF Safe, JobFiles, Keeps
  <2>5. JobFiles(p)'
    BY <2>1, <2>2, <2>3, <2>4 DEF JobFiles
  <2>6. QED BY <2>1, <2>5, RenamedSafe DEF Busy, Kind
<1>3. QED BY <1>1, <1>2

(* sync_all of the directory: no name is undecided after it. *)
LEMMA SyncStep ==
  ASSUME TypeInv, TypeInv', FilesOK, Safe, NEW p \in Process, SyncDir(p)
  PROVE  Safe'
<1>1. /\ jobs[p].pc = "sync" /\ Goto(p, "delete")
      /\ disk' = dir /\ dir' = dir /\ table' = table
  BY DEF SyncDir
<1>2. /\ \A g, S : Keeps(g, S)
      /\ \A g, S : <<g, S>> \in dir => Contents(g)' = {S}
  BY <1>1, SyncFiles
<1>3. /\ Batches /\ Cutoffs /\ jobs'[p].pc = "delete" /\ jobs'[p].rows = jobs[p].rows
      /\ \A kind : Name(kind, jobs'[p]) = Name(kind, jobs[p])
      /\ \A kind : Name(kind, jobs[p])' = Name(kind, jobs[p])
      /\ \A q \in Process \ {p} : jobs'[q] = jobs[q]
  BY <1>1, GotoJob DEF Busy
<1>4. JobFiles(p)'
  <2> SUFFICES ASSUME jobs[p].rows \subseteq table PROVE JobFiles(p)'
    BY <1>1, <1>3 DEF JobFiles
  <2>1. \A kind \in Kind : <<Name(kind, jobs[p]), jobs[p].rows>> \in dir
    BY <1>1 DEF Safe, JobFiles, Kind
  <2>2. ASSUME NEW kind \in Kind PROVE Contents(Name(kind, jobs[p]))' = {jobs[p].rows}
    <3>1. PICK g : g = Name(kind, jobs[p])
      OBVIOUS
    <3>2. Contents(g)' = {jobs[p].rows}
      BY <1>2, <2>1, <3>1
    <3>3. Contents(Name(kind, jobs[p]))' = Contents(g)'
      BY <1>3, <3>1 DEF Contents
    <3>4. QED BY <3>2, <3>3
  <2>3. QED BY <1>1, <1>3, <2>1, <2>2 DEF JobFiles, Kind
<1>5. \A q \in Process : JobFiles(q)'
  BY <1>1, <1>2, <1>3, <1>4, JobKept DEF Safe
<1>6. \A a, b, s, S : Kept(a, b, s, S) =>
         \A kind \in Kind : /\ <<<<kind, a, b, s>>, S>> \in dir'
                            /\ Contents(<<kind, a, b, s>>)' = {S}
  BY <1>2 DEF Kept, Keeps
<1>7. QED BY <1>1, <1>3, <1>5, <1>6, SafeStep

(* delete_archived: what is deleted has been synced. *)
LEMMA DeleteStep ==
  ASSUME TypeInv, TypeInv', FilesOK, Safe, NEW p \in Process, DeleteArchived(p)
  PROVE  Safe'
<1>1. /\ jobs[p].pc = "delete" /\ UNCHANGED <<dir, disk>>
      /\ \/ /\ jobs[p].rows \subseteq table
            /\ table' = table \ jobs[p].rows /\ Goto(p, "read")
         \/ Stop(p) /\ UNCHANGED table
  BY DEF DeleteArchived, files
<1>2. CASE Stop(p) /\ UNCHANGED table
  BY <1>1, <1>2, StopStep
<1>3. CASE /\ jobs[p].rows \subseteq table
           /\ table' = table \ jobs[p].rows /\ Goto(p, "read")
  <2>0. PICK P : P = jobs[p].rows
    OBVIOUS
  <2>1. /\ jobs'[p].pc = "read" /\ jobs'[p].cutoff = jobs[p].cutoff
        /\ \A q \in Process \ {p} : jobs'[q] = jobs[q]
    BY <1>3, GotoType DEF Busy
  <2>2. Cutoffs
    BY <1>1, <2>1 DEF Cutoffs
  <2>3. Batches
    BY <2>1 DEF Batches, Busy
  <2>4. Together'
    BY <2>2 DEF Safe, Together, Cutoffs, Disordered
  <2>5. ASSUME NEW q \in Process, jobs'[q].pc \in Busy, ~Disordered(jobs'[q].cutoff)
        PROVE  (Leading(jobs[q].rows) /\ GoneFirst(jobs[q].rows))'
    <3>1. q # p /\ jobs'[q] = jobs[q]
      BY <2>1, <2>5 DEF Busy
    <3>2. Leading(jobs[q].rows) /\ GoneFirst(jobs[q].rows)
      BY <2>5, <3>1 DEF Safe, BatchesInOrder
    <3>3. Leading(P)
      <4>1. ~Disordered(jobs[p].cutoff)
        BY <1>1, <2>5, <3>1 DEF Safe, Together, Busy
      <4>2. QED BY <1>1, <2>0, <4>1 DEF Safe, BatchesInOrder, Busy
    <3>4. table' = table \ P
      BY <1>3, <2>0
    <3>5. \A i \in table', k \in jobs[q].rows : i < k => i \in jobs[q].rows
      BY <3>2, <3>4 DEF Leading
    <3>6. ASSUME NEW k \in jobs[q].rows, NEW i \in jobs[q].rows, k \notin table', i < k
          PROVE  i \notin table'
      <4>1. CASE k \notin table
        BY <3>2, <3>4, <3>6, <4>1 DEF GoneFirst
      <4>2. CASE k \in P
        BY <3>3, <3>4, <3>6, <4>2 DEF Leading
      <4>3. QED BY <3>4, <3>6, <4>1, <4>2
    <3>7. QED BY <3>1, <3>5, <3>6 DEF Leading, GoneFirst
  <2>6. BatchesInOrder'
    BY <2>5 DEF BatchesInOrder, Disordered
  <2>7. \A g, S : Keeps(g, S)
    BY <1>1, SameFiles
  <2>8. \A q \in Process : JobFiles(q)'
    <3>1. JobFiles(p)'
      BY <2>1, NothingYet
    <3>2. table' \subseteq table
      BY <1>3
    <3>3. QED BY <2>1, <2>7, <3>1, <3>2, JobKept DEF Safe
  <2>9. DeletedKept'
    <3>1. PICK a, b \in Id, s \in Second :
             /\ a \in P
             /\ \A kind : Name(kind, jobs[p]) = <<kind, a, b, s>>
      BY <1>1, <2>0, JobName DEF Busy
    <3>2. Kept(a, b, s, P)'
      <4>1. a \notin table'
        BY <1>3, <2>0, <3>1
      <4>2. ASSUME NEW kind \in Kind
            PROVE  <<<<kind, a, b, s>>, P>> \in dir /\ Contents(<<kind, a, b, s>>) = {P}
        BY <1>1, <1>3, <2>0, <3>1 DEF Safe, JobFiles, Kind
      <4>3. ASSUME NEW kind \in Kind
            PROVE  (<<<<kind, a, b, s>>, P>> \in dir)' /\ Contents(<<kind, a, b, s>>)' = {P}
        BY <1>1, <4>2 DEF Contents
      <4>4. ASSUME NEW q \in Process, jobs'[q].pc \in Busy,
                   Name("archive", jobs'[q]) = <<"archive", a, b, s>>
            PROVE  jobs'[q].rows = P
        <5>1. q # p /\ jobs'[q] = jobs[q]
          BY <2>1, <4>4 DEF Busy
        <5>2. Name("archive", jobs[p]) = Name("archive", jobs[q])
          BY <3>1, <4>4, <5>1
        <5>3. QED BY <1>1, <1>3, <2>0, <4>4, <5>1, <5>2, SameName DEF Safe, Busy
      <4>5. \A q \in Process : Name("archive", jobs[q])' = Name("archive", jobs'[q])
        BY DEF Name
      <4>6. QED BY <4>1, <4>3, <4>4, <4>5 DEF Kept
    <3>3. ASSUME NEW i \in Id \ table
          PROVE  \E c, d \in Id, t \in Second, S \in SUBSET Id :
                     i \in S /\ Kept(c, d, t, S)'
      <4>1. PICK c, d \in Id, t \in Second, S \in SUBSET Id : i \in S /\ Kept(c, d, t, S)
        BY DEF Safe, DeletedKept
      <4>2. \A kind \in Kind : /\ <<<<kind, c, d, t>>, S>> \in dir'
                               /\ Contents(<<kind, c, d, t>>)' = {S}
        BY <2>7, <4>1 DEF Kept, Keeps
      <4>3. table' \subseteq table
        BY <1>3
      <4>4. QED BY <2>3, <4>1, <4>2, <4>3, KeptKept
    <3>4. P \in SUBSET Id
      BY <2>0 DEF TypeInv, TypeOK, Job
    <3>5. \A i \in Id \ table' : i \in Id \ table \/ i \in P
      BY <1>3, <2>0
    <3>6. QED BY <3>2, <3>3, <3>4, <3>5 DEF DeletedKept
  <2>10. QED BY <2>4, <2>6, <2>8, <2>9 DEF Safe
<1>4. QED BY <1>1, <1>2, <1>3

(* After a machine crash no job runs. *)
LEMMA CrashStep ==
  ASSUME TypeInv, TypeInv', FilesOK, Safe, MachineCrash
  PROVE  Safe'
<1>1. jobs' = [q \in Process |-> Idle] /\ table' = table
  BY DEF MachineCrash
<1>2. \A q \in Process : jobs'[q].pc = "idle" /\ jobs'[q].pc \notin Busy
  BY <1>1, IdleType
<1>3. Batches /\ Cutoffs
  BY <1>2 DEF Batches, Cutoffs
<1>4. \A q \in Process : JobFiles(q)'
  BY <1>2, NothingYet
<1>5. \A a, b, s, S : Kept(a, b, s, S) =>
         \A kind \in Kind : /\ <<<<kind, a, b, s>>, S>> \in dir'
                            /\ Contents(<<kind, a, b, s>>)' = {S}
  BY CrashFiles DEF Kept
<1>6. QED BY <1>1, <1>3, <1>4, <1>5, SafeStep

(* main takes its cutoff: next to another job, one in the order of the     *)
(* ids, or the two have met.                                               *)
LEMMA StartStep ==
  ASSUME TypeInv, TypeInv', FilesOK, Safe, NEW p \in Process, Start(p), ~met'
  PROVE  Safe'
<1> DEFINE r == [pc |-> "read", cutoff |-> expired, second |-> second, rows |-> {}]
<1>1. jobs' = [jobs EXCEPT ![p] = r] /\ UNCHANGED <<table, dir, disk>>
  BY DEF Start, files
<1>2. r.pc = "read" /\ r.cutoff = expired
  OBVIOUS
<1> HIDE DEF r
<1>3. jobs'[p] = r /\ \A q \in Process \ {p} : jobs'[q] = jobs[q]
  BY <1>1 DEF TypeInv, TypeOK
<1>4. \A q \in Process : jobs[q].pc # "idle" =>
         ~Disordered(expired) /\ ~Disordered(jobs[q].cutoff)
  BY DEF Start, Meet
<1>5. Together'
  <2> SUFFICES ASSUME NEW x \in Process, NEW y \in Process, x # y,
                      jobs'[x].pc # "idle", jobs'[y].pc # "idle"
               PROVE  ~Disordered(jobs'[x].cutoff)
    BY DEF Together, Disordered
  <2>1. CASE x = p
    BY <1>2, <1>3, <1>4, <2>1
  <2>2. CASE x # p
    BY <1>3, <1>4, <2>2
  <2>3. QED BY <2>1, <2>2
<1>6. BatchesInOrder'
  <2> SUFFICES ASSUME NEW q \in Process, jobs'[q].pc \in Busy, ~Disordered(jobs'[q].cutoff)
               PROVE  Leading(jobs'[q].rows) /\ GoneFirst(jobs'[q].rows)
    BY <1>1 DEF BatchesInOrder, Leading, GoneFirst, Disordered
  <2>1. q # p
    BY <1>2, <1>3 DEF Busy
  <2>2. QED BY <1>3, <2>1 DEF Safe, BatchesInOrder
<1>7. Batches
  BY <1>2, <1>3 DEF Batches, Busy
<1>8. \A g, S : Keeps(g, S)
  BY <1>1, SameFiles
<1>9. \A q \in Process : JobFiles(q)'
  <2>1. JobFiles(p)'
    BY <1>2, <1>3, NothingYet
  <2>2. QED BY <1>1, <1>3, <1>8, <2>1, JobKept DEF Safe
<1>10. DeletedKept'
  <2> SUFFICES ASSUME NEW i \in Id \ table
               PROVE  \E a, b \in Id, s \in Second, S \in SUBSET Id :
                          i \in S /\ Kept(a, b, s, S)'
    BY <1>1 DEF DeletedKept
  <2>1. PICK a, b \in Id, s \in Second, S \in SUBSET Id : i \in S /\ Kept(a, b, s, S)
    BY DEF Safe, DeletedKept
  <2>2. \A kind \in Kind : /\ <<<<kind, a, b, s>>, S>> \in dir'
                           /\ Contents(<<kind, a, b, s>>)' = {S}
    BY <1>8, <2>1 DEF Kept, Keeps
  <2>3. Kept(a, b, s, S)'
    BY <1>1, <1>7, <2>1, <2>2, KeptKept
  <2>4. QED BY <2>1, <2>3
<1>11. QED BY <1>5, <1>6, <1>9, <1>10 DEF Safe

(* A step of the clock, of the rows or of nobody. *)
LEMMA OtherStep ==
  ASSUME TypeInv, TypeInv', FilesOK, Safe, UNCHANGED <<table, jobs, dir, disk>>
  PROVE  Safe'
<1>1. Batches /\ Cutoffs
  BY DEF Batches, Cutoffs
<1>2. QED BY <1>1, QuietStep

(* One file per name, whatever happens. *)
LEMMA FilesStep ==
  ASSUME TypeInv, FilesOK, [Next]_vars
  PROVE  FilesOK'
<1>1. CASE UNCHANGED <<dir, disk>>
  BY <1>1, SameFiles
<1>2. ASSUME NEW p \in Process, RenameArchive(p) \/ RenameManifest(p) PROVE FilesOK'
  BY <1>2, RenameFiles DEF RenameArchive, RenameManifest
<1>3. ASSUME NEW p \in Process, SyncDir(p) PROVE FilesOK'
  BY <1>3, SyncFiles DEF SyncDir
<1>4. CASE MachineCrash
  BY <1>4, CrashFiles
<1>5. ASSUME NEW p \in Process, Start(p) \/ Step(p) \/ Kill(p) PROVE FilesOK'
  <2>1. CASE \/ Start(p) \/ Kill(p) \/ ReadBatch(p) \/ CreateArchive(p)
             \/ CreateManifest(p) \/ DeleteArchived(p)
    BY <1>1, <2>1 DEF Start, Kill, ReadBatch, CreateArchive, CreateManifest,
                      CreateTemp, DeleteArchived, files
  <2>2. QED BY <1>2, <1>3, <1>5, <2>1 DEF Step
<1>6. CASE Tick \/ (\E i \in Id : Age(i)) \/ UNCHANGED vars
  BY <1>1, <1>6 DEF Tick, Age, vars, files
<1>7. QED BY <1>4, <1>5, <1>6 DEF Next

(* The inductive invariant under any step. *)
LEMMA ArchiveStep ==
  ASSUME TypeInv, TypeInv', IInv, [Next]_vars
  PROVE  IInv'
<1>1. FilesOK'
  BY FilesStep DEF IInv
<1>2. SUFFICES ASSUME ~met' PROVE Safe'
  BY <1>1 DEF IInv
<1>3. ~met
  <2>1. ASSUME NEW p \in Process, Start(p) PROVE ~met
    BY <1>2, <2>1 DEF Start, Meet
  <2>2. CASE UNCHANGED met
    BY <1>2, <2>2
  <2>3. ASSUME NEW p \in Process, Step(p) \/ Kill(p) PROVE UNCHANGED met
    BY <2>3 DEF Step, Kill, ReadBatch, CreateArchive, CreateManifest, CreateTemp,
                RenameArchive, RenameManifest, Rename, SyncDir, DeleteArchived
  <2>4. CASE Tick \/ MachineCrash \/ (\E i \in Id : Age(i)) \/ UNCHANGED vars
    BY <2>2, <2>4 DEF Tick, MachineCrash, Age, vars
  <2>5. QED BY <2>1, <2>2, <2>3, <2>4 DEF Next
<1>4. FilesOK /\ Safe
  BY <1>3 DEF IInv
<1>5. ASSUME NEW p \in Process, Start(p) \/ Step(p) \/ Kill(p) PROVE Safe'
  <2>1. CASE Kill(p)
    BY <1>4, <2>1, StopStep DEF Kill, files
  <2>2. CASE CreateArchive(p) \/ CreateManifest(p)
    BY <1>4, <2>2, CreateStep DEF CreateArchive, CreateManifest
  <2>3. CASE Start(p)
    BY <1>2, <1>4, <2>3, StartStep
  <2>4. QED BY <1>4, <1>5, <2>1, <2>2, <2>3, ReadStep, RenameStep, SyncStep, DeleteStep
            DEF Step
<1>6. CASE Tick \/ (\E i \in Id : Age(i)) \/ UNCHANGED vars
  BY <1>4, <1>6, OtherStep DEF Tick, Age, vars, files
<1>7. QED BY <1>4, <1>5, <1>6, CrashStep DEF Next

(* The job starts on an untouched table and an empty directory. *)
LEMMA InitIInv == Init => IInv
<1> SUFFICES ASSUME Init PROVE IInv
  OBVIOUS
<1>1. Together /\ BatchesInOrder
  BY IdleType DEF Init, Together, BatchesInOrder
<1>2. FilesOK /\ DeletedKept
  BY DEF Init, FilesOK, DeletedKept
<1>3. \A p \in Process : JobFiles(p)
  BY IdleType DEF Init, JobFiles, Busy
<1>4. QED BY <1>1, <1>2, <1>3 DEF IInv, Safe

(* A row is deleted only when an archive that holds it and a manifest that *)
(* describes this archive are on disk, and both survive every crash and    *)
(* every job that comes later (write_archive before delete_archived),      *)
(* whatever the order in which rows expire, unless jobs have overlapped    *)
(* while that was not the order of the ids.                                *)
THEOREM ArchiveLosesNothing == Spec => []DeletedIsArchived
<1>1. ASSUME IInv PROVE DeletedIsArchived
  <2> SUFFICES ASSUME ~met, NEW i \in Id \ table
               PROVE  \E e \in disk :
                         /\ i \in e[2]
                         /\ \A kind \in {"archive", "manifest"} :
                               Contents(<<kind, e[1][2], e[1][3], e[1][4]>>) = {e[2]}
    BY DEF DeletedIsArchived
  <2>1. PICK a, b \in Id, s \in Second, S \in SUBSET Id : i \in S /\ Kept(a, b, s, S)
    BY <1>1 DEF IInv, Safe, DeletedKept
  <2>2. ASSUME NEW kind \in Kind PROVE Contents(<<kind, a, b, s>>) = {S}
    BY <2>1 DEF Kept
  <2>3. <<<<"archive", a, b, s>>, S>> \in disk
    BY <1>1, <2>1 DEF Kept, Kind, IInv, FilesOK
  <2>4. QED BY <2>1, <2>2, <2>3 DEF Kind
<1>2. ASSUME TypeInv, TypeInv', IInv, [Next]_vars PROVE IInv'
  BY <1>2, ArchiveStep
<1>3. QED BY <1>1, <1>2, InitIInv, TypeInductive, PTL DEF Spec

-----------------------------------------------------------------------------
(***************************************************************************)
(* The last active super_admin stays, for any number of accounts, roles    *)
(* and concurrent transactions.                                            *)
(***************************************************************************)

(* What a transaction may have written, by the kind of its operation: a    *)
(* guarded one writes nothing before it holds the role row and never       *)
(* grants the role; any other takes the role or the active status from     *)
(* nobody who has it, once it is complete.                                 *)
Disciplined(r) ==
    /\ r.pc \notin {"idle", "next"} => r.user \in User
    /\ r.pc = "users" => r.op # "assign"
    /\ Guarded(r) => Super \notin r.grant /\ \A u \in User : Super \notin r.inserted[u]
    /\ Guarded(r) /\ ~r.locked =>
         /\ r.pc \in {"next", "guard"}
         /\ \A u \in User : /\ r.wrote[u] = None
                            /\ r.deleted[u] = {} /\ r.inserted[u] = {}
    /\ ~Guarded(r) =>
         /\ ~r.locked
         /\ r.pc # "guard"
         /\ r.pc \in {"snapshot", "roles"} => Super \in r.grant
         /\ r.op = "bootstrap" => Super \in r.grant
         /\ \A u \in User :
              /\ r.wrote[u] \in {None, "active"} \/ status[u] = "absent"
              /\ Super \in r.deleted[u] =>
                   /\ Super \in r.grant
                   /\ Super \in r.inserted[u] \/ (r.pc = "insert" /\ r.user = u)

(* Two transactions do not hold the role row, nor write one users row. *)
Apart(r, q) ==
    /\ ~(r.locked /\ q.locked)
    /\ \A u \in User : r.wrote[u] = None \/ q.wrote[u] = None

Exclusive == \A s, t \in Tx : s # t => Apart(tx[s], tx[t])

(* The active super_admins left when transaction r has done what its last  *)
(* guard allowed it to do.                                                 *)
Remaining(r) ==
    {u \in ActiveSuperAdminsSeen(r) :
        r.pc \in {"users", "snapshot", "roles", "insert"} => u # r.user}

Standing ==
    /\ AdminRemains
    /\ \A t \in Tx : tx[t].locked => Remaining(tx[t]) # {}

AdminInv ==
    /\ AdminTypeOK
    /\ \A t \in Tx : Disciplined(tx[t])
    /\ Exclusive
    /\ Standing

(* A request that is not under way is a well-typed transaction. *)
LEMMA NoTransactionType == NoTransaction \in Transaction /\ Disciplined(NoTransaction)
<1>1. NoTransaction \in Transaction
  BY DEF NoTransaction, Transaction, Pc, Op, Status
<1>2. Disciplined(NoTransaction)
  BY DEF NoTransaction, Disciplined, Guarded
<1>3. QED BY <1>1, <1>2

(* The invariant holds initially. *)
LEMMA AdminInitInv == AdminInit => AdminInv
<1> SUFFICES ASSUME AdminInit PROVE AdminInv
  OBVIOUS
<1>1. AdminTypeOK
  BY NoTransactionType DEF AdminInit, AdminTypeOK, Status
<1>2. \A t \in Tx : Disciplined(tx[t])
  BY NoTransactionType DEF AdminInit
<1>3. Exclusive
  BY DEF AdminInit, Exclusive, Apart, NoTransaction
<1>4. Standing
  BY DEF AdminInit, Standing, AdminRemains, ActiveSuperAdmins, NoTransaction
<1>5. QED BY <1>1, <1>2, <1>3, <1>4 DEF AdminInv

(* A statement touches the state of its own transaction only: what it      *)
(* leaves there decides whether the invariant is kept.                     *)
LEMMA LocalStep ==
  ASSUME AdminInv, NEW t \in Tx, NEW r \in Transaction,
         tx' = [tx EXCEPT ![t] = r], UNCHANGED <<status, roles>>,
         Disciplined(r),
         \A s \in Tx \ {t} : Apart(r, tx[s]),
         r.locked => Remaining(r) # {}
  PROVE  AdminInv'
<1>1. AdminTypeOK'
  BY DEF AdminInv, AdminTypeOK
<1>2. \A s \in Tx : tx'[s] = IF s = t THEN r ELSE tx[s]
  BY DEF AdminInv, AdminTypeOK
<1>3. (\A s \in Tx : Disciplined(tx[s]))'
  BY <1>2 DEF AdminInv, Disciplined, Guarded
<1>4. Exclusive'
  BY <1>2 DEF AdminInv, Exclusive, Apart
<1>5. Standing'
  <2>1. AdminRemains'
    BY DEF AdminInv, Standing, AdminRemains, ActiveSuperAdmins
  <2>2. ASSUME NEW s \in Tx, tx'[s].locked PROVE Remaining(tx[s])' # {}
    <3>1. Remaining(tx'[s]) # {}
      BY <1>2, <2>2 DEF AdminInv, Standing
    <3>2. QED BY <3>1 DEF Remaining, ActiveSuperAdminsSeen, StatusSeen, RolesSeen
  <2>3. QED BY <2>1, <2>2 DEF Standing
<1>6. QED BY <1>1, <1>3, <1>4, <1>5 DEF AdminInv

(* A transaction that ends without effect. *)
LEMMA RollbackStep ==
  ASSUME AdminInv, NEW t \in Tx, Rollback(t)
  PROVE  AdminInv'
<1>1. \A s \in Tx \ {t} : Apart(NoTransaction, tx[s])
  BY DEF Apart, NoTransaction
<1>2. ~NoTransaction.locked
  BY DEF NoTransaction
<1>3. QED BY <1>1, <1>2, NoTransactionType, LocalStep DEF Rollback

(* The checks before a transaction find or exclude its accounts; they      *)
(* write nothing.                                                          *)
LEMMA BeginStep ==
  ASSUME AdminInv, NEW t \in Tx, NEW op \in Op, NEW us \in SUBSET User,
         NEW grant \in SUBSET Role, op = "bootstrap" => Super \in grant,
         op \in {"disable", "delete"} => Super \notin grant,
         Begin(t, op, us, grant)
  PROVE  AdminInv'
<1> DEFINE r == [NoTransaction EXCEPT
                   !.pc = "next", !.op = op, !.todo = us, !.grant = grant]
<1>1. r \in Transaction
  BY NoTransactionType DEF Transaction, Pc
<1>2. /\ r.pc = "next" /\ r.op = op /\ r.grant = grant /\ ~r.locked
      /\ \A u \in User : r.wrote[u] = None /\ r.deleted[u] = {} /\ r.inserted[u] = {}
  BY DEF NoTransaction
<1>3. tx' = [tx EXCEPT ![t] = r] /\ UNCHANGED <<status, roles>>
  BY DEF Begin
<1> HIDE DEF r
<1>4. Disciplined(r)
  BY <1>2 DEF Disciplined, Guarded
<1>5. \A s \in Tx \ {t} : Apart(r, tx[s])
  BY <1>2 DEF Apart
<1>6. QED BY <1>1, <1>2, <1>3, <1>4, <1>5, LocalStep

(* The loop takes the next account. *)
LEMMA NextUserStep ==
  ASSUME AdminInv, NEW t \in Tx, NextUser(t)
  PROVE  AdminInv'
<1> DEFINE q == tx[t]
<1>1. q \in Transaction /\ q.pc = "next" /\ Disciplined(q)
  BY DEF AdminInv, AdminTypeOK, NextUser
<1>2. PICK u \in q.todo :
         tx' = [tx EXCEPT ![t].user = u, ![t].todo = @ \ {u},
                  ![t].pc = IF Guarded(tx[t]) THEN "guard"
                            ELSE IF tx[t].op = "assign" THEN "snapshot"
                                 ELSE "users"]
  BY DEF NextUser
<1> DEFINE pc == IF Guarded(q) THEN "guard"
                 ELSE IF q.op = "assign" THEN "snapshot" ELSE "users"
           r == [q EXCEPT !.user = u, !.todo = q.todo \ {u}, !.pc = pc]
<1>3. tx' = [tx EXCEPT ![t] = r] /\ UNCHANGED <<status, roles>>
  BY <1>2 DEF AdminInv, AdminTypeOK, NextUser
<1>4. u \in User /\ pc \in {"guard", "snapshot", "users"}
  BY <1>1 DEF Transaction
<1>5. pc = "guard" <=> Guarded(q)
  OBVIOUS
<1>6. /\ pc = "snapshot" => q.op = "assign"
      /\ pc = "users" => q.op # "assign"
  OBVIOUS
<1> HIDE DEF pc
<1>7. r \in Transaction
  BY <1>1, <1>4 DEF Transaction, Pc
<1>8. /\ r.pc = pc /\ r.user = u /\ r.op = q.op /\ r.grant = q.grant
      /\ r.locked = q.locked /\ r.wrote = q.wrote
      /\ r.deleted = q.deleted /\ r.inserted = q.inserted
  BY <1>1 DEF Transaction
<1> HIDE DEF r
<1>9. Disciplined(r)
  <2>1. Guarded(r) <=> Guarded(q)
    BY <1>8 DEF Guarded
  <2>2. CASE Guarded(q)
    BY <1>1, <1>4, <1>5, <1>6, <1>8, <2>1, <2>2 DEF Disciplined
  <2>3. CASE ~Guarded(q)
    <3>1. pc = "snapshot" => Super \in q.grant
      BY <1>6, <2>3 DEF Guarded
    <3>2. QED BY <1>1, <1>4, <1>5, <1>6, <1>8, <2>1, <2>3, <3>1 DEF Disciplined
  <2>4. QED BY <2>2, <2>3
<1>10. \A s \in Tx \ {t} : Apart(r, tx[s])
  BY <1>8 DEF AdminInv, Exclusive, Apart
<1>11. r.locked => Remaining(r) # {}
  <2>1. ASSUME r.locked PROVE Remaining(r) # {}
    <3>1. q.locked /\ pc = "guard"
      BY <1>1, <1>5, <1>8, <2>1 DEF Disciplined
    <3>2. Remaining(q) # {}
      BY <3>1 DEF AdminInv, Standing
    <3>3. QED BY <1>8, <3>1, <3>2 DEF Remaining, ActiveSuperAdminsSeen, StatusSeen, RolesSeen
  <2>2. QED BY <2>1
<1>12. QED BY <1>3, <1>7, <1>9, <1>10, <1>11, LocalStep

(* Of more than one there is another one. *)
LEMMA AnotherOne ==
  ASSUME NEW S, NEW u, S # {}, ~(u \in S /\ Cardinality(S) <= 1)
  PROVE  \E v \in S : v # u
<1> SUFFICES ASSUME \A v \in S : v = u PROVE FALSE
  OBVIOUS
<1>1. S = {u}
  OBVIOUS
<1>2. Cardinality(S) = 1
  BY <1>1, FS_Singleton
<1>3. QED BY <1>1, <1>2

(* protect_last_super_admin: the transaction goes on only if somebody else *)
(* is an active super_admin in what it sees.                               *)
LEMMA GuardStep ==
  ASSUME AdminInv, NEW t \in Tx, Guard(t)
  PROVE  AdminInv'
<1> DEFINE q == tx[t]
           admins == ActiveSuperAdminsSeen(q)
           pc == IF q.op = "assign" THEN "snapshot" ELSE "users"
           r == [q EXCEPT !.locked = TRUE, !.pc = pc]
<1>1. q \in Transaction /\ q.pc = "guard" /\ Disciplined(q) /\ RoleRowFree(t)
  BY DEF AdminInv, AdminTypeOK, Guard
<1>2. CASE q.user \in admins /\ Cardinality(admins) <= 1
  BY <1>2, RollbackStep DEF Guard
<1>3. CASE ~(q.user \in admins /\ Cardinality(admins) <= 1)
  <2>1. tx' = [tx EXCEPT ![t] = r] /\ UNCHANGED <<status, roles>>
    BY <1>3 DEF AdminInv, AdminTypeOK, Guard
  <2>2. pc \in {"snapshot", "users"} /\ (pc = "users" => q.op # "assign")
    OBVIOUS
  <2> HIDE DEF pc
  <2>3. r \in Transaction
    BY <1>1, <2>2 DEF Transaction, Pc
  <2>4. /\ r.pc = pc /\ r.user = q.user /\ r.op = q.op /\ r.grant = q.grant
        /\ r.locked /\ r.wrote = q.wrote
        /\ r.deleted = q.deleted /\ r.inserted = q.inserted
    BY <1>1 DEF Transaction
  <2> HIDE DEF r
  <2>5. Guarded(q) /\ q.user \in User
    BY <1>1 DEF Disciplined
  <2>6. Guarded(r)
    BY <2>4, <2>5 DEF Guarded
  <2>7. Disciplined(r)
    BY <1>1, <2>2, <2>4, <2>5, <2>6 DEF Disciplined
  <2>8. \A s \in Tx \ {t} : Apart(r, tx[s])
    BY <1>1, <2>4 DEF AdminInv, Exclusive, Apart, RoleRowFree
  <2>9. admins # {}
    <3>1. CASE q.locked
      BY <1>1, <3>1 DEF AdminInv, Standing, Remaining
    <3>2. CASE ~q.locked
      <4>1. \A u \in User : q.wrote[u] = None /\ q.deleted[u] = {} /\ q.inserted[u] = {}
        BY <1>1, <2>5, <3>2 DEF Disciplined
      <4>2. admins = ActiveSuperAdmins
        BY <4>1 DEF ActiveSuperAdminsSeen, ActiveSuperAdmins, StatusSeen, RolesSeen
      <4>3. QED BY <4>2 DEF AdminInv, Standing, AdminRemains
    <3>3. QED BY <3>1, <3>2
  <2>10. PICK v \in admins : v # q.user
    BY <1>3, <2>9, AnotherOne
  <2>11. v \in Remaining(r)
    BY <2>4, <2>10 DEF Remaining, ActiveSuperAdminsSeen, StatusSeen, RolesSeen
  <2>12. QED BY <2>1, <2>3, <2>7, <2>8, <2>11, LocalStep
<1>4. QED BY <1>2, <1>3

(* What a transaction does to the account its guard was about leaves the   *)
(* other active super_admins standing.                                     *)
LEMMA OthersRemain ==
  ASSUME NEW q, NEW r, q.user = r.user,
         q.pc \in {"users", "snapshot", "roles", "insert"},
         \A v \in User \ {q.user} : /\ r.wrote[v] = q.wrote[v]
                                    /\ r.deleted[v] = q.deleted[v]
                                    /\ r.inserted[v] = q.inserted[v],
         Remaining(q) # {}
  PROVE  Remaining(r) # {}
<1>1. PICK v \in ActiveSuperAdminsSeen(q) : v # q.user
  BY DEF Remaining
<1>2. v \in User /\ StatusSeen(r, v) = "active" /\ Super \in RolesSeen(r, v)
  BY <1>1 DEF ActiveSuperAdminsSeen, StatusSeen, RolesSeen
<1>3. QED BY <1>1, <1>2 DEF Remaining, ActiveSuperAdminsSeen

(* The statement on the users row. *)
LEMMA WriteUserStep ==
  ASSUME AdminInv, NEW t \in Tx, WriteUser(t)
  PROVE  AdminInv'
<1> DEFINE q == tx[t]
           u == q.user
           refused == IF q.op = "create" THEN status[u] # "absent" ELSE ~Exists(u)
<1>1. q \in Transaction /\ q.pc = "users" /\ Disciplined(q) /\ UserRowFree(t, u)
  BY DEF AdminInv, AdminTypeOK, WriteUser
<1>2. CASE refused
  BY <1>2, RollbackStep DEF WriteUser
<1>3. CASE ~refused
  <2>1. PICK s \in {NewStatus(q.op)} \cup (IF q.op = "create" THEN {"inactive"} ELSE {}) :
           tx' = [tx EXCEPT ![t].wrote[u] = s, ![t].pc = AfterWrite(q.op)]
    BY <1>3 DEF WriteUser
  <2> DEFINE pc == AfterWrite(q.op)
             w == [q.wrote EXCEPT ![u] = s]
             r == [q EXCEPT !.wrote = w, !.pc = pc]
  <2>2. tx' = [tx EXCEPT ![t] = r] /\ UNCHANGED <<status, roles>>
    BY <1>1, <1>3, <2>1 DEF AdminInv, AdminTypeOK, Transaction, WriteUser
  <2>3. u \in User /\ q.op \in Op /\ q.op # "assign"
    BY <1>1 DEF Disciplined, Transaction
  <2>4. /\ s \in Status
        /\ q.op \in {"create", "bootstrap", "activate"} =>
             s = "active" \/ (q.op = "create" /\ status[u] = "absent")
    BY <1>3, <2>3 DEF NewStatus, Status, Op
  <2>5. /\ pc \in {"next", "insert", "snapshot"}
        /\ pc = "snapshot" => q.op \in {"bootstrap", "delete"}
    BY <2>3 DEF AfterWrite, Op
  <2>6. w \in [User -> Status \cup {None}] /\ w[u] = s /\ \A v \in User \ {u} : w[v] = q.wrote[v]
    BY <1>1, <2>3, <2>4 DEF Transaction
  <2> HIDE DEF pc, w
  <2>7. r \in Transaction
    BY <1>1, <2>5, <2>6 DEF Transaction, Pc
  <2>8. /\ r.pc = pc /\ r.user = u /\ r.op = q.op /\ r.grant = q.grant
        /\ r.locked = q.locked /\ r.wrote = w
        /\ r.deleted = q.deleted /\ r.inserted = q.inserted
    BY <1>1 DEF Transaction
  <2> HIDE DEF r
  <2>9. Guarded(r) <=> Guarded(q)
    BY <2>8 DEF Guarded
  <2>10. Disciplined(r)
    <3>1. CASE Guarded(q)
      BY <1>1, <2>3, <2>5, <2>8, <2>9, <3>1 DEF Disciplined
    <3>2. CASE ~Guarded(q)
      <4>1. q.op \in {"create", "bootstrap", "activate"}
        BY <2>3, <3>2 DEF Guarded, Op
      <4>2. \A v \in User : w[v] \in {None, "active"} \/ status[v] = "absent"
        BY <1>1, <2>4, <2>6, <3>2, <4>1 DEF Disciplined
      <4>3. \A v \in User : Super \in q.deleted[v] =>
                               Super \in q.grant /\ Super \in q.inserted[v]
        BY <1>1, <3>2 DEF Disciplined
      <4>4. pc = "snapshot" => Super \in q.grant
        BY <1>1, <2>5, <3>2, <4>1 DEF Disciplined
      <4>5. ~q.locked /\ (q.op = "bootstrap" => Super \in q.grant)
        BY <1>1, <3>2 DEF Disciplined
      <4>6. QED BY <2>3, <2>5, <2>8, <2>9, <3>2, <4>2, <4>3, <4>4, <4>5 DEF Disciplined
    <3>3. QED BY <3>1, <3>2
  <2>11. \A x \in Tx \ {t} : Apart(r, tx[x])
    BY <1>1, <2>6, <2>8 DEF AdminInv, Exclusive, Apart, UserRowFree
  <2>12. r.locked => Remaining(r) # {}
    BY <1>1, <2>6, <2>8, OthersRemain DEF AdminInv, Standing
  <2>13. QED BY <2>2, <2>7, <2>10, <2>11, <2>12, LocalStep
<1>4. QED BY <1>2, <1>3

(* The snapshot of a DELETE is no write. *)
LEMMA SnapshotStep ==
  ASSUME AdminInv, NEW t \in Tx, Snapshot(t)
  PROVE  AdminInv'
<1> DEFINE q == tx[t]
           seen == RolesSeen(q, q.user)
           r == [q EXCEPT !.seen = seen, !.pc = "roles"]
<1>1. q \in Transaction /\ q.pc = "snapshot" /\ Disciplined(q)
  BY DEF AdminInv, AdminTypeOK, Snapshot
<1>2. tx' = [tx EXCEPT ![t] = r] /\ UNCHANGED <<status, roles>>
  BY DEF AdminInv, AdminTypeOK, Snapshot
<1>3. q.user \in User
  BY <1>1 DEF Disciplined
<1>4. seen \in SUBSET Role
  BY <1>1, <1>3 DEF RolesSeen, AdminInv, AdminTypeOK, Transaction
<1> HIDE DEF seen
<1>5. r \in Transaction
  BY <1>1, <1>4 DEF Transaction, Pc
<1>6. /\ r.pc = "roles" /\ r.user = q.user /\ r.op = q.op /\ r.grant = q.grant
      /\ r.locked = q.locked /\ r.wrote = q.wrote
      /\ r.deleted = q.deleted /\ r.inserted = q.inserted
  BY <1>1 DEF Transaction
<1> HIDE DEF r
<1>7. Disciplined(r)
  BY <1>1, <1>6 DEF Disciplined, Guarded
<1>8. \A x \in Tx \ {t} : Apart(r, tx[x])
  BY <1>6 DEF AdminInv, Exclusive, Apart
<1>9. r.locked => Remaining(r) # {}
  BY <1>1, <1>6, OthersRemain DEF AdminInv, Standing
<1>10. QED BY <1>2, <1>5, <1>7, <1>8, <1>9, LocalStep

(* The deletion of the rows the snapshot showed. *)
LEMMA DeleteRolesStep ==
  ASSUME AdminInv, NEW t \in Tx, DeleteRoles(t)
  PROVE  AdminInv'
<1> DEFINE q == tx[t]
           u == q.user
           gone == [q.deleted EXCEPT ![u] = q.seen \cap roles[u]]
           pc == IF q.op = "delete" THEN "next" ELSE "insert"
           r == [q EXCEPT !.deleted = gone, !.seen = {}, !.pc = pc]
<1>1. q \in Transaction /\ q.pc = "roles" /\ Disciplined(q) /\ u \in User
  BY DEF AdminInv, AdminTypeOK, DeleteRoles, Disciplined
<1>2. tx' = [tx EXCEPT ![t] = r] /\ UNCHANGED <<status, roles>>
  BY <1>1 DEF AdminInv, AdminTypeOK, Transaction, DeleteRoles
<1>3. pc \in {"next", "insert"} /\ (q.op # "delete" => pc = "insert")
  OBVIOUS
<1>4. gone \in [User -> SUBSET Role] /\ \A v \in User \ {u} : gone[v] = q.deleted[v]
  BY <1>1 DEF Transaction
<1> HIDE DEF pc, gone
<1>5. r \in Transaction
  BY <1>1, <1>3, <1>4 DEF Transaction, Pc
<1>6. /\ r.pc = pc /\ r.user = u /\ r.op = q.op /\ r.grant = q.grant
      /\ r.locked = q.locked /\ r.wrote = q.wrote
      /\ r.deleted = gone /\ r.inserted = q.inserted
  BY <1>1 DEF Transaction
<1> HIDE DEF r
<1>7. Guarded(r) <=> Guarded(q)
  BY <1>6 DEF Guarded
<1>8. Disciplined(r)
  <2>1. CASE Guarded(q)
    BY <1>1, <1>3, <1>6, <1>7, <2>1 DEF Disciplined
  <2>2. CASE ~Guarded(q)
    <3>1. Super \in q.grant /\ ~q.locked
      BY <1>1, <2>2 DEF Disciplined
    <3>2. pc = "insert"
      BY <1>3, <2>2 DEF Guarded
    <3>3. \A v \in User : q.wrote[v] \in {None, "active"} \/ status[v] = "absent"
      BY <1>1, <2>2 DEF Disciplined
    <3>4. \A v \in User : Super \in gone[v] => Super \in q.inserted[v] \/ v = u
      BY <1>1, <1>4, <2>2 DEF Disciplined
    <3>5. QED BY <1>1, <1>6, <1>7, <2>2, <3>1, <3>2, <3>3, <3>4 DEF Disciplined
  <2>3. QED BY <2>1, <2>2
<1>9. \A x \in Tx \ {t} : Apart(r, tx[x])
  BY <1>6 DEF AdminInv, Exclusive, Apart
<1>10. r.locked => Remaining(r) # {}
  BY <1>1, <1>4, <1>6, OthersRemain DEF AdminInv, Standing
<1>11. QED BY <1>2, <1>5, <1>8, <1>9, <1>10, LocalStep

(* The insertion of the new roles. *)
LEMMA InsertRolesStep ==
  ASSUME AdminInv, NEW t \in Tx, InsertRoles(t)
  PROVE  AdminInv'
<1> DEFINE q == tx[t]
           u == q.user
           new == [q.inserted EXCEPT ![u] = q.grant]
           r == [q EXCEPT !.inserted = new, !.pc = "next"]
<1>1. q \in Transaction /\ q.pc = "insert" /\ Disciplined(q) /\ u \in User
  BY DEF AdminInv, AdminTypeOK, InsertRoles, Disciplined
<1>2. CASE q.grant \cap (roles[u] \ q.deleted[u]) # {}
  BY <1>2, RollbackStep DEF InsertRoles
<1>3. CASE ~(q.grant \cap (roles[u] \ q.deleted[u]) # {})
  <2>1. tx' = [tx EXCEPT ![t] = r] /\ UNCHANGED <<status, roles>>
    BY <1>1, <1>3 DEF AdminInv, AdminTypeOK, Transaction, InsertRoles
  <2>2. /\ new \in [User -> SUBSET Role] /\ new[u] = q.grant
        /\ \A v \in User \ {u} : new[v] = q.inserted[v]
    BY <1>1 DEF Transaction
  <2> HIDE DEF new
  <2>3. r \in Transaction
    BY <1>1, <2>2 DEF Transaction, Pc
  <2>4. /\ r.pc = "next" /\ r.user = u /\ r.op = q.op /\ r.grant = q.grant
        /\ r.locked = q.locked /\ r.wrote = q.wrote
        /\ r.deleted = q.deleted /\ r.inserted = new
    BY <1>1 DEF Transaction
  <2> HIDE DEF r
  <2>5. Guarded(r) <=> Guarded(q)
    BY <2>4 DEF Guarded
  <2>6. Disciplined(r)
    <3>1. CASE Guarded(q)
      <4>1. q.locked /\ Super \notin q.grant /\ \A v \in User : Super \notin new[v]
        BY <1>1, <2>2, <3>1 DEF Disciplined
      <4>2. QED BY <2>4, <2>5, <3>1, <4>1 DEF Disciplined
    <3>2. CASE ~Guarded(q)
      <4>1. /\ ~q.locked /\ (q.op = "bootstrap" => Super \in q.grant)
            /\ \A v \in User : q.wrote[v] \in {None, "active"} \/ status[v] = "absent"
        BY <1>1, <3>2 DEF Disciplined
      <4>2. \A v \in User : Super \in q.deleted[v] => Super \in q.grant /\ Super \in new[v]
        BY <1>1, <2>2, <3>2 DEF Disciplined
      <4>3. QED BY <2>4, <2>5, <3>2, <4>1, <4>2 DEF Disciplined
    <3>3. QED BY <3>1, <3>2
  <2>7. \A x \in Tx \ {t} : Apart(r, tx[x])
    BY <2>4 DEF AdminInv, Exclusive, Apart
  <2>8. r.locked => Remaining(r) # {}
    BY <1>1, <2>2, <2>4, OthersRemain DEF AdminInv, Standing
  <2>9. QED BY <2>1, <2>3, <2>6, <2>7, <2>8, LocalStep
<1>4. QED BY <1>2, <1>3

(* A transaction that does not hold the role row, complete, has taken      *)
(* neither the active status nor the role from anybody.                    *)
LEMMA TakesNothing ==
  ASSUME NEW q, Disciplined(q), ~q.locked, q.pc = "next", NEW v \in User
  PROVE  /\ status[v] = "active" => StatusSeen(q, v) = "active"
         /\ Super \in roles[v] => Super \in RolesSeen(q, v)
<1>1. CASE Guarded(q)
  <2>1. q.wrote[v] = None /\ q.deleted[v] = {}
    BY <1>1 DEF Disciplined
  <2>2. QED BY <2>1 DEF StatusSeen, RolesSeen
<1>2. CASE ~Guarded(q)
  <2>1. /\ q.wrote[v] \in {None, "active"} \/ status[v] = "absent"
        /\ Super \in q.deleted[v] => Super \in q.inserted[v]
    BY <1>2 DEF Disciplined
  <2>2. QED BY <2>1 DEF StatusSeen, RolesSeen
<1>3. QED BY <1>1, <1>2

(* The commit: a guarded transaction leaves whom its guard found, any      *)
(* other takes nothing; and what another transaction has been promised by  *)
(* its guard stays true, for the role row was held by that one.            *)
LEMMA CommitStep ==
  ASSUME AdminInv, NEW t \in Tx, Commit(t)
  PROVE  AdminInv'
<1> DEFINE q == tx[t]
<1>1. q \in Transaction /\ q.pc = "next" /\ Disciplined(q)
  BY DEF AdminInv, AdminTypeOK, Commit
<1>2. /\ status' = [u \in User |-> StatusSeen(q, u)]
      /\ roles' = [u \in User |-> RolesSeen(q, u)]
  BY DEF Commit
<1>3. \A s \in Tx : tx'[s] = IF s = t THEN NoTransaction ELSE tx[s]
  BY DEF AdminInv, AdminTypeOK, Commit
<1>4. AdminTypeOK'
  <2>1. \A u \in User : StatusSeen(q, u) \in Status
    BY <1>1 DEF StatusSeen, AdminInv, AdminTypeOK, Transaction
  <2>2. \A u \in User : RolesSeen(q, u) \in SUBSET Role
    BY <1>1 DEF RolesSeen, AdminInv, AdminTypeOK, Transaction
  <2>3. tx' \in [Tx -> Transaction]
    BY NoTransactionType DEF AdminInv, AdminTypeOK, Commit
  <2>4. QED BY <1>2, <2>1, <2>2, <2>3 DEF AdminTypeOK
<1>5. ASSUME NEW s \in Tx PROVE Disciplined(tx[s])'
  <2>1. CASE s = t
    <3>1. tx'[s] = NoTransaction
      BY <1>3, <2>1
    <3>2. QED BY <3>1 DEF NoTransaction, Disciplined, Guarded
  <2>2. CASE s # t
    <3>1. tx'[s] = tx[s] /\ Disciplined(tx[s]) /\ Apart(tx[s], q)
      BY <1>3, <2>2 DEF AdminInv, Exclusive
    <3>2. ASSUME NEW u \in User, tx[s].wrote[u] \notin {None, "active"},
                 status[u] = "absent"
          PROVE  status'[u] = "absent"
      BY <1>2, <3>1, <3>2 DEF Apart, StatusSeen
    <3>3. QED BY <3>1, <3>2 DEF Disciplined, Guarded
  <2>3. QED BY <2>1, <2>2
<1>6. Exclusive'
  BY <1>3 DEF AdminInv, Exclusive, Apart, NoTransaction
<1>7. AdminRemains'
  <2>1. ActiveSuperAdmins' = ActiveSuperAdminsSeen(q)
    BY <1>2 DEF ActiveSuperAdmins, ActiveSuperAdminsSeen
  <2>2. CASE q.locked
    BY <1>1, <2>1, <2>2 DEF AdminInv, Standing, AdminRemains, Remaining
  <2>3. CASE ~q.locked
    <3>1. PICK v \in User : status[v] = "active" /\ Super \in roles[v]
      BY DEF AdminInv, Standing, AdminRemains, ActiveSuperAdmins
    <3>2. v \in ActiveSuperAdminsSeen(q)
      BY <1>1, <2>3, <3>1, TakesNothing DEF ActiveSuperAdminsSeen
    <3>3. QED BY <2>1, <3>2 DEF AdminRemains
  <2>4. QED BY <2>2, <2>3
<1>8. ASSUME NEW s \in Tx, tx'[s].locked PROVE Remaining(tx[s])' # {}
  <2>1. s # t
    BY <1>3, <1>8 DEF NoTransaction
  <2>2. tx'[s] = tx[s] /\ tx[s].locked
    BY <1>3, <1>8, <2>1
  <2>3. ~q.locked
    BY <2>1, <2>2 DEF AdminInv, Exclusive, Apart
  <2>4. PICK v \in Remaining(tx[s]) : TRUE
    BY <2>2 DEF AdminInv, Standing
  <2>5. /\ v \in User /\ StatusSeen(tx[s], v) = "active"
        /\ Super \in RolesSeen(tx[s], v)
    BY <2>4 DEF Remaining, ActiveSuperAdminsSeen
  <2>6. /\ status[v] = "active" => status'[v] = "active"
        /\ Super \in roles[v] => Super \in roles'[v]
    BY <1>1, <1>2, <2>3, <2>5, TakesNothing
  <2>7. StatusSeen(tx[s], v)' = "active" /\ Super \in RolesSeen(tx[s], v)'
    BY <2>2, <2>5, <2>6 DEF StatusSeen, RolesSeen
  <2>8. v \in ActiveSuperAdminsSeen(tx[s])'
    BY <2>5, <2>7 DEF ActiveSuperAdminsSeen
  <2>9. v \in Remaining(tx[s])'
    BY <2>2, <2>4, <2>8 DEF Remaining
  <2>10. QED BY <2>9
<1>9. QED BY <1>4, <1>5, <1>6, <1>7, <1>8 DEF AdminInv, Standing

(* A request begins with what its handler asks for. *)
LEMMA RequestStep ==
  ASSUME AdminInv, NEW t \in Tx, Request(t)
  PROVE  AdminInv'
<1>1. ASSUME NEW u \in User, NEW grant \in SUBSET Role, Create(t, u, grant) PROVE AdminInv'
  <2>1. Begin(t, "create", {u}, grant)
    BY <1>1 DEF Create
  <2>2. QED BY <2>1, BeginStep DEF Op
<1>2. ASSUME NEW u \in User, Bootstrap(t, u) PROVE AdminInv'
  <2> DEFINE op == IF Exists(u) THEN "bootstrap" ELSE "create"
  <2>1. Begin(t, op, {u}, {Super})
    BY <1>2 DEF Bootstrap
  <2>2. op \in {"bootstrap", "create"}
    OBVIOUS
  <2> HIDE DEF op
  <2>3. {Super} \in SUBSET Role
    BY RoleAssumption
  <2>4. QED BY <2>1, <2>2, <2>3, BeginStep DEF Op
<1>3. ASSUME NEW u \in User, NEW op \in {"activate", "disable"}, UpdateStatus(t, u, op)
      PROVE  AdminInv'
  <2>1. Begin(t, op, {u}, {})
    BY <1>3 DEF UpdateStatus
  <2>2. QED BY <2>1, BeginStep DEF Op
<1>4. ASSUME NEW us \in SUBSET User, Delete(t, us) PROVE AdminInv'
  <2>1. Begin(t, "delete", us, {})
    BY <1>4 DEF Delete
  <2>2. QED BY <2>1, BeginStep DEF Op
<1>5. ASSUME NEW us \in SUBSET User, NEW grant \in SUBSET Role, AssignRoles(t, us, grant)
      PROVE  AdminInv'
  <2>1. Begin(t, "assign", us, grant)
    BY <1>5 DEF AssignRoles
  <2>2. QED BY <2>1, BeginStep DEF Op
<1>6. QED BY <1>1, <1>2, <1>3, <1>4, <1>5 DEF Request

(* The invariant is inductive. *)
LEMMA AdminInductive == AdminInv /\ [AdminNext]_adminVars => AdminInv'
<1> SUFFICES ASSUME AdminInv, [AdminNext]_adminVars PROVE AdminInv'
  OBVIOUS
<1>1. CASE UNCHANGED adminVars
  BY <1>1 DEF adminVars, AdminInv, AdminTypeOK, Disciplined, Guarded, Exclusive, Apart, Standing,
     AdminRemains, ActiveSuperAdmins, Remaining, ActiveSuperAdminsSeen, StatusSeen, RolesSeen
<1>2. CASE AdminNext
  <2>1. PICK t \in Tx : Request(t) \/ Statement(t) \/ Abort(t)
    BY <1>2 DEF AdminNext
  <2>2. CASE Request(t)
    BY <2>2, RequestStep
  <2>3. CASE Statement(t)
    BY <2>3, NextUserStep, GuardStep, WriteUserStep, SnapshotStep, DeleteRolesStep,
       InsertRolesStep, CommitStep DEF Statement
  <2>4. CASE Abort(t)
    BY <2>4, RollbackStep DEF Abort
  <2>5. QED BY <2>1, <2>2, <2>3, <2>4
<1>3. QED BY <1>1, <1>2

(* The tables and the transactions keep their types: every write of        *)
(* services/users.rs is of a status and of roles the schema knows.         *)
THEOREM AdminTypeCorrect == AdminSpec => []AdminTypeOK
<1>1. AdminSpec => []AdminInv
  BY AdminInitInv, AdminInductive, PTL DEF AdminSpec
<1>2. AdminInv => AdminTypeOK
  BY DEF AdminInv
<1>3. QED BY <1>1, <1>2, PTL

(* protect_last_super_admin, docs/architecture.md:27: however many         *)
(* requests suspend, delete, strip, create or promote accounts at once,    *)
(* an active super_admin remains in every committed state.                 *)
THEOREM LastAdminRemains == AdminSpec => []AdminRemains
<1>1. AdminSpec => []AdminInv
  BY AdminInitInv, AdminInductive, PTL DEF AdminSpec
<1>2. AdminInv => AdminRemains
  BY DEF AdminInv, Standing
<1>3. QED BY <1>1, <1>2, PTL

=============================================================================
