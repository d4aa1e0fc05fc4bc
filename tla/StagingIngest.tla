---------------------------- MODULE StagingIngest ----------------------------
(***************************************************************************)
(* The staging stage: jobs/staging/ingest_landing_csv_to_lakehouse.py and  *)
(* what it calls in lakehouse/, spark/ and db/.                            *)
(*                                                                         *)
(* A stager is one process of that job.  It asks the catalog database once *)
(* which landing files are pending, groups them by schema contract, and    *)
(* for each contract reads the CSV objects, writes them to the contract's  *)
(* Iceberg table, and appends one outcome per file to the ingestion log,   *)
(* which is what the next query decides on.  An exception makes the        *)
(* outcome FAILED and the loop goes on to the next contract.               *)
(*                                                                         *)
(* The landing stage is represented by what it promises (ReliableCopy): it *)
(* uploads newer versions of an object at any time, and registers a        *)
(* version only after uploading it or a newer one.                         *)
(*                                                                         *)
(* A file contributes one row to its table, standing for all the rows with *)
(* its business keys.  A row records which file and version its values     *)
(* come from; its id (file and attempt that inserted it) tells duplicates  *)
(* apart.                                                                  *)
(***************************************************************************)
EXTENDS Naturals

CONSTANTS
    Stagers,     \* processes of the staging job that may overlap
    Files,       \* landing objects
    Contracts,   \* schema contracts (fms_name), one Iceberg table each
    ContractOf,  \* the contract of a file; None: unclassified or bypassed
    Keys,        \* business keys
    KeyOf,       \* the business key of the row of a file
    Keyless,     \* contracts with no business key: appended, not merged
    MaxVersion,  \* bound: uploads of an object
    MaxAttempts, \* bound: contracts attempted before the last query
    MaxFaults,   \* bound: failures and crashes
    None

\* No two files of a merged contract carry the same business keys.  The code does
\* not ensure it: the same month of one publication from both environments, landed
\* together, goes to one table under one key.
DistinctKeys ==
    \A f, g \in Files :
        ContractOf[f] = ContractOf[g] /\ ContractOf[f] \notin Keyless /\ KeyOf[f] = KeyOf[g]
            => f = g

ASSUME StagingConstants ==
    /\ ContractOf \in [Files -> Contracts \union {None}]
    /\ KeyOf \in [Files -> Keys]
    /\ Keyless \subseteq Contracts
    /\ MaxVersion \in Nat
    /\ MaxAttempts \in Nat
    /\ MaxFaults \in Nat
    /\ None \notin Contracts

VARIABLES
    stored,    \* landing bucket: version of each object, 0 if absent
    registry,  \* landing_files_registry: registered version, 0 if no row
    log,       \* lakehouse_ingestion_registry, append-only
    rows,      \* the rows of all Iceberg tables
    snapshot,  \* per contract: number of commits to its table
    clock,     \* source of ingested_at
    pc,        \* per stager: the call it is about to make
    todo,      \* per stager: contracts not yet processed in this run
    work,      \* per stager: the hash of each file the query returned, else 0
    cur,       \* per stager: the contract being processed
    at,        \* per stager: ingested_at of that contract
    base,      \* per stager: the table snapshot its write is based on
    data,      \* per stager: the versions read from the bucket
    faults

local == <<pc, todo, work, cur, at, base, data>>
vars == <<stored, registry, log, rows, snapshot, clock, local, faults>>

Version == 0..MaxVersion
Attempt == [file : Files, hash : Version, status : {"SUCCESS", "FAILED"}, at : Nat]
Row == [id : [file : Files, at : Nat], file : Files, ver : Version]
Nothing == [f \in Files |-> 0]

\* Every variable keeps its type; in particular the log only ever holds statuses
\* that the pending query knows and hashes that a registry row can have.
TypeOK ==
    /\ stored \in [Files -> Version]
    /\ registry \in [Files -> Version]
    /\ log \subseteq Attempt
    /\ rows \subseteq Row
    /\ snapshot \in [Contracts -> Nat]
    /\ clock \in Nat
    /\ pc \in [Stagers -> {"idle", "contracts", "read", "write", "succeed", "fail"}]
    /\ todo \in [Stagers -> SUBSET Contracts]
    /\ work \in [Stagers -> [Files -> Version]]
    /\ cur \in [Stagers -> Contracts \union {None}]
    /\ at \in [Stagers -> Nat]
    /\ base \in [Stagers -> Nat]
    /\ data \in [Stagers -> [Files -> Version]]
    /\ faults \in 0..MaxFaults

Init ==
    /\ stored = Nothing
    /\ registry = Nothing
    /\ log = {}
    /\ rows = {}
    /\ snapshot = [c \in Contracts |-> 0]
    /\ clock = 1
    /\ pc = [p \in Stagers |-> "idle"]
    /\ todo = [p \in Stagers |-> {}]
    /\ work = [p \in Stagers |-> Nothing]
    /\ cur = [p \in Stagers |-> None]
    /\ at = [p \in Stagers |-> 0]
    /\ base = [p \in Stagers |-> 0]
    /\ data = [p \in Stagers |-> Nothing]
    /\ faults = 0

-----------------------------------------------------------------------------
(* The pending query.                                                      *)

\* Mutant of Latest: every attempt counts.
AllAttempts(f) == {a \in log : a.file = f}

\* The attempts on f with the latest ingested_at.  The query numbers them by
\* ingested_at alone, so of several it takes any one.
Latest(f) ==
    {a \in log : a.file = f /\ \A b \in log : b.file = f => b.at <= a.at}

\* Mutant of LeavesPending: only a changed row is tried again.
PendingIfChanged(a) == a.hash # registry[a.file]

\* The attempt leaves its file pending: it failed, or the row has changed since.
LeavesPending(a) == a.status = "FAILED" \/ a.hash # registry[a.file]

MustBePending(f) ==
    registry[f] # 0 /\ \A a \in Latest(f) : LeavesPending(a)

MayBePending(f) ==
    registry[f] # 0 /\ (Latest(f) = {} \/ \E a \in Latest(f) : LeavesPending(a))

-----------------------------------------------------------------------------
(* Reading and writing a contract.                                         *)

Batch(p) == {f \in Files : work[p][f] # 0 /\ ContractOf[f] = cur[p]}

Table(c) == {r \in rows : ContractOf[r.file] = c}

\* The files of the batch whose row matches the table row r on the key columns.
Matching(p, r) == {f \in Batch(p) : KeyOf[f] = KeyOf[r.file]}

\* MERGE refuses to update one table row from two source rows.
Ambiguous(p) ==
    \E r \in Table(cur[p]) : \E f, g \in Matching(p, r) : f # g

Inserted(p, F) ==
    {[id |-> [file |-> f, at |-> at[p]], file |-> f, ver |-> data[p][f]] : f \in F}

\* Mutant of Updated: the WHEN MATCHED clause is missing.
NotUpdated(p, r) == {r}

\* Mutant of Unmatched: everything is inserted.
InsertAll(p) == Batch(p)

\* MERGE INTO ... WHEN MATCHED UPDATE SET * WHEN NOT MATCHED INSERT *
Updated(p, r) ==
    {[id |-> r.id, file |-> f, ver |-> data[p][f]] : f \in Matching(p, r)}

Unmatched(p) == {f \in Batch(p) : \A r \in Table(cur[p]) : f \notin Matching(p, r)}

MergedRows(p) ==
    {r \in rows : r \notin Table(cur[p]) \/ Matching(p, r) = {}}
        \union (UNION {Updated(p, r) : r \in Table(cur[p])})
        \union Inserted(p, Unmatched(p))

\* Iceberg commits a merge only if nobody has committed since its snapshot;
\* an append is always committed.
CommitTable(p, newRows) ==
    /\ rows' = newRows
    /\ snapshot' = [snapshot EXCEPT ![cur[p]] = @ + 1]

Conflict(p) == cur[p] \notin Keyless /\ snapshot[cur[p]] # base[p]

\* Mutant of WriteTable: the merge is not run as one statement on one snapshot.
WriteRegardless(p) ==
    /\ ~Ambiguous(p) \/ cur[p] \in Keyless
    /\ CommitTable(p, IF cur[p] \in Keyless THEN rows \union Inserted(p, Batch(p))
                                           ELSE MergedRows(p))

\* add_csv_to_iceberg_table takes effect.
WriteTable(p) ==
    \/ /\ cur[p] \in Keyless
       /\ CommitTable(p, rows \union Inserted(p, Batch(p)))
    \/ /\ cur[p] \notin Keyless
       /\ ~Conflict(p)
       /\ ~Ambiguous(p)
       /\ CommitTable(p, MergedRows(p))

\* Mutants of WriteLog: the row's hash is looked up again at commit; a failure is
\* logged under a status the pending query does not know.
LogCurrentHash(p, status) ==
    log' = log \union
        {[file |-> f, hash |-> registry[f], status |-> status, at |-> at[p]] :
            f \in Batch(p)}

LogUnknownStatus(p, status) ==
    log' = log \union
        {[file |-> f, hash |-> work[p][f], at |-> at[p],
          status |-> IF status = "FAILED" THEN "ERROR" ELSE status] : f \in Batch(p)}

\* commit_ingestion_attempts: one row per file of the batch, in one transaction,
\* with the hash the query returned.
WriteLog(p, status) ==
    log' = log \union
        {[file |-> f, hash |-> work[p][f], status |-> status, at |-> at[p]] :
            f \in Batch(p)}

Fault == faults < MaxFaults /\ faults' = faults + 1

Goto(p, there) == pc' = [pc EXCEPT ![p] = there]

LeaveContract(p) ==
    /\ Goto(p, "contracts")
    /\ cur' = [cur EXCEPT ![p] = None]
    /\ at' = [at EXCEPT ![p] = 0]
    /\ base' = [base EXCEPT ![p] = 0]
    /\ data' = [data EXCEPT ![p] = Nothing]
    /\ UNCHANGED <<todo, work>>

LeaveRun(p) ==
    /\ Goto(p, "idle")
    /\ todo' = [todo EXCEPT ![p] = {}]
    /\ work' = [work EXCEPT ![p] = Nothing]
    /\ cur' = [cur EXCEPT ![p] = None]
    /\ at' = [at EXCEPT ![p] = 0]
    /\ base' = [base EXCEPT ![p] = 0]
    /\ data' = [data EXCEPT ![p] = Nothing]
-----------------------------------------------------------------------------
(* The job.                                                                *)

\* get_incremental_files_to_ingest: the pending files that resolve to a contract,
\* grouped by contract whatever their environment.  With none the job returns.
Query(p) ==
    /\ pc[p] = "idle"
    /\ clock <= MaxAttempts
    /\ \E pending \in SUBSET {f \in Files : MayBePending(f)} :
        /\ \A f \in Files : MustBePending(f) => f \in pending
        /\ LET ingestible == {f \in pending : ContractOf[f] # None}
           IN  /\ work' = [work EXCEPT ![p] =
                       [f \in Files |-> IF f \in ingestible THEN registry[f] ELSE 0]]
               /\ todo' = [todo EXCEPT ![p] = {ContractOf[f] : f \in ingestible}]
               /\ Goto(p, IF ingestible = {} THEN "idle" ELSE "contracts")
    /\ UNCHANGED <<stored, registry, log, rows, snapshot, clock,
                   cur, at, base, data, faults>>

\* The next contract: ingested_at is taken before anything is read.
BeginContract(p, c) ==
    /\ pc[p] = "contracts"
    /\ c \in todo[p]
    /\ todo' = [todo EXCEPT ![p] = @ \ {c}]
    /\ cur' = [cur EXCEPT ![p] = c]
    /\ at' = [at EXCEPT ![p] = clock]
    /\ clock' = clock + 1
    /\ Goto(p, "read")
    /\ UNCHANGED <<stored, registry, log, rows, snapshot, work, base, data, faults>>

\* The objects are read as they are now, the table snapshot being fixed first.
ReadFiles(p) ==
    /\ pc[p] = "read"
    /\ base' = [base EXCEPT ![p] = snapshot[cur[p]]]
    /\ data' = [data EXCEPT ![p] =
                    [f \in Files |-> IF f \in Batch(p) THEN stored[f] ELSE 0]]
    /\ Goto(p, "write")
    /\ UNCHANGED <<stored, registry, log, rows, snapshot, clock,
                   todo, work, cur, at, faults>>

Write(p) ==
    /\ pc[p] = "write"
    /\ WriteTable(p)
    /\ Goto(p, "succeed")
    /\ UNCHANGED <<stored, registry, log, clock,
                   todo, work, cur, at, base, data, faults>>

CommitSuccess(p) ==
    /\ pc[p] = "succeed"
    /\ WriteLog(p, "SUCCESS")
    /\ LeaveContract(p)
    /\ UNCHANGED <<stored, registry, rows, snapshot, clock, faults>>

\* The except clause: the same files are logged as FAILED, with the same
\* ingested_at.
CommitFailure(p) ==
    /\ pc[p] = "fail"
    /\ WriteLog(p, "FAILED")
    /\ LeaveContract(p)
    /\ UNCHANGED <<stored, registry, rows, snapshot, clock, faults>>

FinishRun(p) ==
    /\ pc[p] = "contracts"
    /\ todo[p] = {}
    /\ LeaveRun(p)
    /\ UNCHANGED <<stored, registry, log, rows, snapshot, clock, faults>>
-----------------------------------------------------------------------------
(* Exceptions.                                                             *)

\* A merge that Iceberg or Spark must refuse.
MergeRefused(p) ==
    /\ pc[p] = "write"
    /\ Conflict(p) \/ (cur[p] \notin Keyless /\ Ambiguous(p))
    /\ Goto(p, "fail")
    /\ UNCHANGED <<stored, registry, log, rows, snapshot, clock,
                   todo, work, cur, at, base, data, faults>>

\* A call fails without effect.
CallError(p) ==
    /\ pc[p] \in {"read", "write", "succeed"}
    /\ Fault
    /\ Goto(p, "fail")
    /\ UNCHANGED <<stored, registry, log, rows, snapshot, clock,
                   todo, work, cur, at, base, data>>

\* A call takes effect but its answer is lost, and it raises.
LostAnswer(p) ==
    /\ \/ pc[p] = "write" /\ WriteTable(p) /\ UNCHANGED log
       \/ pc[p] = "succeed" /\ WriteLog(p, "SUCCESS") /\ UNCHANGED <<rows, snapshot>>
    /\ Fault
    /\ Goto(p, "fail")
    /\ UNCHANGED <<stored, registry, clock, todo, work, cur, at, base, data>>

\* Logging the failure fails too, and the exception ends the job: exit(1).  Or
\* the process dies.  Either way the other contracts of the run are dropped.
Die(p) ==
    /\ pc[p] # "idle"
    /\ Fault
    /\ LeaveRun(p)
    /\ UNCHANGED <<stored, registry, log, rows, snapshot, clock>>
-----------------------------------------------------------------------------
(* The landing stage.                                                      *)

LandingUploads(f) ==
    /\ stored[f] < MaxVersion
    /\ stored' = [stored EXCEPT ![f] = @ + 1]
    /\ UNCHANGED <<registry, log, rows, snapshot, clock, local, faults>>

LandingRegisters(f) ==
    /\ \E v \in registry[f] + 1 .. stored[f] :
           registry' = [registry EXCEPT ![f] = v]
    /\ UNCHANGED <<stored, log, rows, snapshot, clock, local, faults>>

Work(p) ==
    \/ Query(p)
    \/ \E c \in Contracts : BeginContract(p, c)
    \/ ReadFiles(p)
    \/ Write(p)
    \/ CommitSuccess(p)
    \/ CommitFailure(p)
    \/ FinishRun(p)
    \/ MergeRefused(p)

Trouble(p) == CallError(p) \/ LostAnswer(p) \/ Die(p)

Next ==
    \/ \E p \in Stagers : Work(p) \/ Trouble(p)
    \/ \E f \in Files : LandingUploads(f) \/ LandingRegisters(f)

Spec == Init /\ [][Next]_vars

\* The job is started again and again, and a started job keeps running.  The
\* landing stage, and faults, need not do anything.
FairSpec == Spec /\ \A p \in Stagers : WF_vars(Work(p))
-----------------------------------------------------------------------------
(* Properties.                                                             *)

Loaded(f, v) == \E r \in rows : r.file = f /\ r.ver >= v

\* A SUCCESS in the log is never wrong: the table holds the file's row at the
\* logged version or a newer one.  A file is left alone for good on the strength
\* of that entry, so a wrong one would be an update lost silently.
SuccessMeansLoaded ==
    \A a \in log : a.status = "SUCCESS" =>
        Loaded(a.file, a.hash)

\* No table with business keys ever holds two rows with the same key, however
\* often a batch is repeated after a failure, a crash or a lost answer.
BusinessKeysUnique ==
    \A r, s \in rows :
        /\ ContractOf[r.file] = ContractOf[s.file]
        /\ ContractOf[r.file] \notin Keyless
        /\ KeyOf[r.file] = KeyOf[s.file]
        => r = s

\* A table row, once loaded, is never overwritten by an older version of its
\* file, whichever of two overlapping stagers wins.
RowsNeverRegress ==
    [][\A r \in rows : \E s \in rows' :
           s.id = r.id /\ (s.file = r.file => s.ver >= r.ver)]_rows

Carried(p) ==
    \A f \in Batch(p) : work[p][f] <= data[p][f] /\ data[p][f] <= stored[f]

BasedOnTable(p) ==
    /\ base[p] <= snapshot[cur[p]]
    /\ ~Conflict(p) /\ cur[p] \notin Keyless =>
        \A r \in Table(cur[p]) : r.file \in Batch(p) => r.ver <= data[p][r.file]

\* Why they hold.  The versions met on the way from the query to the table never
\* decrease; the rows a merge is about to overwrite are no newer than the bytes it
\* has read, unless somebody has committed meanwhile and the merge is refused.
VersionsFlow ==
    /\ \A f \in Files : registry[f] <= stored[f]
    /\ \A r \in rows : r.ver <= stored[r.file]
    /\ \A p \in Stagers :
        /\ \A f \in Files : work[p][f] <= stored[f]
        /\ pc[p] \in {"read", "write", "succeed", "fail"} => cur[p] \in Contracts
        /\ pc[p] = "write" => Carried(p) /\ BasedOnTable(p)

\* And what has been written is still there when the outcome is logged.
LoggedIsLoaded ==
    /\ SuccessMeansLoaded
    /\ \A p \in Stagers : pc[p] = "succeed" => \A f \in Batch(p) : Loaded(f, work[p][f])

\* Every registered version of a classified file is loaded in the end, or
\* overtaken by a newer one.
RegisteredIsLoaded ==
    \A f \in Files : ContractOf[f] # None =>
        \A v \in 1..MaxVersion :
            registry[f] = v ~> Loaded(f, v)

\* When publications and faults cease, the queue of pending files drains and stays
\* empty, unclassified files apart: those are found by every query for ever.
QueueDrains ==
    <>[](\A f \in Files : ContractOf[f] # None => ~MayBePending(f))

Newest(S) == IF S = {} THEN 0 ELSE CHOOSE m \in S : \A n \in S : n <= m

\* The newest version of a file that its table holds, and the newest that its latest
\* outcomes call a success.
Copied(f) == Newest({r.ver : r \in {s \in rows : s.file = f}})

Acknowledged(f) == Newest({a.hash : a \in {b \in Latest(f) : b.status = "SUCCESS"}})

Mirror == INSTANCE ReliableCopy
            WITH Items <- Files,
                 source <- stored,
                 copy <- [f \in Files |-> Copied(f)],
                 ack <- [f \in Files |-> Acknowledged(f)]

\* The stage is itself a reliable copier, of landing objects into table rows,
\* acknowledged by the latest SUCCESS of the log.
CopiesReliably == Mirror!Spec
=============================================================================
