----------------------------- MODULE LandingSync -----------------------------
(***************************************************************************)
(* The landing stage: sync_active_domains (io/sync.py) and the helpers it  *)
(* calls, run by jobs/landing/ingest_my_entsoe_domains.py.                 *)
(*                                                                         *)
(* A syncer is one process of that job.  It goes through the folders of    *)
(* its checklist; in each it lists the remote directory, and for each      *)
(* listed file compares a fingerprint of the LISTED metadata with the      *)
(* registry, downloads the file, writes it to a temporary local file,      *)
(* uploads that to S3, deletes it, and writes the registry row.  Each of   *)
(* these is a call to another system and a step of its own here; writing   *)
(* the temporary file is two, it is truncated and then filled.  An         *)
(* exception abandons the rest of the folder only.                         *)
(*                                                                         *)
(* The contents of a file and the fingerprint of its metadata are both     *)
(* represented by the file's version number: a republication changes both  *)
(* (name, size and lastUpdatedTimestamp are what is hashed).  Version 0    *)
(* means that the file does not exist yet, or has no registry row.         *)
(***************************************************************************)
EXTENDS Naturals

CONSTANTS
    Syncers,     \* processes of the landing job that may overlap
    Folders,     \* resolved folder mappings: (environment, folder) pairs
    Files,       \* remote files, equivalently their S3 keys
    FolderOf,    \* the folder of each file
    Wanted,      \* per folder, the file names its checklist value lists;
                 \* empty for TRUE and for an empty list: every file
    TmpNames,    \* local temporary paths tmp_<file name>
    TmpNameOf,   \* the temporary path of each file: the bare file name, so
                 \* files of different folders or environments may share it
    NoFileId,    \* files listed without a fileId
    Unstamped,   \* files listed without a lastUpdatedTimestamp
    MaxVersion,  \* bound: republications of a file
    MaxFaults,   \* bound: failures and crashes
    None,        \* "no file": the content of an absent object
    Part         \* "no whole file": empty, cut short, or mixed from several

ASSUME SyncConstants ==
    /\ FolderOf \in [Files -> Folders]
    /\ Wanted \in [Folders -> SUBSET Files]
    /\ TmpNameOf \in [Files -> TmpNames]
    /\ NoFileId \subseteq Files
    /\ Unstamped \subseteq Files
    /\ MaxVersion \in Nat
    /\ MaxFaults \in Nat
    /\ None \notin Files /\ Part \notin Files /\ None # Part

VARIABLES
    remote,    \* the ENTSO-E file library: current version of each file
    stored,    \* the S3 landing bucket: what was last uploaded under each key
    lost,      \* keys whose object was deleted behind the pipeline's back
    registry,  \* landing_files_registry: the version fingerprinted in the row
    tmp,       \* MANUAL_DATA_DIR: contents of the temporary files
    pc,        \* per syncer: the call it is about to make
    todo,      \* per syncer: folders not yet visited in this run
    batch,     \* per syncer: listed files of the folder still to handle
    job,       \* per syncer: the listing entry being transferred
    data,      \* per syncer: the downloaded bytes
    hold,      \* per syncer: is the temporary file its own, opened by another
               \* too since it opened it, or deleted while it writes?
    errors,    \* per syncer: metrics["errors"] of the run
    listed,    \* per syncer, history: the version each file was listed with
    faults     \* failures so far, counted to bound them

local == <<pc, todo, batch, job, data, hold, errors, listed>>
vars == <<remote, stored, lost, registry, tmp, local, faults>>

Version == 0..MaxVersion
Content == [file : Files \union {None, Part}, ver : Version]
Absent == [file |-> None, ver |-> 0]
Torn == [file |-> Part, ver |-> 0]
Entry == [file : Files, ver : Version]   \* of a listing
NoEntry == [file |-> None, ver |-> 0]
Transferring == {"download", "open", "write", "upload", "unlink", "register"}

\* Every variable keeps its type, and a syncer is in the middle of a transfer only
\* with a file in hand: no error path of the loop leaves it working on nothing.
TypeOK ==
    /\ remote \in [Files -> Version]
    /\ stored \in [Files -> Content]
    /\ lost \subseteq Files
    /\ registry \in [Files -> Version]
    /\ tmp \in [TmpNames -> Content]
    /\ pc \in [Syncers -> {"idle", "folders", "files", "done"} \union Transferring]
    /\ todo \in [Syncers -> SUBSET Folders]
    /\ batch \in [Syncers -> SUBSET Entry]
    /\ job \in [Syncers -> Entry \union {NoEntry}]
    /\ data \in [Syncers -> Content]
    /\ hold \in [Syncers -> {"own", "shared", "gone"}]
    /\ errors \in [Syncers -> Nat]
    /\ listed \in [Syncers -> [Files -> Version]]
    /\ faults \in 0..MaxFaults
    /\ \A p \in Syncers : pc[p] \in Transferring => job[p] \in Entry

Init ==
    /\ remote \in [Files -> {0, 1} \intersect Version]
    /\ stored = [f \in Files |-> Absent]
    /\ lost = {}
    /\ registry = [f \in Files |-> 0]
    /\ tmp = [n \in TmpNames |-> Absent]
    /\ pc = [p \in Syncers |-> "idle"]
    /\ todo = [p \in Syncers |-> {}]
    /\ batch = [p \in Syncers |-> {}]
    /\ job = [p \in Syncers |-> NoEntry]
    /\ data = [p \in Syncers |-> Absent]
    /\ hold = [p \in Syncers |-> "own"]
    /\ errors = [p \in Syncers |-> 0]
    /\ listed = [p \in Syncers |-> [f \in Files |-> 0]]
    /\ faults = 0

-----------------------------------------------------------------------------
(* Helpers of the loop.                                                    *)

\* select_files_to_sync: the existing files of the folder, restricted to the
\* names in the checklist value when it lists any.
Selected(d) ==
    {f \in Files : /\ FolderOf[f] = d
                   /\ remote[f] # 0
                   /\ Wanted[d] = {} \/ f \in Wanted[d]}

\* s3_object_exists, when the head request is answered.
ObjectExists(f) == stored[f] # Absent /\ f \notin lost

\* Mutant of AlreadySynced: the row alone decides.
AlreadySyncedByRow(e) == registry[e.file] = e.ver

\* check_idempotency: the registry row carries the listed fingerprint, and
\* the object is there.
AlreadySynced(e) == registry[e.file] = e.ver /\ ObjectExists(e.file)

\* local_tmp_path: the environment and the folder are not in it.
TmpPath(p) == TmpNameOf[job[p].file]

\* The other syncers that are writing or uploading the file at that path.
Beside(p) ==
    {q \in Syncers \ {p} : pc[q] \in {"write", "upload"} /\ TmpPath(q) = TmpPath(p)}

\* What comes of a write or a read that takes its time: the bytes, or what is left
\* of them when another syncer has opened the file meanwhile.
Perhaps(p, bytes) == IF hold[p] = "own" THEN {bytes} ELSE {bytes, Torn}

\* Mutant of PutObject: a missing temporary file uploads as an empty object.
PutWhateverIsThere(p) ==
    /\ stored' = [stored EXCEPT ![job[p].file] = tmp[TmpPath(p)]]
    /\ lost' = lost \ {job[p].file}

\* upload_local_file_to_s3: the bytes at the temporary path become the object.
PutObject(p) ==
    /\ tmp[TmpPath(p)] # Absent
    /\ \E bytes \in Perhaps(p, tmp[TmpPath(p)]) :
            stored' = [stored EXCEPT ![job[p].file] = bytes]
    /\ lost' = lost \ {job[p].file}

\* Mutant of UpsertRow: the metadata is asked for again when the row is written.
UpsertCurrentRow(p) ==
    /\ job[p].file \notin Unstamped
    /\ registry' = [registry EXCEPT ![job[p].file] = remote[job[p].file]]

\* register_downloaded_file: one transaction, row inserted or updated with the
\* fingerprint computed from the listing.  A missing timestamp does not parse.
UpsertRow(p) ==
    /\ job[p].file \notin Unstamped
    /\ registry' = [registry EXCEPT ![job[p].file] = job[p].ver]

\* Mutants of AbandonFolder: the error is not counted; the cleared entry is retried.
AbandonSilently(p) ==
    /\ batch' = [batch EXCEPT ![p] = {}]
    /\ job' = [job EXCEPT ![p] = NoEntry]
    /\ data' = [data EXCEPT ![p] = Absent]
    /\ hold' = [hold EXCEPT ![p] = "own"]
    /\ pc' = [pc EXCEPT ![p] = "folders"]
    /\ UNCHANGED <<errors, listed>>

RetryAfterClearing(p) ==
    /\ errors' = [errors EXCEPT ![p] = @ + 1]
    /\ job' = [job EXCEPT ![p] = NoEntry]
    /\ data' = [data EXCEPT ![p] = Absent]
    /\ hold' = [hold EXCEPT ![p] = "own"]
    /\ pc' = [pc EXCEPT ![p] = "download"]
    /\ UNCHANGED <<batch, listed>>

\* The except clause of the folder loop: count the error, drop the folder.
AbandonFolder(p) ==
    /\ errors' = [errors EXCEPT ![p] = @ + 1]
    /\ batch' = [batch EXCEPT ![p] = {}]
    /\ job' = [job EXCEPT ![p] = NoEntry]
    /\ data' = [data EXCEPT ![p] = Absent]
    /\ hold' = [hold EXCEPT ![p] = "own"]
    /\ pc' = [pc EXCEPT ![p] = "folders"]
    /\ UNCHANGED listed

Fault == faults < MaxFaults /\ faults' = faults + 1

Goto(p, there) == pc' = [pc EXCEPT ![p] = there]
-----------------------------------------------------------------------------
(* The loop, call by call.                                                 *)

\* sync_active_domains is entered: metrics zeroed, all mappings to visit.
StartRun(p) ==
    /\ pc[p] \in {"idle", "done"}
    /\ Goto(p, "folders")
    /\ todo' = [todo EXCEPT ![p] = Folders]
    /\ errors' = [errors EXCEPT ![p] = 0]
    /\ listed' = [listed EXCEPT ![p] = [f \in Files |-> 0]]
    /\ UNCHANGED <<remote, stored, lost, registry, tmp, batch, job, data, hold, faults>>

\* The remote directory is listed and filtered.
ListFolder(p, d) ==
    /\ pc[p] = "folders"
    /\ d \in todo[p]
    /\ todo' = [todo EXCEPT ![p] = @ \ {d}]
    /\ batch' = [batch EXCEPT ![p] =
                    {[file |-> f, ver |-> remote[f]] : f \in Selected(d)}]
    /\ listed' = [listed EXCEPT ![p] =
                    [f \in Files |-> IF f \in Selected(d) THEN remote[f] ELSE @[f]]]
    /\ Goto(p, "files")
    /\ UNCHANGED <<remote, stored, lost, registry, tmp, job, data, hold, errors, faults>>

\* A file without a fileId, or one already synced, is skipped.
SkipFile(p, e) ==
    /\ pc[p] = "files"
    /\ e \in batch[p]
    /\ e.file \in NoFileId \/ AlreadySynced(e)
    /\ batch' = [batch EXCEPT ![p] = @ \ {e}]
    /\ UNCHANGED <<remote, stored, lost, registry, tmp,
                   pc, todo, job, data, hold, errors, listed, faults>>

\* A file that is new, has changed, or has lost its object is transferred; so
\* is one whose head request fails, since any error counts as "absent".
SelectFile(p, e) ==
    /\ pc[p] = "files"
    /\ e \in batch[p]
    /\ e.file \notin NoFileId
    /\ \/ ~AlreadySynced(e) /\ UNCHANGED faults
       \/ AlreadySynced(e) /\ Fault
    /\ job' = [job EXCEPT ![p] = e]
    /\ Goto(p, "download")
    /\ UNCHANGED <<remote, stored, lost, registry, tmp,
                   todo, batch, data, hold, errors, listed>>

\* download_fms_file asks for the file by folder and name: the bytes are those
\* of the moment, not of the listing.
Download(p) ==
    /\ pc[p] = "download"
    /\ data' = [data EXCEPT ![p] = [file |-> job[p].file,
                                    ver |-> remote[job[p].file]]]
    /\ Goto(p, "open")
    /\ UNCHANGED <<remote, stored, lost, registry, tmp,
                   todo, batch, job, hold, errors, listed, faults>>

\* Mutant of OpenTmp: a file already downloaded is not written again.
OpenTmpIfMissing(p) ==
    /\ pc[p] = "open"
    /\ IF tmp[TmpPath(p)] = Absent
       THEN tmp' = [tmp EXCEPT ![TmpPath(p)] = Torn] /\ Goto(p, "write")
       ELSE tmp' = tmp /\ Goto(p, "upload")
    /\ UNCHANGED <<remote, stored, lost, registry,
                   todo, batch, job, data, hold, errors, listed, faults>>

\* write_bytes opens the file, which creates or truncates it ...
OpenTmp(p) ==
    /\ pc[p] = "open"
    /\ tmp' = [tmp EXCEPT ![TmpPath(p)] = Torn]
    /\ hold' = [q \in Syncers |->
            IF q = p
            THEN IF \E r \in Beside(p) : pc[r] = "write" /\ hold[r] # "gone"
                 THEN "shared" ELSE "own"
            ELSE IF q \in Beside(p) /\ hold[q] # "gone" THEN "shared" ELSE hold[q]]
    /\ Goto(p, "write")
    /\ UNCHANGED <<remote, stored, lost, registry,
                   todo, batch, job, data, errors, listed, faults>>

\* ... and fills it, though not where it was deleted meanwhile: what the upload
\* then finds at the path, if anything, is another's.
WriteTmp(p) ==
    /\ pc[p] = "write"
    /\ IF hold[p] = "gone"
       THEN tmp' = tmp /\ hold' = [hold EXCEPT ![p] = "shared"]
       ELSE /\ \E bytes \in Perhaps(p, data[p]) :
                    tmp' = [tmp EXCEPT ![TmpPath(p)] = bytes]
            /\ hold' = hold
    /\ Goto(p, "upload")
    /\ UNCHANGED <<remote, stored, lost, registry,
                   todo, batch, job, data, errors, listed, faults>>

\* upload_file_to_s3
Upload(p) ==
    /\ pc[p] = "upload"
    /\ PutObject(p)
    /\ hold' = [hold EXCEPT ![p] = "own"]
    /\ Goto(p, "unlink")
    /\ UNCHANGED <<remote, registry, tmp,
                   todo, batch, job, data, errors, listed, faults>>

\* The temporary file is deleted, if it is still there.
Unlink(p) ==
    /\ pc[p] = "unlink"
    /\ tmp' = [tmp EXCEPT ![TmpPath(p)] = Absent]
    /\ hold' = [q \in Syncers |->
            IF q \in Beside(p) /\ pc[q] = "write" THEN "gone" ELSE hold[q]]
    /\ Goto(p, "register")
    /\ UNCHANGED <<remote, stored, lost, registry,
                   todo, batch, job, data, errors, listed, faults>>

\* register_downloaded_file; the loop goes on to the next file.
Register(p) ==
    /\ pc[p] = "register"
    /\ UpsertRow(p)
    /\ batch' = [batch EXCEPT ![p] = @ \ {job[p]}]
    /\ job' = [job EXCEPT ![p] = NoEntry]
    /\ data' = [data EXCEPT ![p] = Absent]
    /\ Goto(p, "files")
    /\ UNCHANGED <<remote, stored, lost, tmp, todo, hold, errors, listed, faults>>

FinishFolder(p) ==
    /\ pc[p] = "files"
    /\ batch[p] = {}
    /\ Goto(p, "folders")
    /\ UNCHANGED <<remote, stored, lost, registry, tmp,
                   todo, batch, job, data, hold, errors, listed, faults>>

\* The run ends and the job reports success, whatever metrics["errors"] is.
FinishRun(p) ==
    /\ pc[p] = "folders"
    /\ todo[p] = {}
    /\ Goto(p, "done")
    /\ UNCHANGED <<remote, stored, lost, registry, tmp,
                   todo, batch, job, data, hold, errors, listed, faults>>
-----------------------------------------------------------------------------
(* Exceptions.                                                             *)

\* Two failures need no outside fault: the temporary file has been deleted by
\* another process, before the upload or between the check and the deletion after
\* it, and the missing timestamp that never parses.
CertainError(p) ==
    /\ \/ pc[p] \in {"upload", "unlink"} /\ tmp[TmpPath(p)] = Absent
       \/ pc[p] = "register" /\ job[p].file \in Unstamped
    /\ AbandonFolder(p)
    /\ UNCHANGED <<remote, stored, lost, registry, tmp, todo, faults>>

\* The listing of a folder fails.
ListingError(p, d) ==
    /\ pc[p] = "folders"
    /\ d \in todo[p]
    /\ todo' = [todo EXCEPT ![p] = @ \ {d}]
    /\ Fault
    /\ AbandonFolder(p)
    /\ UNCHANGED <<remote, stored, lost, registry, tmp>>

\* A call made for a file fails without effect: too little disk space, no
\* database, no network, a bad archive, no S3.  None is made without a fileId.
\* A write that fails leaves the file truncated.
CallError(p) ==
    /\ \/ pc[p] = "files" /\ \E e \in batch[p] : e.file \notin NoFileId
       \/ pc[p] \in Transferring
    /\ Fault
    /\ AbandonFolder(p)
    /\ UNCHANGED <<remote, stored, lost, registry, tmp, todo>>

\* A call takes effect but its answer is lost, and it raises.
LostAnswer(p) ==
    /\ \/ pc[p] = "upload" /\ PutObject(p) /\ UNCHANGED registry
       \/ pc[p] = "register" /\ UpsertRow(p) /\ UNCHANGED <<stored, lost>>
    /\ Fault
    /\ AbandonFolder(p)
    /\ UNCHANGED <<remote, tmp, todo>>

\* The process dies; temporary files stay.
Crash(p) ==
    /\ pc[p] \notin {"idle", "done"}
    /\ Fault
    /\ pc' = [pc EXCEPT ![p] = "idle"]
    /\ todo' = [todo EXCEPT ![p] = {}]
    /\ batch' = [batch EXCEPT ![p] = {}]
    /\ job' = [job EXCEPT ![p] = NoEntry]
    /\ data' = [data EXCEPT ![p] = Absent]
    /\ hold' = [hold EXCEPT ![p] = "own"]
    /\ UNCHANGED <<remote, stored, lost, registry, tmp, errors, listed>>
-----------------------------------------------------------------------------
(* The world around it.                                                    *)

\* ENTSO-E publishes a file, or publishes it again.
Publish(f) ==
    /\ remote[f] < MaxVersion
    /\ remote' = [remote EXCEPT ![f] = @ + 1]
    /\ UNCHANGED <<stored, lost, registry, tmp, local, faults>>

\* An operator or a bucket rule deletes an object.  Nothing in the code does.
LoseObject(f) ==
    /\ ObjectExists(f)
    /\ Fault
    /\ lost' = lost \union {f}
    /\ UNCHANGED <<remote, stored, registry, tmp, local>>

\* What a syncer does by itself, errors that must happen included.
Work(p) ==
    \/ StartRun(p)
    \/ \E d \in Folders : ListFolder(p, d)
    \/ \E e \in batch[p] : SkipFile(p, e)
    \/ \E e \in batch[p] : SelectFile(p, e)
    \/ Download(p)
    \/ OpenTmp(p)
    \/ WriteTmp(p)
    \/ Upload(p)
    \/ Unlink(p)
    \/ Register(p)
    \/ FinishFolder(p)
    \/ FinishRun(p)
    \/ CertainError(p)

Trouble(p) ==
    \/ \E d \in Folders : ListingError(p, d)
    \/ CallError(p)
    \/ LostAnswer(p)
    \/ Crash(p)

Next ==
    \/ \E p \in Syncers : Work(p) \/ Trouble(p)
    \/ \E f \in Files : Publish(f) \/ LoseObject(f)

Spec == Init /\ [][Next]_vars

\* The job is started again and again, and a started job keeps running: the
\* scheduler's part.  Publications and faults need not happen.
FairSpec == Spec /\ \A p \in Syncers : WF_vars(Work(p))
-----------------------------------------------------------------------------
(* Properties.                                                             *)

Bears(bytes, n) == bytes # Absent /\ (bytes # Torn => TmpNameOf[bytes.file] = n)
Named(f) == Bears(stored[f], TmpNameOf[f])

\* Whatever overlaps: a key with a row has had an object uploaded.  Its bytes may be
\* empty, cut short or mixed, as the temporary file is written in two steps; when they
\* are those of a whole file, it is one of that name, though perhaps of another folder.
RowHasObject == \A f \in Files : registry[f] # 0 => Named(f)

\* The registry tells the truth: a key with a row has been uploaded, with its
\* own file's bytes, at least as new as the fingerprint in the row.  This is
\* what makes skipping a file on the strength of the row safe.
RegistryTellsTruth ==
    \A f \in Files : registry[f] # 0 =>
        /\ stored[f].file = f
        /\ stored[f].ver >= registry[f]

\* A run that counted no error is complete: every file it listed is registered
\* with the version it was listed with, files without a fileId apart.
CleanRunIsComplete ==
    \A p \in Syncers : pc[p] = "done" /\ errors[p] = 0 =>
        \A f \in Files \ NoFileId :
            listed[p][f] # 0 => registry[f] = listed[p][f]

Mirror == INSTANCE ReliableCopy
            WITH Items <- Files,
                 source <- remote,
                 copy <- [f \in Files |-> stored[f].ver],
                 ack <- registry

\* With one syncer at a time the stage is a reliable copier of the remote files
\* into the bucket, acknowledged in the registry: its sync loop, with every failure
\* in it, implements ReliableCopy.
MirrorsReliably == Mirror!Spec

-----------------------------------------------------------------------------
(* Why they hold: what is carried through a transfer.                      *)

\* For RowHasObject: a temporary file that is whole holds the bytes of a file of
\* its name, so does the object of a transfer past its upload.
NamesKept ==
    /\ \A n \in TmpNames : tmp[n] # Absent => Bears(tmp[n], n)
    /\ \A p \in Syncers : pc[p] \in {"open", "write"} => data[p].file = job[p].file
    /\ \A p \in Syncers : pc[p] \in {"unlink", "register"} => Named(job[p].file)
    /\ RowHasObject

Genuine(f) ==
    /\ registry[f] <= stored[f].ver /\ stored[f].ver <= remote[f]
    /\ stored[f].ver # 0 => stored[f].file = f

Listing(e) == 0 < e.ver /\ e.ver <= remote[e.file]

Carried(p) ==
    /\ data[p].file = job[p].file
    /\ job[p].ver <= data[p].ver /\ data[p].ver <= remote[job[p].file]
    /\ stored[job[p].file].ver <= data[p].ver

\* For RegistryTellsTruth and the refinement, with one syncer: the versions met
\* on the way from the listing to the registry row never decrease from listing
\* to download, and the object never loses to what is about to replace it.
VersionsFlow ==
    /\ \A f \in Files : Genuine(f)
    /\ \A p \in Syncers :
        /\ \A e \in batch[p] : Listing(e)
        /\ pc[p] \in Transferring => Listing(job[p])
        /\ pc[p] \in {"open", "write", "upload"} => Carried(p)
        /\ pc[p] \in {"write", "upload"} => hold[p] = "own"
        /\ pc[p] = "upload" => tmp[TmpPath(p)] = data[p]
        /\ pc[p] \in {"unlink", "register"} => job[p].ver <= stored[job[p].file].ver

Accounted(p, f) ==
    listed[p][f] # 0 =>
        \/ registry[f] = listed[p][f]
        \/ [file |-> f, ver |-> listed[p][f]] \in batch[p]

\* For CleanRunIsComplete, with one syncer: what a run has listed is registered
\* or still to be handled, unless an error has been counted.
RunsAccount ==
    \A p \in Syncers :
        /\ batch[p] # {} => pc[p] \in {"files"} \union Transferring
        /\ \A e \in batch[p] : e.ver = listed[p][e.file]
        /\ pc[p] \in Transferring => job[p] \in batch[p]
        /\ pc[p] # "idle" /\ errors[p] = 0 =>
                \A f \in Files \ NoFileId : Accounted(p, f)
-----------------------------------------------------------------------------
(* Convergence.                                                            *)

Healthy(d) == \A f \in Files \ NoFileId :
                FolderOf[f] = d => f \notin Unstamped

InSync(d) ==
    \A f \in Selected(d) \ NoFileId :
        /\ registry[f] = remote[f]
        /\ stored[f] = [file |-> f, ver |-> remote[f]]
        /\ f \notin lost

\* Once publications and faults cease, every folder without a poisonous file
\* comes to mirror its remote folder and stays so: retries on later runs make
\* up for every failure, and a folder that always fails blocks no other.
HealthyFoldersConverge ==
    \A d \in Folders : Healthy(d) => <>[]InSync(d)
=============================================================================
