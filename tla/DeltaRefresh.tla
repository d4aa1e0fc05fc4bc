---------------------------- MODULE DeltaRefresh ----------------------------
(***************************************************************************)
(* The catalogue of the file library and its incremental refresh:          *)
(* run_delta_metadata_refresh (fms_metadata/core/fms_metadata_delta.py)    *)
(* and the full crawl it falls back to (refresh_environment_metadata,      *)
(* filter_fresh_folders, ingest_domain_metadata), for one environment and  *)
(* the folders one run is for.                                             *)
(*                                                                         *)
(* A delta run downloads two update logs (file name, time of update), goes *)
(* through each from the newest entry backwards, and marks as dirty the    *)
(* directory of each file that is not in the catalogue at that time.  It   *)
(* stops at the third entry in a row that is.  Then it lists every dirty   *)
(* directory and upserts the files found.  Folders never crawled are       *)
(* listed in any case.  A full run lists whole folders and replaces their  *)
(* rows.  A file's name in the catalogue is its path below the directory   *)
(* that was listed, whereas the logs have its bare name.                   *)
(*                                                                         *)
(* Times are numbers, 0 meaning "not there".  The time of a file in the    *)
(* update log and its lastUpdatedTimestamp in a listing are taken to be    *)
(* the same, and no two files to be updated in the same second.            *)
(***************************************************************************)
EXTENDS Naturals, FiniteSets

CONSTANTS
    Folders,     \* active folders; some are single files in the root
    RootFiles,   \* those that are
    Paths,       \* the folders and the directories nested below them
    Under,       \* the files below a path, at any depth
    Files,
    DirOf,       \* the directory a file lies in
    LogOf,       \* the update log a file is in; None for those in neither
    FolderIn,    \* the folder a log entry is counted to: the first whose name
                 \* occurs in the file name, in the standard log
    LeafOf,      \* the directory a log entry makes dirty: that folder, or the
                 \* nested one that the parts of the file name spell
    NameIn,      \* folders whose path contains a folder's name
    Initial,     \* times of the files in the library at the start, else 0
    Start,       \* the time at the start
    Threshold,   \* entries in a row that end a scan: 3
    MaxTime,     \* bound: publications
    MaxFaults,   \* bound: failures and interruptions
    None

ASSUME RefreshConstants ==
    /\ RootFiles \subseteq Folders
    /\ Folders \subseteq Paths
    /\ Under \in [Paths -> SUBSET Files]
    /\ \A f \in Files : \E d \in Folders : f \in Under[d]
    /\ \A d, e \in Folders : \A f \in Under[d] \intersect Under[e] : d = e
    /\ DirOf \in [Files -> Paths]
    /\ FolderIn \in [Files -> Folders]
    /\ LeafOf \in [Files -> Paths]
    /\ \A f \in Files : Under[LeafOf[f]] \subseteq Under[FolderIn[f]]
    /\ NameIn \in [Folders -> SUBSET Folders]
    /\ \A d \in Folders : d \in NameIn[d]
    /\ MaxTime \in Nat
    /\ Start \in 0..MaxTime
    /\ Initial \in [Files -> 0..Start]
    /\ Threshold \in Nat \ {0}
    /\ MaxFaults \in Nat
    /\ None \notin Paths

VARIABLES
    published,  \* the library: time of each file's latest update
    clock,      \* time of the latest update of all
    seen,       \* the update logs as downloaded by the run; in a full run,
                \* history: the library as it was at the start
    db,         \* fms_files: last_updated of each file
    bare,       \* fms_files: the files whose name there is the bare one
    crawled,    \* fms_folders.crawled_at; "absent" without a row
    pc,         \* the call the run is about to make
    dirty,      \* directories still to be listed, each with its folder
    todo,       \* full run: folders still to be listed
    rootMap,    \* full run: was the root directory listed?
    parent,     \* the folder in hand
    at,         \* the directory whose listing is in hand
    listing,    \* times of the files in it
    ok,         \* all_leaves_succeeded
    owed,       \* history: folders found dirty and not completed since
    disturbed,  \* history: has a call failed, or has anything been published
                \* while a run was under way, since the last forced run began?
    faults

run == <<dirty, todo, rootMap, parent, at, listing, ok>>
catalogue == <<db, bare, crawled>>
world == <<published, clock>>
vars == <<world, seen, catalogue, pc, run, owed, disturbed, faults>>

Time == 0..MaxTime
Dirty == [folder : Folders, path : Paths]
Nowhere == [f \in Files |-> 0]
Never == {"absent", "null"}

\* Every variable keeps its type, and a folder is in hand exactly while one is
\* being listed or saved: no error path loses it or keeps it.
TypeOK ==
    /\ published \in [Files -> Time]
    /\ clock \in Time
    /\ seen \in [Files -> Time]
    /\ db \in [Files -> Time]
    /\ bare \subseteq Files
    /\ crawled \in [Folders -> Never \union {"fresh", "old"}]
    /\ pc \in {"idle", "scan", "folders", "leaves", "upsert",
               "filter", "roots", "full", "save"}
    /\ dirty \subseteq Dirty
    /\ todo \subseteq Folders
    /\ rootMap \in BOOLEAN
    /\ parent \in Folders \union {None}
    /\ parent = None <=> pc \notin {"leaves", "upsert", "save"}
    /\ at \in Paths \union {None}
    /\ at = None <=> pc \notin {"upsert", "save"}
    /\ listing \in [Files -> Time]
    /\ ok \in BOOLEAN
    /\ owed \subseteq Folders
    /\ disturbed \in BOOLEAN
    /\ faults \in 0..MaxFaults

Init ==
    /\ published = Initial
    /\ clock = Start
    /\ seen = Nowhere
    /\ db = Nowhere
    /\ bare = {}
    /\ crawled = [d \in Folders |-> "absent"]
    /\ pc = "idle"
    /\ dirty = {}
    /\ todo = {}
    /\ rootMap = FALSE
    /\ parent = None
    /\ at = None
    /\ listing = Nowhere
    /\ ok = TRUE
    /\ owed = {}
    /\ disturbed = FALSE
    /\ faults = 0

-----------------------------------------------------------------------------
(* Scanning the update logs.                                               *)

Entries(log) == {f \in Files : LogOf[f] = log /\ seen[f] # 0}

\* The catalogue has the name in the log, at the time in the log or a later one.
Known(f) == f \in bare /\ seen[f] <= db[f]

\* The entries of a log from g back to h.
Stretch(g, h) ==
    {f \in Entries(LogOf[g]) : seen[h] <= seen[f] /\ seen[f] <= seen[g]}

\* Mutant of StoppedBefore: the log is read from its oldest entry.
StoppedAfter(f) ==
    \E g, h \in Entries(LogOf[f]) :
        /\ seen[f] > seen[g]
        /\ \A e \in Stretch(g, h) : Known(e)
        /\ Cardinality(Stretch(g, h)) >= Threshold

\* The scan ends before the entry of f: Threshold newer ones in a row are known.
StoppedBefore(f) ==
    \E g, h \in Entries(LogOf[f]) :
        /\ seen[f] < seen[h]
        /\ \A e \in Stretch(g, h) : Known(e)
        /\ Cardinality(Stretch(g, h)) >= Threshold

Changed == {f \in Files : /\ LogOf[f] # None /\ seen[f] # 0
                          /\ ~Known(f) /\ ~StoppedBefore(f)}

\* Mutant of Uncrawled: a row in fms_folders is enough.
Unknown == {d \in Folders : crawled[d] = "absent"}

Uncrawled == {d \in Folders : crawled[d] \in Never}

\* The directories a scan finds dirty.
Found ==
    {[folder |-> d, path |-> d] : d \in Uncrawled}
        \union {[folder |-> FolderIn[f], path |-> LeafOf[f]] : f \in Changed}

-----------------------------------------------------------------------------
(* Listing and saving.                                                     *)

\* crawl_metadata_folder: all files below the path.  A root file is looked up in
\* the listing of the root, which a delta run does not have.
Contents(path, haveRoot) ==
    IF path \in RootFiles /\ ~haveRoot THEN {} ELSE Under[path]

List(path, haveRoot) ==
    /\ at' = path
    /\ listing' = [f \in Files |-> IF f \in Contents(path, haveRoot) THEN published[f] ELSE 0]

\* INSERT ... ON CONFLICT DO UPDATE; files that have disappeared keep their rows.
UpsertListing ==
    /\ db' = [f \in Files |-> IF listing[f] # 0 THEN listing[f] ELSE db[f]]
    /\ bare' = {f \in Files : IF listing[f] # 0 THEN DirOf[f] = at ELSE f \in bare}

\* save_crawled_folder_metadata: the rows of the folder are replaced.
ReplaceListing ==
    /\ db' = [f \in Files |-> IF f \in Under[parent] THEN listing[f] ELSE db[f]]
    /\ bare' = {f \in Files : IF f \in Under[parent] THEN listing[f] # 0 /\ DirOf[f] = at
                                               ELSE f \in bare}

\* The folder's row is written with crawled_at = now.
MarkCrawled ==
    /\ crawled' = [crawled EXCEPT ![parent] = "fresh"]
    /\ owed' = owed \ {parent}

Fault ==
    /\ faults < MaxFaults
    /\ faults' = faults + 1
    /\ disturbed' = TRUE

Goto(there) == pc' = there

DropListing ==
    /\ at' = None
    /\ listing' = Nowhere

LeaveFolder(there) ==
    /\ Goto(there)
    /\ parent' = None
    /\ DropListing
    /\ ok' = TRUE

DropRun ==
    /\ LeaveFolder("idle")
    /\ dirty' = {}
    /\ todo' = {}
    /\ rootMap' = FALSE
-----------------------------------------------------------------------------
(* The delta run.                                                          *)

\* A client is made and both logs are downloaded.
StartDelta ==
    /\ pc = "idle"
    /\ Folders # {}
    /\ seen' = published
    /\ Goto("scan")
    /\ UNCHANGED <<world, catalogue, run, owed, disturbed, faults>>

\* The catalogue is read and the logs are scanned.  Nothing dirty: the run ends.
Scan ==
    /\ pc = "scan"
    /\ dirty' = Found
    /\ owed' = owed \union {e.folder : e \in Found}
    /\ Goto(IF Found = {} THEN "idle" ELSE "folders")
    /\ UNCHANGED <<world, seen, catalogue,
                   todo, rootMap, parent, at, listing, ok, disturbed, faults>>

\* The folder gets a row if it has none, with crawled_at left empty.
BeginFolder(d) ==
    /\ pc = "folders"
    /\ \E e \in dirty : e.folder = d
    /\ crawled' = [crawled EXCEPT ![d] = IF @ = "absent" THEN "null" ELSE @]
    /\ parent' = d
    /\ ok' = TRUE
    /\ Goto("leaves")
    /\ UNCHANGED <<world, seen, db, bare,
                   dirty, todo, rootMap, at, listing, owed, disturbed, faults>>

CrawlLeaf(path) ==
    /\ pc = "leaves"
    /\ [folder |-> parent, path |-> path] \in dirty
    /\ dirty' = dirty \ {[folder |-> parent, path |-> path]}
    /\ List(path, FALSE)
    /\ Goto("upsert")
    /\ UNCHANGED <<world, seen, catalogue,
                   todo, rootMap, parent, ok, owed, disturbed, faults>>

UpsertLeaf ==
    /\ pc = "upsert"
    /\ UpsertListing
    /\ DropListing
    /\ Goto("leaves")
    /\ UNCHANGED <<world, seen, crawled,
                   dirty, todo, rootMap, parent, ok, owed, disturbed, faults>>

\* Mutants of FinishFolder: crawled_at is written whatever has happened; the next
\* folder is begun without leaving this one.
FinishFolderAnyway ==
    /\ pc = "leaves"
    /\ \A e \in dirty : e.folder # parent
    /\ MarkCrawled
    /\ LeaveFolder("folders")
    /\ UNCHANGED <<world, seen, db, bare, dirty, todo, rootMap, disturbed, faults>>

FinishFolderOnly ==
    /\ pc = "leaves"
    /\ \A e \in dirty : e.folder # parent
    /\ IF ok THEN MarkCrawled ELSE UNCHANGED <<crawled, owed>>
    /\ Goto("folders")
    /\ UNCHANGED <<world, seen, db, bare, run, disturbed, faults>>

\* The checkpoint of a folder: crawled_at is written if every leaf has succeeded,
\* and left as it was otherwise.
FinishFolder ==
    /\ pc = "leaves"
    /\ \A e \in dirty : e.folder # parent
    /\ IF ok THEN MarkCrawled ELSE UNCHANGED <<crawled, owed>>
    /\ LeaveFolder("folders")
    /\ UNCHANGED <<world, seen, db, bare, dirty, todo, rootMap, disturbed, faults>>

FinishDelta ==
    /\ pc = "folders"
    /\ dirty = {}
    /\ DropRun
    /\ UNCHANGED <<world, seen, catalogue, owed, disturbed, faults>>
-----------------------------------------------------------------------------
(* The full run.                                                           *)

\* --force or --full-scan: every folder is listed.
StartForced ==
    /\ pc = "idle"
    /\ Folders # {}
    /\ seen' = published
    /\ todo' = Folders
    /\ disturbed' = FALSE
    /\ Goto("roots")
    /\ UNCHANGED <<world, catalogue,
                   dirty, rootMap, parent, at, listing, ok, owed, faults>>

\* The logs cannot be had: a full run, of the folders not crawled recently.
FallBack ==
    /\ pc = "idle"
    /\ Folders # {}
    /\ Fault
    /\ Goto("filter")
    /\ UNCHANGED <<world, seen, catalogue, run, owed>>

\* filter_fresh_folders reads some row whose path contains the folder's name.
Rows(d) == {r \in NameIn[d] : crawled[r] # "absent"}

FilterFresh ==
    /\ pc = "filter"
    /\ \E skipped \in SUBSET Folders :
        /\ \A d \in skipped : \E r \in Rows(d) : crawled[r] = "fresh"
        /\ \A d \in Folders \ skipped : Rows(d) = {} \/ \E r \in Rows(d) : crawled[r] # "fresh"
        /\ todo' = Folders \ skipped
        /\ Goto(IF skipped = Folders THEN "idle" ELSE "roots")
    /\ UNCHANGED <<world, seen, catalogue,
                   dirty, rootMap, parent, at, listing, ok, owed, disturbed, faults>>

\* fetch_root_files_mapping
FetchRoots ==
    /\ pc = "roots"
    /\ rootMap' = TRUE
    /\ Goto("full")
    /\ UNCHANGED <<world, seen, catalogue,
                   dirty, todo, parent, at, listing, ok, owed, disturbed, faults>>

ListFolder(d) ==
    /\ pc = "full"
    /\ d \in todo
    /\ todo' = todo \ {d}
    /\ parent' = d
    /\ List(d, rootMap)
    /\ Goto("save")
    /\ UNCHANGED <<world, seen, catalogue,
                   dirty, rootMap, ok, owed, disturbed, faults>>

SaveFolder ==
    /\ pc = "save"
    /\ ReplaceListing
    /\ MarkCrawled
    /\ LeaveFolder("full")
    /\ UNCHANGED <<world, seen, dirty, todo, rootMap, disturbed, faults>>

FinishFull ==
    /\ pc = "full"
    /\ todo = {}
    /\ DropRun
    /\ UNCHANGED <<world, seen, catalogue, owed, disturbed, faults>>
-----------------------------------------------------------------------------
(* Failures.                                                               *)

\* The folder's row cannot be read or written: the folder is skipped.
BeginFolderFails(d) ==
    /\ pc = "folders"
    /\ \E e \in dirty : e.folder = d
    /\ Fault
    /\ dirty' = {e \in dirty : e.folder # d}
    /\ UNCHANGED <<world, seen, catalogue, pc,
                   todo, rootMap, parent, at, listing, ok, owed>>

\* A directory cannot be listed: it is skipped.
CrawlLeafFails(path) ==
    /\ pc = "leaves"
    /\ [folder |-> parent, path |-> path] \in dirty
    /\ Fault
    /\ dirty' = dirty \ {[folder |-> parent, path |-> path]}
    /\ ok' = FALSE
    /\ UNCHANGED <<world, seen, catalogue, pc,
                   todo, rootMap, parent, at, listing, owed>>

\* Its files cannot be written, or the answer is lost.
UpsertLeafFails ==
    /\ pc = "upsert"
    /\ Fault
    /\ UpsertListing \/ UNCHANGED <<db, bare>>
    /\ DropListing
    /\ ok' = FALSE
    /\ Goto("leaves")
    /\ UNCHANGED <<world, seen, crawled, dirty, todo, rootMap, parent, owed>>

\* The checkpoint cannot be written, or its answer is lost.
FinishFolderFails ==
    /\ pc = "leaves"
    /\ \A e \in dirty : e.folder # parent
    /\ Fault
    /\ UNCHANGED <<crawled, owed>> \/ (ok /\ MarkCrawled)
    /\ LeaveFolder("folders")
    /\ UNCHANGED <<world, seen, db, bare, dirty, todo, rootMap>>

\* A failure to list the root is logged, and the run goes on with an empty mapping.
FetchRootsFails ==
    /\ pc = "roots"
    /\ Fault
    /\ Goto("full")
    /\ UNCHANGED <<world, seen, catalogue, run, owed>>

\* Mutant of ListFolderFails: a failed listing is saved as an empty one.
ListFolderEmpty(d) ==
    /\ pc = "full"
    /\ d \in todo
    /\ Fault
    /\ todo' = todo \ {d}
    /\ parent' = d
    /\ at' = d
    /\ Goto("save")
    /\ UNCHANGED <<world, seen, catalogue, dirty, rootMap, listing, ok, owed>>

\* A folder cannot be listed in a full run: it is left as it is.
ListFolderFails(d) ==
    /\ pc = "full"
    /\ d \in todo
    /\ Fault
    /\ todo' = todo \ {d}
    /\ UNCHANGED <<world, seen, catalogue, pc,
                   dirty, rootMap, parent, at, listing, ok, owed>>

\* Ctrl+C, the death of the process, or an exception nobody catches: no database
\* when the catalogue is read, no client, a folder that cannot be saved.
Interrupt ==
    /\ pc # "idle"
    /\ Fault
    /\ DropRun
    /\ UNCHANGED <<world, seen, catalogue, owed>>
-----------------------------------------------------------------------------
(* The world around it.                                                    *)

\* A file is published or updated.
Publish(f) ==
    /\ clock < MaxTime
    /\ clock' = clock + 1
    /\ published' = [published EXCEPT ![f] = clock + 1]
    /\ disturbed' = (disturbed \/ pc # "idle")
    /\ UNCHANGED <<seen, catalogue, pc, run, owed, faults>>

\* freshness.max_age_days have gone by since the folder was crawled.
GrowOld(d) ==
    /\ crawled[d] = "fresh"
    /\ crawled' = [crawled EXCEPT ![d] = "old"]
    /\ UNCHANGED <<world, seen, db, bare, pc, run, owed, disturbed, faults>>

Work ==
    \/ StartDelta
    \/ Scan
    \/ \E d \in Folders : BeginFolder(d)
    \/ \E path \in Paths : CrawlLeaf(path)
    \/ UpsertLeaf
    \/ FinishFolder
    \/ FinishDelta
    \/ FilterFresh
    \/ FetchRoots
    \/ \E d \in Folders : ListFolder(d)
    \/ SaveFolder
    \/ FinishFull

Trouble ==
    \/ FallBack
    \/ \E d \in Folders : BeginFolderFails(d)
    \/ \E path \in Paths : CrawlLeafFails(path)
    \/ UpsertLeafFails
    \/ FinishFolderFails
    \/ FetchRootsFails
    \/ \E d \in Folders : ListFolderFails(d)
    \/ Interrupt

Next ==
    \/ Work
    \/ Trouble
    \/ StartForced
    \/ \E f \in Files : Publish(f)
    \/ \E d \in Folders : GrowOld(d)

Spec == Init /\ [][Next]_vars

\* The job is scheduled again and again and a started one keeps running; nobody
\* need ever force a full run.
FairSpec == Spec /\ WF_vars(Work)
-----------------------------------------------------------------------------
(* Properties.                                                             *)

\* The files that the update logs lead to: those whose log entry makes dirty a
\* directory that they are listed in.
Tracked == {f \in Files : LogOf[f] # None /\ f \in Contents(LeafOf[f], FALSE)}

\* Stopping the scan early is sound as long as nothing interferes: when no call has
\* failed and nothing was published during a run, each finished run leaves the
\* catalogue equal to the library as it was when the run began.  A forced run makes
\* up for whatever has interfered before.
QuietRunsComplete ==
    pc = "idle" /\ ~disturbed =>
        \A f \in Tracked : seen[f] # 0 => db[f] = seen[f]

\* A folder with a crawled_at has been listed as a whole: the catalogue has every
\* file that was there all the time, whatever failed on the way.
CrawledMeansListed ==
    \A d \in Folders \ RootFiles : crawled[d] \notin Never =>
        \A f \in Under[d] : Initial[f] # 0 => db[f] # 0

\* No refresh takes a file back to an older time or out of the catalogue: a failed
\* listing is never taken for an empty one, except for files in the root.
CatalogueMovesForward ==
    [][\A d \in Folders \ RootFiles : \A f \in Under[d] : db[f] <= db'[f]]_db

\* Every active folder is crawled in the end, although runs are interrupted and
\* checkpoints fail: a folder without crawled_at is dirty in every run.
EveryFolderCrawled == \A d \in Folders : <>(crawled[d] \notin Never)

-----------------------------------------------------------------------------
(* Why they hold.                                                          *)

\* Times never run ahead of the library, and what is about to be written is no
\* older than what it replaces.
TimesAreReal ==
    /\ \A f \in Files :
        /\ Initial[f] <= published[f] /\ published[f] <= clock
        /\ seen[f] <= published[f]
        /\ db[f] <= published[f]
        /\ listing[f] <= published[f]
    /\ pc = "upsert" => \A f \in Files : listing[f] # 0 => db[f] <= listing[f]
    /\ pc = "save" /\ parent \notin RootFiles =>
        \A f \in Under[parent] : db[f] <= listing[f] /\ Initial[f] <= listing[f]

\* For CrawledMeansListed: in the folder in hand, unless a directory of it has
\* failed, the folder as a whole is still to be listed or has been listed.
Lists(times, d) == \A f \in Under[d] : Initial[f] # 0 => times[f] # 0

WholeFoldersListed ==
    /\ CrawledMeansListed
    /\ pc \in {"folders", "leaves", "upsert"} =>
        \A e \in dirty : e.folder \in Uncrawled \ {parent} =>
            [folder |-> e.folder, path |-> e.folder] \in dirty
    /\ pc \in {"leaves", "upsert"} /\ ok /\ parent \in Uncrawled \ RootFiles =>
        \/ [folder |-> parent, path |-> parent] \in dirty
        \/ Lists(db, parent)
        \/ pc = "upsert" /\ Lists(listing, parent)

\* For QuietRunsComplete: between runs, whatever the catalogue is behind on is newer
\* than all it is up to date on, so that a scan meets it first.
Behindhand(f) == db[f] # published[f]
UpToDate(f) == db[f] # 0 /\ db[f] = published[f]

NewestFirst ==
    \A f \in Tracked, g \in Files :
        Behindhand(f) /\ UpToDate(g) => published[g] < published[f]

\* During a run it is still to be listed, or its listing is in hand.
StillToCome(f) ==
    \/ [folder |-> FolderIn[f], path |-> LeafOf[f]] \in dirty
    \/ pc = "upsert" /\ listing[f] = seen[f]

StillToReplace(f) ==
    \/ \E d \in todo : f \in Under[d]
    \/ pc = "save" /\ f \in Under[parent]

NothingMissed ==
    ~disturbed =>
        /\ pc \in {"idle", "scan"} => NewestFirst
        /\ QuietRunsComplete
        /\ pc # "idle" => seen = published /\ pc # "filter"
        /\ pc \in {"folders", "leaves", "upsert"} =>
            \A f \in Tracked : db[f] = seen[f] \/ StillToCome(f)
        /\ pc \in {"roots", "full", "save"} =>
            \A f \in Tracked : db[f] = seen[f] \/ StillToReplace(f)
        /\ pc \in {"full", "save"} => rootMap
        /\ pc = "save" => \A f \in Under[parent] : listing[f] = seen[f]

-----------------------------------------------------------------------------
(* A statement of the code's comments that the code does not keep.         *)

\* "Incomplete folders will resume on the next run": a folder that a run has found
\* dirty, and that no run has completed since, is found dirty again by every scan
\* while a file of it is older in the catalogue than in the log.
Behind(d) == \E f \in Tracked : FolderIn[f] = d /\ db[f] < seen[f]

IncompleteFoldersResume ==
    [][Scan =>
        \A d \in owed : Behind(d) => \E e \in dirty' : e.folder = d]_vars
=============================================================================
