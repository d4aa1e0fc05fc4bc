----------------------------- MODULE Preparation -----------------------------
(***************************************************************************)
(* From the file library to what a landing run loads: the survey of both   *)
(* platforms (refresh_fms_metadata, phase prepare: ftp_map_collector.py),  *)
(* the full crawl (phase crawl with --full-scan, or when the export logs   *)
(* cannot be read: refresh_environment_metadata; fms_metadata_ingest.py),  *)
(* the preparation job (jobs/landing/prepare_landing_ingestion.py) and the *)
(* selection a landing run makes (preflight/landing.py, io/sync.py).       *)
(*                                                                         *)
(* The jobs are processes of their own.  They share files (overview.yml,   *)
(* the drift reports, the checklist) and two tables (fms_folders, from     *)
(* which the preparation compiles landing_folders_schema).  A preparation  *)
(* and a full crawl use the same crawlers and may overlap.  The files of a *)
(* folder are left out: what happens to those of a selected folder is      *)
(* LandingSync's, incremental crawls are DeltaRefresh's.                   *)
(***************************************************************************)
EXTENDS Catalogue

CONSTANTS
    EnvOrder,     \* the environments, in the order of the checklist
    GroupOrder,   \* the domains, in domain_order, then R3, R2, R1
    Rules,        \* configurations of the classifier
    Templates,    \* contents of checklist templates
    Names,        \* config_names
    NoName,       \* config_name is not set
    Missing,      \* a file that does not exist or is empty
    Scans,        \* full crawls that may be asked for
    Cuts,         \* bound: where a half-written overview may be read
    Prepare, Scan,                          \* the two processes that crawl
    FirstLibrary, FirstRules, FirstFiles,   \* the deployment's initial state
    MaxFaults,    \* bound: failures of the library, the network or a process
    MaxChanges    \* bound: changes by people, by the library and by age

Crawlers == {Prepare, Scan}

\* overview.yml in the order it is written: of each environment the folders of
\* TP_export, then those of TP_Legacy_Publications.
Sections == [i \in 1..(2 * Len(EnvOrder)) |->
                [env |-> EnvOrder[((i - 1) \div 2) + 1],
                 root |-> IF i % 2 = 1 THEN Exports ELSE Legacy]]

Files == {"default", "popular"} \union Names
Rounds == [i \in 1..(Len(EnvOrder) * Len(GroupOrder)) |->
              [env |-> EnvOrder[((i - 1) \div Len(GroupOrder)) + 1],
               group |-> GroupOrder[((i - 1) % Len(GroupOrder)) + 1]]]

ASSUME PreparationConstants ==
    /\ EnvOrder \in Seq(Envs) /\ GroupOrder \in Seq(Domains \union Archives)
    /\ \A e \in Envs : \E i \in DOMAIN EnvOrder : EnvOrder[i] = e
    /\ \A g \in Domains \union Archives : \E i \in DOMAIN GroupOrder : GroupOrder[i] = g
    /\ \A i, j \in DOMAIN EnvOrder : EnvOrder[i] = EnvOrder[j] => i = j
    /\ \A i, j \in DOMAIN GroupOrder : GroupOrder[i] = R3 /\ GroupOrder[j] \in Archives => i <= j
    /\ Prepare # Scan
    /\ Rules \subseteq Seq(Publication) /\ FirstRules \in Rules
    /\ FirstLibrary \in [Envs -> SUBSET Folders]
    /\ Templates \subseteq Template
    /\ FirstFiles \in [Files -> Templates \union {Missing}]
    /\ Scans \subseteq [env : Envs, scope : SUBSET (Domains \union Archives), force : BOOLEAN]
    /\ Cuts \subseteq [sections : 0..Len(Sections), some : SUBSET Folders]
    /\ NoName \notin Names /\ Missing \notin Templates
    /\ MaxFaults \in Nat /\ MaxChanges \in Nat

VARIABLES
    library,      \* the items of both roots, per environment
    rules,        \* entsoe_domains_classifier.yml
    files,        \* the templates on disk
    mode,         \* active_mode and config_name
    overview,     \* the folders overview.yml names, or Missing when it tells nothing
    begun,        \* how many of its Sections overview.yml has, the last perhaps in part
    reports,      \* undocumented_folders.yml and unseen_publications.yml
    checklist,    \* my_entsoe_domains.yml, or Missing
    rows,         \* fms_folders: one row for a folder of an environment
    fresh,        \* the folders whose row has a recent crawled_at
    schema,       \* landing_folders_schema
    sizes,        \* the folders of the sizes reports
    dirs,         \* directories of the landing bucket
    survey,       \* the survey of the platforms
    crawl,        \* the preparation and the full crawl
    landing,      \* a landing run
    ready,        \* history: the checklist the schema was compiled for, and what
                  \* of it could not be crawled
    faults, changes   \* counted to bound them

inputs == <<library, rules, files, mode>>
tables == <<rows, fresh, schema>>
reported == <<overview, begun, reports, survey>>
bounds == <<faults, changes>>
vars == <<inputs, reported, checklist, tables, sizes, dirs, crawl, landing, ready, bounds>>

Key(e, f) == [env |-> e, folder |-> f]
Keys == [env : Envs, folder : Folders]
KeyOf(x) == Key(x.env, x.folder)
NoKey == Key(Missing, Missing)
Scanned(e) == {k.folder : k \in {KeyOf(r) : r \in {s \in rows : s.env = e}}}
Recent(e) == {k.folder : k \in {j \in fresh : j.env = e}}

Unset == [e \in Envs |-> {}]
NoSurvey == [pc |-> "off", rules |-> FirstRules, found |-> <<>>]
Idle == [pc |-> "off", list |-> Missing, plan |-> Unset, env |-> Missing, scope |-> {},
         force |-> FALSE, steady |-> TRUE, round |-> 0, todo |-> {}, hand |-> NoKey, skipped |-> {},
         snapshot |-> {}]
NoLanding == [pc |-> "off", list |-> Missing, schema |-> {}, envs |-> {}, env |-> Missing,
              todo |-> {}, landed |-> {}, steady |-> FALSE, owed |-> {}]

\* Every variable keeps its type, and fms_folders holds one row for a folder.
TypeOK ==
    /\ library \in [Envs -> SUBSET Folders] /\ rules \in Rules
    /\ files \in [Files -> Templates \union {Missing}]
    /\ mode \in [active : {"Default", "Custom", "Other"}, name : Names \union {NoName}]
    /\ overview = Missing \/ overview \in Overview
    /\ begun \in 0..Len(Sections)
    /\ reports.undocumented \subseteq Exports
    /\ checklist = Missing \/ checklist \in Checklist
    /\ rows \subseteq Path /\ \A r, s \in rows : KeyOf(r) = KeyOf(s) => r = s
    /\ fresh \subseteq {KeyOf(r) : r \in rows}
    /\ schema \subseteq Path /\ dirs \subseteq Path /\ sizes \subseteq Keys
    /\ survey.pc \in {"off", "listing", "saving", "report"}
    /\ \A p \in Crawlers :
        /\ crawl[p].pc \in {"off", "plan", "crawl", "insert", "schema", "write", "sizes"}
        /\ crawl[p].round \in 0..Len(Rounds) /\ crawl[p].todo \subseteq Folders
        /\ crawl[p].skipped \subseteq Keys
    /\ landing.pc \in {"off", "envs", "sync", "done"}
    /\ landing.landed \subseteq [path : Path, from : Envs]
    /\ ready.missed \subseteq Keys
    /\ faults \in 0..MaxFaults /\ changes \in 0..MaxChanges

Init ==
    /\ library = FirstLibrary /\ rules = FirstRules /\ files = FirstFiles
    /\ mode = [active |-> "Default", name |-> NoName]
    /\ overview = Missing /\ begun = 0 /\ checklist = Missing
    /\ reports = [undocumented |-> {}, unseen |-> {}]
    /\ rows = {} /\ fresh = {} /\ schema = {} /\ sizes = {} /\ dirs = {}
    /\ survey = NoSurvey
    /\ crawl = [p \in Crawlers |-> Idle]
    /\ landing = NoLanding
    /\ ready = [list |-> Missing, missed |-> {}]
    /\ faults = 0 /\ changes = 0

-----------------------------------------------------------------------------
(* The world: what people, the library and time change.                     *)

Change ==
    /\ changes < MaxChanges /\ changes' = changes + 1
    /\ UNCHANGED <<reported, checklist, rows, schema, sizes, dirs, crawl, landing, ready, faults>>

\* An item is published in a root of the library, or withdrawn.
Publish ==
    /\ Change
    /\ \E e \in Envs, f \in Folders :
        library' = [library EXCEPT ![e] = IF f \in @ THEN @ \ {f} ELSE @ \union {f}]
    /\ UNCHANGED <<rules, files, mode, fresh>>

\* The classifier is edited.
Reclassify ==
    /\ Change
    /\ rules' \in Rules \ {rules}
    /\ UNCHANGED <<library, files, mode, fresh>>

\* A checklist template is written or removed, or another one is chosen.
Configure ==
    /\ Change
    /\ \/ /\ \E n \in Files, t \in Templates \union {Missing} :
                t # files[n] /\ files' = [files EXCEPT ![n] = t]
          /\ mode' = mode
       \/ /\ mode' \in [active : {"Default", "Custom", "Other"},
                        name : Names \union {NoName}] \ {mode}
          /\ files' = files
    /\ UNCHANGED <<library, rules, fresh>>

\* The rows of an environment are no longer recent.
Age ==
    /\ Change
    /\ \E e \in Envs : Recent(e) # {} /\ fresh' = {k \in fresh : k.env # e}
    /\ UNCHANGED inputs

-----------------------------------------------------------------------------
(* The survey: both platforms are listed and classified, then the overview  *)
(* is written, then the reports.  Whatever fails ends the job where it is,  *)
(* and leaves the file as it is.                                            *)

fetch_environment_metadata ==
    /\ survey.pc \in {"off", "listing"} /\ Len(survey.found) < Len(EnvOrder)
    /\ LET e == EnvOrder[Len(survey.found) + 1]
           cached == IF survey.pc = "off" THEN rules ELSE survey.rules
       IN  survey' = [pc |-> "listing", rules |-> cached,
                      found |-> Append(survey.found, Grouped(cached, library[e]))]
    /\ UNCHANGED <<inputs, overview, begun, reports, checklist, tables, sizes, dirs, crawl,
                   landing, ready, bounds>>

Surveyed == [e \in Envs |-> survey.found[CHOOSE i \in DOMAIN EnvOrder : EnvOrder[i] = e]]

\* What the first sections name, up to the cut in the last of them.
Streamed(cut) ==
    [e \in Envs |-> [f \in Folders |->
        IF \E i \in 1..cut.sections : /\ Sections[i].env = e /\ f \in Sections[i].root
                                      /\ i = cut.sections => f \in cut.some
        THEN Surveyed[e][f] ELSE NoGroup]]

\* A full crawl that is running no longer reads one and the same overview.
UnsteadyScan == crawl' = [crawl EXCEPT ![Scan].steady = (crawl[Scan].pc = "off")]

\* overview.yml is opened, which empties it ...
OpenOverview ==
    /\ survey.pc = "listing" /\ Len(survey.found) = Len(EnvOrder)
    /\ overview' = Missing /\ begun' = 0
    /\ survey' = [survey EXCEPT !.pc = "saving"]
    /\ UnsteadyScan
    /\ UNCHANGED <<inputs, reports, checklist, tables, sizes, dirs, landing, ready, bounds>>

\* ... and streamed, section by section; whoever reads it meanwhile finds those
\* begun so far, the last of them perhaps in part.
StreamOverview ==
    /\ survey.pc = "saving"
    /\ \E cut \in Cuts :
        /\ overview' = Streamed(cut) /\ begun' = cut.sections
        /\ overview # Missing =>
            begun <= cut.sections /\ \A e \in Envs : Listed(overview, e) \subseteq Listed(overview', e)
    /\ UnsteadyScan
    /\ UNCHANGED <<inputs, reports, survey, checklist, tables, sizes, dirs, landing, ready,
                   bounds>>

\* It is whole when it is closed.
SaveOverview ==
    /\ survey.pc = "saving"
    /\ overview' = Surveyed /\ begun' = Len(Sections)
    /\ survey' = [survey EXCEPT !.pc = "report"]
    /\ UnsteadyScan
    /\ UNCHANGED <<inputs, reports, checklist, tables, sizes, dirs, landing, ready, bounds>>

SaveReports ==
    /\ survey.pc = "report"
    /\ reports' = [undocumented |-> Undocumented(survey.rules, Surveyed),
                   unseen |-> Unseen(survey.rules, FitsFirst(survey.rules, Surveyed))]
    /\ survey' = NoSurvey
    /\ UNCHANGED <<inputs, overview, begun, checklist, tables, sizes, dirs, crawl, landing,
                   ready, bounds>>

SurveyFails ==
    /\ survey.pc # "off" /\ faults < MaxFaults
    /\ survey' = NoSurvey /\ faults' = faults + 1
    /\ UNCHANGED <<inputs, overview, begun, reports, checklist, tables, sizes, dirs, crawl,
                   landing, ready, changes>>

\* The tools that write one report anew, from the saved overview and the
\* classifier as it now is.
RewriteReport ==
    /\ overview # Missing
    /\ changes < MaxChanges /\ changes' = changes + 1
    /\ \/ reports' = [reports EXCEPT !.undocumented = Undocumented(rules, overview)]
       \/ reports' = [reports EXCEPT !.unseen = Unseen(rules, FitsInDomains(rules, overview))]
    /\ UNCHANGED <<inputs, overview, begun, survey, checklist, tables, sizes, dirs, crawl,
                   landing, ready, faults>>

Survey ==
    fetch_environment_metadata \/ OpenOverview \/ StreamOverview \/ SaveOverview \/ SaveReports

-----------------------------------------------------------------------------
(* The checklist: the template of the active mode, expanded with the        *)
(* overview unless it lists the environments itself.                        *)

\* The file that the active mode names, Custom and Example alike; Default falls
\* back to the popular domains when its own file is missing or empty.
TemplateFile ==
    CASE mode.active = "Default" ->
            IF files["default"] = Missing THEN files["popular"] ELSE files["default"]
      [] mode.active = "Custom" /\ mode.name # NoName -> files[mode.name]
      [] OTHER -> Missing

Compilable ==
    LET t == TemplateFile
    IN  /\ t # Missing
        /\ t.kind # "unknown"
        /\ t.kind = "environments" \/ overview # Missing

generate_my_entsoe_domains ==
    /\ Compilable
    /\ checklist' = build_domains_checklist(TemplateFile, overview)

\* The command of its own, which compiles the checklist and nothing else.
Regenerate ==
    /\ generate_my_entsoe_domains /\ checklist' # checklist
    /\ changes < MaxChanges /\ changes' = changes + 1
    /\ UNCHANGED <<inputs, reported, tables, sizes, dirs, crawl, landing, ready, faults>>

StartPrepare ==
    /\ crawl[Prepare].pc = "off"
    /\ generate_my_entsoe_domains
    /\ crawl' = [crawl EXCEPT ![Prepare] = [Idle EXCEPT !.pc = "plan"]]
    /\ UNCHANGED <<inputs, reported, tables, sizes, dirs, landing, ready, bounds>>

\* The checklist is read back; folders without a value, or with an empty list,
\* make their environment take part but are not crawled.
PlanPreparation ==
    /\ crawl[Prepare].pc = "plan"
    /\ crawl' = [crawl EXCEPT
            ![Prepare].pc = "crawl",
            ![Prepare].list = checklist,
            ![Prepare].plan = [e \in Envs |-> ToCrawl(checklist, e)]]
    /\ UNCHANGED <<inputs, reported, checklist, tables, sizes, dirs, landing, ready, bounds>>

-----------------------------------------------------------------------------
(* Crawling, by a preparation or a full crawl: group by group, folder by    *)
(* folder.                                                                  *)

StartScan(ask) ==
    /\ crawl[Scan].pc = "off" /\ overview # Missing
    /\ changes < MaxChanges /\ changes' = changes + 1
    /\ crawl' = [crawl EXCEPT ![Scan] =
            [Idle EXCEPT !.pc = "crawl", !.env = ask.env, !.scope = ask.scope, !.force = ask.force]]
    /\ UNCHANGED <<inputs, reported, checklist, tables, sizes, dirs, landing, ready, faults>>

\* overview.yml has the root of an environment; to ask for one it has not is an
\* error, while a domain it has not is an empty one.
Has(e, root) ==
    overview # Missing /\ \E i \in 1..begun : Sections[i].env = e /\ Sections[i].root = root

\* The crawler of an archive logs the error and crawls nothing.
ArchiveFolders(e, archive) ==
    IF Has(e, Legacy) THEN get_legacy_archive_folders(overview, archive, e) ELSE {}

\* The folders of a round that a preparation crawls.
Selected(i) ==
    LET e == Rounds[i].env
        g == Rounds[i].group
        c == crawl[Prepare]
    IN  IF g \in Domains THEN {f \in c.plan[e] \intersect Exports : c.list[e][f].group = g}
        ELSE c.plan[e] \intersect ArchiveFolders(e, g)

\* The legacy folders a full crawl finds stale, all archives together, before
\* it crawls the first.
StaleLegacy(e) ==
    UNION {get_legacy_archive_folders(overview, a, e) : a \in Archives}

\* The rounds to come.  A preparation has one for each domain with a folder, and
\* for every archive when a legacy folder is to be crawled.
Rest(p) ==
    {i \in DOMAIN Rounds :
        /\ i > crawl[p].round
        /\ IF p = Scan THEN Rounds[i].env = crawl[p].env /\ Rounds[i].group \in crawl[p].scope
           ELSE IF Rounds[i].group \in Domains THEN Selected(i) # {}
           ELSE crawl[p].plan[Rounds[i].env] \intersect Legacy # {}}

Upcoming(p) == {i \in Rest(p) : \A j \in Rest(p) : i <= j}

\* What a group may begin with: the folders to crawl now, and the plan.
Beginnings(p, i) ==
    LET e == Rounds[i].env
        g == Rounds[i].group
        plan == crawl[p].plan
        stale(folders) == filter_fresh_folders(folders, Scanned(e), Recent(e), crawl[p].force)
    IN  IF p = Prepare THEN {[todo |-> Selected(i), plan |-> plan]}
        ELSE IF g \in Domains
        THEN {[todo |-> some, plan |-> plan] : some \in stale(get_domain_folders(overview, g, e))}
        ELSE {[todo |-> some \intersect ArchiveFolders(e, g),
               plan |-> [plan EXCEPT ![e] = some]] :
                   some \in IF g = R3 THEN stale(StaleLegacy(e)) ELSE {plan[e]}}

\* A full crawl reads the overview for each domain, and for the archives before
\* the first of them.
Readable(p, i) ==
    \/ p = Prepare
    \/ /\ Rounds[i].group \in Domains => Has(Rounds[i].env, Exports)
       /\ Rounds[i].group = R3 => Has(Rounds[i].env, Legacy)

\* The next group is begun.
NextGroup(p) ==
    /\ crawl[p].pc = "crawl" /\ crawl[p].todo = {}
    /\ \E i \in Upcoming(p) : Readable(p, i) /\ \E b \in Beginnings(p, i) :
           crawl' = [crawl EXCEPT ![p].round = i, ![p].todo = b.todo, ![p].plan = b.plan]
    /\ UNCHANGED <<inputs, reported, checklist, tables, sizes, dirs, landing, ready, bounds>>

\* Nothing catches the error of an overview that lacks the environment or the root:
\* the full crawl ends where it is.
ScanBreaksOff ==
    /\ crawl[Scan].pc = "crawl" /\ crawl[Scan].todo = {}
    /\ \E i \in Upcoming(Scan) : ~Readable(Scan, i)
    /\ crawl' = [crawl EXCEPT ![Scan] = Idle]
    /\ UNCHANGED <<inputs, reported, checklist, tables, sizes, dirs, landing, ready, bounds>>

Round(p) == Rounds[crawl[p].round]
Skip(p, some) == {Key(Round(p).env, f) : f \in some}

\* No client, no group: the crawler logs it and returns.
ClientFails(p) ==
    /\ crawl[p].pc = "crawl" /\ crawl[p].todo # {} /\ faults < MaxFaults
    /\ crawl' = [crawl EXCEPT ![p].todo = {}, ![p].skipped = @ \union Skip(p, crawl[p].todo)]
    /\ faults' = faults + 1
    /\ UNCHANGED <<inputs, reported, checklist, tables, sizes, dirs, landing, ready, changes>>

\* Mutants of CrawlFolder: the folder counts as crawled before its row exists; an
\* existing row is given the domain it is crawled for.
CrawlFolderEarly(p, f) ==
    LET k == Key(Round(p).env, f) IN
    /\ crawl[p].pc = "crawl" /\ f \in library[k.env]
    /\ fresh' = fresh \union {k}
    /\ crawl' = [crawl EXCEPT ![p].todo = @ \ {f}, ![p].hand = k,
            ![p].pc = IF k \in {KeyOf(r) : r \in rows} THEN "crawl" ELSE "insert"]
    /\ UNCHANGED <<inputs, reported, checklist, rows, schema, sizes, dirs, landing, ready,
                   bounds>>
CrawlFolderMoves(p, f) ==
    LET k == Key(Round(p).env, f) IN
    /\ crawl[p].pc = "crawl" /\ f \in library[k.env]
    /\ rows' = {r \in rows : KeyOf(r) # k} \union
            {[env |-> k.env, domain |-> Round(p).group, folder |-> f]}
    /\ fresh' = fresh \union {k}
    /\ crawl' = [crawl EXCEPT ![p].todo = @ \ {f}]
    /\ UNCHANGED <<inputs, reported, checklist, schema, sizes, dirs, landing, ready, bounds>>

\* A folder is listed; one that cannot be, or is not there, is logged and left
\* as it was.  The row is written in a transaction: an existing row keeps its
\* domain ...
CrawlFolder(p, f) ==
    LET k == Key(Round(p).env, f) IN
    /\ crawl[p].pc = "crawl"
    /\ \/ /\ f \in library[k.env]
          /\ IF k \in {KeyOf(r) : r \in rows}
             THEN /\ fresh' = fresh \union {k}
                  /\ crawl' = [crawl EXCEPT ![p].todo = @ \ {f}]
             ELSE /\ fresh' = fresh
                  /\ crawl' = [crawl EXCEPT ![p].pc = "insert", ![p].todo = @ \ {f},
                                            ![p].hand = k]
          /\ faults' = faults
       \/ /\ IF f \in library[k.env]
             THEN faults < MaxFaults /\ faults' = faults + 1
             ELSE faults' = faults
          /\ crawl' = [crawl EXCEPT ![p].todo = @ \ {f}, ![p].skipped = @ \union {k}]
          /\ fresh' = fresh
    /\ UNCHANGED <<inputs, reported, checklist, rows, schema, sizes, dirs, landing, ready,
                   changes>>

\* Mutant of InsertRow: a conflict is waited out.
InsertRowWaits(p) ==
    LET k == crawl[p].hand IN
    /\ crawl[p].pc = "insert" /\ k \notin {KeyOf(r) : r \in rows}
    /\ rows' = rows \union {[env |-> k.env, domain |-> Round(p).group, folder |-> k.folder]}
    /\ fresh' = fresh \union {k}
    /\ crawl' = [crawl EXCEPT ![p].pc = "crawl", ![p].hand = NoKey]
    /\ UNCHANGED <<inputs, reported, checklist, schema, sizes, dirs, landing, ready, bounds>>

\* ... and a new one gets the domain it was crawled for.  When the other crawler
\* has inserted the row since, the constraint refuses it and the job fails.
InsertRow(p) ==
    LET k == crawl[p].hand IN
    /\ crawl[p].pc = "insert"
    /\ IF k \in {KeyOf(r) : r \in rows}
       THEN /\ crawl' = [crawl EXCEPT ![p] = Idle]
            /\ UNCHANGED <<rows, fresh>>
       ELSE /\ rows' = rows \union {[env |-> k.env, domain |-> Round(p).group,
                                     folder |-> k.folder]}
            /\ fresh' = fresh \union {k}
            /\ crawl' = [crawl EXCEPT ![p].pc = "crawl", ![p].hand = NoKey]
    /\ UNCHANGED <<inputs, reported, checklist, schema, sizes, dirs, landing, ready, bounds>>

EndCrawl(p) ==
    /\ crawl[p].pc = "crawl" /\ crawl[p].todo = {} /\ Rest(p) = {}
    /\ crawl' = [crawl EXCEPT ![p] = IF p = Prepare THEN [@ EXCEPT !.pc = "schema"] ELSE Idle]
    /\ UNCHANGED <<inputs, reported, checklist, tables, sizes, dirs, landing, ready, bounds>>

CrawlFails(p) ==
    /\ crawl[p].pc # "off" /\ faults < MaxFaults
    /\ crawl' = [crawl EXCEPT ![p] = Idle] /\ faults' = faults + 1
    /\ UNCHANGED <<inputs, reported, checklist, tables, sizes, dirs, landing, ready, changes>>

-----------------------------------------------------------------------------
(* The preparation compiles the schema of the landing bucket from all rows, *)
(* whoever crawled them, and replaces the table in one transaction.         *)

ReadFolders ==
    /\ crawl[Prepare].pc = "schema"
    /\ crawl' = [crawl EXCEPT ![Prepare].pc = "write", ![Prepare].snapshot = rows]
    /\ UNCHANGED <<inputs, reported, checklist, tables, sizes, dirs, landing, ready, bounds>>

\* Mutant of WriteSchema: a schema that exists is kept.
WriteSchemaOnce ==
    LET c == crawl[Prepare] IN
    /\ c.pc = "write"
    /\ schema' = IF schema = {} THEN c.snapshot ELSE schema
    /\ ready' = [list |-> c.list, missed |-> c.skipped]
    /\ crawl' = [crawl EXCEPT ![Prepare] = [Idle EXCEPT !.pc = "sizes"]]
    /\ UNCHANGED <<inputs, reported, checklist, rows, fresh, sizes, dirs, landing, bounds>>

WriteSchema ==
    LET c == crawl[Prepare] IN
    /\ c.pc = "write"
    /\ schema' = IF c.snapshot = {} THEN schema ELSE c.snapshot
    /\ ready' = [list |-> c.list, missed |-> c.skipped]
    /\ crawl' = [crawl EXCEPT ![Prepare] = [Idle EXCEPT !.pc = "sizes"]]
    /\ UNCHANGED <<inputs, reported, checklist, rows, fresh, sizes, dirs, landing, bounds>>

ingest_all_catalog_sizes == sizes' = {KeyOf(r) : r \in rows}

EndPreparation ==
    /\ crawl[Prepare].pc = "sizes"
    /\ ingest_all_catalog_sizes
    /\ crawl' = [crawl EXCEPT ![Prepare] = Idle]
    /\ UNCHANGED <<inputs, reported, checklist, tables, dirs, landing, ready, bounds>>

Crawling(p) ==
    \/ NextGroup(p) \/ EndCrawl(p)
    \/ InsertRow(p)
    \/ \E f \in crawl[p].todo : CrawlFolder(p, f)

Preparing ==
    \/ StartPrepare \/ PlanPreparation \/ Crawling(Prepare)
    \/ ReadFolders \/ WriteSchema \/ EndPreparation

-----------------------------------------------------------------------------
(* A landing run: its preflight creates the directories, then it selects    *)
(* paths environment by environment and lists the folder of each.  The      *)
(* schema and the checklist it uses are cached when it first reads them.    *)

LandTree ==
    /\ landing.pc \in {"off", "done"} /\ checklist # Missing
    /\ dirs' = dirs \union target_folders(checklist, schema)
    /\ landing' = [NoLanding EXCEPT
            !.pc = "envs", !.schema = schema, !.list = checklist,
            !.owed = IF ready.list = checklist
                     THEN {k \in Keys \ ready.missed : k.folder \in ToCrawl(checklist, k.env)}
                     ELSE {}]
    /\ UNCHANGED <<inputs, reported, checklist, tables, sizes, crawl, ready, bounds>>

LandEnvs ==
    /\ landing.pc = "envs"
    /\ landing' = [landing EXCEPT
            !.pc = "sync", !.list = checklist,
            !.envs = {e \in Envs : extract_active_folders(checklist, e) # {}},
            !.steady = checklist = landing.list,
            !.owed = IF checklist = landing.list THEN @ ELSE {}]
    /\ UNCHANGED <<inputs, reported, checklist, tables, sizes, dirs, crawl, ready, bounds>>

LandEnv(e) ==
    /\ landing.pc = "sync" /\ landing.todo = {} /\ e \in landing.envs
    /\ landing' = [landing EXCEPT
            !.envs = @ \ {e}, !.env = e,
            !.todo = resolve_target_mappings(e, extract_active_folders(landing.list, e),
                                             landing.schema)]
    /\ UNCHANGED <<inputs, reported, checklist, tables, sizes, dirs, crawl, ready, bounds>>

\* The folder of a path is listed; a failure is logged, and the next path tried.
\* What was withdrawn, or could not be listed, is no longer owed.
LandPath(path) ==
    LET there == RemoteFolder(path) \intersect library[landing.env]
        settled == landing.owed \ {Key(landing.env, path.folder)}
    IN
    /\ landing.pc = "sync"
    /\ \/ /\ there # {}
          /\ landing' = [landing EXCEPT !.todo = @ \ {path},
                  !.landed = @ \union {[path |-> path, from |-> landing.env]}]
          /\ faults' = faults
       \/ /\ there # {} /\ faults < MaxFaults /\ faults' = faults + 1
          /\ landing' = [landing EXCEPT !.todo = @ \ {path}, !.owed = settled]
       \/ /\ there = {} /\ faults' = faults
          /\ landing' = [landing EXCEPT !.todo = @ \ {path},
                  !.owed = IF path.folder \in library[landing.env] THEN @ ELSE settled]
    /\ UNCHANGED <<inputs, reported, checklist, tables, sizes, dirs, crawl, ready, changes>>

LandDone ==
    /\ landing.pc = "sync" /\ landing.todo = {} /\ landing.envs = {}
    /\ landing' = [landing EXCEPT !.pc = "done", !.schema = {}, !.env = Missing]
    /\ UNCHANGED <<inputs, reported, checklist, tables, sizes, dirs, crawl, ready, bounds>>

LandFails ==
    /\ landing.pc \notin {"off", "done"} /\ faults < MaxFaults
    /\ landing' = NoLanding /\ faults' = faults + 1
    /\ UNCHANGED <<inputs, reported, checklist, tables, sizes, dirs, crawl, ready, changes>>

Landing ==
    \/ LandTree \/ LandEnvs \/ LandDone
    \/ \E e \in Envs : LandEnv(e)
    \/ \E path \in landing.todo : LandPath(path)

-----------------------------------------------------------------------------
World == Publish \/ Reclassify \/ Configure \/ Age \/ RewriteReport \/ Regenerate
Trouble == SurveyFails \/ LandFails \/ \E p \in Crawlers : ClientFails(p) \/ CrawlFails(p)
Scanning ==
    \/ \E ask \in Scans : StartScan(ask)
    \/ Crawling(Scan) \/ ScanBreaksOff

Next == World \/ Trouble \/ Survey \/ Scanning \/ Preparing \/ Landing

Spec == Init /\ [][Next]_vars

\* Preparation and landing (dags/landing.yml) are run again and again, and once
\* started go on; surveys and full crawls need not be.
FairSpec == Spec /\ SF_vars(StartPrepare) /\ WF_vars(Preparing) /\ WF_vars(Landing)

-----------------------------------------------------------------------------
(* Correctness.                                                             *)

\* A landing run that follows a preparation of the same checklist lists every
\* folder of TP_export the checklist enables: each that the preparation could
\* crawl has its row, its path in the schema, and is selected, unless the
\* library refused it or it was withdrawn.
EnabledExportsLand ==
    landing.pc = "done" =>
        \A k \in landing.owed : k.folder \in Exports =>
            \E x \in landing.landed : KeyOf(x.path) = k

\* The same of the legacy folders the checklist enables, at least of those that
\* the preflight has made a directory for.
EnabledLegacyLand ==
    landing.pc = "done" =>
        \A k \in landing.owed : k.folder \in Legacy /\ (\E d \in dirs : KeyOf(d) = k) =>
            \E x \in landing.landed : KeyOf(x.path) = k

\* What lands below the prefix of an environment comes from that environment,
\* and the checklist enables it there: IOP and PROD never mix.
EnvironmentsApart ==
    \A x \in landing.landed :
        /\ x.path.env = x.from
        /\ x.path.folder \in extract_active_folders(landing.list, x.from)

\* The preflight and the synchroniser choose paths in two places: unless the
\* checklist was rewritten between the two, whatever lands has its directory.
DirectoryFirst ==
    landing.steady => \A x \in landing.landed : x.path \in dirs

\* A publication's folder keeps its place in the landing bucket: no
\* reclassification, crawl or preparation moves its path or drops it.
PathsStay ==
    [][schema \subseteq schema' /\ \A p, q \in schema' : KeyOf(p) = KeyOf(q) => p = q]_vars

\* The reports of a survey agree with the overview it saved: an undocumented
\* folder is in the fallback domain, and the publication that decides the domain
\* of a folder, the first that fits, is not reported unseen.
ReportsAgree ==
    [][reports' # reports /\ survey' # survey =>
        \A e \in Envs :
            /\ \A f \in reports'.undocumented : overview[e][f] \in {Fallback, NoGroup}
            /\ \A f \in Listed(overview, e) \intersect Exports :
                Fitting(survey.rules, f) # {} =>
                    FirstFit(survey.rules, f) \notin reports'.unseen]_vars

\* A full crawl of everything that gets through its groups without a failure, and
\* during which no survey writes overview.yml, leaves no folder of the overview
\* without a row: each legacy folder belongs to an archive.
Complete(p) ==
    /\ crawl[p].pc = "crawl" /\ crawl[p].scope = Domains \union Archives
    /\ crawl[p].todo = {} /\ Rest(p) = {} /\ crawl[p].skipped = {} /\ crawl[p].steady
    /\ crawl'[p].pc = "off" /\ faults' = faults

FullCrawlCovers ==
    [][Complete(Scan) /\ crawl[Scan].force =>
        Listed(overview, crawl[Scan].env) \subseteq Scanned(crawl[Scan].env)]_vars

\* Once failures and changes have ended, every landing run lists every folder
\* of TP_export that the checklist enables and the library has.
EnabledConverge ==
    <>[](Compilable /\ landing.pc = "done" =>
            \A k \in Keys :
                /\ k.folder \in Exports \intersect ToCrawl(landing.list, k.env)
                /\ k.folder \in library[k.env]
                => \E x \in landing.landed : KeyOf(x.path) = k)
=============================================================================
