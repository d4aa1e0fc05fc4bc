------------------------------ MODULE Catalogue ------------------------------
(***************************************************************************)
(* What the pipeline knows of the file library, as data: the classifier    *)
(* (config/core/classifier.py, domain_classifier.py), the overview of both *)
(* platforms (overview.yml and overview_parser.py), the drift reports, the *)
(* checklist of what to load (job_config_builder.py, my_entsoe_domains.py) *)
(* and the paths it selects in the landing bucket (config_parser.py,       *)
(* path_resolver.py, generate_tree_for_my_entsoe_domains.py).              *)
(*                                                                         *)
(* The operators are pure: Preparation reads and writes files and tables   *)
(* with them.  Names of folders are model values, told apart by what the   *)
(* code asks of them: which root they are in, which publications' names    *)
(* they start with, which archives' patterns they contain, and which other *)
(* folders' paths contain them.  Comparisons ignore case where the code    *)
(* lowers both sides, so each name stands for its spellings there.         *)
(***************************************************************************)
EXTENDS Integers, FiniteSets, Sequences

CONSTANTS
    Envs,         \* IOP and PROD
    Exports,      \* names of items of /TP_export/
    Legacy,       \* names of items of /TP_Legacy_Publications/
    Domains,      \* domain_order
    Fallback,     \* fallback_domain
    R3, R2, R1,   \* the three legacy archives
    Patterned,    \* the legacy folders whose names hold a pattern of an archive
    Within,       \* the folders whose paths contain the name of a folder
    LegacyRoot,   \* the key of the legacy folders in an overview, beside the domains
    NoGroup,      \* a folder that the overview does not list
    Anywhere      \* a template that names no environment

Folders == Exports \union Legacy
Archives == {R3, R2, R1}
Groups == Domains \union {LegacyRoot}

ASSUME CatalogueConstants ==
    /\ Exports \intersect Legacy = {}
    /\ Fallback \in Domains
    /\ Archives \intersect Groups = {}
    /\ Patterned \in [Archives -> SUBSET Legacy]
    /\ Within \in [Folders -> SUBSET Folders]
    /\ \A f \in Folders : f \in Within[f]
    /\ LegacyRoot \notin Domains /\ NoGroup \notin Groups
    /\ Anywhere \notin Envs

\* No folder of the library has the name of a domain or of an archive: the code
\* compares names without asking which part of a path they are.
ASSUME NamesApart == Folders \intersect (Domains \union Archives) = {}

-----------------------------------------------------------------------------
(* The classifier.  Its rules are a sequence of publications, in the order  *)
(* of the configuration file, each with its domain and the folders whose    *)
(* names start with its fms_name.                                           *)

Publication == [domain : Domains, fits : SUBSET Exports]

Fitting(rules, f) == {i \in DOMAIN rules : f \in rules[i].fits}

FirstFit(rules, f) ==
    CHOOSE i \in Fitting(rules, f) : \A j \in Fitting(rules, f) : i <= j

classify_folder(rules, f) ==
    IF Fitting(rules, f) = {} THEN Fallback ELSE rules[FirstFit(rules, f)].domain

-----------------------------------------------------------------------------
(* The overview: for each environment, the group of every folder listed.    *)

Overview == [Envs -> [Folders -> Groups \union {NoGroup}]]

Grouped(rules, found) ==
    [f \in Folders |->
        IF f \notin found THEN NoGroup
        ELSE IF f \in Legacy THEN LegacyRoot ELSE classify_folder(rules, f)]

Listed(overview, e) == {f \in Folders : overview[e][f] # NoGroup}

get_domain_folders(overview, d, e) == {f \in Exports : overview[e][f] = d}

\* Mutant of get_legacy_archive_folders: only what is in a pattern is in an archive.
OnlyPatterned(overview, archive, e) ==
    Listed(overview, e) \intersect Legacy \intersect Patterned[archive]

get_legacy_archive_folders(overview, archive, e) ==
    LET folders == Listed(overview, e) \intersect Legacy
    IN  (folders \intersect Patterned[archive])
            \union (IF archive = R1 THEN folders \ (Patterned[R2] \union Patterned[R3])
                    ELSE {})

\* A folder counts as fresh when the row the query returns first is: any row
\* whose path contains the folder's name may come first.
filter_fresh_folders(folders, scanned, fresh, force) ==
    IF force THEN {folders}
    ELSE LET rowsOf(f) == Within[f] \intersect scanned
             surely == {f \in folders : rowsOf(f) \intersect fresh = {}}
             perhaps == {f \in folders \ surely : ~(rowsOf(f) \subseteq fresh)}
         IN  {surely \union more : more \in SUBSET perhaps}

-----------------------------------------------------------------------------
(* The drift reports.                                                       *)

ActiveFolders(overview) ==
    UNION {Listed(overview, e) \intersect Exports : e \in Envs}

Undocumented(rules, overview) ==
    {f \in ActiveFolders(overview) : Fitting(rules, f) = {}}

\* Mutant of FitsFirst: a later fit takes the place of an earlier one.
FitsLast(rules, overview) ==
    {i \in DOMAIN rules : \E f \in ActiveFolders(overview) :
        i \in Fitting(rules, f) /\ \A j \in Fitting(rules, f) : j <= i}

\* ftp_map_collector stops at the first publication that fits; the tool of its
\* own, unseen_publications, only leaves the domain.
FitsFirst(rules, overview) ==
    {FirstFit(rules, f) : f \in {g \in ActiveFolders(overview) : Fitting(rules, g) # {}}}

FitsInDomains(rules, overview) ==
    {i \in DOMAIN rules : \E f \in ActiveFolders(overview) \intersect rules[i].fits :
        \A j \in Fitting(rules, f) : rules[j].domain = rules[i].domain => i <= j}

Unseen(rules, matched) == DOMAIN rules \ matched

-----------------------------------------------------------------------------
(* The checklist: a value for each folder of each environment.  "files" is  *)
(* a list of file names; "none" is an empty list or nothing at all.  Where  *)
(* a folder that is off is written is left out: nobody asks.                *)

Value == {"off", "on", "files", "none"}
Checklist == [Envs -> [Folders -> [group : Groups \union {NoGroup}, val : Value]]]

\* What a checklist has crawled of TP_export is below one of the domains.
InDomains(checklist) ==
    \A e \in Envs, f \in Exports :
        checklist[e][f].val \in {"on", "files"} => checklist[e][f].group \in Domains

\* The templates build_domains_checklist tells apart; the last kind it refuses.
Template ==
    [kind : {"popular_domains"}, env : Envs \union {Anywhere},
     popular : [Domains -> SUBSET Exports]]
    \union [kind : {"selected_domains"}, env : Envs \union {Anywhere},
            selected : [Domains -> [Folders -> Value]]]
    \union [kind : {"enabled_domains"}, env : Envs \union {Anywhere},
            domains : SUBSET Domains, legacy : SUBSET Legacy]
    \union [kind : {"environments"}, environments : {c \in Checklist : InDomains(c)}]
    \union [kind : {"unknown"}]

IsEnabledIn(template, e) == template.env = Anywhere \/ template.env = e

build_default(t, e, g, f) ==
    IF IsEnabledIn(t, e) /\ g \in Domains /\ f \in t.popular[g] THEN "on" ELSE "off"

build_custom(t, e, g, f) ==
    IF IsEnabledIn(t, e) /\ g \in Domains THEN t.selected[g][f] ELSE "off"

build_extended(t, e, g, f) ==
    IF IsEnabledIn(t, e) /\ (g \in t.domains \/ (g = LegacyRoot /\ f \in t.legacy))
    THEN "on" ELSE "off"

build_domains_checklist(t, overview) ==
    IF t.kind = "environments" THEN t.environments
    ELSE [e \in Envs |-> [f \in Folders |->
            LET g == overview[e][f]
                val == CASE t.kind = "popular_domains" -> build_default(t, e, g, f)
                         [] t.kind = "selected_domains" -> build_custom(t, e, g, f)
                         [] t.kind = "enabled_domains" -> build_extended(t, e, g, f)
            IN  [group |-> IF val = "off" THEN NoGroup ELSE g, val |-> val]]]

extract_active_folders(checklist, e) == {f \in Folders : checklist[e][f].val # "off"}

\* What prepare_landing_ingestion crawls: less than what is active.
ToCrawl(checklist, e) == {f \in Folders : checklist[e][f].val \in {"on", "files"}}

-----------------------------------------------------------------------------
(* Paths in the landing bucket: environment/root/domain/folder, or          *)
(* environment/root/archive/folder.                                         *)

Path == [env : Envs, domain : Domains \union Archives, folder : Folders]

Segments(path) == {path.domain, path.folder}

\* Mutant of resolve_target_mappings: a folder is looked for in every environment.
resolve_everywhere(e, active, schema) ==
    {p \in schema : active \intersect Segments(p) # {}}

\* resolve_target_mappings: the paths of the environment with a segment that is
\* the name of an active folder.
resolve_target_mappings(e, active, schema) ==
    {p \in schema : p.env = e /\ active \intersect Segments(p) # {}}

\* Mutant of get_active_folders: the folders the preparation crawls.
get_crawled_folders(checklist) ==
    {ef \in Envs \X Folders : checklist[ef[1]][ef[2]].val \in {"on", "files"}}

\* The same choice, made again to create the directories.
get_active_folders(checklist) ==
    {ef \in Envs \X Folders : checklist[ef[1]][ef[2]].val # "off"}

target_folders(checklist, schema) ==
    {p \in schema : \E ef \in get_active_folders(checklist) :
        p.env = ef[1] /\ ef[2] \in Segments(p)}

\* The folder of the library that select_files_to_sync lists for a path: the
\* active folder itself in TP_export; elsewhere the rest of the path, archive
\* and folder, which the library does not have.
RemoteFolder(path) == IF path.folder \in Exports THEN {path.folder} ELSE {}
=============================================================================
