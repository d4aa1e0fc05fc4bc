-------------------------------- MODULE Setup --------------------------------
(***************************************************************************)
(* What the jobs stand on: the buckets of the object store, the Iceberg    *)
(* namespace, the tables of the metadata database and the selected         *)
(* environment; the programs that create them (create_buckets.py,          *)
(* init_entsoe_metadata_db_schema.py, switch_env.py); and the preflight    *)
(* checks that the three jobs run before they start.                       *)
(*                                                                         *)
(* A program is a sequence of calls, made one at a time by processes that  *)
(* may run side by side.  A call that the server or a check refuses, and a *)
(* call that fails, ends the process.                                      *)
(***************************************************************************)
EXTENDS Naturals, Sequences, FiniteSets

CONSTANTS
    Processes,
    Envs,        \* the environments of enviroment.yml
    Prod,        \* the environment that counts when none can be read
    EnvOrder,    \* the environments, as run_prepare_landing_preflight logs in to them
    Tables,      \* the tables a contract may have
    FoldersTable,\* landing_folders_schema, which the folder tree is read from
    Columns,     \* column definitions: name, type and nullability
    FirstContract, \* what the contract says at first
    MaxUpsets,   \* bound on failed calls and on edits of the contract and the
                 \* checklist, taken together
    None

Programs == {"buckets", "schema", "prepare", "landing", "staging", "switch"}

ASSUME SetupAssumption ==
    /\ Prod \in Envs
    /\ EnvOrder \in Seq(Envs)
    /\ FoldersTable \in Tables
    /\ None \notin Envs \union Programs
    /\ FirstContract \in [Tables -> SUBSET Columns]
    /\ None \notin [Tables -> SUBSET Columns]
    /\ MaxUpsets \in Nat

Landing == "landingBucket"
Lakehouse == "lakehouseBucket"
TableBucket == "tableBucket"
Namespace == "namespace"
Infrastructure == {Landing, Lakehouse, TableBucket, Namespace}

VARIABLES
    have,      \* the infrastructure that exists
    probe,     \* the readiness object is in the landing bucket
    db,        \* per table: its columns in the database, none if there is no table
    contract,  \* per table: its columns in entsoe_metadata_db_schema.yml
    envfile,   \* active_environment in enviroment.yml; None while it is truncated
    wanted,    \* "environment" in my_entsoe_domains.yml, or None
    program,   \* per process: the program it runs, or None
    todo,      \* per process: the calls it has still to make
    config,    \* per process: the active environment as it was loaded
    seen,      \* per process: the contract as it was loaded
    missing,   \* per process: the tables create_all found missing
    target,    \* per process: the environment to log in to, or to switch to
    excused,   \* per process: something else can be blamed for its failure
    offered,   \* per process: the environments selected since it started
    faults,
    edits

world == <<have, probe, db, contract, envfile, wanted>>
local == <<program, config, seen, missing, target>>
history == <<excused, offered>>
Bounds == <<faults, edits>>
vars == <<world, todo, local, history, Bounds>>

Contract == [Tables -> SUBSET Columns]

-----------------------------------------------------------------------------
(* The programs.                                                           *)

\* ensure_all_buckets_exist takes any error of head_bucket for a missing bucket,
\* ensure_bucket_exists only a 404; the preflights demand that a bucket exists.
Calls ==
    {"tableBucket", "namespace", "tree", "folders", "put", "get", "delete", "inspect",
     "createTables", "validate", "resolve", "login", "read", "truncate", "write"}
        \X {None}
    \union {"ensure", "restore", "demand", "create"} \X {Landing, Lakehouse}
    \union {"login"} \X Envs

Probing == << <<"put", None>>, <<"get", None>>, <<"delete", None>> >>

\* Mutant of BucketsProgram: the namespace before the bucket it lives in.
NamespaceFirst ==
    << <<"namespace", None>>, <<"tableBucket", None>>, <<"ensure", Landing>>,
       <<"ensure", Lakehouse>> >>

BucketsProgram ==
    << <<"tableBucket", None>>, <<"ensure", Landing>>, <<"ensure", Lakehouse>>,
       <<"namespace", None>> >>

SchemaProgram == << <<"inspect", None>>, <<"createTables", None>> >>

PreparePreflight ==
    [i \in DOMAIN EnvOrder |-> <<"login", EnvOrder[i]>>] \o << <<"validate", None>> >>

\* Mutant of LandingPreflight: it does not look for the lakehouse bucket.
LandingWithoutLakehouse ==
    << <<"tree", None>>, <<"restore", Landing>>, <<"folders", None>>,
       <<"demand", Landing>> >> \o Probing
    \o << <<"resolve", None>>, <<"login", None>>, <<"validate", None>> >>

LandingPreflight ==
    << <<"tree", None>>, <<"restore", Landing>>, <<"folders", None>>,
       <<"demand", Landing>>, <<"demand", Lakehouse>> >> \o Probing
    \o << <<"resolve", None>>, <<"login", None>>, <<"validate", None>> >>

StagingPreflight ==
    << <<"tableBucket", None>>, <<"namespace", None>>,
       <<"demand", Lakehouse>>, <<"demand", Landing>> >> \o Probing
    \o << <<"validate", None>>, <<"resolve", None>>, <<"login", None>> >>

\* Mutant of SwitchProgram: the file is opened for writing before it is read.
SwitchTruncatingFirst ==
    << <<"truncate", None>>, <<"read", None>>, <<"write", None>> >>

SwitchProgram == << <<"read", None>>, <<"truncate", None>>, <<"write", None>> >>

CallsOf(prog) ==
    CASE prog = "buckets" -> BucketsProgram
      [] prog = "schema" -> SchemaProgram
      [] prog = "prepare" -> PreparePreflight
      [] prog = "landing" -> LandingPreflight
      [] prog = "staging" -> StagingPreflight
      [] prog = "switch" -> SwitchProgram

Init ==
    /\ have = {}
    /\ probe = FALSE
    /\ db = [t \in Tables |-> {}]
    /\ contract = FirstContract
    /\ envfile \in Envs
    /\ wanted = None
    /\ program = [p \in Processes |-> None]
    /\ todo = [p \in Processes |-> <<>>]
    /\ config = [p \in Processes |-> None]
    /\ seen = [p \in Processes |-> None]
    /\ missing = [p \in Processes |-> {}]
    /\ target = [p \in Processes |-> None]
    /\ excused = [p \in Processes |-> FALSE]
    /\ offered = [p \in Processes |-> {}]
    /\ faults = 0
    /\ edits = 0

-----------------------------------------------------------------------------
(* A process and its calls.                                                *)

\* Every table of the contract is in the database with at least its columns.
Conforms(d, c) == \A t \in Tables : c[t] \subseteq d[t]

Running(p) == program[p] # None

AboutTo(p, kind) == Running(p) /\ todo[p] # <<>> /\ Head(todo[p])[1] = kind

What(p) == Head(todo[p])[2]

Shorten(p) == todo' = [todo EXCEPT ![p] = Tail(@)]

Advance(p) == Shorten(p) /\ UNCHANGED <<local, history>>

Forget(p) ==
    /\ program' = [program EXCEPT ![p] = None]
    /\ config' = [config EXCEPT ![p] = None]
    /\ seen' = [seen EXCEPT ![p] = None]
    /\ missing' = [missing EXCEPT ![p] = {}]
    /\ target' = [target EXCEPT ![p] = None]
    /\ excused' = [excused EXCEPT ![p] = FALSE]
    /\ offered' = [offered EXCEPT ![p] = {}]

\* Mutant of End: what was left to do is not forgotten.
EndOnly(p) ==
    /\ UNCHANGED todo
    /\ Forget(p)

\* The process exits, with an error or without.
End(p) ==
    /\ todo' = [todo EXCEPT ![p] = <<>>]
    /\ Forget(p)

\* The contract a process works with is the one it has loaded first.
LoadedContract(p) == IF seen[p] = None THEN contract ELSE seen[p]

\* What must be there for a program to succeed, given what it creates itself.
Lacking(prog) ==
    \/ envfile = None
    \/ prog \in {"landing", "staging"} /\ Lakehouse \notin have
    \/ prog = "staging" /\ Landing \notin have
    \/ prog \in {"prepare", "landing", "staging"} /\ ~Conforms(db, contract)
    \/ prog = "landing" /\ db[FoldersTable] = {}

\* Overlapping programs that may spoil each other's calls: the probes share an
\* object, and two creators of a bucket or of the tables race.  A switch truncates
\* the file that others read.
Spoils(prog, other) ==
    \/ {prog, other} \subseteq {"landing", "staging"}
    \/ {prog, other} \subseteq {"buckets", "landing"}
    \/ {prog, other} = {"schema"}
    \/ prog = "switch" /\ other \notin {"buckets", "schema"}

\* The programs that use the active environment.
Resolves(prog) == prog \in {"landing", "staging"}

Offer(env) ==
    offered' = [p \in Processes |->
        IF Resolves(program[p]) THEN offered[p] \union ({env} \ {None}) ELSE {}]

\* A process starts.  What it imports loads the configuration, so that it fails at
\* once while enviroment.yml is truncated; the switch itself loads nothing.
Start(p, prog, env) ==
    /\ ~Running(p)
    /\ IF envfile = None /\ prog # "switch"
       THEN End(p)
       ELSE /\ todo' = [todo EXCEPT ![p] = CallsOf(prog)]
            /\ program' = [program EXCEPT ![p] = prog]
            /\ config' = [config EXCEPT ![p] = IF Resolves(prog) THEN envfile ELSE None]
            /\ target' = [target EXCEPT ![p] = IF prog = "switch" THEN env ELSE None]
            /\ UNCHANGED <<seen, missing>>
            /\ offered' = [offered EXCEPT ![p] =
                   IF Resolves(prog) THEN {envfile, wanted} \ {None} ELSE {}]
            /\ excused' = [q \in Processes |->
                   IF q = p
                   THEN Lacking(prog) \/ \E o \in Processes : Spoils(program[o], prog)
                   ELSE excused[q] \/ (Running(q) /\ Spoils(prog, program[q]))]
    /\ UNCHANGED <<world, Bounds>>

\* All calls have been made.
Pass(p) ==
    /\ Running(p)
    /\ todo[p] = <<>>
    /\ End(p)
    /\ UNCHANGED <<world, Bounds>>
-----------------------------------------------------------------------------
(* Buckets and the Iceberg namespace.                                      *)

\* Creating what exists already is answered with a conflict, which counts as success.
CreateTableBucket(p) ==
    /\ AboutTo(p, "tableBucket")
    /\ have' = have \union {TableBucket}
    /\ Advance(p)
    /\ UNCHANGED <<probe, db, contract, envfile, wanted, Bounds>>

\* The namespace is created in the table bucket and refused without it.
CreateNamespace(p) ==
    /\ AboutTo(p, "namespace")
    /\ IF TableBucket \in have
       THEN have' = have \union {Namespace} /\ Advance(p)
       ELSE UNCHANGED have /\ End(p)
    /\ UNCHANGED <<probe, db, contract, envfile, wanted, Bounds>>

\* head_bucket finds nothing: the bucket is to be created next.
CreateNext(p) ==
    /\ todo' = [todo EXCEPT ![p] = << <<"create", What(p)>> >> \o Tail(@)]
    /\ UNCHANGED local

HeadToEnsure(p) ==
    /\ AboutTo(p, "ensure") \/ AboutTo(p, "restore")
    /\ IF What(p) \in have THEN Advance(p) ELSE CreateNext(p) /\ UNCHANGED history
    /\ UNCHANGED <<world, Bounds>>

\* Creating a bucket that has come into being meanwhile may be refused.
CreateBucket(p) ==
    /\ AboutTo(p, "create")
    /\ \/ have' = have \union {What(p)} /\ Advance(p)
       \/ What(p) \in have /\ UNCHANGED have /\ End(p)
    /\ UNCHANGED <<probe, db, contract, envfile, wanted, Bounds>>

HeadToDemand(p) ==
    /\ AboutTo(p, "demand")
    /\ IF What(p) \in have THEN Advance(p) ELSE End(p)
    /\ UNCHANGED <<world, Bounds>>

\* generate_tree_for_my_entsoe_domains reads the paths from the database, which
\* loads the contract, and fails if the table is not there.
ReadTree(p) ==
    /\ AboutTo(p, "tree")
    /\ IF db[FoldersTable] = {}
       THEN End(p)
       ELSE /\ Shorten(p)
            /\ seen' = [seen EXCEPT ![p] = LoadedContract(p)]
            /\ UNCHANGED <<program, config, missing, target, history>>
    /\ UNCHANGED <<world, Bounds>>

\* One put per path; what they put is modelled in Preparation.
PutFolders(p) ==
    /\ AboutTo(p, "folders")
    /\ Advance(p)
    /\ UNCHANGED <<world, Bounds>>

\* verify_s3_readiness: write, read back, delete.
PutProbe(p) ==
    /\ AboutTo(p, "put")
    /\ probe' = TRUE
    /\ Advance(p)
    /\ UNCHANGED <<have, db, contract, envfile, wanted, Bounds>>

GetProbe(p) ==
    /\ AboutTo(p, "get")
    /\ IF probe THEN Advance(p) ELSE End(p)
    /\ UNCHANGED <<world, Bounds>>

DeleteProbe(p) ==
    /\ AboutTo(p, "delete")
    /\ probe' = FALSE
    /\ Advance(p)
    /\ UNCHANGED <<have, db, contract, envfile, wanted, Bounds>>
-----------------------------------------------------------------------------
(* The database.                                                           *)

\* create_all looks up which tables of the contract exist,
InspectTables(p) ==
    /\ AboutTo(p, "inspect")
    /\ seen' = [seen EXCEPT ![p] = LoadedContract(p)]
    /\ missing' = [missing EXCEPT ![p] =
                      {t \in Tables : LoadedContract(p)[t] # {} /\ db[t] = {}}]
    /\ Shorten(p)
    /\ UNCHANGED <<world, program, config, target, history, Bounds>>

\* and creates the others in one transaction, which a table that has come into
\* being meanwhile aborts.  Tables that exist are never altered.
CreateTables(p) ==
    /\ AboutTo(p, "createTables")
    /\ IF \A t \in missing[p] : db[t] = {}
       THEN /\ db' = [t \in Tables |-> IF t \in missing[p]
                                       THEN LoadedContract(p)[t] ELSE db[t]]
            /\ Advance(p)
       ELSE UNCHANGED db /\ End(p)
    /\ UNCHANGED <<have, probe, contract, envfile, wanted, Bounds>>

\* validate_schema_ddl: the columns of every table of the contract must be there
\* as declared; more columns are accepted.
ValidateSchema(p) ==
    /\ AboutTo(p, "validate")
    /\ IF Conforms(db, LoadedContract(p))
       THEN /\ Shorten(p)
            /\ seen' = [seen EXCEPT ![p] = LoadedContract(p)]
            /\ UNCHANGED <<program, config, missing, target, history>>
       ELSE End(p)
    /\ UNCHANGED <<world, Bounds>>
-----------------------------------------------------------------------------
(* The environment.                                                        *)

\* Mutant of ActiveEnvironment: the file is read again, and PROD taken if it fails.
ReadAgain(p) ==
    IF wanted # None THEN wanted ELSE IF envfile # None THEN envfile ELSE Prod

\* resolve_active_environment: the checklist's environment, or the one that was
\* loaded with the configuration.
ActiveEnvironment(p) == IF wanted # None THEN wanted ELSE config[p]

ResolveEnvironment(p) ==
    /\ AboutTo(p, "resolve")
    /\ target' = [target EXCEPT ![p] = ActiveEnvironment(p)]
    /\ Shorten(p)
    /\ UNCHANGED <<world, program, config, seen, missing, history, Bounds>>

\* create_fms_client reads enviroment.yml again for the address and the credentials.
Login(p) ==
    /\ AboutTo(p, "login")
    /\ IF envfile # None THEN Advance(p) ELSE End(p)
    /\ UNCHANGED <<world, Bounds>>

\* switch_environment reads the file, truncates it and writes it again, with the
\* value of active_environment replaced where there is one.
ReadFile(p) ==
    /\ AboutTo(p, "read")
    /\ config' = [config EXCEPT ![p] = envfile]
    /\ Shorten(p)
    /\ UNCHANGED <<world, program, seen, missing, target, history, Bounds>>

TruncateFile(p) ==
    /\ AboutTo(p, "truncate")
    /\ envfile' = None
    /\ Advance(p)
    /\ UNCHANGED <<have, probe, db, contract, wanted, Bounds>>

WriteFile(p) ==
    /\ AboutTo(p, "write")
    /\ envfile' = IF config[p] = None THEN None ELSE target[p]
    /\ Offer(envfile')
    /\ Shorten(p)
    /\ UNCHANGED <<have, probe, db, contract, wanted, local, excused, Bounds>>
-----------------------------------------------------------------------------
(* Faults and edits.                                                       *)

Fault == faults + edits < MaxUpsets /\ faults' = faults + 1

\* A call fails, or the process is killed before it.
CallFails(p) ==
    /\ todo[p] # <<>>
    /\ Fault
    /\ End(p)
    /\ UNCHANGED <<world, edits>>

\* The server answers head_bucket with an error other than a 404, which
\* create_buckets.py takes for a missing bucket.
HeadFails(p) ==
    /\ AboutTo(p, "ensure")
    /\ Fault
    /\ CreateNext(p)
    /\ excused' = [excused EXCEPT ![p] = TRUE]
    /\ UNCHANGED <<world, offered, edits>>

\* A call takes effect, but its answer is lost.
AnswerLost(p) ==
    /\ Fault
    /\ \/ AboutTo(p, "create") /\ have' = have \union {What(p)} /\ UNCHANGED probe
       \/ AboutTo(p, "tableBucket") /\ have' = have \union {TableBucket} /\ UNCHANGED probe
       \/ /\ AboutTo(p, "namespace") /\ TableBucket \in have
          /\ have' = have \union {Namespace} /\ UNCHANGED probe
       \/ AboutTo(p, "put") /\ probe' = TRUE /\ UNCHANGED have
       \/ AboutTo(p, "delete") /\ probe' = FALSE /\ UNCHANGED have
    /\ End(p)
    /\ UNCHANGED <<db, contract, envfile, wanted, edits>>

Edit == faults + edits < MaxUpsets /\ edits' = edits + 1

\* The contract is edited: a preflight that is running may miss what it now names.
EditContract(t, columns) ==
    /\ Edit
    /\ columns # contract[t]
    /\ contract' = [contract EXCEPT ![t] = columns]
    /\ excused' = [p \in Processes |->
           excused[p] \/ (Running(p) /\ program[p] \in {"prepare", "landing", "staging"})]
    /\ UNCHANGED <<have, probe, db, envfile, wanted, todo, local, offered, faults>>

\* An "environment" is entered in, or removed from, my_entsoe_domains.yml.
EditChecklist(env) ==
    /\ Edit
    /\ env # wanted
    /\ wanted' = env
    /\ Offer(env)
    /\ UNCHANGED <<have, probe, db, contract, envfile, todo, local, excused, faults>>
-----------------------------------------------------------------------------
Work(p) ==
    \/ Pass(p)
    \/ CreateTableBucket(p) \/ CreateNamespace(p)
    \/ HeadToEnsure(p) \/ CreateBucket(p) \/ HeadToDemand(p)
    \/ ReadTree(p) \/ PutFolders(p)
    \/ PutProbe(p) \/ GetProbe(p) \/ DeleteProbe(p)
    \/ InspectTables(p) \/ CreateTables(p) \/ ValidateSchema(p)
    \/ ResolveEnvironment(p) \/ Login(p)
    \/ ReadFile(p) \/ TruncateFile(p) \/ WriteFile(p)

Trouble(p) == CallFails(p) \/ HeadFails(p) \/ AnswerLost(p)

World ==
    \/ \E t \in Tables, columns \in SUBSET Columns : EditContract(t, columns)
    \/ \E env \in Envs \union {None} : EditChecklist(env)

Next ==
    \/ \E p \in Processes :
           \/ \E prog \in Programs, env \in Envs : Start(p, prog, env)
           \/ Work(p)
           \/ Trouble(p)
    \/ World

Spec == Init /\ [][Next]_vars

\* A process that has started keeps running.  Programs are started by hand or by a
\* flow, so nothing is assumed of the starts.
FairSpec == Spec /\ \A p \in Processes : WF_vars(Work(p))
-----------------------------------------------------------------------------
(* Properties.                                                             *)

\* Every variable keeps its type, and a process that has ended has nothing to do.
TypeOK ==
    /\ have \subseteq Infrastructure
    /\ probe \in BOOLEAN
    /\ db \in Contract
    /\ contract \in Contract
    /\ envfile \in Envs \union {None}
    /\ wanted \in Envs \union {None}
    /\ program \in [Processes -> Programs \union {None}]
    /\ todo \in [Processes -> Seq(Calls)]
    /\ config \in [Processes -> Envs \union {None}]
    /\ seen \in [Processes -> Contract \union {None}]
    /\ missing \in [Processes -> SUBSET Tables]
    /\ target \in [Processes -> Envs \union {None}]
    /\ excused \in [Processes -> BOOLEAN]
    /\ offered \in [Processes -> SUBSET Envs]
    /\ faults \in 0..MaxUpsets
    /\ edits \in 0..MaxUpsets
    /\ \A p \in Processes : ~Running(p) => todo[p] = <<>>

Ends(p) == Running(p) /\ ~Running(p)'

Ready(p) ==
    /\ program[p] \in {"buckets", "staging"} => Infrastructure \ {Landing} \subseteq have
    /\ program[p] \in {"buckets", "landing", "staging"} => {Landing, Lakehouse} \subseteq have
    /\ program[p] \in {"prepare", "landing", "staging"} => Conforms(db, seen[p])
    /\ program[p] = "schema" => \A t \in Tables : seen[p][t] # {} => db[t] # {}

\* A program that ends well leaves, or has found, everything the job behind it
\* needs, whatever other processes did while its calls were under way.
PassedMeansReady == [][\A p \in Processes : Ends(p) /\ todo[p] = <<>> => Ready(p)]_vars

\* A run fails only for a cause: a failed call, something missing that it does not
\* create itself, an edit, or an overlapping program of those that Spoils names.
\* Left-overs of earlier failures do not count, nor does any other overlap.  And a
\* switch that nothing disturbed leaves its target in the file.
UndisturbedRunsSucceed ==
    [][\A p \in Processes : Ends(p) /\ ~excused[p] /\ faults' = faults =>
           /\ todo[p] = <<>>
           /\ program[p] = "switch" => envfile = target[p]]_vars

\* A preflight logs in to an environment that the file or the checklist selected
\* at some moment since it started: a file that is being written does not send an
\* IOP job to the fallback PROD.
TestedIsSelected ==
    \A p \in Processes :
        Resolves(program[p]) => target[p] \in offered[p] \union {None}

Runs(prog) == \E p \in Processes : Running(p) /\ program[p] = prog

\* If the two set-up programs are run again and again, overlapping or not, the
\* infrastructure and the tables are complete in the end, failures notwithstanding.
SetupConverges ==
    []<>Runs("buckets") /\ []<>Runs("schema")
        => <>[](/\ Infrastructure \subseteq have
                /\ \A t \in Tables : contract[t] # {} => db[t] # {})
=============================================================================
