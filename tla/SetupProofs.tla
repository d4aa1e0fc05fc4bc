----------------------------- MODULE SetupProofs -----------------------------
(***************************************************************************)
(* Theorems about Setup, for any processes, environments and contracts,    *)
(* and whatever fails or is edited: types, the environment a preflight     *)
(* tests, what a program that ends well has made sure of, and that one     *)
(* which nothing and nobody disturbs does end well.                        *)
(***************************************************************************)
EXTENDS Setup, FiniteSetTheorems, SequenceTheorems, TLAPS

\* The calls of a program: those that follow another one are of the same kind.
LEMMA TailIsTyped ==
  ASSUME NEW S, NEW s \in Seq(S), s # <<>>
  PROVE  /\ Head(s) \in S
         /\ Tail(s) \in Seq(S)
         /\ \A x \in S : << x >> \o Tail(s) \in Seq(S)
<1>1. Head(s) \in S /\ Tail(s) \in Seq(S)
  OBVIOUS
<1>2. ASSUME NEW x \in S PROVE << x >> \o Tail(s) \in Seq(S)
  <2>1. << x >> \in Seq(S)
    OBVIOUS
  <2> QED BY <2>1, <1>1
<1> QED BY <1>1, <1>2

LEMMA CallMembers ==
    /\ \A kind \in {"tableBucket", "namespace", "tree", "folders", "put", "get",
                    "delete", "inspect", "createTables", "validate", "resolve",
                    "login", "read", "truncate", "write"} : <<kind, None>> \in Calls
    /\ \A kind \in {"ensure", "restore", "demand", "create"},
          b \in {Landing, Lakehouse} : <<kind, b>> \in Calls
    /\ \A e \in Envs : <<"login", e>> \in Calls
BY Zenon DEF Calls

LEMMA CallsAreTyped ==
  ASSUME NEW prog \in Programs
  PROVE  CallsOf(prog) \in Seq(Calls)
<1>1. BucketsProgram \in Seq(Calls)
  <2>1. /\ <<"tableBucket", None>> \in Calls /\ <<"ensure", Landing>> \in Calls
        /\ <<"ensure", Lakehouse>> \in Calls /\ <<"namespace", None>> \in Calls
    BY CallMembers
  <2> QED BY <2>1 DEF BucketsProgram
<1>2. SchemaProgram \in Seq(Calls)
  <2>1. /\ <<"inspect", None>> \in Calls /\ <<"createTables", None>> \in Calls
    BY CallMembers
  <2> QED BY <2>1 DEF SchemaProgram
<1>3. SwitchProgram \in Seq(Calls)
  <2>1. /\ <<"read", None>> \in Calls /\ <<"truncate", None>> \in Calls
        /\ <<"write", None>> \in Calls
    BY CallMembers
  <2> QED BY <2>1 DEF SwitchProgram
<1>4. Probing \in Seq(Calls)
  <2>1. /\ <<"put", None>> \in Calls /\ <<"get", None>> \in Calls
        /\ <<"delete", None>> \in Calls
    BY CallMembers
  <2> QED BY <2>1 DEF Probing
<1>5. LandingPreflight \in Seq(Calls)
  <2>1. << <<"tree", None>>, <<"restore", Landing>>, <<"folders", None>>,
           <<"demand", Landing>>, <<"demand", Lakehouse>> >> \in Seq(Calls)
    <3>1. /\ <<"tree", None>> \in Calls /\ <<"restore", Landing>> \in Calls
          /\ <<"folders", None>> \in Calls /\ <<"demand", Landing>> \in Calls
          /\ <<"demand", Lakehouse>> \in Calls
      BY CallMembers
    <3> QED BY <3>1
  <2>2. << <<"resolve", None>>, <<"login", None>>, <<"validate", None>> >> \in Seq(Calls)
    <3>1. /\ <<"resolve", None>> \in Calls /\ <<"login", None>> \in Calls
          /\ <<"validate", None>> \in Calls
      BY CallMembers
    <3> QED BY <3>1
  <2> QED BY <2>1, <2>2, <1>4 DEF LandingPreflight
<1>6. StagingPreflight \in Seq(Calls)
  <2>1. << <<"tableBucket", None>>, <<"namespace", None>>,
           <<"demand", Lakehouse>>, <<"demand", Landing>> >> \in Seq(Calls)
    <3>1. /\ <<"tableBucket", None>> \in Calls /\ <<"namespace", None>> \in Calls
          /\ <<"demand", Lakehouse>> \in Calls /\ <<"demand", Landing>> \in Calls
      BY CallMembers
    <3> QED BY <3>1
  <2>2. << <<"validate", None>>, <<"resolve", None>>, <<"login", None>> >> \in Seq(Calls)
    <3>1. /\ <<"validate", None>> \in Calls /\ <<"resolve", None>> \in Calls
          /\ <<"login", None>> \in Calls
      BY CallMembers
    <3> QED BY <3>1
  <2> QED BY <2>1, <2>2, <1>4 DEF StagingPreflight
<1>7. PreparePreflight \in Seq(Calls)
  <2>1. [i \in DOMAIN EnvOrder |-> <<"login", EnvOrder[i]>>] \in Seq(Calls)
    <3>1. \A e \in Envs : <<"login", e>> \in Calls
      BY CallMembers
    <3>2. EnvOrder \in Seq(Envs)
      BY SetupAssumption DEF SetupAssumption
    <3> QED BY <3>1, <3>2
  <2>2. << <<"validate", None>> >> \in Seq(Calls)
    <3>1. /\ <<"validate", None>> \in Calls
      BY CallMembers
    <3> QED BY <3>1
  <2> QED BY <2>1, <2>2 DEF PreparePreflight
<1> QED BY <1>1, <1>2, <1>3, <1>5, <1>6, <1>7 DEF CallsOf, Programs

\* The buckets are what the calls of these kinds are about.
LEMMA BucketCalls ==
  ASSUME NEW c \in Calls, c[1] \in {"ensure", "restore", "demand", "create"}
  PROVE  c[2] \in {Landing, Lakehouse}
BY DEF Calls

\* What the next call of a process is, and what remains after it.
LEMMA NextCall ==
  ASSUME TypeOK, NEW p \in Processes, todo[p] # <<>>
  PROVE  Head(todo[p]) \in Calls /\ Tail(todo[p]) \in Seq(Calls) /\ Running(p)
<1>1. todo[p] \in Seq(Calls) /\ Running(p)
  BY DEF TypeOK
<1> QED BY <1>1, TailIsTyped

LEMMA ShortenIsTyped ==
  ASSUME TypeOK, NEW p \in Processes, todo[p] # <<>>, Shorten(p),
         program' = program
  PROVE  /\ todo' \in [Processes -> Seq(Calls)]
         /\ \A q \in Processes : ~Running(q)' => todo'[q] = <<>>
<1>1. Tail(todo[p]) \in Seq(Calls) /\ Running(p)
  BY NextCall
<1> QED BY <1>1 DEF TypeOK, Shorten, Running

LEMMA EndIsTyped ==
  ASSUME TypeOK, NEW p \in Processes, End(p)
  PROVE  /\ todo' \in [Processes -> Seq(Calls)]
         /\ \A q \in Processes : ~Running(q)' => todo'[q] = <<>>
         /\ program' \in [Processes -> Programs \union {None}]
         /\ config' \in [Processes -> Envs \union {None}]
         /\ seen' \in [Processes -> Contract \union {None}]
         /\ missing' \in [Processes -> SUBSET Tables]
         /\ target' \in [Processes -> Envs \union {None}]
         /\ excused' \in [Processes -> BOOLEAN]
         /\ offered' \in [Processes -> SUBSET Envs]
<1>1. <<>> \in Seq(Calls)
  OBVIOUS
<1>2. todo' \in [Processes -> Seq(Calls)]
  BY <1>1 DEF TypeOK, End
<1>3. \A q \in Processes : ~Running(q)' => todo'[q] = <<>>
  BY DEF TypeOK, End, Forget, Running
<1> QED BY <1>2, <1>3 DEF TypeOK, End, Forget

\* The contract a process works with is one, and stays one when it has loaded it.
LEMMA LoadingIsTyped ==
  ASSUME TypeOK, NEW p \in Processes
  PROVE  /\ LoadedContract(p) \in Contract
         /\ seen' = [seen EXCEPT ![p] = LoadedContract(p)] =>
                seen' \in [Processes -> Contract \union {None}]
<1>1. seen \in [Processes -> Contract \union {None}] /\ contract \in Contract
  BY DEF TypeOK
<1>2. LoadedContract(p) \in Contract
  BY <1>1 DEF LoadedContract
<1> QED BY <1>1, <1>2

LEMMA CreateNextIsTyped ==
  ASSUME TypeOK, NEW p \in Processes, todo[p] # <<>>, CreateNext(p),
         Head(todo[p])[1] \in {"ensure", "restore"}
  PROVE  /\ todo' \in [Processes -> Seq(Calls)]
         /\ \A q \in Processes : ~Running(q)' => todo'[q] = <<>>
<1>1. Head(todo[p]) \in Calls /\ Running(p) /\ todo[p] \in Seq(Calls)
  BY NextCall DEF TypeOK
<1>2. What(p) \in {Landing, Lakehouse}
  BY <1>1, BucketCalls DEF What
<1>3. <<"create", What(p)>> \in Calls
  BY <1>2, CallMembers
<1>4. << <<"create", What(p)>> >> \o Tail(todo[p]) \in Seq(Calls)
  BY <1>1, <1>3, TailIsTyped
<1> QED BY <1>1, <1>4 DEF TypeOK, CreateNext, local, Running

\* Every variable keeps its type, and a process that has ended has nothing to do;
\* for TypeOK.
THEOREM TypeCorrect == Spec => []TypeOK
<1>1. Init => TypeOK
  <2>1. <<>> \in Seq(Calls) /\ None \notin Programs
    BY SetupAssumption DEF SetupAssumption, Programs
  <2> SUFFICES ASSUME Init PROVE TypeOK
    OBVIOUS
  <2>2. /\ have \subseteq Infrastructure /\ probe \in BOOLEAN
        /\ envfile \in Envs \union {None} /\ wanted \in Envs \union {None}
        /\ faults \in 0..MaxUpsets /\ edits \in 0..MaxUpsets
    <3>1. MaxUpsets \in Nat
      BY SetupAssumption DEF SetupAssumption
    <3>2. probe \in BOOLEAN
      BY Zenon DEF Init
    <3> QED BY <3>1, <3>2 DEF Init
  <2>3. db \in Contract /\ contract \in Contract
    BY SetupAssumption DEF Init, SetupAssumption, Contract
  <2>4. todo \in [Processes -> Seq(Calls)]
    BY <2>1 DEF Init
  <2>5. \A p \in Processes : ~Running(p) => todo[p] = <<>>
    BY DEF Init
  <2>6. /\ program \in [Processes -> Programs \union {None}]
        /\ config \in [Processes -> Envs \union {None}]
        /\ seen \in [Processes -> Contract \union {None}]
        /\ missing \in [Processes -> SUBSET Tables]
        /\ target \in [Processes -> Envs \union {None}]
        /\ offered \in [Processes -> SUBSET Envs]
    BY DEF Init
  <2>7. excused \in [Processes -> BOOLEAN]
    BY DEF Init
  <2> QED BY <2>2, <2>3, <2>4, <2>5, <2>6, <2>7 DEF TypeOK
<1>2. TypeOK /\ [Next]_vars => TypeOK'
  <2> SUFFICES ASSUME TypeOK, [Next]_vars PROVE TypeOK'
    OBVIOUS
  <2> USE DEF vars, world, local, history, Bounds
  <2>1. CASE \E p \in Processes, prog \in Programs, env \in Envs : Start(p, prog, env)
    <3>1. PICK p \in Processes, prog \in Programs, env \in Envs : Start(p, prog, env)
      BY <2>1
    <3>2. CASE envfile = None /\ prog # "switch"
      BY <3>1, <3>2, EndIsTyped DEF TypeOK, Start
    <3>3. CASE ~(envfile = None /\ prog # "switch")
      <4>1. CallsOf(prog) \in Seq(Calls) /\ prog # None
        BY CallsAreTyped, SetupAssumption DEF SetupAssumption
      <4>2. todo' \in [Processes -> Seq(Calls)]
        BY <3>1, <3>3, <4>1 DEF TypeOK, Start
      <4>3. \A q \in Processes : ~Running(q)' => todo'[q] = <<>>
        BY <3>1, <3>3, <4>1 DEF TypeOK, Start, Running
      <4>4. excused' \in [Processes -> BOOLEAN]
        BY <3>1, <3>3, Zenon DEF Start, TypeOK
      <4>5. /\ program' \in [Processes -> Programs \union {None}]
            /\ target' \in [Processes -> Envs \union {None}]
            /\ config' \in [Processes -> Envs \union {None}]
        <5>1. /\ program' = [program EXCEPT ![p] = prog]
              /\ config' = [config EXCEPT ![p] = IF Resolves(prog) THEN envfile ELSE None]
              /\ target' = [target EXCEPT ![p] = IF prog = "switch" THEN env ELSE None]
          BY <3>1, <3>3 DEF Start
        <5> QED BY <5>1 DEF TypeOK
      <4>7. UNCHANGED <<seen, missing, world, Bounds>>
        BY <3>1, <3>3 DEF Start
      <4>6. offered' \in [Processes -> SUBSET Envs]
        <5>1. {envfile, wanted} \ {None} \in SUBSET Envs
          BY DEF TypeOK
        <5> QED BY <3>1, <3>3, <5>1 DEF TypeOK, Start
      <4> QED BY <4>2, <4>3, <4>4, <4>5, <4>6, <4>7 DEF TypeOK
    <3> QED BY <3>2, <3>3
  <2>2. CASE \E p \in Processes : Pass(p)
    <3>1. PICK p \in Processes : Pass(p)
      BY <2>2
    <3> QED BY <3>1, EndIsTyped DEF TypeOK, Pass
  <2>3. CASE \E p \in Processes : CreateTableBucket(p)
    <3>1. PICK p \in Processes : CreateTableBucket(p)
      BY <2>3
    <3>2. /\ todo' \in [Processes -> Seq(Calls)]
          /\ \A q \in Processes : ~Running(q)' => todo'[q] = <<>>
      BY <3>1, ShortenIsTyped DEF CreateTableBucket, AboutTo, Advance
    <3> QED BY <3>1, <3>2 DEF TypeOK, CreateTableBucket, Advance, Infrastructure
  <2>4. CASE \E p \in Processes : CreateNamespace(p)
    <3>1. PICK p \in Processes : CreateNamespace(p)
      BY <2>4
    <3>2. CASE TableBucket \in have
      <4>1. /\ todo' \in [Processes -> Seq(Calls)]
            /\ \A q \in Processes : ~Running(q)' => todo'[q] = <<>>
        BY <3>1, <3>2, ShortenIsTyped DEF CreateNamespace, AboutTo, Advance
      <4> QED BY <3>1, <3>2, <4>1 DEF TypeOK, CreateNamespace, Advance, Infrastructure
    <3>3. CASE ~(TableBucket \in have)
      BY <3>1, <3>3, EndIsTyped DEF TypeOK, CreateNamespace
    <3> QED BY <3>2, <3>3
  <2>5. CASE \E p \in Processes : HeadToEnsure(p)
    <3>1. PICK p \in Processes : HeadToEnsure(p)
      BY <2>5
    <3>2. Head(todo[p])[1] \in {"ensure", "restore"} /\ todo[p] # <<>>
      BY <3>1 DEF HeadToEnsure, AboutTo
    <3>3. CASE What(p) \in have
      <4>1. /\ todo' \in [Processes -> Seq(Calls)]
            /\ \A q \in Processes : ~Running(q)' => todo'[q] = <<>>
        BY <3>1, <3>2, <3>3, ShortenIsTyped DEF HeadToEnsure, Advance
      <4> QED BY <3>1, <3>3, <4>1 DEF TypeOK, HeadToEnsure, Advance
    <3>4. CASE What(p) \notin have
      <4>1. /\ todo' \in [Processes -> Seq(Calls)]
            /\ \A q \in Processes : ~Running(q)' => todo'[q] = <<>>
        BY <3>1, <3>2, <3>4, CreateNextIsTyped DEF HeadToEnsure
      <4> QED BY <3>1, <3>4, <4>1 DEF TypeOK, HeadToEnsure, CreateNext
    <3> QED BY <3>3, <3>4
  <2>6. CASE \E p \in Processes : CreateBucket(p)
    <3>1. PICK p \in Processes : CreateBucket(p)
      BY <2>6
    <3>2. todo[p] # <<>> /\ What(p) \in Infrastructure
      <4>1. todo[p] # <<>> /\ Head(todo[p])[1] = "create"
        BY <3>1 DEF CreateBucket, AboutTo
      <4> QED BY <4>1, NextCall, BucketCalls DEF What, Infrastructure
    <3>3. CASE have' = have \union {What(p)} /\ Advance(p)
      <4>1. /\ todo' \in [Processes -> Seq(Calls)]
            /\ \A q \in Processes : ~Running(q)' => todo'[q] = <<>>
        BY <3>2, <3>3, ShortenIsTyped DEF Advance
      <4> QED BY <3>1, <3>2, <3>3, <4>1 DEF TypeOK, CreateBucket, Advance
    <3>4. CASE UNCHANGED have /\ End(p)
      BY <3>1, <3>4, EndIsTyped DEF TypeOK, CreateBucket
    <3> QED BY <3>1, <3>3, <3>4 DEF CreateBucket
  <2>7. CASE \E p \in Processes : HeadToDemand(p)
    <3>1. PICK p \in Processes : HeadToDemand(p)
      BY <2>7
    <3>2. CASE What(p) \in have
      <4>1. /\ todo' \in [Processes -> Seq(Calls)]
            /\ \A q \in Processes : ~Running(q)' => todo'[q] = <<>>
        BY <3>1, <3>2, ShortenIsTyped DEF HeadToDemand, AboutTo, Advance
      <4> QED BY <3>1, <3>2, <4>1 DEF TypeOK, HeadToDemand, Advance
    <3>3. CASE ~(What(p) \in have)
      BY <3>1, <3>3, EndIsTyped DEF TypeOK, HeadToDemand
    <3> QED BY <3>2, <3>3
  <2>8. CASE \E p \in Processes : ReadTree(p)
    <3>1. PICK p \in Processes : ReadTree(p)
      BY <2>8
    <3>2. CASE db[FoldersTable] # {}
      <4>1. /\ todo' \in [Processes -> Seq(Calls)]
            /\ \A q \in Processes : ~Running(q)' => todo'[q] = <<>>
        BY <3>1, <3>2, ShortenIsTyped DEF ReadTree, AboutTo, Advance
      <4>2. seen' \in [Processes -> Contract \union {None}]
        BY <3>1, <3>2, LoadingIsTyped DEF ReadTree
      <4>3. UNCHANGED <<world, program, config, missing, target, history, Bounds>>
        BY <3>1, <3>2 DEF ReadTree
      <4> QED BY <4>1, <4>2, <4>3 DEF TypeOK
    <3>3. CASE ~(db[FoldersTable] # {})
      BY <3>1, <3>3, EndIsTyped DEF TypeOK, ReadTree
    <3> QED BY <3>2, <3>3
  <2>9. CASE \E p \in Processes : PutFolders(p)
    <3>1. PICK p \in Processes : PutFolders(p)
      BY <2>9
    <3>2. /\ todo' \in [Processes -> Seq(Calls)]
          /\ \A q \in Processes : ~Running(q)' => todo'[q] = <<>>
      BY <3>1, ShortenIsTyped DEF PutFolders, AboutTo, Advance
    <3> QED BY <3>1, <3>2 DEF TypeOK, PutFolders, Advance
  <2>10. CASE \E p \in Processes : PutProbe(p)
    <3>1. PICK p \in Processes : PutProbe(p)
      BY <2>10
    <3>2. /\ todo' \in [Processes -> Seq(Calls)]
          /\ \A q \in Processes : ~Running(q)' => todo'[q] = <<>>
      BY <3>1, ShortenIsTyped DEF PutProbe, AboutTo, Advance
    <3> QED BY <3>1, <3>2 DEF TypeOK, PutProbe, Advance
  <2>11. CASE \E p \in Processes : GetProbe(p)
    <3>1. PICK p \in Processes : GetProbe(p)
      BY <2>11
    <3>2. CASE probe
      <4>1. /\ todo' \in [Processes -> Seq(Calls)]
            /\ \A q \in Processes : ~Running(q)' => todo'[q] = <<>>
        BY <3>1, <3>2, ShortenIsTyped DEF GetProbe, AboutTo, Advance
      <4> QED BY <3>1, <3>2, <4>1 DEF TypeOK, GetProbe, Advance
    <3>3. CASE ~(probe)
      BY <3>1, <3>3, EndIsTyped DEF TypeOK, GetProbe
    <3> QED BY <3>2, <3>3
  <2>12. CASE \E p \in Processes : DeleteProbe(p)
    <3>1. PICK p \in Processes : DeleteProbe(p)
      BY <2>12
    <3>2. /\ todo' \in [Processes -> Seq(Calls)]
          /\ \A q \in Processes : ~Running(q)' => todo'[q] = <<>>
      BY <3>1, ShortenIsTyped DEF DeleteProbe, AboutTo, Advance
    <3> QED BY <3>1, <3>2 DEF TypeOK, DeleteProbe, Advance
  <2>13. CASE \E p \in Processes : InspectTables(p)
    <3>1. PICK p \in Processes : InspectTables(p)
      BY <2>13
    <3>2. /\ todo' \in [Processes -> Seq(Calls)]
          /\ \A q \in Processes : ~Running(q)' => todo'[q] = <<>>
      BY <3>1, ShortenIsTyped DEF InspectTables, AboutTo
    <3>3. seen' \in [Processes -> Contract \union {None}]
      BY <3>1, LoadingIsTyped DEF InspectTables
    <3>4. missing' \in [Processes -> SUBSET Tables]
      BY <3>1 DEF TypeOK, InspectTables
    <3>5. UNCHANGED <<world, program, config, target, history, Bounds>>
      BY <3>1 DEF InspectTables
    <3> QED BY <3>2, <3>3, <3>4, <3>5 DEF TypeOK
  <2>14. CASE \E p \in Processes : CreateTables(p)
    <3>1. PICK p \in Processes : CreateTables(p)
      BY <2>14
    <3>2. CASE \A t \in missing[p] : db[t] = {}
      <4>1. /\ todo' \in [Processes -> Seq(Calls)]
            /\ \A q \in Processes : ~Running(q)' => todo'[q] = <<>>
        BY <3>1, <3>2, ShortenIsTyped DEF CreateTables, AboutTo, Advance
      <4>2. db' \in Contract
        <5>1. LoadedContract(p) \in Contract /\ db \in Contract
          BY LoadingIsTyped DEF TypeOK
        <5> QED BY <3>1, <3>2, <5>1 DEF CreateTables, Contract
      <4>3. UNCHANGED <<have, probe, contract, envfile, wanted, local, history, Bounds>>
        BY <3>1, <3>2 DEF CreateTables, Advance
      <4> QED BY <4>1, <4>2, <4>3 DEF TypeOK
    <3>3. CASE ~(\A t \in missing[p] : db[t] = {})
      BY <3>1, <3>3, EndIsTyped DEF TypeOK, CreateTables
    <3> QED BY <3>2, <3>3
  <2>15. CASE \E p \in Processes : ValidateSchema(p)
    <3>1. PICK p \in Processes : ValidateSchema(p)
      BY <2>15
    <3>2. CASE Conforms(db, LoadedContract(p))
      <4>1. /\ todo' \in [Processes -> Seq(Calls)]
            /\ \A q \in Processes : ~Running(q)' => todo'[q] = <<>>
        BY <3>1, <3>2, ShortenIsTyped DEF ValidateSchema, AboutTo, Advance
      <4>2. seen' \in [Processes -> Contract \union {None}]
        BY <3>1, <3>2, LoadingIsTyped DEF ValidateSchema
      <4>3. UNCHANGED <<world, program, config, missing, target, history, Bounds>>
        BY <3>1, <3>2 DEF ValidateSchema
      <4> QED BY <4>1, <4>2, <4>3 DEF TypeOK
    <3>3. CASE ~(Conforms(db, LoadedContract(p)))
      BY <3>1, <3>3, EndIsTyped DEF TypeOK, ValidateSchema
    <3> QED BY <3>2, <3>3
  <2>16. CASE \E p \in Processes : ResolveEnvironment(p)
    <3>1. PICK p \in Processes : ResolveEnvironment(p)
      BY <2>16
    <3>2. /\ todo' \in [Processes -> Seq(Calls)]
          /\ \A q \in Processes : ~Running(q)' => todo'[q] = <<>>
      BY <3>1, ShortenIsTyped DEF ResolveEnvironment, AboutTo
    <3> QED BY <3>1, <3>2 DEF TypeOK, ResolveEnvironment, ActiveEnvironment
  <2>17. CASE \E p \in Processes : Login(p)
    <3>1. PICK p \in Processes : Login(p)
      BY <2>17
    <3>2. CASE envfile # None
      <4>1. /\ todo' \in [Processes -> Seq(Calls)]
            /\ \A q \in Processes : ~Running(q)' => todo'[q] = <<>>
        BY <3>1, <3>2, ShortenIsTyped DEF Login, AboutTo, Advance
      <4> QED BY <3>1, <3>2, <4>1 DEF TypeOK, Login, Advance
    <3>3. CASE ~(envfile # None)
      BY <3>1, <3>3, EndIsTyped DEF TypeOK, Login
    <3> QED BY <3>2, <3>3
  <2>18. CASE \E p \in Processes : ReadFile(p)
    <3>1. PICK p \in Processes : ReadFile(p)
      BY <2>18
    <3>2. /\ todo' \in [Processes -> Seq(Calls)]
          /\ \A q \in Processes : ~Running(q)' => todo'[q] = <<>>
      BY <3>1, ShortenIsTyped DEF ReadFile, AboutTo
    <3> QED BY <3>1, <3>2 DEF TypeOK, ReadFile
  <2>19. CASE \E p \in Processes : TruncateFile(p)
    <3>1. PICK p \in Processes : TruncateFile(p)
      BY <2>19
    <3>2. /\ todo' \in [Processes -> Seq(Calls)]
          /\ \A q \in Processes : ~Running(q)' => todo'[q] = <<>>
      BY <3>1, ShortenIsTyped DEF TruncateFile, AboutTo, Advance
    <3> QED BY <3>1, <3>2 DEF TypeOK, TruncateFile, Advance
  <2>20. CASE \E p \in Processes : WriteFile(p)
    <3>1. PICK p \in Processes : WriteFile(p)
      BY <2>20
    <3>2. /\ todo' \in [Processes -> Seq(Calls)]
          /\ \A q \in Processes : ~Running(q)' => todo'[q] = <<>>
      BY <3>1, ShortenIsTyped DEF WriteFile, AboutTo
    <3> QED BY <3>1, <3>2 DEF TypeOK, WriteFile, Offer
  <2>21. CASE \E p \in Processes : CallFails(p)
    <3>1. PICK p \in Processes : CallFails(p)
      BY <2>21
    <3> QED BY <3>1, EndIsTyped, SetupAssumption DEF TypeOK, CallFails, Fault, SetupAssumption
  <2>22. CASE \E p \in Processes : HeadFails(p)
    <3>1. PICK p \in Processes : HeadFails(p)
      BY <2>22
    <3>2. Head(todo[p])[1] \in {"ensure", "restore"} /\ todo[p] # <<>>
      BY <3>1 DEF HeadFails, AboutTo
    <3>3. /\ todo' \in [Processes -> Seq(Calls)]
          /\ \A q \in Processes : ~Running(q)' => todo'[q] = <<>>
      BY <3>1, <3>2, CreateNextIsTyped DEF HeadFails
    <3> QED BY <3>1, <3>3, SetupAssumption DEF TypeOK, HeadFails, Fault, CreateNext, SetupAssumption
  <2>23. CASE \E p \in Processes : AnswerLost(p)
    <3>1. PICK p \in Processes : AnswerLost(p)
      BY <2>23
    <3>2. have' \subseteq Infrastructure /\ probe' \in BOOLEAN
      <4>1. CASE AboutTo(p, "create") /\ have' = have \union {What(p)} /\ UNCHANGED probe
        <5>1. What(p) \in {Landing, Lakehouse}
          BY <4>1, NextCall, BucketCalls DEF What, AboutTo
        <5> QED BY <4>1, <5>1 DEF TypeOK, Infrastructure
      <4> QED BY <3>1, <4>1 DEF AnswerLost, TypeOK, Infrastructure
    <3> QED BY <3>1, <3>2, EndIsTyped, SetupAssumption DEF TypeOK, AnswerLost, Fault, SetupAssumption
  <2>24. CASE \E t \in Tables, columns \in SUBSET Columns : EditContract(t, columns)
    <3>1. PICK t \in Tables, columns \in SUBSET Columns : EditContract(t, columns)
      BY <2>24
    <3>2. excused' \in [Processes -> BOOLEAN]
      BY <3>1, Zenon DEF EditContract, TypeOK
    <3>3. contract' \in Contract
      BY <3>1 DEF EditContract, TypeOK, Contract
    <3> QED BY <3>1, <3>2, <3>3, SetupAssumption DEF TypeOK, EditContract, Edit, SetupAssumption, Running
  <2>25. CASE \E env \in Envs \union {None} : EditChecklist(env)
    <3>1. PICK env \in Envs \union {None} : EditChecklist(env)
      BY <2>25
    <3> QED BY <3>1, SetupAssumption DEF TypeOK, EditChecklist, Edit, Offer, SetupAssumption, Running
  <2>26. CASE UNCHANGED vars
    BY <2>26 DEF TypeOK, Running
  <2> QED BY <2>1, <2>2, <2>3, <2>4, <2>5, <2>6, <2>7, <2>8, <2>9, <2>10, <2>11, <2>12, <2>13, <2>14, <2>15, <2>16, <2>17, <2>18, <2>19, <2>20, <2>21, <2>22, <2>23, <2>24, <2>25, <2>26 DEF Next, Work, Trouble, World
<1> QED BY <1>1, <1>2, PTL DEF Spec

-----------------------------------------------------------------------------
(* What is still to be done.  A program makes sure of each thing it needs  *)
(* by a call of its own: the thing is there, or the call is still ahead.   *)

Ahead(p) == {todo[p][i] : i \in DOMAIN todo[p]}

\* The tables the contract names exist, but for those in a set.
TablesExist(p, but) ==
    /\ seen[p] \in Contract
    /\ \A t \in Tables : seen[p][t] # {} => db[t] # {} \/ t \in but

SchemaProgress(p) ==
    \/ todo[p] = SchemaProgram
    \/ todo[p] = << <<"createTables", None>> >> /\ TablesExist(p, missing[p])
    \/ todo[p] = <<>> /\ TablesExist(p, {})

Progress(p) ==
    /\ program[p] \in {"buckets", "staging"} =>
            /\ TableBucket \in have \/ <<"tableBucket", None>> \in Ahead(p)
            /\ Namespace \in have \/ <<"namespace", None>> \in Ahead(p)
    /\ program[p] = "buckets" => \A x \in {Landing, Lakehouse} :
            x \in have \/ <<"ensure", x>> \in Ahead(p) \/ <<"create", x>> \in Ahead(p)
    /\ program[p] \in {"landing", "staging"} => \A x \in {Landing, Lakehouse} :
            x \in have \/ <<"demand", x>> \in Ahead(p)
    /\ program[p] \in {"prepare", "landing", "staging"} =>
            \/ seen[p] \in Contract /\ Conforms(db, seen[p])
            \/ <<"validate", None>> \in Ahead(p)
    /\ program[p] = "schema" => SchemaProgress(p)

\* Nothing that exists disappears, and a table that exists is never altered.
Kept ==
    /\ have \subseteq have'
    /\ \A t \in Tables : db[t] = {} \/ db'[t] = db[t]

LEMMA AheadOfTail ==
  ASSUME NEW S, NEW s \in Seq(S), s # <<>>
  PROVE  \A i \in DOMAIN s : s[i] = Head(s) \/ \E j \in DOMAIN Tail(s) : Tail(s)[j] = s[i]
<1> SUFFICES ASSUME NEW i \in DOMAIN s, i # 1
             PROVE  \E j \in DOMAIN Tail(s) : Tail(s)[j] = s[i]
  OBVIOUS
<1>1. i - 1 \in DOMAIN Tail(s) /\ Tail(s)[i - 1] = s[i]
  OBVIOUS
<1> QED BY <1>1

LEMMA ShortenKeeps ==
  ASSUME TypeOK, NEW p \in Processes, todo[p] # <<>>, Shorten(p)
  PROVE  \A c \in Ahead(p) : c = Head(todo[p]) \/ c \in Ahead(p)'
<1>1. todo[p] \in Seq(Calls) /\ todo'[p] = Tail(todo[p])
  BY DEF TypeOK, Shorten
<1>2. \A i \in DOMAIN todo[p] : todo[p][i] = Head(todo[p])
        \/ \E j \in DOMAIN Tail(todo[p]) : Tail(todo[p])[j] = todo[p][i]
  BY <1>1, AheadOfTail
<1> QED BY <1>1, <1>2 DEF Ahead

LEMMA ConformsKept ==
  ASSUME TypeOK, NEW c \in Contract, Kept, Conforms(db, c)
  PROVE  Conforms(db, c)'
BY DEF TypeOK, Kept, Conforms, Contract

LEMMA TablesExistKept ==
  ASSUME TypeOK, NEW p \in Processes, Kept, NEW S, TablesExist(p, S),
         seen'[p] = seen[p]
  PROVE  TablesExist(p, S)'
BY DEF Kept, TablesExist

\* A process that does nothing is where it was, whatever the others do.
LEMMA OthersKeepProgress ==
  ASSUME TypeOK, NEW q \in Processes, Progress(q), Kept,
         program'[q] = program[q], todo'[q] = todo[q], seen'[q] = seen[q],
         missing'[q] = missing[q]
  PROVE  Progress(q)'
<1>1. Ahead(q)' = Ahead(q)
  BY DEF Ahead
<1>2. seen[q] \in Contract /\ Conforms(db, seen[q]) => Conforms(db', seen[q])
  BY ConformsKept DEF Conforms, Kept, Contract
<1>3. SchemaProgress(q) => SchemaProgress(q)'
  BY TablesExistKept DEF SchemaProgress, TablesExist, Kept
<1> QED BY <1>1, <1>2, <1>3 DEF Progress, Kept, Conforms

\* The next call of a process has done what it is there for; create_all apart.
SeenTo(p) ==
    LET c == Head(todo[p])
    IN  /\ c[1] \notin {"inspect", "createTables"}
        /\ c[1] = "tableBucket" => TableBucket \in have'
        /\ c[1] = "namespace" => Namespace \in have'
        /\ c[1] \in {"ensure", "create", "demand"} => c[2] \in have'
        /\ c[1] = "validate" => seen'[p] \in Contract /\ Conforms(db', seen'[p])

\* A call that is done has seen to what it is there for.
LEMMA OneCallDone ==
  ASSUME TypeOK, NEW p \in Processes, Progress(p), Kept,
         todo[p] # <<>>, Shorten(p), program' = program, SeenTo(p),
         seen'[p] = seen[p] \/ (seen[p] = None /\ seen'[p] \in Contract)
  PROVE  Progress(p)'
<1> DEFINE c == Head(todo[p])
<1>0. SeenTo(p)
  OBVIOUS
<1>1. \A d \in Ahead(p) : d = c \/ d \in Ahead(p)'
  BY ShortenKeeps
<1>2. program'[p] = program[p] /\ have \subseteq have'
  BY DEF Kept
<1>3. program[p] # "schema"
  <2>1. SchemaProgress(p) => c[1] \in {"inspect", "createTables"}
    BY DEF SchemaProgress, SchemaProgram
  <2> QED BY <2>1, <1>0 DEF Progress, SeenTo
<1>4. /\ c = <<"tableBucket", None>> => TableBucket \in have'
      /\ c = <<"namespace", None>> => Namespace \in have'
      /\ c = <<"validate", None>> => seen'[p] \in Contract /\ Conforms(db', seen'[p])
  BY <1>0 DEF SeenTo
<1>5. \A x : c \in {<<"ensure", x>>, <<"create", x>>, <<"demand", x>>} => x \in have'
  BY <1>0 DEF SeenTo
<1>6. program[p] \in {"prepare", "landing", "staging"} =>
            \/ seen'[p] \in Contract /\ Conforms(db', seen'[p])
            \/ <<"validate", None>> \in Ahead(p)'
  <2>1. None \notin Contract
    BY SetupAssumption DEF SetupAssumption, Contract
  <2>2. CASE seen[p] \in Contract /\ Conforms(db, seen[p]) /\ seen'[p] = seen[p]
    BY <2>2, ConformsKept DEF Conforms, Kept, Contract
  <2>3. CASE <<"validate", None>> \in Ahead(p)
    BY <2>3, <1>1, <1>4
  <2> QED BY <2>1, <2>2, <2>3 DEF Progress
<1> HIDE DEF c
<1> QED BY <1>1, <1>2, <1>3, <1>4, <1>5, <1>6 DEF Progress, Conforms

\* The calls of a program see to all it needs: at the start they are all ahead.
LEMMA StartProgress ==
  ASSUME NEW p \in Processes, NEW prog \in Programs,
         program'[p] = prog, todo'[p] = CallsOf(prog)
  PROVE  Progress(p)'
<1> DEFINE s == todo'[p]
<1>1. CASE prog = "buckets"
  <2>1. s = BucketsProgram
    BY <1>1 DEF CallsOf
  <2>2. /\ s[1] = <<"tableBucket", None>> /\ s[4] = <<"namespace", None>>
        /\ s[2] = <<"ensure", Landing>> /\ s[3] = <<"ensure", Lakehouse>>
        /\ DOMAIN s = 1..4
    BY <2>1 DEF BucketsProgram
  <2> QED BY <1>1, <2>2 DEF Progress, Ahead
<1>2. CASE prog = "schema"
  BY <1>2 DEF Progress, CallsOf, SchemaProgress
<1>3. CASE prog = "prepare"
  <2>1. EnvOrder \in Seq(Envs)
    BY SetupAssumption DEF SetupAssumption
  <2> DEFINE logins == [i \in DOMAIN EnvOrder |-> <<"login", EnvOrder[i]>>]
  <2>2. Len(logins) = Len(EnvOrder) /\ logins \in Seq({"login"} \X Envs)
    BY <2>1
  <2>3. s = logins \o << <<"validate", None>> >>
    BY <1>3 DEF CallsOf, PreparePreflight
  <2> HIDE DEF logins
  <2>4. Len(EnvOrder) + 1 \in DOMAIN s /\ s[Len(EnvOrder) + 1] = <<"validate", None>>
    BY <2>1, <2>2, <2>3
  <2> QED BY <1>3, <2>4 DEF Progress, Ahead
<1>4. CASE prog = "landing"
  <2>1. s = LandingPreflight
    BY <1>4 DEF CallsOf
  <2>2. /\ s[4] = <<"demand", Landing>> /\ s[5] = <<"demand", Lakehouse>>
        /\ s[11] = <<"validate", None>> /\ {4, 5, 11} \subseteq DOMAIN s
    BY <2>1 DEF LandingPreflight, Probing
  <2> QED BY <1>4, <2>2 DEF Progress, Ahead
<1>5. CASE prog = "staging"
  <2>1. s = StagingPreflight
    BY <1>5 DEF CallsOf
  <2>2. /\ s[1] = <<"tableBucket", None>> /\ s[2] = <<"namespace", None>>
        /\ s[3] = <<"demand", Lakehouse>> /\ s[4] = <<"demand", Landing>>
        /\ s[8] = <<"validate", None>> /\ {1, 2, 3, 4, 8} \subseteq DOMAIN s
    BY <2>1 DEF StagingPreflight, Probing
  <2> QED BY <1>5, <2>2 DEF Progress, Ahead
<1>6. CASE prog = "switch"
  BY <1>6 DEF Progress
<1> QED BY <1>1, <1>2, <1>3, <1>4, <1>5, <1>6 DEF Programs

LEMMA EndedProgress ==
  ASSUME NEW p \in Processes, program[p] = None
  PROVE  Progress(p)
BY SetupAssumption DEF Progress, SetupAssumption, Programs

\* An action of one process, or of none, leaves the others their progress.
LEMMA OthersUndisturbed ==
  ASSUME TypeOK, \A q \in Processes : Progress(q), Kept, NEW p \in Processes,
         \A q \in Processes \ {p} :
            /\ program'[q] = program[q] /\ todo'[q] = todo[q]
            /\ seen'[q] = seen[q] /\ missing'[q] = missing[q],
         Progress(p)'
  PROVE  \A q \in Processes : Progress(q)'
BY OthersKeepProgress

LEMMA EndLeaves ==
  ASSUME TypeOK, \A q \in Processes : Progress(q), Kept, NEW p \in Processes, End(p)
  PROVE  \A q \in Processes : Progress(q)'
<1>1. program'[p] = None
  BY DEF End, Forget, TypeOK
<1>2. Progress(p)'
  BY <1>1, SetupAssumption DEF Progress, SetupAssumption, Programs
<1>3. \A q \in Processes \ {p} :
            /\ program'[q] = program[q] /\ todo'[q] = todo[q]
            /\ seen'[q] = seen[q] /\ missing'[q] = missing[q]
  BY DEF End, Forget, TypeOK
<1> QED BY <1>2, <1>3, OthersUndisturbed

\* A call is done that the process makes, and nothing else changes of it.
LEMMA CallLeaves ==
  ASSUME TypeOK, \A q \in Processes : Progress(q), Kept, NEW p \in Processes,
         todo[p] # <<>>, Shorten(p), program' = program,
         \A q \in Processes \ {p} : seen'[q] = seen[q] /\ missing'[q] = missing[q],
         SeenTo(p),
         seen'[p] = seen[p] \/ (seen[p] = None /\ seen'[p] \in Contract)
  PROVE  \A q \in Processes : Progress(q)'
<1>1. Progress(p)'
  BY OneCallDone
<1>2. \A q \in Processes \ {p} : program'[q] = program[q] /\ todo'[q] = todo[q]
  BY DEF Shorten, TypeOK
<1> QED BY <1>1, <1>2, OthersUndisturbed

\* A call that becomes another one for the same bucket leaves all still ahead.
LEMMA StillAhead ==
  ASSUME NEW p \in Processes, Progress(p), program[p] # "schema",
         have \subseteq have', program'[p] = program[p], seen'[p] = seen[p],
         seen[p] \in Contract /\ Conforms(db, seen[p]) => Conforms(db', seen[p]),
         \A x : <<"ensure", x>> \in Ahead(p) =>
            <<"ensure", x>> \in Ahead(p)' \/ <<"create", x>> \in Ahead(p)',
         \A x : /\ <<"create", x>> \in Ahead(p) => <<"create", x>> \in Ahead(p)'
                /\ <<"demand", x>> \in Ahead(p) => <<"demand", x>> \in Ahead(p)',
         /\ <<"tableBucket", None>> \in Ahead(p) => <<"tableBucket", None>> \in Ahead(p)'
         /\ <<"namespace", None>> \in Ahead(p) => <<"namespace", None>> \in Ahead(p)'
         /\ <<"validate", None>> \in Ahead(p) => <<"validate", None>> \in Ahead(p)'
  PROVE  Progress(p)'
BY DEF Progress, Conforms

LEMMA CreateNextProgress ==
  ASSUME TypeOK, NEW p \in Processes, Progress(p), Kept, todo[p] # <<>>,
         Head(todo[p])[1] \in {"ensure", "restore"},
         todo' = [todo EXCEPT ![p] = << <<"create", What(p)>> >> \o Tail(@)],
         program' = program, seen' = seen, missing' = missing
  PROVE  Progress(p)'
<1> DEFINE c == Head(todo[p])
<1>1. todo[p] \in Seq(Calls)
  BY DEF TypeOK
<1>2. todo'[p] = << <<"create", c[2]>> >> \o Tail(todo[p])
  BY DEF TypeOK, What
<1>3. Tail(todo[p]) \in Seq(Calls)
  BY <1>1
<1>4. \A d \in Ahead(p) : d = c \/ \E j \in DOMAIN Tail(todo[p]) : Tail(todo[p])[j] = d
  BY <1>1, AheadOfTail DEF Ahead
<1>5. <<"create", c[2]>> \in Ahead(p)'
  <2>1. 1 \in DOMAIN todo'[p] /\ todo'[p][1] = <<"create", c[2]>>
    BY <1>2, <1>3
  <2> QED BY <2>1 DEF Ahead
<1>6. \A j \in DOMAIN Tail(todo[p]) : Tail(todo[p])[j] \in Ahead(p)'
  <2>1. \A j \in DOMAIN Tail(todo[p]) :
            j + 1 \in DOMAIN todo'[p] /\ todo'[p][j + 1] = Tail(todo[p])[j]
    BY <1>2, <1>3
  <2> QED BY <2>1 DEF Ahead
<1>7. \A d \in Ahead(p) : d = c \/ d \in Ahead(p)'
  BY <1>4, <1>6
<1>8. program[p] # "schema"
  <2>1. SchemaProgress(p) => c[1] \in {"inspect", "createTables"}
    BY DEF SchemaProgress, SchemaProgram
  <2> QED BY <2>1 DEF Progress
<1>9. \A x : c = <<"ensure", x>> => c[2] = x
  OBVIOUS
<1>10. c[1] \notin {"tableBucket", "namespace", "create", "demand", "validate"}
  OBVIOUS
<1>11. seen[p] \in Contract /\ Conforms(db, seen[p]) => Conforms(db', seen[p])
  BY ConformsKept DEF Conforms, Kept, Contract
<1> HIDE DEF c
<1>12. \A x : <<"ensure", x>> \in Ahead(p) =>
            <<"ensure", x>> \in Ahead(p)' \/ <<"create", x>> \in Ahead(p)'
  BY <1>5, <1>7, <1>9
<1>13. \A x : /\ <<"create", x>> \in Ahead(p) => <<"create", x>> \in Ahead(p)'
              /\ <<"demand", x>> \in Ahead(p) => <<"demand", x>> \in Ahead(p)'
  BY <1>7, <1>10
<1>14. /\ <<"tableBucket", None>> \in Ahead(p) => <<"tableBucket", None>> \in Ahead(p)'
       /\ <<"namespace", None>> \in Ahead(p) => <<"namespace", None>> \in Ahead(p)'
       /\ <<"validate", None>> \in Ahead(p) => <<"validate", None>> \in Ahead(p)'
  BY <1>7, <1>10
<1>15. have \subseteq have' /\ program'[p] = program[p] /\ seen'[p] = seen[p]
  BY DEF Kept
<1> QED BY <1>8, <1>11, <1>12, <1>13, <1>14, <1>15, StillAhead

LEMMA InspectProgress ==
  ASSUME TypeOK, NEW p \in Processes, Progress(p), todo[p] # <<>>,
         Head(todo[p])[1] = "inspect", Shorten(p), program' = program,
         Kept, db' = db, seen'[p] \in Contract, seen'[p] = seen[p] \/ seen[p] = None,
         missing'[p] = {t \in Tables : seen'[p][t] # {} /\ db[t] = {}}
  PROVE  Progress(p)'
<1>1. CASE program[p] = "schema"
  <2>1. todo[p] = SchemaProgram
    BY <1>1 DEF Progress, SchemaProgress, SchemaProgram
  <2>2. todo'[p] = << <<"createTables", None>> >>
    BY <2>1 DEF Shorten, TypeOK, SchemaProgram
  <2>3. TablesExist(p, missing[p])'
    BY DEF TablesExist
  <2> QED BY <1>1, <2>2, <2>3 DEF Progress, SchemaProgress
<1>2. CASE program[p] # "schema"
  <2>1. \A d \in Ahead(p) : d = Head(todo[p]) \/ d \in Ahead(p)'
    BY ShortenKeeps
  <2>2. seen[p] \in Contract => seen'[p] = seen[p]
    BY SetupAssumption DEF SetupAssumption, Contract
  <2> QED BY <1>2, <2>1, <2>2 DEF Progress, Kept, Conforms
<1> QED BY <1>1, <1>2

LEMMA CreateTablesProgress ==
  ASSUME TypeOK, NEW p \in Processes, Progress(p), todo[p] # <<>>,
         Head(todo[p])[1] = "createTables", Shorten(p), program' = program,
         seen' = seen, missing' = missing, Kept,
         db' = [t \in Tables |-> IF t \in missing[p] THEN LoadedContract(p)[t] ELSE db[t]]
  PROVE  Progress(p)'
<1>1. CASE program[p] = "schema"
  <2>1. todo[p] = << <<"createTables", None>> >> /\ TablesExist(p, missing[p])
    BY <1>1 DEF Progress, SchemaProgress, SchemaProgram
  <2>2. todo'[p] = <<>>
    BY <2>1 DEF Shorten, TypeOK
  <2>3. None \notin Contract
    BY SetupAssumption DEF SetupAssumption, Contract
  <2>4. LoadedContract(p) = seen[p]
    BY <2>1, <2>3 DEF LoadedContract, TablesExist
  <2>5. TablesExist(p, {})'
    BY <2>1, <2>4 DEF TablesExist
  <2> QED BY <1>1, <2>2, <2>5 DEF Progress, SchemaProgress
<1>2. CASE program[p] # "schema"
  <2>1. \A d \in Ahead(p) : d = Head(todo[p]) \/ d \in Ahead(p)'
    BY ShortenKeeps
  <2>2. seen[p] \in Contract /\ Conforms(db, seen[p]) => Conforms(db', seen[p])
    BY ConformsKept DEF Conforms, Kept, Contract
  <2> QED BY <1>2, <2>1, <2>2 DEF Progress, Kept, Conforms
<1> QED BY <1>1, <1>2

\* The inductive invariant: whoever runs, and whatever is left behind or fails, what
\* a program needs is there or still ahead of it.
LEMMA ProgressIsKept ==
  ASSUME TypeOK, TypeOK', \A p \in Processes : Progress(p), [Next]_vars
  PROVE  \A p \in Processes : Progress(p)'
<1> USE DEF vars, world, local, history, Bounds
<1>1. CASE \E p \in Processes, prog \in Programs, env \in Envs : Start(p, prog, env)
  <2>1. PICK p \in Processes, prog \in Programs, env \in Envs : Start(p, prog, env)
    BY <1>1
  <2>2. CASE envfile = None /\ prog # "switch"
    <3>1. Kept /\ End(p)
      BY <2>1, <2>2 DEF Start, Kept
    <3> QED BY <3>1, EndLeaves
  <2>3. CASE ~(envfile = None /\ prog # "switch")
    <3>1. program'[p] = prog /\ todo'[p] = CallsOf(prog)
      BY <2>1, <2>3 DEF Start, TypeOK
    <3>2. Progress(p)'
      BY <3>1, StartProgress
    <3>3. Kept /\ \A q \in Processes \ {p} :
            /\ program'[q] = program[q] /\ todo'[q] = todo[q]
            /\ seen'[q] = seen[q] /\ missing'[q] = missing[q]
      BY <2>1, <2>3 DEF Start, TypeOK, Kept
    <3> QED BY <3>2, <3>3, OthersUndisturbed
  <2> QED BY <2>2, <2>3
<1>2. CASE \E p \in Processes : Pass(p)
  <2>1. PICK p \in Processes : Pass(p)
    BY <1>2
  <2>2. Kept /\ End(p)
    BY <2>1 DEF Pass, Kept
  <2> QED BY <2>2, EndLeaves
<1>3. CASE \E p \in Processes : CreateTableBucket(p)
  <2>1. PICK p \in Processes : CreateTableBucket(p)
    BY <1>3
  <2>2. Kept
    BY <2>1 DEF CreateTableBucket, Kept, Advance
  <2>3. todo[p] # <<>> /\ Shorten(p) /\ program' = program
    BY <2>1 DEF CreateTableBucket, AboutTo, Advance
  <2>4. \A q \in Processes \ {p} : seen'[q] = seen[q] /\ missing'[q] = missing[q]
    BY <2>1 DEF CreateTableBucket, TypeOK, Advance
  <2>5. /\ Head(todo[p])[1] = "tableBucket"
        /\ seen'[p] = seen[p] \/ (seen[p] = None /\ seen'[p] \in Contract)
    BY <2>1 DEF CreateTableBucket, AboutTo, TypeOK, LoadedContract, Advance
  <2>6. TableBucket \in have'
    BY <2>1 DEF CreateTableBucket, Advance
  <2>7. SeenTo(p)
    BY <2>5, <2>6 DEF SeenTo
  <2> QED BY <2>2, <2>3, <2>4, <2>5, <2>6, <2>7, CallLeaves
<1>4. CASE \E p \in Processes : CreateNamespace(p)
  <2>1. PICK p \in Processes : CreateNamespace(p)
    BY <1>4
  <2>2. CASE TableBucket \in have
    <3>1. Kept
      BY <2>1, <2>2 DEF CreateNamespace, Kept, Advance
    <3>2. todo[p] # <<>> /\ Shorten(p) /\ program' = program
      BY <2>1, <2>2 DEF CreateNamespace, AboutTo, Advance
    <3>3. \A q \in Processes \ {p} : seen'[q] = seen[q] /\ missing'[q] = missing[q]
      BY <2>1, <2>2 DEF CreateNamespace, TypeOK, Advance
    <3>4. /\ Head(todo[p])[1] = "namespace"
          /\ seen'[p] = seen[p] \/ (seen[p] = None /\ seen'[p] \in Contract)
      BY <2>1, <2>2 DEF CreateNamespace, AboutTo, TypeOK, LoadedContract, Advance
    <3>5. Namespace \in have'
      BY <2>1, <2>2 DEF CreateNamespace, Advance
    <3>6. SeenTo(p)
      BY <3>4, <3>5 DEF SeenTo
    <3> QED BY <3>1, <3>2, <3>3, <3>4, <3>5, <3>6, CallLeaves
  <2>3. CASE ~(TableBucket \in have)
    <3>1. Kept /\ End(p)
      BY <2>1, <2>3 DEF CreateNamespace, Kept
    <3> QED BY <3>1, EndLeaves
  <2> QED BY <2>2, <2>3
<1>5. CASE \E p \in Processes : HeadToEnsure(p)
  <2>1. PICK p \in Processes : HeadToEnsure(p)
    BY <1>5
  <2>2. CASE What(p) \in have
    <3>1. Kept
      BY <2>1, <2>2 DEF HeadToEnsure, Kept, Advance
    <3>2. /\ todo[p] # <<>> /\ Shorten(p) /\ program' = program
          /\ seen' = seen /\ missing' = missing
      BY <2>1, <2>2 DEF HeadToEnsure, AboutTo, Advance
    <3>3. Head(todo[p])[1] \in {"ensure", "restore"} /\ Head(todo[p])[2] \in have'
      BY <2>1, <2>2 DEF HeadToEnsure, AboutTo, What
    <3>4. SeenTo(p)
      BY <3>3 DEF SeenTo
    <3>5. \A q \in Processes \ {p} : seen'[q] = seen[q] /\ missing'[q] = missing[q]
      BY <3>2
    <3>6. seen'[p] = seen[p]
      BY <3>2
    <3> QED BY <3>1, <3>2, <3>4, <3>5, <3>6, CallLeaves
  <2>3. CASE What(p) \notin have
    <3>1. /\ program' = program /\ seen' = seen /\ missing' = missing
          /\ todo' = [todo EXCEPT ![p] = << <<"create", What(p)>> >> \o Tail(@)]
      BY <2>1, <2>3 DEF HeadToEnsure, CreateNext
    <3>2. Progress(p)'
      BY <3>1, <2>1, <2>3, CreateNextProgress DEF HeadToEnsure, AboutTo, Kept
    <3>3. Kept /\ \A q \in Processes \ {p} : todo'[q] = todo[q]
      BY <3>1, <2>1, <2>3 DEF HeadToEnsure, TypeOK, Kept
    <3> QED BY <3>1, <3>2, <3>3, OthersUndisturbed
  <2> QED BY <2>2, <2>3
<1>6. CASE \E p \in Processes : CreateBucket(p)
  <2>1. PICK p \in Processes : CreateBucket(p)
    BY <1>6
  <2>2. CASE have' = have \union {What(p)} /\ Advance(p)
    <3>1. Kept
      BY <2>1, <2>2 DEF CreateBucket, Kept
    <3>2. /\ todo[p] # <<>> /\ Shorten(p) /\ program' = program
          /\ seen' = seen /\ missing' = missing
      BY <2>1, <2>2 DEF CreateBucket, AboutTo, Advance
    <3>3. Head(todo[p])[1] = "create" /\ Head(todo[p])[2] \in have'
      BY <2>1, <2>2 DEF CreateBucket, AboutTo, What
    <3>4. SeenTo(p)
      BY <3>3 DEF SeenTo
    <3>5. \A q \in Processes \ {p} : seen'[q] = seen[q] /\ missing'[q] = missing[q]
      BY <3>2
    <3>6. seen'[p] = seen[p]
      BY <3>2
    <3> QED BY <3>1, <3>2, <3>4, <3>5, <3>6, CallLeaves
  <2>3. CASE UNCHANGED have /\ End(p)
    <3>1. Kept
      BY <2>1, <2>3 DEF CreateBucket, Kept
    <3> QED BY <3>1, <2>3, EndLeaves
  <2> QED BY <2>1, <2>2, <2>3 DEF CreateBucket
<1>7. CASE \E p \in Processes : HeadToDemand(p)
  <2>1. PICK p \in Processes : HeadToDemand(p)
    BY <1>7
  <2>2. CASE What(p) \in have
    <3>1. Kept
      BY <2>1, <2>2 DEF HeadToDemand, Kept, Advance
    <3>2. todo[p] # <<>> /\ Shorten(p) /\ program' = program
      BY <2>1, <2>2 DEF HeadToDemand, AboutTo, Advance
    <3>3. \A q \in Processes \ {p} : seen'[q] = seen[q] /\ missing'[q] = missing[q]
      BY <2>1, <2>2 DEF HeadToDemand, TypeOK, Advance
    <3>4. /\ Head(todo[p])[1] = "demand"
          /\ seen'[p] = seen[p] \/ (seen[p] = None /\ seen'[p] \in Contract)
      BY <2>1, <2>2 DEF HeadToDemand, AboutTo, TypeOK, LoadedContract, Advance
    <3>5. Head(todo[p])[2] \in have'
      BY <2>1, <2>2 DEF HeadToDemand, Advance, What
    <3>6. SeenTo(p)
      BY <3>4, <3>5 DEF SeenTo
    <3> QED BY <3>1, <3>2, <3>3, <3>4, <3>5, <3>6, CallLeaves
  <2>3. CASE ~(What(p) \in have)
    <3>1. Kept /\ End(p)
      BY <2>1, <2>3 DEF HeadToDemand, Kept
    <3> QED BY <3>1, EndLeaves
  <2> QED BY <2>2, <2>3
<1>8. CASE \E p \in Processes : ReadTree(p)
  <2>1. PICK p \in Processes : ReadTree(p)
    BY <1>8
  <2>2. CASE db[FoldersTable] # {}
    <3>1. Kept
      BY <2>1, <2>2 DEF ReadTree, Kept
    <3>2. todo[p] # <<>> /\ Shorten(p) /\ program' = program
      BY <2>1, <2>2 DEF ReadTree, AboutTo
    <3>3. \A q \in Processes \ {p} : seen'[q] = seen[q] /\ missing'[q] = missing[q]
      BY <2>1, <2>2 DEF ReadTree, TypeOK
    <3>4. /\ Head(todo[p])[1] = "tree"
          /\ seen'[p] = seen[p] \/ (seen[p] = None /\ seen'[p] \in Contract)
      BY <2>1, <2>2 DEF ReadTree, AboutTo, TypeOK, LoadedContract
    <3>5. SeenTo(p)
      BY <3>4 DEF SeenTo
    <3> QED BY <3>1, <3>2, <3>3, <3>4, <3>5, CallLeaves
  <2>3. CASE ~(db[FoldersTable] # {})
    <3>1. Kept /\ End(p)
      BY <2>1, <2>3 DEF ReadTree, Kept
    <3> QED BY <3>1, EndLeaves
  <2> QED BY <2>2, <2>3
<1>9. CASE \E p \in Processes : PutFolders(p)
  <2>1. PICK p \in Processes : PutFolders(p)
    BY <1>9
  <2>2. Kept
    BY <2>1 DEF PutFolders, Kept, Advance
  <2>3. todo[p] # <<>> /\ Shorten(p) /\ program' = program
    BY <2>1 DEF PutFolders, AboutTo, Advance
  <2>4. \A q \in Processes \ {p} : seen'[q] = seen[q] /\ missing'[q] = missing[q]
    BY <2>1 DEF PutFolders, TypeOK, Advance
  <2>5. /\ Head(todo[p])[1] = "folders"
        /\ seen'[p] = seen[p] \/ (seen[p] = None /\ seen'[p] \in Contract)
    BY <2>1 DEF PutFolders, AboutTo, TypeOK, LoadedContract, Advance
  <2>6. SeenTo(p)
    BY <2>5 DEF SeenTo
  <2> QED BY <2>2, <2>3, <2>4, <2>5, <2>6, CallLeaves
<1>10. CASE \E p \in Processes : PutProbe(p)
  <2>1. PICK p \in Processes : PutProbe(p)
    BY <1>10
  <2>2. Kept
    BY <2>1 DEF PutProbe, Kept, Advance
  <2>3. todo[p] # <<>> /\ Shorten(p) /\ program' = program
    BY <2>1 DEF PutProbe, AboutTo, Advance
  <2>4. \A q \in Processes \ {p} : seen'[q] = seen[q] /\ missing'[q] = missing[q]
    BY <2>1 DEF PutProbe, TypeOK, Advance
  <2>5. /\ Head(todo[p])[1] = "put"
        /\ seen'[p] = seen[p] \/ (seen[p] = None /\ seen'[p] \in Contract)
    BY <2>1 DEF PutProbe, AboutTo, TypeOK, LoadedContract, Advance
  <2>6. SeenTo(p)
    BY <2>5 DEF SeenTo
  <2> QED BY <2>2, <2>3, <2>4, <2>5, <2>6, CallLeaves
<1>11. CASE \E p \in Processes : GetProbe(p)
  <2>1. PICK p \in Processes : GetProbe(p)
    BY <1>11
  <2>2. CASE probe
    <3>1. Kept
      BY <2>1, <2>2 DEF GetProbe, Kept, Advance
    <3>2. todo[p] # <<>> /\ Shorten(p) /\ program' = program
      BY <2>1, <2>2 DEF GetProbe, AboutTo, Advance
    <3>3. \A q \in Processes \ {p} : seen'[q] = seen[q] /\ missing'[q] = missing[q]
      BY <2>1, <2>2 DEF GetProbe, TypeOK, Advance
    <3>4. /\ Head(todo[p])[1] = "get"
          /\ seen'[p] = seen[p] \/ (seen[p] = None /\ seen'[p] \in Contract)
      BY <2>1, <2>2 DEF GetProbe, AboutTo, TypeOK, LoadedContract, Advance
    <3>5. SeenTo(p)
      BY <3>4 DEF SeenTo
    <3> QED BY <3>1, <3>2, <3>3, <3>4, <3>5, CallLeaves
  <2>3. CASE ~(probe)
    <3>1. Kept /\ End(p)
      BY <2>1, <2>3 DEF GetProbe, Kept
    <3> QED BY <3>1, EndLeaves
  <2> QED BY <2>2, <2>3
<1>12. CASE \E p \in Processes : DeleteProbe(p)
  <2>1. PICK p \in Processes : DeleteProbe(p)
    BY <1>12
  <2>2. Kept
    BY <2>1 DEF DeleteProbe, Kept, Advance
  <2>3. todo[p] # <<>> /\ Shorten(p) /\ program' = program
    BY <2>1 DEF DeleteProbe, AboutTo, Advance
  <2>4. \A q \in Processes \ {p} : seen'[q] = seen[q] /\ missing'[q] = missing[q]
    BY <2>1 DEF DeleteProbe, TypeOK, Advance
  <2>5. /\ Head(todo[p])[1] = "delete"
        /\ seen'[p] = seen[p] \/ (seen[p] = None /\ seen'[p] \in Contract)
    BY <2>1 DEF DeleteProbe, AboutTo, TypeOK, LoadedContract, Advance
  <2>6. SeenTo(p)
    BY <2>5 DEF SeenTo
  <2> QED BY <2>2, <2>3, <2>4, <2>5, <2>6, CallLeaves
<1>13. CASE \E p \in Processes : InspectTables(p)
  <2>1. PICK p \in Processes : InspectTables(p)
    BY <1>13
  <2>2. Kept /\ todo[p] # <<>> /\ Head(todo[p])[1] = "inspect" /\ Shorten(p)
        /\ program' = program /\ db' = db
    BY <2>1 DEF InspectTables, AboutTo, Kept
  <2>3. /\ seen'[p] \in Contract /\ (seen'[p] = seen[p] \/ seen[p] = None)
        /\ missing'[p] = {t \in Tables : seen'[p][t] # {} /\ db[t] = {}}
    BY <2>1 DEF InspectTables, TypeOK, LoadedContract
  <2>4. Progress(p)'
    BY <2>2, <2>3, InspectProgress
  <2>5. \A q \in Processes \ {p} :
            todo'[q] = todo[q] /\ seen'[q] = seen[q] /\ missing'[q] = missing[q]
    BY <2>1 DEF InspectTables, Shorten, TypeOK
  <2> QED BY <2>2, <2>4, <2>5, OthersUndisturbed
<1>14. CASE \E p \in Processes : CreateTables(p)
  <2>1. PICK p \in Processes : CreateTables(p)
    BY <1>14
  <2>2. CASE \A t \in missing[p] : db[t] = {}
    <3>1. /\ todo[p] # <<>> /\ Head(todo[p])[1] = "createTables" /\ Shorten(p)
          /\ program' = program /\ seen' = seen /\ missing' = missing
      BY <2>1, <2>2 DEF CreateTables, AboutTo, Advance
    <3>2. db' = [t \in Tables |-> IF t \in missing[p] THEN LoadedContract(p)[t] ELSE db[t]]
      BY <2>1, <2>2 DEF CreateTables
    <3>3. Kept
      BY <2>1, <2>2, <3>2 DEF CreateTables, Kept, TypeOK
    <3>4. Progress(p)'
      BY <3>1, <3>2, <3>3, CreateTablesProgress
    <3>5. \A q \in Processes \ {p} : todo'[q] = todo[q]
      BY <3>1 DEF Shorten, TypeOK
    <3> QED BY <3>1, <3>3, <3>4, <3>5, OthersUndisturbed
  <2>3. CASE ~(\A t \in missing[p] : db[t] = {})
    <3>1. Kept /\ End(p)
      BY <2>1, <2>3 DEF CreateTables, Kept
    <3> QED BY <3>1, EndLeaves
  <2> QED BY <2>2, <2>3
<1>15. CASE \E p \in Processes : ValidateSchema(p)
  <2>1. PICK p \in Processes : ValidateSchema(p)
    BY <1>15
  <2>2. CASE Conforms(db, LoadedContract(p))
    <3>1. Kept
      BY <2>1, <2>2 DEF ValidateSchema, Kept
    <3>2. todo[p] # <<>> /\ Shorten(p) /\ program' = program
      BY <2>1, <2>2 DEF ValidateSchema, AboutTo
    <3>3. \A q \in Processes \ {p} : seen'[q] = seen[q] /\ missing'[q] = missing[q]
      BY <2>1, <2>2 DEF ValidateSchema, TypeOK
    <3>4. /\ Head(todo[p])[1] = "validate"
          /\ seen'[p] = seen[p] \/ (seen[p] = None /\ seen'[p] \in Contract)
      BY <2>1, <2>2 DEF ValidateSchema, AboutTo, TypeOK, LoadedContract
    <3>5. seen'[p] \in Contract /\ Conforms(db', seen'[p])
      BY <2>1, <2>2 DEF ValidateSchema, LoadedContract, TypeOK
    <3>6. SeenTo(p)
      BY <3>4, <3>5 DEF SeenTo
    <3> QED BY <3>1, <3>2, <3>3, <3>4, <3>5, <3>6, CallLeaves
  <2>3. CASE ~(Conforms(db, LoadedContract(p)))
    <3>1. Kept /\ End(p)
      BY <2>1, <2>3 DEF ValidateSchema, Kept
    <3> QED BY <3>1, EndLeaves
  <2> QED BY <2>2, <2>3
<1>16. CASE \E p \in Processes : ResolveEnvironment(p)
  <2>1. PICK p \in Processes : ResolveEnvironment(p)
    BY <1>16
  <2>2. Kept
    BY <2>1 DEF ResolveEnvironment, Kept
  <2>3. todo[p] # <<>> /\ Shorten(p) /\ program' = program
    BY <2>1 DEF ResolveEnvironment, AboutTo
  <2>4. \A q \in Processes \ {p} : seen'[q] = seen[q] /\ missing'[q] = missing[q]
    BY <2>1 DEF ResolveEnvironment, TypeOK
  <2>5. /\ Head(todo[p])[1] = "resolve"
        /\ seen'[p] = seen[p] \/ (seen[p] = None /\ seen'[p] \in Contract)
    BY <2>1 DEF ResolveEnvironment, AboutTo, TypeOK, LoadedContract
  <2>6. SeenTo(p)
    BY <2>5 DEF SeenTo
  <2> QED BY <2>2, <2>3, <2>4, <2>5, <2>6, CallLeaves
<1>17. CASE \E p \in Processes : Login(p)
  <2>1. PICK p \in Processes : Login(p)
    BY <1>17
  <2>2. CASE envfile # None
    <3>1. Kept
      BY <2>1, <2>2 DEF Login, Kept, Advance
    <3>2. todo[p] # <<>> /\ Shorten(p) /\ program' = program
      BY <2>1, <2>2 DEF Login, AboutTo, Advance
    <3>3. \A q \in Processes \ {p} : seen'[q] = seen[q] /\ missing'[q] = missing[q]
      BY <2>1, <2>2 DEF Login, TypeOK, Advance
    <3>4. /\ Head(todo[p])[1] = "login"
          /\ seen'[p] = seen[p] \/ (seen[p] = None /\ seen'[p] \in Contract)
      BY <2>1, <2>2 DEF Login, AboutTo, TypeOK, LoadedContract, Advance
    <3>5. SeenTo(p)
      BY <3>4 DEF SeenTo
    <3> QED BY <3>1, <3>2, <3>3, <3>4, <3>5, CallLeaves
  <2>3. CASE ~(envfile # None)
    <3>1. Kept /\ End(p)
      BY <2>1, <2>3 DEF Login, Kept
    <3> QED BY <3>1, EndLeaves
  <2> QED BY <2>2, <2>3
<1>18. CASE \E p \in Processes : ReadFile(p)
  <2>1. PICK p \in Processes : ReadFile(p)
    BY <1>18
  <2>2. Kept
    BY <2>1 DEF ReadFile, Kept
  <2>3. todo[p] # <<>> /\ Shorten(p) /\ program' = program
    BY <2>1 DEF ReadFile, AboutTo
  <2>4. \A q \in Processes \ {p} : seen'[q] = seen[q] /\ missing'[q] = missing[q]
    BY <2>1 DEF ReadFile, TypeOK
  <2>5. /\ Head(todo[p])[1] = "read"
        /\ seen'[p] = seen[p] \/ (seen[p] = None /\ seen'[p] \in Contract)
    BY <2>1 DEF ReadFile, AboutTo, TypeOK, LoadedContract
  <2>6. SeenTo(p)
    BY <2>5 DEF SeenTo
  <2> QED BY <2>2, <2>3, <2>4, <2>5, <2>6, CallLeaves
<1>19. CASE \E p \in Processes : TruncateFile(p)
  <2>1. PICK p \in Processes : TruncateFile(p)
    BY <1>19
  <2>2. Kept
    BY <2>1 DEF TruncateFile, Kept, Advance
  <2>3. todo[p] # <<>> /\ Shorten(p) /\ program' = program
    BY <2>1 DEF TruncateFile, AboutTo, Advance
  <2>4. \A q \in Processes \ {p} : seen'[q] = seen[q] /\ missing'[q] = missing[q]
    BY <2>1 DEF TruncateFile, TypeOK, Advance
  <2>5. /\ Head(todo[p])[1] = "truncate"
        /\ seen'[p] = seen[p] \/ (seen[p] = None /\ seen'[p] \in Contract)
    BY <2>1 DEF TruncateFile, AboutTo, TypeOK, LoadedContract, Advance
  <2>6. SeenTo(p)
    BY <2>5 DEF SeenTo
  <2> QED BY <2>2, <2>3, <2>4, <2>5, <2>6, CallLeaves
<1>20. CASE \E p \in Processes : WriteFile(p)
  <2>1. PICK p \in Processes : WriteFile(p)
    BY <1>20
  <2>2. Kept
    BY <2>1 DEF WriteFile, Kept
  <2>3. todo[p] # <<>> /\ Shorten(p) /\ program' = program
    BY <2>1 DEF WriteFile, AboutTo
  <2>4. \A q \in Processes \ {p} : seen'[q] = seen[q] /\ missing'[q] = missing[q]
    BY <2>1 DEF WriteFile, TypeOK
  <2>5. /\ Head(todo[p])[1] = "write"
        /\ seen'[p] = seen[p] \/ (seen[p] = None /\ seen'[p] \in Contract)
    BY <2>1 DEF WriteFile, AboutTo, TypeOK, LoadedContract
  <2>6. SeenTo(p)
    BY <2>5 DEF SeenTo
  <2> QED BY <2>2, <2>3, <2>4, <2>5, <2>6, CallLeaves
<1>21. CASE \E p \in Processes : CallFails(p)
  <2>1. PICK p \in Processes : CallFails(p)
    BY <1>21
  <2>2. Kept /\ End(p)
    BY <2>1 DEF CallFails, Kept
  <2> QED BY <2>2, EndLeaves
<1>22. CASE \E p \in Processes : HeadFails(p)
  <2>1. PICK p \in Processes : HeadFails(p)
    BY <1>22
  <2>2. /\ program' = program /\ seen' = seen /\ missing' = missing
          /\ todo' = [todo EXCEPT ![p] = << <<"create", What(p)>> >> \o Tail(@)]
      BY <2>1 DEF HeadFails, CreateNext
  <2>3. Progress(p)'
      BY <2>2, <2>1, CreateNextProgress DEF HeadFails, AboutTo, Kept
  <2>4. Kept /\ \A q \in Processes \ {p} : todo'[q] = todo[q]
      BY <2>2, <2>1 DEF HeadFails, TypeOK, Kept
  <2> QED BY <2>2, <2>3, <2>4, OthersUndisturbed
<1>23. CASE \E p \in Processes : AnswerLost(p)
  <2>1. PICK p \in Processes : AnswerLost(p)
    BY <1>23
  <2>2. Kept /\ End(p)
    BY <2>1 DEF AnswerLost, Kept
  <2> QED BY <2>2, EndLeaves
<1>24. CASE \E t \in Tables, columns \in SUBSET Columns : EditContract(t, columns)
  <2>1. Kept /\ UNCHANGED <<todo, program, seen, missing>>
    BY <1>24 DEF EditContract, Kept
  <2> QED BY <2>1, OthersKeepProgress
<1>25. CASE \E env \in Envs \union {None} : EditChecklist(env)
  <2>1. Kept /\ UNCHANGED <<todo, program, seen, missing>>
    BY <1>25 DEF EditChecklist, Kept
  <2> QED BY <2>1, OthersKeepProgress
<1>26. CASE UNCHANGED vars
  <2>1. Kept /\ UNCHANGED <<todo, program, seen, missing>>
    BY <1>26 DEF Kept
  <2> QED BY <2>1, OthersKeepProgress
<1> QED BY <1>1, <1>2, <1>3, <1>4, <1>5, <1>6, <1>7, <1>8, <1>9, <1>10, <1>11, <1>12, <1>13, <1>14, <1>15, <1>16, <1>17, <1>18, <1>19, <1>20, <1>21, <1>22, <1>23, <1>24, <1>25, <1>26 DEF Next, Work, Trouble, World

\* A program that ends well has, or has found, everything the job behind it needs;
\* for PassedMeansReady.
THEOREM PassedIsReady == Spec => PassedMeansReady
<1> DEFINE Inv == \A p \in Processes : Progress(p)
<1>1. Init => Inv
  BY EndedProgress DEF Init
<1>2. TypeOK /\ TypeOK' /\ Inv /\ [Next]_vars => Inv'
  BY ProgressIsKept
<1>3. TypeOK /\ Inv /\ [Next]_vars =>
        [\A p \in Processes : Ends(p) /\ todo[p] = <<>> => Ready(p)]_vars
  <2> SUFFICES ASSUME Inv, NEW p \in Processes, todo[p] = <<>> PROVE Ready(p)
    OBVIOUS
  <2>1. Ahead(p) = {} /\ Progress(p)
    BY DEF Ahead
  <2>2. program[p] = "schema" => TablesExist(p, {})
    BY <2>1 DEF Progress, SchemaProgress, SchemaProgram
  <2> QED BY <2>1, <2>2
          DEF Progress, Ready, Infrastructure, Conforms, TablesExist
<1> QED BY <1>1, <1>2, <1>3, TypeCorrect, PTL DEF Spec, PassedMeansReady

-----------------------------------------------------------------------------
(* The environment a preflight tests.  What it was started with, and what  *)
(* the checklist says, have been selected since; nothing it calls reads    *)
(* enviroment.yml again for the choice.                                    *)

NeverReads(p) == \A c \in Ahead(p) : c[1] # "read"

Selected(p) ==
    Resolves(program[p]) =>
        /\ config[p] \in offered[p]
        /\ wanted \in offered[p] \union {None}
        /\ target[p] \in offered[p] \union {None}
        /\ NeverReads(p)

\* Most calls select nothing: they are done, become another call, or end the process.
SelectsNothing(p) ==
    /\ wanted' = wanted
    /\ \/ End(p)
       \/ /\ todo[p] # <<>>
          /\ Shorten(p) \/ CreateNext(p)
          /\ UNCHANGED <<program, config, target, offered>>

LEMMA MostSelectNothing ==
  ASSUME NEW p \in Processes,
         \/ Pass(p) \/ CreateTableBucket(p) \/ CreateNamespace(p)
         \/ HeadToEnsure(p) \/ CreateBucket(p) \/ HeadToDemand(p)
         \/ ReadTree(p) \/ PutFolders(p) \/ PutProbe(p) \/ GetProbe(p)
         \/ DeleteProbe(p) \/ InspectTables(p) \/ CreateTables(p)
         \/ ValidateSchema(p) \/ Login(p) \/ TruncateFile(p)
         \/ CallFails(p) \/ HeadFails(p) \/ AnswerLost(p)
  PROVE  SelectsNothing(p)
<1> USE DEF SelectsNothing, world, local, history, AboutTo, Advance
<1>1. CASE Pass(p)
  BY <1>1 DEF Pass
<1>2. CASE CreateTableBucket(p)
  BY <1>2 DEF CreateTableBucket
<1>3. CASE CreateNamespace(p)
  BY <1>3 DEF CreateNamespace
<1>4. CASE HeadToEnsure(p)
  BY <1>4 DEF HeadToEnsure, CreateNext
<1>5. CASE CreateBucket(p)
  BY <1>5 DEF CreateBucket
<1>6. CASE HeadToDemand(p)
  BY <1>6 DEF HeadToDemand
<1>7. CASE ReadTree(p)
  BY <1>7 DEF ReadTree
<1>8. CASE PutFolders(p)
  BY <1>8 DEF PutFolders
<1>9. CASE PutProbe(p)
  BY <1>9 DEF PutProbe
<1>10. CASE GetProbe(p)
  BY <1>10 DEF GetProbe
<1>11. CASE DeleteProbe(p)
  BY <1>11 DEF DeleteProbe
<1>12. CASE InspectTables(p)
  BY <1>12 DEF InspectTables
<1>13. CASE CreateTables(p)
  BY <1>13 DEF CreateTables
<1>14. CASE ValidateSchema(p)
  BY <1>14 DEF ValidateSchema
<1>15. CASE Login(p)
  BY <1>15 DEF Login
<1>16. CASE TruncateFile(p)
  BY <1>16 DEF TruncateFile
<1>17. CASE CallFails(p)
  BY <1>17 DEF CallFails
<1>18. CASE HeadFails(p)
  BY <1>18 DEF HeadFails, CreateNext
<1>19. CASE AnswerLost(p)
  BY <1>19 DEF AnswerLost
<1> QED BY <1>1, <1>2, <1>3, <1>4, <1>5, <1>6, <1>7, <1>8, <1>9, <1>10, <1>11, <1>12, <1>13, <1>14, <1>15, <1>16, <1>17, <1>18, <1>19

\* A call that is done, or that becomes the creation of a bucket, leads to no reading.
LEMMA StillNeverReads ==
  ASSUME TypeOK, NEW p \in Processes, todo[p] # <<>>, NeverReads(p),
         Shorten(p) \/ CreateNext(p)
  PROVE  NeverReads(p)'
<1>1. todo[p] \in Seq(Calls)
  BY DEF TypeOK
<1>2. \A j \in DOMAIN Tail(todo[p]) : Tail(todo[p])[j][1] # "read"
  <2>1. \A j \in DOMAIN Tail(todo[p]) : j + 1 \in DOMAIN todo[p] /\ Tail(todo[p])[j] = todo[p][j + 1]
    BY <1>1
  <2> QED BY <2>1 DEF NeverReads, Ahead
<1>3. CASE Shorten(p)
  <2>1. todo'[p] = Tail(todo[p])
    BY <1>3 DEF Shorten, TypeOK
  <2> QED BY <2>1, <1>2 DEF NeverReads, Ahead
<1>4. CASE CreateNext(p)
  <2>1. todo'[p] = << <<"create", What(p)>> >> \o Tail(todo[p])
    BY <1>4 DEF CreateNext, TypeOK
  <2>2. Tail(todo[p]) \in Seq(Calls)
    BY <1>1
  <2>3. \A i \in DOMAIN todo'[p] : \/ todo'[p][i] = <<"create", What(p)>>
                                   \/ /\ i - 1 \in DOMAIN Tail(todo[p])
                                      /\ todo'[p][i] = Tail(todo[p])[i - 1]
    BY <2>1, <2>2
  <2>4. \A i \in DOMAIN todo'[p] : todo'[p][i][1] # "read"
    BY <2>3, <1>2
  <2> QED BY <2>4 DEF NeverReads, Ahead
<1> QED BY <1>3, <1>4

\* The preflights do not read the file for themselves.
LEMMA PreflightsNeverRead ==
  ASSUME NEW p \in Processes, NEW prog \in {"landing", "staging"}, todo'[p] = CallsOf(prog)
  PROVE  NeverReads(p)'
<1>1. \A i \in DOMAIN LandingPreflight : LandingPreflight[i][1] # "read"
  BY DEF LandingPreflight, Probing
<1>2. \A i \in DOMAIN StagingPreflight : StagingPreflight[i][1] # "read"
  BY DEF StagingPreflight, Probing
<1> QED BY <1>1, <1>2 DEF CallsOf, NeverReads, Ahead

\* A process that does nothing keeps what was selected, if more may be selected.
LEMMA OthersStaySelected ==
  ASSUME NEW q \in Processes, Selected(q),
         program'[q] = program[q], todo'[q] = todo[q], config'[q] = config[q],
         target'[q] = target[q], offered[q] \subseteq offered'[q],
         wanted' \in {wanted, None} \/ wanted' \in offered'[q]
  PROVE  Selected(q)'
BY DEF Selected, NeverReads, Ahead, Resolves

LEMMA SelectingNothing ==
  ASSUME TypeOK, \A q \in Processes : Selected(q), NEW p \in Processes, SelectsNothing(p)
  PROVE  \A q \in Processes : Selected(q)'
<1>1. ASSUME NEW q \in Processes \ {p} PROVE Selected(q)'
  <2>1. /\ program'[q] = program[q] /\ todo'[q] = todo[q] /\ config'[q] = config[q]
        /\ target'[q] = target[q] /\ offered[q] \subseteq offered'[q] /\ wanted' = wanted
    BY DEF SelectsNothing, End, Forget, Shorten, CreateNext, TypeOK
  <2> QED BY <2>1, OthersStaySelected
<1>2. CASE End(p)
  <2>1. program'[p] = None
    BY <1>2 DEF End, Forget, TypeOK
  <2>2. ~Resolves(None)
    BY SetupAssumption DEF SetupAssumption, Resolves, Programs
  <2> QED BY <1>1, <2>1, <2>2 DEF Selected, Resolves
<1>3. CASE ~End(p)
  <2>1. /\ todo[p] # <<>> /\ (Shorten(p) \/ CreateNext(p))
        /\ UNCHANGED <<program, config, target, offered, wanted>>
    BY <1>3 DEF SelectsNothing
  <2>2. Resolves(program[p]) => NeverReads(p)'
    BY <2>1, StillNeverReads DEF Selected
  <2>3. Selected(p)'
    BY <2>1, <2>2 DEF Selected, Resolves
  <2> QED BY <1>1, <2>3
<1> QED BY <1>2, <1>3

\* The inductive invariant behind TestedIsSelected.
LEMMA SelectionIsKept ==
  ASSUME TypeOK, TypeOK', \A p \in Processes : Selected(p), [Next]_vars
  PROVE  \A p \in Processes : Selected(p)'
<1> USE DEF vars, world, local, history, Bounds
<1>1. CASE \E p \in Processes, prog \in Programs, env \in Envs : Start(p, prog, env)
  <2>1. PICK p \in Processes, prog \in Programs, env \in Envs : Start(p, prog, env)
    BY <1>1
  <2>2. CASE envfile = None /\ prog # "switch"
    BY <2>1, <2>2, SelectingNothing DEF Start, SelectsNothing
  <2>3. CASE ~(envfile = None /\ prog # "switch")
    <3>1. /\ program'[p] = prog /\ todo'[p] = CallsOf(prog) /\ wanted' = wanted
          /\ \A q \in Processes \ {p} :
                /\ program'[q] = program[q] /\ todo'[q] = todo[q] /\ config'[q] = config[q]
                /\ target'[q] = target[q] /\ offered'[q] = offered[q]
      BY <2>1, <2>3 DEF Start, TypeOK
    <3>2. CASE prog \in {"landing", "staging"}
      <4>1. /\ config'[p] = envfile /\ target'[p] = None /\ envfile # None
            /\ offered'[p] = {envfile, wanted} \ {None}
        BY <2>1, <2>3, <3>2 DEF Start, TypeOK, Resolves
      <4>2. NeverReads(p)'
        BY <3>1, <3>2, PreflightsNeverRead
      <4>3. Selected(p)'
        BY <3>1, <4>1, <4>2 DEF Selected
      <4> QED BY <3>1, <4>3, OthersStaySelected
    <3>3. CASE prog \notin {"landing", "staging"}
      BY <3>1, <3>3, OthersStaySelected DEF Selected, Resolves
    <3> QED BY <3>2, <3>3
  <2> QED BY <2>2, <2>3
<1>2. CASE \E p \in Processes : SelectsNothing(p)
  BY <1>2, SelectingNothing
<1>3. CASE \E p \in Processes : ResolveEnvironment(p)
  <2>1. PICK p \in Processes : ResolveEnvironment(p)
    BY <1>3
  <2>2. /\ todo[p] # <<>> /\ Shorten(p) /\ UNCHANGED <<program, config, offered, wanted>>
        /\ target'[p] = ActiveEnvironment(p)
        /\ \A q \in Processes \ {p} : todo'[q] = todo[q] /\ target'[q] = target[q]
    BY <2>1 DEF ResolveEnvironment, AboutTo, Shorten, TypeOK
  <2>3. Resolves(program[p]) => NeverReads(p)'
    BY <2>2, StillNeverReads DEF Selected
  <2>4. Selected(p)'
    BY <2>2, <2>3 DEF Selected, ActiveEnvironment, Resolves
  <2> QED BY <2>2, <2>4, OthersStaySelected
<1>4. CASE \E p \in Processes : ReadFile(p)
  <2>1. PICK p \in Processes : ReadFile(p)
    BY <1>4
  <2>2. /\ todo[p] # <<>> /\ Head(todo[p])[1] = "read"
        /\ UNCHANGED <<program, offered, wanted, target>>
        /\ \A q \in Processes \ {p} : todo'[q] = todo[q] /\ config'[q] = config[q]
    BY <2>1 DEF ReadFile, AboutTo, Shorten, TypeOK
  <2>3. ~NeverReads(p)
    <3>1. 1 \in DOMAIN todo[p] /\ todo[p][1] = Head(todo[p])
      BY <2>2 DEF TypeOK
    <3> QED BY <2>2, <3>1 DEF NeverReads, Ahead
  <2>4. Selected(p)'
    BY <2>2, <2>3 DEF Selected, Resolves
  <2> QED BY <2>2, <2>4, OthersStaySelected
<1>5. CASE \E p \in Processes : WriteFile(p)
  <2>1. PICK p \in Processes : WriteFile(p)
    BY <1>5
  <2>2. /\ todo[p] # <<>> /\ Shorten(p) /\ UNCHANGED <<program, config, target, wanted>>
        /\ \A q \in Processes \ {p} : todo'[q] = todo[q]
    BY <2>1 DEF WriteFile, AboutTo, Shorten, TypeOK
  <2>3. \A q \in Processes : Resolves(program[q]) => offered[q] \subseteq offered'[q]
    BY <2>1 DEF WriteFile, Offer
  <2>4. Resolves(program[p]) => NeverReads(p)'
    BY <2>2, StillNeverReads DEF Selected
  <2>5. Selected(p)'
    BY <2>2, <2>3, <2>4 DEF Selected
  <2> QED BY <2>2, <2>3, <2>5 DEF Selected, NeverReads, Ahead
<1>6. CASE \E t \in Tables, columns \in SUBSET Columns : EditContract(t, columns)
  <2>1. UNCHANGED <<todo, program, config, target, offered, wanted>>
    BY <1>6 DEF EditContract
  <2> QED BY <2>1, OthersStaySelected
<1>7. CASE \E env \in Envs \union {None} : EditChecklist(env)
  <2>1. UNCHANGED <<todo, program, config, target>>
    BY <1>7 DEF EditChecklist
  <2>2. \A q \in Processes : Resolves(program[q]) =>
            offered[q] \subseteq offered'[q] /\ wanted' \in offered'[q] \union {None}
    BY <1>7 DEF EditChecklist, Offer
  <2> QED BY <2>1, <2>2 DEF Selected, NeverReads, Ahead
<1>8. CASE UNCHANGED vars
  BY <1>8, OthersStaySelected
<1> QED
  BY <1>1, <1>2, <1>3, <1>4, <1>5, <1>6, <1>7, <1>8, MostSelectNothing
     DEF Next, Work, Trouble, World

\* A preflight tests an environment that was selected at some moment since it
\* started, whoever rewrites enviroment.yml meanwhile; for TestedIsSelected.
THEOREM SelectedIsTested == Spec => []TestedIsSelected
<1> DEFINE Inv == \A p \in Processes : Selected(p)
<1>1. Init => Inv
  BY SetupAssumption DEF Init, Selected, Resolves, SetupAssumption, Programs
<1>2. TypeOK /\ TypeOK' /\ Inv /\ [Next]_vars => Inv'
  BY SelectionIsKept
<1>3. Inv => TestedIsSelected
  BY DEF Selected, TestedIsSelected
<1> QED BY <1>1, <1>2, <1>3, TypeCorrect, PTL DEF Spec

-----------------------------------------------------------------------------
(* A run that nothing disturbs succeeds.  How far a program has come is    *)
(* told by the number of calls it has left, since a call is done or turns  *)
(* into the creation of its bucket.                                        *)

Left(p) == Len(todo[p])

\* The call a process makes is the one of its program, or the creation it turned into.
TurnsInto(c, d) == c[1] \in {"ensure", "restore"} /\ d = <<"create", c[2]>>

FollowsProgram(p) ==
    Running(p) =>
        LET s == CallsOf(program[p])
            n == Len(s) - Left(p)
        IN  /\ n >= 0
            /\ \A i \in 1..Left(p) :
                    todo[p][i] = s[n + i] \/ (i = 1 /\ TurnsInto(s[n + i], todo[p][i]))

\* What must hold where a program stands for its next calls to succeed.
FindsAllItNeeds(p) ==
    /\ program[p] \in {"prepare", "landing", "staging"} =>
            /\ envfile # None
            /\ Conforms(db, contract) /\ seen[p] \in {None, contract}
    /\ program[p] = "landing" =>
            /\ Lakehouse \in have /\ db[FoldersTable] # {}
            /\ Left(p) <= 9 => Landing \in have
    /\ program[p] = "staging" =>
            /\ {Landing, Lakehouse} \subseteq have
            /\ Left(p) <= 9 => TableBucket \in have
    /\ program[p] \in {"landing", "staging"} /\ Left(p) = 5 => probe
    /\ program[p] = "buckets" /\ Left(p) <= 3 => TableBucket \in have
    /\ program[p] = "schema" /\ Left(p) = 1 => \A t \in missing[p] : db[t] = {}
    /\ program[p] = "switch" =>
            /\ Left(p) = 3 => envfile # None
            /\ Left(p) \in {1, 2} => config[p] # None
            /\ Left(p) = 0 => envfile = target[p]
    /\ AboutTo(p, "create") => What(p) \notin have

NobodySpoils(p) == \A o \in Processes \ {p} : ~Spoils(program[o], program[p])

OnCourse(p) ==
    /\ FollowsProgram(p)
    /\ ~Running(p) => seen[p] = None
    /\ Running(p) /\ ~excused[p] => FindsAllItNeeds(p) /\ NobodySpoils(p)

\* The call that a process is about to make, by the calls it has left.
LEMMA NextOfProgram ==
  ASSUME TypeOK, NEW p \in Processes, FollowsProgram(p), todo[p] # <<>>
  PROVE  LET s == CallsOf(program[p])
             c == s[Len(s) - Left(p) + 1]
         IN  /\ Left(p) \in 1..Len(s)
             /\ Head(todo[p]) = c \/ TurnsInto(c, Head(todo[p]))
<1>1. todo[p] \in Seq(Calls) /\ Running(p)
  BY DEF TypeOK
<1>2. Left(p) \in Nat \ {0} /\ Head(todo[p]) = todo[p][1]
  BY <1>1 DEF Left
<1>3. CallsOf(program[p]) \in Seq(Calls)
  <2>1. program[p] \in Programs
    BY <1>1 DEF TypeOK, Running
  <2> QED BY <2>1, CallsAreTyped
<1>4. PICK s : s = CallsOf(program[p])
  OBVIOUS
<1>5. Len(s) \in Nat /\ Len(s) - Left(p) >= 0
  BY <1>1, <1>3, <1>4 DEF FollowsProgram
<1>6. \/ todo[p][1] = s[Len(s) - Left(p) + 1]
      \/ TurnsInto(s[Len(s) - Left(p) + 1], todo[p][1])
  BY <1>1, <1>2, <1>4 DEF FollowsProgram
<1> QED BY <1>2, <1>4, <1>5, <1>6

Kind(p) == Head(todo[p])[1]

\* Where a process stands that runs this or that program.
LEMMA WhereBuckets ==
  ASSUME TypeOK, NEW p \in Processes, FollowsProgram(p), todo[p] # <<>>,
         program[p] = "buckets"
  PROVE  \/ Left(p) = 4 /\ Kind(p) = "tableBucket"
         \/ Left(p) \in {2, 3} /\ Kind(p) \in {"ensure", "create"}
         \/ Left(p) = 1 /\ Kind(p) = "namespace"
<1>1. CallsOf("buckets") = BucketsProgram /\ Len(BucketsProgram) = 4
  BY DEF CallsOf, BucketsProgram
<1>2. /\ Left(p) \in 1..4
      /\ \/ Head(todo[p]) = BucketsProgram[4 - Left(p) + 1]
         \/ TurnsInto(BucketsProgram[4 - Left(p) + 1], Head(todo[p]))
  BY <1>1, NextOfProgram
<1> QED BY <1>2 DEF BucketsProgram, TurnsInto, Kind

LEMMA WhereSchema ==
  ASSUME TypeOK, NEW p \in Processes, FollowsProgram(p), todo[p] # <<>>,
         program[p] = "schema"
  PROVE  \/ Left(p) = 2 /\ Kind(p) = "inspect"
         \/ Left(p) = 1 /\ Kind(p) = "createTables"
<1>1. CallsOf("schema") = SchemaProgram /\ Len(SchemaProgram) = 2
  BY DEF CallsOf, SchemaProgram
<1>2. /\ Left(p) \in 1..2
      /\ \/ Head(todo[p]) = SchemaProgram[2 - Left(p) + 1]
         \/ TurnsInto(SchemaProgram[2 - Left(p) + 1], Head(todo[p]))
  BY <1>1, NextOfProgram
<1>3. SchemaProgram[1] = <<"inspect", None>> /\ SchemaProgram[2] = <<"createTables", None>>
  BY DEF SchemaProgram
<1> QED BY <1>2, <1>3 DEF TurnsInto, Kind

LEMMA WherePrepare ==
  ASSUME TypeOK, NEW p \in Processes, FollowsProgram(p), todo[p] # <<>>,
         program[p] = "prepare"
  PROVE  Kind(p) \in {"login", "validate"}
<1>1. EnvOrder \in Seq(Envs)
  BY SetupAssumption DEF SetupAssumption
<1> DEFINE logins == [i \in DOMAIN EnvOrder |-> <<"login", EnvOrder[i]>>]
           s == logins \o << <<"validate", None>> >>
<1>2. CallsOf("prepare") = s
  BY DEF CallsOf, PreparePreflight
<1>3. logins \in Seq({"login"} \X Envs)
  BY <1>1
<1>4. \A i \in 1..Len(s) : s[i] \in {"login"} \X Envs \/ s[i] = <<"validate", None>>
  <2> HIDE DEF logins
  <2> QED BY <1>3
<1>5. \A i \in 1..Len(s) : s[i][1] \in {"login", "validate"}
  BY <1>4
<1>6. Len(s) \in Nat
  <2> HIDE DEF logins
  <2> QED BY <1>3
<1> HIDE DEF s
<1>7. /\ Left(p) \in 1..Len(s)
      /\ \/ Head(todo[p]) = s[Len(s) - Left(p) + 1]
         \/ TurnsInto(s[Len(s) - Left(p) + 1], Head(todo[p]))
  BY <1>2, NextOfProgram
<1>8. Len(s) - Left(p) + 1 \in 1..Len(s)
  BY <1>6, <1>7
<1> QED BY <1>5, <1>7, <1>8 DEF TurnsInto, Kind

LEMMA WhereLanding ==
  ASSUME TypeOK, NEW p \in Processes, FollowsProgram(p), todo[p] # <<>>,
         program[p] = "landing"
  PROVE  \/ Left(p) = 11 /\ Kind(p) = "tree"
         \/ Left(p) = 10 /\ Kind(p) \in {"restore", "create"} /\ What(p) = Landing
         \/ Left(p) = 9 /\ Kind(p) = "folders"
         \/ Left(p) = 8 /\ Kind(p) = "demand" /\ What(p) = Landing
         \/ Left(p) = 7 /\ Kind(p) = "demand" /\ What(p) = Lakehouse
         \/ Left(p) = 6 /\ Kind(p) = "put"
         \/ Left(p) = 5 /\ Kind(p) = "get"
         \/ Left(p) = 4 /\ Kind(p) = "delete"
         \/ Left(p) = 3 /\ Kind(p) = "resolve"
         \/ Left(p) = 2 /\ Kind(p) = "login"
         \/ Left(p) = 1 /\ Kind(p) = "validate"
<1>1. PICK s : s = LandingPreflight
  OBVIOUS
<1>2. /\ s[1] = <<"tree", None>> /\ s[2] = <<"restore", Landing>>
      /\ s[3] = <<"folders", None>> /\ s[4] = <<"demand", Landing>>
      /\ s[5] = <<"demand", Lakehouse>> /\ s[6] = <<"put", None>>
      /\ s[7] = <<"get", None>> /\ s[8] = <<"delete", None>>
      /\ s[9] = <<"resolve", None>> /\ s[10] = <<"login", None>>
      /\ s[11] = <<"validate", None>> /\ Len(s) = 11
  BY <1>1 DEF LandingPreflight, Probing
<1>3. CallsOf("landing") = s
  BY <1>1 DEF CallsOf
<1>4. /\ Left(p) \in 1..11
      /\ \/ Head(todo[p]) = s[11 - Left(p) + 1]
         \/ TurnsInto(s[11 - Left(p) + 1], Head(todo[p]))
  BY <1>2, <1>3, NextOfProgram
<1> QED BY <1>2, <1>4 DEF TurnsInto, Kind, What

LEMMA WhereStaging ==
  ASSUME TypeOK, NEW p \in Processes, FollowsProgram(p), todo[p] # <<>>,
         program[p] = "staging"
  PROVE  \/ Left(p) = 10 /\ Kind(p) = "tableBucket"
         \/ Left(p) = 9 /\ Kind(p) = "namespace"
         \/ Left(p) \in {7, 8} /\ Kind(p) = "demand"
         \/ Left(p) = 6 /\ Kind(p) = "put"
         \/ Left(p) = 5 /\ Kind(p) = "get"
         \/ Left(p) = 4 /\ Kind(p) = "delete"
         \/ Left(p) = 3 /\ Kind(p) = "validate"
         \/ Left(p) = 2 /\ Kind(p) = "resolve"
         \/ Left(p) = 1 /\ Kind(p) = "login"
<1>1. PICK s : s = StagingPreflight
  OBVIOUS
<1>2. /\ s[1] = <<"tableBucket", None>> /\ s[2] = <<"namespace", None>>
      /\ s[3] = <<"demand", Lakehouse>> /\ s[4] = <<"demand", Landing>>
      /\ s[5] = <<"put", None>> /\ s[6] = <<"get", None>>
      /\ s[7] = <<"delete", None>> /\ s[8] = <<"validate", None>>
      /\ s[9] = <<"resolve", None>> /\ s[10] = <<"login", None>> /\ Len(s) = 10
  BY <1>1 DEF StagingPreflight, Probing
<1>3. CallsOf("staging") = s
  BY <1>1 DEF CallsOf
<1>4. /\ Left(p) \in 1..10
      /\ \/ Head(todo[p]) = s[10 - Left(p) + 1]
         \/ TurnsInto(s[10 - Left(p) + 1], Head(todo[p]))
  BY <1>2, <1>3, NextOfProgram
<1> QED BY <1>2, <1>4 DEF TurnsInto, Kind

LEMMA WhereSwitch ==
  ASSUME TypeOK, NEW p \in Processes, FollowsProgram(p), todo[p] # <<>>,
         program[p] = "switch"
  PROVE  \/ Left(p) = 3 /\ Kind(p) = "read"
         \/ Left(p) = 2 /\ Kind(p) = "truncate"
         \/ Left(p) = 1 /\ Kind(p) = "write"
<1> DEFINE s == SwitchProgram
<1>1. s = << <<"read", None>>, <<"truncate", None>>, <<"write", None>> >>
  BY DEF SwitchProgram
<1> HIDE DEF s
<1>2. /\ s[1] = <<"read", None>> /\ s[2] = <<"truncate", None>>
      /\ s[3] = <<"write", None>> /\ Len(s) = 3
  BY <1>1
<1>3. CallsOf("switch") = s
  BY DEF CallsOf, s
<1>4. /\ Left(p) \in 1..3
      /\ \/ Head(todo[p]) = s[3 - Left(p) + 1]
         \/ TurnsInto(s[3 - Left(p) + 1], Head(todo[p]))
  BY <1>2, <1>3, NextOfProgram
<1> QED BY <1>2, <1>4 DEF TurnsInto, Kind

\* A call is refused for the lack of what it needs.
Refused(p) ==
    \/ AboutTo(p, "namespace") /\ TableBucket \notin have
    \/ AboutTo(p, "create") /\ What(p) \in have
    \/ AboutTo(p, "demand") /\ What(p) \notin have
    \/ AboutTo(p, "tree") /\ db[FoldersTable] = {}
    \/ AboutTo(p, "get") /\ ~probe
    \/ AboutTo(p, "createTables") /\ \E t \in missing[p] : db[t] # {}
    \/ AboutTo(p, "validate") /\ ~Conforms(db, LoadedContract(p))
    \/ AboutTo(p, "login") /\ envfile = None

Stops(p) == End(p) /\ (todo[p] = <<>> \/ Refused(p) \/ faults' # faults)

\* A call turns into the creation of its bucket because there is none, or because the
\* question failed.
TurnsToCreate(p) ==
    /\ AboutTo(p, "ensure") \/ AboutTo(p, "restore")
    /\ CreateNext(p)
    /\ UNCHANGED world
    /\ excused'[p] \/ (What(p) \notin have /\ (excused'[p] <=> excused[p]))

\* A call is done, and what the next ones need of it is there.
Makes(p) ==
    /\ todo[p] # <<>> /\ Shorten(p)
    /\ program'[p] = program[p] /\ (excused'[p] <=> excused[p])
    /\ seen'[p] \in {seen[p], LoadedContract(p)}
    /\ AboutTo(p, "tableBucket") => TableBucket \in have'
    /\ AboutTo(p, "restore") \/ AboutTo(p, "create") => What(p) \in have'
    /\ AboutTo(p, "put") => probe'
    /\ AboutTo(p, "inspect") => \A t \in missing'[p] : db'[t] = {}
    /\ config'[p] = IF AboutTo(p, "read") THEN envfile ELSE config[p]
    /\ AboutTo(p, "resolve") \/ target'[p] = target[p]
    /\ AboutTo(p, "write") => envfile' = IF config[p] = None THEN None ELSE target[p]

\* What a call may change of what others depend on.
Spares(p) ==
    /\ Kept /\ contract' = contract
    /\ \A q \in Processes \ {p} :
        /\ program'[q] = program[q] /\ todo'[q] = todo[q] /\ seen'[q] = seen[q]
        /\ missing'[q] = missing[q] /\ config'[q] = config[q] /\ target'[q] = target[q]
        /\ excused'[q] <=> excused[q]
    /\ AboutTo(p, "create") \/ \A x \in {Landing, Lakehouse} : x \in have' => x \in have
    /\ AboutTo(p, "delete") \/ (probe => probe')
    /\ AboutTo(p, "createTables") \/ db' = db
    /\ AboutTo(p, "truncate") \/ AboutTo(p, "write") \/ envfile' = envfile

Effect(p) == Spares(p) /\ (Stops(p) \/ TurnsToCreate(p) \/ Makes(p))

LEMMA EndSpares ==
  ASSUME TypeOK, NEW p \in Processes, End(p)
  PROVE  \A q \in Processes \ {p} :
            /\ program'[q] = program[q] /\ todo'[q] = todo[q] /\ seen'[q] = seen[q]
            /\ missing'[q] = missing[q] /\ config'[q] = config[q] /\ target'[q] = target[q]
            /\ excused'[q] <=> excused[q]
BY DEF End, Forget, TypeOK

\* A process that only makes a call of its own spares the others.
LEMMA AdvanceMakes ==
  ASSUME TypeOK, NEW p \in Processes, Shorten(p), UNCHANGED <<local, history>>
  PROVE  /\ \A q \in Processes \ {p} :
            /\ program'[q] = program[q] /\ todo'[q] = todo[q] /\ seen'[q] = seen[q]
            /\ missing'[q] = missing[q] /\ config'[q] = config[q] /\ target'[q] = target[q]
            /\ excused'[q] <=> excused[q]
         /\ program'[p] = program[p] /\ (excused'[p] <=> excused[p])
         /\ seen'[p] = seen[p] /\ config'[p] = config[p] /\ target'[p] = target[p]
BY DEF Shorten, local, history, TypeOK

LEMMA EffectOfCalls ==
  ASSUME TypeOK, NEW p \in Processes, Work(p) \/ Trouble(p)
  PROVE  Effect(p)
<1> USE DEF world, Bounds, Effect, Kept
<1>1. CASE Pass(p)
  BY <1>1, EndSpares DEF Pass, Stops, Spares
<1>2. CASE CreateTableBucket(p)
  <2>1. Spares(p)
    BY <1>2, AdvanceMakes DEF CreateTableBucket, Advance, Spares, Landing, Lakehouse, TableBucket
  <2>2. Makes(p)
    BY <1>2, AdvanceMakes DEF CreateTableBucket, Advance, Makes, AboutTo
  <2> QED BY <2>1, <2>2
<1>3. CASE CreateNamespace(p) /\ TableBucket \in have
  <2>1. Spares(p)
    BY <1>3, AdvanceMakes DEF CreateNamespace, Advance, Spares, Landing, Lakehouse, Namespace
  <2>2. Makes(p)
    BY <1>3, AdvanceMakes DEF CreateNamespace, Advance, Makes, AboutTo
  <2> QED BY <2>1, <2>2
<1>4. CASE CreateNamespace(p) /\ TableBucket \notin have
  BY <1>4, EndSpares DEF CreateNamespace, Spares, Stops, Refused
<1>5. CASE HeadToEnsure(p) /\ What(p) \in have
  <2>1. Spares(p)
    BY <1>5, AdvanceMakes DEF HeadToEnsure, Advance, Spares
  <2>2. Makes(p)
    BY <1>5, AdvanceMakes DEF HeadToEnsure, Advance, Makes, AboutTo
  <2> QED BY <2>1, <2>2
<1>6. CASE HeadToEnsure(p) /\ What(p) \notin have
  <2>1. Spares(p)
    BY <1>6 DEF HeadToEnsure, CreateNext, Spares, local, history, TypeOK
  <2>2. TurnsToCreate(p)
    BY <1>6 DEF HeadToEnsure, TurnsToCreate, history
  <2> QED BY <2>1, <2>2
<1>7. CASE CreateBucket(p)
  <2>1. CASE End(p) /\ What(p) \in have /\ UNCHANGED have
    BY <1>7, <2>1, EndSpares DEF CreateBucket, Spares, Stops, Refused
  <2>2. CASE Advance(p) /\ have' = have \union {What(p)}
    <3>1. Spares(p)
      BY <1>7, <2>2, AdvanceMakes DEF CreateBucket, Advance, Spares
    <3>2. Makes(p)
      BY <1>7, <2>2, AdvanceMakes DEF CreateBucket, Advance, Makes, AboutTo
    <3> QED BY <3>1, <3>2
  <2> QED BY <1>7, <2>1, <2>2 DEF CreateBucket
<1>8. CASE HeadToDemand(p) /\ What(p) \in have
  <2>1. Spares(p)
    BY <1>8, AdvanceMakes DEF HeadToDemand, Advance, Spares
  <2>2. Makes(p)
    BY <1>8, AdvanceMakes DEF HeadToDemand, Advance, Makes, AboutTo
  <2> QED BY <2>1, <2>2
<1>9. CASE HeadToDemand(p) /\ What(p) \notin have
  BY <1>9, EndSpares DEF HeadToDemand, Spares, Stops, Refused
<1>10. CASE ReadTree(p) /\ db[FoldersTable] # {}
  <2>1. Spares(p)
    BY <1>10 DEF ReadTree, Shorten, Spares, history, TypeOK
  <2>2. Makes(p)
    BY <1>10 DEF ReadTree, Makes, AboutTo, history, TypeOK
  <2> QED BY <2>1, <2>2
<1>11. CASE ReadTree(p) /\ db[FoldersTable] = {}
  BY <1>11, EndSpares DEF ReadTree, Spares, Stops, Refused
<1>12. CASE PutFolders(p)
  <2>1. Spares(p)
    BY <1>12, AdvanceMakes DEF PutFolders, Advance, Spares
  <2>2. Makes(p)
    BY <1>12, AdvanceMakes DEF PutFolders, Advance, Makes, AboutTo
  <2> QED BY <2>1, <2>2
<1>13. CASE PutProbe(p)
  <2>1. Spares(p)
    BY <1>13, AdvanceMakes DEF PutProbe, Advance, Spares
  <2>2. Makes(p)
    BY <1>13, AdvanceMakes DEF PutProbe, Advance, Makes, AboutTo
  <2> QED BY <2>1, <2>2
<1>14. CASE GetProbe(p) /\ probe
  <2>1. Spares(p)
    BY <1>14, AdvanceMakes DEF GetProbe, Advance, Spares
  <2>2. Makes(p)
    BY <1>14, AdvanceMakes DEF GetProbe, Advance, Makes, AboutTo
  <2> QED BY <2>1, <2>2
<1>15. CASE GetProbe(p) /\ ~probe
  BY <1>15, EndSpares DEF GetProbe, Spares, Stops, Refused
<1>16. CASE DeleteProbe(p)
  <2>1. Spares(p)
    BY <1>16, AdvanceMakes DEF DeleteProbe, Advance, Spares
  <2>2. Makes(p)
    BY <1>16, AdvanceMakes DEF DeleteProbe, Advance, Makes, AboutTo
  <2> QED BY <2>1, <2>2
<1>17. CASE InspectTables(p)
  <2>1. Spares(p)
    BY <1>17 DEF InspectTables, Shorten, Spares, history, TypeOK
  <2>2. missing'[p] = {t \in Tables : LoadedContract(p)[t] # {} /\ db[t] = {}}
    BY <1>17 DEF InspectTables, TypeOK
  <2>3. Makes(p)
    BY <1>17, <2>2 DEF InspectTables, Makes, AboutTo, history, TypeOK
  <2> QED BY <2>1, <2>3
<1>18. CASE CreateTables(p) /\ \A t \in missing[p] : db[t] = {}
  <2>1. Kept
    BY <1>18 DEF CreateTables, TypeOK, Contract
  <2>2. Spares(p)
    BY <1>18, <2>1, AdvanceMakes DEF CreateTables, Advance, Spares
  <2>3. Makes(p)
    BY <1>18, AdvanceMakes DEF CreateTables, Advance, Makes, AboutTo
  <2> QED BY <2>2, <2>3
<1>19. CASE CreateTables(p) /\ ~(\A t \in missing[p] : db[t] = {})
  BY <1>19, EndSpares DEF CreateTables, Spares, Stops, Refused
<1>20. CASE ValidateSchema(p) /\ Conforms(db, LoadedContract(p))
  <2>1. Spares(p)
    BY <1>20 DEF ValidateSchema, Shorten, Spares, history, TypeOK
  <2>2. Makes(p)
    BY <1>20 DEF ValidateSchema, Makes, AboutTo, history, TypeOK
  <2> QED BY <2>1, <2>2
<1>21. CASE ValidateSchema(p) /\ ~Conforms(db, LoadedContract(p))
  BY <1>21, EndSpares DEF ValidateSchema, Spares, Stops, Refused
<1>22. CASE ResolveEnvironment(p)
  <2>1. Spares(p)
    BY <1>22 DEF ResolveEnvironment, Shorten, Spares, history, TypeOK
  <2>2. Makes(p)
    BY <1>22 DEF ResolveEnvironment, Makes, AboutTo, history, TypeOK
  <2> QED BY <2>1, <2>2
<1>23. CASE Login(p) /\ envfile # None
  <2>1. Spares(p)
    BY <1>23, AdvanceMakes DEF Login, Advance, Spares
  <2>2. Makes(p)
    BY <1>23, AdvanceMakes DEF Login, Advance, Makes, AboutTo
  <2> QED BY <2>1, <2>2
<1>24. CASE Login(p) /\ envfile = None
  BY <1>24, EndSpares DEF Login, Spares, Stops, Refused
<1>25. CASE ReadFile(p)
  <2>1. Spares(p)
    BY <1>25 DEF ReadFile, Shorten, Spares, history, TypeOK
  <2>2. Makes(p)
    BY <1>25 DEF ReadFile, Makes, AboutTo, history, TypeOK
  <2> QED BY <2>1, <2>2
<1>26. CASE TruncateFile(p)
  <2>1. Spares(p)
    BY <1>26, AdvanceMakes DEF TruncateFile, Advance, Spares
  <2>2. Makes(p)
    BY <1>26, AdvanceMakes DEF TruncateFile, Advance, Makes, AboutTo
  <2> QED BY <2>1, <2>2
<1>27. CASE WriteFile(p)
  <2>1. Spares(p)
    BY <1>27 DEF WriteFile, Shorten, Spares, local, TypeOK
  <2>2. Makes(p)
    BY <1>27 DEF WriteFile, Makes, AboutTo, local, TypeOK
  <2> QED BY <2>1, <2>2
<1>28. CASE CallFails(p)
  BY <1>28, EndSpares, SetupAssumption
     DEF CallFails, Spares, Stops, Fault, TypeOK, SetupAssumption
<1>29. CASE HeadFails(p)
  <2>1. Spares(p)
    BY <1>29 DEF HeadFails, CreateNext, Spares, local, TypeOK
  <2>2. excused'[p]
    BY <1>29 DEF HeadFails, TypeOK
  <2>3. TurnsToCreate(p)
    BY <1>29, <2>2 DEF HeadFails, TurnsToCreate
  <2> QED BY <2>1, <2>3
<1>30. CASE AnswerLost(p)
  <2>1. faults' # faults
    BY <1>30, SetupAssumption DEF AnswerLost, Fault, TypeOK, SetupAssumption
  <2>2. Spares(p)
    <3>1. /\ have \subseteq have'
          /\ AboutTo(p, "create")
                \/ \A x \in {Landing, Lakehouse} : x \in have' => x \in have
          /\ AboutTo(p, "delete") \/ (probe => probe')
      BY <1>30 DEF AnswerLost, Landing, Lakehouse, TableBucket, Namespace
    <3>2. UNCHANGED <<db, contract, envfile>> /\ End(p)
      BY <1>30 DEF AnswerLost
    <3> QED BY <3>1, <3>2, EndSpares DEF Spares
  <2> QED BY <1>30, <2>1, <2>2 DEF AnswerLost, Stops
<1> QED
  BY <1>1, <1>2, <1>3, <1>4, <1>5, <1>6, <1>7, <1>8, <1>9, <1>10, <1>11, <1>12, <1>13,
     <1>14, <1>15, <1>16, <1>17, <1>18, <1>19, <1>20, <1>21, <1>22, <1>23, <1>24, <1>25,
     <1>26, <1>27, <1>28, <1>29, <1>30 DEF Work, Trouble

\* Which programs make the calls that others depend on.
LEMMA ProgramOfCall ==
  ASSUME TypeOK, NEW p \in Processes, FollowsProgram(p)
  PROVE  /\ AboutTo(p, "create") => program[p] \in {"buckets", "landing"}
         /\ AboutTo(p, "delete") => program[p] \in {"landing", "staging"}
         /\ AboutTo(p, "createTables") => program[p] = "schema"
         /\ AboutTo(p, "truncate") \/ AboutTo(p, "write") => program[p] = "switch"
<1> SUFFICES ASSUME todo[p] # <<>>, Running(p)
             PROVE  /\ Kind(p) = "create" => program[p] \in {"buckets", "landing"}
                    /\ Kind(p) = "delete" => program[p] \in {"landing", "staging"}
                    /\ Kind(p) = "createTables" => program[p] = "schema"
                    /\ Kind(p) \in {"truncate", "write"} => program[p] = "switch"
  BY DEF AboutTo, Kind
<1>1. program[p] \in Programs
  BY DEF TypeOK, Running
<1>2. CASE program[p] = "buckets"
  BY <1>2, WhereBuckets
<1>3. CASE program[p] = "schema"
  BY <1>3, WhereSchema
<1>4. CASE program[p] = "prepare"
  BY <1>4, WherePrepare
<1>5. CASE program[p] = "landing"
  BY <1>5, WhereLanding
<1>6. CASE program[p] = "staging"
  BY <1>6, WhereStaging
<1>7. CASE program[p] = "switch"
  BY <1>7, WhereSwitch
<1> QED BY <1>1, <1>2, <1>3, <1>4, <1>5, <1>6, <1>7 DEF Programs

\* A process that nobody spoils is not thrown off course by the calls of another.
LEMMA OthersOnCourse ==
  ASSUME TypeOK, NEW p \in Processes, OnCourse(p), Effect(p),
         NEW q \in Processes \ {p}, OnCourse(q)
  PROVE  OnCourse(q)'
<1>1. Spares(p) /\ program'[p] \in {program[p], None}
  BY DEF Effect, Stops, TurnsToCreate, Makes, End, Forget, CreateNext, local, TypeOK
<1>2. /\ program'[q] = program[q] /\ todo'[q] = todo[q] /\ seen'[q] = seen[q]
      /\ missing'[q] = missing[q] /\ config'[q] = config[q] /\ target'[q] = target[q]
      /\ excused'[q] <=> excused[q]
  BY <1>1 DEF Spares
<1>3. Left(q)' = Left(q) /\ (FollowsProgram(q) => FollowsProgram(q)')
  BY <1>2 DEF FollowsProgram, Left, Running
<1>4. ASSUME Running(q), ~excused[q] PROVE FindsAllItNeeds(q)' /\ NobodySpoils(q)'
  <2>1. FindsAllItNeeds(q) /\ NobodySpoils(q)
    BY <1>4 DEF OnCourse
  <2>2. ~Spoils(program[p], program[q]) /\ ~Spoils(None, program[q])
    <3>1. ~Spoils(None, program[q])
      BY SetupAssumption DEF Spoils, SetupAssumption, Programs
    <3> QED BY <2>1, <3>1 DEF NobodySpoils
  <2>3. NobodySpoils(q)'
    BY <1>1, <1>2, <2>1, <2>2 DEF NobodySpoils, Spares
  <2>4. /\ program[q] \in {"buckets", "landing"} =>
                \A x \in {Landing, Lakehouse} : x \in have' => x \in have
        /\ program[q] \in {"landing", "staging"} => (probe => probe')
        /\ program[q] = "schema" => db' = db
        /\ program[q] \notin {"buckets", "schema"} => envfile' = envfile
    <3>1. \A a, b : Spoils(a, b) <=>
                \/ a \in {"landing", "staging"} /\ b \in {"landing", "staging"}
                \/ a \in {"buckets", "landing"} /\ b \in {"buckets", "landing"}
                \/ a = "schema" /\ b = "schema"
                \/ a = "switch" /\ b \notin {"buckets", "schema"}
      BY DEF Spoils
    <3> QED BY <1>1, <2>2, <3>1, ProgramOfCall DEF Spares, OnCourse
  <2>5. have \subseteq have' /\ (\A t \in Tables : db[t] = {} \/ db'[t] = db[t])
        /\ contract' = contract
    BY <1>1 DEF Spares, Kept
  <2>6. Conforms(db, contract) => Conforms(db', contract)
    BY <2>5 DEF Conforms, TypeOK, Contract
  <2>7. AboutTo(q, "create") => program[q] \in {"buckets", "landing"} /\ What(q) \in {Landing, Lakehouse}
    <3>1. AboutTo(q, "create") => program[q] \in {"buckets", "landing"}
      BY ProgramOfCall DEF OnCourse
    <3>2. AboutTo(q, "create") => What(q) \in {Landing, Lakehouse}
      BY NextCall, BucketCalls DEF AboutTo, What
    <3> QED BY <3>1, <3>2
  <2>8. (AboutTo(q, "create") => What(q) \notin have) => (AboutTo(q, "create") => What(q) \notin have)'
    BY <1>2, <2>4, <2>7 DEF AboutTo, What, Running
  <2>9. FoldersTable \in Tables
    BY SetupAssumption DEF SetupAssumption
  <2> QED BY <1>2, <1>3, <2>1, <2>3, <2>4, <2>5, <2>6, <2>8, <2>9
          DEF FindsAllItNeeds, Conforms
<1> QED BY <1>2, <1>3, <1>4 DEF OnCourse, Running

\* A call that is done, or turns into the creation of its bucket, leaves the rest of
\* the program to be done.
LEMMA StillFollows ==
  ASSUME TypeOK, NEW p \in Processes, FollowsProgram(p), todo[p] # <<>>,
         program'[p] = program[p],
         \/ Shorten(p)
         \/ CreateNext(p) /\ Head(todo[p])[1] \in {"ensure", "restore"}
  PROVE  FollowsProgram(p)' /\ Left(p)' = IF Shorten(p) THEN Left(p) - 1 ELSE Left(p)
<1>1. todo[p] \in Seq(Calls) /\ Running(p)
  BY DEF TypeOK
<1>2. PICK s : s = CallsOf(program[p])
  OBVIOUS
<1>3. CallsOf(program[p]) \in Seq(Calls)
  <2>1. program[p] \in Programs
    BY <1>1 DEF TypeOK, Running
  <2> QED BY <2>1, CallsAreTyped
<1>4. PICK l \in Nat \ {0} : l = Len(todo[p])
  BY <1>1
<1>5. Len(s) \in Nat
  BY <1>2, <1>3
<1>6. PICK n \in Nat : n = Len(s) - l
  <2>1. Len(s) - l >= 0
    BY <1>1, <1>2, <1>4 DEF FollowsProgram, Left
  <2>2. Len(s) - l \in Nat
    BY <1>4, <1>5, <2>1
  <2> QED BY <2>2
<1>7. \A i \in 1..l : todo[p][i] = s[n + i] \/ (i = 1 /\ TurnsInto(s[n + i], todo[p][i]))
  BY <1>1, <1>2, <1>4, <1>6 DEF FollowsProgram, Left
<1>8. CASE Shorten(p)
  <2>1. todo'[p] = Tail(todo[p])
    BY <1>8 DEF Shorten, TypeOK
  <2>2. PICK k \in Nat : k = l - 1
    BY <1>4
  <2>3. Len(todo'[p]) = k /\ \A i \in 1..k : todo'[p][i] = todo[p][i + 1]
    BY <1>1, <1>4, <2>1, <2>2
  <2>4. PICK m \in Nat : m = Len(s) - k /\ m = n + 1
    <3>1. n + 1 \in Nat /\ n + 1 = Len(s) - k
      BY <1>5, <1>6, <2>2
    <3> QED BY <3>1
  <2>5. ASSUME NEW i \in 1..k PROVE todo'[p][i] = s[m + i]
    <3>1. i + 1 \in 1..l /\ i + 1 # 1 /\ n + (i + 1) = m + i
      BY <2>2, <2>4
    <3>2. todo[p][i + 1] = s[n + (i + 1)]
      BY <1>7, <3>1
    <3> QED BY <2>3, <3>1, <3>2
  <2>6. program'[p] = program[p] /\ Left(p)' = k
    BY <2>3 DEF Left
  <2>7. CallsOf(program'[p]) = s
    BY <1>2, <2>6
  <2>8. FollowsProgram(p)'
    BY <2>4, <2>5, <2>6, <2>7 DEF FollowsProgram
  <2> QED BY <1>4, <1>8, <2>2, <2>6, <2>8 DEF Left
<1>9. CASE ~Shorten(p)
  <2>1. Head(todo[p])[1] \in {"ensure", "restore"} /\ Head(todo[p]) = todo[p][1]
    BY <1>1, <1>9
  <2>2. todo'[p] = << <<"create", What(p)>> >> \o Tail(todo[p])
    BY <1>9 DEF CreateNext, TypeOK
  <2>3. /\ Len(todo'[p]) = l /\ todo'[p][1] = <<"create", What(p)>>
        /\ \A i \in 2..l : todo'[p][i] = todo[p][i]
    BY <1>1, <1>4, <2>2
  <2>4. TurnsInto(s[n + 1], todo'[p][1])
    <3>1. todo[p][1] = s[n + 1]
      BY <1>4, <1>7, <2>1 DEF TurnsInto
    <3> QED BY <2>1, <2>3, <3>1 DEF TurnsInto, What
  <2>5. ASSUME NEW i \in 1..l
        PROVE  todo'[p][i] = s[n + i] \/ (i = 1 /\ TurnsInto(s[n + i], todo'[p][i]))
    <3>1. CASE i = 1
      BY <2>4, <3>1
    <3>2. CASE i # 1
      <4>1. i \in 2..l /\ todo'[p][i] = todo[p][i]
        BY <1>1, <2>3, <3>2
      <4> QED BY <1>7, <3>2, <4>1
    <3> QED BY <3>1, <3>2
  <2>6. program'[p] = program[p] /\ Left(p)' = l
    BY <2>3 DEF Left
  <2>7. CallsOf(program'[p]) = s
    BY <1>2, <2>6
  <2>8. FollowsProgram(p)'
    BY <1>6, <2>5, <2>6, <2>7 DEF FollowsProgram
  <2> QED BY <1>4, <1>9, <2>6, <2>8 DEF Left
<1> QED BY <1>8, <1>9

\* Nothing is to be created but what a question has turned into.
LEMMA ProgramsOnlyAsk ==
  ASSUME NEW prog \in Programs, NEW i \in 1..Len(CallsOf(prog))
  PROVE  CallsOf(prog)[i][1] # "create"
<1>1. CASE prog = "buckets"
  <2>1. \A j \in 1..Len(BucketsProgram) : BucketsProgram[j][1] # "create"
    BY DEF BucketsProgram
  <2> QED BY <1>1, <2>1 DEF CallsOf
<1>2. CASE prog = "schema"
  <2>1. \A j \in 1..Len(SchemaProgram) : SchemaProgram[j][1] # "create"
    BY DEF SchemaProgram
  <2> QED BY <1>2, <2>1 DEF CallsOf
<1>3. CASE prog = "prepare"
  <2>1. EnvOrder \in Seq(Envs)
    BY SetupAssumption DEF SetupAssumption
  <2> DEFINE logins == [j \in DOMAIN EnvOrder |-> <<"login", EnvOrder[j]>>]
  <2>2. logins \in Seq({"login"} \X Envs)
    BY <2>1
  <2>3. CallsOf("prepare") = logins \o << <<"validate", None>> >>
    BY DEF CallsOf, PreparePreflight
  <2> HIDE DEF logins
  <2>4. CallsOf(prog)[i] \in {"login"} \X Envs \/ CallsOf(prog)[i] = <<"validate", None>>
    BY <1>3, <2>2, <2>3
  <2> QED BY <2>4
<1>4. CASE prog = "landing"
  <2>1. \A j \in 1..Len(LandingPreflight) : LandingPreflight[j][1] # "create"
    BY DEF LandingPreflight, Probing
  <2> QED BY <1>4, <2>1 DEF CallsOf
<1>5. CASE prog = "staging"
  <2>1. \A j \in 1..Len(StagingPreflight) : StagingPreflight[j][1] # "create"
    BY DEF StagingPreflight, Probing
  <2> QED BY <1>5, <2>1 DEF CallsOf
<1>6. CASE prog = "switch"
  <2>1. \A j \in 1..Len(SwitchProgram) : SwitchProgram[j][1] # "create"
    BY DEF SwitchProgram
  <2> QED BY <1>6, <2>1 DEF CallsOf
<1> QED BY <1>1, <1>2, <1>3, <1>4, <1>5, <1>6 DEF Programs

LEMMA NothingToCreateNext ==
  ASSUME TypeOK, NEW p \in Processes, FollowsProgram(p), todo[p] # <<>>, Shorten(p)
  PROVE  ~AboutTo(p, "create")'
<1> SUFFICES ASSUME todo'[p] # <<>> PROVE Head(todo'[p])[1] # "create"
  BY DEF AboutTo
<1>1. todo[p] \in Seq(Calls) /\ Running(p) /\ program[p] \in Programs
  BY DEF TypeOK, Running
<1>2. todo'[p] = Tail(todo[p])
  BY DEF Shorten, TypeOK
<1>3. Len(todo[p]) >= 2 /\ Head(todo'[p]) = todo[p][2]
  BY <1>1, <1>2
<1>4. PICK s \in Seq(Calls) : s = CallsOf(program[p])
  BY <1>1, CallsAreTyped
<1>5. PICK l \in Nat : l = Len(todo[p])
  BY <1>1
<1>6. PICK m \in Nat : m = Len(s)
  BY <1>4
<1>7. m - l >= 0 /\ todo[p][2] = s[m - l + 2]
  <2>1. /\ m - l >= 0
        /\ \A i \in 1..l : todo[p][i] = s[m - l + i]
                               \/ (i = 1 /\ TurnsInto(s[m - l + i], todo[p][i]))
    BY <1>1, <1>4, <1>5, <1>6 DEF FollowsProgram, Left
  <2>2. 2 \in 1..l /\ 2 # 1
    BY <1>3, <1>5
  <2> QED BY <2>1, <2>2
<1>8. m - l + 2 \in 1..m
  BY <1>3, <1>5, <1>7
<1>9. CallsOf(program[p])[m - l + 2][1] # "create"
  BY <1>1, <1>4, <1>6, <1>8, ProgramsOnlyAsk
<1> QED BY <1>3, <1>4, <1>7, <1>9

\* Nor does it get off course by its own calls.
LEMMA SelfOnCourse ==
  ASSUME TypeOK, TypeOK', NEW p \in Processes, OnCourse(p), Effect(p)
  PROVE  OnCourse(p)'
<1>1. CASE Stops(p)
  <2>1. program'[p] = None /\ seen'[p] = None
    BY <1>1 DEF Stops, End, Forget, TypeOK
  <2> QED BY <2>1 DEF OnCourse, FollowsProgram, Running
<1>2. CASE TurnsToCreate(p)
  <2>1. /\ todo[p] # <<>> /\ Running(p) /\ CreateNext(p) /\ UNCHANGED <<world, local>>
        /\ Head(todo[p])[1] \in {"ensure", "restore"}
    BY <1>2 DEF TurnsToCreate, CreateNext, AboutTo
  <2>2. todo[p] \in Seq(Calls) /\ todo'[p] = << <<"create", What(p)>> >> \o Tail(todo[p])
    BY <2>1 DEF CreateNext, TypeOK
  <2>3. Head(todo'[p]) = <<"create", What(p)>> /\ Len(todo'[p]) = Len(todo[p])
    BY <2>1, <2>2
  <2>4. FollowsProgram(p)' /\ Left(p)' = Left(p)
    <3>1. FollowsProgram(p)'
      BY <2>1, StillFollows DEF OnCourse, local
    <3> QED BY <2>3, <3>1 DEF Left
  <2>5. ASSUME ~excused'[p] PROVE FindsAllItNeeds(p)' /\ NobodySpoils(p)'
    <3>1. FindsAllItNeeds(p) /\ NobodySpoils(p) /\ What(p) \notin have
      BY <1>2, <2>1, <2>5 DEF TurnsToCreate, OnCourse
    <3>2. What(p)' \notin have'
      BY <2>1, <2>3, <3>1 DEF What, world
    <3>3. NobodySpoils(p)'
      BY <2>1, <3>1 DEF NobodySpoils, local
    <3> QED BY <2>1, <2>4, <3>1, <3>2, <3>3 DEF FindsAllItNeeds, world, local, Conforms
  <2> QED BY <2>1, <2>4, <2>5 DEF OnCourse, Running, local
<1>3. CASE Makes(p)
  <2>1. /\ todo[p] # <<>> /\ Shorten(p) /\ program'[p] = program[p] /\ Running(p)
        /\ program[p] \in Programs
    BY <1>3, NextCall DEF Makes, Running, TypeOK
  <2>2. FollowsProgram(p) /\ FollowsProgram(p)' /\ Left(p)' = Left(p) - 1
    BY <2>1, StillFollows DEF OnCourse
  <2>3. ASSUME ~excused'[p] PROVE FindsAllItNeeds(p)' /\ NobodySpoils(p)'
    <3>1. FindsAllItNeeds(p) /\ NobodySpoils(p) /\ ~AboutTo(p, "create")'
      BY <1>3, <2>1, <2>2, <2>3, NothingToCreateNext DEF Makes, OnCourse
    <3>2. NobodySpoils(p)'
      BY <2>1, <3>1 DEF NobodySpoils, Effect, Spares
    <3>3. Left(p) \in Nat \ {0} /\ Left(p)' = Left(p) - 1
      BY <2>1, <2>2 DEF Left, TypeOK
    <3>4. /\ have \subseteq have' /\ (\A t \in Tables : db[t] = {} \/ db'[t] = db[t])
          /\ contract' = contract /\ (Conforms(db, contract) => Conforms(db', contract))
          /\ FoldersTable \in Tables
      BY SetupAssumption DEF Effect, Spares, Kept, Conforms, TypeOK, Contract, SetupAssumption
    <3>5. /\ Kind(p) \notin {"truncate", "write"} => envfile' = envfile
          /\ Kind(p) # "delete" => (probe => probe')
          /\ Kind(p) = "put" => probe'
          /\ Kind(p) \in {"restore", "create"} => What(p) \in have'
          /\ Kind(p) = "tableBucket" => TableBucket \in have'
          /\ Kind(p) = "inspect" => \A t \in missing'[p] : db'[t] = {}
          /\ Kind(p) = "read" => config'[p] = envfile
          /\ Kind(p) # "read" => config'[p] = config[p]
          /\ Kind(p) # "resolve" => target'[p] = target[p]
          /\ Kind(p) = "write" => envfile' = IF config[p] = None THEN None ELSE target[p]
          /\ seen'[p] \in {seen[p], LoadedContract(p)}
      BY <1>3, <2>1 DEF Effect, Spares, Makes, Kind, AboutTo
    <3>6. CASE program[p] \in {"prepare", "landing", "staging"}
      <4>1. Kind(p) \notin {"truncate", "write"}
        BY <2>1, <2>2, <3>6, WherePrepare, WhereLanding, WhereStaging
      <4>2. /\ envfile' # None /\ Conforms(db', contract')
            /\ seen'[p] \in {None, contract'}
        BY <3>1, <3>4, <3>5, <3>6, <4>1 DEF FindsAllItNeeds, LoadedContract
      <4>3. program[p] = "landing" =>
              /\ Lakehouse \in have' /\ db'[FoldersTable] # {}
              /\ Left(p)' <= 9 => Landing \in have'
              /\ Left(p)' = 5 => probe'
        BY <2>1, <2>2, <3>1, <3>3, <3>4, <3>5, WhereLanding DEF FindsAllItNeeds
      <4>4. program[p] = "staging" =>
              /\ {Landing, Lakehouse} \subseteq have'
              /\ Left(p)' <= 9 => TableBucket \in have'
              /\ Left(p)' = 5 => probe'
        BY <2>1, <2>2, <3>1, <3>3, <3>4, <3>5, WhereStaging DEF FindsAllItNeeds
      <4> QED BY <2>1, <3>1, <3>2, <3>6, <4>2, <4>3, <4>4 DEF FindsAllItNeeds, Conforms
    <3>7. CASE program[p] = "buckets"
      <4>1. Left(p)' <= 3 => TableBucket \in have'
        BY <2>1, <2>2, <3>1, <3>3, <3>4, <3>5, <3>7, WhereBuckets DEF FindsAllItNeeds
      <4> QED BY <2>1, <3>1, <3>2, <3>7, <4>1 DEF FindsAllItNeeds
    <3>8. CASE program[p] = "schema"
      <4>1. Left(p)' = 1 => \A t \in missing'[p] : db'[t] = {}
        BY <2>1, <2>2, <3>3, <3>5, <3>8, WhereSchema
      <4> QED BY <2>1, <3>1, <3>2, <3>8, <4>1 DEF FindsAllItNeeds
    <3>9. CASE program[p] = "switch"
      <4>1. /\ Left(p)' = 3 => envfile' # None
            /\ Left(p)' \in {1, 2} => config'[p] # None
            /\ Left(p)' = 0 => envfile' = target'[p]
        BY <2>1, <2>2, <3>1, <3>3, <3>5, <3>9, WhereSwitch DEF FindsAllItNeeds
      <4> QED BY <2>1, <3>1, <3>2, <3>9, <4>1 DEF FindsAllItNeeds
    <3> QED BY <2>1, <3>6, <3>7, <3>8, <3>9 DEF Programs
  <2> QED BY <2>1, <2>2, <2>3 DEF OnCourse, Running
<1> QED BY <1>1, <1>2, <1>3 DEF Effect

\* A program that lacks nothing starts on course, and excuses those that it may spoil.
LEMMA StartOnCourse ==
  ASSUME TypeOK, \A q \in Processes : OnCourse(q),
         NEW p \in Processes, NEW prog \in Programs, NEW env \in Envs, Start(p, prog, env),
         NEW q \in Processes
  PROVE  OnCourse(q)'
<1>1. ~Running(p) /\ UNCHANGED world
  BY DEF Start
<1>2. CASE envfile = None /\ prog # "switch"
  <2>1. End(p)
    BY <1>2 DEF Start
  <2>2. CASE q = p
    <3>1. program'[q] = None /\ seen'[q] = None
      BY <2>1, <2>2 DEF End, Forget, TypeOK
    <3> QED BY <3>1 DEF OnCourse, FollowsProgram, Running
  <2>3. CASE q # p
    <3>1. /\ program'[p] \in {program[p], None} /\ program'[q] = program[q]
          /\ todo'[q] = todo[q] /\ seen'[q] = seen[q] /\ missing'[q] = missing[q]
          /\ config'[q] = config[q] /\ target'[q] = target[q] /\ (excused'[q] <=> excused[q])
      BY <2>1, <2>3, EndSpares DEF End, Forget, TypeOK
    <3>2. Effect(p)
      BY <1>1, <1>2, <2>1, EndSpares
         DEF Effect, Spares, Stops, Kept, world, TypeOK
    <3> QED BY <2>3, <3>2, OthersOnCourse
  <2> QED BY <2>2, <2>3
<1>3. CASE ~(envfile = None /\ prog # "switch")
  <2>1. /\ program' = [program EXCEPT ![p] = prog] /\ todo' = [todo EXCEPT ![p] = CallsOf(prog)]
        /\ config' = [config EXCEPT ![p] = IF Resolves(prog) THEN envfile ELSE None]
        /\ target' = [target EXCEPT ![p] = IF prog = "switch" THEN env ELSE None]
        /\ UNCHANGED <<seen, missing>>
        /\ excused' = [r \in Processes |->
                   IF r = p
                   THEN Lacking(prog) \/ \E o \in Processes : Spoils(program[o], prog)
                   ELSE excused[r] \/ (Running(r) /\ Spoils(prog, program[r]))]
    BY <1>3 DEF Start
  <2>2. CASE q = p
    <3>1. program'[p] = prog /\ todo'[p] = CallsOf(prog) /\ seen'[p] = None
      BY <1>1, <2>1 DEF TypeOK, OnCourse
    <3>2. PICK s \in Seq(Calls) : s = CallsOf(prog)
      BY CallsAreTyped
    <3>3. FollowsProgram(p)'
      <4>1. \A i \in 1..Len(s) : s[i] = s[(Len(s) - Len(s)) + i]
        OBVIOUS
      <4>2. Left(p)' = Len(s) /\ CallsOf(program'[p]) = s /\ Len(s) - Len(s) >= 0
        BY <3>1, <3>2 DEF Left
      <4> QED BY <3>1, <3>2, <4>1, <4>2 DEF FollowsProgram
    <3>4. ASSUME ~excused'[p] PROVE FindsAllItNeeds(p)' /\ NobodySpoils(p)'
      <4>1. ~Lacking(prog) /\ \A o \in Processes : ~Spoils(program[o], prog)
        BY <2>1, <3>4 DEF TypeOK
      <4>2. NobodySpoils(p)'
        BY <2>1, <3>1, <4>1 DEF NobodySpoils, TypeOK
      <4>3. ~AboutTo(p, "create")'
        <5> SUFFICES ASSUME s # <<>> PROVE Head(s)[1] # "create"
          BY <3>1, <3>2 DEF AboutTo
        <5>1. 1 \in 1..Len(s) /\ Head(s) = s[1]
          OBVIOUS
        <5> QED BY <3>2, <5>1, ProgramsOnlyAsk
      <4>4. /\ prog = "buckets" => Left(p)' = 4
            /\ prog = "schema" => Left(p)' = 2
            /\ prog = "landing" => Left(p)' = 11
            /\ prog = "staging" => Left(p)' = 10
            /\ prog = "switch" => Left(p)' = 3
        <5>1. /\ Len(BucketsProgram) = 4 /\ Len(SchemaProgram) = 2
              /\ Len(LandingPreflight) = 11 /\ Len(StagingPreflight) = 10
              /\ Len(SwitchProgram) = 3
          BY DEF BucketsProgram, SchemaProgram, LandingPreflight, StagingPreflight,
                 SwitchProgram, Probing
        <5> QED BY <3>1, <5>1 DEF Left, CallsOf
      <4>5. /\ envfile' # None
            /\ prog \in {"prepare", "landing", "staging"} => Conforms(db', contract')
            /\ prog \in {"landing", "staging"} => Lakehouse \in have'
            /\ prog = "staging" => Landing \in have'
            /\ prog = "landing" => db'[FoldersTable] # {}
        BY <1>1, <4>1 DEF Lacking, world, Conforms
      <4> QED BY <3>1, <4>2, <4>3, <4>4, <4>5 DEF FindsAllItNeeds, Conforms
    <3> QED BY <2>2, <3>1, <3>3, <3>4, SetupAssumption
            DEF OnCourse, Running, SetupAssumption
  <2>3. CASE q # p
    <3>1. /\ program'[q] = program[q] /\ todo'[q] = todo[q] /\ seen'[q] = seen[q]
          /\ missing'[q] = missing[q] /\ config'[q] = config[q] /\ target'[q] = target[q]
      BY <2>1, <2>3 DEF TypeOK
    <3>2. FollowsProgram(q)' /\ Left(q)' = Left(q)
      BY <3>1 DEF OnCourse, FollowsProgram, Left, Running
    <3>3. ASSUME Running(q), ~excused'[q] PROVE FindsAllItNeeds(q)' /\ NobodySpoils(q)'
      <4>1. ~excused[q] /\ ~Spoils(prog, program[q])
        BY <2>1, <2>3, <3>3 DEF TypeOK
      <4>2. FindsAllItNeeds(q) /\ NobodySpoils(q)
        BY <3>3, <4>1 DEF OnCourse
      <4>3. NobodySpoils(q)'
        BY <2>1, <3>1, <4>1, <4>2 DEF NobodySpoils, TypeOK
      <4>4. FindsAllItNeeds(q)'
        BY <1>1, <3>1, <3>2, <4>2
           DEF FindsAllItNeeds, world, AboutTo, What, Running, Conforms
      <4> QED BY <4>3, <4>4
    <3> QED BY <3>1, <3>2, <3>3 DEF OnCourse, Running
  <2> QED BY <2>2, <2>3
<1> QED BY <1>2, <1>3

LEMMA EditsLeaveOnCourse ==
  ASSUME TypeOK, World, NEW q \in Processes, OnCourse(q)
  PROVE  OnCourse(q)'
<1>1. UNCHANGED <<have, probe, db, envfile, todo, local>>
  BY DEF World, EditContract, EditChecklist
<1>2. /\ ~excused'[q] => ~excused[q]
      /\ \/ contract' = contract
         \/ Running(q) /\ ~excused'[q] => program[q] \notin {"prepare", "landing", "staging"}
  BY DEF World, EditContract, EditChecklist, TypeOK
<1>3. FollowsProgram(q)' /\ Left(q)' = Left(q)
  BY <1>1 DEF OnCourse, FollowsProgram, Left, Running, local
<1>4. ASSUME Running(q), ~excused'[q] PROVE FindsAllItNeeds(q)' /\ NobodySpoils(q)'
  <2>1. FindsAllItNeeds(q) /\ NobodySpoils(q)
    BY <1>2, <1>4 DEF OnCourse
  <2>2. NobodySpoils(q)'
    BY <1>1, <2>1 DEF NobodySpoils, local
  <2>3. FindsAllItNeeds(q)'
    BY <1>1, <1>2, <1>3, <1>4, <2>1
       DEF FindsAllItNeeds, local, AboutTo, What, Running, Conforms
  <2> QED BY <2>2, <2>3
<1> QED BY <1>1, <1>3, <1>4 DEF OnCourse, Running, local

\* On course, no call is refused.
LEMMA NotRefused ==
  ASSUME TypeOK, NEW p \in Processes, OnCourse(p), Running(p), ~excused[p]
  PROVE  ~Refused(p)
<1> SUFFICES ASSUME Refused(p) PROVE FALSE
  OBVIOUS
<1>1. FollowsProgram(p) /\ FindsAllItNeeds(p) /\ program[p] \in Programs
  BY DEF OnCourse, TypeOK, Running
<1>2. todo[p] # <<>>
  BY DEF Refused, AboutTo
<1>3. \/ Kind(p) = "namespace" /\ TableBucket \notin have
      \/ Kind(p) = "demand" /\ What(p) \notin have
      \/ Kind(p) = "tree" /\ db[FoldersTable] = {}
      \/ Kind(p) = "get" /\ ~probe
      \/ Kind(p) = "createTables" /\ \E t \in missing[p] : db[t] # {}
      \/ Kind(p) = "validate" /\ ~Conforms(db, LoadedContract(p))
      \/ Kind(p) = "login" /\ envfile = None
  BY <1>1 DEF Refused, FindsAllItNeeds, AboutTo, Kind
<1>4. program[p] \in {"prepare", "landing", "staging"} =>
        envfile # None /\ Conforms(db, LoadedContract(p))
  BY <1>1 DEF FindsAllItNeeds, LoadedContract
<1>5. CASE program[p] = "buckets"
  BY <1>1, <1>2, <1>3, <1>5, WhereBuckets DEF FindsAllItNeeds
<1>6. CASE program[p] = "schema"
  BY <1>1, <1>2, <1>3, <1>6, WhereSchema DEF FindsAllItNeeds
<1>7. CASE program[p] = "prepare"
  BY <1>1, <1>2, <1>3, <1>4, <1>7, WherePrepare
<1>8. CASE program[p] = "landing"
  BY <1>1, <1>2, <1>3, <1>4, <1>8, WhereLanding DEF FindsAllItNeeds
<1>9. CASE program[p] = "staging"
  <2>1. Kind(p) = "demand" => What(p) \in {Landing, Lakehouse}
    BY <1>2, NextCall, BucketCalls DEF Kind, What
  <2> QED BY <1>1, <1>2, <1>3, <1>4, <1>9, <2>1, WhereStaging DEF FindsAllItNeeds
<1>10. CASE program[p] = "switch"
  BY <1>1, <1>2, <1>3, <1>10, WhereSwitch
<1> QED BY <1>1, <1>5, <1>6, <1>7, <1>8, <1>9, <1>10 DEF Programs

LEMMA CourseIsKept ==
  ASSUME TypeOK, TypeOK', \A q \in Processes : OnCourse(q), [Next]_vars
  PROVE  \A q \in Processes : OnCourse(q)'
<1>1. ASSUME NEW p \in Processes, NEW prog \in Programs, NEW env \in Envs,
             Start(p, prog, env), NEW q \in Processes
      PROVE  OnCourse(q)'
  BY <1>1, StartOnCourse
<1>2. ASSUME NEW p \in Processes, Work(p) \/ Trouble(p), NEW q \in Processes
      PROVE  OnCourse(q)'
  BY <1>2, EffectOfCalls, SelfOnCourse, OthersOnCourse
<1>3. ASSUME World, NEW q \in Processes PROVE OnCourse(q)'
  BY <1>3, EditsLeaveOnCourse
<1>4. ASSUME UNCHANGED vars, NEW q \in Processes PROVE OnCourse(q)'
  BY <1>4 DEF vars, world, local, history, OnCourse, FollowsProgram, FindsAllItNeeds,
              NobodySpoils, Left, AboutTo, What, Running, Conforms
<1> QED BY <1>1, <1>2, <1>3, <1>4 DEF Next

\* Without a failed call of its own, an edit, something missing from the start, or an
\* overlap that Spoils names, no program ends before its last call, and a switch leaves
\* its target; for UndisturbedRunsSucceed.
THEOREM UndisturbedSucceeds == Spec => UndisturbedRunsSucceed
<1> DEFINE Inv == \A p \in Processes : OnCourse(p)
           Succeeds == \A p \in Processes : Ends(p) /\ ~excused[p] /\ faults' = faults =>
                          /\ todo[p] = <<>>
                          /\ program[p] = "switch" => envfile = target[p]
<1>1. Init => Inv
  <2>1. None \notin Programs
    BY SetupAssumption DEF SetupAssumption
  <2> QED BY <2>1 DEF Init, OnCourse, FollowsProgram, Running
<1>2. TypeOK /\ TypeOK' /\ Inv /\ [Next]_vars => Inv'
  BY CourseIsKept
<1>3. TypeOK /\ Inv /\ [Next]_vars => [Succeeds]_vars
  <2> SUFFICES ASSUME TypeOK, Inv, Next, NEW p \in Processes,
                      Ends(p), ~excused[p], faults' = faults
               PROVE  todo[p] = <<>> /\ (program[p] = "switch" => envfile = target[p])
    BY DEF vars
  <2>1. Running(p) /\ program'[p] = None /\ OnCourse(p)
    BY DEF Ends, Running
  <2>2. Work(p) \/ Trouble(p)
    <3>1. ASSUME NEW o \in Processes, Work(o) \/ Trouble(o) PROVE o = p
      <4>1. \A q \in Processes \ {o} : program'[q] = program[q]
        BY <3>1, EffectOfCalls DEF Effect, Spares
      <4> QED BY <2>1, <4>1 DEF Running
    <3>2. ASSUME NEW o \in Processes, NEW prog \in Programs, NEW env \in Envs,
                 Start(o, prog, env)
          PROVE  FALSE
      <4>1. o # p /\ program'[p] = program[p]
        BY <2>1, <3>2 DEF Start, End, Forget, Running, TypeOK
      <4> QED BY <2>1, <4>1 DEF Running
    <3>3. ~World
      BY <2>1 DEF World, EditContract, EditChecklist, local, Running
    <3> QED BY <3>1, <3>2, <3>3 DEF Next
  <2>3. Stops(p)
    BY <2>1, <2>2, EffectOfCalls DEF Effect, Makes, TurnsToCreate, CreateNext, local, Running
  <2>4. todo[p] = <<>>
    BY <2>1, <2>3, NotRefused DEF Stops
  <2>5. FindsAllItNeeds(p) /\ Left(p) = 0
    BY <2>1, <2>4 DEF OnCourse, Left
  <2> QED BY <2>4, <2>5 DEF FindsAllItNeeds
<1>4. Spec => [][Succeeds]_vars
  BY <1>1, <1>2, <1>3, TypeCorrect, PTL DEF Spec
<1> QED BY <1>4 DEF UndisturbedRunsSucceed

=============================================================================
