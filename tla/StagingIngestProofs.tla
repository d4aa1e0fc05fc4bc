-------------------------- MODULE StagingIngestProofs --------------------------
(***************************************************************************)
(* Theorems about the staging stage, for any number of overlapping         *)
(* stagers, any files and contracts, and any bounds.                       *)
(***************************************************************************)
EXTENDS StagingIngest, WellFoundedInduction, TLAPS

-----------------------------------------------------------------------------
(* Type correctness.                                                       *)

LEMMA InitTypeOK == Init => TypeOK
  BY StagingConstants DEF Init, TypeOK, Version, Nothing

\* What a write leaves in the tables are rows.
LEMMA WriteIsTyped ==
  ASSUME TypeOK, NEW p \in Stagers, cur[p] \in Contracts, WriteTable(p)
  PROVE  rows' \subseteq Row /\ snapshot' \in [Contracts -> Nat]
<1>1. \A F \in SUBSET Files : Inserted(p, F) \subseteq Row
  BY DEF TypeOK, Inserted, Row
<1>2. \A r \in rows : Updated(p, r) \subseteq Row
  BY DEF TypeOK, Updated, Matching, Batch, Row
<1>3. MergedRows(p) \subseteq Row
  <2>1. Inserted(p, Unmatched(p)) \subseteq Row
    BY <1>1 DEF Unmatched, Batch
  <2>2. \A r \in Table(cur[p]) : Updated(p, r) \subseteq Row
    BY <1>2 DEF Table
  <2>. QED  BY <2>1, <2>2 DEF MergedRows, TypeOK
<1>4. rows \union Inserted(p, Batch(p)) \subseteq Row
  BY <1>1 DEF Batch, TypeOK
<1>5. rows' \subseteq Row
  BY <1>3, <1>4 DEF WriteTable, CommitTable
<1>6. snapshot' \in [Contracts -> Nat]
  BY DEF WriteTable, CommitTable, TypeOK
<1>. QED  BY <1>5, <1>6

\* What is logged are attempts.
LEMMA LogIsTyped ==
  ASSUME TypeOK, NEW p \in Stagers, NEW s \in {"SUCCESS", "FAILED"}, WriteLog(p, s)
  PROVE  log' \subseteq Attempt
  BY DEF TypeOK, WriteLog, Attempt, Batch

LEMMA StepTypeOK == TypeOK /\ VersionsFlow /\ [Next]_vars => TypeOK'
<1> SUFFICES ASSUME TypeOK, VersionsFlow, [Next]_vars PROVE TypeOK'
  OBVIOUS
<1> USE StagingConstants
<1>0. \A p \in Stagers : pc[p] \in {"read", "write", "succeed", "fail"} => cur[p] \in Contracts
  BY DEF VersionsFlow
<1> USE DEF TypeOK, Version, Nothing, Goto, Fault, LeaveContract, LeaveRun
<1>1. CASE UNCHANGED vars
  BY <1>1 DEF vars, local
<1>2. ASSUME NEW p \in Stagers, Work(p) PROVE TypeOK'
  <2>1. CASE Query(p)
    BY <2>1 DEF Query
  <2>2. ASSUME NEW c \in Contracts, BeginContract(p, c) PROVE TypeOK'
    BY <2>2 DEF BeginContract
  <2>3. CASE ReadFiles(p)
    BY <1>0, <2>3 DEF ReadFiles
  <2>4. CASE Write(p)
    BY <1>0, <2>4, WriteIsTyped DEF Write
  <2>5. CASE CommitSuccess(p)
    BY <2>5, LogIsTyped DEF CommitSuccess
  <2>6. CASE CommitFailure(p)
    BY <2>6, LogIsTyped DEF CommitFailure
  <2>7. CASE FinishRun(p)
    BY <2>7 DEF FinishRun
  <2>8. CASE MergeRefused(p)
    BY <2>8 DEF MergeRefused
  <2>. QED  BY <1>2, <2>1, <2>2, <2>3, <2>4, <2>5, <2>6, <2>7, <2>8 DEF Work
<1>3. ASSUME NEW p \in Stagers, Trouble(p) PROVE TypeOK'
  <2>1. CASE CallError(p)
    BY <2>1 DEF CallError
  <2>2. CASE LostAnswer(p)
    <3>1. log' \subseteq Attempt /\ rows' \subseteq Row /\ snapshot' \in [Contracts -> Nat]
      BY <1>0, <2>2, WriteIsTyped, LogIsTyped DEF LostAnswer
    <3>. QED  BY <2>2, <3>1 DEF LostAnswer
  <2>3. CASE Die(p)
    BY <2>3 DEF Die
  <2>. QED  BY <1>3, <2>1, <2>2, <2>3 DEF Trouble
<1>4. ASSUME NEW f \in Files, LandingUploads(f) PROVE TypeOK'
  BY <1>4 DEF LandingUploads, local
<1>5. ASSUME NEW f \in Files, LandingRegisters(f) PROVE TypeOK'
  BY <1>5 DEF LandingRegisters, local
<1>. QED  BY <1>1, <1>2, <1>3, <1>4, <1>5 DEF Next
-----------------------------------------------------------------------------
(* What a write does to the rows.                                          *)

\* It touches the rows of its own contract only.
LEMMA WriteIsLocal ==
  ASSUME NEW p \in Stagers, WriteTable(p)
  PROVE  /\ \A r \in rows : ContractOf[r.file] # cur[p] => r \in rows'
         /\ \A r \in rows' : r \notin rows => ContractOf[r.file] = cur[p]
<1>1. \A x \in Inserted(p, Batch(p)) : ContractOf[x.file] = cur[p]
  BY DEF Inserted, Batch
<1>2. \A x \in Inserted(p, Unmatched(p)) : ContractOf[x.file] = cur[p]
  BY DEF Inserted, Unmatched, Batch
<1>3. \A r : \A x \in Updated(p, r) : ContractOf[x.file] = cur[p]
  BY DEF Updated, Matching, Batch
<1>. QED  BY <1>1, <1>2, <1>3 DEF WriteTable, CommitTable, MergedRows, Table

\* A row has the bytes the stager has read, or is as it was.
LEMMA WriteUsesData ==
  ASSUME NEW p \in Stagers, WriteTable(p), NEW x \in rows'
  PROVE  x \in rows \/ (x.file \in Batch(p) /\ x.ver = data[p][x.file])
<1>1. \A y \in Inserted(p, Batch(p)) : y.file \in Batch(p) /\ y.ver = data[p][y.file]
  BY DEF Inserted
<1>2. \A y \in Inserted(p, Unmatched(p)) : y.file \in Batch(p) /\ y.ver = data[p][y.file]
  BY DEF Inserted, Unmatched
<1>3. \A r : \A y \in Updated(p, r) : y.file \in Batch(p) /\ y.ver = data[p][y.file]
  BY DEF Updated, Matching
<1>. QED  BY <1>1, <1>2, <1>3 DEF WriteTable, CommitTable, MergedRows

\* A row survives, under its id: the same file's row is not made older.
LEMMA WriteKeepsRows ==
  ASSUME TypeOK, VersionsFlow, NEW p \in Stagers, pc[p] = "write", WriteTable(p),
         NEW r \in rows
  PROVE  \E s \in rows' : s.id = r.id /\ (s.file = r.file => s.ver >= r.ver)
<1>0. r.ver \in Nat
  BY StagingConstants DEF TypeOK, Row, Version
<1>1. CASE r \in rows'
  BY <1>0, <1>1
<1>2. CASE r \notin rows'
  <2>1. cur[p] \notin Keyless /\ ~Conflict(p) /\ rows' = MergedRows(p)
    BY <1>2 DEF WriteTable, CommitTable
  <2>2. r \in Table(cur[p]) /\ Matching(p, r) # {}
    BY <1>2, <2>1 DEF MergedRows
  <2>3. PICK f \in Matching(p, r) : TRUE
    BY <2>2
  <2>4. f \in Batch(p)
    BY DEF Matching
  <2> DEFINE s == [id |-> r.id, file |-> f, ver |-> data[p][f]]
  <2>5. s \in rows'
    BY <2>1, <2>2, <2>3 DEF MergedRows, Updated
  <2>6. s.file = r.file => s.ver >= r.ver
    BY <2>1, <2>2, <2>4 DEF VersionsFlow, BasedOnTable
  <2>. QED  BY <2>5, <2>6
<1>. QED  BY <1>1, <1>2
-----------------------------------------------------------------------------
(* Versions flow forward, and no row goes back.                            *)

LEMMA InitVersionsFlow == Init => VersionsFlow
  BY DEF Init, VersionsFlow, Nothing

\* One stager's write leaves what another carries as it must be.
LEMMA WriteKeepsFlow ==
  ASSUME TypeOK, VersionsFlow, NEW p \in Stagers, pc[p] = "write", WriteTable(p),
         UNCHANGED <<stored, registry, todo, work, cur, at, base, data>>,
         NEW there \in {"succeed", "fail"}, Goto(p, there)
  PROVE  VersionsFlow'
<1> USE DEF TypeOK, Goto
<1>1. cur[p] \in Contracts /\ Carried(p)
  BY DEF VersionsFlow
<1>2. ASSUME NEW r \in rows' PROVE r.ver <= stored[r.file]
  <2>1. CASE r \in rows
    BY <2>1 DEF VersionsFlow
  <2>2. CASE r.file \in Batch(p) /\ r.ver = data[p][r.file]
    BY <1>1, <2>2 DEF Carried
  <2>. QED  BY <1>2, <2>1, <2>2, WriteUsesData
<1>3. /\ snapshot'[cur[p]] = snapshot[cur[p]] + 1
      /\ \A c \in Contracts : c # cur[p] => snapshot'[c] = snapshot[c]
  BY <1>1 DEF WriteTable, CommitTable
<1>4. ASSUME NEW q \in Stagers, pc'[q] = "write"
      PROVE  Carried(q)' /\ BasedOnTable(q)'
  <2>1. q # p /\ pc[q] = "write" /\ cur[q] \in Contracts /\ Carried(q) /\ BasedOnTable(q)
    BY <1>4 DEF VersionsFlow
  <2>2. Batch(q)' = Batch(q) /\ Carried(q)'
    BY <2>1 DEF Batch, Carried
  <2>3. CASE cur[q] = cur[p]
    BY <1>3, <2>1, <2>2, <2>3 DEF BasedOnTable, Conflict
  <2>4. CASE cur[q] # cur[p]
    <3>1. \A r \in rows' : ContractOf[r.file] = cur[q] => r \in rows
      BY <2>4, WriteIsLocal
    <3>2. snapshot'[cur[q]] = snapshot[cur[q]]
      BY <1>3, <2>1, <2>4
    <3>. QED  BY <2>1, <2>2, <3>1, <3>2 DEF BasedOnTable, Conflict, Table
  <2>. QED  BY <2>2, <2>3, <2>4
<1>5. \A q \in Stagers : pc'[q] \in {"read", "write", "succeed", "fail"} => cur'[q] \in Contracts
  BY <1>1 DEF VersionsFlow
<1>. QED  BY <1>2, <1>4, <1>5 DEF VersionsFlow

LEMMA StepVersionsFlow == TypeOK /\ VersionsFlow /\ [Next]_vars => VersionsFlow'
<1> SUFFICES ASSUME TypeOK, VersionsFlow, [Next]_vars PROVE VersionsFlow'
  OBVIOUS
<1> USE StagingConstants
<1> USE DEF TypeOK, Version, Nothing, Goto, LeaveContract, LeaveRun, VersionsFlow,
            Carried, BasedOnTable, Batch, Table, Conflict
<1>1. CASE UNCHANGED vars
  BY <1>1 DEF vars, local
<1>2. ASSUME NEW p \in Stagers, Work(p) PROVE VersionsFlow'
  <2>1. CASE Query(p)
    BY <2>1 DEF Query
  <2>2. ASSUME NEW c \in Contracts, BeginContract(p, c) PROVE VersionsFlow'
    BY <2>2 DEF BeginContract
  <2>3. CASE ReadFiles(p)
    BY <2>3 DEF ReadFiles
  <2>4. CASE Write(p)
    BY <2>4, WriteKeepsFlow DEF Write
  <2>5. CASE CommitSuccess(p)
    BY <2>5 DEF CommitSuccess
  <2>6. CASE CommitFailure(p)
    BY <2>6 DEF CommitFailure
  <2>7. CASE FinishRun(p)
    BY <2>7 DEF FinishRun
  <2>8. CASE MergeRefused(p)
    BY <2>8 DEF MergeRefused
  <2>. QED  BY <1>2, <2>1, <2>2, <2>3, <2>4, <2>5, <2>6, <2>7, <2>8 DEF Work
<1>3. ASSUME NEW p \in Stagers, Trouble(p) PROVE VersionsFlow'
  <2>1. CASE CallError(p)
    BY <2>1 DEF CallError
  <2>2. CASE pc[p] = "write" /\ WriteTable(p) /\ LostAnswer(p)
    BY <2>2, WriteKeepsFlow DEF LostAnswer
  <2>3. CASE pc[p] = "succeed" /\ UNCHANGED <<rows, snapshot>> /\ LostAnswer(p)
    BY <2>3 DEF LostAnswer
  <2>4. CASE Die(p)
    BY <2>4 DEF Die
  <2>. QED  BY <1>3, <2>1, <2>2, <2>3, <2>4 DEF Trouble, LostAnswer
<1>4. ASSUME NEW f \in Files, LandingUploads(f) PROVE VersionsFlow'
  BY <1>4 DEF LandingUploads, local, Row
<1>5. ASSUME NEW f \in Files, LandingRegisters(f) PROVE VersionsFlow'
  BY <1>5 DEF LandingRegisters, local
<1>. QED  BY <1>1, <1>2, <1>3, <1>4, <1>5 DEF Next

LEMMA OnlyWritesTouchRows ==
  [Next]_vars => UNCHANGED rows \/ \E p \in Stagers : pc[p] = "write" /\ WriteTable(p)
  BY DEF Next, Work, Trouble, Query, BeginContract, ReadFiles, Write, CommitSuccess,
         CommitFailure, FinishRun, MergeRefused, CallError, LostAnswer, Die,
         LandingUploads, LandingRegisters, vars

LEMMA Invariance == Spec => [](TypeOK /\ VersionsFlow)
<1>1. Init => TypeOK /\ VersionsFlow  BY InitTypeOK, InitVersionsFlow
<1>2. TypeOK /\ VersionsFlow /\ [Next]_vars => TypeOK' /\ VersionsFlow'
  BY StepTypeOK, StepVersionsFlow
<1>. QED  BY <1>1, <1>2, PTL DEF Spec

\* Every reachable state is well-typed.
THEOREM TypeCorrect == Spec => []TypeOK
  BY Invariance, PTL

\* No stager overwrites a row with an older version of its file, however many
\* overlap: the one that has read before another's commit is refused.
THEOREM RowsMoveForward == Spec => RowsNeverRegress
<1> DEFINE Forward == \A r \in rows : \E s \in rows' :
                          s.id = r.id /\ (s.file = r.file => s.ver >= r.ver)
<1>1. TypeOK /\ VersionsFlow /\ [Next]_vars => [Forward]_rows
  <2> SUFFICES ASSUME TypeOK, VersionsFlow, [Next]_vars, rows' # rows PROVE Forward
    BY Zenon
  <2>1. \E p \in Stagers : pc[p] = "write" /\ WriteTable(p)
    BY OnlyWritesTouchRows
  <2>. QED  BY <2>1, WriteKeepsRows
<1>2. Spec => [][Forward]_rows
  BY <1>1, Invariance, PTL DEF Spec
<1>. QED  BY <1>2 DEF RowsNeverRegress
-----------------------------------------------------------------------------
(* A SUCCESS is never wrong, if business keys tell files apart.            *)

\* A write leaves every file at the version it was loaded with, or newer.
LEMMA WriteKeepsLoaded ==
  ASSUME DistinctKeys, TypeOK, VersionsFlow,
         NEW p \in Stagers, pc[p] = "write", WriteTable(p),
         NEW f \in Files, NEW v \in Nat, Loaded(f, v)
  PROVE  Loaded(f, v)'
<1>1. PICK r \in rows : r.file = f /\ r.ver >= v
  BY DEF Loaded
<1>2. r.ver \in Nat
  BY <1>1, StagingConstants DEF TypeOK, Row, Version
<1>3. CASE r \in rows'
  BY <1>1, <1>3 DEF Loaded
<1>4. CASE r \notin rows'
  <2>1. cur[p] \notin Keyless /\ ~Conflict(p) /\ rows' = MergedRows(p)
    BY <1>4 DEF WriteTable, CommitTable
  <2>2. r \in Table(cur[p]) /\ Matching(p, r) # {}
    BY <1>1, <1>4, <2>1 DEF MergedRows
  <2>3. f \in Matching(p, r)
    BY <1>1, <2>1, <2>2 DEF Matching, Table, Batch, DistinctKeys
  <2> DEFINE s == [id |-> r.id, file |-> f, ver |-> data[p][f]]
  <2>4. s \in rows'
    BY <2>1, <2>2, <2>3 DEF MergedRows, Updated
  <2>5. data[p][f] \in Nat /\ r.ver <= data[p][f]
    BY <1>1, <2>1, <2>2, <2>3, StagingConstants
    DEF VersionsFlow, BasedOnTable, Matching, TypeOK, Version
  <2>6. s.file = f /\ s.ver >= v
    BY <1>1, <1>2, <2>5
  <2>. QED  BY <2>4, <2>6 DEF Loaded
<1>. QED  BY <1>3, <1>4

\* And it leaves every file of the batch at the version read.
LEMMA WriteLoads ==
  ASSUME TypeOK, NEW p \in Stagers, WriteTable(p), NEW f \in Batch(p)
  PROVE  \E s \in rows' : s.file = f /\ s.ver = data[p][f]
<1> DEFINE new == [id |-> [file |-> f, at |-> at[p]], file |-> f, ver |-> data[p][f]]
<1>1. CASE cur[p] \in Keyless \/ f \in Unmatched(p)
  <2>1. new \in rows'
    BY <1>1 DEF WriteTable, CommitTable, MergedRows, Inserted
  <2>. QED  BY <2>1
<1>2. CASE cur[p] \notin Keyless /\ f \notin Unmatched(p)
  <2>1. PICK r \in Table(cur[p]) : f \in Matching(p, r)
    BY <1>2 DEF Unmatched
  <2>2. [id |-> r.id, file |-> f, ver |-> data[p][f]] \in rows'
    BY <1>2, <2>1 DEF WriteTable, CommitTable, MergedRows, Updated
  <2>. QED  BY <2>2
<1>. QED  BY <1>1, <1>2

LEMMA InitLoggedIsLoaded == Init => LoggedIsLoaded
  BY DEF Init, LoggedIsLoaded, SuccessMeansLoaded

LEMMA StepLoggedIsLoaded ==
  ASSUME DistinctKeys
  PROVE  TypeOK /\ VersionsFlow /\ LoggedIsLoaded /\ [Next]_vars => LoggedIsLoaded'
<1> SUFFICES ASSUME TypeOK, VersionsFlow, LoggedIsLoaded, [Next]_vars
             PROVE  LoggedIsLoaded'
  OBVIOUS
<1> USE StagingConstants
<1>1. CASE UNCHANGED vars
  BY <1>1 DEF vars, local, LoggedIsLoaded, SuccessMeansLoaded, Loaded, Batch
<1>2. ASSUME NEW p \in Stagers, pc[p] = "write", WriteTable(p),
             UNCHANGED <<log, work, cur>>,
             NEW there \in {"succeed", "fail"}, Goto(p, there)
      PROVE  LoggedIsLoaded'
  <2>1. \A q \in Stagers : Batch(q)' = Batch(q)
    BY <1>2 DEF Batch
  <2>2. SuccessMeansLoaded'
    <3>1. ASSUME NEW a \in log, a.status = "SUCCESS" PROVE Loaded(a.file, a.hash)'
      <4>1. a.file \in Files /\ a.hash \in Nat /\ Loaded(a.file, a.hash)
        BY <3>1 DEF TypeOK, Attempt, Version, LoggedIsLoaded, SuccessMeansLoaded
      <4>. QED  BY <1>2, <4>1, WriteKeepsLoaded
    <3>. QED  BY <1>2, <3>1 DEF SuccessMeansLoaded
  <2>3. ASSUME NEW q \in Stagers, pc'[q] = "succeed", NEW f \in Batch(q)
        PROVE  Loaded(f, work[q][f])'
    <3>1. f \in Files /\ work[q][f] \in Nat
      BY DEF Batch, TypeOK, Version
    <3>2. CASE q = p
      <4>1. work[p][f] <= data[p][f]
        BY <1>2, <2>3, <3>2 DEF VersionsFlow, Carried
      <4>. QED  BY <1>2, <2>3, <3>2, <4>1, WriteLoads DEF Loaded
    <3>3. CASE q # p
      <4>1. pc[q] = "succeed" /\ Loaded(f, work[q][f])
        BY <1>2, <2>3, <3>3 DEF Goto, TypeOK, LoggedIsLoaded
      <4>. QED  BY <1>2, <3>1, <4>1, WriteKeepsLoaded
    <3>. QED  BY <3>2, <3>3
  <2>. QED  BY <1>2, <2>1, <2>2, <2>3 DEF LoggedIsLoaded
<1>3. ASSUME NEW p \in Stagers, pc[p] = "succeed", WriteLog(p, "SUCCESS"),
             UNCHANGED rows
      PROVE  SuccessMeansLoaded'
  BY <1>3 DEF WriteLog, LoggedIsLoaded, SuccessMeansLoaded, Loaded
<1> USE DEF TypeOK, Goto, LeaveContract, LeaveRun, LoggedIsLoaded, SuccessMeansLoaded,
            Loaded, Batch
<1>4. ASSUME NEW p \in Stagers, Work(p) PROVE LoggedIsLoaded'
  <2>1. CASE Query(p)
    BY <2>1 DEF Query
  <2>2. ASSUME NEW c \in Contracts, BeginContract(p, c) PROVE LoggedIsLoaded'
    BY <2>2 DEF BeginContract
  <2>3. CASE ReadFiles(p)
    BY <2>3 DEF ReadFiles
  <2>4. CASE Write(p)
    BY <1>2, <2>4 DEF Write
  <2>5. CASE CommitSuccess(p)
    BY <1>3, <2>5 DEF CommitSuccess
  <2>6. CASE CommitFailure(p)
    BY <2>6 DEF CommitFailure, WriteLog
  <2>7. CASE FinishRun(p)
    BY <2>7 DEF FinishRun
  <2>8. CASE MergeRefused(p)
    BY <2>8 DEF MergeRefused
  <2>. QED  BY <1>4, <2>1, <2>2, <2>3, <2>4, <2>5, <2>6, <2>7, <2>8 DEF Work
<1>5. ASSUME NEW p \in Stagers, Trouble(p) PROVE LoggedIsLoaded'
  <2>1. CASE CallError(p)
    BY <2>1 DEF CallError
  <2>2. CASE pc[p] = "write" /\ WriteTable(p) /\ UNCHANGED log /\ LostAnswer(p)
    BY <1>2, <2>2 DEF LostAnswer
  <2>3. CASE pc[p] = "succeed" /\ WriteLog(p, "SUCCESS") /\ UNCHANGED <<rows, snapshot>>
             /\ LostAnswer(p)
    BY <1>3, <2>3 DEF LostAnswer
  <2>4. CASE Die(p)
    BY <2>4 DEF Die
  <2>. QED  BY <1>5, <2>1, <2>2, <2>3, <2>4 DEF Trouble, LostAnswer
<1>6. ASSUME NEW f \in Files, LandingUploads(f) \/ LandingRegisters(f) PROVE LoggedIsLoaded'
  BY <1>6 DEF LandingUploads, LandingRegisters, local
<1>. QED  BY <1>1, <1>4, <1>5, <1>6 DEF Next

\* The log entry that excludes a file from later runs is never wrong, with any
\* failures, lost answers, deaths and overlaps.
THEOREM SuccessIsTrue == DistinctKeys => (Spec => []SuccessMeansLoaded)
<1> SUFFICES ASSUME DistinctKeys PROVE Spec => []SuccessMeansLoaded
  OBVIOUS
<1>1. TypeOK /\ VersionsFlow /\ LoggedIsLoaded /\ [Next]_vars => LoggedIsLoaded'
  BY StepLoggedIsLoaded
<1>2. LoggedIsLoaded => SuccessMeansLoaded
  BY DEF LoggedIsLoaded
<1>. QED  BY <1>1, <1>2, InitLoggedIsLoaded, Invariance, PTL DEF Spec
-----------------------------------------------------------------------------
(* Merged tables keep one row per key, under the same condition.           *)

\* Under DistinctKeys a row matches its own file only, so after a merge each row
\* is an old one, with the same id and file, or was inserted for a file without one.
LEMMA WriteOrigin ==
  ASSUME DistinctKeys, TypeOK, NEW p \in Stagers, cur[p] \in Contracts,
         rows' = MergedRows(p), cur[p] \notin Keyless, NEW x \in rows'
  PROVE  \/ x \in rows /\ (x \in Table(cur[p]) => Matching(p, x) = {})
         \/ \E r \in Table(cur[p]) :
                /\ r.file = x.file /\ Matching(p, r) # {}
                /\ x = [id |-> r.id, file |-> r.file, ver |-> data[p][r.file]]
         \/ x.file \in Unmatched(p) /\ x \in Inserted(p, {x.file})
<1>1. CASE x \in Inserted(p, Unmatched(p))
  BY <1>1 DEF Inserted
<1>2. ASSUME NEW r \in Table(cur[p]), x \in Updated(p, r)
      PROVE  /\ r.file = x.file /\ Matching(p, r) # {}
             /\ x = [id |-> r.id, file |-> r.file, ver |-> data[p][r.file]]
  <2>1. PICK f \in Matching(p, r) : x = [id |-> r.id, file |-> f, ver |-> data[p][f]]
    BY <1>2 DEF Updated
  <2>2. r.file \in Files
    BY DEF TypeOK, Table, Row
  <2>3. f = r.file
    BY <2>1, <2>2 DEF Matching, Table, Batch, DistinctKeys
  <2>. QED  BY <2>1, <2>3
<1>. QED  BY <1>1, <1>2 DEF MergedRows

LEMMA WriteKeepsUnique ==
  ASSUME DistinctKeys, TypeOK, BusinessKeysUnique,
         NEW p \in Stagers, cur[p] \in Contracts, WriteTable(p)
  PROVE  BusinessKeysUnique'
<1>1. CASE cur[p] \in Keyless
  <2>1. \A r \in rows' : ContractOf[r.file] \notin Keyless => r \in rows
    BY <1>1, WriteIsLocal
  <2>. QED  BY <2>1 DEF BusinessKeysUnique
<1>2. CASE cur[p] \notin Keyless
  <2> SUFFICES ASSUME NEW x \in rows', NEW y \in rows',
                      ContractOf[x.file] = ContractOf[y.file],
                      ContractOf[x.file] \notin Keyless,
                      KeyOf[x.file] = KeyOf[y.file]
               PROVE  x = y
    BY DEF BusinessKeysUnique
  <2>1. rows' = MergedRows(p)
    BY <1>2 DEF WriteTable, CommitTable
  <2>2. x.file \in Files /\ y.file \in Files
    BY WriteIsTyped DEF Row
  <2> DEFINE Kept(z) == z \in rows /\ (z \in Table(cur[p]) => Matching(p, z) = {})
             Updates(z, r) == /\ r \in Table(cur[p])
                              /\ r.file = z.file /\ Matching(p, r) # {}
                              /\ z = [id |-> r.id, file |-> r.file, ver |-> data[p][r.file]]
             New(z) == z.file \in Unmatched(p) /\ z \in Inserted(p, {z.file})
  <2>3. x.file = y.file
    BY <2>2, <1>2 DEF DistinctKeys
  <2>4. \A z \in rows' : Kept(z) \/ (\E r : Updates(z, r)) \/ New(z)
    BY <1>2, <2>1, WriteOrigin
  <2>5. ASSUME NEW z, New(z), NEW r \in rows, r.file = z.file PROVE FALSE
    <3>1. r \in Table(cur[p]) /\ z.file \in Batch(p)
      BY <2>5 DEF Unmatched, Batch, Table
    <3>2. z.file \in Matching(p, r)
      BY <2>5, <3>1 DEF Matching
    <3>. QED  BY <2>5, <3>1, <3>2 DEF Unmatched
  <2>6. \A r, s \in rows : r.file = x.file /\ s.file = x.file => r = s
    BY DEF BusinessKeysUnique
  <2>7. CASE New(x)
    <3>1. New(y)
      BY <2>3, <2>4, <2>5, <2>7 DEF Table
    <3>. QED  BY <2>3, <2>7, <3>1 DEF Inserted
  <2>8. CASE Kept(x)
    <3>1. ~New(y)
      BY <2>3, <2>5, <2>8
    <3>2. CASE Kept(y)
      BY <2>3, <2>6, <2>8, <3>2
    <3>3. ASSUME NEW r, Updates(y, r) PROVE FALSE
      BY <2>3, <2>6, <2>8, <3>3 DEF Table
    <3>. QED  BY <2>4, <3>1, <3>2, <3>3
  <2>9. ASSUME NEW r, Updates(x, r) PROVE x = y
    <3>1. ~New(y)
      BY <2>3, <2>5, <2>9 DEF Table
    <3>2. CASE Kept(y)
      BY <2>3, <2>6, <2>9, <3>2 DEF Table
    <3>3. ASSUME NEW s, Updates(y, s) PROVE x = y
      BY <2>3, <2>6, <2>9, <3>3 DEF Table
    <3>. QED  BY <2>4, <3>1, <3>2, <3>3
  <2>. QED  BY <2>4, <2>7, <2>8, <2>9
<1>. QED  BY <1>1, <1>2

\* No batch is ever in a merged table twice, however often it is repeated after a
\* failure, a lost answer or a death, and however stagers overlap.
THEOREM KeysStayUnique == DistinctKeys => (Spec => []BusinessKeysUnique)
<1> SUFFICES ASSUME DistinctKeys PROVE Spec => []BusinessKeysUnique
  OBVIOUS
<1>1. Init => BusinessKeysUnique
  BY DEF Init, BusinessKeysUnique
<1>2. TypeOK /\ VersionsFlow /\ BusinessKeysUnique /\ [Next]_vars => BusinessKeysUnique'
  <2> SUFFICES ASSUME TypeOK, VersionsFlow, BusinessKeysUnique, [Next]_vars
               PROVE  BusinessKeysUnique'
    OBVIOUS
  <2>1. CASE UNCHANGED rows
    BY <2>1 DEF BusinessKeysUnique
  <2>2. CASE \E p \in Stagers : pc[p] = "write" /\ WriteTable(p)
    BY <2>2, WriteKeepsUnique DEF VersionsFlow
  <2>3. UNCHANGED rows \/ \E p \in Stagers : pc[p] = "write" /\ WriteTable(p)
    BY OnlyWritesTouchRows
  <2>. QED  BY <2>1, <2>2, <2>3
<1>. QED  BY <1>1, <1>2, Invariance, PTL DEF Spec
-----------------------------------------------------------------------------
(* The stage is a reliable copier, under the same condition.               *)

LEMMA GreatestExists ==
  ASSUME NEW N \in Nat, NEW some \in SUBSET (0..N), some # {}
  PROVE  \E m \in some : \A n \in some : n <= m
<1> DEFINE bounds == {b \in Nat : \A n \in some : n <= b}
<1>1. bounds \subseteq Nat /\ bounds # {}
  BY N \in bounds
<1>2. IsWellFoundedOn(OpToRel(<, Nat), Nat)
  BY NatLessThanWellFounded, Zenon
<1>3. PICK m \in bounds : \A b \in bounds : ~(<<b, m>> \in OpToRel(<, Nat))
  BY <1>1, <1>2, WFMin, Zenon
<1>4. \A b \in bounds : ~(b < m)
  BY <1>1, <1>3, Zenon DEF OpToRel
<1>5. m \in some
  <2>1. SUFFICES ASSUME m \notin some PROVE FALSE
    OBVIOUS
  <2>2. \A n \in some : n \in Nat /\ n < m
    BY <2>1
  <2>3. m \in Nat /\ m # 0
    <3>1. PICK n \in some : n \in Nat /\ n < m
      BY <2>2
    <3>2. m \in Nat
      BY <1>1
    <3> QED BY <3>1, <3>2
  <2>4. m - 1 \in Nat /\ \A n \in some : n <= m - 1
    BY <2>2, <2>3
  <2>5. m - 1 \in bounds
    BY <2>4
  <2> QED BY <1>4, <2>3, <2>5
<1> QED BY <1>5

LEMMA NewestIsGreatest ==
  ASSUME NEW some \in SUBSET Version
  PROVE  /\ Newest(some) \in Nat
         /\ \A n \in some : n <= Newest(some)
         /\ Newest(some) # 0 => Newest(some) \in some
<1>1. CASE some = {}
  BY <1>1 DEF Newest
<1>2. CASE some # {}
  <2> DEFINE Greatest(m) == m \in some /\ \A n \in some : n <= m
  <2>1. \E m : Greatest(m)
    BY <1>2, GreatestExists, StagingConstants DEF Version
  <2>2. Newest(some) = CHOOSE m : Greatest(m)
    BY <1>2, Zenon DEF Newest
  <2>3. Greatest(Newest(some))
    <3> HIDE DEF Greatest
    <3>1. Greatest(CHOOSE m : Greatest(m))
      BY <2>1, Zenon
    <3> QED BY <2>2, <3>1
  <2>4. Version \subseteq Nat
    BY StagingConstants DEF Version
  <2> QED BY <2>3, <2>4
<1> QED BY <1>1, <1>2

\* A positive version is loaded if it is no newer than the copy.
LEMMA LoadedIsCopied ==
  ASSUME TypeOK, NEW f \in Files
  PROVE  /\ Copied(f) \in Nat
         /\ \A v \in Nat \ {0} : (Loaded(f, v) <=> v <= Copied(f))
         /\ Copied(f) # 0 => \E r \in rows : r.file = f /\ r.ver = Copied(f)
<1> DEFINE held == {r.ver : r \in {s \in rows : s.file = f}}
<1>1. held \subseteq Version
  BY DEF TypeOK, Row
<1>2. /\ Newest(held) \in Nat
      /\ \A n \in held : n <= Newest(held)
      /\ Newest(held) # 0 => Newest(held) \in held
  BY <1>1, NewestIsGreatest
<1>3. \A v \in Nat \ {0} : (Loaded(f, v) <=> v <= Newest(held))
  <2> SUFFICES ASSUME NEW v \in Nat \ {0} PROVE Loaded(f, v) <=> v <= Newest(held)
    OBVIOUS
  <2>1. \A r \in rows : r.ver \in Nat
    BY StagingConstants DEF TypeOK, Row, Version
  <2>2. Loaded(f, v) => v <= Newest(held)
    <3> SUFFICES ASSUME NEW r \in rows, r.file = f, r.ver >= v PROVE v <= Newest(held)
      BY DEF Loaded
    <3>1. r.ver \in held
      OBVIOUS
    <3>2. r.ver \in Nat /\ r.ver <= Newest(held)
      BY <1>2, <2>1, <3>1
    <3> QED BY <1>2, <3>2
  <2>3. v <= Newest(held) => Loaded(f, v)
    BY <1>2 DEF Loaded
  <2> QED BY <2>2, <2>3
<1> QED BY <1>2, <1>3 DEF Copied

\* What is acknowledged is a version of a successful entry of the log.
LEMMA AcknowledgedIsLogged ==
  ASSUME TypeOK, NEW f \in Files
  PROVE  /\ Acknowledged(f) \in Nat
         /\ Acknowledged(f) # 0 =>
                \E a \in log : a.file = f /\ a.status = "SUCCESS" /\ a.hash = Acknowledged(f)
<1> DEFINE named == {a.hash : a \in {b \in Latest(f) : b.status = "SUCCESS"}}
<1>1. named \subseteq Version
  BY DEF TypeOK, Attempt, Latest
<1>2. Newest(named) \in Nat /\ (Newest(named) # 0 => Newest(named) \in named)
  BY <1>1, NewestIsGreatest
<1> QED BY <1>2 DEF Acknowledged, Latest

\* In every reachable state the three levels of ReliableCopy are ordered.
LEMMA LevelsAreOrdered ==
  ASSUME TypeOK, VersionsFlow, LoggedIsLoaded, NEW f \in Files
  PROVE  Acknowledged(f) <= Copied(f) /\ Copied(f) <= stored[f]
<1>1. Copied(f) \in Nat /\ Acknowledged(f) \in Nat /\ stored[f] \in Nat
  BY LoadedIsCopied, AcknowledgedIsLogged, StagingConstants DEF TypeOK, Version
<1>2. Copied(f) <= stored[f]
  <2>1. CASE Copied(f) = 0
    BY <1>1, <2>1
  <2>2. CASE Copied(f) # 0
    BY <2>2, LoadedIsCopied DEF VersionsFlow
  <2> QED BY <2>1, <2>2
<1>3. Acknowledged(f) <= Copied(f)
  <2>1. CASE Acknowledged(f) = 0
    BY <1>1, <2>1
  <2>2. CASE Acknowledged(f) # 0
    <3>1. Loaded(f, Acknowledged(f))
      BY <2>2, AcknowledgedIsLogged DEF LoggedIsLoaded, SuccessMeansLoaded
    <3> QED BY <1>1, <2>2, <3>1, LoadedIsCopied
  <2> QED BY <2>1, <2>2
<1> QED BY <1>2, <1>3

\* A step moves one level at a time.
LEMMA OneLevelMoves ==
  [Next]_vars =>
    \/ /\ UNCHANGED <<stored, log>>
       /\ \E p \in Stagers : pc[p] = "write" /\ WriteTable(p)
    \/ UNCHANGED <<stored, rows>>
    \/ UNCHANGED <<rows, log>> /\ \E f \in Files : LandingUploads(f)
  BY DEF Next, Work, Trouble, Query, BeginContract, ReadFiles, Write, CommitSuccess,
         CommitFailure, FinishRun, MergeRefused, CallError, LostAnswer, Die,
         LandingUploads, LandingRegisters, vars

LEMMA InitMirrors == Init => Mirror!Init
<1> SUFFICES ASSUME Init PROVE Mirror!Init
  OBVIOUS
<1>1. \A f \in Files : Copied(f) = 0 /\ Acknowledged(f) = 0
  BY DEF Init, Copied, Acknowledged, Latest, Newest
<1>2. stored \in [Files -> Nat]
  BY DEF Init, Nothing
<1> QED BY <1>1, <1>2 DEF Mirror!Init, Mirror!Versions

\* The levels, before a step and after it.
Levels ==
    \A f \in Files :
        /\ Copied(f) \in Nat /\ Acknowledged(f) \in Nat
        /\ \A v \in Nat \ {0} : (Loaded(f, v) <=> v <= Copied(f))
        /\ Acknowledged(f) <= Copied(f) /\ Copied(f) <= stored[f]

LEMMA LevelsHold == TypeOK /\ VersionsFlow /\ LoggedIsLoaded => Levels
  BY LoadedIsCopied, AcknowledgedIsLogged, LevelsAreOrdered DEF Levels

\* A write of rows is its Transfer, an entry in the log its Acknowledge, an upload
\* of the landing stage its Publish; the rest is invisible to it.
LEMMA StepMirrors ==
  ASSUME DistinctKeys, TypeOK, VersionsFlow, LoggedIsLoaded, Levels, Levels', TypeOK',
         [Next]_vars
  PROVE  [Mirror!Next]_(Mirror!vars)
<1>1. stored \in [Files -> Nat] /\ stored' \in [Files -> Nat]
  BY StagingConstants DEF TypeOK, Version
<1>2. ASSUME UNCHANGED log PROVE \A f \in Files : Acknowledged(f)' = Acknowledged(f)
  BY <1>2 DEF Acknowledged, Latest
<1>3. ASSUME UNCHANGED rows PROVE \A f \in Files : Copied(f)' = Copied(f)
  BY <1>3 DEF Copied
<1>4. \A f \in Files : Copied(f)' \in Nat /\ Acknowledged(f)' \in Nat
  BY DEF Levels
<1>5. ASSUME UNCHANGED <<stored, log>>, NEW p \in Stagers, pc[p] = "write", WriteTable(p)
      PROVE  Mirror!Transfer
  <2>1. ASSUME NEW f \in Files PROVE Copied(f) <= Copied(f)'
    <3>1. CASE Copied(f) = 0
      BY <3>1 DEF Levels
    <3>2. CASE Copied(f) # 0
      <4>1. PICK v \in Nat : v = Copied(f)
        BY DEF Levels
      <4>2. v \in Nat \ {0} /\ v <= v
        BY <3>2, <4>1
      <4>3. Loaded(f, v)
        BY <4>1, <4>2 DEF Levels
      <4>4. Loaded(f, v)'
        BY <1>5, <4>3, WriteKeepsLoaded
      <4>5. v <= Copied(f)'
        BY <4>2, <4>4 DEF Levels
      <4> QED BY <4>1, <4>5
    <3> QED BY <3>1, <3>2
  <2>2. \A f \in Files : Copied(f)' <= stored[f]
    BY <1>5 DEF Levels
  <2> QED BY <1>2, <1>5, <1>4, <2>1, <2>2 DEF Mirror!Transfer, Mirror!Versions
<1>6. ASSUME UNCHANGED <<stored, rows>> PROVE Mirror!Acknowledge
  <2>1. \A f \in Files : Acknowledged(f)' <= Copied(f)
    BY <1>3, <1>6 DEF Levels
  <2> QED BY <1>3, <1>6, <1>4, <2>1 DEF Mirror!Acknowledge, Mirror!Versions
<1>7. ASSUME UNCHANGED <<rows, log>>, NEW f \in Files, LandingUploads(f)
      PROVE  Mirror!Publish
  <2>1. \A g \in Files : stored[g] <= stored'[g]
    BY <1>1, <1>7 DEF LandingUploads
  <2> QED BY <1>1, <1>2, <1>3, <1>7, <2>1 DEF Mirror!Publish, Mirror!Versions
<1> QED BY <1>5, <1>6, <1>7, OneLevelMoves DEF Mirror!Next

\* The staging stage, with overlapping stagers, failures, lost answers and deaths,
\* keeps the promise of ReliableCopy: what it calls loaded is in the tables, and what
\* is in the tables was in the bucket.
THEOREM StagingMirrors == DistinctKeys => (Spec => CopiesReliably)
<1> SUFFICES ASSUME DistinctKeys PROVE Spec => CopiesReliably
  OBVIOUS
<1>1. TypeOK /\ VersionsFlow /\ LoggedIsLoaded /\ [Next]_vars => LoggedIsLoaded'
  BY StepLoggedIsLoaded
<1>2. TypeOK /\ VersionsFlow /\ LoggedIsLoaded /\ Levels /\ TypeOK' /\ Levels' /\ [Next]_vars
        => [Mirror!Next]_(Mirror!vars)
  BY StepMirrors
<1>3. Spec => [](TypeOK /\ VersionsFlow /\ LoggedIsLoaded)
  BY <1>1, InitLoggedIsLoaded, Invariance, PTL DEF Spec
<1>4. Spec => []Levels
  BY <1>3, LevelsHold, PTL
<1> QED BY <1>2, <1>3, <1>4, InitMirrors, PTL DEF Spec, CopiesReliably, Mirror!Spec

\* What the next stage may rely on: a version called loaded is in the tables, and
\* every row has been in the bucket.
THEOREM StagingIsFounded == DistinctKeys => (Spec => []Mirror!NothingUnfounded)
<1> SUFFICES ASSUME DistinctKeys PROVE Spec => []Mirror!NothingUnfounded
  OBVIOUS
<1>1. TypeOK /\ VersionsFlow /\ LoggedIsLoaded /\ [Next]_vars => LoggedIsLoaded'
  BY StepLoggedIsLoaded
<1>2. TypeOK /\ VersionsFlow /\ LoggedIsLoaded => Mirror!NothingUnfounded
  BY LevelsAreOrdered DEF Mirror!NothingUnfounded
<1> QED BY <1>1, <1>2, InitLoggedIsLoaded, Invariance, PTL DEF Spec
=============================================================================
