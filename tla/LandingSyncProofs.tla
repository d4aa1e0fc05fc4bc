--------------------------- MODULE LandingSyncProofs ---------------------------
(***************************************************************************)
(* Theorems about the landing stage, for any files, folders, checklist and *)
(* bounds.  Type correctness and RowHasObject hold however many syncers    *)
(* overlap; the others need OneSyncer, and the overlap run shows why.      *)
(***************************************************************************)
EXTENDS LandingSync, TLAPS

\* The landing job never runs twice at the same time.
OneSyncer == \A p, q \in Syncers : p = q

-----------------------------------------------------------------------------
(* Type correctness.                                                       *)

LEMMA InitTypeOK == Init => TypeOK
  BY SyncConstants DEF Init, TypeOK, Version, Content, Absent, Entry, NoEntry, Transferring

\* Listing a folder yields entries, whatever the checklist selects.
LEMMA ListingIsTyped ==
  ASSUME TypeOK, NEW d \in Folders
  PROVE  {[file |-> f, ver |-> remote[f]] : f \in Selected(d)} \in SUBSET Entry
  BY DEF TypeOK, Selected, Entry, Version

LEMMA StepTypeOK == TypeOK /\ [Next]_vars => TypeOK'
<1> SUFFICES ASSUME TypeOK, [Next]_vars PROVE TypeOK'
  OBVIOUS
<1> USE SyncConstants
<1> USE DEF TypeOK, Version, Content, Absent, Entry, NoEntry, Transferring,
            Torn, Goto, Fault, AbandonFolder, PutObject, UpsertRow, TmpPath, Perhaps
<1>1. CASE UNCHANGED vars
  BY <1>1 DEF vars, local
<1>2. ASSUME NEW p \in Syncers, Work(p) PROVE TypeOK'
  <2>1. CASE StartRun(p)
    BY <2>1 DEF StartRun
  <2>2. ASSUME NEW d \in Folders, ListFolder(p, d) PROVE TypeOK'
    <3>1. {[file |-> f, ver |-> remote[f]] : f \in Selected(d)} \in SUBSET Entry
      BY ListingIsTyped
    <3>2. [f \in Files |-> IF f \in Selected(d) THEN remote[f] ELSE listed[p][f]]
            \in [Files -> Version]
      OBVIOUS
    <3>. QED  BY <2>2, <3>1, <3>2 DEF ListFolder
  <2>3. ASSUME NEW e \in batch[p], SkipFile(p, e) PROVE TypeOK'
    <3>1. batch' \in [Syncers -> SUBSET Entry]
      BY <2>3, SMTT(30) DEF SkipFile
    <3>. QED  BY <2>3, <3>1, SMTT(30) DEF SkipFile
  <2>4. ASSUME NEW e \in batch[p], SelectFile(p, e) PROVE TypeOK'
    BY <2>4 DEF SelectFile
  <2>5. CASE Download(p)
    BY <2>5 DEF Download
  <2>6. CASE WriteTmp(p)
    <3>1. tmp' \in [TmpNames -> Content]
      <4>1. CASE hold[p] = "gone"
        BY <2>6, <4>1 DEF WriteTmp
      <4>2. CASE hold[p] # "gone"
        <5>1. PICK bytes \in Perhaps(p, data[p]) : tmp' = [tmp EXCEPT ![TmpPath(p)] = bytes]
          BY <2>6, <4>2 DEF WriteTmp
        <5>2. bytes \in Content
          OBVIOUS
        <5>. QED  BY <5>1, <5>2
      <4>. QED  BY <4>1, <4>2
    <3>. QED  BY <2>6, <3>1 DEF WriteTmp
  <2>7. CASE Upload(p)
    BY <2>7 DEF Upload
  <2>8. CASE Unlink(p)
    BY <2>8 DEF Unlink
  <2>9. CASE Register(p)
    BY <2>9 DEF Register
  <2>10. CASE FinishFolder(p)
    BY <2>10 DEF FinishFolder
  <2>11. CASE FinishRun(p)
    BY <2>11 DEF FinishRun
  <2>12. CASE CertainError(p)
    BY <2>12 DEF CertainError
  <2>13. CASE OpenTmp(p)
    BY <2>13 DEF OpenTmp
  <2>. QED  BY <1>2, <2>1, <2>2, <2>3, <2>4, <2>5, <2>6, <2>7, <2>8, <2>9, <2>10,
               <2>11, <2>12, <2>13 DEF Work
<1>3. ASSUME NEW p \in Syncers, Trouble(p) PROVE TypeOK'
  <2>1. ASSUME NEW d \in Folders, ListingError(p, d) PROVE TypeOK'
    BY <2>1 DEF ListingError
  <2>2. CASE CallError(p)
    BY <2>2 DEF CallError
  <2>3. CASE LostAnswer(p)
    <3>1. stored' \in [Files -> Content] /\ lost' \subseteq Files /\ registry' \in [Files -> Version]
      <4>1. CASE pc[p] = "upload" /\ PutObject(p) /\ UNCHANGED registry
        BY <4>1
      <4>2. CASE pc[p] = "register" /\ UpsertRow(p) /\ UNCHANGED <<stored, lost>>
        BY <4>2
      <4>. QED  BY <2>3, <4>1, <4>2 DEF LostAnswer
    <3>. QED  BY <2>3, <3>1 DEF LostAnswer
  <2>4. CASE Crash(p)
    BY <2>4 DEF Crash
  <2>. QED  BY <1>3, <2>1, <2>2, <2>3, <2>4 DEF Trouble
<1>4. ASSUME NEW f \in Files, Publish(f) PROVE TypeOK'
  BY <1>4 DEF Publish, local
<1>5. ASSUME NEW f \in Files, LoseObject(f) PROVE TypeOK'
  BY <1>5 DEF LoseObject, local
<1>. QED  BY <1>1, <1>2, <1>3, <1>4, <1>5 DEF Next

\* Every reachable state is well-typed.
THEOREM TypeCorrect == Spec => []TypeOK
<1>1. Init => TypeOK  BY InitTypeOK
<1>2. TypeOK /\ [Next]_vars => TypeOK'  BY StepTypeOK
<1>. QED  BY <1>1, <1>2, PTL DEF Spec
-----------------------------------------------------------------------------
(* A registry row stands for an object, whatever overlaps, and for no whole *)
(* file of another name.                                                   *)

LEMMA InitNamesKept == Init => NamesKept
  BY SyncConstants DEF Init, NamesKept, RowHasObject, Absent, NoEntry

\* An upload leaves the object of its file, and of every other, named as before.
LEMMA UploadIsNamed ==
  ASSUME TypeOK, NamesKept, NEW p \in Syncers, pc[p] = "upload", PutObject(p)
  PROVE  \A g \in Files : g = job[p].file \/ Named(g) => Named(g)'
<1> DEFINE f == job[p].file
<1>1. f \in Files /\ TmpNameOf[f] \in TmpNames
  BY SyncConstants DEF TypeOK, Entry, Transferring
<1>2. PICK bytes \in Perhaps(p, tmp[TmpNameOf[f]]) : stored' = [stored EXCEPT ![f] = bytes]
  BY DEF PutObject, TmpPath
<1>3. Bears(bytes, TmpNameOf[f])
  <2>1. Bears(tmp[TmpNameOf[f]], TmpNameOf[f])
    BY <1>1 DEF NamesKept, PutObject, TmpPath
  <2>2. Bears(Torn, TmpNameOf[f])
    BY SyncConstants DEF Bears, Torn, Absent
  <2>. QED  BY <2>1, <2>2 DEF Perhaps
<1>4. stored \in [Files -> Content]
  BY DEF TypeOK
<1> HIDE DEF f
<1>5. ASSUME NEW g \in Files, g = f \/ Named(g) PROVE Named(g)'
  <2>1. CASE g = f
    BY <1>1, <1>2, <1>3, <1>4, <2>1 DEF Named
  <2>2. CASE g # f
    BY <1>1, <1>2, <1>4, <1>5, <2>2 DEF Named
  <2>. QED  BY <2>1, <2>2
<1> QED
  BY <1>5 DEF f

\* So does the writing of a row.
LEMMA RowIsNamed ==
  ASSUME TypeOK, NamesKept, NEW p \in Syncers, pc[p] = "register", UpsertRow(p),
         UNCHANGED <<stored, tmp>>, NEW there \in {"files", "folders"},
         pc' = [pc EXCEPT ![p] = there], job' = [job EXCEPT ![p] = NoEntry]
  PROVE  /\ RowHasObject'
         /\ \A q \in Syncers : pc'[q] \in {"unlink", "register"} => Named(job[q].file)'
<1>1. ASSUME NEW g \in Files, Named(g) PROVE Named(g)'
  BY <1>1 DEF Named
<1>2. /\ job[p].file \in Files /\ Named(job[p].file) /\ RowHasObject
      /\ registry' = [registry EXCEPT ![job[p].file] = job[p].ver]
      /\ registry \in [Files -> Version]
  BY DEF TypeOK, NamesKept, UpsertRow, Transferring, Entry
<1>3. RowHasObject'
  BY <1>1, <1>2 DEF RowHasObject
<1>4. ASSUME NEW q \in Syncers, pc'[q] \in {"unlink", "register"}
      PROVE  Named(job[q].file)'
  <2>1. q # p /\ pc[q] \in {"unlink", "register"} /\ job'[q] = job[q]
    BY <1>4 DEF TypeOK
  <2>2. Named(job[q].file) /\ job[q].file \in Files
    BY <2>1 DEF NamesKept, TypeOK, Transferring, Entry
  <2>. QED  BY <2>1, <2>2 DEF Named
<1>. QED  BY <1>3, <1>4

\* A step that writes no object, no row and no whole file, and takes no syncer past
\* its upload or with other bytes to its writing, changes nothing.
LEMMA NamesStay ==
  ASSUME TypeOK, NamesKept, UNCHANGED <<stored, registry>>,
         \A n \in TmpNames : tmp'[n] \in {tmp[n], Absent, Torn},
         \A q \in Syncers :
            /\ pc'[q] \in {"open", "write"} => data'[q].file = job'[q].file
            /\ pc'[q] \in {"unlink", "register"} =>
                    pc[q] \in {"unlink", "register"} /\ job'[q] = job[q]
  PROVE  NamesKept'
<1>1. \A n \in TmpNames : tmp'[n] # Absent => Bears(tmp'[n], n)
  <2>1. \A n \in TmpNames : Bears(Torn, n)
    BY SyncConstants DEF Bears, Torn, Absent
  <2>2. \A n \in TmpNames : tmp[n] # Absent => Bears(tmp[n], n)
    BY DEF NamesKept
  <2>. QED  BY <2>1, <2>2
<1>2. ASSUME NEW g \in Files, Named(g) PROVE Named(g)'
  BY <1>2 DEF Named
<1>3. RowHasObject'
  BY <1>2 DEF NamesKept, RowHasObject
<1>4. ASSUME NEW q \in Syncers, pc'[q] \in {"unlink", "register"}
      PROVE  Named(job[q].file)'
  <2>1. pc[q] \in {"unlink", "register"} /\ job'[q] = job[q]
    BY <1>4
  <2>2. Named(job[q].file) /\ job[q].file \in Files
    BY <2>1 DEF NamesKept, TypeOK, Transferring, Entry
  <2>. QED  BY <2>1, <2>2 DEF Named
<1>. QED  BY <1>1, <1>3, <1>4 DEF NamesKept

LEMMA StepNamesKept == TypeOK /\ NamesKept /\ [Next]_vars => NamesKept'
<1> SUFFICES ASSUME TypeOK, NamesKept, [Next]_vars PROVE NamesKept'
  OBVIOUS
<1>0. /\ pc \in [Syncers -> {"idle", "folders", "files", "done"} \union Transferring]
      /\ job \in [Syncers -> Entry \union {NoEntry}] /\ data \in [Syncers -> Content]
      /\ tmp \in [TmpNames -> Content]
      /\ \A q \in Syncers : pc[q] \in {"open", "write"} => data[q].file = job[q].file
  BY DEF TypeOK, NamesKept
<1> USE DEF Goto, AbandonFolder
<1>1. CASE UNCHANGED vars
  BY <1>0, <1>1, NamesStay DEF vars, local
<1>2. ASSUME NEW p \in Syncers, Work(p) PROVE NamesKept'
  <2>1. CASE StartRun(p)
    BY <1>0, <2>1, NamesStay DEF StartRun
  <2>2. ASSUME NEW d \in Folders, ListFolder(p, d) PROVE NamesKept'
    BY <1>0, <2>2, NamesStay DEF ListFolder
  <2>3. ASSUME NEW e \in batch[p], SkipFile(p, e) PROVE NamesKept'
    BY <1>0, <2>3, NamesStay DEF SkipFile
  <2>4. ASSUME NEW e \in batch[p], SelectFile(p, e) PROVE NamesKept'
    BY <1>0, <2>4, NamesStay DEF SelectFile
  <2>5. CASE Download(p)
    BY <1>0, <2>5, NamesStay DEF Download
  <2>6. CASE OpenTmp(p)
    BY <1>0, <2>6, NamesStay DEF OpenTmp
  <2>7. CASE WriteTmp(p)
    <3>1. /\ TmpPath(p) \in TmpNames /\ data[p].file = job[p].file
          /\ job[p].file \in Files /\ TmpPath(p) = TmpNameOf[job[p].file]
      BY <1>0, <2>7, SyncConstants DEF WriteTmp, TypeOK, Entry, Transferring, TmpPath
    <3>2. \A n \in TmpNames : tmp'[n] # Absent => Bears(tmp'[n], n)
      <4>1. CASE hold[p] = "gone"
        BY <2>7, <4>1 DEF WriteTmp, NamesKept
      <4>2. CASE hold[p] # "gone"
        <5>1. PICK bytes \in Perhaps(p, data[p]) : tmp' = [tmp EXCEPT ![TmpPath(p)] = bytes]
          BY <2>7, <4>2 DEF WriteTmp
        <5>2. bytes = Torn \/ bytes = data[p]
          BY DEF Perhaps
        <5>3. Bears(bytes, TmpPath(p))
          BY <3>1, <5>2, SyncConstants DEF Bears, Torn, Absent
        <5>. QED  BY <1>0, <3>1, <5>1, <5>3 DEF NamesKept
      <4>. QED  BY <4>1, <4>2
    <3>3. UNCHANGED <<stored, registry, job, data>> /\ pc' = [pc EXCEPT ![p] = "upload"]
      BY <2>7 DEF WriteTmp
    <3>4. RowHasObject'
      BY <3>3 DEF NamesKept, RowHasObject, Named
    <3>5. ASSUME NEW q \in Syncers, pc'[q] \in {"unlink", "register"}
          PROVE  Named(job[q].file)'
      BY <1>0, <3>3, <3>5 DEF NamesKept, Named
    <3>. QED  BY <1>0, <3>2, <3>3, <3>4, <3>5 DEF NamesKept
  <2>8. CASE Upload(p)
    <3>1. \A g \in Files : g = job[p].file \/ Named(g) => Named(g)'
      BY <2>8, UploadIsNamed DEF Upload
    <3>2. /\ pc' = [pc EXCEPT ![p] = "unlink"]
          /\ UNCHANGED <<tmp, registry, job, data>>
          /\ \A q \in Syncers : pc[q] \in Transferring => job[q].file \in Files
      BY <2>8 DEF Upload, TypeOK, Entry
    <3>3. ASSUME NEW q \in Syncers, pc'[q] \in {"unlink", "register"}
          PROVE  Named(job[q].file)'
      <4>1. CASE q = p
        BY <2>8, <3>1, <3>2, <4>1 DEF Upload, Transferring, Named
      <4>2. CASE q # p
        BY <1>0, <3>1, <3>2, <3>3, <4>2 DEF NamesKept, Transferring, Named
      <4>. QED  BY <4>1, <4>2
    <3>4. RowHasObject'
      BY <3>1, <3>2 DEF NamesKept, RowHasObject
    <3>. QED  BY <1>0, <3>2, <3>3, <3>4 DEF NamesKept
  <2>9. CASE Unlink(p)
    BY <1>0, <2>9, NamesStay DEF Unlink
  <2>10. CASE Register(p)
    <3>1. /\ UNCHANGED <<stored, tmp>> /\ pc' = [pc EXCEPT ![p] = "files"]
          /\ job' = [job EXCEPT ![p] = NoEntry] /\ data' = [data EXCEPT ![p] = Absent]
          /\ pc[p] = "register" /\ UpsertRow(p)
      BY <2>10 DEF Register
    <3>2. RowHasObject' /\ \A q \in Syncers :
                pc'[q] \in {"unlink", "register"} => Named(job[q].file)'
      BY <3>1, RowIsNamed
    <3>. QED  BY <1>0, <3>1, <3>2 DEF NamesKept
  <2>11. CASE FinishFolder(p)
    BY <1>0, <2>11, NamesStay DEF FinishFolder
  <2>12. CASE FinishRun(p)
    BY <1>0, <2>12, NamesStay DEF FinishRun
  <2>13. CASE CertainError(p)
    BY <1>0, <2>13, NamesStay DEF CertainError
  <2>. QED  BY <1>2, <2>1, <2>2, <2>3, <2>4, <2>5, <2>6, <2>7, <2>8, <2>9, <2>10,
               <2>11, <2>12, <2>13 DEF Work
<1>3. ASSUME NEW p \in Syncers, Trouble(p) PROVE NamesKept'
  <2>1. ASSUME NEW d \in Folders, ListingError(p, d) PROVE NamesKept'
    BY <1>0, <2>1, NamesStay DEF ListingError
  <2>2. CASE CallError(p)
    BY <1>0, <2>2, NamesStay DEF CallError
  <2>3. CASE LostAnswer(p)
    <3>1. /\ pc' = [pc EXCEPT ![p] = "folders"]
          /\ tmp' = tmp
          /\ job' = [job EXCEPT ![p] = NoEntry]
          /\ data' = [data EXCEPT ![p] = Absent]
      BY <2>3 DEF LostAnswer
    <3>2. CASE pc[p] = "upload" /\ PutObject(p) /\ UNCHANGED registry
      <4>1. \A g \in Files : Named(g) => Named(g)'
        BY <3>2, UploadIsNamed
      <4>2. RowHasObject'
        BY <3>2, <4>1 DEF NamesKept, RowHasObject
      <4>3. ASSUME NEW q \in Syncers, pc'[q] \in {"unlink", "register"}
            PROVE  Named(job[q].file)'
        <5>1. pc[q] \in {"unlink", "register"} /\ job'[q] = job[q] /\ q # p
          BY <1>0, <3>1, <4>3
        <5>2. Named(job[q].file) /\ job[q].file \in Files
          BY <5>1 DEF NamesKept, TypeOK, Transferring, Entry
        <5>. QED  BY <4>1, <5>1, <5>2 DEF Named
      <4>. QED  BY <1>0, <3>1, <4>2, <4>3 DEF NamesKept
    <3>3. CASE pc[p] = "register" /\ UpsertRow(p) /\ UNCHANGED <<stored, lost>>
      <4>1. RowHasObject' /\ \A q \in Syncers :
                  pc'[q] \in {"unlink", "register"} => Named(job[q].file)'
        BY <3>1, <3>3, RowIsNamed
      <4>. QED  BY <1>0, <3>1, <4>1 DEF NamesKept
    <3>. QED  BY <2>3, <3>2, <3>3 DEF LostAnswer
  <2>4. CASE Crash(p)
    BY <1>0, <2>4, NamesStay DEF Crash
  <2>. QED  BY <1>3, <2>1, <2>2, <2>3, <2>4 DEF Trouble
<1>4. ASSUME NEW f \in Files, Publish(f) PROVE NamesKept'
  BY <1>0, <1>4, NamesStay DEF Publish, local
<1>5. ASSUME NEW f \in Files, LoseObject(f) PROVE NamesKept'
  BY <1>0, <1>5, NamesStay DEF LoseObject, local
<1>. QED  BY <1>1, <1>2, <1>3, <1>4, <1>5 DEF Next

\* However many processes of the landing job overlap, on files that share a temporary
\* path even, and whichever of them truncates the file another writes or uploads: no
\* row is without an object, and none stands for a whole file of another name.
THEOREM RowsHaveObjects == Spec => []RowHasObject
<1>1. Init => TypeOK /\ NamesKept  BY InitTypeOK, InitNamesKept
<1>2. TypeOK /\ NamesKept /\ [Next]_vars => TypeOK' /\ NamesKept'
  BY StepTypeOK, StepNamesKept
<1>3. NamesKept => RowHasObject  BY DEF NamesKept
<1>. QED  BY <1>1, <1>2, <1>3, PTL DEF Spec
-----------------------------------------------------------------------------
(* The registry tells the truth, and the stage is a reliable copier, as    *)
(* long as syncers do not overlap.                                         *)

LEMMA InitVersionsFlow == Init => VersionsFlow
  BY SyncConstants
  DEF Init, VersionsFlow, Genuine, Absent, NoEntry, Transferring, Version

\* An upload brings the object of its file to the bytes that were downloaded for it.
LEMMA UploadIsGenuine ==
  ASSUME TypeOK, VersionsFlow, NEW p \in Syncers, pc[p] = "upload", PutObject(p),
         UNCHANGED <<registry, remote>>
  PROVE  /\ \A f \in Files : Genuine(f)'
         /\ job[p].ver <= stored'[job[p].file].ver
<1> DEFINE f == job[p].file
<1>1. f \in Files /\ job[p].ver \in Version /\ f # None
  BY SyncConstants DEF TypeOK, Entry, Transferring
<1>2. /\ data[p].file = f /\ data[p].ver \in Version
      /\ job[p].ver <= data[p].ver /\ data[p].ver <= remote[f]
      /\ stored[f].ver <= data[p].ver /\ registry[f] <= stored[f].ver
  BY <1>1 DEF TypeOK, Content, VersionsFlow, Carried, Genuine
<1>3. stored' = [stored EXCEPT ![f] = data[p]]
  BY <1>1 DEF VersionsFlow, PutObject, Perhaps, TmpPath
<1>4. /\ stored \in [Files -> Content] /\ registry \in [Files -> Version]
      /\ \A g \in Files : Genuine(g)
  BY DEF TypeOK, VersionsFlow
<1> HIDE DEF f
<1>5. stored'[f] = data[p] /\ \A g \in Files \ {f} : stored'[g] = stored[g]
  BY <1>1, <1>3, <1>4
<1>6. ASSUME NEW g \in Files, g = f PROVE Genuine(g)'
  BY <1>1, <1>2, <1>4, <1>5, <1>6 DEF Genuine, Version, Content
<1>7. ASSUME NEW g \in Files \ {f} PROVE Genuine(g)'
  BY <1>4, <1>5, <1>7 DEF Genuine
<1>8. job[p].ver <= stored'[f].ver
  BY <1>2, <1>5
<1> QED
  BY <1>6, <1>7, <1>8 DEF f

LEMMA StepVersionsFlow ==
  ASSUME OneSyncer
  PROVE  TypeOK /\ VersionsFlow /\ [Next]_vars => VersionsFlow'
<1> SUFFICES ASSUME TypeOK, VersionsFlow, [Next]_vars PROVE VersionsFlow'
  OBVIOUS
<1> USE SyncConstants
<1> USE DEF OneSyncer, TypeOK, VersionsFlow, Genuine, Listing, Carried, Version,
            Content, Absent, Entry, NoEntry, Transferring, Goto, AbandonFolder, TmpPath, Beside
<1>1. CASE UNCHANGED vars
  BY <1>1 DEF vars, local
<1>2. ASSUME NEW p \in Syncers, Work(p) PROVE VersionsFlow'
  <2>1. CASE StartRun(p)
    BY <2>1 DEF StartRun
  <2>2. ASSUME NEW d \in Folders, ListFolder(p, d) PROVE VersionsFlow'
    <3>1. \A e \in batch'[p] : Listing(e)'
      BY <2>2 DEF ListFolder, Selected
    <3>. QED  BY <2>2, <3>1 DEF ListFolder
  <2>3. ASSUME NEW e \in batch[p], SkipFile(p, e) PROVE VersionsFlow'
    BY <2>3 DEF SkipFile
  <2>4. ASSUME NEW e \in batch[p], SelectFile(p, e) PROVE VersionsFlow'
    BY <2>4 DEF SelectFile
  <2>5. CASE Download(p)
    BY <2>5 DEF Download
  <2>6. CASE WriteTmp(p)
    <3>1. hold[p] = "own"
      BY <2>6 DEF WriteTmp
    <3>2. tmp' = [tmp EXCEPT ![TmpPath(p)] = data[p]] /\ hold' = hold
      BY <2>6, <3>1 DEF WriteTmp, Perhaps
    <3>. QED  BY <2>6, <3>1, <3>2 DEF WriteTmp
  <2>7. CASE Upload(p)
    <3> HIDE DEF Genuine
    <3>1. (\A f \in Files : Genuine(f)') /\ job[p].ver <= stored'[job[p].file].ver
      BY <2>7, UploadIsGenuine DEF Upload
    <3>2. /\ pc' = [pc EXCEPT ![p] = "unlink"]
          /\ UNCHANGED <<remote, tmp, batch, job, data>>
      BY <2>7 DEF Upload
    <3>3. OneSyncer /\ VersionsFlow /\ pc \in [Syncers -> {"idle", "folders", "files", "done"} \union Transferring]
      OBVIOUS
    <3> QED
      BY <2>7, <3>1, <3>2, <3>3 DEF Upload
  <2>8. CASE Unlink(p)
    BY <2>8 DEF Unlink
  <2>9. CASE Register(p)
    BY <2>9 DEF Register, UpsertRow
  <2>10. CASE FinishFolder(p)
    BY <2>10 DEF FinishFolder
  <2>11. CASE FinishRun(p)
    BY <2>11 DEF FinishRun
  <2>12. CASE CertainError(p)
    BY <2>12 DEF CertainError
  <2>13. CASE OpenTmp(p)
    BY <2>13 DEF OpenTmp
  <2> HIDE DEF OneSyncer, TypeOK, VersionsFlow, Genuine, Listing, Carried, Version,
               Content, Absent, Entry, NoEntry, Transferring, Goto, AbandonFolder, TmpPath,
               Beside
  <2>. QED  BY <1>2, <2>1, <2>2, <2>3, <2>4, <2>5, <2>6, <2>7, <2>8, <2>9, <2>10,
               <2>11, <2>12, <2>13 DEF Work
<1>3. ASSUME NEW p \in Syncers, Trouble(p) PROVE VersionsFlow'
  <2>1. ASSUME NEW d \in Folders, ListingError(p, d) PROVE VersionsFlow'
    BY <2>1 DEF ListingError
  <2>2. CASE CallError(p)
    BY <2>2 DEF CallError
  <2>3. CASE pc[p] = "upload" /\ PutObject(p) /\ UNCHANGED registry /\ LostAnswer(p)
    <3> HIDE DEF Genuine
    <3>1. \A f \in Files : Genuine(f)'
      BY <2>3, UploadIsGenuine DEF LostAnswer
    <3>2. /\ pc' = [pc EXCEPT ![p] = "folders"]
          /\ batch' = [batch EXCEPT ![p] = {}]
          /\ UNCHANGED remote
      BY <2>3 DEF LostAnswer
    <3> QED
      BY <3>1, <3>2
  <2>4. CASE pc[p] = "register" /\ UpsertRow(p) /\ UNCHANGED <<stored, lost>> /\ LostAnswer(p)
    BY <2>4 DEF LostAnswer, UpsertRow
  <2>5. CASE Crash(p)
    BY <2>5 DEF Crash
  <2>. QED  BY <1>3, <2>1, <2>2, <2>3, <2>4, <2>5 DEF Trouble, LostAnswer
<1>4. ASSUME NEW f \in Files, Publish(f) PROVE VersionsFlow'
  BY <1>4 DEF Publish, local
<1>5. ASSUME NEW f \in Files, LoseObject(f) PROVE VersionsFlow'
  BY <1>5 DEF LoseObject, local
<1>. QED  BY <1>1, <1>2, <1>3, <1>4, <1>5 DEF Next

\* A row never names a version newer than the object, and the object is the
\* file's own, whatever fails or is republished in the middle of a transfer.
THEOREM RegistryIsTrue == OneSyncer => (Spec => []RegistryTellsTruth)
<1> SUFFICES ASSUME OneSyncer PROVE Spec => []RegistryTellsTruth
  OBVIOUS
<1>1. Init => TypeOK /\ VersionsFlow  BY InitTypeOK, InitVersionsFlow
<1>2. TypeOK /\ VersionsFlow /\ [Next]_vars => TypeOK' /\ VersionsFlow'
  BY StepTypeOK, StepVersionsFlow
<1>3. TypeOK /\ VersionsFlow => RegistryTellsTruth
  BY DEF TypeOK, VersionsFlow, Genuine, RegistryTellsTruth, Version, Content
<1>. QED  BY <1>1, <1>2, <1>3, PTL DEF Spec

\* No step of the stage breaks the promise of ReliableCopy: publishing is its
\* Publish, an upload its Transfer, a registry write its Acknowledge.
LEMMA InitMirrors == Init => Mirror!Init
  BY DEF Init, Absent, Version, Mirror!Init, Mirror!Versions

LEMMA StepMirrors ==
  TypeOK /\ VersionsFlow /\ [Next]_vars => [Mirror!Next]_(Mirror!vars)
<1> SUFFICES ASSUME TypeOK, VersionsFlow, [Next]_vars
             PROVE  [Mirror!Next]_(Mirror!vars)
  OBVIOUS
<1> USE SyncConstants
<1> USE DEF TypeOK, Version, Content, Entry, Transferring
<1>1. UNCHANGED <<remote, stored, registry>> => UNCHANGED Mirror!vars
  BY DEF Mirror!vars
<1>2. ASSUME NEW p \in Syncers, pc[p] = "upload", PutObject(p),
             UNCHANGED <<remote, registry>>
      PROVE  Mirror!Transfer
  <2> DEFINE f == job[p].file
  <2>1. f \in Files /\ TmpNameOf[f] \in TmpNames
    BY <1>2
  <2>2. /\ stored' = [stored EXCEPT ![f] = data[p]]
        /\ stored[f].ver <= data[p].ver /\ data[p].ver <= remote[f]
    BY <1>2, <2>1 DEF VersionsFlow, Carried, PutObject, Perhaps, TmpPath
  <2>3. \A g \in Files : stored'[g].ver \in Nat
    BY <2>1, <2>2
  <2>4. \A g \in Files : stored[g].ver <= stored'[g].ver /\ stored'[g].ver <= remote[g]
    BY <2>1, <2>2 DEF VersionsFlow, Genuine
  <2>. QED  BY <1>2, <2>3, <2>4 DEF Mirror!Transfer, Mirror!Versions
<1>3. ASSUME NEW p \in Syncers, pc[p] = "register", UpsertRow(p),
             UNCHANGED <<remote, stored>>
      PROVE  Mirror!Acknowledge
  <2> DEFINE f == job[p].file
  <2>1. f \in Files /\ job[p].ver \in Nat
    BY <1>3
  <2>2. registry' = [registry EXCEPT ![f] = job[p].ver] /\ job[p].ver <= stored[f].ver
    BY <1>3 DEF VersionsFlow, UpsertRow
  <2>3. \A g \in Files : registry'[g] \in Nat /\ registry'[g] <= stored[g].ver
    BY <2>1, <2>2 DEF VersionsFlow, Genuine
  <2>4. registry' \in [Files -> Nat]
    BY <2>1, <2>2
  <2>. QED  BY <1>3, <2>3, <2>4 DEF Mirror!Acknowledge, Mirror!Versions
<1>4. ASSUME NEW f \in Files, Publish(f) PROVE Mirror!Publish
  BY <1>4 DEF Publish, Mirror!Publish, Mirror!Versions
<1>5. CASE UNCHANGED vars
  BY <1>1, <1>5 DEF vars
<1>6. ASSUME NEW p \in Syncers, Work(p) PROVE [Mirror!Next]_(Mirror!vars)
  <2>1. CASE Upload(p)
    BY <1>2, <2>1 DEF Upload, Mirror!Next
  <2>2. CASE Register(p)
    BY <1>3, <2>2 DEF Register, Mirror!Next
  <2>3. Work(p) => Upload(p) \/ Register(p) \/ UNCHANGED <<remote, stored, registry>>
    BY DEF Work, StartRun, ListFolder, SkipFile, SelectFile, Download, OpenTmp,
           WriteTmp, Unlink, FinishFolder, FinishRun, CertainError
  <2>. QED  BY <1>1, <1>6, <2>1, <2>2, <2>3
<1>7. ASSUME NEW p \in Syncers, Trouble(p) PROVE [Mirror!Next]_(Mirror!vars)
  <2>1. CASE LostAnswer(p)
    BY <1>2, <1>3, <2>1 DEF LostAnswer, Mirror!Next
  <2>2. Trouble(p) => LostAnswer(p) \/ UNCHANGED <<remote, stored, registry>>
    BY DEF Trouble, ListingError, CallError, Crash
  <2>. QED  BY <1>1, <1>7, <2>1, <2>2
<1>8. ASSUME NEW f \in Files, LoseObject(f) PROVE [Mirror!Next]_(Mirror!vars)
  BY <1>1, <1>8 DEF LoseObject
<1>. QED  BY <1>4, <1>5, <1>6, <1>7, <1>8 DEF Next, Mirror!Next

\* Without overlap the landing stage implements ReliableCopy.
THEOREM LandingMirrors == OneSyncer => (Spec => MirrorsReliably)
<1> SUFFICES ASSUME OneSyncer PROVE Spec => MirrorsReliably
  OBVIOUS
<1>1. Init => TypeOK /\ VersionsFlow  BY InitTypeOK, InitVersionsFlow
<1>2. TypeOK /\ VersionsFlow /\ [Next]_vars => TypeOK' /\ VersionsFlow'
  BY StepTypeOK, StepVersionsFlow
<1>. QED  BY <1>1, <1>2, InitMirrors, StepMirrors, PTL
          DEF Spec, MirrorsReliably, Mirror!Spec

\* What the staging stage may rely on: an object at least as new as the registered
\* version is in the bucket, and every object has been published.
THEOREM LandingIsFounded == OneSyncer => (Spec => []Mirror!NothingUnfounded)
<1> SUFFICES ASSUME OneSyncer PROVE Spec => []Mirror!NothingUnfounded
  OBVIOUS
<1>1. Init => TypeOK /\ VersionsFlow  BY InitTypeOK, InitVersionsFlow
<1>2. TypeOK /\ VersionsFlow /\ [Next]_vars => TypeOK' /\ VersionsFlow'
  BY StepTypeOK, StepVersionsFlow
<1>3. VersionsFlow => Mirror!NothingUnfounded
  BY DEF VersionsFlow, Genuine, Mirror!NothingUnfounded
<1>. QED  BY <1>1, <1>2, <1>3, PTL DEF Spec
-----------------------------------------------------------------------------
(* A run without errors is complete.                                       *)

LEMMA InitRunsAccount == Init => RunsAccount
  BY SyncConstants DEF Init, RunsAccount, Accounted, Transferring

LEMMA StepRunsAccount ==
  ASSUME OneSyncer
  PROVE  TypeOK /\ RunsAccount /\ [Next]_vars => RunsAccount'
<1> SUFFICES ASSUME TypeOK, RunsAccount, [Next]_vars PROVE RunsAccount'
  OBVIOUS
<1> USE SyncConstants
<1> USE DEF OneSyncer, TypeOK, RunsAccount, Accounted, Version, Entry, NoEntry,
            Transferring, Goto, AbandonFolder
<1>1. CASE UNCHANGED vars
  BY <1>1 DEF vars, local
<1>2. ASSUME NEW p \in Syncers, Work(p) PROVE RunsAccount'
  <2>1. CASE StartRun(p)
    BY <2>1 DEF StartRun
  <2>2. ASSUME NEW d \in Folders, ListFolder(p, d) PROVE RunsAccount'
    BY <2>2 DEF ListFolder, Selected
  <2>3. ASSUME NEW e \in batch[p], SkipFile(p, e) PROVE RunsAccount'
    BY <2>3 DEF SkipFile, AlreadySynced
  <2>4. ASSUME NEW e \in batch[p], SelectFile(p, e) PROVE RunsAccount'
    BY <2>4 DEF SelectFile
  <2>5. CASE Download(p)
    BY <2>5 DEF Download
  <2>6. CASE WriteTmp(p)
    BY <2>6 DEF WriteTmp
  <2>7. CASE Upload(p)
    BY <2>7 DEF Upload
  <2>8. CASE Unlink(p)
    BY <2>8 DEF Unlink
  <2>9. CASE Register(p)
    BY <2>9 DEF Register, UpsertRow
  <2>10. CASE FinishFolder(p)
    BY <2>10 DEF FinishFolder
  <2>11. CASE FinishRun(p)
    BY <2>11 DEF FinishRun
  <2>12. CASE CertainError(p)
    BY <2>12 DEF CertainError
  <2>13. CASE OpenTmp(p)
    BY <2>13 DEF OpenTmp
  <2>. QED  BY <1>2, <2>1, <2>2, <2>3, <2>4, <2>5, <2>6, <2>7, <2>8, <2>9, <2>10,
               <2>11, <2>12, <2>13 DEF Work
<1>3. ASSUME NEW p \in Syncers, Trouble(p) PROVE RunsAccount'
  <2>1. ASSUME NEW d \in Folders, ListingError(p, d) PROVE RunsAccount'
    BY <2>1 DEF ListingError
  <2>2. CASE CallError(p)
    BY <2>2 DEF CallError
  <2>3. CASE LostAnswer(p)
    BY <2>3 DEF LostAnswer
  <2>4. CASE Crash(p)
    BY <2>4 DEF Crash
  <2>. QED  BY <1>3, <2>1, <2>2, <2>3, <2>4 DEF Trouble
<1>4. ASSUME NEW f \in Files, Publish(f) PROVE RunsAccount'
  BY <1>4 DEF Publish, local
<1>5. ASSUME NEW f \in Files, LoseObject(f) PROVE RunsAccount'
  BY <1>5 DEF LoseObject, local
<1>. QED  BY <1>1, <1>2, <1>3, <1>4, <1>5 DEF Next

\* metrics["errors"] = 0 at the end of a run means that nothing was left out,
\* although every exception is swallowed with the rest of its folder.
THEOREM CleanRunsComplete == OneSyncer => (Spec => []CleanRunIsComplete)
<1> SUFFICES ASSUME OneSyncer PROVE Spec => []CleanRunIsComplete
  OBVIOUS
<1>1. Init => TypeOK /\ RunsAccount  BY InitTypeOK, InitRunsAccount
<1>2. TypeOK /\ RunsAccount /\ [Next]_vars => TypeOK' /\ RunsAccount'
  BY StepTypeOK, StepRunsAccount
<1>3. RunsAccount => CleanRunIsComplete
  BY DEF RunsAccount, Accounted, CleanRunIsComplete, Transferring
<1>. QED  BY <1>1, <1>2, <1>3, PTL DEF Spec
=============================================================================
