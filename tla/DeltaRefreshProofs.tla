------------------------- MODULE DeltaRefreshProofs -------------------------
(***************************************************************************)
(* Theorems about DeltaRefresh: whatever the folders, files and logs, the  *)
(* catalogue keeps its types, never moves backwards, has every old file of *)
(* a crawled folder, and is complete after undisturbed runs.               *)
(***************************************************************************)
EXTENDS DeltaRefresh, FiniteSetTheorems, TLAPS

LEMMA ConstantTypes ==
    /\ Folders \subseteq Paths
    /\ FolderIn \in [Files -> Folders]
    /\ LeafOf \in [Files -> Paths]
    /\ Start \in Time
    /\ Initial \in [Files -> Time]
    /\ Nowhere \in [Files -> Time]
    /\ MaxTime \in Nat
    /\ MaxFaults \in Nat
    /\ None \notin Paths
<1>1. Initial \in [Files -> Time] /\ Nowhere \in [Files -> Time]
  BY RefreshConstants DEF RefreshConstants, Nowhere, Time
<1> QED BY <1>1, RefreshConstants DEF RefreshConstants, Time

LEMMA ListingIsTyped ==
  ASSUME TypeOK, NEW path \in Paths, NEW haveRoot \in BOOLEAN, List(path, haveRoot)
  PROVE  at' = path /\ listing' \in [Files -> Time]
<1>1. 0 \in Time
  BY ConstantTypes DEF Time
<1> QED BY <1>1 DEF List, TypeOK

\* Every variable keeps its type, whatever fails; for TypeOK.
THEOREM TypeCorrect == Spec => []TypeOK
<1>1. Init => TypeOK
  <2>1. Init => rootMap \in BOOLEAN /\ disturbed \in BOOLEAN
    BY Zenon DEF Init
  <2> QED BY <2>1, ConstantTypes DEF Init, TypeOK, Never
<1>2. TypeOK /\ [Next]_vars => TypeOK'
  <2> SUFFICES ASSUME TypeOK, [Next]_vars PROVE TypeOK'
    OBVIOUS
  <2> USE ConstantTypes
      DEF TypeOK, Never, Goto,
          LeaveFolder, DropListing, DropRun, Fault, MarkCrawled,
          world, catalogue, run
  <2>1. CASE StartDelta
    BY <2>1 DEF StartDelta
  <2>2. CASE Scan
    <3>1. Found \subseteq Dirty
      BY DEF Found, Uncrawled, Changed, Dirty
    <3>2. {e.folder : e \in Found} \subseteq Folders
      BY <3>1 DEF Dirty
    <3> QED BY <2>2, <3>1, <3>2 DEF Scan
  <2>3. CASE \E d \in Folders : BeginFolder(d)
    BY <2>3 DEF BeginFolder
  <2>4. CASE \E path \in Paths : CrawlLeaf(path)
    <3> PICK path \in Paths : CrawlLeaf(path)
      BY <2>4
    <3>1. at' = path /\ listing' \in [Files -> Time]
      BY ListingIsTyped DEF CrawlLeaf
    <3> QED BY <3>1 DEF CrawlLeaf
  <2>5. CASE UpsertLeaf
    BY <2>5 DEF UpsertLeaf, UpsertListing
  <2>6. CASE FinishFolder
    BY <2>6 DEF FinishFolder
  <2>7. CASE FinishDelta
    BY <2>7 DEF FinishDelta
  <2>8. CASE FilterFresh
    BY <2>8 DEF FilterFresh
  <2>9. CASE FetchRoots
    BY <2>9 DEF FetchRoots
  <2>10. CASE \E d \in Folders : ListFolder(d)
    <3> PICK d \in Folders : ListFolder(d)
      BY <2>10
    <3>1. at' = d /\ listing' \in [Files -> Time]
      BY ListingIsTyped DEF ListFolder
    <3> QED BY <3>1 DEF ListFolder
  <2>11. CASE SaveFolder
    BY <2>11 DEF SaveFolder, ReplaceListing
  <2>12. CASE FinishFull
    BY <2>12 DEF FinishFull
  <2>13. CASE FallBack
    BY <2>13 DEF FallBack
  <2>14. CASE \E d \in Folders : BeginFolderFails(d)
    BY <2>14 DEF BeginFolderFails
  <2>15. CASE \E path \in Paths : CrawlLeafFails(path)
    <3>1. ok' \in BOOLEAN
      BY <2>15, Zenon DEF CrawlLeafFails
    <3> QED BY <2>15, <3>1 DEF CrawlLeafFails
  <2>16. CASE UpsertLeafFails
    <3>1. ok' \in BOOLEAN
      BY <2>16, Zenon DEF UpsertLeafFails
    <3> QED BY <2>16, <3>1 DEF UpsertLeafFails, UpsertListing
  <2>17. CASE FinishFolderFails
    BY <2>17 DEF FinishFolderFails
  <2>18. CASE FetchRootsFails
    BY <2>18 DEF FetchRootsFails
  <2>19. CASE \E d \in Folders : ListFolderFails(d)
    BY <2>19 DEF ListFolderFails
  <2>20. CASE Interrupt
    <3>1. rootMap' \in BOOLEAN
      BY <2>20, Zenon DEF Interrupt
    <3> QED BY <2>20, <3>1 DEF Interrupt
  <2>21. CASE StartForced
    BY <2>21 DEF StartForced
  <2>22. CASE \E f \in Files : Publish(f)
    BY <2>22 DEF Publish, Time
  <2>23. CASE \E d \in Folders : GrowOld(d)
    BY <2>23 DEF GrowOld
  <2>24. CASE UNCHANGED vars
    BY <2>24 DEF vars
  <2> QED
    BY <2>1, <2>2, <2>3, <2>4, <2>5, <2>6, <2>7, <2>8, <2>9, <2>10, <2>11,
       <2>12, <2>13, <2>14, <2>15, <2>16, <2>17, <2>18, <2>19, <2>20, <2>21,
       <2>22, <2>23, <2>24 DEF Next, Work, Trouble
<1> QED BY <1>1, <1>2, PTL DEF Spec
-----------------------------------------------------------------------------
(* Times.                                                                  *)

LEMMA TimesAreNumbers == Time \subseteq Nat /\ 0 \in Time
  BY ConstantTypes DEF Time

\* A file lies in one folder.
LEMMA OneFolder ==
  /\ Under \in [Paths -> SUBSET Files]
  /\ \A d, e \in Folders : \A f \in Under[d] \intersect Under[e] : d = e
BY RefreshConstants DEF RefreshConstants

\* What a listing has to say of a file.
LEMMA Listed ==
  ASSUME TypeOK, NEW path \in Paths, NEW haveRoot \in BOOLEAN, List(path, haveRoot),
         NEW f \in Files
  PROVE  /\ listing'[f] = IF f \in Contents(path, haveRoot) THEN published[f] ELSE 0
         /\ at' = path
BY DEF List

LEMMA InitTimes == Init => TimesAreReal
BY RefreshConstants, ConstantTypes, TimesAreNumbers
   DEF RefreshConstants, Init, TimesAreReal, Nowhere

LEMMA StepTimes == TypeOK /\ TypeOK' /\ TimesAreReal /\ [Next]_vars => TimesAreReal'
<1> SUFFICES ASSUME TypeOK, TypeOK', TimesAreReal, [Next]_vars PROVE TimesAreReal'
  OBVIOUS
<1> USE ConstantTypes
    DEF Time, TypeOK, TimesAreReal, Goto, world, catalogue, run
<1>1. CASE \/ Scan \/ FinishFolder \/ FinishDelta \/ FilterFresh \/ FetchRoots
           \/ FinishFull \/ FallBack \/ FinishFolderFails \/ FetchRootsFails \/ Interrupt
           \/ \E d \in Folders : \/ BeginFolder(d) \/ BeginFolderFails(d)
                                 \/ ListFolderFails(d) \/ GrowOld(d)
           \/ \E path \in Paths : CrawlLeafFails(path)
           \/ UNCHANGED vars
  <2>1. UNCHANGED <<world, seen, db>>
    BY <1>1 DEF Scan, FinishFolder, FinishDelta, FilterFresh, FetchRoots, FinishFull,
                FallBack, FinishFolderFails, FetchRootsFails, Interrupt, BeginFolder,
                BeginFolderFails, ListFolderFails, GrowOld, CrawlLeafFails, vars
  <2>2. listing' = Nowhere \/ listing' = listing
    BY <1>1 DEF Scan, FinishFolder, FinishDelta, FilterFresh, FetchRoots, FinishFull,
                FallBack, FinishFolderFails, FetchRootsFails, Interrupt, BeginFolder,
                BeginFolderFails, ListFolderFails, GrowOld, CrawlLeafFails, vars,
                LeaveFolder, DropListing, DropRun
  <2>3. pc' \in {"upsert", "save"} => UNCHANGED <<pc, parent, listing>>
    BY <1>1 DEF Scan, FinishFolder, FinishDelta, FilterFresh, FetchRoots, FinishFull,
                FallBack, FinishFolderFails, FetchRootsFails, Interrupt, BeginFolder,
                BeginFolderFails, ListFolderFails, GrowOld, CrawlLeafFails, vars,
                LeaveFolder, DropRun
  <2> QED BY <2>1, <2>2, <2>3 DEF Nowhere
<1>2. CASE StartDelta \/ StartForced
  BY <1>2 DEF StartDelta, StartForced
<1>3. CASE \E path \in Paths : CrawlLeaf(path)
  <2> PICK path \in Paths : CrawlLeaf(path)
    BY <1>3
  <2>1. \A f \in Files : listing'[f] \in {0, published[f]}
    BY Listed DEF CrawlLeaf
  <2>2. UNCHANGED <<published, clock, seen, db>> /\ pc' = "upsert"
    BY DEF CrawlLeaf
  <2> QED BY <2>1, <2>2
<1>4. CASE UpsertLeaf \/ UpsertLeafFails
  <2>1. \A f \in Files : db'[f] \in {db[f], listing[f]}
    BY <1>4 DEF UpsertLeaf, UpsertLeafFails, UpsertListing
  <2>2. UNCHANGED <<published, clock, seen>> /\ pc' = "leaves" /\ listing' = Nowhere
    BY <1>4 DEF UpsertLeaf, UpsertLeafFails, DropListing
  <2> QED BY <2>1, <2>2 DEF Nowhere
<1>5. CASE \E d \in Folders : ListFolder(d)
  <2> PICK d \in Folders : ListFolder(d)
    BY <1>5
  <2>1. \A f \in Files : listing'[f] \in {0, published[f]}
    BY Listed DEF ListFolder
  <2>2. d \notin RootFiles => \A f \in Under[d] : listing'[f] = published[f]
    BY Listed, OneFolder DEF ListFolder, Contents
  <2>3. UNCHANGED <<published, clock, seen, db>> /\ pc' = "save" /\ parent' = d
    BY DEF ListFolder
  <2> QED BY <2>1, <2>2, <2>3, OneFolder
<1>6. CASE SaveFolder
  <2>1. \A f \in Files : db'[f] \in {db[f], listing[f]}
    BY <1>6 DEF SaveFolder, ReplaceListing
  <2>2. UNCHANGED <<published, clock, seen>> /\ pc' = "full" /\ listing' = Nowhere
    BY <1>6 DEF SaveFolder, LeaveFolder, DropListing
  <2> QED BY <2>1, <2>2 DEF Nowhere
<1>7. CASE \E f \in Files : Publish(f)
  <2>1. UNCHANGED <<seen, db, pc, parent, listing>> /\ clock' = clock + 1
    BY <1>7 DEF Publish
  <2>2. \A f \in Files : published'[f] \in {published[f], clock + 1}
    BY <1>7 DEF Publish
  <2>3. \A f \in Files : published[f] <= published'[f] /\ published'[f] <= clock'
    BY <2>1, <2>2
  <2> QED BY <2>1, <2>3
<1> QED
  BY <1>1, <1>2, <1>3, <1>4, <1>5, <1>6, <1>7 DEF Next, Work, Trouble

\* No refresh takes a file back or out of the catalogue; for CatalogueMovesForward.
THEOREM RefreshMovesForward == Spec => CatalogueMovesForward
<1>1. ASSUME TypeOK, TimesAreReal, [Next]_vars
      PROVE  [\A d \in Folders \ RootFiles : \A f \in Under[d] : db[f] <= db'[f]]_db
  <2> SUFFICES ASSUME db' # db, NEW d \in Folders \ RootFiles, NEW f \in Under[d]
               PROVE  db[f] <= db'[f]
    OBVIOUS
  <2> USE ConstantTypes, OneFolder DEF Time, TypeOK, TimesAreReal
  <2>1. UpsertLeaf \/ UpsertLeafFails \/ SaveFolder
    BY <1>1 DEF Next, Work, Trouble, StartDelta, Scan, BeginFolder, CrawlLeaf,
       FinishFolder, FinishDelta, FilterFresh, FetchRoots, ListFolder, FinishFull,
       FallBack, BeginFolderFails, CrawlLeafFails, FinishFolderFails,
       FetchRootsFails, ListFolderFails, Interrupt, StartForced, Publish, GrowOld,
       vars, catalogue
  <2>2. f \in Files /\ db[f] <= db[f]
    BY <1>1
  <2>3. CASE UpsertLeaf \/ UpsertLeafFails
    <3>1. pc = "upsert" /\ (UNCHANGED db \/ UpsertListing)
      BY <2>1, <2>3 DEF UpsertLeaf, UpsertLeafFails
    <3>2. listing[f] # 0 => db[f] <= listing[f]
      BY <1>1, <2>2, <3>1
    <3>3. UNCHANGED db \/ db'[f] = IF listing[f] # 0 THEN listing[f] ELSE db[f]
      BY <2>2, <3>1 DEF UpsertListing
    <3> QED BY <2>2, <3>2, <3>3
  <2>4. CASE SaveFolder
    <3>1. db'[f] = IF f \in Under[parent] THEN listing[f] ELSE db[f]
      BY <2>2, <2>4 DEF SaveFolder, ReplaceListing
    <3>2. f \in Under[parent] => parent = d
      BY <1>1, <2>4 DEF SaveFolder
    <3> QED BY <1>1, <2>2, <2>4, <3>1, <3>2 DEF SaveFolder
  <2> QED BY <2>1, <2>3, <2>4
<1> QED
  BY <1>1, TypeCorrect, InitTimes, StepTimes, PTL DEF Spec, CatalogueMovesForward
-----------------------------------------------------------------------------
(* Folders listed as a whole.                                              *)

\* The entry that stands for a folder as a whole.
Whole(d) == [folder |-> d, path |-> d]

\* What WholeFoldersListed says of the folder in hand, and of the others.
OthersPending ==
    pc \in {"folders", "leaves", "upsert"} =>
        \A e \in dirty : e.folder \in Uncrawled \ {parent} => Whole(e.folder) \in dirty
InHand ==
    pc \in {"leaves", "upsert"} /\ ok /\ parent \in Uncrawled \ RootFiles =>
        \/ Whole(parent) \in dirty
        \/ Lists(db, parent)
        \/ pc = "upsert" /\ Lists(listing, parent)

LEMMA WholeFoldersParts == WholeFoldersListed <=> CrawledMeansListed /\ OthersPending /\ InHand
BY DEF WholeFoldersListed, OthersPending, InHand, Whole

LEMMA CrawledLists ==
  CrawledMeansListed <=>
    \A d \in Folders \ RootFiles : crawled[d] \notin Never => Lists(db, d)
BY DEF CrawledMeansListed, Lists

LEMMA InitWhole == Init => WholeFoldersListed
BY DEF Init, WholeFoldersListed, CrawledMeansListed, Never

\* No step takes an old file out of a folder's rows.
LEMMA RowsStay ==
  ASSUME TypeOK, TimesAreReal, [Next]_vars, NEW d \in Folders \ RootFiles, Lists(db, d)
  PROVE  Lists(db, d)'
<1> SUFFICES ASSUME NEW f \in Under[d], Initial[f] # 0 PROVE db'[f] # 0
  BY DEF Lists
<1>1. f \in Files /\ db[f] # 0
  BY OneFolder, ConstantTypes DEF Lists
<1>2. CASE UNCHANGED db
  BY <1>1, <1>2
<1>3. CASE UpsertListing
  BY <1>1, <1>3 DEF UpsertListing
<1>4. CASE SaveFolder
  <2>1. db'[f] = IF f \in Under[parent] THEN listing[f] ELSE db[f]
    BY <1>1, <1>4 DEF SaveFolder, ReplaceListing
  <2>2. f \in Under[parent] => parent = d
    BY <1>4, OneFolder DEF SaveFolder, TypeOK
  <2>3. f \in Under[parent] => Initial[f] <= listing[f]
    BY <1>4, <2>2 DEF SaveFolder, TimesAreReal
  <2>4. Initial[f] \in Nat
    BY <1>1, ConstantTypes DEF Time
  <2> QED BY <1>1, <2>1, <2>3, <2>4
<1>5. UNCHANGED db \/ UpsertListing \/ SaveFolder
  BY DEF Next, Work, Trouble, StartDelta, Scan, BeginFolder, CrawlLeaf, UpsertLeaf,
     FinishFolder, FinishDelta, FilterFresh, FetchRoots, ListFolder, FinishFull,
     FallBack, BeginFolderFails, CrawlLeafFails, UpsertLeafFails, FinishFolderFails,
     FetchRootsFails, ListFolderFails, Interrupt, StartForced, Publish, GrowOld,
     vars, catalogue
<1> QED BY <1>2, <1>3, <1>4, <1>5

\* A listing of a whole folder has all its old files.
LEMMA ListingIsWhole ==
  ASSUME TypeOK, TimesAreReal, NEW d \in Folders \ RootFiles,
         NEW haveRoot \in BOOLEAN, List(d, haveRoot)
  PROVE  Lists(listing, d)'
<1> SUFFICES ASSUME NEW f \in Under[d], Initial[f] # 0 PROVE listing'[f] # 0
  BY DEF Lists
<1>1. f \in Files
  BY OneFolder, ConstantTypes
<1>2. listing'[f] = published[f]
  BY <1>1, Listed, ConstantTypes DEF Contents
<1>3. Initial[f] <= published[f] /\ Initial[f] \in Nat /\ published[f] \in Nat
  BY <1>1, ConstantTypes DEF TimesAreReal, TypeOK, Time
<1> QED BY <1>2, <1>3

\* A folder comes to be crawled in two ways: the checkpoint of a delta run that no
\* leaf has failed, and the save of a full one.
LEMMA WhoMarksCrawled ==
  ASSUME TypeOK, [Next]_vars, NEW d \in Folders, crawled[d] \in Never, crawled'[d] \notin Never
  PROVE  \/ (FinishFolder \/ FinishFolderFails) /\ ok /\ parent = d
         \/ SaveFolder /\ parent = d
<1>1. crawled' # crawled
  OBVIOUS
<1>2. ASSUME MarkCrawled PROVE parent = d
  BY <1>2 DEF MarkCrawled, TypeOK
<1>3. CASE Work
  <2>1. ASSUME NEW c \in Folders, BeginFolder(c) PROVE FALSE
    BY <2>1 DEF BeginFolder, Never, TypeOK
  <2>2. FinishFolder \/ SaveFolder
    BY <1>1, <1>3, <2>1
    DEF Work, StartDelta, Scan, CrawlLeaf, UpsertLeaf, FinishDelta, FilterFresh,
        FetchRoots, ListFolder, FinishFull, catalogue
  <2>3. FinishFolder => ok /\ MarkCrawled
    BY <1>1 DEF FinishFolder
  <2>4. SaveFolder => MarkCrawled
    BY DEF SaveFolder
  <2> QED BY <1>2, <2>2, <2>3, <2>4
<1>4. CASE Trouble
  <2>1. FinishFolderFails
    BY <1>1, <1>4
    DEF Trouble, FallBack, BeginFolderFails, CrawlLeafFails, UpsertLeafFails,
        FetchRootsFails, ListFolderFails, Interrupt, catalogue
  <2>2. ok /\ MarkCrawled
    BY <1>1, <2>1 DEF FinishFolderFails
  <2> QED BY <1>2, <2>1, <2>2
<1>5. ASSUME NEW c \in Folders, GrowOld(c) PROVE FALSE
  BY <1>5 DEF GrowOld, Never, TypeOK
<1>6. CASE StartForced \/ (\E f \in Files : Publish(f)) \/ UNCHANGED vars
  BY <1>1, <1>6 DEF StartForced, Publish, catalogue, vars
<1> QED BY <1>3, <1>4, <1>5, <1>6 DEF Next

LEMMA StepWhole ==
  TypeOK /\ TypeOK' /\ TimesAreReal /\ WholeFoldersListed /\ [Next]_vars => WholeFoldersListed'
<1> SUFFICES ASSUME TypeOK, TypeOK', TimesAreReal, [Next]_vars,
                    CrawledMeansListed, OthersPending, InHand
             PROVE  CrawledMeansListed' /\ OthersPending' /\ InHand'
  BY WholeFoldersParts DEF WholeFoldersListed, CrawledMeansListed, OthersPending, InHand, Whole, Lists,
     Uncrawled
<1>1. CrawledMeansListed'
  <2> SUFFICES ASSUME NEW d \in Folders \ RootFiles, crawled'[d] \notin Never
               PROVE  Lists(db, d)'
    BY DEF CrawledMeansListed, Lists
  <2>1. CASE crawled[d] \notin Never
    BY <2>1, RowsStay, CrawledLists
  <2>2. CASE crawled[d] \in Never
    <3>1. \/ (FinishFolder \/ FinishFolderFails) /\ ok /\ parent = d
          \/ SaveFolder /\ parent = d
      BY <2>2, WhoMarksCrawled
    <3>2. CASE (FinishFolder \/ FinishFolderFails) /\ ok /\ parent = d
      <4>1. pc = "leaves" /\ (\A e \in dirty : e.folder # d) /\ UNCHANGED db
        BY <3>2 DEF FinishFolder, FinishFolderFails
      <4>2. Whole(d) \notin dirty
        BY <4>1 DEF Whole
      <4>3. Lists(db, d)
        BY <2>2, <3>2, <4>1, <4>2 DEF InHand, Uncrawled
      <4> QED BY <4>1, <4>3 DEF Lists
    <3>3. CASE SaveFolder /\ parent = d
      <4> SUFFICES ASSUME NEW f \in Under[d], Initial[f] # 0 PROVE db'[f] # 0
        BY DEF Lists
      <4>1. f \in Files /\ Initial[f] \in Nat /\ listing[f] \in Nat
        BY OneFolder, ConstantTypes DEF TypeOK, Time
      <4>2. db'[f] = listing[f]
        BY <3>3, <4>1 DEF SaveFolder, ReplaceListing
      <4>3. Initial[f] <= listing[f]
        BY <3>3 DEF SaveFolder, TimesAreReal
      <4> QED BY <4>1, <4>2, <4>3
    <3> QED BY <3>1, <3>2, <3>3
  <2> QED BY <2>1, <2>2
<1>2. CASE Scan
  <2>1. \A d \in Uncrawled : Whole(d) \in Found
    BY DEF Found, Whole
  <2>2. pc' \in {"idle", "folders"} /\ dirty' = Found /\ UNCHANGED crawled
    BY <1>2 DEF Scan, Goto, catalogue
  <2> QED BY <1>1, <2>1, <2>2 DEF OthersPending, InHand, Uncrawled, Whole
<1>3. ASSUME NEW d \in Folders, BeginFolder(d) PROVE OthersPending' /\ InHand'
  <2>1. Uncrawled' = Uncrawled
    BY <1>3 DEF BeginFolder, Uncrawled, Never, TypeOK
  <2>2. /\ pc = "folders" /\ pc' = "leaves" /\ parent' = d /\ UNCHANGED dirty
        /\ \E e \in dirty : e.folder = d
    BY <1>3 DEF BeginFolder, Goto
  <2>3. parent = None /\ \A e \in dirty : e.folder # None
    BY <2>2, ConstantTypes DEF TypeOK, Dirty
  <2>4. OthersPending'
    BY <2>1, <2>2, <2>3 DEF OthersPending
  <2>5. d \in Uncrawled => Whole(d) \in dirty
    BY <2>2, <2>3 DEF OthersPending
  <2>6. InHand'
    BY <2>1, <2>2, <2>5 DEF InHand
  <2> QED BY <2>4, <2>6
<1>4. ASSUME NEW path \in Paths, CrawlLeaf(path) PROVE OthersPending' /\ InHand'
  <2>1. /\ pc = "leaves" /\ pc' = "upsert" /\ UNCHANGED <<parent, ok, db, crawled>>
        /\ dirty' = dirty \ {[folder |-> parent, path |-> path]}
    BY <1>4 DEF CrawlLeaf, Goto, catalogue
  <2>2. Uncrawled' = Uncrawled
    BY <2>1 DEF Uncrawled
  <2>3. OthersPending'
    BY <2>1, <2>2 DEF OthersPending, Whole
  <2>4. CASE path = parent
    <3>1. parent \in Folders
      BY <2>1 DEF TypeOK
    <3>2. parent \notin RootFiles => Lists(listing, parent)'
      BY <1>4, <2>1, <2>4, <3>1, ListingIsWhole DEF CrawlLeaf, Lists
    <3> QED BY <2>1, <2>2, <2>3, <3>2 DEF InHand, Lists
  <2>5. CASE path # parent
    BY <2>1, <2>2, <2>3, <2>5 DEF InHand, Whole, Lists
  <2> QED BY <2>4, <2>5
<1>5. CASE UpsertLeaf
  <2>1. /\ pc = "upsert" /\ pc' = "leaves" /\ UNCHANGED <<parent, ok, crawled, dirty>>
        /\ UpsertListing
    BY <1>5 DEF UpsertLeaf, Goto
  <2>2. Uncrawled' = Uncrawled
    BY <2>1 DEF Uncrawled
  <2>3. parent \in Folders
    BY <2>1 DEF TypeOK
  <2>4. parent \notin RootFiles /\ Lists(db, parent) => Lists(db, parent)'
    BY <2>1, <2>3, RowsStay DEF Lists
  <2>5. Lists(listing, parent) => Lists(db, parent)'
    BY <2>1, <2>3, OneFolder, ConstantTypes DEF UpsertListing, Lists
  <2>6. OthersPending'
    BY <2>1, <2>2 DEF OthersPending
  <2>7. InHand'
    BY <2>1, <2>2, <2>4, <2>5 DEF InHand
  <2> QED BY <1>1, <2>6, <2>7
<1>6. CASE FinishFolder \/ FinishFolderFails
  <2>1. /\ pc = "leaves" /\ pc' = "folders" /\ UNCHANGED dirty /\ parent' = None
        /\ \A e \in dirty : e.folder # parent
    BY <1>6 DEF FinishFolder, FinishFolderFails, LeaveFolder, Goto
  <2>2. Uncrawled' \subseteq Uncrawled
    BY <1>6 DEF FinishFolder, FinishFolderFails, MarkCrawled, Uncrawled, Never, TypeOK
  <2>3. OthersPending'
    BY <2>1, <2>2 DEF OthersPending
  <2>4. pc' \notin {"leaves", "upsert"}
    BY <2>1
  <2>5. InHand'
    BY <2>4, Zenon DEF InHand
  <2> QED BY <1>1, <2>3, <2>5
<1>7. ASSUME NEW d \in Folders, BeginFolderFails(d) PROVE OthersPending' /\ InHand'
  <2>1. /\ pc = "folders" /\ UNCHANGED <<pc, parent, crawled>>
        /\ dirty' = {e \in dirty : e.folder # d}
    BY <1>7 DEF BeginFolderFails, catalogue
  <2> QED BY <2>1 DEF OthersPending, InHand, Uncrawled, Whole
<1>8. ASSUME NEW path \in Paths, CrawlLeafFails(path) PROVE OthersPending' /\ InHand'
  <2>1. /\ pc = "leaves" /\ UNCHANGED <<pc, parent, crawled>> /\ ~ok'
        /\ dirty' = dirty \ {[folder |-> parent, path |-> path]}
    BY <1>8 DEF CrawlLeafFails, catalogue
  <2> QED BY <2>1 DEF OthersPending, InHand, Uncrawled, Whole
<1>9. CASE UpsertLeafFails
  <2>1. /\ pc = "upsert" /\ pc' = "leaves" /\ UNCHANGED <<parent, crawled, dirty>> /\ ~ok'
    BY <1>9 DEF UpsertLeafFails, Goto
  <2>2. OthersPending'
    BY <2>1 DEF OthersPending, Uncrawled
  <2>3. InHand'
    BY <2>1, Zenon DEF InHand
  <2> QED BY <1>1, <2>2, <2>3
<1>10. CASE \/ StartDelta \/ FinishDelta \/ FilterFresh \/ FetchRoots \/ SaveFolder
            \/ FinishFull \/ FallBack \/ FetchRootsFails \/ Interrupt \/ StartForced
            \/ \E d \in Folders : ListFolder(d) \/ ListFolderFails(d)
  <2>1. pc' \notin {"folders", "leaves", "upsert"}
    BY <1>10 DEF StartDelta, FinishDelta, FilterFresh, FetchRoots, SaveFolder, FinishFull,
       FallBack, FetchRootsFails, Interrupt, StartForced, ListFolder, ListFolderFails,
       LeaveFolder, DropRun, Goto
  <2>2. OthersPending'
    BY <2>1 DEF OthersPending
  <2>3. pc' \notin {"leaves", "upsert"}
    BY <2>1
  <2>4. InHand'
    BY <2>3, Zenon DEF InHand
  <2> QED BY <1>1, <2>2, <2>4
<1>11. CASE (\E f \in Files : Publish(f)) \/ (\E d \in Folders : GrowOld(d)) \/ UNCHANGED vars
  <2>1. UNCHANGED <<pc, dirty, parent, ok, db, listing>>
    BY <1>11 DEF Publish, GrowOld, vars, catalogue, run
  <2>2. Uncrawled' = Uncrawled
    BY <1>11 DEF Publish, GrowOld, vars, catalogue, Uncrawled, TypeOK, Never
  <2>3. OthersPending'
    BY <2>1, <2>2 DEF OthersPending
  <2>4. InHand'
    BY <2>1, <2>2, Zenon DEF InHand, Lists
  <2> QED BY <1>1, <2>3, <2>4
<1> QED
  BY <1>1, <1>2, <1>3, <1>4, <1>5, <1>6, <1>7, <1>8, <1>9, <1>10, <1>11
     DEF Next, Work, Trouble

\* A folder with a crawled_at has been listed as a whole; for CrawledMeansListed.
THEOREM CrawledIsListed == Spec => []CrawledMeansListed
<1>1. WholeFoldersListed => CrawledMeansListed
  BY DEF WholeFoldersListed
<1> QED
  BY <1>1, TypeCorrect, InitTimes, StepTimes, InitWhole, StepWhole, PTL DEF Spec

-----------------------------------------------------------------------------
(* Undisturbed runs.                                                       *)

Current(f) == db[f] = seen[f]

\* What NothingMissed says of each place in a run.
QuietBetween == pc \in {"idle", "scan"} => NewestFirst
QuietSnapshot == pc # "idle" => seen = published /\ pc # "filter"
QuietDelta ==
    pc \in {"folders", "leaves", "upsert"} =>
        \A f \in Tracked : Current(f) \/ StillToCome(f)
QuietFull ==
    /\ pc \in {"roots", "full", "save"} =>
        \A f \in Tracked : Current(f) \/ StillToReplace(f)
    /\ pc \in {"full", "save"} => rootMap
    /\ pc = "save" => \A f \in Under[parent] : listing[f] = seen[f]

LEMMA NothingMissedParts ==
  NothingMissed <=>
    (~disturbed => /\ QuietBetween /\ QuietRunsComplete
                   /\ QuietSnapshot /\ QuietDelta /\ QuietFull)
BY DEF NothingMissed, QuietBetween, QuietSnapshot, QuietDelta, QuietFull, Current

LEMMA InitNothingMissed == Init => NothingMissed
BY DEF Init, NothingMissed, NewestFirst, UpToDate, QuietRunsComplete, Nowhere, Tracked

LEMMA TrackedIsFile == \A f \in Tracked : f \in Files
BY DEF Tracked

\* The scan finds every tracked file that is behind: an entry newer than it that is
\* known would be up to date, against NewestFirst.
LEMMA ScanFinds ==
  ASSUME TypeOK, TimesAreReal, NewestFirst, seen = published,
         NEW f \in Tracked, ~Current(f)
  PROVE  [folder |-> FolderIn[f], path |-> LeafOf[f]] \in Found
<1> USE ConstantTypes, TrackedIsFile DEF TypeOK, Time
<1>1. /\ db[f] < seen[f] /\ seen[f] # 0
      /\ \A e \in Files : db[e] <= seen[e] /\ seen[e] \in Nat /\ db[e] \in Nat
  BY DEF Current, TimesAreReal
<1>2. ~Known(f)
  BY <1>1 DEF Known
<1>3. ASSUME StoppedBefore(f) PROVE FALSE
  <2>1. PICK g, h \in Entries(LogOf[f]) :
          /\ seen[f] < seen[h]
          /\ \A e \in Stretch(g, h) : Known(e)
          /\ Cardinality(Stretch(g, h)) >= Threshold
    BY <1>3 DEF StoppedBefore
  <2>2. Stretch(g, h) # {}
    <3>1. Threshold \in Nat /\ Threshold > 0
      BY RefreshConstants DEF RefreshConstants
    <3>2. Cardinality({}) = 0
      BY FS_EmptySet
    <3>3. Stretch(g, h) = {} => Cardinality(Stretch(g, h)) = 0
      BY <3>2, Zenon
    <3>4. Cardinality(Stretch(g, h)) >= Threshold
      BY <2>1
    <3> QED BY <3>1, <3>3, <3>4
  <2>3. PICK e \in Stretch(g, h) : TRUE
    BY <2>2
  <2>4. e \in Files /\ h \in Files /\ seen[h] <= seen[e] /\ seen[e] # 0 /\ Known(e)
    BY <2>1, <2>3 DEF Stretch, Entries
  <2>5. UpToDate(e)
    BY <1>1, <2>4 DEF Known, UpToDate
  <2>6. Behindhand(f)
    BY <1>1 DEF Behindhand
  <2>7. published[e] < published[f]
    BY <2>4, <2>5, <2>6 DEF NewestFirst
  <2> QED BY <1>1, <2>1, <2>4, <2>7
<1>4. f \in Changed
  BY <1>1, <1>2, <1>3 DEF Changed, Tracked
<1> QED BY <1>4 DEF Found

\* A catalogue that is current as of the library has nothing behind.
LEMMA CurrentIsNewest ==
  ASSUME seen = published, \A f \in Tracked : Current(f)
  PROVE  NewestFirst /\ QuietRunsComplete
BY DEF NewestFirst, QuietRunsComplete, Behindhand, Current

\* Writing what was listed at the time of the snapshot keeps what is current so.
LEMMA UpsertKeepsCurrent ==
  ASSUME TypeOK, TimesAreReal, pc = "upsert", seen = published, UpsertListing,
         NEW f \in Files, Current(f) \/ listing[f] = seen[f]
  PROVE  db'[f] = seen[f]
<1> USE ConstantTypes DEF TypeOK, Time, TimesAreReal, Current
<1>1. db'[f] = IF listing[f] # 0 THEN listing[f] ELSE db[f]
  BY DEF UpsertListing
<1>2. db[f] <= published[f] /\ listing[f] <= published[f]
  OBVIOUS
<1>3. listing[f] # 0 => db[f] <= listing[f]
  OBVIOUS
<1>4. db[f] \in Nat /\ listing[f] \in Nat /\ seen[f] \in Nat
  OBVIOUS
<1> QED BY <1>1, <1>2, <1>3, <1>4

LEMMA StepNothingMissed ==
  TypeOK /\ TypeOK' /\ TimesAreReal /\ NothingMissed /\ [Next]_vars => NothingMissed'
<1> DEFINE Quiet == QuietBetween /\ QuietRunsComplete /\ QuietSnapshot /\ QuietDelta /\ QuietFull
<1> SUFFICES ASSUME TypeOK, TypeOK', TimesAreReal, NothingMissed, [Next]_vars, ~disturbed'
             PROVE  Quiet'
  BY NothingMissedParts DEF NothingMissed, QuietBetween, QuietSnapshot, QuietDelta, QuietFull, Current
<1>1. CASE StartForced
  <2>1. pc' = "roots" /\ seen' = published /\ todo' = Folders /\ UNCHANGED published
    BY <1>1 DEF StartForced, Goto, world
  <2>2. \A f \in Tracked : \E d \in Folders : f \in Under[d]
    BY RefreshConstants, TrackedIsFile DEF RefreshConstants
  <2>3. QuietFull'
    BY <2>1, <2>2 DEF QuietFull, StillToReplace, Tracked
  <2> QED BY <2>1, <2>3 DEF QuietBetween, QuietRunsComplete, QuietSnapshot, QuietDelta
<1> SUFFICES ASSUME ~StartForced PROVE Quiet'
  BY <1>1
<1>2. ~disturbed
  BY DEF Next, Work, Trouble, StartDelta, Scan, BeginFolder, CrawlLeaf, UpsertLeaf,
     FinishFolder, FinishDelta, FilterFresh, FetchRoots, ListFolder, SaveFolder, FinishFull,
     FallBack, BeginFolderFails, CrawlLeafFails, UpsertLeafFails, FinishFolderFails,
     FetchRootsFails, ListFolderFails, Interrupt, Publish, GrowOld, vars, Fault
<1>3. QuietBetween /\ QuietRunsComplete /\ QuietSnapshot /\ QuietDelta /\ QuietFull
  BY <1>2, NothingMissedParts
<1>4. CASE StartDelta
  <2>1. pc = "idle" /\ pc' = "scan" /\ seen' = published /\ UNCHANGED <<published, db>>
    BY <1>4 DEF StartDelta, Goto, world, catalogue
  <2>2. NewestFirst'
    BY <1>3, <2>1 DEF QuietBetween, NewestFirst, Behindhand, UpToDate, Tracked
  <2> QED
    BY <2>1, <2>2 DEF QuietBetween, QuietRunsComplete, QuietSnapshot, QuietDelta, QuietFull
<1>5. CASE Scan
  <2>1. /\ pc = "scan" /\ UNCHANGED <<published, seen, db, listing>> /\ dirty' = Found
        /\ pc' = IF Found = {} THEN "idle" ELSE "folders"
    BY <1>5 DEF Scan, Goto, world, catalogue
  <2>2. seen = published /\ NewestFirst
    BY <1>3, <2>1 DEF QuietSnapshot, QuietBetween
  <2>3. \A f \in Tracked :
          Current(f) \/ [folder |-> FolderIn[f], path |-> LeafOf[f]] \in Found
    BY <2>2, ScanFinds
  <2>4. CASE Found = {}
    <3>1. NewestFirst /\ QuietRunsComplete
      BY <2>2, <2>3, <2>4, CurrentIsNewest
    <3>2. NewestFirst' /\ \A f \in Tracked : Current(f)
      BY <2>1, <2>3, <2>4, <3>1 DEF NewestFirst, Behindhand, UpToDate, Tracked
    <3> QED
      BY <2>1, <2>4, <3>2
         DEF QuietBetween, QuietRunsComplete, QuietSnapshot, QuietDelta, QuietFull, Current, Tracked
  <2>5. CASE Found # {}
    <3>1. QuietDelta'
      BY <2>1, <2>3, <2>5 DEF QuietDelta, StillToCome, Current, Tracked
    <3> QED
      BY <2>1, <2>2, <2>5, <3>1 DEF QuietBetween, QuietRunsComplete, QuietSnapshot, QuietFull
  <2> QED BY <2>4, <2>5
<1>6. ASSUME NEW d \in Folders, BeginFolder(d) PROVE Quiet'
  <2>1. pc = "folders" /\ pc' = "leaves" /\ UNCHANGED <<published, seen, db, dirty, listing>>
    BY <1>6 DEF BeginFolder, Goto, world
  <2> QED
    BY <1>3, <2>1 DEF QuietBetween, QuietRunsComplete, QuietSnapshot, QuietDelta, QuietFull,
       StillToCome, Current, Tracked
<1>7. ASSUME NEW path \in Paths, CrawlLeaf(path) PROVE Quiet'
  <2>1. /\ pc = "leaves" /\ pc' = "upsert" /\ UNCHANGED <<published, seen, db>>
        /\ dirty' = dirty \ {[folder |-> parent, path |-> path]}
    BY <1>7 DEF CrawlLeaf, Goto, world, catalogue
  <2>2. seen = published
    BY <1>3, <2>1 DEF QuietSnapshot
  <2>3. \A f \in Tracked : LeafOf[f] = path => listing'[f] = seen[f]
    BY <1>7, <2>2, Listed, TrackedIsFile DEF CrawlLeaf, Tracked
  <2>4. QuietDelta'
    BY <1>3, <2>1, <2>3 DEF QuietDelta, StillToCome, Current, Tracked
  <2> QED
    BY <2>1, <2>2, <2>4 DEF QuietBetween, QuietRunsComplete, QuietSnapshot, QuietFull
<1>8. CASE UpsertLeaf
  <2>1. /\ pc = "upsert" /\ pc' = "leaves" /\ UNCHANGED <<published, seen, dirty>>
        /\ UpsertListing
    BY <1>8 DEF UpsertLeaf, Goto, world
  <2>2. seen = published
    BY <1>3, <2>1 DEF QuietSnapshot
  <2>3. \A f \in Tracked : Current(f) \/ listing[f] = seen[f] => db'[f] = seen[f]
    BY <2>1, <2>2, UpsertKeepsCurrent, TrackedIsFile
  <2>4. QuietDelta'
    BY <1>3, <2>1, <2>3 DEF QuietDelta, StillToCome, Current, Tracked
  <2> QED
    BY <2>1, <2>2, <2>4 DEF QuietBetween, QuietRunsComplete, QuietSnapshot, QuietFull
<1>9. CASE FinishFolder
  <2>1. pc = "leaves" /\ pc' = "folders" /\ UNCHANGED <<published, seen, db, dirty>>
    BY <1>9 DEF FinishFolder, LeaveFolder, Goto, world
  <2> QED
    BY <1>3, <2>1 DEF QuietBetween, QuietRunsComplete, QuietSnapshot, QuietDelta, QuietFull,
       StillToCome, Current, Tracked
<1>10. CASE FinishDelta \/ FinishFull
  <2>1. /\ pc' = "idle" /\ UNCHANGED <<published, seen, db>>
        /\ (pc = "folders" /\ dirty = {}) \/ (pc = "full" /\ todo = {})
    BY <1>10 DEF FinishDelta, FinishFull, DropRun, LeaveFolder, Goto, world, catalogue
  <2>2. seen = published /\ \A f \in Tracked : Current(f)
    BY <1>3, <2>1 DEF QuietSnapshot, QuietDelta, QuietFull, StillToCome, StillToReplace
  <2>3. NewestFirst'
    BY <2>1, <2>2, CurrentIsNewest DEF NewestFirst, Behindhand, UpToDate, Tracked
  <2> QED
    BY <2>1, <2>2, <2>3 DEF QuietBetween, QuietRunsComplete, QuietSnapshot, QuietDelta,
       QuietFull, Current, Tracked
<1>11. CASE FetchRoots
  <2>1. pc = "roots" /\ pc' = "full" /\ rootMap' /\ UNCHANGED <<published, seen, db, todo>>
    BY <1>11 DEF FetchRoots, Goto, world, catalogue
  <2> QED
    BY <1>3, <2>1 DEF QuietBetween, QuietRunsComplete, QuietSnapshot, QuietDelta, QuietFull,
       StillToReplace, Current, Tracked
<1>12. ASSUME NEW d \in Folders, ListFolder(d) PROVE Quiet'
  <2>1. /\ pc = "full" /\ pc' = "save" /\ parent' = d /\ todo' = todo \ {d}
        /\ UNCHANGED <<published, seen, db, rootMap>>
    BY <1>12 DEF ListFolder, Goto, world, catalogue
  <2>2. seen = published /\ rootMap
    BY <1>3, <2>1 DEF QuietSnapshot, QuietFull
  <2>3. \A f \in Under[d] : listing'[f] = seen[f]
    BY <1>12, <2>2, Listed, OneFolder, ConstantTypes DEF ListFolder, Contents, TypeOK
  <2>4. QuietFull'
    BY <1>3, <2>1, <2>2, <2>3 DEF QuietFull, StillToReplace, Current, Tracked
  <2> QED
    BY <2>1, <2>2, <2>4 DEF QuietBetween, QuietRunsComplete, QuietSnapshot, QuietDelta
<1>13. CASE SaveFolder
  <2>1. /\ pc = "save" /\ pc' = "full" /\ UNCHANGED <<published, seen, todo, rootMap>>
        /\ ReplaceListing
    BY <1>13 DEF SaveFolder, LeaveFolder, Goto, world
  <2>2. \A f \in Tracked : db'[f] = IF f \in Under[parent] THEN seen[f] ELSE db[f]
    BY <1>3, <2>1, TrackedIsFile DEF ReplaceListing, QuietFull
  <2>3. QuietFull'
    BY <1>3, <2>1, <2>2 DEF QuietFull, StillToReplace, Current, Tracked
  <2> QED
    BY <1>3, <2>1, <2>3 DEF QuietBetween, QuietRunsComplete, QuietSnapshot, QuietDelta
<1>14. CASE \E f \in Files : Publish(f)
  <2> PICK g \in Files : Publish(g)
    BY <1>14
  <2>1. /\ pc = "idle" /\ UNCHANGED <<pc, seen, db>>
        /\ published' = [published EXCEPT ![g] = clock + 1]
    BY <1>2 DEF Publish, catalogue
  <2>2. \A f \in Files : db[f] <= clock /\ published[f] <= clock /\ db[f] <= published[f]
                         /\ db[f] \in Nat /\ published[f] \in Nat /\ clock \in Nat
    BY ConstantTypes DEF TypeOK, TimesAreReal, Time
  <2>3. NewestFirst
    BY <1>3, <2>1 DEF QuietBetween
  <2>4. ASSUME NEW f \in Tracked, NEW h \in Files, Behindhand(f)', UpToDate(h)'
        PROVE  published'[h] < published'[f]
    <3>1. f \in Files
      BY TrackedIsFile
    <3>2. h # g /\ UpToDate(h) /\ published'[h] = published[h]
      BY <2>1, <2>2, <2>4 DEF UpToDate, TypeOK
    <3>3. CASE f = g
      BY <2>1, <2>2, <3>1, <3>2, <3>3 DEF TypeOK
    <3>4. CASE f # g
      <4>1. published'[f] = published[f] /\ Behindhand(f)
        BY <2>1, <2>4, <3>1, <3>4 DEF Behindhand, TypeOK
      <4> QED BY <2>3, <3>2, <4>1 DEF NewestFirst
    <3> QED BY <3>3, <3>4
  <2>5. NewestFirst'
    BY <2>4 DEF NewestFirst, Tracked
  <2>6. QuietRunsComplete'
    BY <1>2, <1>3, <2>1 DEF QuietRunsComplete, Tracked
  <2> QED
    BY <2>1, <2>5, <2>6 DEF QuietBetween, QuietSnapshot, QuietDelta, QuietFull
<1>15. CASE (\E d \in Folders : GrowOld(d)) \/ UNCHANGED vars
  <2>1. UNCHANGED <<published, seen, db, pc, dirty, todo, rootMap, parent, listing>>
    BY <1>15 DEF GrowOld, vars, world, catalogue, run
  <2>2. QuietBetween' /\ QuietSnapshot'
    BY <1>3, <2>1 DEF QuietBetween, QuietSnapshot, Tracked, NewestFirst, Behindhand, UpToDate
  <2>3. QuietRunsComplete'
    BY <1>2, <1>3, <2>1 DEF QuietRunsComplete, Tracked
  <2>4. QuietDelta'
    BY <1>3, <2>1 DEF QuietDelta, StillToCome, Current, Tracked
  <2>5. QuietFull'
    BY <1>3, <2>1 DEF QuietFull, StillToReplace, Current, Tracked
  <2> QED BY <2>2, <2>3, <2>4, <2>5
<1>16. ~Trouble /\ ~FilterFresh
  BY <1>3 DEF Trouble, FallBack, BeginFolderFails, CrawlLeafFails, UpsertLeafFails,
     FinishFolderFails, FetchRootsFails, ListFolderFails, Interrupt, Fault, FilterFresh,
     QuietSnapshot
<1> QED
  BY <1>4, <1>5, <1>6, <1>7, <1>8, <1>9, <1>10, <1>11, <1>12, <1>13, <1>14, <1>15, <1>16
     DEF Next, Work

\* Undisturbed runs leave nothing out; for QuietRunsComplete.
THEOREM QuietRunsAreComplete == Spec => []QuietRunsComplete
<1>1. TypeOK /\ NothingMissed => QuietRunsComplete
  BY NothingMissedParts DEF QuietRunsComplete
<1> QED
  BY <1>1, TypeCorrect, InitTimes, StepTimes, InitNothingMissed, StepNothingMissed, PTL DEF Spec

=============================================================================
