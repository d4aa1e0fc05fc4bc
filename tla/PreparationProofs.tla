-------------------------- MODULE PreparationProofs --------------------------
(***************************************************************************)
(* Theorems about Preparation, for any environments, folders, classifiers, *)
(* templates and libraries, whatever is edited, published or fails: paths  *)
(* never move, environments never mix, directories precede files, and the  *)
(* drift reports agree with the overview.                                  *)
(***************************************************************************)
EXTENDS Preparation, NaturalsInduction, WellFoundedInduction, TLAPS

\* The processes have the fields they started with.
Shaped ==
    /\ crawl = [p \in Crawlers |-> crawl[p]]
    /\ \A p \in Crawlers : DOMAIN crawl[p] = DOMAIN Idle
    /\ DOMAIN landing = DOMAIN NoLanding

\* What becomes of a landing run, and of a crawler, that has handled one path or folder.
LEMMA LandPathEffect ==
  ASSUME Shaped, NEW path, LandPath(path)
  PROVE  /\ landing'.pc = landing.pc /\ landing'.list = landing.list /\ landing.pc = "sync"
         /\ landing'.schema = landing.schema /\ landing'.steady = landing.steady
         /\ landing'.envs = landing.envs /\ landing'.env = landing.env /\ dirs' = dirs
         /\ landing'.todo \subseteq landing.todo
         /\ landing'.landed \subseteq
                landing.landed \union {[path |-> path, from |-> landing.env]}
<1>1. PICK owed :
        \/ landing' = [landing EXCEPT !.todo = @ \ {path},
                          !.landed = @ \union {[path |-> path, from |-> landing.env]}]
        \/ landing' = [landing EXCEPT !.todo = @ \ {path}, !.owed = owed]
  BY DEF LandPath
<1>2. DOMAIN landing = {"pc", "list", "schema", "envs", "env", "todo", "landed", "steady", "owed"}
  BY DEF Shaped, NoLanding
<1>3. landing.pc = "sync" /\ dirs' = dirs
  BY DEF LandPath
<1> QED BY <1>1, <1>2, <1>3

LEMMA CrawlFolderEffect ==
  ASSUME Shaped, NEW p \in Crawlers, NEW f, CrawlFolder(p, f)
  PROVE  /\ \A q \in Crawlers \ {p} : crawl'[q] = crawl[q]
         /\ crawl[p].pc = "crawl" /\ crawl'[p].pc \in {"crawl", "insert"}
         /\ crawl'[p].round = crawl[p].round
         /\ crawl'[p].pc = "insert" => crawl'[p].hand = Key(Round(p).env, f)
<1>1. PICK k : /\ k = Key(Round(p).env, f)
               /\ \/ crawl' = [crawl EXCEPT ![p].todo = @ \ {f}]
                  \/ crawl' = [crawl EXCEPT ![p].pc = "insert", ![p].todo = @ \ {f}, ![p].hand = k]
                  \/ crawl' = [crawl EXCEPT ![p].todo = @ \ {f}, ![p].skipped = @ \union {k}]
  BY DEF CrawlFolder
<1>2. /\ crawl = [q \in Crawlers |-> crawl[q]]
      /\ {"pc", "round", "todo", "hand", "skipped"} \subseteq DOMAIN crawl[p]
  BY DEF Shaped, Idle
<1>3. crawl[p].pc = "crawl"
  BY DEF CrawlFolder
<1>4. /\ crawl'[p].round = crawl[p].round /\ crawl'[p].pc \in {"crawl", "insert"}
      /\ crawl'[p].pc = "insert" => crawl'[p].hand = k
  <2>1. CASE crawl' = [crawl EXCEPT ![p].todo = @ \ {f}]
    BY <1>2, <1>3, <2>1
  <2>2. CASE crawl' = [crawl EXCEPT ![p].pc = "insert", ![p].todo = @ \ {f}, ![p].hand = k]
    BY <1>2, <1>3, <2>2
  <2>3. CASE crawl' = [crawl EXCEPT ![p].todo = @ \ {f}, ![p].skipped = @ \union {k}]
    BY <1>2, <1>3, <2>3
  <2> QED BY <1>1, <2>1, <2>2, <2>3
<1>5. \A q \in Crawlers \ {p} : crawl'[q] = crawl[q]
  BY <1>1, <1>2
<1> QED BY <1>1, <1>3, <1>4, <1>5

\* A group that is being crawled is one of the rounds, and a row that is about to
\* be inserted is that of a folder of an environment.
Sound(c) ==
    /\ c.todo # {} \/ c.pc = "insert" => c.round \in DOMAIN Rounds
    /\ c.pc = "insert" => c.hand = Key(c.hand.env, c.hand.folder)

OneRow == \A r, s \in rows : KeyOf(r) = KeyOf(s) => r = s
InGroups(paths) == \A r \in paths : r.domain \in Domains \union Archives

\* The schema is part of the table of folders, and so is what a preparation has
\* read of it; what it is about to write is no less than what is there.
Paths ==
    /\ \A p \in Crawlers : Sound(crawl[p])
    /\ OneRow /\ InGroups(rows)
    /\ schema \subseteq rows
    /\ crawl[Prepare].pc = "write" =>
            /\ schema \subseteq crawl[Prepare].snapshot
            /\ crawl[Prepare].snapshot \subseteq rows

\* What most steps do to the paths: nothing.
LeavesPaths ==
    /\ rows' = rows /\ schema' = schema
    /\ \A p \in Crawlers : Sound(crawl'[p])
    /\ crawl'[Prepare].pc = "write" =>
            crawl[Prepare].pc = "write" /\ crawl'[Prepare].snapshot = crawl[Prepare].snapshot

LEMMA PathsLeft ==
  ASSUME Paths, LeavesPaths
  PROVE  Paths'
BY DEF Paths, LeavesPaths, OneRow, InGroups

LEMMA GroupsOfRounds ==
  ASSUME NEW i \in DOMAIN Rounds
  PROVE  Rounds[i].group \in Domains \union Archives
<1> DEFINE m == Len(EnvOrder)
           n == Len(GroupOrder)
<1>1. m \in Nat /\ n \in Nat /\ GroupOrder \in Seq(Domains \union Archives)
  BY PreparationConstants DEF PreparationConstants
<1>2. i \in 1..(m * n)
  BY DEF Rounds
<1>3. n # 0
  <2>1. CASE n = 0
    <3>1. m * n = 0
      BY <1>1, <2>1
    <3> QED BY <1>2, <3>1
  <2> QED BY <2>1
<1>4. ((i - 1) % n) + 1 \in 1..n
  BY <1>1, <1>2, <1>3
<1>5. Rounds[i].group = GroupOrder[((i - 1) % n) + 1]
  BY DEF Rounds
<1> QED BY <1>1, <1>4, <1>5

\* Of a full crawl whose overview is written anew nothing else changes.
LEMMA UnsteadyScanEffect ==
  ASSUME Shaped, UnsteadyScan
  PROVE  \A p \in Crawlers :
            /\ crawl'[p].pc = crawl[p].pc /\ crawl'[p].round = crawl[p].round
            /\ crawl'[p].todo = crawl[p].todo /\ crawl'[p].hand = crawl[p].hand
            /\ crawl'[p].skipped = crawl[p].skipped /\ crawl'[p].snapshot = crawl[p].snapshot
<1>1. /\ crawl = [p \in Crawlers |-> crawl[p]]
      /\ crawl' = [crawl EXCEPT ![Scan].steady = (crawl[Scan].pc = "off")]
  BY DEF Shaped, UnsteadyScan
<1>2. \A p \in Crawlers :
         {"pc", "round", "todo", "hand", "skipped", "snapshot"} \subseteq DOMAIN crawl[p]
  BY DEF Shaped, Idle
<1> QED BY <1>1, <1>2

\* A full crawl that starts or breaks off has nothing to do yet, or any more.
LEMMA ScanEffect ==
  ASSUME Shaped, (\E ask \in Scans : StartScan(ask)) \/ ScanBreaksOff
  PROVE  /\ \A p \in Crawlers \ {Scan} : crawl'[p] = crawl[p]
         /\ crawl'[Scan].pc \in {"off", "crawl"} /\ crawl'[Scan].round = 0
         /\ crawl'[Scan].todo = {} /\ crawl'[Scan].skipped = {}
<1>1. crawl = [p \in Crawlers |-> crawl[p]] /\ Scan \in Crawlers
  BY DEF Shaped, Crawlers
<1>2. ASSUME NEW ask \in Scans, StartScan(ask)
      PROVE  crawl' = [crawl EXCEPT ![Scan] = [Idle EXCEPT !.pc = "crawl", !.env = ask.env,
                                                   !.scope = ask.scope, !.force = ask.force]]
  BY <1>2 DEF StartScan
<1>3. CASE \E ask \in Scans : StartScan(ask)
  <2>1. PICK ask \in Scans : StartScan(ask)
    BY <1>3
  <2> DEFINE begin == [Idle EXCEPT !.pc = "crawl", !.env = ask.env, !.scope = ask.scope,
                                   !.force = ask.force]
  <2>2. crawl' = [crawl EXCEPT ![Scan] = begin]
    BY <1>2, <2>1
  <2>3. begin.pc = "crawl" /\ begin.round = 0 /\ begin.todo = {} /\ begin.skipped = {}
    BY DEF Idle
  <2> HIDE DEF begin
  <2> QED BY <1>1, <2>2, <2>3
<1>4. CASE ScanBreaksOff
  BY <1>1, <1>4 DEF ScanBreaksOff, Idle
<1> QED BY <1>3, <1>4

LEMMA WorldLeaves ==
  ASSUME Shaped, Paths, World \/ Survey \/ SurveyFails \/ Landing \/ LandFails
  PROVE  LeavesPaths
<1>1. CASE World
  BY <1>1 DEF World, Change, Publish, Reclassify, Configure, Age, RewriteReport, Regenerate,
              Paths, LeavesPaths, tables
<1>2. CASE fetch_environment_metadata \/ SaveReports \/ SurveyFails
  BY <1>2 DEF fetch_environment_metadata, SaveReports, SurveyFails, Paths, LeavesPaths, tables
<1>3. CASE OpenOverview \/ StreamOverview \/ SaveOverview
  <2>1. rows' = rows /\ schema' = schema /\ UnsteadyScan
    BY <1>3 DEF OpenOverview, StreamOverview, SaveOverview, tables
  <2>2. \A p \in Crawlers : Sound(crawl'[p])
    BY <2>1, UnsteadyScanEffect DEF Paths, Sound
  <2>3. Prepare \in Crawlers
    BY DEF Crawlers
  <2> QED BY <2>1, <2>2, <2>3, UnsteadyScanEffect DEF LeavesPaths
<1>4. CASE Landing \/ LandFails
  BY <1>4 DEF Landing, LandTree, LandEnvs, LandDone, LandEnv, LandPath, LandFails,
              Paths, LeavesPaths, tables
<1> QED BY <1>1, <1>2, <1>3, <1>4 DEF Survey

LEMMA ShapeIsKept ==
  ASSUME Shaped, [Next]_vars
  PROVE  Shaped'
<1> USE DEF Shaped, Crawlers, Idle, NoLanding
<1>1. CASE World
  BY <1>1 DEF World, Change, Publish, Reclassify, Configure, Age, RewriteReport, Regenerate
<1>2. CASE Survey \/ SurveyFails
  BY <1>2 DEF Survey, fetch_environment_metadata, OpenOverview, StreamOverview,
              SaveOverview, UnsteadyScan, SaveReports, SurveyFails
<1>3. CASE LandTree \/ LandEnvs \/ LandDone \/ LandFails
  BY <1>3 DEF LandTree, LandEnvs, LandDone, LandFails
<1>4. CASE \E e \in Envs : LandEnv(e)
  BY <1>4 DEF LandEnv
<1>5. CASE \E path \in landing.todo : LandPath(path)
  BY <1>5 DEF LandPath
<1>6. CASE \E p \in Crawlers : NextGroup(p)
  <2>0. PICK p \in Crawlers : NextGroup(p)
    BY <1>6
  <2>1. landing' = landing /\ crawl' = [q \in Crawlers |-> crawl'[q]]
    BY <2>0 DEF NextGroup
  <2>2. DOMAIN crawl'[p] = DOMAIN crawl[p]
    BY <2>0 DEF NextGroup
  <2>3. \A q \in Crawlers \ {p} : crawl'[q] = crawl[q]
    BY <2>0 DEF NextGroup
  <2> HIDE DEF Crawlers, Idle
  <2> QED BY <2>1, <2>2, <2>3
<1>7. CASE \E p \in Crawlers : EndCrawl(p) \/ InsertRow(p)
  <2>0. PICK p \in Crawlers : EndCrawl(p) \/ InsertRow(p)
    BY <1>7
  <2>1. landing' = landing /\ crawl' = [q \in Crawlers |-> crawl'[q]]
    BY <2>0 DEF EndCrawl, InsertRow
  <2>2. DOMAIN crawl'[p] = DOMAIN Idle
    BY <2>0 DEF EndCrawl, InsertRow
  <2>3. \A q \in Crawlers \ {p} : crawl'[q] = crawl[q]
    BY <2>0 DEF EndCrawl, InsertRow
  <2> HIDE DEF Crawlers, Idle
  <2> QED BY <2>1, <2>2, <2>3
<1>8. CASE \E p \in Crawlers : \E f \in crawl[p].todo : CrawlFolder(p, f)
  <2>0. PICK p \in Crawlers : \E f \in crawl[p].todo : CrawlFolder(p, f)
    BY <1>8
  <2>1. PICK f \in crawl[p].todo : CrawlFolder(p, f)
    BY <2>0
  <2>2. landing' = landing
    BY <2>1 DEF CrawlFolder
  <2>3. crawl' = [q \in Crawlers |-> crawl'[q]]
    BY <2>1 DEF CrawlFolder
  <2>4. DOMAIN crawl'[p] = DOMAIN crawl[p]
    BY <2>1 DEF CrawlFolder
  <2>5. \A q \in Crawlers \ {p} : crawl'[q] = crawl[q]
    BY <2>1 DEF CrawlFolder
  <2> HIDE DEF Crawlers, Idle
  <2> QED BY <2>2, <2>3, <2>4, <2>5
<1>9. CASE \E p \in Crawlers : ClientFails(p) \/ CrawlFails(p)
  BY <1>9 DEF ClientFails, CrawlFails
<1>10. CASE StartPrepare \/ PlanPreparation
  BY <1>10 DEF StartPrepare, PlanPreparation
<1>11. CASE ReadFolders \/ WriteSchema \/ EndPreparation
  BY <1>11 DEF ReadFolders, WriteSchema, EndPreparation
<1>12. CASE (\E ask \in Scans : StartScan(ask)) \/ ScanBreaksOff
  BY <1>12 DEF StartScan, ScanBreaksOff
<1>13. CASE UNCHANGED vars
  BY <1>13 DEF vars
<1> QED
  BY <1>1, <1>2, <1>3, <1>4, <1>5, <1>6, <1>7, <1>8, <1>9, <1>10, <1>11, <1>12, <1>13
     DEF Next, Trouble, Survey, Scanning, Preparing, Landing, Crawling

\* The crawlers, group by group and folder by folder.
LEMMA CrawlersLeave ==
  ASSUME Shaped, Paths, NEW p \in Crawlers,
         \/ NextGroup(p) \/ EndCrawl(p) \/ ClientFails(p) \/ CrawlFails(p)
         \/ \E f \in crawl[p].todo : CrawlFolder(p, f)
  PROVE  LeavesPaths
<1> USE DEF Shaped, Crawlers, Idle, tables
<1>0. \A q \in Crawlers : Sound(crawl[q])
  BY DEF Paths
<1>1. CASE NextGroup(p)
  <2>1. rows' = rows /\ schema' = schema /\ crawl[p].pc = "crawl"
    BY <1>1 DEF NextGroup
  <2>2. PICK i \in Upcoming(p) : \E b \in Beginnings(p, i) :
            crawl' = [crawl EXCEPT ![p].round = i, ![p].todo = b.todo, ![p].plan = b.plan]
    BY <1>1 DEF NextGroup
  <2>3. /\ crawl'[p].pc = crawl[p].pc /\ crawl'[p].snapshot = crawl[p].snapshot
        /\ crawl'[p].round \in Upcoming(p)
    BY <2>2
  <2>4. crawl'[p].round \in DOMAIN Rounds
    BY <2>3 DEF Upcoming, Rest
  <2>5. \A q \in Crawlers \ {p} : crawl'[q] = crawl[q]
    BY <1>1 DEF NextGroup
  <2>6. Sound(crawl'[p])
    BY <2>1, <2>3, <2>4 DEF Sound
  <2> QED BY <2>1, <2>3, <2>5, <2>6, <1>0 DEF LeavesPaths
<1>2. CASE EndCrawl(p)
  BY <1>2, <1>0 DEF EndCrawl, LeavesPaths, Sound
<1>3. CASE ClientFails(p)
  BY <1>3, <1>0 DEF ClientFails, LeavesPaths, Sound
<1>4. CASE CrawlFails(p)
  BY <1>4, <1>0 DEF CrawlFails, LeavesPaths, Sound
<1>5. ASSUME NEW f \in crawl[p].todo, CrawlFolder(p, f) PROVE LeavesPaths
  <2>1. crawl[p].round \in DOMAIN Rounds
    BY <1>0 DEF Sound
  <2>2. Key(Round(p).env, f) = Key(Key(Round(p).env, f).env, Key(Round(p).env, f).folder)
    BY DEF Key
  <2>3. rows' = rows /\ schema' = schema /\ crawl[p].pc = "crawl"
    BY <1>5 DEF CrawlFolder
  <2>4. /\ \A q \in Crawlers \ {p} : crawl'[q] = crawl[q]
        /\ crawl'[p].round = crawl[p].round /\ crawl'[p].pc \in {"crawl", "insert"}
        /\ crawl'[p].pc = "insert" => crawl'[p].hand = Key(Round(p).env, f)
    BY <1>5, CrawlFolderEffect
  <2>7. Sound(crawl'[p])
    BY <2>1, <2>2, <2>4 DEF Sound
  <2> QED BY <1>0, <2>3, <2>4, <2>7 DEF LeavesPaths
<1> QED BY <1>1, <1>2, <1>3, <1>4, <1>5

\* A new row is the only one of its folder.
LEMMA InsertKeepsPaths ==
  ASSUME Shaped, Paths, NEW p \in Crawlers, InsertRow(p)
  PROVE  Paths'
<1> USE DEF Shaped, Crawlers, Idle, tables
<1> DEFINE k == crawl[p].hand
           r == [env |-> k.env, domain |-> Round(p).group, folder |-> k.folder]
<1>0. /\ \A q \in Crawlers : Sound(crawl[q])
      /\ crawl[p].pc = "insert" /\ schema' = schema
  BY DEF Paths, InsertRow
<1>1. /\ \A q \in Crawlers : Sound(crawl'[q])
      /\ crawl'[Prepare].pc = "write" =>
            (crawl[Prepare].pc = "write" /\ crawl'[Prepare].snapshot = crawl[Prepare].snapshot)
  <2>1. \A q \in Crawlers \ {p} : crawl'[q] = crawl[q]
    BY DEF InsertRow
  <2>2. crawl'[p].pc \in {"off", "crawl"}
    BY DEF InsertRow
  <2>3. crawl'[p].round = crawl[p].round \/ crawl'[p].todo = {}
    BY DEF InsertRow
  <2>4. Sound(crawl'[p])
    BY <1>0, <2>2, <2>3 DEF Sound
  <2> QED BY <1>0, <2>1, <2>2, <2>4
<1>2. CASE rows' = rows
  BY <1>0, <1>1, <1>2, PathsLeft DEF LeavesPaths
<1>3. CASE k \notin {KeyOf(s) : s \in rows} /\ rows' = rows \union {r}
  <2>1. KeyOf(r) = k
    BY <1>0 DEF KeyOf, Sound, Key
  <2>2. OneRow'
    BY <1>3, <2>1 DEF OneRow, Paths
  <2>3. r.domain \in Domains \union Archives
    <3>1. Round(p).group \in Domains \union Archives
      BY <1>0, GroupsOfRounds DEF Sound, Round
    <3> QED BY <3>1
  <2>4. InGroups(rows')
    BY <1>3, <2>3 DEF InGroups, Paths
  <2>5. rows \subseteq rows'
    BY <1>3
  <2> HIDE DEF r
  <2> QED BY <1>0, <1>1, <2>2, <2>4, <2>5 DEF Paths, OneRow, InGroups
<1> QED BY <1>0, <1>2, <1>3 DEF InsertRow

LEMMA PathsAreKept ==
  ASSUME Shaped, Paths, [Next]_vars
  PROVE  Paths' /\ schema \subseteq schema'
<1> USE DEF tables
<1>1. CASE World \/ Survey \/ SurveyFails \/ Landing \/ LandFails
  BY <1>1, WorldLeaves, PathsLeft DEF LeavesPaths
<1>2. CASE \E p \in Crawlers : ClientFails(p) \/ CrawlFails(p)
  BY <1>2, CrawlersLeave, PathsLeft DEF LeavesPaths
<1>3. CASE \E p \in Crawlers : Crawling(p)
  <2>1. PICK p \in Crawlers : Crawling(p)
    BY <1>3
  <2>2. CASE InsertRow(p)
    BY <2>2, InsertKeepsPaths DEF InsertRow
  <2>3. CASE ~InsertRow(p)
    BY <2>1, <2>3, CrawlersLeave, PathsLeft DEF LeavesPaths, Crawling
  <2> QED BY <2>2, <2>3
<1>4. CASE StartPrepare \/ PlanPreparation \/ EndPreparation
  <2>1. LeavesPaths
    BY <1>4 DEF StartPrepare, PlanPreparation, EndPreparation, LeavesPaths, Paths, Sound,
                Shaped, Crawlers, Idle
  <2> QED BY <2>1, PathsLeft DEF LeavesPaths
<1>5. CASE ReadFolders
  <2>1. /\ rows' = rows /\ schema' = schema /\ crawl'[Prepare].snapshot = rows
        /\ \A p \in Crawlers : Sound(crawl'[p])
    BY <1>5 DEF ReadFolders, Paths, Sound, Shaped, Crawlers, Idle
  <2> QED BY <2>1 DEF Paths, OneRow, InGroups
<1>6. CASE WriteSchema
  <2>1. /\ rows' = rows /\ schema \subseteq schema' /\ schema' \subseteq rows
        /\ crawl'[Prepare].pc = "sizes"
    BY <1>6 DEF WriteSchema, Paths, Shaped, Crawlers, Idle
  <2>2. \A p \in Crawlers : Sound(crawl'[p])
    BY <1>6 DEF WriteSchema, Paths, Sound, Shaped, Crawlers, Idle
  <2> QED BY <2>1, <2>2 DEF Paths, OneRow, InGroups
<1>7. CASE (\E ask \in Scans : StartScan(ask)) \/ ScanBreaksOff
  <2>2. rows' = rows /\ schema' = schema
    BY <1>7 DEF StartScan, ScanBreaksOff
  <2>3. crawl'[Prepare] = crawl[Prepare]
    BY <1>7, ScanEffect, PreparationConstants DEF Crawlers, PreparationConstants
  <2>4. crawl'[Scan].pc \in {"off", "crawl"} /\ crawl'[Scan].todo = {}
    BY <1>7, ScanEffect
  <2>5. LeavesPaths
    BY <2>2, <2>3, <2>4 DEF LeavesPaths, Paths, Sound, Crawlers
  <2> QED BY <2>5, PathsLeft DEF LeavesPaths
<1>8. CASE UNCHANGED vars
  <2>1. LeavesPaths
    BY <1>8 DEF vars, LeavesPaths, Paths
  <2> QED BY <2>1, PathsLeft DEF LeavesPaths
<1> QED
  BY <1>1, <1>2, <1>3, <1>4, <1>5, <1>6, <1>7, <1>8
     DEF Next, Trouble, Scanning, Preparing, Crawlers

LEMMA PathsHold == Spec => [](Shaped /\ Paths)
<1>1. Init => Shaped /\ Paths
  <2> SUFFICES ASSUME Init PROVE Shaped /\ Paths
    OBVIOUS
  <2>1. Shaped
    BY DEF Init, Shaped
  <2>2. \A p \in Crawlers : Sound(crawl[p]) /\ crawl[p].pc = "off"
    BY DEF Init, Sound, Idle
  <2> QED BY <2>1, <2>2 DEF Init, Paths, OneRow, InGroups, Crawlers
<1>2. (Shaped /\ Paths) /\ [Next]_vars => (Shaped /\ Paths)'
  BY ShapeIsKept, PathsAreKept
<1> QED BY <1>1, <1>2, PTL DEF Spec

\* A publication's folder keeps its place in the landing bucket, whoever crawls,
\* reclassifies or prepares, and in whatever order; for PathsStay.
THEOREM FoldersKeepTheirPaths == Spec => PathsStay
<1>1. (Shaped /\ Paths) /\ (Shaped /\ Paths)' /\ [Next]_vars =>
        [schema \subseteq schema' /\ \A p, q \in schema' : KeyOf(p) = KeyOf(q) => p = q]_vars
  <2> SUFFICES ASSUME Shaped, Paths, Paths', [Next]_vars
               PROVE  schema \subseteq schema' /\ \A p, q \in schema' : KeyOf(p) = KeyOf(q) => p = q
    OBVIOUS
  <2>1. schema \subseteq schema'
    BY PathsAreKept
  <2>2. schema' \subseteq rows' /\ OneRow'
    BY DEF Paths
  <2> QED BY <2>1, <2>2 DEF OneRow
<1> QED BY <1>1, PathsHold, PTL DEF Spec, PathsStay

-----------------------------------------------------------------------------
(* What a landing run selects.                                              *)

\* What is selected, and what has landed, is in the selected environment and
\* enabled there.
Enabled(path, e) == path.env = e /\ path.folder \in extract_active_folders(landing.list, e)

Selection ==
    /\ InGroups(landing.schema)
    /\ landing.pc = "envs" => landing.todo = {} /\ landing.landed = {} /\ ~landing.steady
    /\ landing.envs \subseteq Envs
    /\ \A path \in landing.todo : Enabled(path, landing.env)
    /\ \A x \in landing.landed : Enabled(x.path, x.from)

\* While the checklist stays what the preflight read, the directories of all that
\* can be selected exist.
Directories ==
    /\ landing.pc = "envs" \/ (landing.pc = "sync" /\ landing.steady) =>
            target_folders(landing.list, landing.schema) \subseteq dirs
    /\ landing.steady => /\ landing.todo \subseteq dirs
                         /\ \A x \in landing.landed : x.path \in dirs

\* What crawling leaves alone: all but the table of folders and the crawlers themselves.
LEMMA CrawlersLeaveTheRest ==
  ASSUME NEW p \in Crawlers, Crawling(p) \/ ClientFails(p) \/ CrawlFails(p)
  PROVE  /\ inputs' = inputs /\ reported' = reported /\ checklist' = checklist
         /\ dirs' = dirs /\ landing' = landing /\ ready' = ready
<1> DEFINE Goal == /\ inputs' = inputs /\ reported' = reported /\ checklist' = checklist
                   /\ dirs' = dirs /\ landing' = landing /\ ready' = ready
<1>1. CASE NextGroup(p)
  BY <1>1 DEF NextGroup
<1>2. CASE EndCrawl(p)
  BY <1>2 DEF EndCrawl
<1>3. CASE InsertRow(p)
  BY <1>3 DEF InsertRow
<1>4. ASSUME NEW f \in crawl[p].todo, CrawlFolder(p, f) PROVE Goal
  BY <1>4 DEF CrawlFolder
<1>5. CASE ClientFails(p)
  BY <1>5 DEF ClientFails
<1>6. CASE CrawlFails(p)
  BY <1>6 DEF CrawlFails
<1> QED BY <1>1, <1>2, <1>3, <1>4, <1>5, <1>6 DEF Crawling

LEMMA OthersLeaveLanding ==
  ASSUME [Next]_vars, ~Landing, ~LandFails
  PROVE  landing' = landing /\ dirs' = dirs
<1>1. CASE World
  BY <1>1 DEF World, Change, Publish, Reclassify, Configure, Age, RewriteReport, Regenerate
<1>2. CASE Survey \/ SurveyFails
  BY <1>2 DEF Survey, fetch_environment_metadata, OpenOverview, StreamOverview,
              SaveOverview, UnsteadyScan, SaveReports, SurveyFails
<1>3. CASE \E p \in Crawlers : Crawling(p) \/ ClientFails(p) \/ CrawlFails(p)
  BY <1>3, CrawlersLeaveTheRest
<1>4. CASE StartPrepare \/ PlanPreparation \/ ReadFolders \/ WriteSchema \/ EndPreparation
  BY <1>4 DEF StartPrepare, PlanPreparation, ReadFolders, WriteSchema, EndPreparation
<1>5. CASE (\E ask \in Scans : StartScan(ask)) \/ ScanBreaksOff
  BY <1>5 DEF StartScan, ScanBreaksOff
<1>6. CASE UNCHANGED vars
  BY <1>6 DEF vars
<1> QED
  BY <1>1, <1>2, <1>3, <1>4, <1>5, <1>6
     DEF Next, Trouble, Scanning, Preparing, Landing, Crawlers

\* What is selected for an environment is enabled there: a name that is a segment
\* of a path is that of its folder.
LEMMA SelectedIsEnabled ==
  ASSUME NEW e \in Envs, NEW list, NEW paths, InGroups(paths),
         NEW path \in resolve_target_mappings(e, extract_active_folders(list, e), paths)
  PROVE  /\ path.env = e /\ path.folder \in extract_active_folders(list, e)
         /\ path \in target_folders(list, paths)
<1>1. path \in paths /\ path.env = e
  BY DEF resolve_target_mappings
<1>2. PICK f \in extract_active_folders(list, e) : f \in Segments(path)
  BY DEF resolve_target_mappings
<1>3. f \in Folders /\ list[e][f].val # "off"
  BY <1>2 DEF extract_active_folders
<1>4. f # path.domain
  BY <1>1, <1>3, NamesApart DEF InGroups
<1>5. f = path.folder
  BY <1>2, <1>4 DEF Segments
<1>6. <<e, f>> \in get_active_folders(list)
  BY <1>3 DEF get_active_folders
<1> QED BY <1>1, <1>2, <1>5, <1>6 DEF target_folders

LEMMA SelectionIsKept ==
  ASSUME Shaped, Paths, Selection, Directories, [Next]_vars
  PROVE  Selection' /\ Directories'
<1> USE DEF Shaped, NoLanding
<1>0. InGroups(schema)
  BY DEF Paths, InGroups
<1>1. CASE ~Landing /\ ~LandFails
  <2>1. landing' = landing /\ dirs' = dirs
    BY <1>1, OthersLeaveLanding
  <2> QED BY <2>1 DEF Selection, Directories, Enabled, InGroups
<1>2. CASE LandFails
  BY <1>2 DEF LandFails, Selection, Directories, InGroups
<1>3. CASE LandTree
  BY <1>0, <1>3 DEF LandTree, Selection, Directories, InGroups
<1>4. CASE LandEnvs
  BY <1>4 DEF LandEnvs, Selection, Directories, InGroups
<1>5. ASSUME NEW e \in Envs, LandEnv(e) PROVE Selection' /\ Directories'
  <2>1. /\ landing.pc = "sync" /\ landing'.pc = landing.pc /\ landing'.list = landing.list
        /\ landing'.schema = landing.schema /\ landing'.steady = landing.steady
        /\ landing'.landed = landing.landed /\ landing'.envs \subseteq landing.envs
        /\ landing'.env = e /\ dirs' = dirs
    BY <1>5 DEF LandEnv
  <2>2. landing'.todo = resolve_target_mappings(e, extract_active_folders(landing.list, e),
                                                landing.schema)
    BY <1>5 DEF LandEnv
  <2>3. \A path \in landing'.todo :
            /\ path.env = e /\ path.folder \in extract_active_folders(landing.list, e)
            /\ path \in target_folders(landing.list, landing.schema)
    BY <2>2, SelectedIsEnabled DEF Selection
  <2>4. Selection'
    BY <2>1, <2>3 DEF Selection, Enabled, InGroups
  <2>5. Directories'
    BY <2>1, <2>3 DEF Directories
  <2> QED BY <2>4, <2>5
<1>6. ASSUME NEW path \in landing.todo, LandPath(path) PROVE Selection' /\ Directories'
  <2>1. /\ landing'.pc = landing.pc /\ landing'.list = landing.list /\ landing.pc = "sync"
        /\ landing'.schema = landing.schema /\ landing'.steady = landing.steady
        /\ landing'.envs = landing.envs /\ landing'.env = landing.env /\ dirs' = dirs
        /\ landing'.todo \subseteq landing.todo
        /\ landing'.landed \subseteq
               landing.landed \union {[path |-> path, from |-> landing.env]}
    BY <1>6, LandPathEffect
  <2>2. Selection'
    BY <2>1 DEF Selection, Enabled, InGroups
  <2>3. Directories'
    BY <2>1 DEF Directories
  <2> QED BY <2>2, <2>3
<1>7. CASE LandDone
  BY <1>7 DEF LandDone, Selection, Directories, Enabled, InGroups
<1> QED BY <1>1, <1>2, <1>3, <1>4, <1>5, <1>6, <1>7 DEF Landing

LEMMA SelectionHolds == Spec => [](Selection /\ Directories)
<1>1. Init => Selection /\ Directories
  BY DEF Init, NoLanding, Selection, Directories, InGroups
<1>2. Shaped /\ Paths /\ (Selection /\ Directories) /\ [Next]_vars => (Selection /\ Directories)'
  BY SelectionIsKept
<1> QED BY <1>1, <1>2, PathsHold, PTL DEF Spec

\* Nothing lands below the prefix of one environment from the other, nor a folder
\* its checklist does not enable; for EnvironmentsApart.
THEOREM LandsFromItsEnvironment == Spec => []EnvironmentsApart
<1>1. Selection => EnvironmentsApart
  BY DEF Selection, Enabled, EnvironmentsApart
<1> QED BY <1>1, SelectionHolds, PTL

\* What lands has its directory, unless the checklist was rewritten between the
\* preflight and the selection; for DirectoryFirst.
THEOREM DirectoriesPrecedeFiles == Spec => []DirectoryFirst
<1>1. Directories => DirectoryFirst
  BY DEF Directories, DirectoryFirst
<1> QED BY <1>1, SelectionHolds, PTL

-----------------------------------------------------------------------------
(* The survey and its reports.                                              *)

\* What a survey has found is what its rules make of the items that were listed,
\* and the overview is what it found until its reports are saved.
Outcomes(some) == {Grouped(some, found) : found \in SUBSET Folders}

Findings ==
    /\ rules \in Rules /\ library \in [Envs -> SUBSET Folders]
    /\ DOMAIN survey = DOMAIN NoSurvey /\ survey.rules \in Seq(Publication)
    /\ survey.found \in Seq(Outcomes(survey.rules))
    /\ survey.pc = "off" => survey.found = <<>>
    /\ survey.pc = "saving" => Len(survey.found) = Len(EnvOrder)
    /\ survey.pc = "report" => Len(survey.found) = Len(EnvOrder) /\ overview = Surveyed

LEMMA OthersLeaveFindings ==
  ASSUME [Next]_vars, ~Survey, ~SurveyFails
  PROVE  survey' = survey /\ overview' = overview /\ begun' = begun
<1>1. CASE World
  BY <1>1 DEF World, Change, Publish, Reclassify, Configure, Age, RewriteReport, Regenerate,
              reported
<1>2. CASE Landing \/ LandFails
  BY <1>2 DEF Landing, LandTree, LandEnvs, LandDone, LandEnv, LandPath, LandFails, reported
<1>3. CASE \E p \in Crawlers : Crawling(p) \/ ClientFails(p) \/ CrawlFails(p)
  BY <1>3, CrawlersLeaveTheRest DEF reported
<1>4. CASE StartPrepare \/ PlanPreparation \/ ReadFolders \/ WriteSchema \/ EndPreparation
  BY <1>4 DEF StartPrepare, PlanPreparation, ReadFolders, WriteSchema, EndPreparation, reported
<1>5. CASE (\E ask \in Scans : StartScan(ask)) \/ ScanBreaksOff
  BY <1>5 DEF StartScan, ScanBreaksOff, reported
<1>6. CASE UNCHANGED vars
  BY <1>6 DEF vars, reported
<1> QED
  BY <1>1, <1>2, <1>3, <1>4, <1>5, <1>6
     DEF Next, Trouble, Scanning, Preparing, Crawlers

LEMMA InputsStayInRange ==
  ASSUME rules \in Rules, library \in [Envs -> SUBSET Folders], [Next]_vars
  PROVE  rules' \in Rules /\ library' \in [Envs -> SUBSET Folders]
<1> USE DEF inputs
<1>1. CASE World
  BY <1>1 DEF World, Change, Publish, Reclassify, Configure, Age, RewriteReport, Regenerate
<1>2. CASE Survey \/ SurveyFails
  BY <1>2 DEF Survey, fetch_environment_metadata, OpenOverview, StreamOverview,
              SaveOverview, UnsteadyScan, SaveReports, SurveyFails
<1>3. CASE Landing \/ LandFails
  BY <1>3 DEF Landing, LandTree, LandEnvs, LandDone, LandEnv, LandPath, LandFails
<1>4. CASE \E p \in Crawlers : Crawling(p) \/ ClientFails(p) \/ CrawlFails(p)
  BY <1>4, CrawlersLeaveTheRest
<1>5. CASE StartPrepare \/ PlanPreparation \/ ReadFolders \/ WriteSchema \/ EndPreparation
  BY <1>5 DEF StartPrepare, PlanPreparation, ReadFolders, WriteSchema, EndPreparation
<1>6. CASE (\E ask \in Scans : StartScan(ask)) \/ ScanBreaksOff
  BY <1>6 DEF StartScan, ScanBreaksOff
<1>7. CASE UNCHANGED vars
  BY <1>7 DEF vars
<1> QED
  BY <1>1, <1>2, <1>3, <1>4, <1>5, <1>6, <1>7
     DEF Next, Trouble, Scanning, Preparing, Crawlers

LEMMA FindingsAreKept ==
  ASSUME Findings, [Next]_vars
  PROVE  Findings'
<1> USE DEF NoSurvey
<1>0. /\ rules' \in Rules /\ library' \in [Envs -> SUBSET Folders]
      /\ Rules \subseteq Seq(Publication) /\ FirstRules \in Rules
  BY InputsStayInRange, PreparationConstants DEF Findings, PreparationConstants
<1>1. CASE ~Survey /\ ~SurveyFails
  <2>1. survey' = survey /\ overview' = overview
    BY <1>1, OthersLeaveFindings
  <2> QED BY <1>0, <2>1 DEF Findings, Surveyed
<1>2. CASE SurveyFails \/ SaveReports
  <2>1. survey' = NoSurvey
    BY <1>2 DEF SurveyFails, SaveReports
  <2> QED BY <1>0, <2>1 DEF Findings
<1>3. CASE fetch_environment_metadata
  <2> DEFINE n == Len(survey.found)
             e == EnvOrder[n + 1]
             cached == IF survey.pc = "off" THEN rules ELSE survey.rules
  <2>1. n \in Nat /\ n < Len(EnvOrder) /\ EnvOrder \in Seq(Envs)
    BY <1>3, PreparationConstants
       DEF fetch_environment_metadata, Findings, PreparationConstants
  <2>2. library[e] \in SUBSET Folders
    BY <2>1 DEF Findings
  <2>3. survey' = [pc |-> "listing", rules |-> cached,
                   found |-> Append(survey.found, Grouped(cached, library[e]))]
    BY <1>3 DEF fetch_environment_metadata
  <2>4. cached \in Seq(Publication)
    BY <1>0 DEF Findings
  <2>5. survey.found \in Seq(Outcomes(cached))
    <3>1. <<>> \in Seq(Outcomes(cached))
      OBVIOUS
    <3> QED BY <3>1 DEF Findings
  <2>6. Grouped(cached, library[e]) \in Outcomes(cached)
    BY <2>2 DEF Outcomes
  <2> HIDE DEF cached, e
  <2>7. Append(survey.found, Grouped(cached, library[e])) \in Seq(Outcomes(cached))
    BY <2>5, <2>6
  <2> QED BY <1>0, <2>3, <2>4, <2>7 DEF Findings
<1>4. CASE OpenOverview
  <2>1. survey' = [survey EXCEPT !.pc = "saving"] /\ Len(survey.found) = Len(EnvOrder)
    BY <1>4 DEF OpenOverview
  <2> QED BY <1>0, <2>1 DEF Findings
<1>5. CASE StreamOverview
  <2>1. survey' = survey /\ survey.pc = "saving"
    BY <1>5 DEF StreamOverview
  <2> QED BY <1>0, <2>1 DEF Findings
<1>6. CASE SaveOverview
  <2>1. /\ survey' = [survey EXCEPT !.pc = "report"] /\ overview' = Surveyed
        /\ Len(survey.found) = Len(EnvOrder)
    BY <1>6 DEF SaveOverview, Findings
  <2> QED BY <1>0, <2>1 DEF Findings, Surveyed
<1> QED BY <1>1, <1>2, <1>3, <1>4, <1>5, <1>6 DEF Survey

LEMMA FindingsHold == Spec => []Findings
<1>1. Init => Findings
  BY PreparationConstants DEF Init, NoSurvey, Findings, PreparationConstants
<1>2. Findings /\ [Next]_vars => Findings'
  BY FindingsAreKept
<1> QED BY <1>1, <1>2, PTL DEF Spec

\* What the reports of a survey say is what the overview says; for ReportsAgree.
LEMMA SavedReportsAgree ==
  ASSUME Findings, SaveReports
  PROVE  \A e \in Envs :
            /\ \A f \in reports'.undocumented : overview[e][f] \in {Fallback, NoGroup}
            /\ \A f \in Listed(overview, e) \intersect Exports :
                Fitting(survey.rules, f) # {} => FirstFit(survey.rules, f) \notin reports'.unseen
<1>1. /\ overview = Surveyed /\ Len(survey.found) = Len(EnvOrder)
      /\ survey.found \in Seq(Outcomes(survey.rules)) /\ survey.rules \in Seq(Publication)
      /\ reports'.undocumented = Undocumented(survey.rules, overview)
      /\ reports'.unseen = Unseen(survey.rules, FitsFirst(survey.rules, overview))
  BY DEF Findings, SaveReports
<1> SUFFICES ASSUME NEW e \in Envs
             PROVE  /\ \A f \in reports'.undocumented : overview[e][f] \in {Fallback, NoGroup}
                    /\ \A f \in Listed(overview, e) \intersect Exports :
                        Fitting(survey.rules, f) # {} =>
                            FirstFit(survey.rules, f) \notin reports'.unseen
  OBVIOUS
<1>2. PICK found \in SUBSET Folders : overview[e] = Grouped(survey.rules, found)
  <2>1. /\ EnvOrder \in Seq(Envs) /\ \E i \in DOMAIN EnvOrder : EnvOrder[i] = e
    BY PreparationConstants DEF PreparationConstants
  <2>2. overview[e] = survey.found[CHOOSE i \in DOMAIN EnvOrder : EnvOrder[i] = e]
    BY <1>1 DEF Surveyed
  <2>3. PICK i \in DOMAIN EnvOrder : overview[e] = survey.found[i]
    BY <2>1, <2>2
  <2>4. i \in 1..Len(survey.found)
    BY <1>1, <2>1
  <2>5. survey.found[i] \in Outcomes(survey.rules)
    BY <1>1, <2>4
  <2> QED BY <2>3, <2>5 DEF Outcomes
<1>3. ASSUME NEW f \in reports'.undocumented PROVE overview[e][f] \in {Fallback, NoGroup}
  <2>1. f \in Exports /\ Fitting(survey.rules, f) = {}
    BY <1>1 DEF Undocumented, ActiveFolders
  <2>2. f \in Folders /\ f \notin Legacy
    BY <2>1, CatalogueConstants DEF Folders, CatalogueConstants
  <2> QED BY <1>2, <2>1, <2>2 DEF Grouped, classify_folder
<1>4. ASSUME NEW f \in Listed(overview, e) \intersect Exports, Fitting(survey.rules, f) # {}
      PROVE  FirstFit(survey.rules, f) \notin reports'.unseen
  <2>1. f \in ActiveFolders(overview)
    BY DEF ActiveFolders
  <2>2. FirstFit(survey.rules, f) \in FitsFirst(survey.rules, overview)
    BY <1>4, <2>1 DEF FitsFirst
  <2> QED BY <1>1, <2>2 DEF Unseen
<1> QED BY <1>3, <1>4

\* A step that changes the survey and the reports together saves the reports.
LEMMA OnlySavesReport ==
  ASSUME [Next]_vars, reports' # reports, survey' # survey
  PROVE  SaveReports
<1>1. Survey \/ SurveyFails
  BY OthersLeaveFindings
<1> QED BY <1>1 DEF Survey, fetch_environment_metadata, OpenOverview, StreamOverview,
              SaveOverview, UnsteadyScan, SurveyFails

\* The drift reports of a survey agree with the overview it saved; for
\* ReportsAgree.
THEOREM ReportsMatchTheOverview == Spec => ReportsAgree
<1>1. Findings /\ [Next]_vars =>
        [reports' # reports /\ survey' # survey =>
            \A e \in Envs :
                /\ \A f \in reports'.undocumented : overview[e][f] \in {Fallback, NoGroup}
                /\ \A f \in Listed(overview, e) \intersect Exports :
                    Fitting(survey.rules, f) # {} =>
                        FirstFit(survey.rules, f) \notin reports'.unseen]_vars
  BY OnlySavesReport, SavedReportsAgree
<1> QED BY <1>1, FindingsHold, PTL DEF Spec, ReportsAgree

-----------------------------------------------------------------------------
(* Types.                                                                   *)

\* Only a preparation and the command of its own write the checklist.
LEMMA OthersLeaveChecklist ==
  ASSUME [Next]_vars, ~generate_my_entsoe_domains
  PROVE  checklist' = checklist
<1>1. CASE World
  BY <1>1 DEF World, Change, Publish, Reclassify, Configure, Age, RewriteReport, Regenerate
<1>2. CASE Survey \/ SurveyFails
  BY <1>2 DEF Survey, fetch_environment_metadata, OpenOverview, StreamOverview,
              SaveOverview, UnsteadyScan, SaveReports, SurveyFails
<1>3. CASE Landing \/ LandFails
  BY <1>3 DEF Landing, LandTree, LandEnvs, LandDone, LandEnv, LandPath, LandFails
<1>4. CASE \E p \in Crawlers : Crawling(p) \/ ClientFails(p) \/ CrawlFails(p)
  BY <1>4, CrawlersLeaveTheRest
<1>5. CASE StartPrepare \/ PlanPreparation \/ ReadFolders \/ WriteSchema \/ EndPreparation
  BY <1>5 DEF StartPrepare, PlanPreparation, ReadFolders, WriteSchema, EndPreparation
<1>6. CASE (\E ask \in Scans : StartScan(ask)) \/ ScanBreaksOff
  BY <1>6 DEF StartScan, ScanBreaksOff
<1>7. CASE UNCHANGED vars
  BY <1>7 DEF vars
<1> QED
  BY <1>1, <1>2, <1>3, <1>4, <1>5, <1>6, <1>7
     DEF Next, Trouble, Scanning, Preparing, Crawlers

LEMMA TemplatesStayInRange ==
  ASSUME files \in [Files -> Templates \union {Missing}],
         mode \in [active : {"Default", "Custom", "Other"}, name : Names \union {NoName}],
         [Next]_vars
  PROVE  /\ files' \in [Files -> Templates \union {Missing}]
         /\ mode' \in [active : {"Default", "Custom", "Other"}, name : Names \union {NoName}]
<1> USE DEF inputs
<1>1. CASE World
  BY <1>1 DEF World, Change, Publish, Reclassify, Configure, Age, RewriteReport, Regenerate
<1>2. CASE Survey \/ SurveyFails
  BY <1>2 DEF Survey, fetch_environment_metadata, OpenOverview, StreamOverview,
              SaveOverview, UnsteadyScan, SaveReports, SurveyFails
<1>3. CASE Landing \/ LandFails
  BY <1>3 DEF Landing, LandTree, LandEnvs, LandDone, LandEnv, LandPath, LandFails
<1>4. CASE \E p \in Crawlers : Crawling(p) \/ ClientFails(p) \/ CrawlFails(p)
  BY <1>4, CrawlersLeaveTheRest
<1>5. CASE StartPrepare \/ PlanPreparation \/ ReadFolders \/ WriteSchema \/ EndPreparation
  BY <1>5 DEF StartPrepare, PlanPreparation, ReadFolders, WriteSchema, EndPreparation
<1>6. CASE (\E ask \in Scans : StartScan(ask)) \/ ScanBreaksOff
  BY <1>6 DEF StartScan, ScanBreaksOff
<1>7. CASE UNCHANGED vars
  BY <1>7 DEF vars
<1> QED
  BY <1>1, <1>2, <1>3, <1>4, <1>5, <1>6, <1>7
     DEF Next, Trouble, Scanning, Preparing, Crawlers

LEMMA LeastExists ==
  ASSUME NEW some \in SUBSET Nat, some # {}
  PROVE  \E i \in some : \A j \in some : i <= j
<1>1. IsWellFoundedOn(OpToRel(<, Nat), Nat)
  BY NatLessThanWellFounded, Zenon
<1>2. PICK i \in some : \A j \in some : ~(<<j, i>> \in OpToRel(<, Nat))
  BY <1>1, WFMin, Zenon
<1>3. \A j \in some : ~(j < i)
  BY <1>2, Zenon DEF OpToRel
<1> QED BY <1>3

\* Classification puts every folder in a domain of the configuration.
LEMMA ClassifiedInDomains ==
  ASSUME NEW some \in Seq(Publication), NEW f
  PROVE  classify_folder(some, f) \in Domains
<1>1. CASE Fitting(some, f) = {}
  BY <1>1, CatalogueConstants DEF classify_folder, CatalogueConstants
<1>2. CASE Fitting(some, f) # {}
  <2>1. Fitting(some, f) \in SUBSET Nat
    BY DEF Fitting
  <2>2. FirstFit(some, f) \in Fitting(some, f)
    BY <1>2, <2>1, LeastExists DEF FirstFit
  <2>3. FirstFit(some, f) \in DOMAIN some
    BY <2>2 DEF Fitting
  <2>4. some[FirstFit(some, f)] \in Publication
    BY <2>3
  <2> QED BY <1>2, <2>4 DEF classify_folder, Publication
<1> QED BY <1>1, <1>2

LEMMA SurveyedIsAnOverview ==
  ASSUME Findings, Len(survey.found) = Len(EnvOrder)
  PROVE  Surveyed \in Overview
<1>1. \A found : Grouped(survey.rules, found) \in [Folders -> Groups \union {NoGroup}]
  BY ClassifiedInDomains DEF Grouped, Groups, Findings
<1>2. ASSUME NEW e \in Envs
      PROVE  survey.found[CHOOSE i \in DOMAIN EnvOrder : EnvOrder[i] = e]
                 \in [Folders -> Groups \union {NoGroup}]
  <2>1. EnvOrder \in Seq(Envs) /\ \E i \in DOMAIN EnvOrder : EnvOrder[i] = e
    BY PreparationConstants DEF PreparationConstants
  <2>2. PICK j \in DOMAIN EnvOrder : j = CHOOSE i \in DOMAIN EnvOrder : EnvOrder[i] = e
    BY <2>1
  <2>3. j \in 1..Len(survey.found) /\ survey.found \in Seq(Outcomes(survey.rules))
    BY <2>1 DEF Findings
  <2>4. survey.found[j] \in Outcomes(survey.rules)
    BY <2>3
  <2> QED BY <1>1, <2>2, <2>4 DEF Outcomes
<1> QED BY <1>2 DEF Surveyed, Overview

-----------------------------------------------------------------------------
(* Files, their sources and the counters.                                   *)

FilesTyped ==
    /\ files \in [Files -> Templates \union {Missing}]
    /\ mode \in [active : {"Default", "Custom", "Other"}, name : Names \union {NoName}]
    /\ overview = Missing \/ overview \in Overview
    /\ begun \in 0..Len(Sections)
    /\ reports = [undocumented |-> reports.undocumented, unseen |-> reports.unseen]
    /\ reports.undocumented \subseteq Exports
    /\ checklist = Missing \/ checklist \in Checklist
    /\ survey.pc \in {"off", "listing", "saving", "report"}

LEMMA GeneratedIsAChecklist ==
  ASSUME FilesTyped, generate_my_entsoe_domains
  PROVE  checklist' \in Checklist
<1> DEFINE t == TemplateFile
<1>1. t \in Template /\ t.kind # "unknown"
  <2>1. t \in Templates \union {Missing}
    BY DEF FilesTyped, TemplateFile, Files
  <2> QED BY <2>1, PreparationConstants
          DEF generate_my_entsoe_domains, Compilable, PreparationConstants
<1>2. t.kind = "environments" \/ overview \in Overview
  BY DEF generate_my_entsoe_domains, Compilable, FilesTyped
<1>3. checklist' = build_domains_checklist(t, overview)
  BY DEF generate_my_entsoe_domains
<1> HIDE DEF t
<1>4. CASE t.kind = "environments"
  BY <1>1, <1>3, <1>4 DEF build_domains_checklist, Template
<1>5. CASE t.kind # "environments"
  <2>1. \A e \in Envs, f \in Folders : overview[e][f] \in Groups \union {NoGroup}
    BY <1>2, <1>5 DEF Overview
  <2>2. CASE t.kind = "popular_domains"
    BY <1>3, <2>1, <2>2 DEF build_domains_checklist, build_default, Checklist, Value
  <2>3. CASE t.kind = "selected_domains"
    <3>1. \A g \in Domains, f \in Folders : t.selected[g][f] \in Value
      BY <1>1, <2>3 DEF Template
    <3>2. \A e \in Envs, f \in Folders, g \in Groups \union {NoGroup} :
              build_custom(t, e, g, f) \in Value
      BY <3>1 DEF build_custom, Value
    <3> QED BY <1>3, <2>1, <2>3, <3>2 DEF build_domains_checklist, Checklist
  <2>4. CASE t.kind = "enabled_domains"
    BY <1>3, <2>1, <2>4 DEF build_domains_checklist, build_extended, Checklist, Value
  <2> QED BY <1>1, <1>5, <2>2, <2>3, <2>4 DEF Template
<1> QED BY <1>4, <1>5

LEMMA OthersLeaveReports ==
  ASSUME [Next]_vars, ~SaveReports, ~RewriteReport
  PROVE  reports' = reports
<1> USE DEF reported
<1>1. CASE World
  BY <1>1 DEF World, Change, Publish, Reclassify, Configure, Age, Regenerate
<1>2. CASE Survey \/ SurveyFails
  BY <1>2 DEF Survey, fetch_environment_metadata, OpenOverview, StreamOverview,
              SaveOverview, UnsteadyScan, SurveyFails
<1>3. CASE Landing \/ LandFails
  BY <1>3 DEF Landing, LandTree, LandEnvs, LandDone, LandEnv, LandPath, LandFails
<1>4. CASE \E p \in Crawlers : Crawling(p) \/ ClientFails(p) \/ CrawlFails(p)
  BY <1>4, CrawlersLeaveTheRest
<1>5. CASE StartPrepare \/ PlanPreparation \/ ReadFolders \/ WriteSchema \/ EndPreparation
  BY <1>5 DEF StartPrepare, PlanPreparation, ReadFolders, WriteSchema, EndPreparation
<1>6. CASE (\E ask \in Scans : StartScan(ask)) \/ ScanBreaksOff
  BY <1>6 DEF StartScan, ScanBreaksOff
<1>7. CASE UNCHANGED vars
  BY <1>7 DEF vars
<1> QED
  BY <1>1, <1>2, <1>3, <1>4, <1>5, <1>6, <1>7
     DEF Next, Trouble, Scanning, Preparing, Crawlers

LEMMA SectionsAreCounted == Len(Sections) \in Nat
<1>1. Len(EnvOrder) \in Nat
  BY PreparationConstants DEF PreparationConstants
<1> QED BY <1>1 DEF Sections

LEMMA FilesStayTyped ==
  ASSUME Findings, FilesTyped, [Next]_vars
  PROVE  FilesTyped'
<1>1. /\ files' \in [Files -> Templates \union {Missing}]
      /\ mode' \in [active : {"Default", "Custom", "Other"}, name : Names \union {NoName}]
  BY TemplatesStayInRange DEF FilesTyped
<1>2. checklist' = Missing \/ checklist' \in Checklist
  BY GeneratedIsAChecklist, OthersLeaveChecklist DEF FilesTyped
<1>3. /\ overview' = Missing \/ overview' \in Overview
      /\ begun' \in 0..Len(Sections)
      /\ survey'.pc \in {"off", "listing", "saving", "report"}
  <2>1. CASE ~Survey /\ ~SurveyFails
    BY <2>1, OthersLeaveFindings DEF FilesTyped
  <2>2. CASE fetch_environment_metadata \/ SaveReports \/ SurveyFails
    BY <2>2 DEF fetch_environment_metadata, SaveReports, SurveyFails, NoSurvey, FilesTyped
  <2>3. CASE OpenOverview
    BY <2>3, SectionsAreCounted DEF OpenOverview, Findings, NoSurvey
  <2>4. CASE StreamOverview
    <3>1. Surveyed \in Overview
      BY <2>4, SurveyedIsAnOverview DEF StreamOverview, Findings
    <3>2. \A cut : Streamed(cut) \in Overview
      BY <3>1 DEF Streamed, Overview
    <3>3. \A cut \in Cuts : cut.sections \in 0..Len(Sections)
      BY PreparationConstants DEF PreparationConstants
    <3> QED BY <2>4, <3>2, <3>3 DEF StreamOverview
  <2>5. CASE SaveOverview
    BY <2>5, SurveyedIsAnOverview, SectionsAreCounted DEF SaveOverview, Findings, NoSurvey
  <2> QED BY <2>1, <2>2, <2>3, <2>4, <2>5 DEF Survey
<1>4. /\ reports' = [undocumented |-> reports'.undocumented, unseen |-> reports'.unseen]
      /\ reports'.undocumented \subseteq Exports
  <2>1. \A some, other : Undocumented(some, other) \subseteq Exports
    BY DEF Undocumented, ActiveFolders
  <2>2. CASE SaveReports
    BY <2>1, <2>2 DEF SaveReports
  <2>3. CASE RewriteReport
    BY <2>1, <2>3 DEF RewriteReport, FilesTyped
  <2>4. CASE ~SaveReports /\ ~RewriteReport
    BY <2>4, OthersLeaveReports DEF FilesTyped
  <2> QED BY <2>2, <2>3, <2>4
<1> QED BY <1>1, <1>2, <1>3, <1>4 DEF FilesTyped

-----------------------------------------------------------------------------
(* The tables and the crawlers.                                             *)

CrawlTyped(c) ==
    /\ c.pc \in {"off", "plan", "crawl", "insert", "schema", "write", "sizes"}
    /\ c.round \in 0..Len(Rounds) /\ c.todo \subseteq Folders
    /\ c.skipped \subseteq Keys
    /\ c.pc = "insert" => c.hand \in Keys

TablesTyped ==
    /\ rows \subseteq Path /\ fresh \subseteq {KeyOf(r) : r \in rows}
    /\ sizes \subseteq Keys
    /\ \A p \in Crawlers : CrawlTyped(crawl[p])

\* What most steps do to them.
TablesRest ==
    /\ rows' = rows /\ fresh' \subseteq fresh /\ sizes' = sizes
    /\ \A p \in Crawlers : CrawlTyped(crawl'[p])

LEMMA TablesRested ==
  ASSUME TablesTyped, TablesRest
  PROVE  TablesTyped'
BY DEF TablesTyped, TablesRest

LEMMA Division ==
  ASSUME NEW m \in Nat, NEW n \in Nat, NEW i \in 1..(m * n)
  PROVE  /\ (i - 1) \div n \in Int /\ ((i - 1) \div n) + 1 \in 1..m
         /\ (i - 1) % n \in 0..(n - 1)
         /\ i - 1 = n * ((i - 1) \div n) + ((i - 1) % n)
<1> DEFINE q == (i - 1) \div n
           r == (i - 1) % n
<1>1. m * n \in Nat /\ i >= 1 /\ i <= m * n
  OBVIOUS
<1>2. n > 0
  <2> SUFFICES ASSUME n = 0 PROVE FALSE
    OBVIOUS
  <2>1. m * n = 0
    OBVIOUS
  <2> QED BY <1>1, <2>1
<1>3. q \in Int /\ r \in 0..(n - 1) /\ i - 1 = n * q + r
  BY <1>1, <1>2
<1> HIDE DEF q, r
<1>4. ~(q < 0)
  <2> SUFFICES ASSUME q < 0 PROVE FALSE
    OBVIOUS
  <2>1. n * (q + 1) <= 0
    BY <1>2, <1>3
  <2>2. n * (q + 1) = n * q + n
    BY <1>3
  <2> QED BY <1>1, <1>3, <2>1, <2>2
<1>5. ~(q >= m)
  <2> SUFFICES ASSUME q >= m PROVE FALSE
    OBVIOUS
  <2>1. n * q >= m * n
    BY <1>2, <1>3
  <2> QED BY <1>1, <1>3, <2>1
<1> QED BY <1>3, <1>4, <1>5 DEF q, r

LEMMA RoundsAreTyped ==
  /\ Len(Rounds) \in Nat /\ DOMAIN Rounds = 1..Len(Rounds)
  /\ \A i \in DOMAIN Rounds : Rounds[i].env \in Envs
<1> DEFINE m == Len(EnvOrder)
           n == Len(GroupOrder)
<1>1. EnvOrder \in Seq(Envs) /\ GroupOrder \in Seq(Domains \union Archives)
  BY PreparationConstants DEF PreparationConstants
<1>2. m \in Nat /\ n \in Nat /\ m * n \in Nat
  BY <1>1
<1>3. DOMAIN Rounds = 1..(m * n) /\ Len(Rounds) = m * n
  BY <1>2 DEF Rounds
<1>4. ASSUME NEW i \in DOMAIN Rounds PROVE Rounds[i].env \in Envs
  <2>1. i \in 1..(m * n)
    BY <1>3
  <2>2. ((i - 1) \div n) + 1 \in 1..m
    BY <1>2, <2>1, Division
  <2>3. Rounds[i].env = EnvOrder[((i - 1) \div n) + 1]
    BY <1>3 DEF Rounds
  <2> QED BY <1>1, <2>2, <2>3
<1> QED BY <1>2, <1>3, <1>4

\* Everybody but the crawlers.
LEMMA OthersRestTables ==
  ASSUME Shaped, TablesTyped, [Next]_vars,
         ~EndPreparation, \A p \in Crawlers : ~Crawling(p) /\ ~ClientFails(p)
  PROVE  TablesRest
<1> USE DEF tables
<1>0. \A p \in Crawlers : CrawlTyped(crawl[p])
  BY DEF TablesTyped
<1>1. crawl = [p \in Crawlers |-> crawl[p]] /\ Prepare \in Crawlers /\ Scan \in Crawlers
      /\ \A p \in Crawlers : DOMAIN crawl[p] = DOMAIN Idle
  BY DEF Shaped, Crawlers
<1>2. Len(Rounds) \in Nat
  BY RoundsAreTyped
<1>3. CASE World
  BY <1>0, <1>3 DEF World, Change, Publish, Reclassify, Configure, Age, RewriteReport,
                    Regenerate, TablesRest
<1>4. CASE fetch_environment_metadata \/ SaveReports \/ SurveyFails
  BY <1>0, <1>4 DEF fetch_environment_metadata, SaveReports, SurveyFails, TablesRest
<1>5. CASE OpenOverview \/ StreamOverview \/ SaveOverview
  <2>1. rows' = rows /\ fresh' = fresh /\ sizes' = sizes /\ UnsteadyScan
    BY <1>5 DEF OpenOverview, StreamOverview, SaveOverview
  <2> QED BY <1>0, <2>1, UnsteadyScanEffect DEF TablesRest, CrawlTyped
<1>6. CASE Landing \/ LandFails
  BY <1>0, <1>6 DEF Landing, LandTree, LandEnvs, LandDone, LandEnv, LandPath, LandFails,
                    TablesRest
<1>7. CASE \E p \in Crawlers : CrawlFails(p)
  BY <1>0, <1>1, <1>2, <1>7 DEF CrawlFails, TablesRest, CrawlTyped, Idle
<1>8. CASE StartPrepare \/ PlanPreparation
  BY <1>0, <1>1, <1>2, <1>8 DEF StartPrepare, PlanPreparation, TablesRest, CrawlTyped, Idle
<1>9. CASE ReadFolders \/ WriteSchema
  BY <1>0, <1>1, <1>2, <1>9 DEF ReadFolders, WriteSchema, TablesRest, CrawlTyped, Idle
<1>10. CASE (\E ask \in Scans : StartScan(ask)) \/ ScanBreaksOff
  <2>1. rows' = rows /\ fresh' = fresh /\ sizes' = sizes
    BY <1>10 DEF StartScan, ScanBreaksOff
  <2>2. CrawlTyped(crawl'[Scan])
    BY <1>2, <1>10, ScanEffect DEF CrawlTyped
  <2> QED BY <1>0, <1>10, <2>1, <2>2, ScanEffect DEF TablesRest
<1>11. CASE UNCHANGED vars
  BY <1>0, <1>11 DEF vars, TablesRest
<1> QED
  BY <1>1, <1>3, <1>4, <1>5, <1>6, <1>7, <1>8, <1>9, <1>10, <1>11
     DEF Next, Trouble, Survey, Scanning, Preparing

LEMMA BeginningsAreTyped ==
  ASSUME NEW p, NEW i, NEW b \in Beginnings(p, i)
  PROVE  b.todo \subseteq Folders
<1>1. \A a, e : ArchiveFolders(e, a) \subseteq Folders
  BY DEF ArchiveFolders, get_legacy_archive_folders, Listed
<1>2. \A some, d, e : get_domain_folders(some, d, e) \subseteq Folders
  BY DEF get_domain_folders, Folders
<1>3. Selected(i) \subseteq Folders
  BY <1>1 DEF Selected, Folders
<1>4. \A folders \in SUBSET Folders : \A scanned, recent, force :
          \A some \in filter_fresh_folders(folders, scanned, recent, force) :
              some \subseteq Folders
  BY DEF filter_fresh_folders
<1>5. CASE p = Prepare
  BY <1>3, <1>5 DEF Beginnings
<1>6. CASE p # Prepare /\ Rounds[i].group \in Domains
  BY <1>2, <1>4, <1>6 DEF Beginnings
<1>7. CASE p # Prepare /\ Rounds[i].group \notin Domains
  <2>1. PICK some : b.todo = some \intersect ArchiveFolders(Rounds[i].env, Rounds[i].group)
    BY <1>7 DEF Beginnings
  <2> QED BY <1>1, <2>1
<1> QED BY <1>5, <1>6, <1>7

LEMMA CrawlersStayTyped ==
  ASSUME Shaped, Paths, TablesTyped, NEW p \in Crawlers,
         \/ NextGroup(p) \/ EndCrawl(p) \/ ClientFails(p) \/ InsertRow(p)
         \/ \E f \in crawl[p].todo : CrawlFolder(p, f)
  PROVE  TablesTyped'
<1> USE DEF tables
<1> DEFINE c == crawl[p]
           d == crawl'[p]
<1>1. /\ crawl = [q \in Crawlers |-> crawl[q]] /\ DOMAIN c = DOMAIN Idle
      /\ Len(Rounds) \in Nat /\ DOMAIN Rounds = 1..Len(Rounds)
      /\ \A i \in DOMAIN Rounds : Rounds[i].env \in Envs
      /\ \A q \in Crawlers : CrawlTyped(crawl[q])
      /\ Sound(c)
  BY RoundsAreTyped DEF Shaped, TablesTyped, Paths
<1>2. \A q \in Crawlers \ {p} : crawl'[q] = crawl[q]
  <2>1. CASE NextGroup(p)
    BY <1>1, <2>1 DEF NextGroup
  <2>2. CASE EndCrawl(p) \/ ClientFails(p)
    BY <1>1, <2>2 DEF EndCrawl, ClientFails
  <2>3. CASE InsertRow(p)
    BY <1>1, <2>3 DEF InsertRow
  <2>4. CASE \E f \in crawl[p].todo : CrawlFolder(p, f)
    BY <1>1, <2>4 DEF CrawlFolder
  <2> QED BY <2>1, <2>2, <2>3, <2>4
<1>3. c.todo # {} \/ c.pc = "insert" => Round(p).env \in Envs
  BY <1>1 DEF Sound, Round
<1>4. CASE NextGroup(p)
  <2>1. PICK i \in Upcoming(p) : \E b \in Beginnings(p, i) :
            crawl' = [crawl EXCEPT ![p].round = i, ![p].todo = b.todo, ![p].plan = b.plan]
    BY <1>4 DEF NextGroup
  <2>2. PICK b \in Beginnings(p, i) :
            crawl' = [crawl EXCEPT ![p].round = i, ![p].todo = b.todo, ![p].plan = b.plan]
    BY <2>1
  <2>3. /\ d.pc = c.pc /\ d.round = i /\ d.todo = b.todo /\ d.skipped = c.skipped
        /\ d.hand = c.hand
    BY <1>1, <2>2 DEF Idle
  <2>4. i \in 1..Len(Rounds) /\ b.todo \subseteq Folders
    BY <1>1, BeginningsAreTyped DEF Upcoming, Rest
  <2>5. CrawlTyped(d)
    BY <1>1, <2>3, <2>4 DEF CrawlTyped
  <2>6. rows' = rows /\ fresh' = fresh /\ sizes' = sizes
    BY <1>4 DEF NextGroup
  <2> QED BY <1>1, <1>2, <2>5, <2>6, TablesRested DEF TablesRest
<1>5. CASE EndCrawl(p)
  <2>1. rows' = rows /\ fresh' = fresh /\ sizes' = sizes
    BY <1>5 DEF EndCrawl
  <2>2. CrawlTyped(d)
    BY <1>1, <1>5 DEF EndCrawl, Idle, CrawlTyped
  <2> QED BY <1>1, <1>2, <2>1, <2>2, TablesRested DEF TablesRest
<1>6. CASE ClientFails(p)
  <2>1. rows' = rows /\ fresh' = fresh /\ sizes' = sizes /\ c.pc = "crawl" /\ c.todo # {}
    BY <1>6 DEF ClientFails
  <2>2. d.pc = c.pc /\ d.round = c.round /\ d.todo = {}
        /\ d.skipped = c.skipped \union Skip(p, c.todo)
    BY <1>1, <1>6 DEF ClientFails, Idle
  <2>3. Skip(p, c.todo) \subseteq Keys
    BY <1>1, <1>3, <2>1 DEF Skip, Key, Keys, CrawlTyped
  <2>4. CrawlTyped(d)
    BY <1>1, <2>1, <2>2, <2>3 DEF CrawlTyped
  <2> QED BY <1>1, <1>2, <2>1, <2>4, TablesRested DEF TablesRest
<1>7. CASE InsertRow(p)
  <2>1. c.pc = "insert" /\ c.hand \in Keys /\ sizes' = sizes
    BY <1>1, <1>7 DEF InsertRow, CrawlTyped
  <2>2. CASE c.hand \in {KeyOf(r) : r \in rows}
    <3>1. d.pc = "off" /\ d.round = 0 /\ d.todo = {} /\ d.skipped = {}
          /\ rows' = rows /\ fresh' = fresh
      BY <1>1, <1>7, <2>2 DEF InsertRow, Idle
    <3>2. CrawlTyped(d)
      BY <1>1, <3>1 DEF CrawlTyped
    <3> QED BY <1>1, <1>2, <2>1, <3>1, <3>2, TablesRested DEF TablesRest
  <2>3. CASE c.hand \notin {KeyOf(r) : r \in rows}
    <3> DEFINE r == [env |-> c.hand.env, domain |-> Round(p).group, folder |-> c.hand.folder]
    <3>1. /\ d.pc = "crawl" /\ d.round = c.round /\ d.todo = c.todo /\ d.skipped = c.skipped
          /\ rows' = rows \union {r} /\ fresh' = fresh \union {c.hand}
      BY <1>1, <1>7, <2>3 DEF InsertRow, Idle
    <3>2. Round(p).group \in Domains \union Archives
      BY <1>1, <2>1, GroupsOfRounds DEF Sound, Round
    <3>3. r \in Path /\ KeyOf(r) = c.hand
      BY <2>1, <3>2 DEF Path, Keys, KeyOf, Key
    <3>4. CrawlTyped(d)
      BY <1>1, <3>1 DEF CrawlTyped
    <3> HIDE DEF r
    <3>5. rows' \subseteq Path /\ fresh' \subseteq {KeyOf(s) : s \in rows'}
      BY <3>1, <3>3 DEF TablesTyped
    <3> QED BY <1>1, <1>2, <2>1, <3>4, <3>5 DEF TablesTyped
  <2> QED BY <2>2, <2>3
<1>8. ASSUME NEW f \in c.todo, CrawlFolder(p, f) PROVE TablesTyped'
  <2> DEFINE at == Key(Round(p).env, f)
  <2>1. at \in Keys
    BY <1>1, <1>3 DEF Key, Keys, CrawlTyped
  <2>2. rows' = rows /\ sizes' = sizes /\ c.pc = "crawl"
    BY <1>8 DEF CrawlFolder
  <2>3. fresh' = fresh \/ (fresh' = fresh \union {at} /\ at \in {KeyOf(r) : r \in rows})
    BY <1>8 DEF CrawlFolder
  <2>4. \/ crawl' = [crawl EXCEPT ![p].todo = @ \ {f}]
        \/ crawl' = [crawl EXCEPT ![p].pc = "insert", ![p].todo = @ \ {f}, ![p].hand = at]
        \/ crawl' = [crawl EXCEPT ![p].todo = @ \ {f}, ![p].skipped = @ \union {at}]
    BY <1>8 DEF CrawlFolder
  <2> HIDE DEF at
  <2>5. CrawlTyped(d)
    <3>1. CASE crawl' = [crawl EXCEPT ![p].todo = @ \ {f}]
      BY <1>1, <2>2, <3>1 DEF CrawlTyped, Idle
    <3>2. CASE crawl' = [crawl EXCEPT ![p].pc = "insert", ![p].todo = @ \ {f}, ![p].hand = at]
      BY <1>1, <2>1, <2>2, <3>2 DEF CrawlTyped, Idle
    <3>3. CASE crawl' = [crawl EXCEPT ![p].todo = @ \ {f}, ![p].skipped = @ \union {at}]
      BY <1>1, <2>1, <2>2, <3>3 DEF CrawlTyped, Idle
    <3> QED BY <2>4, <3>1, <3>2, <3>3
  <2> QED BY <1>1, <1>2, <2>2, <2>3, <2>5 DEF TablesTyped
<1> QED BY <1>4, <1>5, <1>6, <1>7, <1>8

LEMMA TablesStayTyped ==
  ASSUME Shaped, Paths, TablesTyped, [Next]_vars
  PROVE  TablesTyped'
<1>1. CASE EndPreparation
  <2>1. rows' = rows /\ fresh' = fresh /\ sizes' = {KeyOf(r) : r \in rows}
    BY <1>1 DEF EndPreparation, tables, ingest_all_catalog_sizes
  <2>2. sizes' \subseteq Keys
    BY <2>1 DEF TablesTyped, Path, KeyOf, Key, Keys
  <2>3. \A p \in Crawlers : CrawlTyped(crawl'[p])
    BY <1>1, RoundsAreTyped DEF EndPreparation, Shaped, Crawlers, Idle, CrawlTyped, TablesTyped
  <2> QED BY <2>1, <2>2, <2>3 DEF TablesTyped
<1>2. CASE \E p \in Crawlers : Crawling(p) \/ ClientFails(p)
  <2>1. PICK p \in Crawlers : Crawling(p) \/ ClientFails(p)
    BY <1>2
  <2> QED BY <2>1, CrawlersStayTyped DEF Crawling
<1>3. CASE ~EndPreparation /\ \A p \in Crawlers : ~Crawling(p) /\ ~ClientFails(p)
  BY <1>3, OthersRestTables, TablesRested
<1> QED BY <1>1, <1>2, <1>3

-----------------------------------------------------------------------------
(* The landing run.                                                         *)

LandingTyped ==
    /\ landing.pc \in {"off", "envs", "sync", "done"}
    /\ landing.schema \subseteq Path /\ landing.todo \subseteq Path
    /\ landing.todo # {} => landing.env \in Envs
    /\ landing.landed \subseteq [path : Path, from : Envs]
    /\ dirs \subseteq Path /\ ready.missed \subseteq Keys

LEMMA OthersLeaveReady ==
  ASSUME [Next]_vars, ~WriteSchema
  PROVE  ready' = ready
<1>1. CASE World
  BY <1>1 DEF World, Change, Publish, Reclassify, Configure, Age, RewriteReport, Regenerate
<1>2. CASE Survey \/ SurveyFails
  BY <1>2 DEF Survey, fetch_environment_metadata, OpenOverview, StreamOverview,
              SaveOverview, UnsteadyScan, SaveReports, SurveyFails
<1>3. CASE Landing \/ LandFails
  BY <1>3 DEF Landing, LandTree, LandEnvs, LandDone, LandEnv, LandPath, LandFails
<1>4. CASE \E p \in Crawlers : Crawling(p) \/ ClientFails(p) \/ CrawlFails(p)
  BY <1>4, CrawlersLeaveTheRest
<1>5. CASE StartPrepare \/ PlanPreparation \/ ReadFolders \/ EndPreparation
  BY <1>5 DEF StartPrepare, PlanPreparation, ReadFolders, EndPreparation
<1>6. CASE (\E ask \in Scans : StartScan(ask)) \/ ScanBreaksOff
  BY <1>6 DEF StartScan, ScanBreaksOff
<1>7. CASE UNCHANGED vars
  BY <1>7 DEF vars
<1> QED
  BY <1>1, <1>2, <1>3, <1>4, <1>5, <1>6, <1>7
     DEF Next, Trouble, Scanning, Preparing, Crawlers

LEMMA LandingStaysTyped ==
  ASSUME Shaped, Paths, TablesTyped, LandingTyped, [Next]_vars
  PROVE  LandingTyped'
<1> USE DEF Shaped, NoLanding
<1>0. ready'.missed \subseteq Keys
  <2>1. CASE WriteSchema
    BY <2>1 DEF WriteSchema, TablesTyped, CrawlTyped, Crawlers
  <2> QED BY <2>1, OthersLeaveReady DEF LandingTyped
<1>1. schema \subseteq Path /\ \A list, paths : target_folders(list, paths) \subseteq paths
  BY DEF Paths, TablesTyped, target_folders
<1>2. CASE ~Landing /\ ~LandFails
  BY <1>0, <1>2, OthersLeaveLanding DEF LandingTyped
<1>3. CASE LandTree
  <2>1. /\ landing'.pc = "envs" /\ landing'.schema = schema /\ landing'.todo = {}
        /\ landing'.landed = {} /\ dirs' = dirs \union target_folders(checklist, schema)
    BY <1>3 DEF LandTree
  <2> QED BY <1>0, <1>1, <2>1 DEF LandingTyped
<1>4. ASSUME NEW e \in Envs, LandEnv(e) PROVE LandingTyped'
  <2>1. \A active, paths : resolve_target_mappings(e, active, paths) \subseteq paths
    BY DEF resolve_target_mappings
  <2> QED BY <1>0, <1>4, <2>1 DEF LandEnv, LandingTyped
<1>5. ASSUME NEW path \in landing.todo, LandPath(path) PROVE LandingTyped'
  <2>1. /\ landing'.pc = landing.pc /\ landing'.schema = landing.schema
        /\ landing'.env = landing.env /\ dirs' = dirs
        /\ landing'.todo \subseteq landing.todo
        /\ landing'.landed \subseteq
               landing.landed \union {[path |-> path, from |-> landing.env]}
    BY <1>5, LandPathEffect
  <2>2. [path |-> path, from |-> landing.env] \in [path : Path, from : Envs]
    BY DEF LandingTyped
  <2> QED BY <1>0, <2>1, <2>2 DEF LandingTyped
<1>6. CASE LandEnvs
  BY <1>0, <1>6 DEF LandEnvs, LandingTyped
<1>7. CASE LandDone
  BY <1>0, <1>7 DEF LandDone, LandingTyped
<1>8. CASE LandFails
  BY <1>0, <1>8 DEF LandFails, LandingTyped
<1> QED BY <1>2, <1>3, <1>4, <1>5, <1>6, <1>7, <1>8 DEF Landing

-----------------------------------------------------------------------------
(* The counters.                                                            *)

Counted == faults \in 0..MaxFaults /\ changes \in 0..MaxChanges

LEMMA CountersStayBounded ==
  ASSUME Counted, [Next]_vars
  PROVE  Counted'
<1> USE PreparationConstants DEF PreparationConstants, Counted, bounds
<1>1. CASE World
  <2>1. faults' = faults /\ changes < MaxChanges /\ changes' = changes + 1
    BY <1>1 DEF World, Change, Publish, Reclassify, Configure, Age, RewriteReport, Regenerate
  <2> QED BY <2>1
<1>2. CASE Survey
  BY <1>2 DEF Survey, fetch_environment_metadata, OpenOverview, StreamOverview,
              SaveOverview, UnsteadyScan, SaveReports
<1>3. CASE SurveyFails \/ LandFails
  BY <1>3 DEF SurveyFails, LandFails
<1>4. CASE LandTree \/ LandEnvs \/ LandDone \/ \E e \in Envs : LandEnv(e)
  BY <1>4 DEF LandTree, LandEnvs, LandDone, LandEnv
<1>5. CASE \E path \in landing.todo : LandPath(path)
  <2>1. changes' = changes /\ (faults' = faults \/ (faults < MaxFaults /\ faults' = faults + 1))
    BY <1>5 DEF LandPath
  <2> QED BY <2>1
<1>6. CASE \E p \in Crawlers : NextGroup(p) \/ EndCrawl(p) \/ InsertRow(p)
  BY <1>6 DEF NextGroup, EndCrawl, InsertRow
<1>7. CASE \E p \in Crawlers : ClientFails(p) \/ CrawlFails(p)
  BY <1>7 DEF ClientFails, CrawlFails
<1>8. CASE \E p \in Crawlers : \E f \in crawl[p].todo : CrawlFolder(p, f)
  <2>1. changes' = changes /\ (faults' = faults \/ (faults < MaxFaults /\ faults' = faults + 1))
    BY <1>8 DEF CrawlFolder
  <2> QED BY <2>1
<1>9. CASE StartPrepare \/ PlanPreparation \/ ReadFolders \/ WriteSchema \/ EndPreparation
  BY <1>9 DEF StartPrepare, PlanPreparation, ReadFolders, WriteSchema, EndPreparation
<1>10. CASE (\E ask \in Scans : StartScan(ask)) \/ ScanBreaksOff
  <2>1. faults' = faults /\ (changes' = changes \/ (changes < MaxChanges /\ changes' = changes + 1))
    BY <1>10 DEF StartScan, ScanBreaksOff
  <2> QED BY <2>1
<1>11. CASE UNCHANGED vars
  BY <1>11 DEF vars
<1> QED
  BY <1>1, <1>2, <1>3, <1>4, <1>5, <1>6, <1>7, <1>8, <1>9, <1>10, <1>11
     DEF Next, Trouble, Scanning, Preparing, Landing, Crawling, Crawlers

Typed == FilesTyped /\ TablesTyped /\ LandingTyped /\ Counted

\* Every variable keeps its type, and the table of folders has one row for a folder,
\* whatever runs side by side; for TypeOK.
THEOREM TypeCorrect == Spec => []TypeOK
<1>1. Init => Typed
  <2> SUFFICES ASSUME Init PROVE Typed
    OBVIOUS
  <2>1. FilesTyped
    BY PreparationConstants DEF Init, FilesTyped, NoSurvey, PreparationConstants
  <2>2. TablesTyped
    BY RoundsAreTyped DEF Init, TablesTyped, CrawlTyped, Idle, Crawlers
  <2>3. LandingTyped
    BY DEF Init, LandingTyped, NoLanding
  <2>4. Counted
    BY PreparationConstants DEF Init, Counted, PreparationConstants
  <2> QED BY <2>1, <2>2, <2>3, <2>4 DEF Typed
<1>2. Shaped /\ Paths /\ Findings /\ Typed /\ [Next]_vars => Typed'
  BY FilesStayTyped, TablesStayTyped, LandingStaysTyped, CountersStayBounded DEF Typed
<1>3. Paths /\ Findings /\ Typed => TypeOK
  BY DEF Paths, OneRow, Findings, Typed, FilesTyped, TablesTyped, CrawlTyped, LandingTyped,
         Counted, TypeOK
<1> QED BY <1>1, <1>2, <1>3, PathsHold, FindingsHold, PTL DEF Spec
=============================================================================
