---------------------------- MODULE CoverageProofs ----------------------------
(***************************************************************************)
(* The theorems Preparation is for: nothing that should be crawled or      *)
(* landed falls through.                                                   *)
(*                                                                         *)
(* A landing run that follows a preparation of the same checklist lists    *)
(* every folder of TP_export that the checklist enables, whatever else     *)
(* surveys, crawls, is edited or fails meanwhile.  The argument follows a  *)
(* folder through the preparation: it is in a round still ahead, in the    *)
(* group at hand, about to be inserted, crawled, or skipped; when the      *)
(* rounds are through, in the table of folders or skipped; then in what    *)
(* was read of it; then in the schema.  In the landing run: in an          *)
(* environment still ahead, among its paths, or landed.                    *)
(*                                                                         *)
(* A full crawl that meets no failure, and during which no survey writes   *)
(* overview.yml, leaves no folder of the overview without a row; for       *)
(* legacy folders the argument also keeps that those found stale before    *)
(* the first archive stay planned for the others.                          *)
(***************************************************************************)
EXTENDS PreparationProofs

\* What a checklist wants of TP_export, and what folders some paths are of.
Wanted(list) == {k \in Keys : k.folder \in Exports \intersect ToCrawl(list, k.env)}
Have(paths) == {KeyOf(r) : r \in paths}

LEMMA HaveMore ==
  ASSUME NEW some, NEW more, some \subseteq more
  PROVE  Have(some) \subseteq Have(more)
BY DEF Have

\* Each group of each environment has a round.
LEMMA EachGroupHasARound ==
  ASSUME NEW e \in Envs, NEW g \in Domains \union Archives
  PROVE  \E i \in DOMAIN Rounds : Rounds[i].env = e /\ Rounds[i].group = g
<1> DEFINE m == Len(EnvOrder)
           n == Len(GroupOrder)
<1>1. /\ EnvOrder \in Seq(Envs) /\ GroupOrder \in Seq(Domains \union Archives)
      /\ \E i \in DOMAIN EnvOrder : EnvOrder[i] = e
      /\ \E i \in DOMAIN GroupOrder : GroupOrder[i] = g
  BY PreparationConstants DEF PreparationConstants
<1>2. m \in Nat /\ n \in Nat /\ DOMAIN EnvOrder = 1..m /\ DOMAIN GroupOrder = 1..n
  BY <1>1
<1>3. PICK x \in 1..m : EnvOrder[x] = e
  BY <1>1, <1>2
<1>4. PICK y \in 1..n : GroupOrder[y] = g
  BY <1>1, <1>2
<1> DEFINE i == (x - 1) * n + y
<1>5. i \in Int /\ (x - 1) * n \in Nat
  BY <1>2
<1>6. (x - 1) * n <= (m - 1) * n
  BY <1>2
<1>7. (m - 1) * n + n = m * n
  BY <1>2
<1>8. i \in 1..(m * n)
  BY <1>2, <1>5, <1>6, <1>7
<1>9. (i - 1) \div n = x - 1 /\ (i - 1) % n = y - 1
  <2> DEFINE q == (i - 1) \div n
             r == (i - 1) % n
  <2>1. n > 0 /\ i - 1 \in Int
    BY <1>2, <1>5
  <2>2. q \in Int /\ r \in 0..(n - 1) /\ i - 1 = n * q + r
    BY <1>2, <2>1
  <2>3. (x - 1) * n + (y - 1) = n * q + r
    BY <1>2, <1>5, <2>2
  <2> HIDE DEF i, q, r, n, m
  <2>4. ~(q > x - 1)
    <3> SUFFICES ASSUME q > x - 1 PROVE FALSE
      OBVIOUS
    <3>1. n * q >= n * x
      BY <1>2, <2>1, <2>2
    <3>2. n * x = (x - 1) * n + n
      BY <1>2
    <3> QED BY <1>2, <1>5, <2>2, <2>3, <3>1, <3>2
  <2>5. ~(q < x - 1)
    <3> SUFFICES ASSUME q < x - 1 PROVE FALSE
      OBVIOUS
    <3>1. n * (q + 1) <= (x - 1) * n
      BY <1>2, <2>1, <2>2
    <3>2. n * (q + 1) = n * q + n
      BY <1>2, <2>2
    <3> QED BY <1>2, <1>5, <2>2, <2>3, <3>1, <3>2
  <2>6. q = x - 1
    BY <2>2, <2>4, <2>5
  <2>7. n * q = (x - 1) * n
    BY <1>2, <2>6
  <2> QED BY <1>2, <1>5, <2>2, <2>3, <2>6, <2>7 DEF q, r
<1>10. Rounds[i] = [env |-> EnvOrder[((i - 1) \div n) + 1], group |-> GroupOrder[((i - 1) % n) + 1]]
  BY <1>8 DEF Rounds
<1>11. ((i - 1) \div n) + 1 = x /\ ((i - 1) % n) + 1 = y
  BY <1>9
<1>12. i \in DOMAIN Rounds
  BY <1>8 DEF Rounds
<1> QED BY <1>3, <1>4, <1>10, <1>11, <1>12

-----------------------------------------------------------------------------
(* Checklists are compiled from templates and overviews.                    *)

Compiled ==
    /\ files \in [Files -> Templates \union {Missing}]
    /\ mode \in [active : {"Default", "Custom", "Other"}, name : Names \union {NoName}]
    /\ checklist # Missing => InDomains(checklist)

\* Whatever the overview says, what is compiled wants folders of domains only.
LEMMA CompiledInDomains ==
  ASSUME NEW t \in Template, t.kind # "unknown", NEW some
  PROVE  InDomains(build_domains_checklist(t, some))
<1>1. CASE t.kind = "environments"
  BY <1>1 DEF build_domains_checklist, Template
<1>2. CASE t.kind = "popular_domains"
  BY <1>2, CatalogueConstants
     DEF build_domains_checklist, build_default, InDomains, Folders, CatalogueConstants
<1>3. CASE t.kind = "selected_domains"
  BY <1>3, CatalogueConstants
     DEF build_domains_checklist, build_custom, InDomains, Folders, CatalogueConstants
<1>4. CASE t.kind = "enabled_domains"
  <2>1. t.domains \subseteq Domains /\ t.legacy \intersect Exports = {}
    BY <1>4, CatalogueConstants DEF Template, CatalogueConstants
  <2> QED BY <1>4, <2>1 DEF build_domains_checklist, build_extended, InDomains, Folders
<1> QED BY <1>1, <1>2, <1>3, <1>4 DEF Template

LEMMA GeneratedInDomains ==
  ASSUME Compiled, generate_my_entsoe_domains
  PROVE  InDomains(checklist')
<1>1. TemplateFile \in Templates \union {Missing}
  BY DEF Compiled, TemplateFile, Files
<1>2. TemplateFile \in Template /\ TemplateFile.kind # "unknown"
  BY <1>1, PreparationConstants
     DEF generate_my_entsoe_domains, Compilable, PreparationConstants
<1> QED BY <1>2, CompiledInDomains DEF generate_my_entsoe_domains

LEMMA CompiledIsKept ==
  ASSUME Compiled, [Next]_vars
  PROVE  Compiled'
<1>1. CASE generate_my_entsoe_domains
  BY <1>1, GeneratedInDomains, TemplatesStayInRange DEF Compiled
<1>2. CASE ~generate_my_entsoe_domains
  BY <1>2, OthersLeaveChecklist, TemplatesStayInRange DEF Compiled, InDomains
<1> QED BY <1>1, <1>2

-----------------------------------------------------------------------------
(* The preparation.                                                         *)

\* A folder is in the group at hand, or in a group that is still ahead.
InHand(k) ==
    \/ k.env = Round(Prepare).env /\ k.folder \in crawl[Prepare].todo
    \/ crawl[Prepare].pc = "insert" /\ k = crawl[Prepare].hand
Ahead(k) ==
    \E i \in DOMAIN Rounds :
        /\ i > crawl[Prepare].round /\ Rounds[i].env = k.env
        /\ Rounds[i].group = crawl[Prepare].list[k.env][k.folder].group

Done(k) == k \in crawl[Prepare].skipped \union Have(rows)

Prepared ==
    LET c == crawl[Prepare] IN
    /\ c.pc = "plan" => c.round = 0 /\ c.todo = {} /\ InDomains(checklist)
    /\ c.pc \in {"crawl", "insert"} =>
            /\ InDomains(c.list) /\ c.plan = [e \in Envs |-> ToCrawl(c.list, e)]
            /\ c.round \in Nat
            /\ \A k \in Wanted(c.list) : Done(k) \/ InHand(k) \/ Ahead(k)
    /\ c.pc = "schema" => Wanted(c.list) \subseteq c.skipped \union Have(rows)
    /\ c.pc = "write" => Wanted(c.list) \subseteq c.skipped \union Have(c.snapshot)
    /\ ready.list # Missing => Wanted(ready.list) \subseteq ready.missed \union Have(schema)

\* A crawl is prepared while everything it wants is done, in hand or ahead.
LEMMA CrawlIsPrepared ==
  ASSUME Prepared, schema' = schema, ready' = ready,
         NEW list, InDomains(list),
         crawl'[Prepare].pc \in {"crawl", "insert"}, crawl'[Prepare].list = list,
         crawl'[Prepare].plan = [e \in Envs |-> ToCrawl(list, e)],
         crawl'[Prepare].round \in Nat,
         \A k \in Wanted(list) : Done(k)' \/ InHand(k)' \/ Ahead(k)'
  PROVE  Prepared'
<1>1. ready.list # Missing => Wanted(ready.list) \subseteq ready.missed \union Have(schema)
  BY DEF Prepared
<1>2. (ready.list # Missing => Wanted(ready.list) \subseteq ready.missed \union Have(schema))'
  BY <1>1 DEF Wanted, ToCrawl, Have
<1> QED BY <1>2 DEF Prepared, InDomains, Wanted, ToCrawl

\* The preparation rests; nobody takes rows or paths away.
Rests ==
    /\ crawl'[Prepare] = crawl[Prepare] /\ ready' = ready
    /\ rows \subseteq rows' /\ schema \subseteq schema'

LEMMA OthersLetItRest ==
  ASSUME Shaped, Paths, [Next]_vars,
         ~Preparing, ~ClientFails(Prepare), ~CrawlFails(Prepare)
  PROVE  Rests
<1> USE DEF tables
<1>0. Prepare # Scan /\ Prepare \in Crawlers /\ crawl = [p \in Crawlers |-> crawl[p]]
      /\ schema \subseteq schema'
  BY PreparationConstants, PathsAreKept DEF PreparationConstants, Crawlers, Shaped
<1>1. CASE World
  BY <1>1 DEF World, Change, Publish, Reclassify, Configure, Age, RewriteReport, Regenerate,
              Rests
<1>2. CASE fetch_environment_metadata \/ SaveReports \/ SurveyFails
  BY <1>2 DEF fetch_environment_metadata, SaveReports, SurveyFails, Rests
<1>3. CASE OpenOverview \/ StreamOverview \/ SaveOverview
  <2>1. rows' = rows /\ ready' = ready /\ UnsteadyScan
    BY <1>3 DEF OpenOverview, StreamOverview, SaveOverview
  <2> QED BY <1>0, <2>1 DEF UnsteadyScan, Rests
<1>4. CASE Landing \/ LandFails
  BY <1>4 DEF Landing, LandTree, LandEnvs, LandDone, LandEnv, LandPath, LandFails, Rests
<1>5. CASE NextGroup(Scan) \/ EndCrawl(Scan) \/ ClientFails(Scan) \/ CrawlFails(Scan)
  BY <1>0, <1>5 DEF NextGroup, EndCrawl, ClientFails, CrawlFails, Rests
<1>6. CASE InsertRow(Scan)
  BY <1>0, <1>6 DEF InsertRow, Rests
<1>7. CASE \E f \in crawl[Scan].todo : CrawlFolder(Scan, f)
  BY <1>0, <1>7 DEF CrawlFolder, Rests
<1>8. CASE (\E ask \in Scans : StartScan(ask)) \/ ScanBreaksOff
  <2>1. crawl'[Prepare] = crawl[Prepare]
    BY <1>0, <1>8, ScanEffect
  <2>2. rows' = rows /\ ready' = ready
    BY <1>8 DEF StartScan, ScanBreaksOff
  <2> QED BY <1>0, <2>1, <2>2 DEF Rests
<1>9. CASE UNCHANGED vars
  BY <1>9 DEF vars, Rests
<1> QED
  BY <1>1, <1>2, <1>3, <1>4, <1>5, <1>6, <1>7, <1>8, <1>9
     DEF Next, Trouble, Survey, Scanning, Crawling, Crawlers

LEMMA RestKeepsPrepared ==
  ASSUME Compiled, Prepared, Rests, [Next]_vars
  PROVE  Prepared'
<1>1. crawl[Prepare].pc = "plan" => InDomains(checklist')
  <2>1. CASE generate_my_entsoe_domains
    BY <2>1, GeneratedInDomains
  <2>2. CASE ~generate_my_entsoe_domains
    BY <2>2, OthersLeaveChecklist DEF Prepared, InDomains
  <2> QED BY <2>1, <2>2
<1>2. Have(rows) \subseteq Have(rows') /\ Have(schema) \subseteq Have(schema')
  BY HaveMore DEF Rests
<1>3. ASSUME NEW k PROVE (Done(k) => Done(k)') /\ (InHand(k) => InHand(k)') /\ (Ahead(k) => Ahead(k)')
  BY <1>2 DEF Rests, Done, InHand, Ahead, Round, Have
<1> DEFINE c == crawl[Prepare]
<1>4. c' = c /\ ready' = ready
  BY DEF Rests
<1>5. /\ c.pc \in {"crawl", "insert"} =>
            /\ InDomains(c.list) /\ c.plan = [e \in Envs |-> ToCrawl(c.list, e)]
            /\ c.round \in Nat
            /\ \A k \in Wanted(c.list) : Done(k)' \/ InHand(k)' \/ Ahead(k)'
      /\ c.pc = "schema" => Wanted(c.list) \subseteq c.skipped \union Have(rows')
      /\ c.pc = "write" => Wanted(c.list) \subseteq c.skipped \union Have(c.snapshot)
      /\ ready.list # Missing => Wanted(ready.list) \subseteq ready.missed \union Have(schema')
  BY <1>2, <1>3 DEF Prepared
<1>6. c.pc = "plan" => c.round = 0 /\ c.todo = {} /\ InDomains(checklist')
  BY <1>1 DEF Prepared
<1> QED BY <1>4, <1>5, <1>6 DEF Prepared, Have, InDomains, Wanted, ToCrawl

\* Beginning: what the checklist wants is ahead.
LEMMA PlanningPrepares ==
  ASSUME Shaped, Compiled, Prepared, PlanPreparation
  PROVE  Prepared'
<1> DEFINE c == crawl[Prepare]
<1>1. Prepare \in Crawlers /\ crawl = [p \in Crawlers |-> crawl[p]] /\ DOMAIN c = DOMAIN Idle
  BY DEF Crawlers, Shaped
<1>2. /\ crawl' = [crawl EXCEPT ![Prepare].pc = "crawl", ![Prepare].list = checklist,
                                ![Prepare].plan = [e \in Envs |-> ToCrawl(checklist, e)]]
      /\ rows' = rows /\ schema' = schema /\ ready' = ready /\ c.pc = "plan"
  BY DEF PlanPreparation, tables
<1>3. /\ crawl'[Prepare].pc = "crawl" /\ crawl'[Prepare].list = checklist
      /\ crawl'[Prepare].plan = [e \in Envs |-> ToCrawl(checklist, e)]
      /\ crawl'[Prepare].round = c.round
  BY <1>1, <1>2 DEF Idle
<1>4. c.round = 0 /\ InDomains(checklist)
  BY <1>2 DEF Prepared
<1>5. ASSUME NEW k \in Wanted(checklist) PROVE Ahead(k)'
  <2>1. k.env \in Envs /\ k.folder \in Exports /\ checklist[k.env][k.folder].val \in {"on", "files"}
    BY <1>5 DEF Wanted, ToCrawl, Keys
  <2>2. checklist[k.env][k.folder].group \in Domains
    BY <1>4, <2>1 DEF InDomains
  <2>3. PICK i \in DOMAIN Rounds :
            Rounds[i].env = k.env /\ Rounds[i].group = checklist[k.env][k.folder].group
    BY <2>1, <2>2, EachGroupHasARound
  <2>4. i > 0
    BY DEF Rounds
  <2> QED BY <1>3, <1>4, <2>3, <2>4 DEF Ahead
<1>6. InDomains(crawl'[Prepare].list)
  BY <1>3, <1>4 DEF InDomains
<1>7. crawl'[Prepare].plan = [e \in Envs |-> ToCrawl(crawl'[Prepare].list, e)]
  BY <1>3
<1>8. \A k \in Wanted(crawl'[Prepare].list) : Ahead(k)'
  BY <1>3, <1>5
<1>9. crawl'[Prepare].pc = "crawl" /\ crawl'[Prepare].round \in Nat
  BY <1>3, <1>4
<1>10. ready'.list # Missing => Wanted(ready'.list) \subseteq ready'.missed \union Have(schema')
  BY <1>2 DEF Prepared
<1> QED BY <1>6, <1>7, <1>8, <1>9, <1>10 DEF Prepared, InDomains, Wanted, ToCrawl, Have

\* What is selected for a round is what the checklist wants of its group.
LEMMA SelectedAreWanted ==
  ASSUME Prepared, crawl[Prepare].pc = "crawl", NEW i \in DOMAIN Rounds,
         NEW k \in Wanted(crawl[Prepare].list), Rounds[i].env = k.env,
         Rounds[i].group = crawl[Prepare].list[k.env][k.folder].group
  PROVE  k.folder \in Selected(i) /\ Rounds[i].group \in Domains
<1> DEFINE c == crawl[Prepare]
<1>1. InDomains(c.list) /\ c.plan = [e \in Envs |-> ToCrawl(c.list, e)]
  BY DEF Prepared
<1>2. /\ k.env \in Envs /\ k.folder \in Exports /\ k.folder \in ToCrawl(c.list, k.env)
      /\ c.list[k.env][k.folder].val \in {"on", "files"}
  BY DEF Wanted, ToCrawl, Keys
<1>3. Rounds[i].group \in Domains
  BY <1>1, <1>2 DEF InDomains
<1> QED BY <1>1, <1>2, <1>3 DEF Selected

LEMMA NextGroupPrepares ==
  ASSUME Shaped, Prepared, NextGroup(Prepare)
  PROVE  Prepared'
<1> DEFINE c == crawl[Prepare]
<1>1. Prepare \in Crawlers /\ crawl = [p \in Crawlers |-> crawl[p]] /\ DOMAIN c = DOMAIN Idle
  BY DEF Crawlers, Shaped
<1>2. /\ c.pc = "crawl" /\ c.todo = {}
      /\ rows' = rows /\ schema' = schema /\ ready' = ready
  BY DEF NextGroup, tables
<1>3. PICK i \in Upcoming(Prepare) :
          crawl' = [crawl EXCEPT ![Prepare].round = i, ![Prepare].todo = Selected(i),
                                 ![Prepare].plan = c.plan]
  <2>1. PICK i \in Upcoming(Prepare) : \E b \in Beginnings(Prepare, i) :
            crawl' = [crawl EXCEPT ![Prepare].round = i, ![Prepare].todo = b.todo,
                                   ![Prepare].plan = b.plan]
    BY DEF NextGroup
  <2>2. PICK b \in Beginnings(Prepare, i) :
            crawl' = [crawl EXCEPT ![Prepare].round = i, ![Prepare].todo = b.todo,
                                   ![Prepare].plan = b.plan]
    BY <2>1
  <2>3. b.todo = Selected(i) /\ b.plan = c.plan
    BY DEF Beginnings
  <2> QED BY <2>2, <2>3, Zenon
<1>4. /\ crawl'[Prepare].pc = "crawl" /\ crawl'[Prepare].list = c.list
      /\ crawl'[Prepare].plan = c.plan /\ crawl'[Prepare].round = i
      /\ crawl'[Prepare].todo = Selected(i) /\ crawl'[Prepare].skipped = c.skipped
  BY <1>1, <1>2, <1>3 DEF Idle
<1>5. i \in DOMAIN Rounds /\ i \in Nat /\ \A j \in Rest(Prepare) : i <= j
  <2>1. i \in Rest(Prepare) /\ \A j \in Rest(Prepare) : i <= j
    BY <1>3 DEF Upcoming
  <2>2. i \in DOMAIN Rounds
    BY <2>1 DEF Rest
  <2>3. DOMAIN Rounds \subseteq Nat
    BY DEF Rounds
  <2> QED BY <2>1, <2>2, <2>3
<1>6. ASSUME NEW k \in Wanted(c.list) PROVE Done(k)' \/ InHand(k)' \/ Ahead(k)'
  <2>1. CASE Done(k)
    BY <1>2, <1>4, <2>1 DEF Done, Have
  <2>2. CASE Ahead(k)
    <3>1. PICK j \in DOMAIN Rounds :
              j > c.round /\ Rounds[j].env = k.env /\ Rounds[j].group = c.list[k.env][k.folder].group
      BY <2>2 DEF Ahead
    <3>2. k.folder \in Selected(j) /\ Rounds[j].group \in Domains
      BY <1>2, <3>1, SelectedAreWanted
    <3>3. j \in Rest(Prepare)
      BY <3>1, <3>2, PreparationConstants DEF Rest, PreparationConstants
    <3>4. j = i \/ j > i
      BY <1>5, <3>3 DEF Rounds
    <3>5. CASE j = i
      BY <1>4, <3>1, <3>2, <3>5 DEF InHand, Round
    <3>6. CASE j > i
      BY <1>4, <3>1, <3>6 DEF Ahead
    <3> QED BY <3>4, <3>5, <3>6
  <2>3. ~InHand(k)
    BY <1>2 DEF InHand
  <2> QED BY <1>2, <2>1, <2>2, <2>3 DEF Prepared
<1>7. InDomains(c.list) /\ c.plan = [e \in Envs |-> ToCrawl(c.list, e)]
  BY <1>2 DEF Prepared
<1> QED BY <1>2, <1>4, <1>5, <1>6, <1>7, CrawlIsPrepared

\* Folder by folder: what is taken up is crawled, skipped or about to be inserted.
LEMMA CrawlFolderPrepares ==
  ASSUME Shaped, Prepared, NEW f \in crawl[Prepare].todo, CrawlFolder(Prepare, f)
  PROVE  Prepared'
<1> DEFINE c == crawl[Prepare]
           d == crawl'[Prepare]
           at == Key(Round(Prepare).env, f)
<1>1. Prepare \in Crawlers /\ crawl = [p \in Crawlers |-> crawl[p]] /\ DOMAIN c = DOMAIN Idle
  BY DEF Crawlers, Shaped
<1>2. c.pc = "crawl" /\ rows' = rows /\ schema' = schema /\ ready' = ready
  BY DEF CrawlFolder
<1>3. /\ d.list = c.list /\ d.plan = c.plan /\ d.round = c.round /\ d.todo = c.todo \ {f}
      /\ \/ at \in Have(rows) /\ d.pc = "crawl" /\ d.skipped = c.skipped
         \/ d.pc = "insert" /\ d.hand = at /\ d.skipped = c.skipped
         \/ d.pc = "crawl" /\ d.skipped = c.skipped \union {at}
  <2>1. \/ /\ at \in Have(rows)
           /\ crawl' = [crawl EXCEPT ![Prepare].todo = @ \ {f}]
        \/ crawl' = [crawl EXCEPT ![Prepare].pc = "insert", ![Prepare].todo = @ \ {f},
                                  ![Prepare].hand = at]
        \/ crawl' = [crawl EXCEPT ![Prepare].todo = @ \ {f},
                                  ![Prepare].skipped = @ \union {at}]
    BY DEF CrawlFolder, Have
  <2> HIDE DEF at
  <2>2. CASE at \in Have(rows) /\ crawl' = [crawl EXCEPT ![Prepare].todo = @ \ {f}]
    BY <1>1, <1>2, <2>2 DEF Idle
  <2>3. CASE crawl' = [crawl EXCEPT ![Prepare].pc = "insert", ![Prepare].todo = @ \ {f},
                                  ![Prepare].hand = at]
    BY <1>1, <1>2, <2>3 DEF Idle
  <2>4. CASE crawl' = [crawl EXCEPT ![Prepare].todo = @ \ {f},
                                  ![Prepare].skipped = @ \union {at}]
    BY <1>1, <1>2, <2>4 DEF Idle
  <2> QED BY <2>1, <2>2, <2>3, <2>4
<1>4. ASSUME NEW k \in Wanted(c.list) PROVE Done(k)' \/ InHand(k)' \/ Ahead(k)'
  <2>1. CASE Done(k)
    BY <1>2, <1>3, <2>1 DEF Done, Have
  <2>2. CASE Ahead(k)
    BY <1>3, <2>2 DEF Ahead
  <2>3. CASE InHand(k)
    <3>1. k.env = Round(Prepare).env /\ k.folder \in c.todo /\ k = Key(k.env, k.folder)
      BY <1>2, <2>3 DEF InHand, Wanted, Keys, Key
    <3>2. CASE k.folder = f
      BY <1>2, <1>3, <3>1, <3>2 DEF Done, InHand, Have
    <3>3. CASE k.folder # f
      BY <1>3, <3>1, <3>3 DEF InHand, Round
    <3> QED BY <3>2, <3>3
  <2> QED BY <1>2, <2>1, <2>2, <2>3 DEF Prepared
<1>5. /\ InDomains(c.list) /\ c.plan = [e \in Envs |-> ToCrawl(c.list, e)]
      /\ c.round \in Nat
  BY <1>2 DEF Prepared
<1>6. d.pc \in {"crawl", "insert"}
  BY <1>3
<1> HIDE DEF at
<1> QED BY <1>2, <1>3, <1>4, <1>5, <1>6, CrawlIsPrepared

LEMMA InsertRowPrepares ==
  ASSUME Shaped, Paths, Prepared, InsertRow(Prepare)
  PROVE  Prepared'
<1> DEFINE c == crawl[Prepare]
           d == crawl'[Prepare]
<1>1. Prepare \in Crawlers /\ crawl = [p \in Crawlers |-> crawl[p]] /\ DOMAIN c = DOMAIN Idle
  BY DEF Crawlers, Shaped
<1>2. /\ c.pc = "insert" /\ schema' = schema /\ ready' = ready
      /\ c.hand = Key(c.hand.env, c.hand.folder)
  BY <1>1 DEF InsertRow, Paths, Sound
<1>3. CASE c.hand \in Have(rows)
  <2>1. d.pc = "off"
    BY <1>1, <1>3 DEF InsertRow, Idle, Have
  <2> QED BY <1>2, <2>1 DEF Prepared, Wanted, ToCrawl, Have
<1>4. CASE c.hand \notin Have(rows)
  <2>1. /\ d.pc = "crawl" /\ d.list = c.list /\ d.plan = c.plan /\ d.round = c.round
        /\ d.todo = c.todo /\ d.skipped = c.skipped
    BY <1>1, <1>4 DEF InsertRow, Idle, Have
  <2>2. rows' = rows \union {[env |-> c.hand.env, domain |-> Round(Prepare).group,
                              folder |-> c.hand.folder]}
    BY <1>4 DEF InsertRow, Have
  <2>3. c.hand \in Have(rows') /\ Have(rows) \subseteq Have(rows')
    <3> DEFINE r == [env |-> c.hand.env, domain |-> Round(Prepare).group,
                     folder |-> c.hand.folder]
    <3>1. KeyOf(r) = c.hand /\ r \in rows' /\ rows \subseteq rows'
      BY <1>2, <2>2 DEF KeyOf
    <3> HIDE DEF r
    <3> QED BY <3>1, HaveMore DEF Have
  <2>4. ASSUME NEW k \in Wanted(c.list) PROVE Done(k)' \/ InHand(k)' \/ Ahead(k)'
    <3>1. CASE Done(k)
      BY <2>1, <2>3, <3>1 DEF Done, Have
    <3>2. CASE Ahead(k)
      BY <2>1, <3>2 DEF Ahead
    <3>3. CASE InHand(k)
      BY <2>1, <2>3, <3>3 DEF InHand, Done, Round, Have
    <3> QED BY <1>2, <3>1, <3>2, <3>3 DEF Prepared
  <2>5. /\ InDomains(c.list) /\ c.plan = [e \in Envs |-> ToCrawl(c.list, e)]
        /\ c.round \in Nat
    BY <1>2 DEF Prepared
  <2> QED BY <1>2, <2>1, <2>4, <2>5, CrawlIsPrepared
<1> QED BY <1>3, <1>4

LEMMA GroupFailurePrepares ==
  ASSUME Shaped, Prepared, ClientFails(Prepare)
  PROVE  Prepared'
<1> DEFINE c == crawl[Prepare]
           d == crawl'[Prepare]
<1>1. Prepare \in Crawlers /\ crawl = [p \in Crawlers |-> crawl[p]] /\ DOMAIN c = DOMAIN Idle
  BY DEF Crawlers, Shaped
<1>2. c.pc = "crawl" /\ rows' = rows /\ schema' = schema /\ ready' = ready
  BY DEF ClientFails, tables
<1>3. /\ d.pc = "crawl" /\ d.list = c.list /\ d.plan = c.plan /\ d.round = c.round
      /\ d.todo = {} /\ d.skipped = c.skipped \union Skip(Prepare, c.todo)
  BY <1>1, <1>2 DEF ClientFails, Idle
<1>4. ASSUME NEW k \in Wanted(c.list) PROVE Done(k)' \/ InHand(k)' \/ Ahead(k)'
  <2>1. CASE Done(k)
    BY <1>2, <1>3, <2>1 DEF Done, Have
  <2>2. CASE Ahead(k)
    BY <1>3, <2>2 DEF Ahead
  <2>3. CASE InHand(k)
    <3>1. k.env = Round(Prepare).env /\ k.folder \in c.todo /\ k = Key(k.env, k.folder)
      BY <1>2, <2>3 DEF InHand, Wanted, Keys, Key
    <3>2. k \in Skip(Prepare, c.todo)
      BY <3>1 DEF Skip
    <3> QED BY <1>3, <3>2 DEF Done
  <2> QED BY <1>2, <2>1, <2>2, <2>3 DEF Prepared
<1>5. /\ InDomains(c.list) /\ c.plan = [e \in Envs |-> ToCrawl(c.list, e)]
      /\ c.round \in Nat
  BY <1>2 DEF Prepared
<1> QED BY <1>2, <1>3, <1>4, <1>5, CrawlIsPrepared

\* When no round is left, all that is wanted is done.
LEMMA EndCrawlPrepares ==
  ASSUME Shaped, Prepared, EndCrawl(Prepare)
  PROVE  Prepared'
<1> DEFINE c == crawl[Prepare]
           d == crawl'[Prepare]
<1>1. Prepare \in Crawlers /\ crawl = [p \in Crawlers |-> crawl[p]] /\ DOMAIN c = DOMAIN Idle
  BY DEF Crawlers, Shaped
<1>2. /\ c.pc = "crawl" /\ c.todo = {} /\ Rest(Prepare) = {}
      /\ rows' = rows /\ schema' = schema /\ ready' = ready
  BY DEF EndCrawl, tables
<1>3. d.pc = "schema" /\ d.list = c.list /\ d.skipped = c.skipped
  BY <1>1, <1>2 DEF EndCrawl, Idle
<1>4. ASSUME NEW k \in Wanted(c.list) PROVE k \in c.skipped \union Have(rows)
  <2>1. ~Ahead(k)
    <3> SUFFICES ASSUME Ahead(k) PROVE FALSE
      OBVIOUS
    <3>1. PICK j \in DOMAIN Rounds :
              j > c.round /\ Rounds[j].env = k.env /\ Rounds[j].group = c.list[k.env][k.folder].group
      BY DEF Ahead
    <3>2. k.folder \in Selected(j) /\ Rounds[j].group \in Domains
      BY <1>2, <3>1, SelectedAreWanted
    <3> QED BY <1>2, <3>1, <3>2, PreparationConstants DEF Rest, PreparationConstants
  <2>2. ~InHand(k)
    BY <1>2 DEF InHand
  <2> QED BY <1>2, <2>1, <2>2 DEF Prepared, Done
<1> QED BY <1>2, <1>3, <1>4 DEF Prepared, Wanted, ToCrawl, Have

\* What was read of the table is what the schema then holds.
LEMMA SchemaPrepares ==
  ASSUME Shaped, Prepared, ReadFolders \/ WriteSchema
  PROVE  Prepared'
<1> DEFINE c == crawl[Prepare]
           d == crawl'[Prepare]
<1>1. Prepare \in Crawlers /\ crawl = [p \in Crawlers |-> crawl[p]] /\ DOMAIN c = DOMAIN Idle
  BY DEF Crawlers, Shaped
<1>2. CASE ReadFolders
  <2>1. c.pc = "schema" /\ rows' = rows /\ schema' = schema /\ ready' = ready
    BY <1>2 DEF ReadFolders, tables
  <2>2. d.pc = "write" /\ d.list = c.list /\ d.skipped = c.skipped /\ d.snapshot = rows
    BY <1>1, <1>2 DEF ReadFolders, Idle
  <2> QED BY <2>1, <2>2 DEF Prepared, Wanted, ToCrawl, Have
<1>3. CASE WriteSchema
  <2>1. /\ c.pc = "write" /\ d.pc = "sizes"
        /\ ready' = [list |-> c.list, missed |-> c.skipped]
        /\ schema' = IF c.snapshot = {} THEN schema ELSE c.snapshot
    BY <1>1, <1>3 DEF WriteSchema, Idle
  <2>2. Have(c.snapshot) \subseteq Have(schema')
    BY <2>1 DEF Have
  <2>3. Wanted(c.list) \subseteq c.skipped \union Have(schema')
    BY <2>1, <2>2 DEF Prepared
  <2> QED BY <2>1, <2>3 DEF Prepared, Wanted, ToCrawl, Have
<1> QED BY <1>2, <1>3

LEMMA PreparedIsKept ==
  ASSUME Shaped, Paths, Compiled, Prepared, [Next]_vars
  PROVE  Prepared'
<1> USE DEF tables
<1>1. CASE ~Preparing /\ ~ClientFails(Prepare) /\ ~CrawlFails(Prepare)
  BY <1>1, OthersLetItRest, RestKeepsPrepared
<1>2. CASE StartPrepare
  <2>1. InDomains(checklist')
    BY <1>2, GeneratedInDomains DEF StartPrepare
  <2>2. /\ crawl'[Prepare] = [Idle EXCEPT !.pc = "plan"]
        /\ schema' = schema /\ ready' = ready
    BY <1>2 DEF StartPrepare, Shaped, Crawlers
  <2>3. /\ crawl'[Prepare].pc = "plan" /\ crawl'[Prepare].round = 0 /\ crawl'[Prepare].todo = {}
    BY <2>2 DEF Idle
  <2> QED BY <2>1, <2>2, <2>3 DEF Prepared, InDomains, Wanted, ToCrawl, Have
<1>3. CASE CrawlFails(Prepare) \/ EndPreparation
  <2>1. crawl'[Prepare].pc = "off" /\ schema' = schema /\ ready' = ready
    BY <1>3 DEF CrawlFails, EndPreparation, Idle, Shaped, Crawlers
  <2> QED BY <2>1 DEF Prepared, Wanted, ToCrawl, Have
<1> QED
  BY <1>1, <1>2, <1>3, PlanningPrepares, NextGroupPrepares, CrawlFolderPrepares,
     InsertRowPrepares, GroupFailurePrepares, EndCrawlPrepares, SchemaPrepares
     DEF Preparing, Crawling

-----------------------------------------------------------------------------
(* The landing run.                                                         *)

OwedExports == {k \in landing.owed : k.folder \in Exports}

Landed(k) == \E x \in landing.landed : KeyOf(x.path) = k
ToLand(k) == \E path \in landing.todo : KeyOf(path) = k

Owing ==
    /\ landing.owed \subseteq Keys
    /\ landing.pc \in {"envs", "sync"} =>
            OwedExports \subseteq Wanted(landing.list) \intersect Have(landing.schema)
    /\ landing.pc = "sync" =>
            \A k \in OwedExports : k.env \in landing.envs \/ ToLand(k) \/ Landed(k)
    /\ landing.pc = "done" => \A k \in OwedExports : Landed(k)

\* What is enabled in an environment and has its path in the schema is selected.
LEMMA EnabledIsSelected ==
  ASSUME NEW list, NEW paths, NEW k \in Wanted(list) \intersect Have(paths)
  PROVE  \E path \in resolve_target_mappings(k.env, extract_active_folders(list, k.env), paths) :
             KeyOf(path) = k
<1>1. PICK path \in paths : KeyOf(path) = k
  BY DEF Have
<1>2. path.env = k.env /\ path.folder = k.folder
  BY <1>1 DEF KeyOf, Key
<1>3. k.folder \in extract_active_folders(list, k.env)
  BY DEF Wanted, ToCrawl, extract_active_folders
<1> QED BY <1>1, <1>2, <1>3 DEF resolve_target_mappings, Segments

LEMMA OwingIsKept ==
  ASSUME Shaped, Selection, Prepared, Owing, [Next]_vars
  PROVE  Owing'
<1> USE DEF Shaped, NoLanding
<1>1. CASE ~Landing /\ ~LandFails
  <2>1. landing' = landing
    BY <1>1, OthersLeaveLanding
  <2> QED BY <2>1 DEF Owing, OwedExports, Landed, ToLand, Wanted, ToCrawl, Have
<1>2. CASE LandFails
  BY <1>2 DEF LandFails, Owing, OwedExports
<1>3. CASE LandTree
  <2>1. /\ landing'.pc = "envs" /\ landing'.schema = schema /\ landing'.list = checklist
        /\ checklist # Missing
        /\ landing'.owed = IF ready.list = checklist
                           THEN {k \in Keys \ ready.missed :
                                     k.folder \in ToCrawl(checklist, k.env)}
                           ELSE {}
    BY <1>3 DEF LandTree
  <2>2. ASSUME NEW k \in landing'.owed, k.folder \in Exports
        PROVE  k \in Wanted(checklist) \intersect Have(schema)
    <3>1. ready.list = checklist /\ k \in Keys \ ready.missed /\ k \in Wanted(checklist)
      BY <2>1, <2>2 DEF Wanted
    <3>2. Wanted(checklist) \subseteq ready.missed \union Have(schema)
      BY <2>1, <3>1 DEF Prepared
    <3> QED BY <3>1, <3>2
  <2>3. landing'.owed \subseteq Keys
    BY <2>1
  <2> QED BY <2>1, <2>2, <2>3 DEF Owing, OwedExports, Wanted, ToCrawl, Have
<1>4. CASE LandEnvs
  <2>1. /\ landing.pc = "envs" /\ landing'.pc = "sync" /\ landing'.list = checklist
        /\ landing'.schema = landing.schema
        /\ landing'.envs = {e \in Envs : extract_active_folders(checklist, e) # {}}
        /\ landing'.owed = IF checklist = landing.list THEN landing.owed ELSE {}
    BY <1>4 DEF LandEnvs
  <2>2. landing'.owed \subseteq Keys
    BY <2>1 DEF Owing
  <2>3. ASSUME NEW k \in landing'.owed, k.folder \in Exports
        PROVE  /\ k \in Wanted(landing'.list) \intersect Have(landing'.schema)
               /\ k.env \in landing'.envs
    <3>1. k \in Wanted(checklist) \intersect Have(landing.schema)
      BY <2>1, <2>3 DEF Owing, OwedExports
    <3>2. k.env \in Envs /\ k.folder \in extract_active_folders(checklist, k.env)
      BY <3>1 DEF Wanted, ToCrawl, extract_active_folders, Keys
    <3> QED BY <2>1, <3>1, <3>2
  <2> QED BY <2>1, <2>2, <2>3 DEF Owing, OwedExports, Wanted, ToCrawl, Have
<1>5. ASSUME NEW e \in Envs, LandEnv(e) PROVE Owing'
  <2>1. /\ landing.pc = "sync" /\ landing'.pc = "sync" /\ landing'.list = landing.list
        /\ landing'.schema = landing.schema /\ landing'.owed = landing.owed
        /\ landing'.landed = landing.landed /\ landing'.envs = landing.envs \ {e}
        /\ landing.todo = {}
        /\ landing'.todo = resolve_target_mappings(e, extract_active_folders(landing.list, e),
                                                   landing.schema)
    BY <1>5 DEF LandEnv
  <2>2. ASSUME NEW k \in landing.owed, k.folder \in Exports
        PROVE  /\ k \in Wanted(landing.list) \intersect Have(landing.schema)
               /\ k.env \in landing'.envs \/ ToLand(k)' \/ Landed(k)'
    <3>1. k \in Wanted(landing.list) \intersect Have(landing.schema)
      BY <2>1, <2>2 DEF Owing, OwedExports
    <3>2. k.env \in landing.envs \/ Landed(k)
      BY <2>1, <2>2 DEF Owing, OwedExports, ToLand
    <3>3. CASE Landed(k)
      BY <2>1, <3>1, <3>3 DEF Landed
    <3>4. CASE k.env = e
      BY <2>1, <3>1, <3>4, EnabledIsSelected DEF ToLand
    <3> QED BY <2>1, <3>1, <3>2, <3>3, <3>4
  <2> QED BY <2>1, <2>2 DEF Owing, OwedExports, Wanted, ToCrawl, Have
<1>6. ASSUME NEW path \in landing.todo, LandPath(path) PROVE Owing'
  <2>1. /\ landing.pc = "sync" /\ landing'.pc = "sync" /\ landing'.list = landing.list
        /\ landing'.schema = landing.schema /\ landing'.owed \subseteq landing.owed
        /\ landing.landed \subseteq landing'.landed /\ landing'.envs = landing.envs
        /\ landing'.todo = landing.todo \ {path}
    <3>1. PICK owed \in SUBSET landing.owed :
              \/ landing' = [landing EXCEPT !.todo = @ \ {path},
                      !.landed = @ \union {[path |-> path, from |-> landing.env]}]
              \/ landing' = [landing EXCEPT !.todo = @ \ {path}, !.owed = owed]
      <4>1. landing.owed \ {Key(landing.env, path.folder)} \in SUBSET landing.owed
        OBVIOUS
      <4> QED BY <1>6, <4>1 DEF LandPath
    <3>2. landing.pc = "sync"
      BY <1>6 DEF LandPath
    <3> QED BY <3>1, <3>2
  <2>2. \/ [path |-> path, from |-> landing.env] \in landing'.landed
        \/ landing'.owed = landing.owed \ {Key(landing.env, path.folder)}
        \/ path.folder \notin Exports
    <3> DEFINE settled == landing.owed \ {Key(landing.env, path.folder)}
    <3>1. \/ landing' = [landing EXCEPT !.todo = @ \ {path},
                     !.landed = @ \union {[path |-> path, from |-> landing.env]}]
          \/ landing' = [landing EXCEPT !.todo = @ \ {path}, !.owed = settled]
          \/ path.folder \notin Exports
      BY <1>6 DEF LandPath, RemoteFolder
    <3>2. "landed" \in DOMAIN landing /\ "owed" \in DOMAIN landing
      BY DEF Shaped, NoLanding
    <3> HIDE DEF settled
    <3>3. [path |-> path, from |-> landing.env] \in landing'.landed \/ landing'.owed = settled
          \/ path.folder \notin Exports
      BY <3>1, <3>2
    <3> QED BY <3>3 DEF settled
  <2>3. path.env = landing.env
    BY <2>1 DEF Selection, Enabled
  <2>4. ASSUME NEW k \in landing'.owed, k.folder \in Exports
        PROVE  /\ k \in Wanted(landing.list) \intersect Have(landing.schema)
               /\ k.env \in landing'.envs \/ ToLand(k)' \/ Landed(k)'
    <3>1. /\ k \in Wanted(landing.list) \intersect Have(landing.schema)
          /\ k.env \in landing.envs \/ ToLand(k) \/ Landed(k)
      BY <2>1, <2>4 DEF Owing, OwedExports
    <3>2. CASE Landed(k)
      BY <2>1, <3>1, <3>2 DEF Landed
    <3>3. CASE KeyOf(path) = k
      <4>1. k = Key(landing.env, path.folder) /\ k.folder = path.folder
        BY <2>3, <3>3 DEF KeyOf, Key
      <4>2. [path |-> path, from |-> landing.env] \in landing'.landed
        BY <2>2, <2>4, <4>1
      <4> QED BY <3>1, <3>3, <4>2 DEF Landed
    <3>4. CASE ToLand(k) /\ KeyOf(path) # k
      BY <2>1, <3>1, <3>4 DEF ToLand
    <3> QED BY <2>1, <3>1, <3>2, <3>3, <3>4
  <2> QED BY <2>1, <2>4 DEF Owing, OwedExports, Wanted, ToCrawl, Have
<1>7. CASE LandDone
  <2>1. /\ landing.pc = "sync" /\ landing.todo = {} /\ landing.envs = {}
        /\ landing'.pc = "done" /\ landing'.owed = landing.owed
        /\ landing'.landed = landing.landed
    BY <1>7 DEF LandDone
  <2> QED BY <2>1 DEF Owing, OwedExports, Landed, ToLand
<1> QED BY <1>1, <1>2, <1>3, <1>4, <1>5, <1>6, <1>7 DEF Landing

-----------------------------------------------------------------------------

LEMMA PreparedHolds == Spec => [](Compiled /\ Prepared)
<1>1. Init => Compiled /\ Prepared
  <2> SUFFICES ASSUME Init PROVE Compiled /\ Prepared
    OBVIOUS
  <2>1. crawl[Prepare].pc = "off" /\ ready.list = Missing
    BY DEF Init, Idle, Crawlers
  <2>2. Compiled
    BY PreparationConstants DEF Init, Compiled, PreparationConstants
  <2> QED BY <2>1, <2>2 DEF Prepared
<1>2. Shaped /\ Paths /\ (Compiled /\ Prepared) /\ [Next]_vars => (Compiled /\ Prepared)'
  BY CompiledIsKept, PreparedIsKept
<1> QED BY <1>1, <1>2, PathsHold, PTL DEF Spec

\* A landing run that follows a preparation of the same checklist lists every
\* folder of TP_export that the checklist enables and the preparation could crawl,
\* unless the library refuses or withdraws it; for EnabledExportsLand.
THEOREM EnabledLands == Spec => []EnabledExportsLand
<1>1. Init => Owing
  BY DEF Init, NoLanding, Owing, OwedExports
<1>2. Shaped /\ Selection /\ Prepared /\ Owing /\ [Next]_vars => Owing'
  BY OwingIsKept
<1>3. Owing => EnabledExportsLand
  BY DEF Owing, OwedExports, Landed, EnabledExportsLand
<1> QED BY <1>1, <1>2, <1>3, PathsHold, SelectionHolds, PreparedHolds, PTL DEF Spec

-----------------------------------------------------------------------------
(* The full crawl.                                                          *)

LEMMA EachLegacyHasAnArchive ==
  ASSUME NEW some, NEW e, NEW f \in Listed(some, e) \intersect Legacy
  PROVE  \E a \in Archives : f \in get_legacy_archive_folders(some, a, e)
<1>1. R1 \in Archives /\ R2 \in Archives /\ R3 \in Archives
  BY DEF Archives
<1>2. CASE f \in Patterned[R2]
  BY <1>1, <1>2 DEF get_legacy_archive_folders
<1>3. CASE f \in Patterned[R3]
  BY <1>1, <1>3 DEF get_legacy_archive_folders
<1>4. CASE f \notin Patterned[R2] \union Patterned[R3]
  BY <1>1, <1>4 DEF get_legacy_archive_folders
<1> QED BY <1>2, <1>3, <1>4

\* Of the archives of an environment, R3 comes first.
LEMMA LatestArchiveFirst ==
  ASSUME NEW i \in DOMAIN Rounds, NEW j \in DOMAIN Rounds, Rounds[i].env = Rounds[j].env,
         Rounds[i].group = R3, Rounds[j].group \in Archives
  PROVE  i <= j
<1> DEFINE m == Len(EnvOrder)
           n == Len(GroupOrder)
<1>1. /\ EnvOrder \in Seq(Envs) /\ GroupOrder \in Seq(Domains \union Archives)
      /\ m \in Nat /\ n \in Nat /\ DOMAIN EnvOrder = 1..m /\ DOMAIN GroupOrder = 1..n
  BY PreparationConstants DEF PreparationConstants
<1>2. i \in 1..(m * n) /\ j \in 1..(m * n) /\ m * n \in Nat
  BY <1>1 DEF Rounds
<1> DEFINE xi == (i - 1) \div n
           xj == (j - 1) \div n
           yi == (i - 1) % n
           yj == (j - 1) % n
<1>3. /\ xi \in Int /\ xi + 1 \in 1..m /\ yi \in 0..(n - 1) /\ i - 1 = n * xi + yi
  BY <1>1, <1>2, Division
<1>4. /\ xj \in Int /\ xj + 1 \in 1..m /\ yj \in 0..(n - 1) /\ j - 1 = n * xj + yj
  BY <1>1, <1>2, Division
<1>5. /\ Rounds[i].env = EnvOrder[xi + 1] /\ Rounds[j].env = EnvOrder[xj + 1]
      /\ Rounds[i].group = GroupOrder[yi + 1] /\ Rounds[j].group = GroupOrder[yj + 1]
  BY DEF Rounds
<1> HIDE DEF xi, xj, yi, yj
<1>6. xi + 1 = xj + 1
  BY <1>1, <1>3, <1>4, <1>5, PreparationConstants DEF PreparationConstants
<1>7. yi + 1 \in DOMAIN GroupOrder /\ yj + 1 \in DOMAIN GroupOrder
  BY <1>1, <1>3, <1>4
<1>8. yi + 1 <= yj + 1
  BY <1>5, <1>7, PreparationConstants DEF PreparationConstants
<1>9. xi = xj /\ xi \in Int /\ yi <= yj
  BY <1>3, <1>4, <1>6, <1>8
<1>10. n * xi = n * xj
  BY <1>9
<1> HIDE DEF n, m
<1> QED BY <1>1, <1>2, <1>3, <1>4, <1>9, <1>10

\* Whatever part of it is written, the overview has the folders of TP_export in
\* domains, and legacy folders only of an environment whose legacy root it has.
Classified(some) == \A e \in Envs, f \in Exports : some[e][f] \in Domains \union {NoGroup}

Overviewed ==
    overview # Missing =>
        /\ Classified(overview)
        /\ \A e \in Envs : Listed(overview, e) \intersect Legacy # {} => Has(e, Legacy)

\* The round of a folder that is still ahead, and for a legacy folder that it is
\* still planned: it is, or the archives have not begun.
Due(f, i) ==
    LET c == crawl[Scan] IN
    /\ i > c.round /\ Rounds[i].env = c.env
    /\ \/ f \in Exports /\ Rounds[i].group \in Domains /\ overview[c.env][f] = Rounds[i].group
       \/ /\ Rounds[i].group \in Archives
          /\ f \in get_legacy_archive_folders(overview, Rounds[i].group, c.env)
          /\ \/ f \in c.plan[c.env]
             \/ \E k \in DOMAIN Rounds : k > c.round /\ Rounds[k].env = c.env
                                         /\ Rounds[k].group = R3

AtHand(f) ==
    LET c == crawl[Scan] IN
    \/ Round(Scan).env = c.env /\ f \in c.todo
    \/ c.pc = "insert" /\ c.hand = Key(c.env, f)

Accounted(f) ==
    \/ Key(crawl[Scan].env, f) \in Have(rows) \/ AtHand(f)
    \/ \E i \in DOMAIN Rounds : Due(f, i)

Whole(c) ==
    /\ c.pc \in {"crawl", "insert"} /\ c.scope = Domains \union Archives
    /\ c.force /\ c.steady /\ c.skipped = {}

Covering ==
    LET c == crawl[Scan] IN
    /\ c.pc # "off" => /\ c.pc \in {"crawl", "insert"} /\ c.env \in Envs
                       /\ DOMAIN c.plan = Envs
    /\ Whole(c) => overview # Missing /\ \A f \in Listed(overview, c.env) : Accounted(f)

LEMMA SurveyedIsClassified ==
  ASSUME Findings, Len(survey.found) = Len(EnvOrder)
  PROVE  Classified(Surveyed)
<1>1. \A found : \A f \in Exports : Grouped(survey.rules, found)[f] \in Domains \union {NoGroup}
  BY ClassifiedInDomains, CatalogueConstants DEF Grouped, Findings, CatalogueConstants, Folders
<1>2. ASSUME NEW e \in Envs, NEW f \in Exports
      PROVE  survey.found[CHOOSE i \in DOMAIN EnvOrder : EnvOrder[i] = e][f]
                 \in Domains \union {NoGroup}
  <2>1. EnvOrder \in Seq(Envs) /\ \E i \in DOMAIN EnvOrder : EnvOrder[i] = e
    BY PreparationConstants DEF PreparationConstants
  <2>2. PICK j \in DOMAIN EnvOrder : j = CHOOSE i \in DOMAIN EnvOrder : EnvOrder[i] = e
    BY <2>1
  <2>3. j \in 1..Len(survey.found) /\ survey.found \in Seq(Outcomes(survey.rules))
    BY <2>1 DEF Findings
  <2>4. survey.found[j] \in Outcomes(survey.rules)
    BY <2>3
  <2> QED BY <1>1, <2>2, <2>4 DEF Outcomes
<1> QED BY <1>2 DEF Surveyed, Classified

\* The whole overview has the legacy root of each environment, and one that is
\* being written has it as soon as it lists a folder there.
LEMMA EachRootIsASection ==
  ASSUME NEW e \in Envs
  PROVE  \E i \in 1..Len(Sections) : Sections[i].env = e /\ Sections[i].root = Legacy
<1>1. /\ EnvOrder \in Seq(Envs) /\ Len(EnvOrder) \in Nat
      /\ \E x \in DOMAIN EnvOrder : EnvOrder[x] = e
  BY PreparationConstants DEF PreparationConstants
<1>2. PICK x \in 1..Len(EnvOrder) : EnvOrder[x] = e
  BY <1>1
<1>3. 2 * x \in 1..(2 * Len(EnvOrder)) /\ ((2 * x - 1) \div 2) + 1 = x /\ (2 * x) % 2 = 0
  BY <1>1, <1>2
<1>4. Sections[2 * x].env = e /\ Sections[2 * x].root = Legacy
  BY <1>2, <1>3 DEF Sections
<1>5. Len(Sections) = 2 * Len(EnvOrder)
  BY <1>1 DEF Sections
<1> QED BY <1>3, <1>4, <1>5

LEMMA StreamedIsOverviewed ==
  ASSUME Findings, StreamOverview
  PROVE  Overviewed'
<1>1. PICK cut \in Cuts : overview' = Streamed(cut) /\ begun' = cut.sections
  BY DEF StreamOverview
<1>2. cut.sections \in 0..Len(Sections) /\ Len(Sections) \in Nat
  BY SectionsAreCounted, PreparationConstants DEF PreparationConstants
<1>3. Classified(overview')
  <2>1. Classified(Surveyed)
    BY SurveyedIsClassified DEF StreamOverview, Findings
  <2> QED BY <1>1, <2>1 DEF Classified, Streamed, Folders
<1>4. ASSUME NEW e \in Envs, NEW f \in Listed(overview', e) \intersect Legacy, overview' # Missing
      PROVE  Has(e, Legacy)'
  <2>1. f \in Folders /\ f \notin Exports
    BY CatalogueConstants DEF Listed, CatalogueConstants
  <2>2. PICK i \in 1..cut.sections : Sections[i].env = e /\ f \in Sections[i].root
    BY <1>1, <2>1 DEF Listed, Streamed
  <2>3. Sections[i].root = Legacy
    <3>1. i \in 1..(2 * Len(EnvOrder))
      BY <1>2, <2>2, PreparationConstants DEF Sections, PreparationConstants
    <3> QED BY <2>1, <2>2, <3>1 DEF Sections
  <2> QED BY <1>1, <1>4, <2>2, <2>3 DEF Has
<1> QED BY <1>3, <1>4 DEF Overviewed, Listed, Classified

LEMMA OverviewedIsKept ==
  ASSUME Findings, Overviewed, [Next]_vars
  PROVE  Overviewed'
<1>1. CASE overview' = overview /\ begun' = begun
  BY <1>1 DEF Overviewed, Classified, Listed, Has
<1>2. CASE OpenOverview
  BY <1>2 DEF OpenOverview, Overviewed
<1>3. CASE SaveOverview
  <2>1. overview' = Surveyed /\ begun' = Len(Sections)
    BY <1>3 DEF SaveOverview
  <2>2. Classified(overview')
    BY <1>3, <2>1, SurveyedIsClassified DEF SaveOverview, Findings, Classified
  <2>3. overview' # Missing => \A e \in Envs : Has(e, Legacy)'
    BY <2>1, EachRootIsASection DEF Has
  <2> QED BY <2>2, <2>3 DEF Overviewed, Classified
<1>4. CASE fetch_environment_metadata \/ SaveReports \/ SurveyFails
  BY <1>1, <1>4 DEF fetch_environment_metadata, SaveReports, SurveyFails
<1>5. CASE ~Survey /\ ~SurveyFails
  BY <1>1, <1>5, OthersLeaveFindings
<1> QED BY <1>2, <1>3, <1>4, <1>5, StreamedIsOverviewed DEF Survey

LEMMA OverviewedHolds == Spec => []Overviewed
<1>1. Init => Overviewed
  BY DEF Init, Overviewed
<1>2. Findings /\ Overviewed /\ [Next]_vars => Overviewed'
  BY OverviewedIsKept
<1> QED BY <1>1, <1>2, FindingsHold, PTL DEF Spec

\* A legacy folder that is listed is found by the crawler of its archive.
LEMMA ArchivesAreRead ==
  ASSUME Overviewed, overview # Missing, NEW e \in Envs, NEW a,
         NEW f \in get_legacy_archive_folders(overview, a, e)
  PROVE  f \in ArchiveFolders(e, a)
<1>1. f \in Listed(overview, e) \intersect Legacy
  BY DEF get_legacy_archive_folders
<1> QED BY <1>1 DEF Overviewed, ArchiveFolders

\* Only the crawler itself, and a survey that writes overview.yml, disturb a full
\* crawl.
Writes == OpenOverview \/ StreamOverview \/ SaveOverview

LEMMA ScanRests ==
  ASSUME Shaped, Paths, [Next]_vars, ~Writes, ~Scanning,
         ~ClientFails(Scan), ~CrawlFails(Scan)
  PROVE  crawl'[Scan] = crawl[Scan] /\ overview' = overview /\ rows \subseteq rows'
<1> USE DEF tables, reported
<1>0. Prepare # Scan /\ Scan \in Crawlers /\ crawl = [p \in Crawlers |-> crawl[p]]
  BY PreparationConstants DEF PreparationConstants, Crawlers, Shaped
<1>1. CASE World
  BY <1>1 DEF World, Change, Publish, Reclassify, Configure, Age, RewriteReport, Regenerate
<1>2. CASE fetch_environment_metadata \/ SaveReports \/ SurveyFails
  BY <1>2 DEF fetch_environment_metadata, SaveReports, SurveyFails
<1>3. CASE Landing \/ LandFails
  BY <1>3 DEF Landing, LandTree, LandEnvs, LandDone, LandEnv, LandPath, LandFails
<1>4. CASE NextGroup(Prepare) \/ EndCrawl(Prepare) \/ ClientFails(Prepare) \/ CrawlFails(Prepare)
  BY <1>0, <1>4 DEF NextGroup, EndCrawl, ClientFails, CrawlFails
<1>5. CASE InsertRow(Prepare)
  BY <1>0, <1>5 DEF InsertRow
<1>6. CASE \E f \in crawl[Prepare].todo : CrawlFolder(Prepare, f)
  BY <1>0, <1>6 DEF CrawlFolder
<1>7. CASE StartPrepare \/ PlanPreparation \/ ReadFolders \/ WriteSchema \/ EndPreparation
  BY <1>0, <1>7 DEF StartPrepare, PlanPreparation, ReadFolders, WriteSchema, EndPreparation
<1>8. CASE UNCHANGED vars
  BY <1>8 DEF vars
<1> QED
  BY <1>1, <1>2, <1>3, <1>4, <1>5, <1>6, <1>7, <1>8
     DEF Next, Trouble, Survey, Writes, Preparing, Crawling, Crawlers

LEMMA RestKeepsCovering ==
  ASSUME Covering, crawl'[Scan] = crawl[Scan], overview' = overview, rows \subseteq rows'
  PROVE  Covering'
<1> DEFINE c == crawl[Scan]
<1>1. Have(rows) \subseteq Have(rows')
  BY HaveMore
<1>2. ASSUME NEW f, Accounted(f) PROVE Accounted(f)'
  <2>1. CASE Key(c.env, f) \in Have(rows)
    BY <1>1, <2>1 DEF Accounted, Have
  <2>2. CASE AtHand(f)
    BY <2>2 DEF Accounted, AtHand, Round
  <2>3. CASE \E i \in DOMAIN Rounds : Due(f, i)
    BY <2>3 DEF Accounted, Due, get_legacy_archive_folders, Listed
  <2> QED BY <1>2, <2>1, <2>2, <2>3 DEF Accounted
<1> QED BY <1>2 DEF Covering, Whole, Listed

\* A full crawl whose overview is written anew has nothing to keep.
LEMMA SurveyKeepsCovering ==
  ASSUME Shaped, Covering, Writes
  PROVE  Covering'
<1> DEFINE c == crawl[Scan]
           d == crawl'[Scan]
<1>1. Scan \in Crawlers /\ crawl = [p \in Crawlers |-> crawl[p]] /\ DOMAIN c = DOMAIN Idle
  BY DEF Shaped, Crawlers
<1>2. d.pc = c.pc /\ d.env = c.env /\ d.plan = c.plan /\ d.steady = (c.pc = "off")
  BY <1>1 DEF Writes, OpenOverview, StreamOverview, SaveOverview, UnsteadyScan, Idle
<1> QED BY <1>2 DEF Covering, Whole

\* At the start everything listed is due.
LEMMA StartCovers ==
  ASSUME Shaped, Overviewed, Covering, NEW ask \in Scans, StartScan(ask)
  PROVE  Covering'
<1> DEFINE d == crawl'[Scan]
           e == ask.env
<1>1. Scan \in Crawlers /\ crawl = [p \in Crawlers |-> crawl[p]]
  BY DEF Shaped, Crawlers
<1>2. /\ d = [Idle EXCEPT !.pc = "crawl", !.env = e, !.scope = ask.scope, !.force = ask.force]
      /\ overview # Missing /\ overview' = overview
  BY <1>1 DEF StartScan, reported
<1>3. /\ d.pc = "crawl" /\ d.env = e /\ d.round = 0 /\ DOMAIN d.plan = Envs
      /\ e \in Envs
  BY <1>2, PreparationConstants DEF Idle, Unset, PreparationConstants
<1> HIDE DEF e
<1>4. Classified(overview)
  BY <1>2 DEF Overviewed
<1>5. ASSUME NEW f \in Listed(overview, e) PROVE Accounted(f)'
  <2>1. f \in Exports \/ f \in Legacy
    BY DEF Listed, Folders
  <2>2. CASE f \in Exports
    <3>1. overview[e][f] \in Domains
      BY <1>3, <1>4, <2>2 DEF Classified, Listed
    <3>2. PICK i \in DOMAIN Rounds : Rounds[i].env = e /\ Rounds[i].group = overview[e][f]
      BY <1>3, <3>1, EachGroupHasARound
    <3>3. i > 0
      BY DEF Rounds
    <3>4. Due(f, i)'
      BY <1>2, <1>3, <2>2, <3>1, <3>2, <3>3 DEF Due
    <3> QED BY <3>4 DEF Accounted
  <2>3. CASE f \in Legacy
    <3>1. PICK a \in Archives : f \in get_legacy_archive_folders(overview, a, e)
      BY <2>3, EachLegacyHasAnArchive
    <3>2. PICK i \in DOMAIN Rounds : Rounds[i].env = e /\ Rounds[i].group = a
      BY <1>3, EachGroupHasARound
    <3>3. PICK k \in DOMAIN Rounds : Rounds[k].env = e /\ Rounds[k].group = R3
      BY <1>3, EachGroupHasARound DEF Archives
    <3>4. i > 0 /\ k > 0
      BY DEF Rounds
    <3>5. f \in get_legacy_archive_folders(overview', Rounds[i].group, d.env)
      BY <1>2, <1>3, <3>1, <3>2
    <3>6. Due(f, i)'
      BY <1>3, <3>2, <3>3, <3>4, <3>5 DEF Due, get_legacy_archive_folders, Listed
    <3> QED BY <3>6 DEF Accounted
  <2> QED BY <2>1, <2>2, <2>3
<1> QED BY <1>2, <1>3, <1>5 DEF Covering, Listed

\* The next group is one that is due; the archives but the first take what was
\* planned, and the first plans it.
LEMMA NextGroupCovers ==
  ASSUME Shaped, Overviewed, Covering, NextGroup(Scan)
  PROVE  Covering'
<1> DEFINE c == crawl[Scan]
           d == crawl'[Scan]
<1>1. /\ Scan \in Crawlers /\ crawl = [p \in Crawlers |-> crawl[p]] /\ DOMAIN c = DOMAIN Idle
      /\ Prepare # Scan /\ Domains \intersect Archives = {}
  BY PreparationConstants, CatalogueConstants
     DEF Shaped, Crawlers, PreparationConstants, CatalogueConstants, Groups
<1>2. /\ c.pc = "crawl" /\ c.todo = {} /\ rows' = rows /\ overview' = overview
  BY DEF NextGroup, tables, reported
<1>3. PICK i \in Upcoming(Scan) : \E b \in Beginnings(Scan, i) :
          crawl' = [crawl EXCEPT ![Scan].round = i, ![Scan].todo = b.todo, ![Scan].plan = b.plan]
  BY DEF NextGroup
<1>4. PICK b \in Beginnings(Scan, i) :
          crawl' = [crawl EXCEPT ![Scan].round = i, ![Scan].todo = b.todo, ![Scan].plan = b.plan]
  BY <1>3
<1>5. /\ d.pc = "crawl" /\ d.env = c.env /\ d.round = i /\ d.todo = b.todo /\ d.plan = b.plan
      /\ d.scope = c.scope /\ d.force = c.force /\ d.steady = c.steady /\ d.skipped = c.skipped
  BY <1>1, <1>2, <1>4 DEF Idle
<1> DEFINE e == c.env
           g == Rounds[i].group
<1>6. i \in DOMAIN Rounds /\ Rounds[i].env = e /\ \A j \in Rest(Scan) : i <= j
  BY <1>1 DEF Upcoming, Rest
<1>7. /\ g \in Domains =>
            /\ b.plan = c.plan
            /\ c.force => b.todo = get_domain_folders(overview, g, e)
      /\ g \notin Domains =>
            \E some : /\ b.todo = some \intersect ArchiveFolders(e, g)
                      /\ b.plan = [c.plan EXCEPT ![e] = some]
                      /\ g # R3 => some = c.plan[e]
                      /\ g = R3 /\ c.force => some = StaleLegacy(e)
  <2> DEFINE stale(folders) == filter_fresh_folders(folders, Scanned(e), Recent(e), c.force)
  <2>1. CASE g \in Domains
    <3>1. b \in {[todo |-> some, plan |-> c.plan] :
                     some \in stale(get_domain_folders(overview, g, e))}
      BY <1>1, <1>6, <2>1 DEF Beginnings
    <3>2. PICK some \in stale(get_domain_folders(overview, g, e)) :
              b = [todo |-> some, plan |-> c.plan]
      BY <3>1
    <3>3. c.force => some = get_domain_folders(overview, g, e)
      BY <3>2 DEF filter_fresh_folders
    <3> HIDE DEF g, stale
    <3> QED BY <2>1, <3>2, <3>3
  <2>2. CASE g \notin Domains
    <3>1. b \in {[todo |-> some \intersect ArchiveFolders(e, g),
                  plan |-> [c.plan EXCEPT ![e] = some]] :
                     some \in IF g = R3 THEN stale(StaleLegacy(e)) ELSE {c.plan[e]}}
      BY <1>1, <1>6, <2>2 DEF Beginnings
    <3>2. PICK some \in IF g = R3 THEN stale(StaleLegacy(e)) ELSE {c.plan[e]} :
              b = [todo |-> some \intersect ArchiveFolders(e, g),
                   plan |-> [c.plan EXCEPT ![e] = some]]
      BY <3>1
    <3>3. g = R3 /\ c.force => some = StaleLegacy(e)
      BY <3>2 DEF filter_fresh_folders
    <3>4. g # R3 => some = c.plan[e]
      BY <3>2
    <3> HIDE DEF g, stale
    <3> QED BY <2>2, <3>2, <3>3, <3>4
  <2> QED BY <2>1, <2>2
<1>8. e \in Envs /\ DOMAIN c.plan = Envs
  BY <1>2 DEF Covering
<1>9. DOMAIN b.plan = Envs
  BY <1>7, <1>8
<1>10. ASSUME Whole(c), NEW f \in Listed(overview, e) PROVE Accounted(f)'
  <2>1. c.force /\ c.scope = Domains \union Archives /\ overview # Missing
    BY <1>10 DEF Whole, Covering
  <2>2. Accounted(f) /\ ~AtHand(f)
    BY <1>2, <1>10 DEF Covering, AtHand
  <2>3. CASE Key(e, f) \in Have(rows)
    BY <1>2, <1>5, <2>3 DEF Accounted, Have
  <2>4. CASE \E j \in DOMAIN Rounds : Due(f, j)
    <3>1. PICK j \in DOMAIN Rounds : Due(f, j)
      BY <2>4
    <3>2. ASSUME NEW k \in DOMAIN Rounds, k > c.round, Rounds[k].env = e,
                 Rounds[k].group \in Domains \union Archives
          PROVE  k = i \/ k > i
      <4>1. k \in Rest(Scan)
        BY <1>1, <2>1, <3>2 DEF Rest
      <4> QED BY <1>6, <4>1 DEF Rounds
    <3>3. j > c.round /\ Rounds[j].env = e /\ (j = i \/ j > i)
      BY <3>1, <3>2 DEF Due
    <3>4. CASE Rounds[j].group \in Domains
      <4>1. f \in Exports /\ overview[e][f] = Rounds[j].group
        BY <1>1, <3>1, <3>4 DEF Due
      <4>2. CASE j = i
        <5>1. f \in b.todo
          BY <1>7, <2>1, <3>4, <4>1, <4>2 DEF get_domain_folders
        <5> QED BY <1>5, <1>6, <5>1 DEF Accounted, AtHand, Round
      <4>3. CASE j > i
        BY <1>2, <1>5, <3>3, <3>4, <4>1, <4>3 DEF Accounted, Due
      <4> QED BY <3>3, <4>2, <4>3
    <3>5. CASE Rounds[j].group \in Archives
      <4>1. /\ f \in get_legacy_archive_folders(overview, Rounds[j].group, e)
            /\ \/ f \in c.plan[e]
               \/ \E k \in DOMAIN Rounds : k > c.round /\ Rounds[k].env = e /\ Rounds[k].group = R3
        BY <1>1, <3>1, <3>5 DEF Due
      <4>2. f \in StaleLegacy(e)
        BY <3>5, <4>1 DEF StaleLegacy
      <4>3. f \in get_legacy_archive_folders(overview', Rounds[j].group, d.env)
        BY <1>2, <1>5, <4>1
      <4>4. CASE g = R3 \/ f \in c.plan[e]
        <5>1. g \notin Domains => f \in b.plan[e] /\ (j = i => f \in b.todo)
          <6> SUFFICES ASSUME g \notin Domains PROVE f \in b.plan[e] /\ (j = i => f \in b.todo)
            OBVIOUS
          <6>1. PICK some :
                    /\ b.todo = some \intersect ArchiveFolders(e, g)
                    /\ b.plan = [c.plan EXCEPT ![e] = some]
                    /\ g # R3 => some = c.plan[e]
                    /\ g = R3 /\ c.force => some = StaleLegacy(e)
            BY <1>7
          <6>2. f \in some
            BY <2>1, <4>2, <4>4, <6>1
          <6>3. b.plan[e] = some
            BY <1>8, <6>1
          <6>4. j = i => f \in b.todo
            BY <1>8, <2>1, <4>1, <6>1, <6>2, ArchivesAreRead
          <6> QED BY <6>2, <6>3, <6>4
        <5>2. g \in Domains => f \in b.plan[e] /\ j # i
          BY <1>1, <1>7, <3>5, <4>4 DEF Archives
        <5>3. CASE j = i
          BY <1>5, <1>6, <5>1, <5>2, <5>3 DEF Accounted, AtHand, Round
        <5>4. CASE j > i
          <6>1. f \in d.plan[d.env]
            BY <1>5, <5>1, <5>2
          <6>2. Due(f, j)'
            BY <1>5, <3>3, <3>5, <4>3, <5>4, <6>1 DEF Due, get_legacy_archive_folders, Listed
          <6> QED BY <6>2 DEF Accounted
        <5> QED BY <3>3, <5>3, <5>4
      <4>5. CASE g # R3 /\ f \notin c.plan[e]
        <5>1. PICK k \in DOMAIN Rounds :
                  k > c.round /\ Rounds[k].env = e /\ Rounds[k].group = R3
          BY <4>1, <4>5
        <5>2. k > i
          BY <3>2, <4>5, <5>1 DEF Archives
        <5>3. k <= j
          BY <3>3, <3>5, <5>1, LatestArchiveFirst
        <5>4. j > i
          BY <1>6, <3>3, <5>2, <5>3 DEF Rounds
        <5>5. Due(f, j)'
          BY <1>5, <3>3, <3>5, <4>3, <5>1, <5>2, <5>4
             DEF Due, get_legacy_archive_folders, Listed
        <5> QED BY <5>5 DEF Accounted
      <4> QED BY <4>4, <4>5
    <3> QED BY <3>1, <3>4, <3>5 DEF Due
  <2> QED BY <2>2, <2>3, <2>4 DEF Accounted
<1>11. Whole(d) => Whole(c)
  BY <1>2, <1>5 DEF Whole
<1>12. Whole(c) => overview # Missing
  BY DEF Covering
<1> QED BY <1>2, <1>5, <1>8, <1>9, <1>10, <1>11, <1>12 DEF Covering, Listed

\* Folder by folder; one that cannot be listed is a failure.
LEMMA CrawlFolderCovers ==
  ASSUME Shaped, Covering, NEW f \in crawl[Scan].todo, CrawlFolder(Scan, f)
  PROVE  Covering'
<1> DEFINE c == crawl[Scan]
           d == crawl'[Scan]
           at == Key(Round(Scan).env, f)
<1>1. Scan \in Crawlers /\ crawl = [p \in Crawlers |-> crawl[p]] /\ DOMAIN c = DOMAIN Idle
  BY DEF Shaped, Crawlers
<1>2. c.pc = "crawl" /\ rows' = rows /\ overview' = overview
  BY DEF CrawlFolder, reported
<1>3. /\ d.env = c.env /\ d.plan = c.plan /\ d.round = c.round /\ d.todo = c.todo \ {f}
      /\ d.scope = c.scope /\ d.force = c.force /\ d.steady = c.steady
      /\ \/ at \in Have(rows) /\ d.pc = "crawl" /\ d.skipped = c.skipped
         \/ d.pc = "insert" /\ d.hand = at /\ d.skipped = c.skipped
         \/ d.pc = "crawl" /\ d.skipped = c.skipped \union {at}
  <2>1. \/ /\ at \in Have(rows)
           /\ crawl' = [crawl EXCEPT ![Scan].todo = @ \ {f}]
        \/ crawl' = [crawl EXCEPT ![Scan].pc = "insert", ![Scan].todo = @ \ {f},
                                  ![Scan].hand = at]
        \/ crawl' = [crawl EXCEPT ![Scan].todo = @ \ {f}, ![Scan].skipped = @ \union {at}]
    BY DEF CrawlFolder, Have
  <2> HIDE DEF at
  <2>2. CASE at \in Have(rows) /\ crawl' = [crawl EXCEPT ![Scan].todo = @ \ {f}]
    BY <1>1, <1>2, <2>2 DEF Idle
  <2>3. CASE crawl' = [crawl EXCEPT ![Scan].pc = "insert", ![Scan].todo = @ \ {f},
                                  ![Scan].hand = at]
    BY <1>1, <1>2, <2>3 DEF Idle
  <2>4. CASE crawl' = [crawl EXCEPT ![Scan].todo = @ \ {f}, ![Scan].skipped = @ \union {at}]
    BY <1>1, <1>2, <2>4 DEF Idle
  <2> QED BY <2>1, <2>2, <2>3, <2>4
<1>4. ASSUME Whole(d), NEW x \in Listed(overview, c.env) PROVE Accounted(x)'
  <2>1. Whole(c) /\ d.skipped = c.skipped /\ (at \in Have(rows) \/ (d.pc = "insert" /\ d.hand = at))
    <3> HIDE DEF at, c, d
    <3>1. d.skipped = {} /\ d.scope = Domains \union Archives /\ d.force /\ d.steady
      BY <1>4 DEF Whole
    <3>2. d.skipped = c.skipped /\ (at \in Have(rows) \/ (d.pc = "insert" /\ d.hand = at))
      BY <1>3, <3>1
    <3> QED BY <1>2, <1>3, <3>1, <3>2 DEF Whole
  <2>2. Accounted(x)
    BY <1>4, <2>1 DEF Covering
  <2>3. CASE Key(c.env, x) \in Have(rows)
    BY <1>2, <1>3, <2>3 DEF Accounted, Have
  <2>4. CASE AtHand(x)
    <3>1. Round(Scan).env = c.env /\ x \in c.todo
      BY <1>2, <2>4 DEF AtHand
    <3>2. CASE x = f
      BY <1>2, <1>3, <2>1, <3>1, <3>2 DEF Accounted, AtHand, Have
    <3>3. CASE x # f
      BY <1>3, <3>1, <3>3 DEF Accounted, AtHand, Round
    <3> QED BY <3>2, <3>3
  <2>5. CASE \E i \in DOMAIN Rounds : Due(x, i)
    BY <1>2, <1>3, <2>5 DEF Accounted, Due, get_legacy_archive_folders, Listed
  <2> QED BY <2>2, <2>3, <2>4, <2>5 DEF Accounted
<1>5. c.env \in Envs /\ DOMAIN c.plan = Envs
  BY <1>2 DEF Covering
<1>6. d.pc \in {"crawl", "insert"}
  BY <1>3
<1>7. Whole(d) => overview # Missing
  <2> SUFFICES ASSUME Whole(d) PROVE Whole(c)
    BY DEF Covering
  <2> HIDE DEF at
  <2> QED BY <1>2, <1>3 DEF Whole
<1> HIDE DEF at
<1> QED BY <1>2, <1>3, <1>4, <1>5, <1>6, <1>7 DEF Covering, Listed

\* A row is inserted, or the crawl ends because the row is there.
LEMMA InsertRowCovers ==
  ASSUME Shaped, Paths, Covering, InsertRow(Scan)
  PROVE  Covering'
<1> DEFINE c == crawl[Scan]
           d == crawl'[Scan]
<1>1. Scan \in Crawlers /\ crawl = [p \in Crawlers |-> crawl[p]] /\ DOMAIN c = DOMAIN Idle
  BY DEF Shaped, Crawlers
<1>2. /\ c.pc = "insert" /\ overview' = overview
      /\ c.hand = Key(c.hand.env, c.hand.folder)
  BY <1>1 DEF InsertRow, Paths, Sound, reported
<1>3. CASE c.hand \in Have(rows)
  <2>1. d.pc = "off"
    BY <1>1, <1>3 DEF InsertRow, Idle, Have
  <2> QED BY <1>2, <2>1 DEF Covering, Whole
<1>4. CASE c.hand \notin Have(rows)
  <2>1. /\ d.pc = "crawl" /\ d.env = c.env /\ d.plan = c.plan /\ d.round = c.round
        /\ d.todo = c.todo /\ d.skipped = c.skipped /\ d.scope = c.scope
        /\ d.force = c.force /\ d.steady = c.steady
    BY <1>1, <1>4 DEF InsertRow, Idle, Have
  <2>2. rows' = rows \union {[env |-> c.hand.env, domain |-> Round(Scan).group,
                              folder |-> c.hand.folder]}
    BY <1>4 DEF InsertRow, Have
  <2>3. c.hand \in Have(rows') /\ Have(rows) \subseteq Have(rows')
    <3> DEFINE r == [env |-> c.hand.env, domain |-> Round(Scan).group,
                     folder |-> c.hand.folder]
    <3>1. KeyOf(r) = c.hand /\ r \in rows' /\ rows \subseteq rows'
      BY <1>2, <2>2 DEF KeyOf
    <3> HIDE DEF r
    <3> QED BY <3>1, HaveMore DEF Have
  <2>4. ASSUME Whole(d), NEW x \in Listed(overview, c.env) PROVE Accounted(x)'
    <3>1. Accounted(x)
      BY <1>2, <2>1, <2>4 DEF Covering, Whole
    <3>2. CASE Key(c.env, x) \in Have(rows)
      BY <2>1, <2>3, <3>2 DEF Accounted, Have
    <3>3. CASE AtHand(x)
      BY <2>1, <2>3, <3>3 DEF Accounted, AtHand, Round, Have
    <3>4. CASE \E i \in DOMAIN Rounds : Due(x, i)
      BY <1>2, <2>1, <3>4 DEF Accounted, Due, get_legacy_archive_folders, Listed
    <3> QED BY <3>1, <3>2, <3>3, <3>4 DEF Accounted
  <2>5. c.env \in Envs /\ DOMAIN c.plan = Envs /\ (Whole(d) => overview # Missing)
    BY <1>2, <2>1 DEF Covering, Whole
  <2> QED BY <1>2, <2>1, <2>4, <2>5 DEF Covering, Listed
<1> QED BY <1>3, <1>4

\* A crawl that ends, or has skipped a folder, has nothing to keep.
LEMMA EndsCover ==
  ASSUME Shaped, Covering,
         EndCrawl(Scan) \/ ScanBreaksOff \/ CrawlFails(Scan) \/ ClientFails(Scan)
  PROVE  Covering'
<1> DEFINE c == crawl[Scan]
           d == crawl'[Scan]
<1>1. /\ Scan \in Crawlers /\ crawl = [p \in Crawlers |-> crawl[p]] /\ DOMAIN c = DOMAIN Idle
      /\ Prepare # Scan
  BY PreparationConstants DEF Shaped, Crawlers, PreparationConstants
<1>2. overview' = overview
  BY DEF EndCrawl, ScanBreaksOff, CrawlFails, ClientFails, reported
<1>3. CASE EndCrawl(Scan) \/ ScanBreaksOff \/ CrawlFails(Scan)
  <2>1. d.pc = "off"
    BY <1>1, <1>3 DEF EndCrawl, ScanBreaksOff, CrawlFails, Idle
  <2> QED BY <1>2, <2>1 DEF Covering, Whole
<1>4. CASE ClientFails(Scan)
  <2>1. /\ c.pc = "crawl" /\ d.pc = "crawl" /\ d.env = c.env /\ d.plan = c.plan /\ c.todo # {}
        /\ d.skipped = c.skipped \union Skip(Scan, c.todo)
    BY <1>1, <1>4 DEF ClientFails, Idle
  <2>2. d.skipped # {}
    BY <2>1 DEF Skip
  <2> QED BY <1>2, <2>1, <2>2 DEF Covering, Whole
<1> QED BY <1>3, <1>4

LEMMA CoveringIsKept ==
  ASSUME Shaped, Paths, Overviewed, Covering, [Next]_vars
  PROVE  Covering'
<1>1. CASE Writes
  BY <1>1, SurveyKeepsCovering
<1>2. CASE \E ask \in Scans : StartScan(ask)
  BY <1>2, StartCovers
<1>3. CASE NextGroup(Scan)
  BY <1>3, NextGroupCovers
<1>4. CASE InsertRow(Scan)
  BY <1>4, InsertRowCovers
<1>5. CASE \E f \in crawl[Scan].todo : CrawlFolder(Scan, f)
  BY <1>5, CrawlFolderCovers
<1>6. CASE EndCrawl(Scan) \/ ScanBreaksOff \/ CrawlFails(Scan) \/ ClientFails(Scan)
  BY <1>6, EndsCover
<1>7. CASE ~Writes /\ ~Scanning /\ ~ClientFails(Scan) /\ ~CrawlFails(Scan)
  BY <1>7, ScanRests, RestKeepsCovering
<1> QED
  BY <1>1, <1>2, <1>3, <1>4, <1>5, <1>6, <1>7 DEF Scanning, Crawling

LEMMA CoveringHolds == Spec => []Covering
<1>1. Init => Covering
  <2> SUFFICES ASSUME Init PROVE Covering
    OBVIOUS
  <2>1. overview = Missing /\ crawl[Scan].pc = "off"
    BY DEF Init, Idle, Crawlers
  <2> QED BY <2>1 DEF Covering, Whole
<1>2. Shaped /\ Paths /\ Overviewed /\ Covering /\ [Next]_vars => Covering'
  BY CoveringIsKept
<1> QED BY <1>1, <1>2, PathsHold, OverviewedHolds, PTL DEF Spec

\* A full crawl of everything that gets through its groups without a failure, and
\* during which no survey writes overview.yml, leaves no folder of the overview
\* without a row; for FullCrawlCovers.
THEOREM FullCrawlLeavesNothing == Spec => FullCrawlCovers
<1>1. Covering /\ [Next]_vars =>
          [Complete(Scan) /\ crawl[Scan].force =>
              Listed(overview, crawl[Scan].env) \subseteq Scanned(crawl[Scan].env)]_vars
  <2> DEFINE c == crawl[Scan]
  <2> SUFFICES ASSUME Covering, Complete(Scan), c.force,
                      NEW f \in Listed(overview, c.env)
               PROVE  f \in Scanned(c.env)
    OBVIOUS
  <2>1. c.todo = {} /\ Rest(Scan) = {}
    BY DEF Complete
  <2>2. Whole(c) /\ c.pc = "crawl" /\ c.scope = Domains \union Archives
    BY DEF Whole, Complete
  <2>3. Accounted(f) /\ ~AtHand(f)
    BY <2>1, <2>2 DEF Covering, AtHand
  <2>4. ~ \E i \in DOMAIN Rounds : Due(f, i)
    BY <2>1, <2>2 DEF Due, Rest
  <2>5. Key(c.env, f) \in Have(rows)
    BY <2>3, <2>4 DEF Accounted
  <2>6. PICK r \in rows : KeyOf(r) = Key(c.env, f)
    BY <2>5 DEF Have
  <2>7. r.env = c.env /\ r.folder = f
    BY <2>6 DEF KeyOf, Key
  <2> QED BY <2>6, <2>7 DEF Scanned, Key
<1> QED BY <1>1, CoveringHolds, PTL DEF Spec, FullCrawlCovers
=============================================================================
