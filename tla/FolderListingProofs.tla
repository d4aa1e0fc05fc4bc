------------------------- MODULE FolderListingProofs -------------------------
(***************************************************************************)
(* Theorems about FolderListing, for any directories, names and page sizes *)
(* and any number of changes: types, and what a listing returns of what    *)
(* was there all the while.                                                *)
(***************************************************************************)
EXTENDS FolderListing, FiniteSetTheorems, FunctionTheorems, SequenceTheorems,
        NaturalsInduction, WellFoundedInduction, TLAPS

(* The stack of calls.                                                     *)

LEMMA TopIsFrame ==
  ASSUME NEW s \in Seq(Frame), s # <<>>
  PROVE  Len(s) \in Nat \ {0} /\ Last(s) = s[Len(s)] /\ Last(s) \in Frame
BY DEF Last

LEMMA FrontOfStack ==
  ASSUME NEW s \in Seq(Frame), s # <<>>
  PROVE  /\ Front(s) \in Seq(Frame) /\ Len(Front(s)) = Len(s) - 1
         /\ \A k \in 1..(Len(s) - 1) : Front(s)[k] = s[k]
<1> DEFINE l == Len(s) - 1
<1>1. Len(s) \in Nat \ {0} /\ l \in Nat
  OBVIOUS
<1>2. \A k \in 1..l : s[k] \in Frame
  BY <1>1
<1> HIDE DEF l
<1>3. /\ SubSeq(s, 1, l) \in Seq(Frame)
      /\ Len(SubSeq(s, 1, l)) = IF 1 <= l THEN l - 1 + 1 ELSE 0
      /\ \A k \in 1..(l - 1 + 1) : SubSeq(s, 1, l)[k] = s[1 + k - 1]
  <2>1. 1 \in Int /\ l \in Int
    BY <1>1
  <2> QED BY <1>2, <2>1, SubSeqProperties
<1>4. l - 1 + 1 = l /\ \A k \in 1..l : 1 + k - 1 = k
  BY <1>1
<1>5. \A k \in 1..l : SubSeq(s, 1, l)[k] = s[k]
  BY <1>3, <1>4
<1>6. Len(SubSeq(s, 1, l)) = l
  BY <1>1, <1>3, <1>4
<1> QED BY <1>3, <1>5, <1>6 DEF Front, l

LEMMA ReplacedTop ==
  ASSUME NEW s \in Seq(Frame), s # <<>>, NEW f \in Frame
  PROVE  LET t == Append(Front(s), f)
         IN  /\ t \in Seq(Frame) /\ t # <<>> /\ Len(t) = Len(s) /\ t[Len(s)] = f
             /\ \A k \in 1..(Len(s) - 1) : t[k] = s[k]
BY FrontOfStack, AppendProperties
-----------------------------------------------------------------------------
(* Positions in the order of the server.                                   *)

LEMMA LeastExists ==
  ASSUME NEW some \in SUBSET Nat, some # {}
  PROVE  \E i \in some : \A j \in some : i <= j
<1>1. IsWellFoundedOn(OpToRel(<, Nat), Nat)
  BY NatLessThanWellFounded, Zenon
<1>2. PICK i \in some : \A j \in some : ~(<<j, i>> \in OpToRel(<, Nat))
  BY <1>1, WFMin, Zenon
<1>3. \A j \in some : ~(j < i)
  BY <1>2, Zenon DEF OpToRel
<1> QED BY <1>3

Below(names, n) == {m \in names : m < n}

LEMMA BelowIsFinite ==
  ASSUME NEW names \in SUBSET Nat, NEW n \in Nat
  PROVE  IsFiniteSet(Below(names, n)) /\ Position(names, n) = Cardinality(Below(names, n))
         /\ Position(names, n) \in Nat
<1>1. \A m \in Below(names, n) : m \in Nat /\ m < n
  BY DEF Below
<1>2. Below(names, n) \in SUBSET Nat /\ \A m \in Below(names, n) : m <= n
  BY <1>1
<1>3. IsFiniteSet(Below(names, n))
  BY <1>2, FS_BoundedSetOfNaturals
<1> QED BY <1>3, FS_CardinalityType DEF Position, Below

\* A later name has a later position, and what is published only delays a name.
LEMMA PositionGrows ==
  ASSUME NEW names \in SUBSET Nat, NEW n \in Nat, NEW m \in names, m < n
  PROVE  Position(names, m) < Position(names, n)
<1>0. m \in Nat /\ \A k \in names : k \in Nat
  OBVIOUS
<1>1. Below(names, m) \subseteq Below(names, n)
  <2> SUFFICES ASSUME NEW k \in Below(names, m) PROVE k \in Below(names, n)
    OBVIOUS
  <2>1. k \in names /\ k \in Nat /\ k < m
    BY <1>0 DEF Below
  <2>2. k < n
    BY <1>0, <2>1
  <2> QED BY <2>1, <2>2 DEF Below
<1>2. m \in Below(names, n) /\ m \notin Below(names, m)
  BY <1>0 DEF Below
<1>3. /\ Cardinality(Below(names, m)) <= Cardinality(Below(names, n))
      /\ Cardinality(Below(names, n)) = Cardinality(Below(names, m)) =>
            Below(names, n) = Below(names, m)
  BY <1>0, <1>1, BelowIsFinite, FS_Subset
<1>4. Cardinality(Below(names, n)) # Cardinality(Below(names, m))
  BY <1>2, <1>3
<1>5. /\ Position(names, m) = Cardinality(Below(names, m)) /\ Position(names, m) \in Nat
      /\ Position(names, n) = Cardinality(Below(names, n)) /\ Position(names, n) \in Nat
  BY <1>0, BelowIsFinite
<1> QED BY <1>3, <1>4, <1>5

LEMMA PositionOfMore ==
  ASSUME NEW more \in SUBSET Nat, NEW names \in SUBSET more, NEW n \in Nat
  PROVE  Position(names, n) <= Position(more, n)
<1>1. Below(names, n) \subseteq Below(more, n)
  BY DEF Below
<1>2. IsFiniteSet(Below(more, n))
  BY BelowIsFinite
<1>3. Cardinality(Below(names, n)) <= Cardinality(Below(more, n))
  BY <1>1, <1>2, FS_Subset
<1> QED BY <1>3 DEF Position, Below

\* Names with their positions in a range are at most as many as the range is long.
LEMMA RangeOfPositions ==
  ASSUME NEW names \in SUBSET Nat, NEW low \in Nat, NEW most \in Nat,
         NEW some \in SUBSET names,
         \A n \in some : Position(names, n) \in low..(low + most - 1)
  PROVE  IsFiniteSet(some) /\ Cardinality(some) \in Nat /\ Cardinality(some) <= most
<1> DEFINE F == [n \in some |-> Position(names, n)]
           T == low..(low + most - 1)
<1>1. IsFiniteSet(T) /\ Cardinality(T) = most
  <2>1. low \in Int /\ low + most - 1 \in Int
    OBVIOUS
  <2>2. IsFiniteSet(T) /\ Cardinality(T) = IF low > low + most - 1 THEN 0
                                           ELSE (low + most - 1) - low + 1
    BY <2>1, FS_Interval
  <2> QED BY <2>2
<1>2. \A m, n \in some : F[m] = F[n] => m = n
  <2> SUFFICES ASSUME NEW m \in some, NEW n \in some, Position(names, m) = Position(names, n)
               PROVE  m = n
    OBVIOUS
  <2>1. m \in names /\ n \in names /\ m \in Nat /\ n \in Nat
    OBVIOUS
  <2>2. Position(names, m) \in Nat /\ Position(names, n) \in Nat
    BY <2>1, BelowIsFinite
  <2>3. CASE m < n
    BY <2>1, <2>2, <2>3, PositionGrows
  <2>4. CASE n < m
    BY <2>1, <2>2, <2>4, PositionGrows
  <2> QED BY <2>1, <2>3, <2>4
<1>3. F \in [some -> T]
  OBVIOUS
<1> HIDE DEF F, T
<1>4. F \in Injection(some, T)
  BY <1>2, <1>3, Fun_IsInj
<1>5. IsFiniteSet(some) /\ Cardinality(some) <= Cardinality(T)
  BY <1>1, <1>4, FS_Injection
<1> QED BY <1>1, <1>5, FS_CardinalityType

LEMMA PagesMeet ==
  ASSUME NEW page \in Nat
  PROVE  /\ PageSize \in Nat \ {0} /\ PageSize * page \in Nat
         /\ PageSize * (page + 1) = PageSize * page + PageSize
BY ListingConstants DEF ListingConstants

\* A page is full as long as there is a name after it.
LEMMA FullBefore ==
  ASSUME NEW names \in SUBSET Nat, NEW page \in Nat, NEW n \in names,
         Position(names, n) >= PageSize * (page + 1)
  PROVE  ~IsLast(Slice(names, page))
<1> DEFINE low == PageSize * page
           items == Slice(names, page)
           start == {m \in names : Position(names, m) < low}
           after == {m \in names : Position(names, m) >= low + PageSize}
<1>1. low \in Nat /\ PageSize \in Nat \ {0} /\ PageSize * (page + 1) = low + PageSize
  BY PagesMeet
<1>2. items = {m \in names : Position(names, m) \in low..(low + PageSize - 1)}
  BY <1>1 DEF Slice
<1> HIDE DEF low, items
<1>3. IsFiniteSet(items) /\ Cardinality(items) \in Nat
  BY <1>1, <1>2, RangeOfPositions
<1>4. IsFiniteSet(start) /\ Cardinality(start) \in Nat /\ Cardinality(start) <= low
  <2>1. \A m \in start : Position(names, m) \in 0..(0 + low - 1)
    BY <1>1, BelowIsFinite
  <2>2. start \in SUBSET names
    OBVIOUS
  <2> HIDE DEF start
  <2> QED BY <1>1, <2>1, <2>2, RangeOfPositions
<1>5. PICK first \in after : \A m \in after : first <= m
  <2>1. n \in after
    BY <1>1
  <2>2. after \in SUBSET Nat
    OBVIOUS
  <2> HIDE DEF after
  <2> QED BY <2>1, <2>2, LeastExists
<1>6. first \in Nat /\ Position(names, first) >= low + PageSize
  BY <1>5
<1>7. Below(names, first) \subseteq start \union items
  <2> SUFFICES ASSUME NEW m \in names, m < first PROVE m \in start \union items
    BY DEF Below
  <2>1. m \notin after /\ Position(names, m) \in Nat
    BY <1>5, <1>6, BelowIsFinite
  <2>2. Position(names, m) < low \/ Position(names, m) \in low..(low + PageSize - 1)
    BY <1>1, <2>1
  <2> QED BY <1>2, <2>2
<1> HIDE DEF start
<1>8. /\ IsFiniteSet(start \union items)
      /\ Cardinality(start \union items) <= Cardinality(start) + Cardinality(items)
  <2>1. /\ IsFiniteSet(start \union items)
        /\ Cardinality(start \union items) =
              Cardinality(start) + Cardinality(items) - Cardinality(start \intersect items)
    BY <1>3, <1>4, FS_Union
  <2>2. Cardinality(start \intersect items) \in Nat
    BY <1>3, FS_Subset, FS_CardinalityType
  <2> QED BY <1>3, <1>4, <2>1, <2>2
<1>9. Cardinality(Below(names, first)) <= Cardinality(start \union items)
      /\ Cardinality(start \union items) \in Nat
  BY <1>7, <1>8, FS_Subset, FS_CardinalityType
<1>10. Position(names, first) = Cardinality(Below(names, first))
       /\ Position(names, first) \in Nat
  BY <1>6, BelowIsFinite
<1>11. Cardinality(items) >= PageSize
  BY <1>1, <1>3, <1>4, <1>6, <1>8, <1>9, <1>10
<1> QED BY <1>1, <1>3, <1>11 DEF IsLast, items
-----------------------------------------------------------------------------
(* The directories above a directory, and the path of an item.             *)

LEMMA LiesIn ==
  ASSUME NEW d \in Dirs, NEW n, IsFolder(d, n)
  PROVE  n \in Names /\ SubDir[d][n] \in Dirs \ {Root} /\ Lies(d, n, SubDir[d][n])
BY ListingConstants DEF ListingConstants, IsFolder, Lies

LEMMA AboveHolds ==
  ASSUME NEW d \in Dirs
  PROVE  d \in Above(d) /\ Above(d) \in SUBSET Dirs /\ Upwards(Above(d))
<1>1. d \in Above(d) /\ Above(d) \in SUBSET Dirs
  BY DEF Above
<1>2. ASSUME NEW e \in Above(d), NEW p \in Dirs, NEW n \in Names, Lies(p, n, e)
      PROVE  p \in Above(d)
  <2> SUFFICES ASSUME NEW dirs \in SUBSET Dirs, d \in dirs, Upwards(dirs) PROVE p \in dirs
    BY DEF Above
  <2>1. e \in dirs
    BY DEF Above
  <2> QED BY <1>2, <2>1 DEF Upwards
<1> QED BY <1>1, <1>2 DEF Upwards

\* Above(d) is the smallest such set.
LEMMA AboveIsLeast ==
  ASSUME NEW d \in Dirs, NEW dirs \in SUBSET Dirs, d \in dirs, Upwards(dirs)
  PROVE  Above(d) \subseteq dirs
BY DEF Above

\* What lies above the directory that d lies in lies above d.
LEMMA AboveOfParent ==
  ASSUME NEW d \in Dirs, NEW p \in Dirs, NEW n \in Names, Lies(p, n, d)
  PROVE  Above(p) \subseteq Above(d)
<1>1. p \in Above(d)
  BY AboveHolds DEF Upwards
<1> QED BY <1>1, AboveHolds, AboveIsLeast

\* A directory above d other than d has one of those above d in it.
LEMMA AboveHasBelow ==
  ASSUME NEW d \in Dirs, NEW e \in Above(d), e # d
  PROVE  \E n \in Names, c \in Above(d) : Lies(e, n, c)
<1> SUFFICES ASSUME \A n \in Names, c \in Above(d) : ~Lies(e, n, c) PROVE FALSE
  OBVIOUS
<1> DEFINE dirs == Above(d) \ {e}
<1>1. d \in dirs /\ dirs \in SUBSET Dirs
  BY AboveHolds
<1>2. Upwards(dirs)
  BY AboveHolds DEF Upwards
<1>3. Above(d) \subseteq dirs
  BY <1>1, <1>2, AboveIsLeast
<1> QED BY <1>3

IsDepth(depth) ==
    /\ depth \in [Dirs -> 0..Cardinality(Dirs)]
    /\ \A d, e \in Dirs : \A n \in Names : Lies(d, n, e) => depth[e] = depth[d] + 1

LEMMA DepthExists == \E depth : IsDepth(depth) /\ \A d \in Dirs : depth[d] \in Nat
<1>1. PICK depth \in [Dirs -> 0..Cardinality(Dirs)] :
            \A d, e \in Dirs : \A n \in Names : Lies(d, n, e) => depth[e] = depth[d] + 1
  BY DirectoriesArePaths DEF DirectoriesArePaths
<1>2. \A d \in Dirs : depth[d] \in Nat
  BY <1>1
<1> QED BY <1>1, <1>2 DEF IsDepth

LEMMA AboveIsHigher ==
  ASSUME NEW depth, IsDepth(depth), \A e \in Dirs : depth[e] \in Nat,
         NEW d \in Dirs, NEW e \in Above(d), e # d
  PROVE  depth[e] < depth[d]
<1> DEFINE dirs == {c \in Dirs : c = d \/ depth[c] < depth[d]}
<1>1. dirs \in SUBSET Dirs /\ d \in dirs
  OBVIOUS
<1>2. Upwards(dirs)
  <2> SUFFICES ASSUME NEW c \in dirs, NEW p \in Dirs, NEW n \in Names, Lies(p, n, c)
               PROVE  p \in dirs
    BY DEF Upwards
  <2>1. c \in Dirs /\ depth[c] = depth[p] + 1 /\ depth[p] \in Nat /\ depth[c] \in Nat
        /\ depth[d] \in Nat
    BY DEF IsDepth
  <2>2. depth[c] <= depth[d]
    BY <2>1
  <2> QED BY <2>1, <2>2
<1>3. Above(d) \subseteq dirs
  <2> HIDE DEF dirs
  <2> QED BY <1>1, <1>2, AboveIsLeast
<1> QED BY <1>3

\* No two directories above one another are equally deep.
LEMMA AboveIsAChain ==
  ASSUME NEW depth, IsDepth(depth), \A e \in Dirs : depth[e] \in Nat,
         NEW d \in Dirs, NEW e1 \in Above(d), NEW e2 \in Above(d), depth[e1] = depth[e2]
  PROVE  e1 = e2
<1> DEFINE dirs == {c \in Above(d) : \A e \in Above(d) : depth[e] = depth[c] => e = c}
<1>0. Above(d) \in SUBSET Dirs /\ d \in Above(d) /\ Upwards(Above(d))
  BY AboveHolds
<1>1. d \in dirs
  <2>1. \A e \in Above(d) : e # d => depth[e] < depth[d]
    BY AboveIsHigher
  <2>2. \A e \in Above(d) : depth[e] \in Nat
    BY <1>0
  <2> QED BY <1>0, <2>1, <2>2
<1>2. Upwards(dirs)
  <2> SUFFICES ASSUME NEW c \in dirs, NEW p \in Dirs, NEW n \in Names, Lies(p, n, c)
               PROVE  p \in dirs
    BY DEF Upwards
  <2>1. p \in Above(d) /\ c \in Above(d) /\ c \in Dirs
    BY <1>0 DEF Upwards
  <2>2. ASSUME NEW q \in Above(d), depth[q] = depth[p] PROVE q = p
    <3>1. depth[c] = depth[p] + 1 /\ q \in Dirs /\ depth[p] \in Nat /\ depth[c] \in Nat
          /\ depth[d] \in Nat
      BY <1>0, <2>1 DEF IsDepth
    <3>2. c # d => depth[c] < depth[d]
      BY <2>1, AboveIsHigher
    <3>3. depth[q] < depth[d]
      BY <2>2, <3>1, <3>2
    <3>4. q # d
      BY <3>1, <3>3
    <3>5. PICK m \in Names, b \in Above(d) : Lies(q, m, b)
      BY <3>4, AboveHasBelow
    <3>6. b \in Dirs /\ depth[b] = depth[c]
      BY <1>0, <2>2, <3>1, <3>5 DEF IsDepth
    <3>7. b = c
      BY <3>5, <3>6
    <3> QED BY <2>1, <3>1, <3>5, <3>7, DirectoriesArePaths DEF DirectoriesArePaths
  <2> QED BY <2>1, <2>2
<1>3. Above(d) \subseteq dirs
  <2>1. dirs \in SUBSET Dirs
    BY <1>0
  <2> HIDE DEF dirs
  <2> QED BY <1>1, <1>2, <2>1, AboveIsLeast
<1> QED BY <1>3

\* Every directory lies below the root.
LEMMA RootIsAbove ==
  ASSUME NEW d \in Dirs
  PROVE  Root \in Above(d)
<1>1. PICK depth : IsDepth(depth) /\ \A e \in Dirs : depth[e] \in Nat
  BY DepthExists
<1> DEFINE depths == {depth[e] : e \in Above(d)}
<1>2. Above(d) \in SUBSET Dirs /\ d \in Above(d) /\ Upwards(Above(d))
  BY AboveHolds
<1>3. depths \in SUBSET Nat /\ depths # {}
  BY <1>1, <1>2
<1>4. PICK least \in depths : \A k \in depths : least <= k
  <2> HIDE DEF depths
  <2> QED BY <1>3, LeastExists
<1>5. PICK e \in Above(d) : \A c \in Above(d) : depth[e] <= depth[c]
  BY <1>4
<1>6. CASE e = Root
  BY <1>6
<1>7. CASE e # Root
  <2>1. PICK p \in Dirs, n \in Names : Lies(p, n, e)
    BY <1>2, <1>7, DirectoriesArePaths DEF DirectoriesArePaths
  <2>2. p \in Above(d) /\ e \in Dirs
    BY <1>2, <2>1 DEF Upwards
  <2>3. depth[e] = depth[p] + 1 /\ depth[p] \in Nat
    BY <1>1, <2>1, <2>2 DEF IsDepth
  <2> QED BY <1>5, <2>2, <2>3
<1> QED BY <1>6, <1>7

LEMMA PathHolds ==
  ASSUME NEW i \in Item
  PROVE  /\ i \in Path(i) /\ Path(i) \in SUBSET Item
         /\ i[1] \in Dirs /\ i[2] \in Names
         /\ \A j \in Path(i) : j[1] \in Above(i[1]) /\ j[1] \in Dirs /\ j[2] \in Names
<1>1. i[1] \in Dirs /\ i[2] \in Names
  BY DEF Item
<1>2. i \in Path(i) /\ Path(i) \in SUBSET Item
  BY DEF Path
<1>3. ASSUME NEW j \in Path(i) PROVE j[1] \in Above(i[1]) /\ j[1] \in Dirs /\ j[2] \in Names
  <2>1. j[1] \in Dirs /\ j[2] \in Names
    BY <1>2 DEF Item
  <2>2. CASE j = i
    BY <1>1, <2>1, <2>2, AboveHolds
  <2>3. CASE j # i
    <3>1. IsFolder(j[1], j[2]) /\ SubDir[j[1]][j[2]] \in Above(i[1])
      BY <2>3 DEF Path
    <3>2. Lies(j[1], j[2], SubDir[j[1]][j[2]])
      BY <3>1 DEF Lies
    <3> QED BY <1>1, <2>1, <3>1, <3>2, AboveHolds DEF Upwards
  <2> QED BY <2>2, <2>3
<1> QED BY <1>1, <1>2, <1>3

\* The path goes up: the folder in which a directory of the path lies is on it.
LEMMA PathGoesUp ==
  ASSUME NEW i \in Item, NEW j \in Path(i), NEW d \in Dirs, NEW n \in Names, Lies(d, n, j[1])
  PROVE  <<d, n>> \in Path(i)
<1>1. j[1] \in Above(i[1]) /\ <<d, n>> \in Item
  BY PathHolds DEF Item
<1> QED BY <1>1 DEF Path, Lies

\* And down: what is on it, short of the item, is a folder that leads to the next one.
LEMMA PathGoesDown ==
  ASSUME NEW i \in Item, NEW j \in Path(i), j # i
  PROVE  /\ IsFolder(j[1], j[2])
         /\ \E k \in Path(i) : k[1] = SubDir[j[1]][j[2]]
<1> DEFINE e == SubDir[j[1]][j[2]]
<1>1. IsFolder(j[1], j[2]) /\ e \in Above(i[1]) /\ i[1] \in Dirs /\ i \in Path(i)
  BY PathHolds DEF Path
<1>2. CASE e = i[1]
  BY <1>1, <1>2
<1>3. CASE e # i[1]
  <2>1. PICK n \in Names, c \in Above(i[1]) : Lies(e, n, c)
    BY <1>1, <1>3, AboveHasBelow
  <2>2. e \in Dirs
    BY <1>1, AboveHolds
  <2>3. <<e, n>> \in Path(i)
    BY <2>1, <2>2 DEF Path, Item, Lies
  <2> QED BY <1>1, <2>3
<1> QED BY <1>1, <1>2, <1>3

\* It meets a directory once.
LEMMA PathMeetsOnce ==
  ASSUME NEW i \in Item, NEW j \in Path(i), NEW k \in Path(i), j[1] = k[1]
  PROVE  j = k
<1>1. PICK depth : IsDepth(depth) /\ \A e \in Dirs : depth[e] \in Nat
  BY DepthExists
<1>2. i[1] \in Dirs /\ j \in Item /\ k \in Item
  BY PathHolds
<1>3. ASSUME NEW x \in Path(i), x # i
      PROVE  /\ x[1] \in Dirs /\ x[2] \in Names /\ SubDir[x[1]][x[2]] \in Above(i[1])
             /\ Lies(x[1], x[2], SubDir[x[1]][x[2]])
             /\ depth[SubDir[x[1]][x[2]]] = depth[x[1]] + 1
             /\ depth[x[1]] < depth[i[1]]
  <2>1. IsFolder(x[1], x[2]) /\ SubDir[x[1]][x[2]] \in Above(i[1]) /\ x[1] \in Dirs
        /\ x[2] \in Names /\ x[1] \in Above(i[1])
    BY <1>3, PathHolds DEF Path
  <2> DEFINE e == SubDir[x[1]][x[2]]
  <2>2. Lies(x[1], x[2], e) /\ e \in Dirs
    BY <2>1, LiesIn
  <2>3. depth[e] = depth[x[1]] + 1
    BY <1>1, <2>1, <2>2 DEF IsDepth
  <2>4. depth[e] <= depth[i[1]]
    <3>1. e # i[1] => depth[e] < depth[i[1]]
      BY <1>1, <1>2, <2>1, AboveIsHigher
    <3>2. depth[e] \in Nat /\ depth[i[1]] \in Nat
      BY <1>1, <1>2, <2>2
    <3> QED BY <3>1, <3>2
  <2>5. depth[x[1]] \in Nat /\ depth[i[1]] \in Nat
    BY <1>1, <1>2, <2>1
  <2> HIDE DEF e
  <2>6. depth[x[1]] < depth[i[1]]
    BY <2>3, <2>4, <2>5
  <2> QED BY <2>1, <2>2, <2>3, <2>6 DEF e
<1>4. CASE j = i \/ k = i
  <2>1. ~(depth[i[1]] < depth[i[1]])
    BY <1>1, <1>2
  <2> QED BY <1>3, <1>4, <2>1
<1>5. CASE j # i /\ k # i
  <2>1. SubDir[j[1]][j[2]] = SubDir[k[1]][k[2]]
    BY <1>1, <1>2, <1>3, <1>5, AboveIsAChain
  <2>2. j[2] = k[2]
    <3>1. SubDir[j[1]][j[2]] \in Dirs
      BY <1>2, <1>3, <1>5, AboveHolds
    <3> QED BY <1>3, <1>5, <2>1, <3>1, DirectoriesArePaths DEF DirectoriesArePaths
  <2> QED BY <1>2, <2>2 DEF Item
<1> QED BY <1>4, <1>5

LEMMA PathStartsAtRoot ==
  ASSUME NEW i \in Item
  PROVE  /\ \E j \in Path(i) : j[1] = Root
         /\ i[1] = Root => Path(i) = {i}
<1>1. i[1] \in Dirs /\ i \in Path(i) /\ Root \in Above(i[1])
  BY PathHolds, RootIsAbove
<1>2. CASE i[1] = Root
  <2>1. ASSUME NEW j \in Path(i), j # i PROVE FALSE
    <3>1. IsFolder(j[1], j[2]) /\ SubDir[j[1]][j[2]] \in Above(Root) /\ j[1] \in Dirs
      BY <1>2, <2>1, PathHolds DEF Path
    <3>2. Above(Root) \subseteq {Root}
      <4>1. Root \in Dirs /\ \A d \in Dirs, n \in Names : ~Lies(d, n, Root)
        BY ListingConstants DEF ListingConstants, Lies, IsFolder
      <4>2. Upwards({Root}) /\ {Root} \in SUBSET Dirs
        BY <4>1 DEF Upwards
      <4> QED BY <4>1, <4>2, AboveIsLeast
    <3> QED BY <3>1, <3>2, LiesIn
  <2> QED BY <1>1, <1>2, <2>1
<1>3. CASE i[1] # Root
  <2>1. PICK n \in Names, c \in Above(i[1]) : Lies(Root, n, c)
    BY <1>1, <1>3, AboveHasBelow
  <2>2. <<Root, n>> \in Path(i)
    BY <2>1, ListingConstants DEF ListingConstants, Path, Item, Lies
  <2> QED BY <1>3, <2>2
<1> QED BY <1>2, <1>3
-----------------------------------------------------------------------------
(* What the steps of a listing do to the stack.                            *)

\* A page is descended into for its folders, and only by the recursive listing.
FoldersOnly ==
    \A k \in 1..Len(stack) :
        /\ \A n \in stack[k].into : IsFolder(stack[k].dir, n)
        /\ ~deep => stack[k].into = {}

TypeInv == TypeOK /\ FoldersOnly

LEMMA ListingHasTop ==
  ASSUME TypeOK, state = "listing"
  PROVE  /\ stack \in Seq(Frame) /\ stack # <<>> /\ Len(stack) \in Nat \ {0}
         /\ Top = stack[Len(stack)] /\ Top \in Frame
         /\ Top.dir \in Dirs /\ Top.page \in Nat
BY TopIsFrame DEF TypeOK, Top, Frame

LEMMA FetchEffect ==
  ASSUME TypeOK, FetchPage
  PROVE  LET K == Len(stack)
             items == Slice(content[stack[K].dir], stack[K].page)
         IN  /\ state = "listing" /\ ~stack[K].fetched
             /\ stack' \in Seq(Frame) /\ stack' # <<>> /\ Len(stack') = K
             /\ stack'[K].dir = stack[K].dir /\ stack'[K].page = stack[K].page
             /\ stack'[K].fetched /\ stack'[K].into = Folders(items)
             /\ stack'[K].full = ~IsLast(items)
             /\ \A k \in 1..(K - 1) : stack'[k] = stack[k]
             /\ out' = Collected(items)
             /\ UNCHANGED <<content, state, deep, withdrawn, published, changes>>
<1> DEFINE items == Slice(content[Top.dir], Top.page)
           f == [Top EXCEPT !.fetched = TRUE, !.into = Folders(items), !.full = ~IsLast(items)]
<1>1. state = "listing" /\ ~Top.fetched /\ stack' = Append(Front(stack), f)
      /\ out' = Collected(items)
      /\ UNCHANGED <<content, state, deep, withdrawn, published, changes>>
  BY DEF FetchPage, Replaced
<1>2. /\ stack \in Seq(Frame) /\ stack # <<>> /\ Top = stack[Len(stack)] /\ Top \in Frame
      /\ Top.dir \in Dirs
  BY <1>1, ListingHasTop
<1>3. f \in Frame
  <2>1. items \subseteq Names
    BY <1>2 DEF TypeOK, Slice
  <2>2. Folders(items) \in SUBSET Names
    BY <2>1 DEF Folders
  <2>3. (~IsLast(items)) \in BOOLEAN
    BY DEF IsLast
  <2> HIDE DEF items
  <2> QED BY <1>2, <2>2, <2>3 DEF Frame
<1>4. /\ f.dir = Top.dir /\ f.page = Top.page /\ f.fetched
      /\ f.into = Folders(items) /\ f.full = ~IsLast(items)
  BY <1>2 DEF Frame
<1> HIDE DEF f
<1>5. /\ stack' \in Seq(Frame) /\ stack' # <<>> /\ Len(stack') = Len(stack)
      /\ stack'[Len(stack)] = f /\ \A k \in 1..(Len(stack) - 1) : stack'[k] = stack[k]
  BY <1>1, <1>2, <1>3, ReplacedTop
<1> QED BY <1>1, <1>2, <1>4, <1>5

LEMMA DescendEffect ==
  ASSUME TypeInv, Descend
  PROVE  LET K == Len(stack)
         IN  \E n \in stack[K].into :
             /\ IsFolder(stack[K].dir, n)
             /\ state = "listing" /\ stack[K].fetched /\ K \in Nat \ {0}
             /\ stack' \in Seq(Frame) /\ stack' # <<>> /\ Len(stack') = K + 1
             /\ stack'[K].dir = stack[K].dir /\ stack'[K].page = stack[K].page
             /\ stack'[K].fetched /\ stack'[K].into = stack[K].into \ {n}
             /\ stack'[K].full = stack[K].full
             /\ stack'[K + 1] = Open(SubDir[stack[K].dir][n], 0)
             /\ \A k \in 1..(K - 1) : stack'[k] = stack[k]
             /\ UNCHANGED <<content, state, deep, out, withdrawn, published, changes>>
<1> DEFINE K == Len(stack)
           n == CHOOSE m \in Top.into : \A k \in Top.into : m <= k
           f == [Top EXCEPT !.into = @ \ {n}]
           g == Open(SubDir[Top.dir][n], 0)
<1>1. state = "listing" /\ Top.fetched /\ Top.into # {}
      /\ stack' = Append(Append(Front(stack), f), g)
      /\ UNCHANGED <<content, state, deep, out, withdrawn, published, changes>>
  BY DEF Descend, Replaced
<1>2. /\ stack \in Seq(Frame) /\ stack # <<>> /\ K \in Nat \ {0}
      /\ Top = stack[K] /\ Top \in Frame /\ Top.dir \in Dirs
  BY <1>1, ListingHasTop DEF TypeInv
<1>3. n \in Top.into
  <2>1. Top.into \in SUBSET Nat
    BY <1>2, ListingConstants DEF ListingConstants, Frame
  <2>2. \E m \in Top.into : \A k \in Top.into : m <= k
    BY <1>1, <2>1, LeastExists
  <2> QED BY <2>2
<1> HIDE DEF n
<1>4. IsFolder(Top.dir, n)
  BY <1>2, <1>3 DEF TypeInv, FoldersOnly
<1>5. g \in Frame
  BY <1>2, <1>4, LiesIn DEF Open, Frame
<1>6. f \in Frame
  BY <1>2 DEF Frame
<1>7. /\ f.dir = Top.dir /\ f.page = Top.page /\ f.fetched
      /\ f.into = Top.into \ {n} /\ f.full = Top.full
  BY <1>1, <1>2 DEF Frame
<1> HIDE DEF f, g
<1> DEFINE t == Append(Front(stack), f)
<1>8. /\ t \in Seq(Frame) /\ Len(t) = K /\ t[K] = f
      /\ \A k \in 1..(K - 1) : t[k] = stack[k]
  BY <1>2, <1>6, ReplacedTop
<1> HIDE DEF t
<1>9. /\ stack' \in Seq(Frame) /\ stack' # <<>> /\ Len(stack') = K + 1
      /\ stack'[K + 1] = g /\ \A k \in 1..K : stack'[k] = t[k]
  BY <1>1, <1>5, <1>8, AppendProperties DEF t
<1>10. stack'[K] = f /\ \A k \in 1..(K - 1) : stack'[k] = stack[k]
  BY <1>2, <1>8, <1>9
<1>11. /\ stack'[K + 1] = Open(SubDir[stack[K].dir][n], 0)
       /\ stack'[K].dir = stack[K].dir /\ stack'[K].page = stack[K].page
       /\ stack'[K].fetched /\ stack'[K].into = stack[K].into \ {n}
       /\ stack'[K].full = stack[K].full
  <2>1. g = Open(SubDir[stack[K].dir][n], 0)
    BY <1>2 DEF g
  <2>2. stack'[K] = f
    BY <1>10
  <2> QED BY <1>2, <1>7, <1>9, <2>1, <2>2
<1>12. n \in stack[K].into /\ IsFolder(stack[K].dir, n)
  BY <1>2, <1>3, <1>4
<1>13. /\ state = "listing" /\ stack[K].fetched /\ K \in Nat \ {0}
       /\ UNCHANGED <<content, state, deep, out, withdrawn, published, changes>>
  BY <1>1, <1>2
<1> QED BY <1>9, <1>10, <1>11, <1>12, <1>13, Zenon

LEMMA NextPageEffect ==
  ASSUME TypeOK, NextPage
  PROVE  LET K == Len(stack)
         IN  /\ state = "listing" /\ stack[K].fetched /\ stack[K].into = {} /\ stack[K].full
             /\ stack' \in Seq(Frame) /\ stack' # <<>> /\ Len(stack') = K
             /\ stack'[K] = Open(stack[K].dir, stack[K].page + 1)
             /\ \A k \in 1..(K - 1) : stack'[k] = stack[k]
             /\ UNCHANGED <<content, state, deep, out, withdrawn, published, changes>>
<1>1. /\ state = "listing" /\ Top.fetched /\ Top.into = {} /\ Top.full
      /\ stack' = Append(Front(stack), Open(Top.dir, Top.page + 1))
      /\ UNCHANGED <<content, state, deep, out, withdrawn, published, changes>>
  BY DEF NextPage, Replaced
<1>2. /\ stack \in Seq(Frame) /\ stack # <<>> /\ Top = stack[Len(stack)]
      /\ Top.dir \in Dirs /\ Top.page \in Nat
  BY <1>1, ListingHasTop
<1>3. Open(Top.dir, Top.page + 1) \in Frame
  BY <1>2 DEF Open, Frame
<1> QED BY <1>1, <1>2, <1>3, ReplacedTop

LEMMA ReturnEffect ==
  ASSUME TypeOK, Return
  PROVE  LET K == Len(stack)
         IN  /\ state = "listing" /\ stack[K].fetched /\ stack[K].into = {} /\ ~stack[K].full
             /\ K \in Nat \ {0} /\ stack' \in Seq(Frame) /\ Len(stack') = K - 1
             /\ \A k \in 1..(K - 1) : stack'[k] = stack[k]
             /\ state' = IF stack' = <<>> THEN "done" ELSE "listing"
             /\ UNCHANGED <<content, deep, out, withdrawn, published, changes>>
<1>1. /\ state = "listing" /\ Top.fetched /\ Top.into = {} /\ ~Top.full
      /\ stack' = Front(stack)
      /\ state' = IF Len(stack) = 1 THEN "done" ELSE "listing"
      /\ UNCHANGED <<content, deep, out, withdrawn, published, changes>>
  BY DEF Return
<1>2. /\ stack \in Seq(Frame) /\ stack # <<>> /\ Top = stack[Len(stack)]
      /\ Len(stack) \in Nat \ {0}
  BY <1>1, ListingHasTop
<1>3. /\ stack' \in Seq(Frame) /\ Len(stack') = Len(stack) - 1
      /\ \A k \in 1..(Len(stack) - 1) : stack'[k] = stack[k]
  BY <1>1, <1>2, FrontOfStack
<1>4. stack' = <<>> <=> Len(stack) = 1
  BY <1>2, <1>3, EmptySeq
<1> QED BY <1>1, <1>2, <1>3, <1>4
-----------------------------------------------------------------------------
(* Types.                                                                  *)

\* The calls in progress lie one below the other.
Chained == \A k \in 1..(Len(stack) - 1) :
              \E n \in DOMAIN SubDir[stack[k].dir] :
                 SubDir[stack[k].dir][n] = stack[k + 1].dir

LEMMA CollectedIsTyped ==
  ASSUME out \in [Item -> 0..2], NEW items
  PROVE  Collected(items) \in [Item -> 0..2]
BY DEF Collected, OneMore

LEMMA FetchKeepsTypes ==
  ASSUME TypeInv, FetchPage
  PROVE  TypeInv'
<1> DEFINE K == Len(stack)
           items == Slice(content[stack[K].dir], stack[K].page)
<1>1. /\ state = "listing" /\ stack' \in Seq(Frame) /\ stack' # <<>> /\ Len(stack') = K
      /\ stack'[K].dir = stack[K].dir /\ stack'[K].into = Folders(items)
      /\ \A k \in 1..(K - 1) : stack'[k] = stack[k]
      /\ out' = Collected(items)
      /\ UNCHANGED <<content, state, deep, withdrawn, published, changes>>
  BY FetchEffect DEF TypeInv
<1>2. K \in Nat \ {0} /\ Top = stack[K]
  BY <1>1, ListingHasTop DEF TypeInv
<1> HIDE DEF items
<1>3. \A k \in 1..K : stack'[k].dir = stack[k].dir
  BY <1>1, <1>2
<1>4. Chained'
  <2> SUFFICES ASSUME NEW k \in 1..(K - 1)
               PROVE  \E n \in DOMAIN SubDir[stack'[k].dir] :
                         SubDir[stack'[k].dir][n] = stack'[k + 1].dir
    BY <1>1 DEF Chained
  <2>1. k \in 1..K /\ k + 1 \in 1..K
    BY <1>2
  <2> QED BY <1>3, <2>1 DEF TypeInv, TypeOK
<1>5. out' \in [Item -> 0..2]
  BY <1>1, CollectedIsTyped DEF TypeInv, TypeOK
<1>6. FoldersOnly'
  <2> SUFFICES ASSUME NEW k \in 1..K
               PROVE  /\ \A n \in stack'[k].into : IsFolder(stack'[k].dir, n)
                      /\ ~deep => stack'[k].into = {}
    BY <1>1 DEF FoldersOnly
  <2>1. CASE k = K
    BY <1>1, <1>2, <2>1 DEF Folders
  <2>2. CASE k # K
    <3>1. k \in 1..(K - 1)
      BY <1>2, <2>2
    <3> QED BY <1>1, <3>1 DEF TypeInv, FoldersOnly
  <2> QED BY <2>1, <2>2
<1> QED BY <1>1, <1>4, <1>5, <1>6 DEF TypeInv, TypeOK, Chained

LEMMA DescendKeepsTypes ==
  ASSUME TypeInv, Descend
  PROVE  TypeInv'
<1> DEFINE K == Len(stack)
<1>1. PICK m \in stack[K].into :
        /\ IsFolder(stack[K].dir, m)
        /\ state = "listing" /\ K \in Nat \ {0}
        /\ stack' \in Seq(Frame) /\ stack' # <<>> /\ Len(stack') = K + 1
        /\ stack'[K].dir = stack[K].dir /\ stack'[K].into = stack[K].into \ {m}
        /\ stack'[K + 1] = Open(SubDir[stack[K].dir][m], 0)
        /\ \A k \in 1..(K - 1) : stack'[k] = stack[k]
        /\ UNCHANGED <<content, state, deep, out, withdrawn, published, changes>>
  BY DescendEffect
<1>2. \A k \in 1..K : stack'[k].dir = stack[k].dir /\ stack'[k].into \subseteq stack[k].into
  BY <1>1
<1>3. Chained'
  <2> SUFFICES ASSUME NEW k \in 1..K
               PROVE  \E n \in DOMAIN SubDir[stack'[k].dir] :
                         SubDir[stack'[k].dir][n] = stack'[k + 1].dir
    BY <1>1 DEF Chained
  <2>1. CASE k = K
    BY <1>1, <2>1 DEF IsFolder, Open
  <2>2. CASE k # K
    <3>1. k \in 1..(K - 1) /\ k + 1 \in 1..K
      BY <1>1, <2>2
    <3> QED BY <1>2, <3>1 DEF TypeInv, TypeOK
  <2> QED BY <2>1, <2>2
<1>4. FoldersOnly'
  <2> SUFFICES ASSUME NEW k \in 1..(K + 1)
               PROVE  /\ \A n \in stack'[k].into : IsFolder(stack'[k].dir, n)
                      /\ ~deep => stack'[k].into = {}
    BY <1>1 DEF FoldersOnly
  <2>1. CASE k = K + 1
    BY <1>1, <2>1 DEF Open
  <2>2. CASE k # K + 1
    <3>1. k \in 1..K
      BY <1>1, <2>2
    <3> QED BY <1>2, <3>1 DEF TypeInv, FoldersOnly
  <2> QED BY <2>1, <2>2
<1> QED BY <1>1, <1>3, <1>4 DEF TypeInv, TypeOK, Chained

LEMMA NextPageKeepsTypes ==
  ASSUME TypeInv, NextPage
  PROVE  TypeInv'
<1> DEFINE K == Len(stack)
<1>1. /\ state = "listing" /\ stack' \in Seq(Frame) /\ stack' # <<>> /\ Len(stack') = K
      /\ stack'[K] = Open(stack[K].dir, stack[K].page + 1)
      /\ \A k \in 1..(K - 1) : stack'[k] = stack[k]
      /\ UNCHANGED <<content, state, deep, out, withdrawn, published, changes>>
  BY NextPageEffect DEF TypeInv
<1>2. K \in Nat \ {0}
  BY <1>1, ListingHasTop DEF TypeInv
<1>3. \A k \in 1..K : /\ stack'[k].dir = stack[k].dir
                      /\ stack'[k].into = stack[k].into \/ stack'[k].into = {}
  BY <1>1, <1>2 DEF Open
<1>4. Chained'
  <2> SUFFICES ASSUME NEW k \in 1..(K - 1)
               PROVE  \E n \in DOMAIN SubDir[stack'[k].dir] :
                         SubDir[stack'[k].dir][n] = stack'[k + 1].dir
    BY <1>1 DEF Chained
  <2>1. k \in 1..K /\ k + 1 \in 1..K
    BY <1>2
  <2> QED BY <1>3, <2>1 DEF TypeInv, TypeOK
<1>5. FoldersOnly'
  BY <1>1, <1>3 DEF TypeInv, FoldersOnly
<1> QED BY <1>1, <1>4, <1>5 DEF TypeInv, TypeOK, Chained

LEMMA ReturnKeepsTypes ==
  ASSUME TypeInv, Return
  PROVE  TypeInv'
<1> DEFINE K == Len(stack)
<1>1. /\ K \in Nat \ {0} /\ stack' \in Seq(Frame) /\ Len(stack') = K - 1
      /\ \A k \in 1..(K - 1) : stack'[k] = stack[k]
      /\ state' = IF stack' = <<>> THEN "done" ELSE "listing"
      /\ UNCHANGED <<content, deep, out, withdrawn, published, changes>>
  BY ReturnEffect DEF TypeInv
<1>2. Chained'
  <2> SUFFICES ASSUME NEW k \in 1..((K - 1) - 1)
               PROVE  \E n \in DOMAIN SubDir[stack'[k].dir] :
                         SubDir[stack'[k].dir][n] = stack'[k + 1].dir
    BY <1>1 DEF Chained
  <2>1. k \in 1..(K - 1) /\ k + 1 \in 1..(K - 1)
    BY <1>1
  <2> QED BY <1>1, <2>1 DEF TypeInv, TypeOK
<1>3. FoldersOnly'
  <2>1. \A k \in 1..(K - 1) : k \in 1..K
    BY <1>1
  <2> QED BY <1>1, <2>1 DEF TypeInv, FoldersOnly
<1> QED BY <1>1, <1>2, <1>3 DEF TypeInv, TypeOK, Chained

LEMMA InitialTypes == Init => TypeInv
<1> SUFFICES ASSUME Init PROVE TypeInv
  OBVIOUS
<1>1. MaxChanges \in Nat
  BY ListingConstants DEF ListingConstants
<1>2. stack = <<>> /\ Len(stack) = 0 /\ stack \in Seq(Frame)
  BY EmptySeq DEF Init
<1>3. out \in [Item -> 0..2]
  BY DEF Init, Nothing
<1>4. 1..Len(stack) = {} /\ 1..(Len(stack) - 1) = {}
  BY <1>2
<1>5. content \in [Dirs -> SUBSET Names] /\ state = "idle" /\ changes \in 0..MaxChanges
  BY <1>1 DEF Init
<1>8. deep \in BOOLEAN /\ withdrawn \subseteq Item /\ published \subseteq Item
  BY Zenon DEF Init
<1>6. FoldersOnly
  BY <1>4 DEF FoldersOnly
<1>7. \A k \in 1..(Len(stack) - 1) :
            \E n \in DOMAIN SubDir[stack[k].dir] : SubDir[stack[k].dir][n] = stack[k + 1].dir
  BY <1>4
<1> QED BY <1>2, <1>3, <1>5, <1>6, <1>7, <1>8 DEF TypeInv, TypeOK

LEMMA TypesAreKept ==
  ASSUME TypeInv, [Next]_vars
  PROVE  TypeInv'
<1>0. MaxChanges \in Nat /\ Root \in Dirs
  BY ListingConstants DEF ListingConstants
<1>e. <<>> \in Seq(Frame) /\ Len(<<>>) = 0 /\ 1..0 = {} /\ 1..(0 - 1) = {}
  BY EmptySeq
<1>n. Nothing \in [Item -> 0..2]
  BY DEF Nothing
<1>1. CASE \E r \in BOOLEAN : Start(r)
  <2>1. PICK r \in BOOLEAN : Start(r)
    BY <1>1
  <2>2. Open(Root, 0) \in Frame
    BY <1>0 DEF Open, Frame
  <2>3. stack' \in Seq(Frame) /\ stack' # <<>> /\ Len(stack') = 1
        /\ stack'[1] = Open(Root, 0)
    BY <2>1, <2>2 DEF Start
  <2>4. FoldersOnly' /\ Chained'
    BY <2>3 DEF FoldersOnly, Chained, Open
  <2> QED BY <1>n, <2>1, <2>3, <2>4 DEF Start, TypeInv, TypeOK, Chained
<1>2. CASE FetchPage
  BY <1>2, FetchKeepsTypes
<1>3. CASE Descend
  BY <1>3, DescendKeepsTypes
<1>4. CASE NextPage
  BY <1>4, NextPageKeepsTypes
<1>5. CASE Return
  BY <1>5, ReturnKeepsTypes
<1>6. CASE Forget
  <2>1. state' = "idle" /\ stack' = stack /\ stack = <<>>
        /\ UNCHANGED <<content, deep, withdrawn, published, changes>> /\ out' = Nothing
    BY <1>6 DEF Forget, TypeInv, TypeOK
  <2> QED BY <1>n, <2>1 DEF TypeInv, TypeOK, FoldersOnly
<1>7. CASE FetchFails
  <2>1. state' = "failed" /\ stack' = <<>> /\ out' = Nothing
        /\ UNCHANGED <<content, deep, withdrawn, published, changes>>
    BY <1>7 DEF FetchFails
  <2> QED BY <1>e, <1>n, <2>1 DEF TypeInv, TypeOK, FoldersOnly
<1>8. CASE \E i \in Item : Publish(i[1], i[2]) \/ Withdraw(i[1], i[2])
  <2>1. PICK d \in Dirs, n \in Names : Publish(d, n) \/ Withdraw(d, n)
    BY <1>8 DEF Item
  <2>2. content' \in [Dirs -> SUBSET Names] /\ changes' \in 0..MaxChanges
    <3>1. content \in [Dirs -> SUBSET Names] /\ changes \in 0..MaxChanges
      BY DEF TypeInv, TypeOK
    <3>2. changes < MaxChanges /\ changes' = changes + 1
      BY <2>1 DEF Publish, Withdraw
    <3>3. content' \in [Dirs -> SUBSET Names]
      BY <2>1, <3>1 DEF Publish, Withdraw
    <3> QED BY <1>0, <3>1, <3>2, <3>3
  <2>3. withdrawn' \subseteq Item /\ published' \subseteq Item
    BY <2>1 DEF Publish, Withdraw, TypeInv, TypeOK, Item
  <2>4. UNCHANGED <<state, deep, stack, out>>
    BY <2>1 DEF Publish, Withdraw
  <2> QED BY <2>2, <2>3, <2>4 DEF TypeInv, TypeOK, FoldersOnly
<1>9. CASE UNCHANGED vars
  BY <1>9 DEF vars, TypeInv, TypeOK, FoldersOnly
<1> QED
  BY <1>1, <1>2, <1>3, <1>4, <1>5, <1>6, <1>7, <1>8, <1>9 DEF Next, Work

LEMMA TypesHold == Spec => []TypeInv
BY InitialTypes, TypesAreKept, PTL DEF Spec

\* Types, for any library and page size: the calls in progress lie one below the
\* other, and a listing that ended, well or badly, has none; for TypeOK.
THEOREM TypeCorrect == Spec => []TypeOK
<1>1. TypeInv => TypeOK
  BY DEF TypeInv
<1> QED BY <1>1, TypesHold, PTL
-----------------------------------------------------------------------------
(* Nothing is missed.  An item that has not been returned yet is still to   *)
(* come: a call in progress has a name of its path ahead, on a later page   *)
(* or among the folders of the page at hand.                                *)

Ahead(names, f, n) ==
    \/ ~f.fetched /\ Position(names, n) >= PageSize * f.page
    \/ f.fetched /\ n \in f.into
    \/ f.fetched /\ f.full /\ Position(names, n) >= PageSize * (f.page + 1)

Coming(k, j) == j[1] = stack[k].dir /\ Ahead(content[j[1]], stack[k], j[2])

Sound(i) == Listable(i) /\ Stable(i) /\ ~Shifted(i, withdrawn)

NoneLost ==
    state \in {"listing", "done"} =>
        \A i \in Item : Sound(i) =>
            out[i] # 0 \/ \E k \in 1..Len(stack) : \E j \in Path(i) : Coming(k, j)

LEMMA ContentIsTyped ==
  ASSUME TypeOK, NEW d \in Dirs
  PROVE  content[d] \in SUBSET Names /\ content[d] \in SUBSET Nat
BY ListingConstants DEF TypeOK, ListingConstants

LEMMA CollectedCounts ==
  ASSUME TypeOK, NEW items, NEW i \in Item
  PROVE  /\ out[i] # 0 => Collected(items)[i] # 0
         /\ i[1] = Top.dir /\ i[2] \in items \ Folders(items) => Collected(items)[i] # 0
BY DEF TypeOK, Collected, OneMore

\* What a listing does leaves the library and its history alone.
LEMMA SoundAsBefore ==
  ASSUME UNCHANGED <<content, deep, withdrawn, published>>
  PROVE  \A i \in Item : Sound(i)' <=> Sound(i)
BY DEF Sound, Listable, Stable, Shifted

\* A name that is neither a folder to descend into nor collected is on another page.
LEMMA CollectedIsItem ==
  ASSUME NEW i \in Item, Listable(i), NEW j \in Path(i), ~(deep /\ IsFolder(j[1], j[2]))
  PROVE  j = i
<1>1. CASE deep
  BY <1>1, PathGoesDown
<1>2. CASE ~deep
  BY <1>2, PathStartsAtRoot DEF Listable
<1> QED BY <1>1, <1>2

LEMMA FetchLosesNone ==
  ASSUME TypeInv, NoneLost, FetchPage
  PROVE  NoneLost'
<1>0. PICK K : K = Len(stack)
  OBVIOUS
<1> DEFINE items == Slice(content[stack[K].dir], stack[K].page)
<1>1. /\ state = "listing" /\ ~stack[K].fetched
      /\ Len(stack') = K
      /\ stack'[K].dir = stack[K].dir /\ stack'[K].page = stack[K].page
      /\ stack'[K].fetched /\ stack'[K].into = Folders(items)
      /\ stack'[K].full = ~IsLast(items)
      /\ \A k \in 1..(K - 1) : stack'[k] = stack[k]
      /\ out' = Collected(items)
      /\ UNCHANGED <<content, state, deep, withdrawn, published, changes>>
  BY <1>0, FetchEffect DEF TypeInv
<1>2. K \in Nat \ {0} /\ Top = stack[K] /\ stack[K].dir \in Dirs /\ stack[K].page \in Nat
  BY <1>0, <1>1, ListingHasTop DEF TypeInv
<1> SUFFICES ASSUME NEW i \in Item, Sound(i), out'[i] = 0
             PROVE  \E k \in 1..K : \E j \in Path(i) : Coming(k, j)'
  BY <1>0, <1>1, SoundAsBefore DEF NoneLost
<1>3. out[i] = 0
  BY <1>1, CollectedCounts DEF TypeInv
<1>4. PICK k \in 1..K, j \in Path(i) : Coming(k, j)
  BY <1>0, <1>1, <1>3 DEF NoneLost
<1>5. CASE k # K
  <2>1. stack'[k] = stack[k]
    BY <1>1, <1>2, <1>5
  <2>2. Coming(k, j)'
    BY <1>1, <1>4, <2>1 DEF Coming
  <2> QED BY <2>2
<1>6. CASE k = K
  <2> DEFINE names == content[j[1]]
             n == j[2]
  <2>1. /\ j[1] = stack[K].dir /\ Position(names, n) >= PageSize * stack[K].page
    BY <1>1, <1>4, <1>6 DEF Coming, Ahead
  <2>2. names \in SUBSET Nat /\ n \in names
    BY <1>2, <2>1, ContentIsTyped DEF TypeInv, Sound, Stable
  <2>3. CASE Position(names, n) >= PageSize * (stack[K].page + 1)
    <3>1. ~IsLast(items)
      BY <1>2, <2>1, <2>2, <2>3, FullBefore
    <3>2. Coming(K, j)'
      BY <1>1, <2>1, <2>3, <3>1 DEF Coming, Ahead
    <3> QED BY <1>2, <3>2
  <2>4. CASE ~(Position(names, n) >= PageSize * (stack[K].page + 1))
    <3>1. n \in items
      <4>1. Position(names, n) \in Nat /\ PageSize * stack[K].page \in Nat
            /\ PageSize * (stack[K].page + 1) \in Nat
        <5>1. n \in Nat
          BY <2>2
        <5>2. /\ PageSize * (stack[K].page + 1) = PageSize * stack[K].page + PageSize
              /\ PageSize \in Nat /\ PageSize * stack[K].page \in Nat
          BY <1>2, PagesMeet
        <5>3. Position(names, n) \in Nat
          BY <2>2, <5>1, BelowIsFinite
        <5> QED BY <5>2, <5>3
      <4>2. Position(names, n) \in
              (PageSize * stack[K].page)..(PageSize * (stack[K].page + 1) - 1)
        BY <2>1, <2>4, <4>1
      <4> QED BY <2>1, <2>2, <4>2 DEF Slice
    <3>2. CASE n \in Folders(items)
      <4>1. Coming(K, j)'
        BY <1>1, <2>1, <3>2 DEF Coming, Ahead
      <4> QED BY <1>2, <4>1
    <3>3. CASE n \notin Folders(items)
      <4>1. ~(deep /\ IsFolder(j[1], n))
        BY <1>2, <2>1, <3>1, <3>3 DEF Folders
      <4>2. j = i
        BY <4>1, CollectedIsItem DEF Sound
      <4>3. Collected(items)[i] # 0
        BY <1>2, <2>1, <3>1, <3>3, <4>2, CollectedCounts DEF TypeInv
      <4> QED BY <1>1, <4>3
    <3> QED BY <3>2, <3>3
  <2> QED BY <2>3, <2>4
<1> QED BY <1>5, <1>6

LEMMA DescendLosesNone ==
  ASSUME TypeInv, NoneLost, Descend
  PROVE  NoneLost'
<1>0. PICK K : K = Len(stack)
  OBVIOUS
<1>1. PICK m \in stack[K].into :
        /\ IsFolder(stack[K].dir, m)
        /\ state = "listing" /\ stack[K].fetched /\ K \in Nat \ {0}
        /\ Len(stack') = K + 1
        /\ stack'[K].dir = stack[K].dir /\ stack'[K].page = stack[K].page
        /\ stack'[K].fetched /\ stack'[K].into = stack[K].into \ {m}
        /\ stack'[K].full = stack[K].full
        /\ stack'[K + 1] = Open(SubDir[stack[K].dir][m], 0)
        /\ \A k \in 1..(K - 1) : stack'[k] = stack[k]
        /\ UNCHANGED <<content, state, deep, out, withdrawn, published, changes>>
  BY <1>0, DescendEffect
<1>2. deep /\ stack[K].dir \in Dirs
  BY <1>0, <1>1, ListingHasTop DEF TypeInv, FoldersOnly
<1> SUFFICES ASSUME NEW i \in Item, Sound(i), out[i] = 0
             PROVE  \E k \in 1..(K + 1) : \E j \in Path(i) : Coming(k, j)'
  BY <1>0, <1>1, SoundAsBefore DEF NoneLost
<1>4. PICK k \in 1..K, j \in Path(i) : Coming(k, j)
  BY <1>0, <1>1 DEF NoneLost
<1>3. k \in 1..(K + 1) /\ K + 1 \in 1..(K + 1)
  BY <1>1
<1>5. CASE k # K
  <2>1. stack'[k] = stack[k]
    BY <1>1, <1>5
  <2>2. Coming(k, j)'
    BY <1>1, <1>4, <2>1 DEF Coming
  <2> QED BY <1>3, <2>2
<1>6. CASE k = K /\ j[2] # m
  <2>1. Coming(k, j)'
    BY <1>1, <1>4, <1>6 DEF Coming, Ahead
  <2> QED BY <1>3, <2>1
<1>7. CASE k = K /\ j[2] = m
  <2>1. j[1] = stack[K].dir /\ IsFolder(j[1], j[2])
    BY <1>1, <1>4, <1>7 DEF Coming
  <2>2. j # i
    BY <1>2, <2>1 DEF Sound, Listable
  <2>3. PICK c \in Path(i) : c[1] = SubDir[j[1]][j[2]]
    BY <2>2, PathGoesDown
  <2>4. Position(content[c[1]], c[2]) >= PageSize * 0
    <3>1. c[1] \in Dirs /\ c[2] \in Nat
      BY PathHolds, ListingConstants DEF ListingConstants
    <3>2. Position(content[c[1]], c[2]) \in Nat
      BY <3>1, ContentIsTyped, BelowIsFinite DEF TypeInv
    <3>3. PageSize * 0 = 0
      BY PagesMeet
    <3> QED BY <3>2, <3>3
  <2>5. Coming(K + 1, c)'
    BY <1>1, <1>7, <2>1, <2>3, <2>4 DEF Coming, Ahead, Open
  <2> QED BY <1>3, <2>5
<1> QED BY <1>5, <1>6, <1>7

LEMMA NextPageLosesNone ==
  ASSUME TypeInv, NoneLost, NextPage
  PROVE  NoneLost'
<1>0. PICK K : K = Len(stack)
  OBVIOUS
<1>1. /\ state = "listing" /\ stack[K].fetched /\ stack[K].into = {} /\ stack[K].full
      /\ Len(stack') = K
      /\ stack'[K] = Open(stack[K].dir, stack[K].page + 1)
      /\ \A k \in 1..(K - 1) : stack'[k] = stack[k]
      /\ UNCHANGED <<content, state, deep, out, withdrawn, published, changes>>
  BY <1>0, NextPageEffect DEF TypeInv
<1>2. K \in Nat \ {0}
  BY <1>0, <1>1, ListingHasTop DEF TypeInv
<1> SUFFICES ASSUME NEW i \in Item, Sound(i), out[i] = 0
             PROVE  \E k \in 1..K : \E j \in Path(i) : Coming(k, j)'
  BY <1>0, <1>1, SoundAsBefore DEF NoneLost
<1>4. PICK k \in 1..K, j \in Path(i) : Coming(k, j)
  BY <1>0, <1>1 DEF NoneLost
<1>5. CASE k # K
  <2>1. stack'[k] = stack[k]
    BY <1>1, <1>2, <1>5
  <2>2. Coming(k, j)'
    BY <1>1, <1>4, <2>1 DEF Coming
  <2> QED BY <2>2
<1>6. CASE k = K
  <2>1. Coming(K, j)'
    BY <1>1, <1>4, <1>6 DEF Coming, Ahead, Open
  <2> QED BY <1>2, <2>1
<1> QED BY <1>5, <1>6

LEMMA ReturnLosesNone ==
  ASSUME TypeInv, NoneLost, Return
  PROVE  NoneLost'
<1>0. PICK K : K = Len(stack)
  OBVIOUS
<1>1. /\ state = "listing" /\ stack[K].fetched /\ stack[K].into = {} /\ ~stack[K].full
      /\ K \in Nat \ {0} /\ Len(stack') = K - 1
      /\ \A k \in 1..(K - 1) : stack'[k] = stack[k]
      /\ UNCHANGED <<content, deep, out, withdrawn, published, changes>>
  BY <1>0, ReturnEffect DEF TypeInv
<1> SUFFICES ASSUME NEW i \in Item, Sound(i), out[i] = 0
             PROVE  \E k \in 1..(K - 1) : \E j \in Path(i) : Coming(k, j)'
  BY <1>0, <1>1, SoundAsBefore DEF NoneLost
<1>4. PICK k \in 1..K, j \in Path(i) : Coming(k, j)
  BY <1>0, <1>1 DEF NoneLost
<1>5. k # K
  BY <1>1, <1>4 DEF Coming, Ahead
<1>6. k \in 1..(K - 1)
  BY <1>1, <1>5
<1>7. Coming(k, j)'
  BY <1>1, <1>4, <1>6 DEF Coming
<1> QED BY <1>6, <1>7

\* What is published or withdrawn meanwhile moves no sound name to an earlier page.
LEMMA LibraryLosesNone ==
  ASSUME TypeInv, NoneLost, NEW d \in Dirs, NEW n \in Names, Publish(d, n) \/ Withdraw(d, n)
  PROVE  NoneLost'
<1>1. UNCHANGED <<state, deep, stack, out>>
  BY DEF Publish, Withdraw
<1>2. PICK K : K = Len(stack)
  OBVIOUS
<1> SUFFICES ASSUME NEW i \in Item, Sound(i)', out[i] = 0, state \in {"listing", "done"}
             PROVE  \E k \in 1..K : \E j \in Path(i) : Coming(k, j)'
  BY <1>1, <1>2 DEF NoneLost
<1>3. \A j \in Path(i) : j[1] \in Dirs /\ j[2] \in Names
  BY PathHolds
<1>4. /\ published \subseteq published' /\ withdrawn \subseteq withdrawn'
      /\ \A e \in Dirs, m \in Names : <<e, m>> \notin published' \union withdrawn' =>
            (m \in content'[e] <=> m \in content[e])
  BY DEF Publish, Withdraw, TypeInv, TypeOK
<1>5. Sound(i)
  <2>1. \A j \in Path(i) : j = <<j[1], j[2]>>
    BY PathHolds DEF Item
  <2>2. Stable(i)
    BY <1>3, <1>4, <2>1 DEF Sound, Stable
  <2>3. ~Shifted(i, withdrawn)
    BY <1>4 DEF Sound, Shifted
  <2>4. Listable(i)
    BY <1>1 DEF Sound, Listable
  <2> QED BY <2>2, <2>3, <2>4 DEF Sound
<1>6. PICK k \in 1..K, j \in Path(i) : Coming(k, j)
  BY <1>2, <1>5 DEF NoneLost
<1>7. /\ j[1] \in Dirs /\ j[2] \in Nat /\ content[j[1]] \in SUBSET Nat
      /\ content'[j[1]] \in SUBSET Nat
  <2>1. Names \subseteq Nat
    BY ListingConstants DEF ListingConstants
  <2>2. j[1] \in Dirs /\ j[2] \in Nat
    BY <1>3, <2>1
  <2>3. content[j[1]] \in SUBSET Nat
    BY <2>2, ContentIsTyped DEF TypeInv
  <2>4. content'[j[1]] \subseteq content[j[1]] \union {n}
    BY <2>2 DEF Publish, Withdraw, TypeInv, TypeOK
  <2>5. n \in Nat
    BY <2>1
  <2> QED BY <2>2, <2>3, <2>4, <2>5
<1>8. Position(content[j[1]], j[2]) <= Position(content'[j[1]], j[2])
  <2>1. CASE Publish(d, n)
    <3>1. content[j[1]] \in SUBSET content'[j[1]]
      BY <1>7, <2>1 DEF Publish, TypeInv, TypeOK
    <3> QED BY <1>7, <3>1, PositionOfMore
  <2>2. CASE Withdraw(d, n)
    <3>1. ASSUME d = j[1] PROVE ~(n < j[2])
      <4>1. <<j[1], n>> \in withdrawn'
        BY <2>2, <3>1 DEF Withdraw
      <4> QED BY <1>3, <4>1 DEF Sound, Shifted
    <3>2. {m \in content'[j[1]] : m < j[2]} = {m \in content[j[1]] : m < j[2]}
      BY <1>7, <2>2, <3>1 DEF Withdraw, TypeInv, TypeOK
    <3>3. Position(content'[j[1]], j[2]) = Position(content[j[1]], j[2])
      BY <3>2 DEF Position
    <3>4. Position(content[j[1]], j[2]) \in Nat
      BY <1>7, BelowIsFinite
    <3> QED BY <3>3, <3>4
  <2> QED BY <2>1, <2>2
<1>9. Coming(k, j)'
  <2>1. \A a \in Nat : Position(content[j[1]], j[2]) >= a => Position(content'[j[1]], j[2]) >= a
    <3>1. Position(content[j[1]], j[2]) \in Nat /\ Position(content'[j[1]], j[2]) \in Nat
      BY <1>7, BelowIsFinite
    <3> QED BY <1>8, <3>1
  <2>2. PageSize * stack[k].page \in Nat /\ PageSize * (stack[k].page + 1) \in Nat
    <3>1. stack[k] \in Frame
      BY <1>2 DEF TypeInv, TypeOK
    <3>2. stack[k].page \in Nat /\ stack[k].page + 1 \in Nat
      BY <3>1 DEF Frame
    <3> QED BY <3>2, PagesMeet
  <2> QED BY <1>1, <1>6, <2>1, <2>2 DEF Coming, Ahead
<1> QED BY <1>9

LEMMA NoneLostIsKept ==
  ASSUME TypeInv, NoneLost, [Next]_vars
  PROVE  NoneLost'
<1>1. CASE \E r \in BOOLEAN : Start(r)
  <2>1. state' = "listing" /\ stack' = <<Open(Root, 0)>> /\ Len(stack') = 1
        /\ stack'[1] = Open(Root, 0) /\ content' = content
    BY <1>1 DEF Start
  <2> SUFFICES ASSUME NEW i \in Item
               PROVE  \E k \in 1..1 : \E j \in Path(i) : Coming(k, j)'
    BY <2>1 DEF NoneLost
  <2>2. PICK j \in Path(i) : j[1] = Root
    BY PathStartsAtRoot
  <2>3. Position(content[j[1]], j[2]) >= PageSize * 0
    <3>1. j[1] \in Dirs /\ j[2] \in Nat
      BY PathHolds, ListingConstants DEF ListingConstants
    <3>2. Position(content[j[1]], j[2]) \in Nat
      BY <3>1, ContentIsTyped, BelowIsFinite DEF TypeInv
    <3>3. PageSize * 0 = 0
      BY PagesMeet
    <3> QED BY <3>2, <3>3
  <2>4. Coming(1, j)'
    BY <2>1, <2>2, <2>3 DEF Coming, Ahead, Open
  <2> QED BY <2>4
<1>2. CASE FetchPage
  BY <1>2, FetchLosesNone
<1>3. CASE Descend
  BY <1>3, DescendLosesNone
<1>4. CASE NextPage
  BY <1>4, NextPageLosesNone
<1>5. CASE Return
  BY <1>5, ReturnLosesNone
<1>6. CASE Forget \/ FetchFails
  BY <1>6 DEF Forget, FetchFails, NoneLost
<1>7. CASE \E i \in Item : Publish(i[1], i[2]) \/ Withdraw(i[1], i[2])
  BY <1>7, LibraryLosesNone DEF Item
<1>8. CASE UNCHANGED vars
  BY <1>8 DEF vars, NoneLost, Sound, Listable, Stable, Shifted, Coming
<1> QED
  BY <1>1, <1>2, <1>3, <1>4, <1>5, <1>6, <1>7, <1>8 DEF Next, Work

\* A listing that ends well has every item that was there all the while, unless one
\* sorted before it was withdrawn, whatever else is published or withdrawn between its
\* pages and however deep it descends; for NothingStableMissed.
THEOREM NothingIsMissed == Spec => []NothingStableMissed
<1>1. Init => NoneLost
  BY DEF Init, NoneLost
<1>2. TypeInv /\ NoneLost => NothingStableMissed
  <2> SUFFICES ASSUME TypeInv, NoneLost, state = "done", NEW i \in Item, Sound(i)
               PROVE  out[i] # 0
    BY DEF NothingStableMissed, Sound
  <2>1. Len(stack) = 0
    BY EmptySeq DEF TypeInv, TypeOK
  <2>2. 1..Len(stack) = {}
    BY <2>1
  <2> QED BY <2>2 DEF NoneLost
<1> QED BY <1>1, <1>2, NoneLostIsKept, TypesHold, PTL DEF Spec
-----------------------------------------------------------------------------
(* Nothing is returned twice.  As long as nothing before it is published, an *)
(* item that is still to come is so by one call and one name, and has not    *)
(* been returned; the folders a call is about to descend into are not on the *)
(* pages after the one at hand.                                              *)

Calm(i) == Listable(i) /\ Stable(i) /\ ~Shifted(i, published)

OnThisPage(k, j) ==
    j[1] = stack[k].dir /\ j[2] \in stack[k].into =>
        Position(content[j[1]], j[2]) < PageSize * (stack[k].page + 1)

ComesOnce(i) ==
    /\ out[i] <= 1
    /\ \A k \in 1..Len(stack) : \A j \in Path(i) :
          /\ OnThisPage(k, j)
          /\ Coming(k, j) =>
                /\ out[i] = 0
                /\ \A k2 \in 1..Len(stack) : \A j2 \in Path(i) :
                        Coming(k2, j2) => k2 = k /\ j2 = j

NoneTwice == state \in {"listing", "done"} => \A i \in Item : Calm(i) => ComesOnce(i)

LEMMA CalmAsBefore ==
  ASSUME UNCHANGED <<content, deep, withdrawn, published>>
  PROVE  \A i \in Item : Calm(i)' <=> Calm(i)
BY DEF Calm, Listable, Stable, Shifted

\* The positions that a page ends at, and those of names.
LEMMA PositionsAreNumbers ==
  ASSUME TypeOK, NEW i \in Item, NEW j \in Path(i)
  PROVE  /\ j[1] \in Dirs /\ j[2] \in Nat /\ Position(content[j[1]], j[2]) \in Nat
         /\ \A k \in 1..Len(stack) :
                /\ stack[k].dir \in Dirs /\ stack[k].page \in Nat
                /\ PageSize * stack[k].page \in Nat
                /\ PageSize * (stack[k].page + 1) = PageSize * stack[k].page + PageSize
         /\ PageSize \in Nat \ {0} /\ PageSize * 0 = 0
<1>1. j[1] \in Dirs /\ j[2] \in Nat
  BY PathHolds, ListingConstants DEF ListingConstants
<1>2. Position(content[j[1]], j[2]) \in Nat
  BY <1>1, ContentIsTyped, BelowIsFinite
<1>3. ASSUME NEW k \in 1..Len(stack)
      PROVE  /\ stack[k].dir \in Dirs /\ stack[k].page \in Nat
             /\ PageSize * stack[k].page \in Nat
             /\ PageSize * (stack[k].page + 1) = PageSize * stack[k].page + PageSize
  <2>1. stack[k] \in Frame
    BY DEF TypeOK
  <2>2. stack[k].page \in Nat /\ stack[k].dir \in Dirs
    BY <2>1 DEF Frame
  <2> QED BY <2>2, PagesMeet
<1>4. PageSize \in Nat \ {0} /\ PageSize * 0 = 0
  BY PagesMeet
<1> QED BY <1>1, <1>2, <1>3, <1>4

\* When fewer names are to come, each by a call that had it to come before.
LEMMA FewerToCome ==
  ASSUME NEW i \in Item, ComesOnce(i), out'[i] = out[i],
         \A k \in 1..Len(stack') : k \in 1..Len(stack),
         \A k \in 1..Len(stack') : \A j \in Path(i) :
              /\ Coming(k, j)' => Coming(k, j)
              /\ OnThisPage(k, j)'
  PROVE  ComesOnce(i)'
<1>1. \A k \in 1..Len(stack') : \A j \in Path(i) :
        Coming(k, j)' => /\ out'[i] = 0
                         /\ \A k2 \in 1..Len(stack') : \A j2 \in Path(i) :
                                Coming(k2, j2)' => k2 = k /\ j2 = j
  BY DEF ComesOnce
<1> QED BY <1>1 DEF ComesOnce

LEMMA FetchKeepsOnce ==
  ASSUME TypeInv, NoneTwice, FetchPage
  PROVE  NoneTwice'
<1>0. PICK K : K = Len(stack)
  OBVIOUS
<1> DEFINE items == Slice(content[stack[K].dir], stack[K].page)
<1>1. /\ state = "listing" /\ ~stack[K].fetched
      /\ Len(stack') = K
      /\ stack'[K].dir = stack[K].dir /\ stack'[K].page = stack[K].page
      /\ stack'[K].fetched /\ stack'[K].into = Folders(items)
      /\ \A k \in 1..(K - 1) : stack'[k] = stack[k]
      /\ out' = Collected(items)
      /\ UNCHANGED <<content, state, deep, withdrawn, published, changes>>
  BY <1>0, FetchEffect DEF TypeInv
<1>2. K \in Nat \ {0} /\ Top = stack[K] /\ K \in 1..K
  BY <1>0, <1>1, ListingHasTop DEF TypeInv
<1>3. \A n \in items : n \in content[stack[K].dir]
         /\ Position(content[stack[K].dir], n) \in
              (PageSize * stack[K].page)..(PageSize * (stack[K].page + 1) - 1)
  BY DEF Slice
<1>4. Folders(items) \subseteq items
  BY DEF Folders
<1> HIDE DEF items
<1> SUFFICES ASSUME NEW i \in Item, Calm(i) PROVE ComesOnce(i)'
  BY <1>1, CalmAsBefore DEF NoneTwice
<1>5. ComesOnce(i)
  BY <1>1 DEF NoneTwice
<1>6. ASSUME NEW k \in 1..K, NEW j \in Path(i)
      PROVE  (Coming(k, j)' => Coming(k, j)) /\ OnThisPage(k, j)'
  <2>1. CASE k # K
    <3>1. stack'[k] = stack[k]
      BY <1>1, <1>2, <2>1
    <3>2. OnThisPage(k, j)
      BY <1>0, <1>5 DEF ComesOnce
    <3> QED BY <1>1, <3>1, <3>2 DEF Coming, OnThisPage
  <2>2. CASE k = K
    <3> DEFINE position == Position(content[j[1]], j[2])
    <3>1. /\ position \in Nat /\ PageSize * stack[K].page \in Nat /\ PageSize \in Nat
          /\ PageSize * (stack[K].page + 1) = PageSize * stack[K].page + PageSize
      BY <1>0, <1>2, PositionsAreNumbers DEF TypeInv
    <3>2. j[1] = stack[K].dir /\ j[2] \in Folders(items) =>
            /\ position >= PageSize * stack[K].page
            /\ position < PageSize * (stack[K].page + 1)
      BY <1>3, <1>4, <3>1
    <3>3. position >= PageSize * (stack[K].page + 1) => position >= PageSize * stack[K].page
      BY <3>1
    <3>4. Coming(K, j)' => Coming(K, j)
      BY <1>1, <3>2, <3>3 DEF Coming, Ahead
    <3>5. OnThisPage(K, j)'
      BY <1>1, <3>2 DEF OnThisPage
    <3> QED BY <2>2, <3>4, <3>5
  <2> QED BY <2>1, <2>2
<1>7. CASE out'[i] = out[i]
  BY <1>0, <1>1, <1>5, <1>6, <1>7, FewerToCome
<1>8. CASE out'[i] # out[i]
  <2>1. i[1] = stack[K].dir /\ i[2] \in items \ Folders(items) /\ out'[i] = OneMore(out[i])
    BY <1>1, <1>2, <1>8 DEF Collected
  <2>2. i \in Path(i)
    BY PathHolds
  <2>3. /\ Position(content[i[1]], i[2]) \in Nat
        /\ PageSize * stack[K].page \in Nat /\ PageSize * (stack[K].page + 1) \in Nat
    <3>1. /\ Position(content[i[1]], i[2]) \in Nat
          /\ PageSize * stack[K].page \in Nat /\ PageSize \in Nat
          /\ PageSize * (stack[K].page + 1) = PageSize * stack[K].page + PageSize
      BY <1>0, <1>2, <2>2, PositionsAreNumbers DEF TypeInv
    <3> QED BY <3>1
  <2>4. /\ Position(content[i[1]], i[2]) >= PageSize * stack[K].page
        /\ ~(Position(content[i[1]], i[2]) >= PageSize * (stack[K].page + 1))
    <3>1. Position(content[i[1]], i[2]) \in
              (PageSize * stack[K].page)..(PageSize * (stack[K].page + 1) - 1)
      BY <1>3, <2>1
    <3> QED BY <2>3, <3>1
  <2>5. Coming(K, i)
    BY <1>1, <2>1, <2>4 DEF Coming, Ahead
  <2>6. out[i] = 0 /\ \A k \in 1..K : \A j \in Path(i) : Coming(k, j) => k = K /\ j = i
    BY <1>0, <1>2, <1>5, <2>2, <2>5 DEF ComesOnce
  <2>7. out'[i] = 1
    BY <2>1, <2>6 DEF OneMore
  <2>8. ~Coming(K, i)'
    BY <1>1, <2>1, <2>4 DEF Coming, Ahead
  <2>9. \A k \in 1..K : \A j \in Path(i) : ~Coming(k, j)'
    BY <1>6, <2>6, <2>8
  <2> QED BY <1>1, <1>6, <2>7, <2>9 DEF ComesOnce
<1> QED BY <1>7, <1>8

LEMMA DescendKeepsOnce ==
  ASSUME TypeInv, NoneTwice, Descend
  PROVE  NoneTwice'
<1>0. PICK K : K = Len(stack)
  OBVIOUS
<1>1. PICK m \in stack[K].into :
        /\ IsFolder(stack[K].dir, m)
        /\ state = "listing" /\ stack[K].fetched /\ K \in Nat \ {0}
        /\ Len(stack') = K + 1
        /\ stack'[K].dir = stack[K].dir /\ stack'[K].page = stack[K].page
        /\ stack'[K].fetched /\ stack'[K].into = stack[K].into \ {m}
        /\ stack'[K].full = stack[K].full
        /\ stack'[K + 1] = Open(SubDir[stack[K].dir][m], 0)
        /\ \A k \in 1..(K - 1) : stack'[k] = stack[k]
        /\ UNCHANGED <<content, state, deep, out, withdrawn, published, changes>>
  BY <1>0, DescendEffect
<1>2. stack[K].dir \in Dirs /\ K \in 1..K
  BY <1>0, <1>1, ListingHasTop DEF TypeInv
<1> SUFFICES ASSUME NEW i \in Item, Calm(i) PROVE ComesOnce(i)'
  BY <1>1, CalmAsBefore DEF NoneTwice
<1>3. ComesOnce(i)
  BY <1>1 DEF NoneTwice
<1>4. ASSUME NEW k \in 1..K, NEW j \in Path(i)
      PROVE  (Coming(k, j)' => Coming(k, j)) /\ OnThisPage(k, j)'
  <2>1. OnThisPage(k, j)
    BY <1>0, <1>3 DEF ComesOnce
  <2>2. CASE k # K
    <3>1. stack'[k] = stack[k]
      BY <1>1, <2>2
    <3> QED BY <1>1, <2>1, <3>1 DEF Coming, OnThisPage
  <2>3. CASE k = K
    <3>1. Coming(K, j)' => Coming(K, j)
      BY <1>1 DEF Coming, Ahead
    <3>2. OnThisPage(K, j)'
      BY <1>1, <2>1, <2>3 DEF OnThisPage
    <3> QED BY <2>3, <3>1, <3>2
  <2> QED BY <2>2, <2>3
<1>5. \A j \in Path(i) : OnThisPage(K + 1, j)'
  BY <1>1 DEF OnThisPage, Open
<1>6. \A k \in 1..(K + 1) : k \in 1..K \/ k = K + 1
  BY <1>1
<1>7. CASE \A j \in Path(i) : j[1] # SubDir[stack[K].dir][m]
  <2>1. \A j \in Path(i) : ~Coming(K + 1, j)'
    BY <1>1, <1>7 DEF Coming, Open
  <2>2. \A k \in 1..(K + 1) : \A j \in Path(i) :
            Coming(k, j)' => k \in 1..Len(stack) /\ Coming(k, j)
    BY <1>0, <1>4, <1>6, <2>1
  <2> QED BY <1>1, <1>3, <1>4, <1>5, <1>6, <2>2 DEF ComesOnce
<1>8. CASE \E j \in Path(i) : j[1] = SubDir[stack[K].dir][m]
  <2>1. PICK c \in Path(i) : c[1] = SubDir[stack[K].dir][m]
    BY <1>8
  <2> DEFINE p == <<stack[K].dir, m>>
  <2>2. p \in Path(i)
    BY <1>1, <1>2, <2>1, PathGoesUp, LiesIn
  <2>3. Coming(K, p)
    BY <1>1 DEF Coming, Ahead
  <2>4. out[i] = 0 /\ \A k \in 1..K : \A j \in Path(i) : Coming(k, j) => k = K /\ j = p
    <3> HIDE DEF p
    <3> QED BY <1>0, <1>2, <1>3, <2>2, <2>3 DEF ComesOnce
  <2>5. Position(content[stack[K].dir], m) < PageSize * (stack[K].page + 1)
    <3>1. OnThisPage(K, p)
      BY <1>0, <1>2, <1>3, <2>2 DEF ComesOnce
    <3> QED BY <1>1, <3>1 DEF OnThisPage
  <2>6. /\ Position(content[stack[K].dir], m) \in Nat
        /\ PageSize * (stack[K].page + 1) \in Nat
    <3>1. /\ Position(content[p[1]], p[2]) \in Nat
          /\ PageSize * stack[K].page \in Nat /\ PageSize \in Nat
          /\ PageSize * (stack[K].page + 1) = PageSize * stack[K].page + PageSize
      BY <1>0, <1>2, <2>2, PositionsAreNumbers DEF TypeInv
    <3> QED BY <3>1
  <2>7. ~(Position(content[stack[K].dir], m) >= PageSize * (stack[K].page + 1))
    BY <2>5, <2>6
  <2>8. ASSUME NEW k \in 1..K, NEW j \in Path(i) PROVE ~Coming(k, j)'
    <3>1. SUFFICES ASSUME Coming(k, j)' PROVE FALSE
      OBVIOUS
    <3>2. k = K /\ j[1] = stack[K].dir /\ j[2] = m
      BY <1>4, <2>4, <3>1
    <3> QED BY <1>1, <2>7, <3>1, <3>2 DEF Coming, Ahead
  <2>9. \A j \in Path(i) : Coming(K + 1, j)' => j = c
    <3>1. \A j \in Path(i) : Coming(K + 1, j)' => j[1] = c[1]
      BY <1>1, <2>1 DEF Coming, Open
    <3> QED BY <3>1, PathMeetsOnce
  <2>10. \A k \in 1..(K + 1) : \A j \in Path(i) : Coming(k, j)' => k = K + 1 /\ j = c
    BY <1>6, <2>8, <2>9
  <2>11. out'[i] = 0
    BY <1>1, <2>4
  <2> QED BY <1>1, <1>4, <1>5, <1>6, <2>10, <2>11 DEF ComesOnce
<1> QED BY <1>7, <1>8

LEMMA NextPageKeepsOnce ==
  ASSUME TypeInv, NoneTwice, NextPage
  PROVE  NoneTwice'
<1>0. PICK K : K = Len(stack)
  OBVIOUS
<1>1. /\ state = "listing" /\ stack[K].fetched /\ stack[K].into = {} /\ stack[K].full
      /\ Len(stack') = K
      /\ stack'[K] = Open(stack[K].dir, stack[K].page + 1)
      /\ \A k \in 1..(K - 1) : stack'[k] = stack[k]
      /\ UNCHANGED <<content, state, deep, out, withdrawn, published, changes>>
  BY <1>0, NextPageEffect DEF TypeInv
<1>2. K \in Nat \ {0}
  BY <1>0, <1>1, ListingHasTop DEF TypeInv
<1> SUFFICES ASSUME NEW i \in Item, Calm(i) PROVE ComesOnce(i)'
  BY <1>1, CalmAsBefore DEF NoneTwice
<1>3. ComesOnce(i)
  BY <1>1 DEF NoneTwice
<1>4. ASSUME NEW k \in 1..K, NEW j \in Path(i)
      PROVE  (Coming(k, j)' => Coming(k, j)) /\ OnThisPage(k, j)'
  <2>1. CASE k # K
    <3>1. stack'[k] = stack[k]
      BY <1>1, <1>2, <2>1
    <3>2. OnThisPage(k, j)
      BY <1>0, <1>3 DEF ComesOnce
    <3> QED BY <1>1, <3>1, <3>2 DEF Coming, OnThisPage
  <2>2. CASE k = K
    <3>1. Coming(K, j)' => Coming(K, j)
      BY <1>1 DEF Coming, Ahead, Open
    <3>2. OnThisPage(K, j)'
      BY <1>1 DEF OnThisPage, Open
    <3> QED BY <2>2, <3>1, <3>2
  <2> QED BY <2>1, <2>2
<1> QED BY <1>0, <1>1, <1>3, <1>4, FewerToCome

LEMMA ReturnKeepsOnce ==
  ASSUME TypeInv, NoneTwice, Return
  PROVE  NoneTwice'
<1>0. PICK K : K = Len(stack)
  OBVIOUS
<1>1. /\ state = "listing" /\ K \in Nat \ {0} /\ Len(stack') = K - 1
      /\ \A k \in 1..(K - 1) : stack'[k] = stack[k]
      /\ UNCHANGED <<content, deep, out, withdrawn, published, changes>>
  BY <1>0, ReturnEffect DEF TypeInv
<1> SUFFICES ASSUME NEW i \in Item, Calm(i) PROVE ComesOnce(i)'
  BY <1>1, CalmAsBefore DEF NoneTwice
<1>2. ComesOnce(i)
  BY <1>1 DEF NoneTwice
<1>3. \A k \in 1..(K - 1) : k \in 1..Len(stack)
  BY <1>0, <1>1
<1>4. \A k \in 1..(K - 1) : \A j \in Path(i) :
            (Coming(k, j)' => Coming(k, j)) /\ OnThisPage(k, j)'
  <2>1. \A k \in 1..(K - 1) : \A j \in Path(i) : OnThisPage(k, j)
    BY <1>2, <1>3 DEF ComesOnce
  <2> QED BY <1>1, <2>1 DEF Coming, OnThisPage
<1> QED BY <1>1, <1>2, <1>3, <1>4, FewerToCome

\* What is published or withdrawn meanwhile moves no calm name to a later page.
LEMMA LibraryKeepsOnce ==
  ASSUME TypeInv, NoneTwice, NEW d \in Dirs, NEW n \in Names, Publish(d, n) \/ Withdraw(d, n)
  PROVE  NoneTwice'
<1>1. UNCHANGED <<state, deep, stack, out>>
  BY DEF Publish, Withdraw
<1> SUFFICES ASSUME NEW i \in Item, Calm(i)', state \in {"listing", "done"}
             PROVE  ComesOnce(i)'
  BY <1>1 DEF NoneTwice
<1>2. /\ published \subseteq published' /\ withdrawn \subseteq withdrawn'
      /\ \A e \in Dirs, m \in Names : <<e, m>> \notin published' \union withdrawn' =>
            (m \in content'[e] <=> m \in content[e])
  BY DEF Publish, Withdraw, TypeInv, TypeOK
<1>3. \A j \in Path(i) : j[1] \in Dirs /\ j[2] \in Names /\ j = <<j[1], j[2]>>
  BY PathHolds DEF Item
<1>4. Calm(i)
  <2>1. Stable(i)
    BY <1>2, <1>3 DEF Calm, Stable
  <2>2. ~Shifted(i, published)
    BY <1>2 DEF Calm, Shifted
  <2>3. Listable(i)
    BY <1>1 DEF Calm, Listable
  <2> QED BY <2>1, <2>2, <2>3 DEF Calm
<1>5. ComesOnce(i)
  BY <1>4 DEF NoneTwice
<1>6. ASSUME NEW j \in Path(i)
      PROVE  /\ Position(content'[j[1]], j[2]) <= Position(content[j[1]], j[2])
             /\ Position(content'[j[1]], j[2]) \in Nat
             /\ Position(content[j[1]], j[2]) \in Nat
  <2>1. /\ j[1] \in Dirs /\ j[2] \in Nat /\ content[j[1]] \in SUBSET Nat
        /\ content'[j[1]] \in SUBSET Nat
    <3>1. Names \subseteq Nat
      BY ListingConstants DEF ListingConstants
    <3>2. j[1] \in Dirs /\ j[2] \in Nat
      BY <1>3, <3>1
    <3>3. content[j[1]] \in SUBSET Nat
      BY <3>2, ContentIsTyped DEF TypeInv
    <3>4. content'[j[1]] \subseteq content[j[1]] \union {n}
      BY <3>2 DEF Publish, Withdraw, TypeInv, TypeOK
    <3>5. n \in Nat
      BY <3>1
    <3> QED BY <3>2, <3>3, <3>4, <3>5
  <2>2. Position(content[j[1]], j[2]) \in Nat /\ Position(content'[j[1]], j[2]) \in Nat
    BY <2>1, BelowIsFinite
  <2>3. CASE Withdraw(d, n)
    <3>1. content'[j[1]] \in SUBSET content[j[1]]
      BY <2>1, <2>3 DEF Withdraw, TypeInv, TypeOK
    <3> QED BY <2>1, <2>2, <3>1, PositionOfMore
  <2>4. CASE Publish(d, n)
    <3>1. ASSUME d = j[1] PROVE ~(n < j[2])
      <4>1. <<j[1], n>> \in published'
        BY <2>4, <3>1 DEF Publish
      <4> QED BY <1>3, <4>1 DEF Calm, Shifted
    <3>2. {m \in content'[j[1]] : m < j[2]} = {m \in content[j[1]] : m < j[2]}
      BY <2>1, <2>4, <3>1 DEF Publish, TypeInv, TypeOK
    <3>3. Position(content'[j[1]], j[2]) = Position(content[j[1]], j[2])
      BY <3>2 DEF Position
    <3> QED BY <2>2, <3>3
  <2> QED BY <2>2, <2>3, <2>4
<1>7. ASSUME NEW k \in 1..Len(stack), NEW j \in Path(i)
      PROVE  (Coming(k, j)' => Coming(k, j)) /\ OnThisPage(k, j)'
  <2>1. /\ PageSize * stack[k].page \in Nat /\ PageSize \in Nat
        /\ PageSize * (stack[k].page + 1) = PageSize * stack[k].page + PageSize
    BY PositionsAreNumbers DEF TypeInv
  <2> DEFINE was == Position(content[j[1]], j[2])
             is == Position(content'[j[1]], j[2])
  <2>2. \A a \in Nat : (is >= a => was >= a) /\ (was < a => is < a)
    BY <1>6
  <2>3. PageSize * (stack[k].page + 1) \in Nat
    BY <2>1
  <2>4. OnThisPage(k, j)
    BY <1>5 DEF ComesOnce
  <2>5. Coming(k, j)' => Coming(k, j)
    BY <1>1, <2>1, <2>2, <2>3 DEF Coming, Ahead
  <2>6. OnThisPage(k, j)'
    BY <1>1, <2>2, <2>3, <2>4 DEF OnThisPage
  <2> QED BY <2>5, <2>6
<1> QED BY <1>1, <1>5, <1>7, FewerToCome

LEMMA NoneTwiceIsKept ==
  ASSUME TypeInv, NoneTwice, [Next]_vars
  PROVE  NoneTwice'
<1>1. CASE \E r \in BOOLEAN : Start(r)
  <2>1. state' = "listing" /\ stack' = <<Open(Root, 0)>> /\ Len(stack') = 1
        /\ stack'[1] = Open(Root, 0) /\ content' = content /\ out' = Nothing
    BY <1>1 DEF Start
  <2> SUFFICES ASSUME NEW i \in Item PROVE ComesOnce(i)'
    BY <2>1 DEF NoneTwice
  <2>2. out'[i] = 0
    BY <2>1 DEF Nothing
  <2>3. \A k \in 1..1 : k = 1
    OBVIOUS
  <2>4. \A j \in Path(i) : OnThisPage(1, j)' /\ (Coming(1, j)' => j[1] = Root)
    BY <2>1 DEF OnThisPage, Coming, Open
  <2>5. \A j, j2 \in Path(i) : Coming(1, j)' /\ Coming(1, j2)' => j2 = j
    BY <2>4, PathMeetsOnce
  <2> QED BY <2>1, <2>2, <2>3, <2>4, <2>5 DEF ComesOnce
<1>2. CASE FetchPage
  BY <1>2, FetchKeepsOnce
<1>3. CASE Descend
  BY <1>3, DescendKeepsOnce
<1>4. CASE NextPage
  BY <1>4, NextPageKeepsOnce
<1>5. CASE Return
  BY <1>5, ReturnKeepsOnce
<1>6. CASE Forget \/ FetchFails
  BY <1>6 DEF Forget, FetchFails, NoneTwice
<1>7. CASE \E i \in Item : Publish(i[1], i[2]) \/ Withdraw(i[1], i[2])
  BY <1>7, LibraryKeepsOnce DEF Item
<1>8. CASE UNCHANGED vars
  BY <1>8 DEF vars, NoneTwice, Calm, Listable, Stable, Shifted, ComesOnce, OnThisPage,
     Coming
<1> QED
  BY <1>1, <1>2, <1>3, <1>4, <1>5, <1>6, <1>7, <1>8 DEF Next, Work

\* A listing that ends well has an item that was there all the while once, unless one
\* sorted before it was published; for NothingStableTwice.
THEOREM NothingIsTwice == Spec => []NothingStableTwice
<1>1. Init => NoneTwice
  BY DEF Init, NoneTwice
<1>2. TypeInv /\ NoneTwice => NothingStableTwice
  <2> SUFFICES ASSUME TypeInv, NoneTwice, state = "done", NEW i \in Item, Calm(i)
               PROVE  ~(out[i] > 1)
    BY DEF NothingStableTwice, Calm
  <2>1. out[i] <= 1 /\ out[i] \in 0..2
    BY DEF NoneTwice, ComesOnce, TypeInv, TypeOK
  <2> QED BY <2>1
<1> QED BY <1>1, <1>2, NoneTwiceIsKept, TypesHold, PTL DEF Spec
=============================================================================
