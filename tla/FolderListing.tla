---------------------------- MODULE FolderListing ----------------------------
(***************************************************************************)
(* Listing a remote folder page by page (api/ls_fms.py) while the library  *)
(* changes: ls_fms and list_folder_raw_items, which return the items of    *)
(* one directory, and list_folder_raw_items_recursive, which descends into *)
(* each subdirectory as it meets it, between two pages of the parent.      *)
(*                                                                         *)
(* A page is asked for by its index: the server sorts the names there are  *)
(* at that moment and cuts.  A name published or withdrawn earlier in the  *)
(* order shifts all later ones from one page to another.  Names are        *)
(* numbers, in their order.  Retries of a page are FmsClient's; here a     *)
(* page is had, or the whole listing raises.                               *)
(***************************************************************************)
EXTENDS Naturals, FiniteSets, SequencesExt

CONSTANTS
    Dirs,         \* remote directories
    Root,         \* the one that is listed
    Names,        \* item names: numbers, in the order of the server
    SubDir,       \* per directory, the names that are folders, and which
    PageSize,     \* pageSize of a request
    MaxChanges    \* bound: items published or withdrawn

IsFolder(d, n) == n \in DOMAIN SubDir[d]

ASSUME ListingConstants ==
    /\ Root \in Dirs
    /\ Names \subseteq Nat
    /\ \A d \in Dirs : DOMAIN SubDir[d] \subseteq Names
    /\ \A d \in Dirs : \A n \in DOMAIN SubDir[d] : SubDir[d][n] \in Dirs \ {Root}
    /\ PageSize \in Nat \ {0}
    /\ MaxChanges \in Nat

\* Directories are paths: remote_folder + item name.  Each but the root lies in one
\* other, under one name, and how deep they lie is their number of segments.
Lies(d, n, e) == IsFolder(d, n) /\ SubDir[d][n] = e

ASSUME DirectoriesArePaths ==
    /\ IsFiniteSet(Dirs)
    /\ \A e \in Dirs \ {Root} : \E d \in Dirs : \E n \in Names : Lies(d, n, e)
    /\ \A e \in Dirs : \A d1, d2 \in Dirs : \A n1, n2 \in Names :
            Lies(d1, n1, e) /\ Lies(d2, n2, e) => d1 = d2 /\ n1 = n2
    /\ \E depth \in [Dirs -> 0..Cardinality(Dirs)] :
            \A d, e \in Dirs : \A n \in Names : Lies(d, n, e) => depth[e] = depth[d] + 1

VARIABLES
    content,     \* the library: names in each directory
    state,       \* of the listing
    deep,        \* whether it is the recursive one
    stack,       \* the calls in progress, innermost last: directory, page index,
                 \* folders of the page still to descend into, whether the page
                 \* was full; a page not fetched yet is marked so
    out,         \* items returned so far, and whether once or more often (2)
    withdrawn,   \* history: items withdrawn since the listing began
    published,   \* history: items published since the listing began
    changes      \* counted to bound them

vars == <<content, state, deep, stack, out, withdrawn, published, changes>>

Item == Dirs \X Names
Frame == [dir : Dirs, page : Nat, fetched : BOOLEAN, into : SUBSET Names, full : BOOLEAN]
Open(d, i) == [dir |-> d, page |-> i, fetched |-> FALSE, into |-> {}, full |-> FALSE]
Nothing == [i \in Item |-> 0]

\* Every variable keeps its type, calls in progress lie one below the other, and a
\* listing that has ended has none.
TypeOK ==
    /\ content \in [Dirs -> SUBSET Names]
    /\ state \in {"idle", "listing", "done", "failed"}
    /\ deep \in BOOLEAN
    /\ stack \in Seq(Frame)
    /\ \A k \in 1..(Len(stack) - 1) :
            \E n \in DOMAIN SubDir[stack[k].dir] : SubDir[stack[k].dir][n] = stack[k + 1].dir
    /\ stack # <<>> <=> state = "listing"
    /\ out \in [Item -> 0..2]
    /\ withdrawn \subseteq Item /\ published \subseteq Item
    /\ changes \in 0..MaxChanges

Init ==
    /\ content \in [Dirs -> SUBSET Names]
    /\ state = "idle"
    /\ deep = FALSE
    /\ stack = <<>>
    /\ out = Nothing
    /\ withdrawn = {}
    /\ published = {}
    /\ changes = 0

-----------------------------------------------------------------------------
(* One page.                                                               *)

Position(names, n) == Cardinality({m \in names : m < n})

\* What the server answers: the names from PageSize * page on, in its order.
Slice(names, page) ==
    {n \in names : Position(names, n) \in (PageSize * page)..(PageSize * (page + 1) - 1)}

\* Mutant of IsLast: a page that is exactly full is taken for the last one.
IsLastTooSoon(items) == Cardinality(items) <= PageSize

\* len(items) < page_size: a folder that fills its last page costs one page more.
IsLast(items) == Cardinality(items) < PageSize

Top == Last(stack)
Replaced(f) == Append(Front(stack), f)

\* The items a page is descended into for: none unless the listing is recursive.
Folders(items) == IF deep THEN {n \in items : IsFolder(Top.dir, n)} ELSE {}

OneMore(k) == IF k = 2 THEN 2 ELSE k + 1

\* The items a page contributes itself; the recursive listing returns files only.
Collected(items) ==
    [i \in Item |-> IF i[1] = Top.dir /\ i[2] \in items \ Folders(items)
                    THEN OneMore(out[i]) ELSE out[i]]
-----------------------------------------------------------------------------
(* A listing.                                                              *)

Start(recursive) ==
    /\ state = "idle"
    /\ state' = "listing"
    /\ deep' = recursive
    /\ stack' = <<Open(Root, 0)>>
    /\ out' = Nothing
    /\ withdrawn' = {}
    /\ published' = {}
    /\ UNCHANGED <<content, changes>>

\* Mutant of FetchPage: the retry covers the collecting too.
FetchPageRetried ==
    LET items == Slice(content[Top.dir], Top.page)
    IN  /\ state = "listing"
        /\ ~Top.fetched
        /\ out' = Collected(items)
        /\ \E again \in BOOLEAN :
                stack' = Replaced([Top EXCEPT !.fetched = ~again,
                                              !.into = Folders(items),
                                              !.full = ~IsLast(items)])
        /\ UNCHANGED <<content, state, deep, withdrawn, published, changes>>

\* _fetch_folder_page, and the loop over the page's items.
FetchPage ==
    LET items == Slice(content[Top.dir], Top.page)
    IN  /\ state = "listing"
        /\ ~Top.fetched
        /\ out' = Collected(items)
        /\ stack' = Replaced([Top EXCEPT !.fetched = TRUE,
                                         !.into = Folders(items),
                                         !.full = ~IsLast(items)])
        /\ UNCHANGED <<content, state, deep, withdrawn, published, changes>>

\* Mutant of FetchFails: the failing call returns to the one above it.
FetchFailsInside ==
    /\ state = "listing"
    /\ ~Top.fetched
    /\ stack' = Front(stack)
    /\ UNCHANGED <<content, state, deep, out, withdrawn, published, changes>>

\* The page is not to be had: EntsoeApiError leaves every call in progress.
FetchFails ==
    /\ state = "listing"
    /\ ~Top.fetched
    /\ state' = "failed"
    /\ stack' = <<>>
    /\ out' = Nothing
    /\ UNCHANGED <<content, deep, withdrawn, published, changes>>

\* The recursive call for the next folder of the page.
Descend ==
    /\ state = "listing"
    /\ Top.fetched
    /\ Top.into # {}
    /\ LET n == CHOOSE m \in Top.into : \A k \in Top.into : m <= k
       IN  stack' = Append(Replaced([Top EXCEPT !.into = @ \ {n}]),
                           Open(SubDir[Top.dir][n], 0))
    /\ UNCHANGED <<content, state, deep, out, withdrawn, published, changes>>

\* The page was full: there may be another.
NextPage ==
    /\ state = "listing"
    /\ Top.fetched /\ Top.into = {} /\ Top.full
    /\ stack' = Replaced(Open(Top.dir, Top.page + 1))
    /\ UNCHANGED <<content, state, deep, out, withdrawn, published, changes>>

\* The call returns its items, sorted, to the caller or to the call above it.
Return ==
    /\ state = "listing"
    /\ Top.fetched /\ Top.into = {} /\ ~Top.full
    /\ stack' = Front(stack)
    /\ state' = IF Len(stack) = 1 THEN "done" ELSE "listing"
    /\ UNCHANGED <<content, deep, out, withdrawn, published, changes>>

\* The caller has used the result, or caught the error.
Forget ==
    /\ state \in {"done", "failed"}
    /\ state' = "idle"
    /\ out' = Nothing
    /\ UNCHANGED <<content, deep, stack, withdrawn, published, changes>>

-----------------------------------------------------------------------------
(* The library.                                                            *)

Publish(d, n) ==
    /\ changes < MaxChanges
    /\ n \notin content[d]
    /\ changes' = changes + 1
    /\ content' = [content EXCEPT ![d] = @ \union {n}]
    /\ published' = published \union {<<d, n>>}
    /\ UNCHANGED <<state, deep, stack, out, withdrawn>>

Withdraw(d, n) ==
    /\ changes < MaxChanges
    /\ n \in content[d]
    /\ changes' = changes + 1
    /\ content' = [content EXCEPT ![d] = @ \ {n}]
    /\ withdrawn' = withdrawn \union {<<d, n>>}
    /\ UNCHANGED <<state, deep, stack, out, published>>

Work ==
    \/ \E r \in BOOLEAN : Start(r)
    \/ FetchPage
    \/ Descend
    \/ NextPage
    \/ Return
    \/ Forget

Next ==
    \/ Work
    \/ FetchFails
    \/ \E i \in Item : Publish(i[1], i[2]) \/ Withdraw(i[1], i[2])

Spec == Init /\ [][Next]_vars
-----------------------------------------------------------------------------
(* Properties.                                                             *)

\* A directory and those it lies in: what is in every set that holds it and, with a
\* directory, the one that lies in.
Upwards(dirs) ==
    \A e \in dirs : \A d \in Dirs : \A n \in Names : Lies(d, n, e) => d \in dirs

Above(d) ==
    {e \in Dirs : \A dirs \in SUBSET Dirs : d \in dirs /\ Upwards(dirs) => e \in dirs}

\* The names by which an item is reached: its own, and those of the folders above.
Path(i) ==
    {i} \union {j \in Item : IsFolder(j[1], j[2]) /\ SubDir[j[1]][j[2]] \in Above(i[1])}

\* The items a listing is meant to return.
Listable(i) ==
    IF deep THEN ~IsFolder(i[1], i[2]) ELSE i[1] = Root

\* Present all the while.
Stable(i) ==
    \A j \in Path(i) : j[2] \in content[j[1]] /\ j \notin published \union withdrawn

\* An item sorted before i, or before a folder i lies in, is among those that changed.
Shifted(i, changed) ==
    \E j \in Path(i) : \E n \in Names : n < j[2] /\ <<j[1], n>> \in changed

\* An item that was there all the while is returned, unless something sorted before
\* it (or before a folder it lies in) was withdrawn meanwhile: then the listing
\* shifts under the page index, and only then.
NothingStableMissed ==
    state = "done" =>
        \A i \in Item : Listable(i) /\ Stable(i) /\ out[i] = 0 => Shifted(i, withdrawn)

\* It is returned once, unless something before it was published meanwhile.
NothingStableTwice ==
    state = "done" =>
        \A i \in Item : Listable(i) /\ Stable(i) /\ out[i] > 1 => Shifted(i, published)
=============================================================================
