------------------------- MODULE BootMenuTreeProofs -------------------------
(* What one request at a time guarantees of the boot menu, proved. *)
EXTENDS BootMenuTree, FiniteSetTheorems, SubsequenceProofs, TLAPS

\* What the request under way read still holds when it commits.
PlanHolds(t) ==
    /\ req[t].op = "create" => req[t].parent \in live \union {Root}
    /\ req[t].op = "update" /\ req[t].moved =>
           req[t].parent = Root \/ ( /\ req[t].parent \in live
                                     /\ req[t].id \notin Line(req[t].parent) )
    /\ req[t].op = "delete" => /\ req[t].id \in Ids
                               /\ live \ {req[t].id} # {}
                               /\ Children(req[t].id) = {}
                               /\ InFolder(req[t].id) = {}
    /\ req[t].op \in {"place", "move"} => req[t].folder \in live

MenuShape ==
    /\ live \in SUBSET Ids
    /\ DOMAIN parent = Ids
    /\ DOMAIN within = Images
    /\ DOMAIN req = Requests

MenuInv ==
    /\ MenuShape
    /\ FoldersReachRoot
    /\ ImagesHaveFolders
    /\ \A t \in Requests : PlanHolds(t)
-----------------------------------------------------------------------------
\* A new child of the root or of a folder reaches the root through it.
LEMMA CreateReaches ==
    ASSUME NEW par2, NEW f \in Ids \ live, NEW p \in live \union {Root},
           FoldersReachRoot,
           \A g \in live : par2[g] = parent[g], par2[f] = p
    PROVE  \A S \in SUBSET (live \union {f}) : S # {} =>
               \E g \in S : par2[g] = Root \/ par2[g] \in (live \union {f}) \ S
<1> SUFFICES ASSUME NEW S \in SUBSET (live \union {f}), S # {}
             PROVE  \E g \in S :
                        par2[g] = Root \/ par2[g] \in (live \union {f}) \ S
    OBVIOUS
<1>1. CASE S = {f}
    BY <1>1
<1>2. CASE S # {f}
    <2>1. S \ {f} \in SUBSET live /\ S \ {f} # {}
        BY <1>2
    <2>2. PICK g \in S \ {f} : parent[g] = Root \/ parent[g] \in live \ (S \ {f})
        BY <2>1 DEF FoldersReachRoot
    <2>. QED
        BY <2>1, <2>2
<1>. QED
    BY <1>1, <1>2

(***************************************************************************)
(* A folder moved below one that it is not above reaches the root through  *)
(* it: a set of folders that holds both has a member above the new parent  *)
(* whose own parent is outside the set.                                    *)
(***************************************************************************)
LEMMA MoveReaches ==
    ASSUME NEW par2, NEW f \in live, NEW p,
           p = Root \/ (p \in live /\ f \notin Line(p)),
           FoldersReachRoot,
           \A g \in live \ {f} : par2[g] = parent[g], par2[f] = p
    PROVE  \A S \in SUBSET live : S # {} =>
               \E g \in S : par2[g] = Root \/ par2[g] \in live \ S
<1> SUFFICES ASSUME NEW S \in SUBSET live, S # {}
             PROVE  \E g \in S : par2[g] = Root \/ par2[g] \in live \ S
    OBVIOUS
<1>1. CASE f \notin S
    BY <1>1 DEF FoldersReachRoot
<1>2. CASE f \in S /\ (p = Root \/ p \notin S)
    BY <1>2
<1>3. CASE f \in S /\ p \in S /\ p # Root
    <2>1. PICK U \in SUBSET live : p \in U /\ ParentClosed(U) /\ f \notin U
        BY <1>3 DEF Line
    <2>2. S \intersect U \in SUBSET live /\ S \intersect U # {}
        BY <1>3, <2>1
    <2>3. PICK g \in S \intersect U :
              parent[g] = Root \/ parent[g] \in live \ (S \intersect U)
        BY <2>2 DEF FoldersReachRoot
    <2>4. parent[g] = Root \/ parent[g] \in live \ S
        BY <2>1, <2>3 DEF ParentClosed
    <2>. QED
        BY <2>1, <2>3, <2>4
<1>. QED
    BY <1>1, <1>2, <1>3
-----------------------------------------------------------------------------
LEMMA MenuInit == Init => MenuInv
<1> SUFFICES ASSUME Init PROVE MenuInv
    OBVIOUS
<1>1. MenuShape
    BY MenuAssumption DEF Init, MenuShape
<1>2. FoldersReachRoot
    BY MenuAssumption DEF Init, FoldersReachRoot
<1>3. ImagesHaveFolders
    BY MenuAssumption DEF Init, ImagesHaveFolders
<1>4. \A t \in Requests : PlanHolds(t)
    BY DEF Init, PlanHolds, NoWrites
<1>. QED
    BY <1>1, <1>2, <1>3, <1>4 DEF MenuInv

\* A read writes nothing, and what it checked holds.
LEMMA ReadKeepsInv ==
    ASSUME MenuInv, NEW t \in Requests, Requests = {t}, Read(t)
    PROVE  MenuInv'
<1>1. PICK w : req' = [req EXCEPT ![t] = w] /\ UNCHANGED <<folders, images>>
    BY DEF Read, CreateFolder, UpdateFolder, DeleteFolder, ReorderFolder,
           ReorderImage, SetImageFolder, PlaceNewImage, Plan
<1>2. MenuShape' /\ FoldersReachRoot' /\ ImagesHaveFolders'
    BY <1>1 DEF MenuInv, MenuShape, FoldersReachRoot, ImagesHaveFolders,
                folders, images
<1>3. t \in DOMAIN req
    BY DEF MenuInv, MenuShape
<1>4. PlanHolds(t)'
    <2>. USE <1>3
    <2>1. ASSUME NEW title \in Names, NEW p \in Ids \union {Root},
                 CreateFolder(t, title, p)
          PROVE  PlanHolds(t)'
        BY <2>1 DEF CreateFolder, Plan, PlanHolds, folders
    <2>2. ASSUME NEW f \in Ids, NEW p \in Ids \union {Root},
                 NEW title \in Names \union {name[f]}, UpdateFolder(t, f, title, p)
          PROVE  PlanHolds(t)'
        <3>1. /\ req'[t].op = "update" /\ req'[t].id = f /\ req'[t].parent = p
              /\ p \in live \union {Root} /\ Outside(f, p)
              /\ UNCHANGED <<live, parent>>
            BY <2>2 DEF UpdateFolder, Plan, folders
        <3>2. Line(p)' = Line(p)
            BY <3>1 DEF Line, ParentClosed
        <3>. QED
            BY <3>1, <3>2 DEF Outside, PlanHolds
    <2>3. ASSUME NEW f \in Ids, DeleteFolder(t, f)
          PROVE  PlanHolds(t)'
        <3>1. /\ req'[t].op = "delete" /\ req'[t].id = f
              /\ f \in live /\ Cardinality(live) > 1
              /\ Children(f) = {} /\ InFolder(f) = {}
              /\ UNCHANGED <<live, parent, within>>
            BY <2>3 DEF DeleteFolder, Plan, folders, images
        <3>2. Cardinality({f}) = 1
            BY FS_Singleton
        <3>3. live # {f}
            BY <3>1, <3>2
        <3>. QED
            BY <3>1, <3>3 DEF PlanHolds, Children, InFolder
    <2>4. ASSUME NEW f \in Ids, NEW g \in Ids, ReorderFolder(t, f, g)
          PROVE  PlanHolds(t)'
        BY <2>4 DEF ReorderFolder, Plan, PlanHolds
    <2>5. ASSUME NEW i \in Images, NEW j \in Images, ReorderImage(t, i, j)
          PROVE  PlanHolds(t)'
        BY <2>5 DEF ReorderImage, Plan, PlanHolds
    <2>6. ASSUME NEW i \in Images, NEW f \in Ids \union {Root},
                 SetImageFolder(t, i, f)
          PROVE  PlanHolds(t)'
        BY <2>6 DEF SetImageFolder, Plan, PlanHolds, folders
    <2>7. ASSUME NEW i \in Images, NEW f \in Ids \union {Root},
                 PlaceNewImage(t, i, f)
          PROVE  PlanHolds(t)'
        <3>1. Resolved(f) \subseteq live
            BY DEF Resolved, Children
        <3>. QED
            BY <2>7, <3>1 DEF PlaceNewImage, Plan, PlanHolds, folders
    <2>. QED
        BY <2>1, <2>2, <2>3, <2>4, <2>5, <2>6, <2>7 DEF Read
<1>. QED
    BY <1>2, <1>4 DEF MenuInv

(***************************************************************************)
(* A commit writes what was planned, and nothing has changed since that    *)
(* the plan rests on.                                                      *)
(***************************************************************************)
LEMMA CommitKeepsInv ==
    ASSUME MenuInv, NEW t \in Requests, Requests = {t},
           Commit(t) \/ Rollback(t)
    PROVE  MenuInv'
<1>. USE DEF MenuInv, MenuShape
<1>1. PlanHolds(t) /\ t \in DOMAIN req
    OBVIOUS
<1>2. req' = [req EXCEPT ![t] = NoWrites]
    BY DEF Commit, CommitCreate, CommitUpdate, CommitDelete, CommitSwap,
           CommitImageSwap, CommitPlace, Rollback, Done
<1>3. \A u \in Requests : PlanHolds(u)'
    BY <1>1, <1>2 DEF PlanHolds, NoWrites
<1>4. ASSUME UNCHANGED <<live, parent, within>>
      PROVE  MenuInv'
    BY <1>2, <1>3, <1>4 DEF FoldersReachRoot, ImagesHaveFolders
<1>5. CASE CommitCreate(t)
    <2>1. PICK f \in NewIds :
              /\ live' = live \union {f}
              /\ parent' = [parent EXCEPT ![f] = req[t].parent]
              /\ UNCHANGED within
        BY <1>5 DEF CommitCreate, images
    <2>2. f \in Ids /\ f \notin live
        BY <2>1, MenuAssumption DEF NewIds
    <2>3. req[t].parent \in live \union {Root}
        BY <1>1, <1>5 DEF CommitCreate, PlanHolds
    <2>4. \A g \in live : parent'[g] = parent[g]
        BY <2>1, <2>2
    <2>5. parent'[f] = req[t].parent
        BY <2>1, <2>2
    <2>6. FoldersReachRoot'
        <3>1. \A S \in SUBSET (live \union {f}) : S # {} => \E g \in S :
                  parent'[g] = Root \/ parent'[g] \in (live \union {f}) \ S
            BY <2>2, <2>3, <2>4, <2>5, CreateReaches
        <3>. QED
            BY <2>1, <3>1 DEF FoldersReachRoot, Root
    <2>7. ImagesHaveFolders'
        BY <2>1 DEF ImagesHaveFolders
    <2>. QED
        BY <1>2, <1>3, <2>1, <2>2, <2>6, <2>7
<1>6. CASE CommitUpdate(t)
    <2>1. CASE ~req[t].moved
        BY <1>4, <1>6, <2>1 DEF CommitUpdate, images
    <2>2. CASE req[t].moved
        <3>1. /\ req[t].id \in live /\ UNCHANGED <<live, within>>
              /\ parent' = [parent EXCEPT ![req[t].id] = req[t].parent]
            BY <1>6, <2>2 DEF CommitUpdate, images
        <3>2. req[t].parent = Root \/ ( /\ req[t].parent \in live
                                        /\ req[t].id \notin Line(req[t].parent) )
            BY <1>1, <1>6, <2>2 DEF CommitUpdate, PlanHolds
        <3>3. /\ \A g \in live \ {req[t].id} : parent'[g] = parent[g]
              /\ parent'[req[t].id] = req[t].parent
            BY <3>1
        <3>4. \A S \in SUBSET live : S # {} =>
                  \E g \in S : parent'[g] = Root \/ parent'[g] \in live \ S
            BY <3>1, <3>2, <3>3, MoveReaches
        <3>5. FoldersReachRoot'
            BY <3>1, <3>4 DEF FoldersReachRoot, Root
        <3>. QED
            BY <1>2, <1>3, <3>1, <3>5 DEF ImagesHaveFolders
    <2>. QED
        BY <2>1, <2>2
<1>7. CASE CommitDelete(t)
    <2>1. /\ live' = live \ {req[t].id}
          /\ parent' = [parent EXCEPT ![req[t].id] = Root]
          /\ UNCHANGED within
        BY <1>7 DEF CommitDelete, images
    <2>2. /\ live' # {}
          /\ \A g \in live' : parent[g] # req[t].id /\ parent'[g] = parent[g]
          /\ \A i \in Images : within[i] # req[t].id
        BY <1>1, <1>7, <2>1 DEF CommitDelete, PlanHolds, Children, InFolder
    <2>3. FoldersReachRoot'
        <3>1. \A S \in SUBSET live' : S # {} =>
                  \E g \in S : parent[g] = Root \/ parent[g] \in live \ S
            BY <2>1 DEF FoldersReachRoot
        <3>. QED
            BY <2>1, <2>2, <3>1 DEF FoldersReachRoot, Root
    <2>4. ImagesHaveFolders'
        BY <2>1, <2>2 DEF ImagesHaveFolders
    <2>. QED
        BY <1>2, <1>3, <2>1, <2>3, <2>4
<1>8. CASE CommitSwap(t)
    BY <1>4, <1>8 DEF CommitSwap, images
<1>9. CASE CommitImageSwap(t)
    BY <1>4, <1>9 DEF CommitImageSwap, folders
<1>10. CASE CommitPlace(t)
    <2>1. /\ within' = [within EXCEPT ![req[t].id] = req[t].folder]
          /\ UNCHANGED <<live, parent>> /\ req[t].folder \in live
        BY <1>1, <1>10 DEF CommitPlace, PlanHolds, folders
    <2>2. ImagesHaveFolders'
        BY <2>1 DEF ImagesHaveFolders
    <2>. QED
        BY <1>2, <1>3, <2>1, <2>2 DEF FoldersReachRoot
<1>11. CASE Rollback(t)
    BY <1>4, <1>11 DEF Rollback, folders, images
<1>. QED
    BY <1>5, <1>6, <1>7, <1>8, <1>9, <1>10, <1>11 DEF Commit

\* An image that goes leaves its folder emptier, which no plan minds.
LEMMA DeleteImageKeepsInv ==
    ASSUME MenuInv, NEW i \in Images, DeleteImage(i)
    PROVE  MenuInv'
<1>. USE DEF MenuInv, MenuShape
<1>1. /\ within' = [within EXCEPT ![i] = 0]
      /\ UNCHANGED <<live, parent, req>>
    BY DEF DeleteImage, folders
<1>2. FoldersReachRoot' /\ ImagesHaveFolders'
    BY <1>1 DEF FoldersReachRoot, ImagesHaveFolders
<1>3. ASSUME NEW t \in Requests PROVE PlanHolds(t)'
    <2>1. PlanHolds(t)
        OBVIOUS
    <2>2. ASSUME NEW p PROVE Line(p)' = Line(p)
        BY <1>1 DEF Line, ParentClosed
    <2>3. req[t].op = "delete" => InFolder(req[t].id)' = {}
        <3>1. 0 \notin Ids
            BY MenuAssumption
        <3>. QED
            BY <1>1, <2>1, <3>1 DEF PlanHolds, InFolder
    <2>. QED
        BY <1>1, <2>1, <2>2, <2>3 DEF PlanHolds, Children
<1>. QED
    BY <1>1, <1>2, <1>3

LEMMA MenuInduction ==
    ASSUME OneAtATime
    PROVE  Spec => []MenuInv
<1>1. MenuInv /\ [Next]_vars => MenuInv'
    <2> SUFFICES ASSUME MenuInv, [Next]_vars PROVE MenuInv'
        OBVIOUS
    <2>1. PICK r \in Requests : Requests = {r}
        BY DEF OneAtATime
    <2>2. ASSUME NEW t \in Requests, Read(t) \/ Commit(t) \/ Rollback(t)
          PROVE  MenuInv'
        BY <2>1, <2>2, ReadKeepsInv, CommitKeepsInv
    <2>3. ASSUME UNCHANGED vars PROVE MenuInv'
        BY <2>3 DEF vars, folders, images, MenuInv, MenuShape,
                    FoldersReachRoot, ImagesHaveFolders, PlanHolds, Line,
                    ParentClosed, Children, InFolder
    <2>. QED
        BY <2>2, <2>3, DeleteImageKeepsInv DEF Next
<1>. QED
    BY <1>1, MenuInit, PTL DEF Spec

(***************************************************************************)
(* While one request is under way at a time, no sequence of folder edits   *)
(* makes a cycle or an orphan (update_folder, delete_folder); a folder     *)
(* remains, and every image is in a folder (folder_delete_blocked,         *)
(* resolve_folder_for_image).                                              *)
(***************************************************************************)
THEOREM MenuStaysInReach ==
    ASSUME OneAtATime
    PROVE  Spec => []MenuIsReachable
<1>1. MenuInv => MenuIsReachable
    BY DEF MenuInv, MenuIsReachable
<1>. QED
    BY <1>1, MenuInduction, PTL
-----------------------------------------------------------------------------
(* Names and sort orders *)

\* The next sort order is one that no sibling has.
LEMMA NextIsFree ==
    ASSUME NEW n \in Nat, NEW key, NEW siblings,
           \A x \in siblings : key[x] \in 0..n,
           NextSort(key, siblings) <= n
    PROVE  /\ NextSort(key, siblings) \in 0..n
           /\ \A x \in siblings : key[x] # NextSort(key, siblings)
<1>1. CASE siblings = {}
    BY <1>1 DEF NextSort
<1>2. CASE siblings # {}
    <2>. DEFINE S == {key[x] : x \in siblings}
    <2>1. S \in SUBSET (0..n) /\ S # {}
        BY <1>2
    <2>2. Max(S) \in S /\ \A y \in S : Max(S) >= y
        <3>. HIDE DEF S
        <3>. QED
            BY <2>1, LargestExists DEF Max
    <2>3. NextSort(key, siblings) = 1 + Max(S)
        BY <1>2 DEF NextSort
    <2>4. Max(S) \in 0..n
        BY <2>1, <2>2
    <2>5. \A x \in siblings : key[x] \in S
        OBVIOUS
    <2>. HIDE DEF S
    <2>. QED
        BY <2>2, <2>3, <2>4, <2>5
<1>. QED
    BY <1>1, <1>2

AllNames == Names \union {Home} \union Range(Seeds)

NameFree(p, title, self) == \A g \in Children(p) \ {self} : name[g] # title
SortFree(p, s) == s \in 0..MaxSort /\ \A g \in Children(p) : sort[g] # s
PlaceFree(f, s) == s \in 0..MaxPlace /\ \A i \in InFolder(f) : place[i] # s

\* What the request under way read of names and orders still holds.
PlanFits(t) ==
    LET w == req[t]
    IN  /\ w.op = "create" =>
               /\ w.parent \in Ids \union {Root} /\ w.name \in AllNames
               /\ NameFree(w.parent, w.name, Root) /\ SortFree(w.parent, w.sort)
        /\ w.op = "update" =>
               /\ w.id \in Ids
               /\ w.parent \in Ids \union {Root} /\ w.name \in AllNames
               /\ w.moved = (w.parent # parent[w.id])
               /\ w.renamed = (w.name # name[w.id])
               /\ NameFree(w.parent, w.name, w.id)
               /\ w.moved => SortFree(w.parent, w.sort)
        /\ w.op = "delete" => w.id \in Ids
        /\ w.op = "swap" =>
               /\ w.id \in Ids /\ w.with \in Ids /\ w.id # w.with
               /\ parent[w.id] = parent[w.with]
               /\ w.mine = sort[w.with] /\ w.its = sort[w.id]
        /\ w.op = "swapimages" =>
               /\ w.id \in Images /\ w.with \in Images /\ w.id # w.with
               /\ within[w.id] # 0 /\ within[w.with] # 0 =>
                      /\ within[w.id] = within[w.with]
                      /\ w.mine = place[w.with] /\ w.its = place[w.id]
        /\ w.op \in {"place", "move"} =>
               /\ w.id \in Images /\ w.folder \in Ids
               /\ PlaceFree(w.folder, w.sort)

(***************************************************************************)
(* The inductive invariant of names and orders.  A plan to change places   *)
(* only exchanges two orders because siblings differ, and siblings differ  *)
(* because what a plan writes is free where it is written.                 *)
(***************************************************************************)
RowsInv ==
    /\ TypeOK
    /\ SiblingsDiffer
    /\ \A t \in Requests : PlanFits(t)

LEMMA RowsInit == Init => RowsInv
<1> SUFFICES ASSUME Init PROVE RowsInv
    OBVIOUS
<1>1. TypeOK
    <2>1. \A f \in DOMAIN Seeds : f \in Nat \ {0} /\ f - 1 <= MaxSort
        BY MenuAssumption
    <2>2. \A f \in DOMAIN Seeds : f - 1 \in 0..MaxSort
        BY <2>1, MenuAssumption
    <2>3. \A f \in DOMAIN Seeds : Seeds[f] \in Range(Seeds)
        BY DEF Range
    <2>4. live \subseteq Ids /\ parent \in [Ids -> Ids \union {Root}]
        BY MenuAssumption DEF Init
    <2>5. name \in [Ids -> Names \union {Home} \union Range(Seeds)]
        BY <2>3 DEF Init
    <2>6. sort \in [Ids -> 0..MaxSort]
        BY <2>2, MenuAssumption DEF Init
    <2>7. within \in [Images -> Ids \union {0}] /\ place \in [Images -> 0..MaxPlace]
        BY MenuAssumption DEF Init
    <2>. QED
        BY <2>4, <2>5, <2>6, <2>7 DEF TypeOK
<1>2. ASSUME NEW f \in live, NEW g \in live, f # g
      PROVE  name[f] # name[g] /\ sort[f] # sort[g]
    <2>1. f \in Ids /\ g \in Ids /\ f \in Nat /\ g \in Nat /\ Seeds[f] # Seeds[g]
        BY <1>2, MenuAssumption DEF Init
    <2>2. /\ name[f] = Seeds[f] /\ name[g] = Seeds[g]
          /\ sort[f] = f - 1 /\ sort[g] = g - 1
        BY <2>1 DEF Init
    <2>. QED
        BY <1>2, <2>1, <2>2
<1>3. \A t \in Requests : PlanFits(t)
    BY DEF Init, PlanFits, NoWrites
<1>. QED
    BY <1>1, <1>2, <1>3 DEF RowsInv, SiblingsDiffer, Init

LEMMA ReadKeepsRows ==
    ASSUME MenuInv, RowsInv, NEW t \in Requests, Requests = {t}, Read(t)
    PROVE  RowsInv'
<1>1. PICK w : req' = [req EXCEPT ![t] = w] /\ UNCHANGED <<folders, images>>
    BY DEF Read, CreateFolder, UpdateFolder, DeleteFolder, ReorderFolder,
           ReorderImage, SetImageFolder, PlaceNewImage, Plan
<1>2. TypeOK' /\ SiblingsDiffer'
    BY <1>1 DEF RowsInv, TypeOK, SiblingsDiffer, folders, images
<1>3. /\ t \in DOMAIN req /\ live \subseteq Ids
      /\ UNCHANGED <<live, parent, name, sort, within, place>>
    BY <1>1 DEF MenuInv, MenuShape, folders, images
<1>4. /\ \A p : Children(p)' = Children(p) /\ Children(p) \subseteq Ids
      /\ \A f : InFolder(f)' = InFolder(f) /\ InFolder(f) \subseteq Images
    BY <1>3 DEF Children, InFolder
<1>5. ASSUME NEW p, FolderFits(p)
      PROVE  SortFree(p, NextSort(sort, Children(p)))
    <2>1. \A g \in Children(p) : sort[g] \in 0..MaxSort
        BY <1>4 DEF RowsInv, TypeOK
    <2>. QED
        BY <1>5, <2>1, NextIsFree, MenuAssumption DEF FolderFits, SortFree
<1>6. ASSUME NEW f, ImageFits(f)
      PROVE  PlaceFree(f, NextSort(place, InFolder(f)))
    <2>1. \A i \in InFolder(f) : place[i] \in 0..MaxPlace
        BY <1>4 DEF RowsInv, TypeOK
    <2>. QED
        BY <1>6, <2>1, NextIsFree, MenuAssumption DEF ImageFits, PlaceFree
<1>7. /\ \A p, title, self : NameFree(p, title, self) => NameFree(p, title, self)'
      /\ \A p, s : SortFree(p, s) => SortFree(p, s)'
      /\ \A f, s : PlaceFree(f, s) => PlaceFree(f, s)'
    BY <1>3, <1>4 DEF NameFree, SortFree, PlaceFree
<1>8. PlanFits(t)'
    <2>1. ASSUME NEW title \in Names, NEW p \in Ids \union {Root},
                 CreateFolder(t, title, p)
          PROVE  PlanFits(t)'
        <3>1. NameFree(p, title, Root) /\ SortFree(p, NextSort(sort, Children(p)))
            BY <1>5, <2>1 DEF CreateFolder, SiblingClash, NameFree
        <3>2. req'[t] = [op |-> "create", name |-> title, parent |-> p,
                         sort |-> NextSort(sort, Children(p))]
            BY <1>3, <2>1 DEF CreateFolder, Plan
        <3>. QED
            BY <1>7, <3>1, <3>2 DEF PlanFits, AllNames
    <2>2. ASSUME NEW f \in Ids, NEW p \in Ids \union {Root},
                 NEW title \in Names \union {name[f]}, UpdateFolder(t, f, title, p)
          PROVE  PlanFits(t)'
        <3>1. /\ NameFree(p, title, f)
              /\ p # parent[f] => SortFree(p, NextSort(sort, Children(p)))
            BY <1>5, <2>2 DEF UpdateFolder, SiblingClash, NameFree
        <3>2. req'[t] = [op |-> "update", id |-> f,
                         renamed |-> title # name[f], name |-> title,
                         moved |-> p # parent[f], parent |-> p,
                         sort |-> NextSort(sort, Children(p))]
            BY <1>3, <2>2 DEF UpdateFolder, Plan
        <3>3. /\ req'[t].op = "update" /\ req'[t].id = f /\ req'[t].name = title
              /\ req'[t].parent = p /\ req'[t].sort = NextSort(sort, Children(p))
            BY <3>2
        <3>4. /\ req'[t].moved = (p # parent[f])
              /\ req'[t].renamed = (title # name[f])
            BY <3>2
        <3>5. title \in AllNames
            BY DEF RowsInv, TypeOK, AllNames
        <3>. QED
            BY <1>3, <1>7, <3>1, <3>3, <3>4, <3>5 DEF PlanFits
    <2>3. ASSUME NEW f \in Ids, DeleteFolder(t, f)
          PROVE  PlanFits(t)'
        <3>1. req'[t] = [op |-> "delete", id |-> f]
            BY <1>3, <2>3 DEF DeleteFolder, Plan
        <3>. QED
            BY <3>1 DEF PlanFits
    <2>4. ASSUME NEW f \in Ids, NEW g \in Ids, ReorderFolder(t, f, g)
          PROVE  PlanFits(t)'
        <3>1. f \in live /\ g \in live /\ f # g /\ parent[f] = parent[g]
            BY <2>4 DEF ReorderFolder, Children
        <3>2. StepTo(sort, f, g) = sort[g]
            BY <3>1 DEF RowsInv, SiblingsDiffer, StepTo
        <3>3. req'[t] = [op |-> "swap", id |-> f, with |-> g,
                         mine |-> sort[g], its |-> sort[f]]
            BY <1>3, <2>4, <3>2 DEF ReorderFolder, Plan
        <3>. QED
            BY <1>3, <3>1, <3>3 DEF PlanFits
    <2>5. ASSUME NEW i \in Images, NEW j \in Images, ReorderImage(t, i, j)
          PROVE  PlanFits(t)'
        <3>1. i # j /\ within[i] = within[j] /\ within[i] # 0
            BY <2>5 DEF ReorderImage, InFolder
        <3>2. StepTo(place, i, j) = place[j]
            BY <3>1 DEF RowsInv, SiblingsDiffer, StepTo
        <3>3. req'[t] = [op |-> "swapimages", id |-> i, with |-> j,
                         mine |-> place[j], its |-> place[i]]
            BY <1>3, <2>5, <3>2 DEF ReorderImage, Plan
        <3>. QED
            BY <1>3, <3>1, <3>3 DEF PlanFits
    <2>6. ASSUME NEW i \in Images, NEW f \in Ids \union {Root},
                 SetImageFolder(t, i, f)
          PROVE  PlanFits(t)'
        <3>1. f \in Ids /\ PlaceFree(f, NextSort(place, InFolder(f)))
            BY <1>3, <1>6, <2>6 DEF SetImageFolder
        <3>2. req'[t] = [op |-> "move", id |-> i, folder |-> f,
                         sort |-> NextSort(place, InFolder(f))]
            BY <1>3, <2>6 DEF SetImageFolder, Plan
        <3>. QED
            BY <1>7, <3>1, <3>2 DEF PlanFits
    <2>7. ASSUME NEW i \in Images, NEW f \in Ids \union {Root},
                 PlaceNewImage(t, i, f)
          PROVE  PlanFits(t)'
        <3>1. PICK g \in Resolved(f) :
                  /\ ImageFits(g)
                  /\ Plan(t, [op |-> "place", id |-> i, folder |-> g,
                              sort |-> NextSort(place, InFolder(g))])
            BY <2>7 DEF PlaceNewImage
        <3>2. g \in Ids /\ PlaceFree(g, NextSort(place, InFolder(g)))
            BY <1>3, <1>6, <3>1 DEF Resolved, Children
        <3>3. req'[t] = [op |-> "place", id |-> i, folder |-> g,
                         sort |-> NextSort(place, InFolder(g))]
            BY <1>3, <3>1 DEF Plan
        <3>. QED
            BY <1>7, <3>2, <3>3 DEF PlanFits
    <2>. QED
        BY <2>1, <2>2, <2>3, <2>4, <2>5, <2>6, <2>7 DEF Read
<1>. QED
    BY <1>2, <1>8 DEF RowsInv

LEMMA CommitKeepsRows ==
    ASSUME MenuInv, RowsInv, NEW t \in Requests, Requests = {t},
           Commit(t) \/ Rollback(t)
    PROVE  RowsInv'
<1>. USE DEF RowsInv
<1>1. PlanFits(t) /\ TypeOK /\ SiblingsDiffer /\ t \in DOMAIN req
    BY DEF MenuInv, MenuShape
<1>2. \A u \in Requests : PlanFits(u)'
    <2>1. req' = [req EXCEPT ![t] = NoWrites]
        BY DEF Commit, CommitCreate, CommitUpdate, CommitDelete, CommitSwap,
               CommitImageSwap, CommitPlace, Rollback, Done
    <2>. QED
        BY <1>1, <2>1 DEF PlanFits, NoWrites
<1>3. CASE CommitCreate(t)
    <2>1. PICK f \in NewIds :
              /\ live' = live \union {f}
              /\ parent' = [parent EXCEPT ![f] = req[t].parent]
              /\ name' = [name EXCEPT ![f] = req[t].name]
              /\ sort' = [sort EXCEPT ![f] = req[t].sort]
              /\ UNCHANGED <<within, place>>
        BY <1>3 DEF CommitCreate, images
    <2>2. f \in Ids /\ f \notin live /\ f # Root
        BY <2>1, MenuAssumption DEF NewIds, TypeOK, Root
    <2>3. /\ req[t].parent \in Ids \union {Root} /\ req[t].name \in AllNames
          /\ NameFree(req[t].parent, req[t].name, Root)
          /\ SortFree(req[t].parent, req[t].sort)
        BY <1>1, <1>3 DEF CommitCreate, PlanFits
    <2>4. TypeOK'
        BY <1>1, <2>1, <2>2, <2>3 DEF TypeOK, SortFree, AllNames
    <2>5. \A g \in live : /\ parent'[g] = parent[g] /\ name'[g] = name[g]
                          /\ sort'[g] = sort[g]
        BY <2>1, <2>2
    <2>6. /\ parent'[f] = req[t].parent /\ name'[f] = req[t].name
          /\ sort'[f] = req[t].sort
        BY <1>1, <2>1, <2>2 DEF TypeOK
    <2>7. \A g \in live : parent[g] = req[t].parent =>
              name[g] # req[t].name /\ sort[g] # req[t].sort
        BY <1>1, <2>3, MenuAssumption DEF NameFree, SortFree, Children, TypeOK, Root
    <2>8. SiblingsDiffer'
        BY <1>1, <2>1, <2>5, <2>6, <2>7 DEF SiblingsDiffer
    <2>. QED
        BY <1>2, <2>4, <2>8
<1>4. CASE CommitUpdate(t)
    <2>. DEFINE w == req[t]
                f == w.id
    <2>1. /\ f \in live /\ f \in Ids
          /\ w.parent \in Ids \union {Root} /\ w.name \in AllNames
          /\ NameFree(w.parent, w.name, f)
          /\ w.parent # parent[f] => w.moved /\ SortFree(w.parent, w.sort)
          /\ w.parent = parent[f] => ~w.moved
          /\ w.name # name[f] => w.renamed
          /\ w.name = name[f] => ~w.renamed
          /\ UNCHANGED <<live, within, place>>
        BY <1>1, <1>4 DEF CommitUpdate, PlanFits, images
    <2>2. parent' = [parent EXCEPT ![f] = w.parent]
        BY <1>1, <1>4, <2>1 DEF CommitUpdate, TypeOK
    <2>3. name' = [name EXCEPT ![f] = w.name]
        BY <1>1, <1>4, <2>1 DEF CommitUpdate, TypeOK
    <2>4. \/ w.parent = parent[f] /\ sort' = sort
          \/ /\ w.parent # parent[f] /\ SortFree(w.parent, w.sort)
             /\ sort' = [sort EXCEPT ![f] = w.sort]
        BY <1>4, <2>1 DEF CommitUpdate
    <2>. HIDE DEF w, f
    <2>5. TypeOK'
        BY <1>1, <2>1, <2>2, <2>3, <2>4 DEF TypeOK, SortFree, AllNames
    <2>6. \A g \in live \ {f} : /\ parent'[g] = parent[g] /\ name'[g] = name[g]
                                /\ sort'[g] = sort[g]
        <3>1. \A g \in live \ {f} : parent'[g] = parent[g] /\ name'[g] = name[g]
            BY <1>1, <2>2, <2>3 DEF TypeOK
        <3>2. \A g \in live \ {f} : sort'[g] = sort[g]
            BY <1>1, <2>4 DEF TypeOK
        <3>. QED
            BY <3>1, <3>2
    <2>7. \A g \in live \ {f} : parent[g] = w.parent =>
              name[g] # w.name /\ sort[g] # sort'[f]
        <3>1. \A g \in live \ {f} : parent[g] = w.parent => name[g] # w.name
            BY <2>1 DEF NameFree, Children
        <3>2. ASSUME NEW g \in live \ {f}, parent[g] = w.parent
              PROVE  sort[g] # sort'[f]
            BY <1>1, <2>1, <2>4, <3>2 DEF SiblingsDiffer, SortFree, Children, TypeOK
        <3>. QED
            BY <3>1, <3>2
    <2>8. parent'[f] = w.parent /\ name'[f] = w.name
        BY <1>1, <2>1, <2>2, <2>3 DEF TypeOK
    <2>9. SiblingsDiffer'
        BY <1>1, <2>1, <2>6, <2>7, <2>8 DEF SiblingsDiffer
    <2>. QED
        BY <1>2, <2>5, <2>9
<1>5. CASE CommitDelete(t)
    <2>1. /\ live' = live \ {req[t].id} /\ req[t].id \in Ids
          /\ parent' = [parent EXCEPT ![req[t].id] = Root]
          /\ name' = [name EXCEPT ![req[t].id] = Home]
          /\ sort' = [sort EXCEPT ![req[t].id] = 0]
          /\ UNCHANGED <<within, place>>
        BY <1>1, <1>5 DEF CommitDelete, PlanFits, images
    <2>2. TypeOK'
        <3>1. sort' \in [Ids -> 0..MaxSort]
            BY <1>1, <2>1, MenuAssumption DEF TypeOK
        <3>2. /\ live' \subseteq Ids /\ parent' \in [Ids -> Ids \union {Root}]
              /\ name' \in [Ids -> Names \union {Home} \union Range(Seeds)]
            BY <1>1, <2>1 DEF TypeOK
        <3>. QED
            BY <1>1, <2>1, <3>1, <3>2 DEF TypeOK
    <2>3. SiblingsDiffer'
        BY <1>1, <2>1 DEF SiblingsDiffer
    <2>. QED
        BY <1>2, <2>2, <2>3
<1>6. CASE CommitSwap(t)
    <2>. DEFINE f == req[t].id
                g == req[t].with
    <2>1. /\ f \in Ids /\ g \in Ids /\ f # g /\ parent[f] = parent[g]
          /\ sort' = [sort EXCEPT ![f] = sort[g], ![g] = sort[f]]
          /\ UNCHANGED <<live, parent, name, within, place>>
        BY <1>1, <1>6 DEF CommitSwap, PlanFits, images
    <2>. HIDE DEF f, g
    <2>2. TypeOK'
        BY <1>1, <2>1 DEF TypeOK
    <2>3. SiblingsDiffer'
        BY <1>1, <2>1, <1>6 DEF SiblingsDiffer, TypeOK, CommitSwap, f, g
    <2>. QED
        BY <1>2, <2>2, <2>3
<1>7. CASE CommitImageSwap(t)
    <2>. DEFINE i == req[t].id
                j == req[t].with
    <2>1. /\ i \in Images /\ j \in Images /\ i # j /\ within[i] = within[j]
          /\ place' = [place EXCEPT ![i] = place[j], ![j] = place[i]]
          /\ UNCHANGED <<live, parent, name, sort, within>>
        BY <1>1, <1>7 DEF CommitImageSwap, PlanFits, folders
    <2>. HIDE DEF i, j
    <2>2. TypeOK'
        BY <1>1, <2>1 DEF TypeOK
    <2>3. SiblingsDiffer'
        BY <1>1, <2>1 DEF SiblingsDiffer, TypeOK
    <2>. QED
        BY <1>2, <2>2, <2>3
<1>8. CASE CommitPlace(t)
    <2>1. /\ req[t].id \in Images /\ req[t].folder \in Ids
          /\ PlaceFree(req[t].folder, req[t].sort)
          /\ within' = [within EXCEPT ![req[t].id] = req[t].folder]
          /\ place' = [place EXCEPT ![req[t].id] = req[t].sort]
          /\ UNCHANGED <<live, parent, name, sort>>
        BY <1>1, <1>8 DEF CommitPlace, PlanFits, folders
    <2>2. TypeOK'
        BY <1>1, <2>1 DEF TypeOK, PlaceFree
    <2>3. SiblingsDiffer'
        BY <1>1, <2>1 DEF SiblingsDiffer, TypeOK, PlaceFree, InFolder
    <2>. QED
        BY <1>2, <2>2, <2>3
<1>9. CASE Rollback(t)
    BY <1>1, <1>2, <1>9 DEF Rollback, TypeOK, SiblingsDiffer, folders, images
<1>. QED
    BY <1>3, <1>4, <1>5, <1>6, <1>7, <1>8, <1>9 DEF Commit

\* An image that goes frees its place, and no plan on it is written any more.
LEMMA DeleteImageKeepsRows ==
    ASSUME MenuInv, RowsInv, NEW i \in Images, DeleteImage(i)
    PROVE  RowsInv'
<1>. USE DEF RowsInv
<1>1. /\ within' = [within EXCEPT ![i] = 0]
      /\ place' = [place EXCEPT ![i] = 0]
      /\ UNCHANGED <<live, parent, name, sort, req>>
    BY DEF DeleteImage, folders
<1>2. TypeOK' /\ SiblingsDiffer'
    BY <1>1, MenuAssumption DEF TypeOK, SiblingsDiffer
<1>3. ASSUME NEW t \in Requests PROVE PlanFits(t)'
    <2>1. PlanFits(t) /\ TypeOK /\ 0 \notin Ids
        BY MenuAssumption
    <2>2. /\ \A p, title, self : NameFree(p, title, self)' = NameFree(p, title, self)
          /\ \A p, s : SortFree(p, s)' = SortFree(p, s)
        BY <1>1 DEF NameFree, SortFree, Children
    <2>3. ASSUME NEW f \in Ids, NEW s, PlaceFree(f, s) PROVE PlaceFree(f, s)'
        BY <1>1, <2>1, <2>3 DEF PlaceFree, InFolder, TypeOK
    <2>4. ASSUME req[t].op = "swapimages", within'[req[t].id] # 0,
                 within'[req[t].with] # 0
          PROVE  /\ within'[req[t].id] = within'[req[t].with]
                 /\ req[t].mine = place'[req[t].with] /\ req[t].its = place'[req[t].id]
        BY <1>1, <2>1, <2>4 DEF PlanFits, TypeOK
    <2>. QED
        BY <1>1, <2>1, <2>2, <2>3, <2>4 DEF PlanFits
<1>. QED
    BY <1>2, <1>3

LEMMA RowsInduction ==
    ASSUME OneAtATime
    PROVE  Spec => []RowsInv
<1>1. MenuInv /\ RowsInv /\ [Next]_vars => RowsInv'
    <2> SUFFICES ASSUME MenuInv, RowsInv, [Next]_vars PROVE RowsInv'
        OBVIOUS
    <2>1. PICK r \in Requests : Requests = {r}
        BY DEF OneAtATime
    <2>2. ASSUME NEW t \in Requests, Read(t) \/ Commit(t) \/ Rollback(t)
          PROVE  RowsInv'
        BY <2>1, <2>2, ReadKeepsRows, CommitKeepsRows
    <2>3. ASSUME UNCHANGED vars PROVE RowsInv'
        BY <2>3 DEF vars, folders, images, RowsInv, TypeOK, SiblingsDiffer,
                    PlanFits, NameFree, SortFree, PlaceFree, Children, InFolder
    <2>. QED
        BY <2>2, <2>3, DeleteImageKeepsRows DEF Next
<1>. QED
    BY <1>1, RowsInit, MenuInduction, PTL DEF Spec

\* Type correctness of the menu's rows, while requests come one at a time.
THEOREM MenuTypeCorrect ==
    ASSUME OneAtATime
    PROVE  Spec => []TypeOK
<1>1. RowsInv => TypeOK
    BY DEF RowsInv
<1>. QED
    BY <1>1, RowsInduction, PTL

(***************************************************************************)
(* While one request is under way at a time, siblings keep different names *)
(* and sort orders, so that moving one up passes exactly one neighbour     *)
(* (create_folder, update_folder, reorder_folder, set_image_folder).       *)
(***************************************************************************)
THEOREM SiblingsStayDifferent ==
    ASSUME OneAtATime
    PROVE  Spec => []SiblingsDiffer
<1>1. RowsInv => SiblingsDiffer
    BY DEF RowsInv
<1>. QED
    BY <1>1, RowsInduction, PTL
-----------------------------------------------------------------------------
(* Depths: the ways up from the folders *)

Top == Cardinality(Ids)

LEMMA TopIsNat == Top \in Nat
    BY MenuAssumption, FS_CardinalityType DEF Top

\* The function that Above(f) chooses, for rows L with the parents q
Climbs(up, c, L, q, f) ==
    up = [n \in 0..c |-> IF n = 0 THEN f
                         ELSE IF up[n - 1] \in L THEN q[up[n - 1]] ELSE Root]

WayUp(L, q, f) == CHOOSE up : Climbs(up, Top, L, q, f)

LEMMA AboveIsWayUp ==
    \A f : Above(f) = WayUp(live, parent, f)
    BY DEF Above, WayUp, Climbs, Top

LEMMA ClimbExists ==
    ASSUME NEW L, NEW q, NEW f, NEW c \in Nat
    PROVE  \E up : Climbs(up, c, L, q, f)
<1>. DEFINE Good == {n \in 0..c : \E up : Climbs(up, n, L, q, f)}
<1>1. 0 \in Good
    <2>1. Climbs([n \in 0..0 |-> f], 0, L, q, f)
        BY DEF Climbs
    <2>. QED
        BY <2>1
<1>2. ASSUME NEW n \in 0..c, n \in Good, n < c PROVE n + 1 \in Good
    <2>1. PICK up : Climbs(up, n, L, q, f)
        BY <1>2
    <2>. DEFINE next == [m \in 0..(n + 1) |->
                            IF m <= n THEN up[m]
                            ELSE IF up[n] \in L THEN q[up[n]] ELSE Root]
    <2>2. \A m \in 0..n : up[m] =
              IF m = 0 THEN f
              ELSE IF up[m - 1] \in L THEN q[up[m - 1]] ELSE Root
        BY <2>1 DEF Climbs
    <2>3. \A m \in 0..(n + 1) : next[m] =
              IF m = 0 THEN f
              ELSE IF next[m - 1] \in L THEN q[next[m - 1]] ELSE Root
        <3> SUFFICES ASSUME NEW m \in 0..(n + 1)
                     PROVE  next[m] =
                                IF m = 0 THEN f
                                ELSE IF next[m - 1] \in L THEN q[next[m - 1]]
                                ELSE Root
            OBVIOUS
        <3>1. CASE m <= n
            <4>1. m \in 0..n /\ next[m] = up[m]
                  /\ (m # 0 => next[m - 1] = up[m - 1])
                BY <3>1
            <4>. HIDE DEF next
            <4>. QED
                BY <2>2, <4>1
        <3>2. CASE m = n + 1
            <4>1. m # 0 /\ m - 1 = n /\ ~(m <= n) /\ n \in 0..(n + 1)
                BY <3>2
            <4>2. next[n] = up[n]
                BY <4>1
            <4>. QED
                BY <4>1, <4>2
        <3>. QED
            BY <3>1, <3>2
    <2>4. next = [m \in 0..(n + 1) |-> next[m]]
        OBVIOUS
    <2>. HIDE DEF next
    <2>5. Climbs(next, n + 1, L, q, f)
        BY <2>3, <2>4 DEF Climbs
    <2>6. n + 1 \in 0..c
        BY <1>2
    <2>. QED
        BY <2>5, <2>6
<1>. HIDE DEF Good
<1>3. Good \in SUBSET (0..c)
    BY DEF Good
<1>4. Good = 0..c
    BY <1>1, <1>2, <1>3, Counting
<1>. QED
    BY <1>4 DEF Good

\* What a way up is: from f to the parent of each row, and at the root there
\* it stays.
LEMMA WayUpFacts ==
    ASSUME NEW L, NEW q, NEW f, NEW up, up = WayUp(L, q, f)
    PROVE  /\ DOMAIN up = 0..Top
           /\ up[0] = f
           /\ \A n \in 1..Top :
                  up[n] = IF up[n - 1] \in L THEN q[up[n - 1]] ELSE Root
<1>1. Climbs(up, Top, L, q, f)
    BY ClimbExists, TopIsNat DEF WayUp
<1>2. 0 \in 0..Top /\ \A n \in 1..Top : n \in 0..Top /\ n # 0
    BY TopIsNat
<1>. QED
    BY <1>1, <1>2 DEF Climbs

\* The members of a way up below the root are its first ones.
LEMMA RootIsLast ==
    ASSUME NEW L, Root \notin L, NEW q, NEW f, NEW up, up = WayUp(L, q, f),
           NEW n \in 1..Top, up[n] # Root
    PROVE  \A m \in 1..n : up[m] # Root
<1>. DEFINE S == {d \in 0..(n - 1) : up[n - d] # Root}
<1>1. Top \in Nat /\ n \in 1..Top /\ n - 1 \in Nat /\ n - 0 = n
    BY TopIsNat
<1>2. 0 \in S
    BY <1>1
<1>3. ASSUME NEW d \in 0..(n - 1), d \in S, d < n - 1 PROVE d + 1 \in S
    <2>1. /\ n - d \in 1..Top /\ (n - d) - 1 = n - (d + 1)
          /\ d + 1 \in 0..(n - 1)
        BY <1>1, <1>3
    <2>2. up[n - d] # Root
        BY <1>3
    <2>3. up[n - (d + 1)] # Root
        <3>1. up[n - d] =
                  IF up[n - (d + 1)] \in L THEN q[up[n - (d + 1)]] ELSE Root
            BY <2>1, WayUpFacts
        <3>. QED
            BY <2>2, <3>1
    <2>. QED
        BY <2>1, <2>3
<1>4. \A d \in 0..(n - 1) : d \in S => up[n - d] # Root
    OBVIOUS
<1>5. S \in SUBSET (0..(n - 1))
    OBVIOUS
<1>. HIDE DEF S
<1>6. S = 0..(n - 1)
    BY <1>1, <1>2, <1>3, <1>5, Counting
<1>7. ASSUME NEW m \in 1..n PROVE up[m] # Root
    <2>1. n - m \in 0..(n - 1) /\ n - (n - m) = m
        BY <1>1
    <2>. QED
        BY <1>4, <1>6, <2>1
<1>. QED
    BY <1>7

\* No way up from a row of L takes m steps or more.
Shallow(L, q, f, m) ==
    \A n \in 1..Top : WayUp(L, q, f)[n] # Root => n <= m

StepsUp(up) == {n \in DOMAIN up \ {0} : up[n] # Root}

LEMMA StepsUpFacts ==
    ASSUME NEW L, Root \notin L, NEW q, NEW f, NEW up, up = WayUp(L, q, f)
    PROVE  /\ StepsUp(up) \subseteq 1..Top
           /\ \A n \in 1..Top : n \in StepsUp(up) <=> up[n] # Root
           /\ IsFiniteSet(StepsUp(up)) /\ Cardinality(StepsUp(up)) \in Nat
           /\ \A n \in StepsUp(up) : n <= Cardinality(StepsUp(up))
<1>1. Top \in Nat /\ DOMAIN up = 0..Top /\ (0..Top) \ {0} = 1..Top
    BY TopIsNat, WayUpFacts
<1>2. /\ StepsUp(up) \subseteq 1..Top
      /\ \A n \in 1..Top : n \in StepsUp(up) <=> up[n] # Root
    BY <1>1 DEF StepsUp
<1>3. IsFiniteSet(1..Top)
    BY <1>1, FS_Interval
<1>4. IsFiniteSet(StepsUp(up)) /\ Cardinality(StepsUp(up)) \in Nat
    BY <1>2, <1>3, FS_Subset, FS_CardinalityType
<1>5. ASSUME NEW n \in StepsUp(up) PROVE n <= Cardinality(StepsUp(up))
    <2>1. n \in 1..Top /\ up[n] # Root
        BY <1>2
    <2>2. \A m \in 1..n : up[m] # Root
        BY <2>1, RootIsLast
    <2>3. 1..n \subseteq 1..Top
        BY <1>1, <2>1
    <2>4. 1..n \in SUBSET StepsUp(up)
        BY <1>2, <2>2, <2>3
    <2>5. Cardinality(1..n) <= Cardinality(StepsUp(up))
        BY <1>4, <2>4, FS_Subset
    <2>6. Cardinality(1..n) = n
        BY <1>1, <2>1, FS_Interval
    <2>. QED
        BY <2>5, <2>6
<1>. QED
    BY <1>2, <1>4, <1>5

LEMMA DepthIsSteps ==
    ASSUME NEW f
    PROVE  Depth(f) = Cardinality(StepsUp(WayUp(live, parent, f)))
    BY AboveIsWayUp DEF Depth, StepsUp

\* The depth of a folder is the number of its steps up below the root.
LEMMA DepthShallow ==
    ASSUME Root \notin live, NEW f
    PROVE  /\ Depth(f) \in Nat
           /\ Shallow(live, parent, f, Depth(f))
           /\ \A m \in Nat : Shallow(live, parent, f, m) => Depth(f) <= m
<1>. DEFINE up == WayUp(live, parent, f)
            steps == StepsUp(up)
<1>1. Depth(f) = Cardinality(steps)
    BY DepthIsSteps
<1>2. /\ steps \subseteq 1..Top
      /\ \A n \in 1..Top : n \in steps <=> up[n] # Root
      /\ IsFiniteSet(steps) /\ Cardinality(steps) \in Nat
      /\ \A n \in steps : n <= Cardinality(steps)
    BY StepsUpFacts
<1>3. Shallow(live, parent, f, Depth(f))
    BY <1>1, <1>2 DEF Shallow
<1>4. ASSUME NEW m \in Nat, Shallow(live, parent, f, m) PROVE Depth(f) <= m
    <2>1. \A n \in steps : n \in 1..m
        BY <1>2, <1>4, TopIsNat DEF Shallow
    <2>. HIDE DEF steps
    <2>2. steps \in SUBSET (1..m)
        BY <2>1
    <2>3. IsFiniteSet(1..m) /\ Cardinality(1..m) = m
        BY FS_Interval
    <2>. QED
        BY <1>1, <2>2, <2>3, FS_Subset
<1>. QED
    BY <1>1, <1>2, <1>3, <1>4

\* Ways up agree as far as they pass rows with the same parents.
LEMMA SameWayUp ==
    ASSUME NEW L, NEW q, NEW L2, NEW q2, NEW f, NEW c \in 0..Top,
           NEW up, up = WayUp(L, q, f), NEW up2, up2 = WayUp(L2, q2, f),
           \A n \in 0..(c - 1) : /\ up[n] \in L <=> up[n] \in L2
                                 /\ up[n] \in L => q2[up[n]] = q[up[n]]
    PROVE  \A n \in 0..c : up2[n] = up[n]
<1>. DEFINE S == {n \in 0..c : up2[n] = up[n]}
<1>1. Top \in Nat /\ c \in Nat
    BY TopIsNat
<1>2. 0 \in S
    <2>1. 0 \in 0..c /\ up2[0] = f /\ up[0] = f
        BY <1>1, WayUpFacts
    <2>. QED
        BY <2>1
<1>3. ASSUME NEW n \in 0..c, n \in S, n < c PROVE n + 1 \in S
    <2>1. /\ n + 1 \in 1..Top /\ (n + 1) - 1 = n /\ n \in 0..(c - 1)
          /\ n + 1 \in 0..c
        BY <1>1, <1>3
    <2>2. up2[n] = up[n]
        BY <1>3
    <2>3. up[n + 1] = IF up[n] \in L THEN q[up[n]] ELSE Root
        BY <2>1, WayUpFacts
    <2>4. up2[n + 1] = IF up2[n] \in L2 THEN q2[up2[n]] ELSE Root
        BY <2>1, WayUpFacts
    <2>5. up2[n + 1] = up[n + 1]
        BY <2>1, <2>2, <2>3, <2>4
    <2>. QED
        BY <2>1, <2>5
<1>4. S \in SUBSET (0..c)
    OBVIOUS
<1>5. \A n \in S : up2[n] = up[n]
    OBVIOUS
<1>. HIDE DEF S
<1>6. S = 0..c
    BY <1>1, <1>2, <1>3, <1>4, Counting
<1>. QED
    BY <1>5, <1>6

\* The rest of a way up is a way up.
LEMMA RestOfWayUp ==
    ASSUME NEW L, NEW q, NEW f, NEW k \in 0..Top,
           NEW up, up = WayUp(L, q, f), NEW rest, rest = WayUp(L, q, up[k])
    PROVE  \A j \in 0..(Top - k) : up[k + j] = rest[j]
<1>. DEFINE c == Top - k
            S == {j \in 0..c : up[k + j] = rest[j]}
<1>1. Top \in Nat /\ c \in Nat /\ k + 0 = k /\ k \in Nat
    BY TopIsNat
<1>2. 0 \in S
    <2>1. rest[0] = up[k]
        BY WayUpFacts
    <2>. QED
        BY <1>1, <2>1
<1>3. ASSUME NEW j \in 0..c, j \in S, j < c PROVE j + 1 \in S
    <2>1. /\ j + 1 \in 1..Top /\ (j + 1) - 1 = j
          /\ k + (j + 1) \in 1..Top /\ (k + (j + 1)) - 1 = k + j
          /\ j + 1 \in 0..c
        BY <1>1, <1>3
    <2>2. up[k + j] = rest[j]
        BY <1>3
    <2>3. up[k + (j + 1)] = IF up[k + j] \in L THEN q[up[k + j]] ELSE Root
        BY <2>1, WayUpFacts
    <2>4. rest[j + 1] = IF rest[j] \in L THEN q[rest[j]] ELSE Root
        BY <2>1, WayUpFacts
    <2>5. up[k + (j + 1)] = rest[j + 1]
        BY <2>2, <2>3, <2>4
    <2>. QED
        BY <2>1, <2>5
<1>4. S \in SUBSET (0..c)
    OBVIOUS
<1>5. \A j \in S : up[k + j] = rest[j]
    OBVIOUS
<1>. HIDE DEF S, c
<1>6. S = 0..c
    BY <1>1, <1>2, <1>3, <1>4, Counting
<1>. QED
    BY <1>5, <1>6 DEF c

\* A way up does not leave a set that holds the root and the parents of its
\* rows.
LEMMA WayUpWithin ==
    ASSUME NEW L, NEW q, NEW U, NEW f \in U, Root \in U,
           \A g \in U : g \in L => q[g] \in U,
           NEW up, up = WayUp(L, q, f)
    PROVE  \A n \in 0..Top : up[n] \in U
<1>. DEFINE S == {n \in 0..Top : up[n] \in U}
<1>1. Top \in Nat
    BY TopIsNat
<1>2. 0 \in S
    <2>1. up[0] = f
        BY WayUpFacts
    <2>. QED
        BY <1>1, <2>1
<1>3. ASSUME NEW n \in 0..Top, n \in S, n < Top PROVE n + 1 \in S
    <2>1. n + 1 \in 1..Top /\ (n + 1) - 1 = n /\ n + 1 \in 0..Top
        BY <1>1, <1>3
    <2>2. up[n + 1] = IF up[n] \in L THEN q[up[n]] ELSE Root
        BY <2>1, WayUpFacts
    <2>3. up[n] \in U
        BY <1>3
    <2>. QED
        BY <2>1, <2>2, <2>3
<1>4. S \in SUBSET (0..Top)
    OBVIOUS
<1>5. \A n \in S : up[n] \in U
    OBVIOUS
<1>. HIDE DEF S
<1>6. S = 0..Top
    BY <1>1, <1>2, <1>3, <1>4, Counting
<1>. QED
    BY <1>5, <1>6

\* Every parent of a row in L is one, or the root.
Rooted(L, q) == Root \notin L /\ \A g \in L : q[g] \in L \union {Root}

\* The rows U of L hold p, if it is a row, and the rows above it.
RowsAbove(L, q, p, U) ==
    /\ U \in SUBSET L
    /\ p = Root \/ p \in U
    /\ \A g \in U : q[g] \in U \union {Root}

\* The rows U are in L2 with the parents they had.
Keeps(U, q, L2, q2) == \A g \in U : g \in L2 /\ q2[g] = q[g]

\* f, and no other row of L, has p for its parent instead.
Moves(L, q, q2, f, p) ==
    /\ f \in L
    /\ \A g \in L \ {f} : q2[g] = q[g]
    /\ q2[f] = p

\* f moves below p, which it is not above.
MovesBelow(L, q, q2, f, p) ==
    /\ Rooted(L, q)
    /\ p \in L \union {Root}
    /\ Moves(L, q, q2, f, p)
    /\ \E U : RowsAbove(L, q, p, U) /\ f \notin U

\* No way up takes more than e steps to f.
AtMost(up, f, e) == \A k \in 0..Top : up[k] = f => k <= e

(***************************************************************************)
(* A folder f that goes below p, with no row's way up through it, is one   *)
(* step deeper than p.  (p's own way up is the same before and after.)     *)
(***************************************************************************)
LEMMA BelowParent ==
    ASSUME NEW L, NEW q, NEW L2, NEW q2, NEW p \in L \union {Root},
           Rooted(L, q), Root \notin L2,
           NEW U, RowsAbove(L, q, p, U), Keeps(U, q, L2, q2),
           NEW d \in Nat, Shallow(L, q, p, d),
           NEW up2, NEW h, up2 = WayUp(L2, q2, h),
           NEW k \in 0..(Top - 1), up2[k + 1] = p,
           NEW n \in (k + 1)..Top, up2[n] # Root
    PROVE  p # Root /\ n <= k + 1 + d
<1>1. /\ Top \in Nat /\ k \in Nat /\ n \in Nat /\ n \in 1..Top
      /\ k + 1 \in 1..n /\ k + 1 \in 0..Top
    BY TopIsNat
<1>2. p # Root
    BY <1>1, RootIsLast
<1>3. PICK up : up = WayUp(L, q, p)
    OBVIOUS
<1>4. PICK rest : rest = WayUp(L2, q2, p)
    OBVIOUS
<1>5. \A j \in 0..Top : up[j] \in U \union {Root}
    <2>1. PICK W : W = U \union {Root}
        OBVIOUS
    <2>2. p \in W /\ Root \in W /\ \A g \in W : g \in L => q[g] \in W
        BY <1>2, <2>1 DEF Rooted, RowsAbove
    <2>3. \A j \in 0..Top : up[j] \in W
        BY <1>3, <2>2, WayUpWithin
    <2>. QED
        BY <2>1, <2>3
<1>6. \A j \in 0..(Top - 1) : /\ up[j] \in L <=> up[j] \in L2
                              /\ up[j] \in L => q2[up[j]] = q[up[j]]
    <2>1. \A j \in 0..(Top - 1) : up[j] \in U \union {Root}
        BY <1>1, <1>5
    <2>. QED
        BY <2>1 DEF Rooted, RowsAbove, Keeps
<1>7. \A j \in 0..Top : rest[j] = up[j]
    <2>1. Top \in 0..Top
        BY <1>1
    <2>. QED
        BY <1>3, <1>4, <1>6, <2>1, SameWayUp
<1>8. PICK j : j = n - (k + 1)
    OBVIOUS
<1>9. j \in 0..(Top - (k + 1)) /\ (k + 1) + j = n /\ j \in 0..Top
    BY <1>1, <1>8
<1>10. up2[(k + 1) + j] = rest[j]
    BY <1>1, <1>4, <1>9, RestOfWayUp
<1>11. up[j] # Root
    BY <1>7, <1>9, <1>10
<1>12. j = 0 \/ j <= d
    BY <1>1, <1>3, <1>9, <1>11 DEF Shallow
<1>. QED
    BY <1>1, <1>2, <1>9, <1>12

(***************************************************************************)
(* When f is moved below p, a way up is what it was, or it goes through f  *)
(* and is no longer than the rows below f, f itself and p's way up.        *)
(***************************************************************************)
LEMMA MovedWayUp ==
    ASSUME NEW L, NEW q, NEW q2, NEW f, NEW p, MovesBelow(L, q, q2, f, p),
           NEW d \in Nat, Shallow(L, q, p, d),
           NEW g, NEW up, up = WayUp(L, q, g), NEW up2, up2 = WayUp(L, q2, g),
           NEW e \in Nat, AtMost(up, f, e)
    PROVE  \A n \in 1..Top : up2[n] # Root =>
               up[n] # Root \/ (p # Root /\ n <= e + 1 + d)
<1> SUFFICES ASSUME NEW n \in 1..Top, up2[n] # Root
             PROVE  up[n] # Root \/ (p # Root /\ n <= e + 1 + d)
    OBVIOUS
<1>. PICK U : RowsAbove(L, q, p, U) /\ f \notin U
    BY DEF MovesBelow
<1>. Rooted(L, q) /\ p \in L \union {Root} /\ Moves(L, q, q2, f, p)
    BY DEF MovesBelow
<1>1. Top \in Nat /\ n \in 0..Top /\ n \in Nat /\ n \in 0..n
    BY TopIsNat
<1>2. CASE \A k \in 0..(n - 1) : up2[k] # f
    <2>1. \A k \in 0..(n - 1) : /\ up2[k] \in L <=> up2[k] \in L
                                /\ up2[k] \in L => q[up2[k]] = q2[up2[k]]
        BY <1>2 DEF Moves
    <2>2. \A k \in 0..n : up[k] = up2[k]
        BY <1>1, <2>1, SameWayUp
    <2>. QED
        BY <1>1, <2>2
<1>3. CASE \E k \in 0..(n - 1) : up2[k] = f
    <2>. DEFINE S == {k \in 0..(n - 1) : up2[k] = f}
    <2>1. PICK k \in S : \A i \in S : k <= i
        <3>1. S # {} /\ S \subseteq Nat
            BY <1>1, <1>3
        <3>. HIDE DEF S
        <3>. QED
            BY <3>1, LeastExists
    <2>2. k \in 0..(n - 1) /\ up2[k] = f
        OBVIOUS
    <2>3. /\ k \in 0..Top /\ k \in Nat /\ k \in 0..k /\ k \in 0..(Top - 1)
          /\ n \in (k + 1)..Top /\ k + 1 \in 1..Top /\ (k + 1) - 1 = k
        BY <1>1, <2>2
    <2>4. \A i \in 0..(k - 1) : up2[i] # f
        <3>1. \A i \in 0..(k - 1) : i \in 0..(n - 1) /\ ~(k <= i)
            BY <1>1, <2>2
        <3>. QED
            BY <2>1, <3>1
    <2>. HIDE DEF S
    <2>5. \A i \in 0..k : up[i] = up2[i]
        <3>1. \A i \in 0..(k - 1) : /\ up2[i] \in L <=> up2[i] \in L
                                    /\ up2[i] \in L => q[up2[i]] = q2[up2[i]]
            BY <2>4 DEF Moves
        <3>. QED
            BY <2>3, <3>1, SameWayUp
    <2>6. k <= e
        BY <2>2, <2>3, <2>5 DEF AtMost
    <2>7. up2[k + 1] = p
        <3>1. up2[k + 1] = IF up2[k] \in L THEN q2[up2[k]] ELSE Root
            BY <2>3, WayUpFacts
        <3>. QED
            BY <2>2, <3>1 DEF Moves
    <2>8. Keeps(U, q, L, q2)
        BY DEF Keeps, Moves, RowsAbove
    <2>9. Root \notin L
        BY DEF Rooted
    <2>10. p # Root /\ n <= k + 1 + d
        BY <2>3, <2>7, <2>8, <2>9, BelowParent
    <2>. QED
        BY <1>1, <2>3, <2>6, <2>10
<1>. QED
    BY <1>2, <1>3

\* A way up does not change while the rows it passes keep their parents.
LEMMA KeptShallow ==
    ASSUME NEW L, NEW q, NEW L2, NEW q2, NEW W, Root \in W,
           \A g \in W : g \in L <=> g \in L2,
           \A g \in W : g \in L => q2[g] = q[g] /\ q[g] \in W,
           NEW f \in W, NEW m, Shallow(L, q, f, m)
    PROVE  Shallow(L2, q2, f, m)
<1>1. PICK up : up = WayUp(L, q, f)
    OBVIOUS
<1>2. PICK up2 : up2 = WayUp(L2, q2, f)
    OBVIOUS
<1>3. \A n \in 0..Top : up[n] \in W
    <2>1. \A g \in W : g \in L => q[g] \in W
        OBVIOUS
    <2>. QED
        BY <1>1, <2>1, WayUpWithin
<1>4. Top \in Nat /\ Top \in 0..Top
    BY TopIsNat
<1>5. \A n \in 0..(Top - 1) : /\ up[n] \in L <=> up[n] \in L2
                              /\ up[n] \in L => q2[up[n]] = q[up[n]]
    <2>1. \A n \in 0..(Top - 1) : n \in 0..Top
        BY <1>4
    <2>. QED
        BY <1>3, <2>1
<1>6. \A n \in 0..Top : up2[n] = up[n]
    BY <1>1, <1>2, <1>4, <1>5, SameWayUp
<1>. QED
    BY <1>1, <1>2, <1>4, <1>6 DEF Shallow

\* The steps from the rows of L up to f
StepsTo(L, q, f) == {n \in 0..Top : \E h \in L : WayUp(L, q, h)[n] = f}

\* The extra depth of a folder is the most steps from a row up to it.
LEMMA ExtraDepthFacts ==
    ASSUME NEW f \in live
    PROVE  /\ ExtraDepth(f) \in Nat
           /\ \A g \in live, k \in 0..Top :
                  WayUp(live, parent, g)[k] = f => k <= ExtraDepth(f)
<1>. DEFINE S == StepsTo(live, parent, f)
            Up(h) == LET up == Above(h) IN {n \in DOMAIN up : up[n] = f}
<1>1. ExtraDepth(f) = Max(UNION {Up(h) : h \in live})
    BY DEF ExtraDepth
<1>2. ASSUME NEW h PROVE Up(h) = {n \in 0..Top : WayUp(live, parent, h)[n] = f}
    <2>1. DOMAIN WayUp(live, parent, h) = 0..Top
        BY WayUpFacts
    <2>. QED
        BY <2>1, AboveIsWayUp
<1>. HIDE DEF Up
<1>3. UNION {Up(h) : h \in live} = S
    BY <1>2 DEF StepsTo
<1>4. S \in SUBSET (0..Top) /\ Top \in Nat
    BY TopIsNat DEF StepsTo
<1>5. S # {}
    <2>1. WayUp(live, parent, f)[0] = f /\ 0 \in 0..Top
        BY WayUpFacts, TopIsNat
    <2>. QED
        BY <2>1 DEF StepsTo
<1>6. \A g \in live, k \in 0..Top : WayUp(live, parent, g)[k] = f => k \in S
    BY DEF StepsTo
<1>. HIDE DEF S
<1>7. \E x \in S : \A y \in S : x >= y
    BY <1>4, <1>5, LargestExists
<1>8. Max(S) \in S /\ \A y \in S : Max(S) >= y
    BY <1>7 DEF Max
<1>9. Max(S) \in Nat /\ \A y \in S : y <= Max(S)
    <2>1. PICK m : m = Max(S)
        OBVIOUS
    <2>2. \A y \in S : y \in Nat
        BY <1>4
    <2>3. m \in S /\ \A y \in S : m >= y
        BY <1>8, <2>1
    <2>4. m \in Nat
        BY <2>2, <2>3
    <2>5. \A y \in S : y <= m
        BY <2>2, <2>3, <2>4
    <2>. QED
        BY <2>1, <2>4, <2>5
<1>. QED
    BY <1>1, <1>3, <1>6, <1>9
-----------------------------------------------------------------------------
\* What the request under way planned leaves room for its rows.
DeepPlan(t) ==
    /\ req[t].op = "create" => RoomBelow(req[t].parent, 0)
    /\ req[t].op = "update" /\ req[t].moved =>
           RoomBelow(req[t].parent, ExtraDepth(req[t].id))

DepthInv ==
    /\ \A f \in live : Shallow(live, parent, f, MaxDepth - 1)
    /\ \A t \in Requests : DeepPlan(t)

LEMMA TreeIsRooted ==
    ASSUME MenuInv
    PROVE  Rooted(live, parent)
<1>1. Root \notin live
    BY MenuAssumption DEF MenuInv, MenuShape, Root
<1>2. ASSUME NEW g \in live PROVE parent[g] \in live \union {Root}
    <2>1. {g} \in SUBSET live /\ {g} # {}
        OBVIOUS
    <2>2. PICK h \in {g} : parent[h] = Root \/ parent[h] \in live \ {g}
        BY <2>1 DEF MenuInv, FoldersReachRoot
    <2>. QED
        BY <2>2
<1>. QED
    BY <1>1, <1>2 DEF Rooted

LEMMA DepthInit == Init => DepthInv
<1> SUFFICES ASSUME Init PROVE DepthInv
    OBVIOUS
<1>1. ASSUME NEW f \in live PROVE Shallow(live, parent, f, MaxDepth - 1)
    <2>1. Root \notin live /\ parent[f] = Root
        BY MenuAssumption DEF Init, Root
    <2>2. PICK up : up = WayUp(live, parent, f)
        OBVIOUS
    <2>3. ASSUME NEW n \in 1..Top, up[n] # Root PROVE FALSE
        <3>1. 1 \in 1..n /\ 1 \in 1..Top /\ 1 - 1 = 0
            BY TopIsNat
        <3>2. up[1] # Root
            BY <2>1, <2>2, <2>3, <3>1, RootIsLast
        <3>3. up[0] = f
            BY <2>2, WayUpFacts
        <3>4. up[1] = IF up[1 - 1] \in live THEN parent[up[1 - 1]] ELSE Root
            BY <2>2, <3>1, WayUpFacts
        <3>. QED
            BY <2>1, <3>1, <3>2, <3>3, <3>4
    <2>. QED
        BY <2>2, <2>3 DEF Shallow
<1>2. \A t \in Requests : DeepPlan(t)
    BY DEF Init, DeepPlan, NoWrites
<1>. QED
    BY <1>1, <1>2 DEF DepthInv

\* While the rows keep their parents, so do the depths.
LEMMA SameDepths ==
    ASSUME UNCHANGED <<live, parent>>
    PROVE  /\ \A f, m : Shallow(live, parent, f, m)' = Shallow(live, parent, f, m)
           /\ \A p, e : RoomBelow(p, e)' = RoomBelow(p, e)
           /\ \A f : ExtraDepth(f)' = ExtraDepth(f)
    BY DEF Shallow, RoomBelow, ExtraDepth, Depth, Above, WayUp, Climbs, Top

LEMMA ReadKeepsDepth ==
    ASSUME MenuInv, DepthInv, NEW t \in Requests, Requests = {t}, Read(t)
    PROVE  DepthInv'
<1>1. PICK w : req' = [req EXCEPT ![t] = w] /\ UNCHANGED <<folders, images>>
    BY DEF Read, CreateFolder, UpdateFolder, DeleteFolder, ReorderFolder,
           ReorderImage, SetImageFolder, PlaceNewImage, Plan
<1>2. UNCHANGED <<live, parent>> /\ t \in DOMAIN req /\ req'[t] = w
    BY <1>1 DEF folders, MenuInv, MenuShape
<1>3. \A f \in live' : Shallow(live, parent, f, MaxDepth - 1)'
    BY <1>2, SameDepths DEF DepthInv
<1>4. DeepPlan(t)'
    <2>1. ASSUME NEW title \in Names, NEW p \in Ids \union {Root},
                 CreateFolder(t, title, p)
          PROVE  DeepPlan(t)'
        <3>1. /\ req'[t].op = "create" /\ req'[t].parent = p
              /\ RoomBelow(p, 0)
            BY <1>2, <2>1 DEF CreateFolder, Plan
        <3>2. RoomBelow(p, 0)'
            BY <1>2, <3>1, SameDepths
        <3>. QED
            BY <3>1, <3>2 DEF DeepPlan
    <2>2. ASSUME NEW f \in Ids, NEW p \in Ids \union {Root},
                 NEW title \in Names \union {name[f]}, UpdateFolder(t, f, title, p)
          PROVE  DeepPlan(t)'
        <3>1. /\ req'[t].op = "update" /\ req'[t].parent = p /\ req'[t].id = f
              /\ p # Root => RoomBelow(p, ExtraDepth(f))
            BY <1>2, <2>2 DEF UpdateFolder, Plan
        <3>2. RoomBelow(p, ExtraDepth(f))
            BY <3>1 DEF RoomBelow
        <3>3. PICK e : e = ExtraDepth(f)
            OBVIOUS
        <3>4. ExtraDepth(f)' = e /\ RoomBelow(p, e)'
            BY <1>2, <3>2, <3>3, SameDepths
        <3>. QED
            BY <3>1, <3>4 DEF DeepPlan
    <2>3. req'[t].op \notin {"create", "update"} => DeepPlan(t)'
        BY DEF DeepPlan
    <2>. QED
        BY <1>2, <2>1, <2>2, <2>3 DEF Read, DeleteFolder, ReorderFolder,
           ReorderImage, SetImageFolder, PlaceNewImage, Plan
<1>. QED
    BY <1>3, <1>4 DEF DepthInv

LEMMA CommitKeepsDepth ==
    ASSUME MenuInv, DepthInv, NEW t \in Requests, Requests = {t},
           Commit(t) \/ Rollback(t)
    PROVE  DepthInv'
<1>1. PlanHolds(t) /\ DeepPlan(t) /\ t \in DOMAIN req /\ DOMAIN parent = Ids
      /\ live \subseteq Ids
    BY DEF MenuInv, MenuShape, DepthInv
<1>2. req' = [req EXCEPT ![t] = NoWrites]
    BY DEF Commit, CommitCreate, CommitUpdate, CommitDelete, CommitSwap,
           CommitImageSwap, CommitPlace, Rollback, Done
<1>3. \A u \in Requests : DeepPlan(u)'
    BY <1>1, <1>2 DEF DeepPlan, NoWrites
<1>4. Rooted(live, parent)
    BY TreeIsRooted
<1>5. \A f \in live : Shallow(live, parent, f, MaxDepth - 1)
    BY DEF DepthInv
<1>6. SUFFICES ASSUME NEW g \in live'
               PROVE  Shallow(live', parent', g, MaxDepth - 1)
    BY <1>3 DEF DepthInv, Shallow, WayUp, Climbs, Top, Root
<1>7. CASE UNCHANGED <<live, parent>>
    BY <1>5, <1>7
<1>8. CASE CommitCreate(t)
    <2>1. PICK f \in NewIds : /\ live' = live \union {f}
                              /\ parent' = [parent EXCEPT ![f] = req[t].parent]
        BY <1>8 DEF CommitCreate
    <2>2. f \in Ids /\ f \notin live /\ f # Root
        BY <2>1, MenuAssumption DEF NewIds, MenuInv, MenuShape, Root
    <2>3. PICK p : p = req[t].parent
        OBVIOUS
    <2>4. p \in live \union {Root} /\ RoomBelow(p, 0)
        BY <1>1, <1>8, <2>3 DEF CommitCreate, PlanHolds, DeepPlan
    <2>5. PICK L2 : L2 = live'
        OBVIOUS
    <2>6. PICK q2 : q2 = parent'
        OBVIOUS
    <2>7. /\ L2 = live \union {f} /\ q2[f] = p
          /\ \A h \in live : h \in L2 /\ q2[h] = parent[h]
        BY <1>1, <2>1, <2>2, <2>3, <2>5, <2>6
    <2>8. CASE g \in live
        <3>1. PICK W : W = live \union {Root}
            OBVIOUS
        <3>2. /\ Root \in W /\ g \in W
              /\ \A h \in W : h \in live <=> h \in L2
              /\ \A h \in W : h \in live => q2[h] = parent[h] /\ parent[h] \in W
            BY <1>4, <2>2, <2>7, <2>8, <3>1 DEF Rooted
        <3>3. Shallow(live, parent, g, MaxDepth - 1)
            BY <1>5, <2>8
        <3>4. Shallow(L2, q2, g, MaxDepth - 1)
            BY <3>2, <3>3, KeptShallow
        <3>. QED
            BY <2>5, <2>6, <3>4
    <2>9. CASE g = f
        <3>1. PICK up2 : up2 = WayUp(L2, q2, f)
            OBVIOUS
        <3>2. ASSUME NEW n \in 1..Top, up2[n] # Root PROVE n <= MaxDepth - 1
            <4>1. /\ Top \in Nat /\ 0 \in 0..(Top - 1) /\ 0 + 1 = 1
                  /\ 1 \in 1..Top /\ 1 - 1 = 0 /\ n \in (0 + 1)..Top
                BY TopIsNat
            <4>2. up2[0] = f
                BY <3>1, WayUpFacts
            <4>3. up2[1] = IF up2[1 - 1] \in L2 THEN q2[up2[1 - 1]] ELSE Root
                BY <3>1, <4>1, WayUpFacts
            <4>4. PICK k : k = 0
                OBVIOUS
            <4>5. /\ up2[k + 1] = p /\ k \in 0..(Top - 1)
                  /\ n \in (k + 1)..Top
                BY <2>7, <4>1, <4>2, <4>3, <4>4
            <4>6. PICK d : d = Depth(p)
                OBVIOUS
            <4>7. d \in Nat /\ Shallow(live, parent, p, d)
                BY <1>4, <4>6, DepthShallow DEF Rooted
            <4>8. Root \notin L2 /\ Keeps(live, parent, L2, q2)
                BY <1>4, <2>2, <2>7 DEF Rooted, Keeps
            <4>9. RowsAbove(live, parent, p, live)
                BY <1>4, <2>4 DEF Rooted, RowsAbove
            <4>10. p # Root /\ n <= k + 1 + d
                BY <1>4, <2>4, <3>1, <3>2, <4>5, <4>7, <4>8, <4>9, BelowParent
            <4>11. d + 1 + 0 < MaxDepth
                BY <2>4, <4>6, <4>10 DEF RoomBelow
            <4>. QED
                BY <4>4, <4>7, <4>10, <4>11, MenuAssumption
        <3>. QED
            BY <2>5, <2>6, <2>9, <3>1, <3>2 DEF Shallow
    <2>. QED
        BY <1>6, <2>1, <2>8, <2>9
<1>9. CASE CommitUpdate(t) /\ req[t].moved
    <2>1. PICK f : f = req[t].id
        OBVIOUS
    <2>2. PICK p : p = req[t].parent
        OBVIOUS
    <2>3. PICK q2 : q2 = parent'
        OBVIOUS
    <2>4. /\ f \in live /\ live' = live /\ q2 = [parent EXCEPT ![f] = p]
        BY <1>9, <2>1, <2>2, <2>3 DEF CommitUpdate
    <2>5. /\ p = Root \/ (p \in live /\ f \notin Line(p))
          /\ RoomBelow(p, ExtraDepth(f))
        BY <1>1, <1>9, <2>1, <2>2 DEF CommitUpdate, PlanHolds, DeepPlan
    <2>6. PICK U \in SUBSET live : /\ p = Root \/ p \in U
                                   /\ f \notin U /\ ParentClosed(U)
        <3>1. CASE p = Root
            <4>1. {} \in SUBSET live /\ ParentClosed({})
                BY DEF ParentClosed
            <4>. QED
                BY <3>1, <4>1
        <3>2. CASE p # Root
            BY <2>4, <2>5, <3>2 DEF Line
        <3>. QED
            BY <3>1, <3>2
    <2>7. RowsAbove(live, parent, p, U) /\ f \notin U
        BY <1>4, <2>6 DEF ParentClosed, Rooted, RowsAbove
    <2>8. Moves(live, parent, q2, f, p)
        BY <1>1, <2>4 DEF Moves
    <2>9. PICK e : e = ExtraDepth(f)
        OBVIOUS
    <2>10. e \in Nat /\ \A k \in 0..Top : WayUp(live, parent, g)[k] = f => k <= e
        BY <1>6, <2>4, <2>9, ExtraDepthFacts
    <2>11. PICK d : d = Depth(p)
        OBVIOUS
    <2>12. d \in Nat /\ Shallow(live, parent, p, d)
        BY <1>4, <2>11, DepthShallow DEF Rooted
    <2>13. PICK up : up = WayUp(live, parent, g)
        OBVIOUS
    <2>14. PICK up2 : up2 = WayUp(live, q2, g)
        OBVIOUS
    <2>15. ASSUME NEW n \in 1..Top, up2[n] # Root PROVE n <= MaxDepth - 1
        <3>1. MovesBelow(live, parent, q2, f, p) /\ AtMost(up, f, e)
            BY <1>4, <2>4, <2>5, <2>7, <2>8, <2>10, <2>13 DEF AtMost, MovesBelow
        <3>2. up[n] # Root \/ (p # Root /\ n <= e + 1 + d)
            <4>1. e \in Nat
                BY <2>10
            <4>2. \A i \in 1..Top : up2[i] # Root =>
                      up[i] # Root \/ (p # Root /\ i <= e + 1 + d)
                BY <2>12, <2>13, <2>14, <3>1, <4>1, MovedWayUp
            <4>. QED
                BY <2>15, <4>2
        <3>3. CASE up[n] # Root
            BY <1>5, <1>6, <2>4, <2>13, <3>3 DEF Shallow
        <3>4. CASE p # Root /\ n <= e + 1 + d
            <4>1. d + 1 + e < MaxDepth
                BY <2>5, <2>9, <2>11, <3>4 DEF RoomBelow
            <4>. QED
                BY <2>10, <2>12, <3>4, <4>1, MenuAssumption
        <3>. QED
            BY <3>2, <3>3, <3>4
    <2>. QED
        BY <2>3, <2>4, <2>14, <2>15 DEF Shallow
<1>10. CASE CommitDelete(t)
    <2>1. PICK f : f = req[t].id
        OBVIOUS
    <2>2. PICK L2 : L2 = live'
        OBVIOUS
    <2>3. PICK q2 : q2 = parent'
        OBVIOUS
    <2>4. /\ L2 = live \ {f} /\ q2 = [parent EXCEPT ![f] = Root]
          /\ Children(f) = {}
        BY <1>1, <1>10, <2>1, <2>2, <2>3 DEF CommitDelete, PlanHolds
    <2>5. \A h \in L2 : /\ h \in live /\ q2[h] = parent[h]
                        /\ parent[h] \in L2 \union {Root}
        BY <1>1, <1>4, <2>4 DEF Rooted, Children
    <2>6. PICK W : W = L2 \union {Root}
        OBVIOUS
    <2>7. /\ Root \in W /\ g \in W
          /\ \A h \in W : h \in live <=> h \in L2
          /\ \A h \in W : h \in live => q2[h] = parent[h] /\ parent[h] \in W
        BY <1>4, <1>6, <2>2, <2>4, <2>5, <2>6 DEF Rooted
    <2>8. Shallow(live, parent, g, MaxDepth - 1)
        BY <1>5, <1>6, <2>2, <2>4
    <2>9. Shallow(L2, q2, g, MaxDepth - 1)
        BY <2>7, <2>8, KeptShallow
    <2>. QED
        BY <2>2, <2>3, <2>9
<1>. QED
    BY <1>7, <1>8, <1>9, <1>10 DEF Commit, CommitUpdate, CommitSwap,
       CommitImageSwap, CommitPlace, Rollback, folders

\* A step that leaves the folders and the plans alone keeps the depths.
LEMMA StillKeepsDepth ==
    ASSUME DepthInv, UNCHANGED <<live, parent, req>>
    PROVE  DepthInv'
<1>1. \A f \in live' : Shallow(live, parent, f, MaxDepth - 1)'
    BY SameDepths DEF DepthInv
<1>2. ASSUME NEW t \in Requests PROVE DeepPlan(t)'
    <2>1. PICK e : e = ExtraDepth(req[t].id)
        OBVIOUS
    <2>2. ExtraDepth(req[t].id)' = e
        BY <2>1, SameDepths DEF ExtraDepth, Above
    <2>. QED
        BY <1>2, <2>1, <2>2, SameDepths DEF DepthInv, DeepPlan
<1>. QED
    BY <1>1, <1>2 DEF DepthInv

LEMMA DepthInduction ==
    ASSUME OneAtATime
    PROVE  Spec => []DepthInv
<1>1. MenuInv /\ DepthInv /\ [Next]_vars => DepthInv'
    <2> SUFFICES ASSUME MenuInv, DepthInv, [Next]_vars PROVE DepthInv'
        OBVIOUS
    <2>1. PICK r \in Requests : Requests = {r}
        BY DEF OneAtATime
    <2>2. ASSUME NEW t \in Requests, Read(t) \/ Commit(t) \/ Rollback(t)
          PROVE  DepthInv'
        BY <2>1, <2>2, ReadKeepsDepth, CommitKeepsDepth
    <2>3. ASSUME UNCHANGED vars PROVE DepthInv'
        BY <2>3, StillKeepsDepth DEF vars, folders
    <2>. QED
        BY <2>2, <2>3, StillKeepsDepth DEF Next, DeleteImage, folders
<1>. QED
    BY <1>1, DepthInit, MenuInduction, PTL DEF Spec

(***************************************************************************)
(* While one request is under way at a time, no sequence of creations and  *)
(* moves nests folders deeper than the limit: the depth of the new parent  *)
(* and the rows below the folder that moves are added up before it does    *)
(* (create_folder, update_folder).                                         *)
(***************************************************************************)
THEOREM DepthStaysBounded ==
    ASSUME OneAtATime
    PROVE  Spec => []DepthBounded
<1>1. MenuInv /\ DepthInv => DepthBounded
    <2> SUFFICES ASSUME MenuInv, DepthInv, NEW f \in live
                 PROVE  Depth(f) < MaxDepth
        BY DEF DepthBounded
    <2>1. Root \notin live
        BY TreeIsRooted DEF Rooted
    <2>2. MaxDepth - 1 \in Nat /\ Shallow(live, parent, f, MaxDepth - 1)
        BY MenuAssumption DEF DepthInv
    <2>3. Depth(f) \in Nat /\ Depth(f) <= MaxDepth - 1
        BY <2>1, <2>2, DepthShallow
    <2>. QED
        BY <2>3, MenuAssumption
<1>. QED
    BY <1>1, MenuInduction, DepthInduction, PTL

(***************************************************************************)
(* While one request is under way at a time, no folder ends up in itself:  *)
(* the rows on such a cycle would be a set of folders that none leads out  *)
(* of (_is_self_or_descendant).                                            *)
(***************************************************************************)
THEOREM NoFolderEndsUpInItself ==
    ASSUME OneAtATime
    PROVE  Spec => []NoFolderInsideItself
<1>1. MenuInv => NoFolderInsideItself
    <2> SUFFICES ASSUME MenuInv, NEW f \in live, OnCycle(f) PROVE FALSE
        BY DEF NoFolderInsideItself
    <2>1. PICK up : up = WayUp(live, parent, f)
        OBVIOUS
    <2>2. DOMAIN up = 0..Top /\ up[0] = f /\ Top \in Nat
        BY <2>1, WayUpFacts, TopIsNat
    <2>3. PICK n \in 1..Top : up[n] = f
        <3>1. \E n \in DOMAIN up \ {0} : up[n] = f
            BY <2>1, AboveIsWayUp DEF OnCycle
        <3>. QED
            BY <2>2, <3>1
    <2>4. Root \notin live
        BY TreeIsRooted DEF Rooted
    <2>5. \A m \in 1..n : up[m] # Root
        <3>1. up[n] # Root
            BY <2>3, <2>4
        <3>. QED
            BY <2>1, <2>4, <3>1, RootIsLast
    <2>6. ASSUME NEW m \in 0..(n - 1)
          PROVE  up[m] \in live /\ parent[up[m]] = up[m + 1]
        <3>1. m + 1 \in 1..Top /\ m + 1 \in 1..n /\ (m + 1) - 1 = m
            BY <2>2
        <3>2. up[m + 1] = IF up[m] \in live THEN parent[up[m]] ELSE Root
            BY <2>1, <3>1, WayUpFacts
        <3>. QED
            BY <2>5, <3>1, <3>2
    <2>. DEFINE S == {up[m] : m \in 0..(n - 1)}
    <2>7. S \in SUBSET live /\ S # {}
        <3>1. 0 \in 0..(n - 1)
            OBVIOUS
        <3>. QED
            BY <2>6, <3>1
    <2>8. ASSUME NEW m \in 0..(n - 1) PROVE up[m + 1] \in S /\ up[m + 1] # Root
        <3>1. CASE m + 1 = n
            <4>1. 0 \in 0..(n - 1) /\ up[m + 1] = up[0]
                BY <2>2, <2>3, <3>1
            <4>. QED
                BY <2>2, <2>4, <4>1
        <3>2. CASE m + 1 # n
            BY <2>5, <3>2
        <3>. QED
            BY <3>1, <3>2
    <2>9. PICK g \in S : parent[g] = Root \/ parent[g] \in live \ S
        BY <2>7 DEF MenuInv, FoldersReachRoot
    <2>10. PICK m \in 0..(n - 1) : g = up[m]
        OBVIOUS
    <2>. HIDE DEF S
    <2>. QED
        BY <2>6, <2>8, <2>9, <2>10
<1>. QED
    BY <1>1, MenuInduction, PTL
=============================================================================
