---------------------------- MODULE BootMenuTree ----------------------------
(***************************************************************************)
(* The folders of the PXE boot menu and the images in them                 *)
(* (src/src/inventory/boot_menu.py, src/src/routes/boot_menu.py).          *)
(*                                                                         *)
(* A request checks its guards and computes its writes from the rows it    *)
(* reads, and commits them later: reads hold no lock, an UPDATE writes     *)
(* only the columns the request changed, and foreign keys are not enforced *)
(* (src/src/db.py:39-50).  Requests is the set of requests that may be     *)
(* under way at once, in the threads of the two web processes.             *)
(*                                                                         *)
(* A folder's name stands for what is compared (case folded, blanks        *)
(* joined).                                                                *)
(***************************************************************************)
EXTENDS Integers, FiniteSets, FiniteSetsExt, Functions

CONSTANTS Ids,       \* folder row ids, 1, 2, ... up to a bound
          Images,    \* image row ids
          Names,     \* folder names that operators type
          Home,      \* the name of the root folder of the images' OS family
          Seeds,     \* DEFAULT_ROOT_FOLDERS: the names of the first ids
          MaxDepth,  \* MAX_FOLDER_DEPTH
          MaxSort,   \* bound: sort orders of folders
          MaxPlace,  \* bound: sort orders of images
          Requests

ASSUME MenuAssumption ==
    /\ Ids \subseteq Nat \ {0} /\ IsFiniteSet(Ids)
    /\ MaxDepth \in Nat \ {0}
    /\ Images \subseteq Nat
    /\ DOMAIN Seeds \subseteq Ids
    /\ DOMAIN Seeds # {}
    /\ \A f, g \in DOMAIN Seeds : f # g => Seeds[f] # Seeds[g]
    /\ \A f \in DOMAIN Seeds : f - 1 <= MaxSort
    /\ MaxSort \in Nat /\ MaxPlace \in Nat

VARIABLES live,    \* ids of the folder rows
          parent,  \* parent[f]: parent_id
          name,    \* name[f]
          sort,    \* sort[f]: sort_order
          within,  \* within[i]: the folder_id of image i, 0 without an image
          place,   \* place[i]: the image's sort_order
          req      \* req[t]: what request t is about to write

folders == <<live, parent, name, sort>>
images == <<within, place>>
vars == <<live, parent, name, sort, within, place, req>>
-----------------------------------------------------------------------------
Root == 0                                \* parent_id is NULL
NoWrites == [op |-> "none"]

Children(p) == {f \in live : parent[f] = p}       \* list_child_folders
InFolder(f) == {i \in Images : within[i] = f}     \* list_images_in_folder

\* ORDER BY sort_order, then id (then name, for images)
Earlier(key, a, b) == key[a] < key[b] \/ (key[a] = key[b] /\ a < b)

\* b comes right after a among their siblings.
Next2(key, siblings, a, b) ==
    /\ Earlier(key, a, b)
    /\ \A x \in siblings : ~(Earlier(key, a, x) /\ Earlier(key, x, b))

\* Mutated form: the place after n siblings is n.
NextByCount(key, siblings) == Cardinality(siblings)

\* _next_folder_sort, _next_image_sort
NextSort(key, siblings) ==
    IF siblings = {} THEN 0 ELSE 1 + Max({key[x] : x \in siblings})

FolderFits(p) == NextSort(sort, Children(p)) <= MaxSort          \* bound
ImageFits(f) == NextSort(place, InFolder(f)) <= MaxPlace         \* bound

(***************************************************************************)
(* f and every folder above it: the least set that holds f and the parents *)
(* of its members.                                                         *)
(***************************************************************************)
ParentClosed(U) == \A g \in U : parent[g] \in live => parent[g] \in U

Line(f) ==
    LET closed == {U \in SUBSET live : f \in U /\ ParentClosed(U)}
    IN  {g \in live : \A U \in closed : g \in U}

\* Above(f)[n]: the parent_id n steps up from folder f
Above(f) ==
    LET up[n \in 0..Cardinality(Ids)] ==
            IF n = 0 THEN f
            ELSE LET g == up[n - 1] IN IF g \in live THEN parent[g] ELSE Root
    IN  up

\* folder_depth
Depth(f) ==
    LET up == Above(f) IN Cardinality({n \in DOMAIN up \ {0} : up[n] # Root})

\* _subtree_extra_depth (it never returns for a folder on a cycle)
OnCycle(f) == LET up == Above(f) IN \E n \in DOMAIN up \ {0} : up[n] = f
ExtraDepth(f) ==
    Max(UNION {LET up == Above(h) IN {n \in DOMAIN up : up[n] = f} : h \in live})

\* Mutated form: the new level is not counted.
RoomAbove(p, extra) == p = Root \/ Depth(p) + extra < MaxDepth

RoomBelow(p, extra) == p = Root \/ Depth(p) + 1 + extra < MaxDepth

\* _is_self_or_descendant: p is neither f nor below f.
Outside(f, p) == p = Root \/ f \notin Line(p)

SiblingClash(p, title, self) ==
    \E g \in Children(p) \ {self} : name[g] = title
-----------------------------------------------------------------------------
(* Requests: what they read and check, and the writes they plan *)

Plan(t, writes) ==
    /\ req[t] = NoWrites
    /\ req' = [req EXCEPT ![t] = writes]
    /\ UNCHANGED <<folders, images>>

\* SQLite gives a new row the id after the largest one.
NewIds == {n \in Ids : /\ \A g \in live : g < n
                       /\ n = 1 \/ n - 1 \in live}

\* POST /boot-menu/folders
CreateFolder(t, title, p) ==
    /\ NewIds # {}                                              \* bound
    /\ p \in live \union {Root}
    /\ RoomBelow(p, 0)
    /\ ~SiblingClash(p, title, Root)
    /\ FolderFits(p)
    /\ Plan(t, [op |-> "create", name |-> title, parent |-> p,
                sort |-> NextSort(sort, Children(p))])

\* POST /boot-menu/folders/{id}: a new name, a new parent, or both
UpdateFolder(t, f, title, p) ==
    /\ f \in live
    /\ p \in live \union {Root}
    /\ title # name[f] \/ p # parent[f]
    /\ p # parent[f] => FolderFits(p)
    /\ ~SiblingClash(p, title, f)
    /\ Outside(f, p)
    /\ p # Root => ~OnCycle(f) /\ RoomBelow(p, ExtraDepth(f))
    /\ Plan(t, [op |-> "update", id |-> f,
                renamed |-> title # name[f], name |-> title,
                moved |-> p # parent[f], parent |-> p,
                sort |-> NextSort(sort, Children(p))])

\* Mutated form: nested folders do not keep the folder above them.
DeleteUnlessUsed(t, f) ==
    /\ f \in live
    /\ Cardinality(live) > 1
    /\ InFolder(f) = {}
    /\ Plan(t, [op |-> "delete", id |-> f])

\* POST /boot-menu/folders/{id}/delete
DeleteFolder(t, f) ==
    /\ f \in live
    /\ Cardinality(live) > 1
    /\ Children(f) = {}
    /\ InFolder(f) = {}
    /\ Plan(t, [op |-> "delete", id |-> f])

\* Mutated form: the neighbour's place is passed by one.
StepPast(key, a, b) ==
    IF Earlier(key, a, b) THEN key[b] + 1 ELSE key[b] - 1

\* The sort order a takes when it changes places with its neighbour b
StepTo(key, a, b) ==
    IF key[a] # key[b] THEN key[b]
    ELSE IF Earlier(key, a, b) THEN key[a] + 1 ELSE key[a] - 1

\* POST /boot-menu/folders/{id}/move: f changes places with neighbour g.
ReorderFolder(t, f, g) ==
    /\ f \in live
    /\ g \in Children(parent[f]) \ {f}
    /\ \/ Next2(sort, Children(parent[f]), f, g)
       \/ Next2(sort, Children(parent[f]), g, f)
    /\ Plan(t, [op |-> "swap", id |-> f, with |-> g,
                mine |-> StepTo(sort, f, g), its |-> sort[f]])

\* POST /boot-menu/images/{id}/move
ReorderImage(t, i, j) ==
    /\ within[i] # 0
    /\ j \in InFolder(within[i]) \ {i}
    /\ \/ Next2(place, InFolder(within[i]), i, j)
       \/ Next2(place, InFolder(within[i]), j, i)
    /\ Plan(t, [op |-> "swapimages", id |-> i, with |-> j,
                mine |-> StepTo(place, i, j), its |-> place[i]])

\* set_image_folder, from the menu page or a template's form
SetImageFolder(t, i, f) ==
    /\ within[i] # 0
    /\ f \in live
    /\ within[i] # f
    /\ ImageFits(f)
    /\ Plan(t, [op |-> "move", id |-> i, folder |-> f,
                sort |-> NextSort(place, InFolder(f))])

\* resolve_folder_for_image: the form's folder, else the family's, else the
\* one with the least id
Resolved(f) ==
    LET family == {g \in Children(Root) : name[g] = Home}
    IN  IF f \in live THEN {f}
        ELSE IF family # {}
        THEN {g \in family : \A h \in family \ {g} : Earlier(sort, g, h)}
        ELSE {g \in live : \A h \in live : g <= h}

\* place_new_image, when a template or tool is created
PlaceNewImage(t, i, f) ==
    /\ within[i] = 0
    /\ \E g \in Resolved(f) :
           /\ ImageFits(g)
           /\ Plan(t, [op |-> "place", id |-> i, folder |-> g,
                       sort |-> NextSort(place, InFolder(g))])
-----------------------------------------------------------------------------
(* Commits.  An UPDATE or DELETE of a row that is gone fails the request.  *)

Done(t) == req' = [req EXCEPT ![t] = NoWrites]

CommitCreate(t) ==
    /\ req[t].op = "create"
    /\ \E f \in NewIds :
           /\ live' = live \union {f}
           /\ parent' = [parent EXCEPT ![f] = req[t].parent]
           /\ name' = [name EXCEPT ![f] = req[t].name]
           /\ sort' = [sort EXCEPT ![f] = req[t].sort]
    /\ Done(t)
    /\ UNCHANGED images

CommitUpdate(t) ==
    LET w == req[t]
    IN  /\ w.op = "update"
        /\ w.id \in live
        /\ name' = IF w.renamed THEN [name EXCEPT ![w.id] = w.name] ELSE name
        /\ parent' = IF w.moved THEN [parent EXCEPT ![w.id] = w.parent]
                     ELSE parent
        /\ sort' = IF w.moved THEN [sort EXCEPT ![w.id] = w.sort] ELSE sort
        /\ Done(t)
        /\ UNCHANGED <<live, images>>

CommitDelete(t) ==
    LET f == req[t].id
    IN  /\ req[t].op = "delete"
        /\ f \in live
        /\ live' = live \ {f}
        /\ parent' = [parent EXCEPT ![f] = Root]
        /\ name' = [name EXCEPT ![f] = Home]
        /\ sort' = [sort EXCEPT ![f] = 0]
        /\ Done(t)
        /\ UNCHANGED images

CommitSwap(t) ==
    /\ req[t].op = "swap"
    /\ {req[t].id, req[t].with} \subseteq live
    /\ req[t].mine <= MaxSort
    /\ sort' = [sort EXCEPT ![req[t].id] = req[t].mine,
                            ![req[t].with] = req[t].its]
    /\ Done(t)
    /\ UNCHANGED <<live, parent, name, images>>

CommitImageSwap(t) ==
    /\ req[t].op = "swapimages"
    /\ within[req[t].id] # 0 /\ within[req[t].with] # 0
    /\ req[t].mine <= MaxPlace
    /\ place' = [place EXCEPT ![req[t].id] = req[t].mine,
                              ![req[t].with] = req[t].its]
    /\ Done(t)
    /\ UNCHANGED <<folders, within>>

CommitPlace(t) ==
    /\ \/ req[t].op = "place" /\ within[req[t].id] = 0
       \/ req[t].op = "move" /\ within[req[t].id] # 0
    /\ within' = [within EXCEPT ![req[t].id] = req[t].folder]
    /\ place' = [place EXCEPT ![req[t].id] = req[t].sort]
    /\ Done(t)
    /\ UNCHANGED folders

\* A locked database, a failed save or a killed process: nothing is written.
Rollback(t) ==
    /\ req[t] # NoWrites
    /\ Done(t)
    /\ UNCHANGED <<folders, images>>

\* POST /images/{id}/delete
DeleteImage(i) ==
    /\ within[i] # 0
    /\ within' = [within EXCEPT ![i] = 0]
    /\ place' = [place EXCEPT ![i] = 0]
    /\ UNCHANGED <<folders, req>>
-----------------------------------------------------------------------------
\* seed_default_folders
Init ==
    /\ live = DOMAIN Seeds
    /\ parent = [f \in Ids |-> Root]
    /\ name = [f \in Ids |-> IF f \in live THEN Seeds[f] ELSE Home]
    /\ sort = [f \in Ids |-> IF f \in live THEN f - 1 ELSE 0]
    /\ within = [i \in Images |-> 0]
    /\ place = [i \in Images |-> 0]
    /\ req = [t \in Requests |-> NoWrites]

Read(t) ==
    \/ \E title \in Names, p \in Ids \union {Root} : CreateFolder(t, title, p)
    \/ \E f \in Ids, p \in Ids \union {Root} :
           \E title \in Names \union {name[f]} : UpdateFolder(t, f, title, p)
    \/ \E f \in Ids : DeleteFolder(t, f)
    \/ \E f, g \in Ids : ReorderFolder(t, f, g)
    \/ \E i, j \in Images : ReorderImage(t, i, j)
    \/ \E i \in Images, f \in Ids \union {Root} :
           SetImageFolder(t, i, f) \/ PlaceNewImage(t, i, f)

Commit(t) ==
    \/ CommitCreate(t) \/ CommitUpdate(t) \/ CommitDelete(t)
    \/ CommitSwap(t) \/ CommitImageSwap(t) \/ CommitPlace(t)

Next ==
    \/ \E t \in Requests : Read(t) \/ Commit(t) \/ Rollback(t)
    \/ \E i \in Images : DeleteImage(i)

Spec == Init /\ [][Next]_vars

\* Requests come one after the other.
OneAtATime == \E t \in Requests : Requests = {t}
-----------------------------------------------------------------------------
(* Properties *)

\* Type correctness of the rows.
TypeOK ==
    /\ live \subseteq Ids
    /\ parent \in [Ids -> Ids \union {Root}]
    /\ name \in [Ids -> Names \union {Home} \union Range(Seeds)]
    /\ sort \in [Ids -> 0..MaxSort]
    /\ within \in [Images -> Ids \union {0}]
    /\ place \in [Images -> 0..MaxPlace]

(***************************************************************************)
(* Every folder can be reached in the client's menu: each set of folders   *)
(* has one whose parent is the root or a folder outside the set, so none   *)
(* form a cycle and none hangs below a deleted one.                        *)
(***************************************************************************)
FoldersReachRoot ==
    \A S \in SUBSET live :
        S # {} => \E g \in S : parent[g] = Root \/ parent[g] \in live \ S

(***************************************************************************)
(* "A folder cannot be moved into itself or a nested folder"               *)
(* (src/src/inventory/boot_menu.py:305), whoever else moves one.           *)
(***************************************************************************)
NoFolderInsideItself == \A f \in live : ~OnCycle(f)

\* No sequence of moves nests folders deeper than the limit.
DepthBounded == \A f \in live : Depth(f) < MaxDepth

(***************************************************************************)
(* Siblings have different names, and different sort orders: else moving   *)
(* one up could carry it past two.                                         *)
(***************************************************************************)
SiblingsDiffer ==
    /\ \A f, g \in live :
           f # g /\ parent[f] = parent[g]
               => name[f] # name[g] /\ sort[f] # sort[g]
    /\ \A i, j \in Images :
           i # j /\ within[i] = within[j] /\ within[i] # 0
               => place[i] # place[j]

(***************************************************************************)
(* "Each image must belong to a folder" and "The last remaining folder     *)
(* cannot be deleted" (src/README.md:362).                                 *)
(***************************************************************************)
ImagesHaveFolders ==
    /\ live # {}
    /\ \A i \in Images : within[i] # 0 => within[i] \in live

\* All that the menu holds is in reach of its root.
MenuIsReachable == FoldersReachRoot /\ ImagesHaveFolders

=============================================================================
