----------------------------- MODULE GuestSeeds -----------------------------
(***************************************************************************)
(* The guest-init seed files (src/src/seed_store.py) beside the rows they  *)
(* belong to.  A machine may have a seed of its own, an image has one, and *)
(* every install gets a snapshot of the text it was staged with.  A        *)
(* handler changes the files first and commits its rows afterwards; only   *)
(* the files of what was deleted are removed after the commit.             *)
(*                                                                         *)
(* Files are named by row ids, and SQLite gives the id of a deleted last   *)
(* row to the next one from the commit on, while the files are removed.    *)
(* One OS family stands for both, and "deploying" for imaging too.  A text *)
(* is who wrote it: an edit of a machine's page, of an image's page, or    *)
(* the factory.                                                            *)
(*                                                                         *)
(* Nothing in the code orders two requests on one machine or one image.    *)
(* Here those on one row follow each other, as those of one careful        *)
(* operator, up to the commit; requests on a machine and on images         *)
(* overlap, and so does the removal of files with all that befalls the row *)
(* that has got the id.                                                    *)
(***************************************************************************)
EXTENDS Naturals, FiniteSets

CONSTANTS SeededIds,      \* ids of machines
          ImageIds,       \* ids of images
          Savers,         \* handlers that may run at once
          Instances,      \* bound: instance ids in use at a time
          MaxBorn,        \* bound: rows ever made
          MaxEdits        \* bound: different texts one page is given

ASSUME SeedAssumption ==
    /\ SeededIds \subseteq Nat \ {0}
    /\ ImageIds \subseteq Nat \ {0}
    /\ Instances \subseteq Nat \ {0}
    /\ MaxBorn \in Nat
    /\ MaxEdits \in Nat

VARIABLES seedRows,     \* machine rows
          imageRows,    \* image rows: which row it is, 0 for none
          seedFiles,    \* the files, by the directory they are in
          seedTask,     \* what each handler has still to commit or remove
          seedBorn,     \* rows ever made
          pinTrouble,   \* history: machines that lost a commit after their
                        \* files changed, or files to the removal of an
                        \* older machine's
          ownTrouble,   \* history: removals of files that were lost, of a
                        \* machine's "tree" or an image's "files"
          seedReused    \* history: removals that had still to come when
                        \* another row got the id

seedVars == <<seedRows, imageRows, seedFiles, seedTask, seedBorn, pinTrouble,
              ownTrouble, seedReused>>

NoText == [from |-> "none", row |-> 0, edit |-> 0]
Factory == [from |-> "factory", row |-> 0, edit |-> 0]
Texts == [from : {"machine", "image"}, row : 1..MaxBorn, edit : 1..MaxEdits]
           \union {Factory}

(***************************************************************************)
(* row    which row this is, 0 for none                                    *)
(* state  "idle" for every state but these: "staged" and "deploying"       *)
(* image  the assigned image                                               *)
(* open   the machine has an open attempt                                  *)
(* inst   instance id of the machine, and of its latest attempt            *)
(* pinned the image of that attempt                                        *)
(* text   the text that attempt was staged with                            *)
(***************************************************************************)
NoMachine == [row |-> 0, state |-> "idle", image |-> 0, open |-> FALSE,
              inst |-> 0, pinned |-> 0, text |-> NoText]

\* seeds/{machine}, uploads/{image} and install-seeds/{machine}/{instance}
SeedFiles ==
    [own : [SeededIds -> Texts \union {NoText}],
     image : [ImageIds -> Texts \union {NoText}],
     snap : [SeededIds \X Instances -> Texts \union {NoText}]]

\* A handler has a row to commit, of a "machine" or an "image", or files to
\* remove, a "tree" or "files".
IdleSaver == [on |-> "none", id |-> 0, row |-> NoMachine]

MachineLives(m) == seedRows[m].row # 0
ImageLives(i) == i # 0 /\ imageRows[i] # 0

\* The id SQLite gives to the next row
Free(ids, rows) == {i \in ids : \A j \in ids : j >= i => rows[j] = 0}
NextFree(i, ids, rows) ==
    i \in Free(ids, rows) /\ \A j \in Free(ids, rows) : i <= j
-----------------------------------------------------------------------------
(* What the handlers do to the files *)

\* default_seed_text
DefaultText(i, files) ==
    IF ImageLives(i) /\ files.image[i] # NoText THEN files.image[i] ELSE Factory

\* select_seed_text: the machine's own seed, the image's, the factory's
SelectText(m, i, files) ==
    IF files.own[m] # NoText THEN files.own[m] ELSE DefaultText(i, files)

WithOwn(m, text, files) == [files EXCEPT !.own[m] = text]

\* copy_image_seed_to_machine
CopyDefault(m, i, files, overwrite) ==
    IF files.own[m] # NoText /\ ~overwrite THEN files
    ELSE WithOwn(m, DefaultText(i, files), files)

\* prune_install_seeds; keep 0 keeps none
Prune(m, keep, files) ==
    [files EXCEPT !.snap = [k \in DOMAIN files.snap |->
        IF k[1] = m /\ k[2] # keep THEN NoText ELSE files.snap[k]]]

\* Mutated form: what is pruned is the snapshot just written.
SnapshotPruned(m, inst, text, files) ==
    Prune(m, 0, [files EXCEPT !.snap[<<m, inst>>] = text])

\* create_install_attempt: the snapshot is written, then the others pruned.
Snapshot(m, inst, text, files) ==
    Prune(m, inst, [files EXCEPT !.snap[<<m, inst>>] = text])

\* delete_seed of the snapshot each attempt names
DropSnapshot(m, row, files) ==
    [files EXCEPT !.snap = [k \in DOMAIN files.snap |->
        IF k = <<m, row.inst>> THEN NoText ELSE files.snap[k]]]

\* remove_machine_seed_tree
RemoveTree(m, files) == Prune(m, 0, WithOwn(m, NoText, files))
-----------------------------------------------------------------------------
(* Requests on a machine.  Each reads its row, changes files, and is left  *)
(* with a row to commit.                                                   *)

Busy(kind, id) == \E c \in Savers : seedTask[c].on = kind /\ seedTask[c].id = id

BeginSeed(c, m, files, row) ==
    /\ seedFiles' = files
    /\ seedTask' = [seedTask EXCEPT ![c] =
           [on |-> "machine", id |-> m, row |-> row]]
    /\ UNCHANGED <<seedRows, imageRows, seedBorn, pinTrouble, ownTrouble, seedReused>>

Ready(c, m) == seedTask[c] = IdleSaver /\ MachineLives(m) /\ ~Busy("machine", m)

\* bump_instance_id: one that nothing refers to
Used(inst) ==
    \/ \E m \in SeededIds : seedRows[m].inst = inst \/ seedFiles.snap[m, inst] # NoText
    \/ \E c \in Savers : seedTask[c].row.inst = inst
Fresh == {inst \in Instances : ~Used(inst) /\ \A j \in Instances : j < inst => Used(j)}

\* A new instance, its snapshot and its attempt
Stage(c, m, i, state, files) ==
    \E inst \in Fresh :
        LET text == SelectText(m, i, files)
        IN  BeginSeed(c, m, Snapshot(m, inst, text, files),
                  [seedRows[m] EXCEPT !.state = state, !.image = i, !.open = TRUE,
                      !.inst = inst, !.pinned = i, !.text = text])

\* The texts the operator may write on a page of this row
Posted(from, row) == {[from |-> from, row |-> row, edit |-> e] : e \in 1..MaxEdits}

\* _apply_guest_fields, the posted seed given: no text removes the file.
ApplyGuestFields(m, text) == WithOwn(m, text, seedFiles)

\* machine_deploy.  An empty field leaves the file alone.
Deploy(c, m) ==
    /\ Ready(c, m)
    /\ \E i \in ImageIds,
          text \in Posted("machine", seedRows[m].row) \union {seedFiles.own[m]} :
           /\ ImageLives(i)
           /\ Stage(c, m, i, "deploying",
                    CopyDefault(m, i, ApplyGuestFields(m, text), FALSE))

\* A deploy, or a save of a staged machine, that is refused for want of an
\* account or of media: the posted seed has been written.
RefusedLate(m) ==
    /\ MachineLives(m) /\ ~Busy("machine", m)
    /\ \E text \in Posted("machine", seedRows[m].row)
              \union {x \in {NoText} : seedRows[m].state = "staged"} :
           seedFiles' = ApplyGuestFields(m, text)
    /\ UNCHANGED <<seedRows, imageRows, seedTask, seedBorn, pinTrouble, ownTrouble,
                   seedReused>>

\* machine_stage
StageReimage(c, m) ==
    /\ Ready(c, m) /\ ImageLives(seedRows[m].image)
    /\ Stage(c, m, seedRows[m].image, "staged",
             CopyDefault(m, seedRows[m].image, seedFiles, FALSE))

\* machine_save: the seed is written or cleared, a staged attempt refreshed.
Save(c, m) ==
    /\ Ready(c, m) /\ seedRows[m].state # "deploying"
    /\ \E i \in ImageIds, text \in Posted("machine", seedRows[m].row) \union {NoText} :
           LET files == ApplyGuestFields(m, text)
           IN  /\ ImageLives(i)
               /\ IF seedRows[m].state = "staged"
                  THEN Stage(c, m, i, "staged", files)
                  ELSE BeginSeed(c, m, files, [seedRows[m] EXCEPT !.image = i])

\* machine_copy_default_seed
CopyDefaultSeed(c, m) ==
    /\ Ready(c, m) /\ seedRows[m].state # "deploying"
    /\ \E i \in ImageIds :
           /\ ImageLives(i)
           /\ BeginSeed(c, m, CopyDefault(m, i, seedFiles, TRUE),
                    [seedRows[m] EXCEPT !.image = i])

\* mark_deployed: the snapshots go before the commit.
MarkDeployed(c, m) ==
    /\ Ready(c, m)
    /\ BeginSeed(c, m, Prune(m, 0, seedFiles),
             [seedRows[m] EXCEPT !.state = "idle", !.open = FALSE])

\* mark_timeout_error, mark_install_failed, abort_deploy and disable_machine,
\* which leaves the attempt open when it enables.
LeaveInstall(c, m) ==
    /\ Ready(c, m) /\ seedRows[m].state # "idle"
    /\ \E open \in {FALSE, seedRows[m].open} :
           BeginSeed(c, m, seedFiles,
                 [seedRows[m] EXCEPT !.state = "idle", !.open = open])

\* machine_delete and delete_machine
Delete(c, m) ==
    /\ Ready(c, m)
    /\ BeginSeed(c, m, DropSnapshot(m, seedRows[m], seedFiles), NoMachine)
-----------------------------------------------------------------------------
(* Requests on an image *)

WithImageSeed(i, text) == [seedFiles EXCEPT !.image[i] = text]

WriteImageSeed(i, texts) ==
    /\ ImageLives(i) /\ ~Busy("image", i)
    /\ \E text \in texts : seedFiles' = WithImageSeed(i, text)
    /\ UNCHANGED <<seedRows, imageRows, seedTask, seedBorn, pinTrouble, ownTrouble,
                   seedReused>>

\* templates_update: the rows do not matter here.
SaveImage(i) == WriteImageSeed(i, Posted("image", imageRows[i]))
ResetImageSeed(i) == WriteImageSeed(i, {Factory})

\* image_delete: refused while an attempt or an install needs the image.
DeleteImage(c, i) ==
    /\ seedTask[c] = IdleSaver /\ ImageLives(i) /\ ~Busy("image", i)
    /\ \A m \in SeededIds :
           /\ seedRows[m].open => seedRows[m].pinned # i
           /\ seedRows[m].image = i => seedRows[m].state = "idle"
    /\ seedTask' = [seedTask EXCEPT ![c] =
           [on |-> "image", id |-> i, row |-> NoMachine]]
    /\ UNCHANGED <<seedRows, imageRows, seedFiles, seedBorn, pinTrouble, ownTrouble,
                   seedReused>>
-----------------------------------------------------------------------------
(* Commits, removals and failures *)

Finish(c) == seedTask' = [seedTask EXCEPT ![c] = IdleSaver]

\* Mutated form: the files of a deleted machine stay.
CommitAndLeave(c, m, row) ==
    /\ seedRows' = [seedRows EXCEPT ![m] = row]
    /\ Finish(c)

\* The new columns go into whatever row has the id now.
CommitMachine(c, m, row) ==
    /\ seedRows' = [seedRows EXCEPT ![m] =
           IF row = NoMachine THEN row ELSE [row EXCEPT !.row = seedRows[m].row]]
    /\ IF row = NoMachine
       THEN seedTask' = [seedTask EXCEPT ![c].on = "tree"]
       ELSE Finish(c)

\* The rows of a request go in together, unless the row is gone by now.
CommitSeed(c) ==
    LET task == seedTask[c]
    IN  /\ task.on = "machine" /\ MachineLives(task.id)
        /\ CommitMachine(c, task.id, task.row)
        /\ UNCHANGED <<imageRows, seedFiles, seedBorn, pinTrouble, ownTrouble, seedReused>>

CommitImageDelete(c) ==
    LET task == seedTask[c]
    IN  /\ task.on = "image" /\ ImageLives(task.id)
        /\ imageRows' = [imageRows EXCEPT ![task.id] = 0]
        /\ seedRows' = [m \in SeededIds |->
               IF seedRows[m].image = task.id THEN [seedRows[m] EXCEPT !.image = 0]
               ELSE seedRows[m]]
        /\ seedTask' = [seedTask EXCEPT ![c].on = "files"]
        /\ UNCHANGED <<seedFiles, seedBorn, pinTrouble, ownTrouble, seedReused>>

\* remove_machine_seed_tree and remove_template_files, after the commit: what
\* another row of this id has written meanwhile goes too.
RemoveFiles(c) ==
    LET task == seedTask[c]
        what == <<task.on, task.id>>
    IN  /\ task.on \in {"tree", "files"}
        /\ seedFiles' = IF task.on = "tree" THEN RemoveTree(task.id, seedFiles)
                        ELSE WithImageSeed(task.id, NoText)
        /\ Finish(c)
        /\ pinTrouble' = pinTrouble \union
               {m \in {task.id} : task.on = "tree" /\ MachineLives(m)}
        /\ ownTrouble' = ownTrouble \ {what}
        /\ seedReused' = seedReused \ {what}
        /\ UNCHANGED <<seedRows, imageRows, seedBorn>>

\* The database refuses the commit, or the process dies before it.
CommitLost(c) ==
    LET task == seedTask[c]
    IN  /\ task.on \in {"machine", "image"}
        /\ Finish(c)
        /\ pinTrouble' = pinTrouble \union {m \in {task.id} : task.on = "machine"}
        /\ UNCHANGED <<seedRows, imageRows, seedFiles, seedBorn, ownTrouble, seedReused>>

\* The process dies after the commit of a deletion.
RemovalLost(c) ==
    LET task == seedTask[c]
    IN  /\ task.on \in {"tree", "files"}
        /\ Finish(c)
        /\ ownTrouble' = ownTrouble \union {<<task.on, task.id>>}
        /\ UNCHANGED <<seedRows, imageRows, seedFiles, seedBorn, pinTrouble, seedReused>>
-----------------------------------------------------------------------------
(* New rows.  Nothing keeps an id whose files are still to be removed.     *)

\* A removal that is under way when its id is given out
GiveOut(kind, id) ==
    seedReused' = seedReused \union {what \in {<<kind, id>>} : Busy(kind, id)}

CreateMachine ==
    /\ seedBorn < MaxBorn
    /\ \E m \in SeededIds :
           /\ NextFree(m, SeededIds, [n \in SeededIds |-> seedRows[n].row])
           /\ seedRows' = [seedRows EXCEPT ![m] =
                  [NoMachine EXCEPT !.row = seedBorn + 1]]
           /\ GiveOut("tree", m)
    /\ seedBorn' = seedBorn + 1
    /\ UNCHANGED <<imageRows, seedFiles, seedTask, pinTrouble, ownTrouble>>

\* create_image: ensure_image_seed leaves a file that is there.
CreateImage ==
    /\ seedBorn < MaxBorn
    /\ \E i \in ImageIds :
           /\ NextFree(i, ImageIds, imageRows)
           /\ imageRows' = [imageRows EXCEPT ![i] = seedBorn + 1]
           /\ seedFiles' = IF seedFiles.image[i] # NoText THEN seedFiles
                           ELSE WithImageSeed(i, Factory)
           /\ GiveOut("files", i)
    /\ seedBorn' = seedBorn + 1
    /\ UNCHANGED <<seedRows, seedTask, pinTrouble, ownTrouble>>
-----------------------------------------------------------------------------
SeedInit ==
    /\ seedRows = [m \in SeededIds |-> NoMachine]
    /\ imageRows = [i \in ImageIds |-> 0]
    /\ seedFiles = [own |-> [m \in SeededIds |-> NoText],
                    image |-> [i \in ImageIds |-> NoText],
                    snap |-> [k \in SeededIds \X Instances |-> NoText]]
    /\ seedTask = [c \in Savers |-> IdleSaver]
    /\ seedBorn = 0
    /\ pinTrouble = {}
    /\ ownTrouble = {}
    /\ seedReused = {}

SeedNext ==
    \/ \E c \in Savers, m \in SeededIds :
           \/ Deploy(c, m) \/ StageReimage(c, m) \/ Save(c, m)
           \/ CopyDefaultSeed(c, m) \/ MarkDeployed(c, m) \/ LeaveInstall(c, m)
           \/ Delete(c, m)
    \/ \E m \in SeededIds : RefusedLate(m)
    \/ \E i \in ImageIds :
           SaveImage(i) \/ ResetImageSeed(i) \/ \E c \in Savers : DeleteImage(c, i)
    \/ \E c \in Savers :
           \/ CommitSeed(c) \/ CommitImageDelete(c) \/ RemoveFiles(c)
           \/ CommitLost(c) \/ RemovalLost(c)
    \/ CreateMachine \/ CreateImage

SeedSpec == SeedInit /\ [][SeedNext]_seedVars
-----------------------------------------------------------------------------
(* Properties *)

\* Type correctness.
SeedTypeOK ==
    /\ seedRows \in [SeededIds -> [row : 0..MaxBorn, state : {"idle", "staged", "deploying"},
                                   image : ImageIds \union {0}, open : BOOLEAN,
                                   inst : Instances \union {0}, pinned : ImageIds \union {0},
                                   text : Texts \union {NoText}]]
    /\ imageRows \in [ImageIds -> 0..MaxBorn]
    /\ seedFiles \in SeedFiles
    /\ seedBorn \in 0..MaxBorn
    /\ \A c \in Savers : seedTask[c].on \in {"none", "machine", "image", "tree", "files"}
    /\ pinTrouble \subseteq SeededIds

\* render_selected_seed: an attempt is answered from its snapshot, and with
\* the factory's text when the snapshot is missing.
Served(m) ==
    IF seedFiles.snap[m, seedRows[m].inst] = NoText THEN Factory
    ELSE seedFiles.snap[m, seedRows[m].inst]

(***************************************************************************)
(* While no request on the machine is under way, the guest of an open      *)
(* install is given the text that was selected when the install was        *)
(* staged, whatever is saved on machine or image pages since, and whoever  *)
(* had the id before.  "Redeploy keeps only the current                    *)
(* data/install-seeds/{machine}/{instance} snapshot"                       *)
(* (src/CHANGELOG.md:199).  Two things may cost the snapshot, so that the  *)
(* guest gets the factory's text: a commit that is lost, and the removal   *)
(* of the files of the machine that had the id before, when it comes after *)
(* the snapshot.                                                           *)
(***************************************************************************)
ServesPinnedSeed ==
    \A m \in SeededIds \ pinTrouble :
        seedRows[m].open /\ ~Busy("machine", m) =>
            Served(m) = seedRows[m].text

(***************************************************************************)
(* A seed belongs to the machine or image that has the id now, not to one  *)
(* that was deleted: "Related ... seed files are removed"                  *)
(* (src/CHANGELOG.md:232).  Excused, until files of the id are removed     *)
(* again, are ids whose removal was lost in a crash, and ids given out     *)
(* while the removal had still to come: the row is gone with the commit,   *)
(* the files go after it, and a client that boots in between gets the id   *)
(* together with the old seed.                                             *)
(***************************************************************************)
SeedsHaveOwners ==
    /\ \A m \in SeededIds :
           /\ MachineLives(m) /\ <<"tree", m>> \notin ownTrouble \union seedReused
           /\ seedFiles.own[m].from = "machine"
           => seedFiles.own[m].row = seedRows[m].row
    /\ \A i \in ImageIds :
           /\ ImageLives(i) /\ <<"files", i>> \notin ownTrouble \union seedReused
           /\ seedFiles.image[i].from = "image"
           => seedFiles.image[i].row = imageRows[i]
=============================================================================
