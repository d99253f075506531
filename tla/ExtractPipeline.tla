--------------------------- MODULE ExtractPipeline ---------------------------
(***************************************************************************)
(* ISOs, their extraction by the worker process, the templates that mirror *)
(* them, the media trees on disk and the installs that pin a tree          *)
(* (src/src/extract_worker.py, src/src/inventory/isos.py,                  *)
(* src/src/routes/images.py, src/src/inventory/service.py).                *)
(*                                                                         *)
(* An extraction is several steps of one worker, with the console's and    *)
(* the machines' requests between them.  Within a request, rows are read   *)
(* and committed in one step, except in isos_update and templates_update,  *)
(* which read their row before they wait for the form and save it          *)
(* afterwards, and in iso_delete, which removes the files after the        *)
(* commit.                                                                 *)
(*                                                                         *)
(* Hazards names what may happen in a run beyond one careful operator:     *)
(*   "overlap"  other requests on an ISO or a template come while an edit  *)
(*              of it waits                                                *)
(*   "reuse"    the id of a deleted row is given to a new one while a      *)
(*              request on the old one is still under way                  *)
(*   "switch"   a template gets another ISO while a machine installs it    *)
(*   "vanish"   the Files page deletes an ISO file                         *)
(*   "sweep"    an install ends while its ISO is being unpacked again      *)
(***************************************************************************)
EXTENDS Integers, FiniteSets

CONSTANTS Isos,       \* ISO row ids
          Templates,  \* image rows of Linux or Windows templates
          Machines,   \* machines that install templates
          NoIso,      \* no row
          Kinds,      \* what uploaded ISO files may turn out to be
          MaxRev,     \* bound: extract revisions per ISO row
          MaxFile,    \* bound: ISO files ever uploaded
          MaxEdits,   \* bound: edits that wait for their forms at once
          Hazards

\* Casper media phone home; live-boot media run their own installer from a
\* tree; plain media hold nothing to extract and are sanbooted.
ASSUME PipelineAssumption ==
    /\ Isos \subseteq Nat
    /\ NoIso \notin Isos
    /\ Kinds \subseteq {"casper", "live", "plain"}
    /\ MaxRev \in Nat \ {0}
    /\ MaxFile \in Nat
    /\ MaxEdits \in {1, 2}
    /\ Hazards \subseteq {"overlap", "reuse", "switch", "vanish", "sweep"}

VARIABLES kind,      \* kind[f]: what the f-th uploaded ISO file turns out to be
          uploads,   \* ISO files uploaded so far
          file,      \* file[s]: the file at the ISO's path, 0 when there is none
          iso,       \* iso[s]: the ISO row
          tpl,       \* tpl[t]: the template row
          trees,     \* trees[s][r]: the file that tree s/r was extracted from
          att,       \* att[m]: the open install attempt of machine m
          worker,    \* the extraction worker
          edit,      \* an isos_update that waits for its form
          form,      \* a templates_update that waits for its form
          removing   \* deleted ISOs whose files are still to be removed

vars == <<kind, uploads, file, iso, tpl, trees, att, worker, edit, form,
          removing>>
-----------------------------------------------------------------------------
(* Types *)

InProgress == {"queued", "extracting"}                \* EXTRACT_IN_PROGRESS
Blocking == InProgress \union {"failed"}              \* EXTRACT_BLOCKING
Statuses == Blocking \union {"idle", "ready", "absent"}

Revs == 1..MaxRev
Files == 1..MaxFile
NoTree == 0
Damaged == -1    \* a tree published after part of its staging was deleted

(***************************************************************************)
(* An ISO row, and its mirror in the template rows: the extract status,    *)
(* the extract revision, the revision its media paths (kernel, initrd,     *)
(* WIMs and extract_generation) point to, and the file last accepted for   *)
(* it (iso_path with size_bytes), 0 for none.                              *)
(*                                                                         *)
(* A template row also tells whose media paths it holds (they contain the  *)
(* ISO's id).  `mixed' is history: a save that switched its ISO crossed    *)
(* another commit to the row, and it has not been synced since.            *)
(***************************************************************************)
Media == [status : Statuses, rev : 0..MaxRev, gen : 0..MaxRev,
          accepted : 0..MaxFile]

NoMedia == [status |-> "absent", rev |-> 0, gen |-> 0, accepted |-> 0]

Mirrors == [iso : Isos \union {NoIso}, from : Isos \union {NoIso},
            media : Media, mixed : BOOLEAN]

NoMirror == [iso |-> NoIso, from |-> NoIso, media |-> NoMedia, mixed |-> FALSE]

\* Attempts: what create_install_attempt pins, and the file it came from
Attempts == [open : BOOLEAN, tpl : Templates \union {NoIso},
             iso : Isos \union {NoIso}, rev : 0..MaxRev, gen : 0..MaxRev,
             pinned : Damaged..MaxFile, mixed : BOOLEAN]

NoAttempt == [open |-> FALSE, tpl |-> NoIso, iso |-> NoIso,
              rev |-> 0, gen |-> 0, pinned |-> NoTree, mixed |-> FALSE]

Phases == {"idle", "claimed", "unpacking", "published", "collected"}

NoJob == [phase |-> "idle", iso |-> NoIso, rev |-> 0, seen |-> NoMedia,
          source |-> 0, hit |-> FALSE]

NoEdit == [iso |-> NoIso, seen |-> NoMedia]

NoForm == [tpl |-> NoIso, seen |-> NoMirror]
-----------------------------------------------------------------------------
(* Rows *)

Exists(s) == iso[s].status # "absent"
Busy(s) == iso[s].status \in InProgress            \* iso_extract_in_progress
IsoTemplates(s) == {t \in Templates : tpl[t].iso = s}

\* sync_template: a template row that takes over the fields of an ISO row
Mirror(s, media) == [iso |-> s, from |-> s, media |-> media, mixed |-> FALSE]

\* sync_templates: every template of s does.
Synced(s, media) ==
    [t \in Templates |-> IF tpl[t].iso = s THEN Mirror(s, media) ELSE tpl[t]]

\* schedule_extract of a row whose file is on disk
Scheduled(media) ==
    [media EXCEPT !.rev = @ + 1, !.status = "queued"]

\* A row is written and its templates are synced in one transaction.
SaveIso(s, media) ==
    /\ iso' = [iso EXCEPT ![s] = media]
    /\ tpl' = Synced(s, media)

(***************************************************************************)
(* gc_extract_generations: the revisions of s it keeps.  `open' is the set *)
(* of machines whose attempt is still open, `current' the row's revision.  *)
(***************************************************************************)
OpenRevs(s, open) ==
    {att[m].rev : m \in {n \in open : att[n].open /\ tpl[att[n].tpl].iso = s}}

\* Mutated form: running installs are forgotten.
KeepCurrentOnly(s, current, open) == {current}

\* Mutated form: the current revision is forgotten.
KeepPinsOnly(s, current, open) == OpenRevs(s, open)

Keep(s, current, open) == {current} \union OpenRevs(s, open)

Collected(s, keep) ==
    [trees EXCEPT ![s] = [r \in Revs |-> IF r \in keep THEN @[r] ELSE NoTree]]
-----------------------------------------------------------------------------
(* The console: ISOs *)

NewFile == uploads + 1

\* An upload replaces the ISO's file before anything is committed.
Upload(s) ==
    /\ uploads < MaxFile
    /\ uploads' = NewFile
    /\ file' = [file EXCEPT ![s] = NewFile]

NoUpload == UNCHANGED <<uploads, file>>

\* No edit of s is under way, unless requests may overlap.
Undisturbed(s) == "overlap" \in Hazards \/ edit.iso # s

\* _next_iso_id clears every id.
NextIsoId(s) == \A z \in Isos : Exists(z) => z < s

\* create_iso
CreatedIso == [NoMedia EXCEPT !.status = "idle"]

\* update_iso, before it syncs the templates: a file that was posted is the
\* ISO's own, an empty field leaves the column alone.
UpdatedIso(row, withFile) ==
    IF withFile THEN [row EXCEPT !.accepted = NewFile] ELSE row

\* POST /images/isos, with or without a file
IsosCreate(s, withFile) ==
    /\ NextIsoId(s)
    /\ "reuse" \in Hazards \/ (edit.iso # s /\ s \notin removing)
    /\ IF withFile
       THEN /\ Upload(s)
            /\ iso' = [iso EXCEPT ![s] = Scheduled(UpdatedIso(CreatedIso, TRUE))]
       ELSE /\ NoUpload
            /\ iso' = [iso EXCEPT ![s] = CreatedIso]
    /\ UNCHANGED <<kind, tpl, trees, att, worker, edit, form, removing>>

\* POST /images/isos/{id}, up to `await request.form()'
IsosUpdateBegin(s) ==
    /\ edit = NoEdit
    /\ form = NoForm \/ MaxEdits = 2
    /\ Exists(s)
    /\ ~Busy(s)
    /\ edit' = [iso |-> s, seen |-> iso[s]]
    /\ UNCHANGED <<kind, uploads, file, iso, tpl, trees, att, worker, form,
                   removing>>

(***************************************************************************)
(* The rest of it.  SQLAlchemy writes only the columns it saw change, to   *)
(* the values it computed from the row it had read; sync_templates copies  *)
(* that row, as read, onto the templates.  A row deleted meanwhile fails   *)
(* the save, after the upload.                                             *)
(***************************************************************************)
IsosUpdateSave(withFile) ==
    LET s == edit.iso
        saved == UpdatedIso(edit.seen, withFile)
        mine == IF withFile THEN Scheduled(saved) ELSE saved
    IN  /\ edit # NoEdit
        /\ withFile => edit.seen.rev < MaxRev
        /\ IF withFile THEN Upload(s) ELSE NoUpload
        /\ IF Exists(s)
           THEN /\ iso' = IF withFile
                          THEN [iso EXCEPT ![s].status = mine.status,
                                           ![s].rev = mine.rev,
                                           ![s].accepted = mine.accepted]
                          ELSE iso
                /\ tpl' = Synced(s, mine)
           ELSE UNCHANGED <<iso, tpl>>
        /\ edit' = NoEdit
        /\ UNCHANGED <<kind, trees, att, worker, form, removing>>

\* A save that is refused (a name that is taken) after the file was replaced
IsosUpdateRefused(withFile) ==
    /\ edit # NoEdit
    /\ IF withFile THEN Upload(edit.iso) ELSE NoUpload
    /\ edit' = NoEdit
    /\ UNCHANGED <<kind, iso, tpl, trees, att, worker, form, removing>>

\* POST /images/isos/{id}/extract
IsoRetryExtract(s) ==
    /\ Exists(s)
    /\ ~Busy(s)
    /\ Undisturbed(s)
    /\ file[s] # 0 /\ iso[s].accepted # 0
    /\ iso[s].rev < MaxRev
    /\ SaveIso(s, Scheduled(iso[s]))
    /\ UNCHANGED <<kind, uploads, file, trees, att, worker, edit, form,
                   removing>>

\* Mutated form: the request does not look at the extract status.
IsoDeleteAnytime(s) ==
    /\ Exists(s)
    /\ Undisturbed(s)
    /\ IsoTemplates(s) = {}
    /\ iso' = [iso EXCEPT ![s] = NoMedia]
    /\ removing' = removing \union {s}
    /\ UNCHANGED <<kind, uploads, file, tpl, trees, att, worker, edit, form>>

\* delete_iso: not while a job or a template needs the ISO
DeleteIso(s) ==
    /\ ~Busy(s)
    /\ IsoTemplates(s) = {}
    /\ iso' = [iso EXCEPT ![s] = NoMedia]

\* POST /images/isos/{id}/delete: the row,
IsoDelete(s) ==
    /\ Exists(s)
    /\ Undisturbed(s)
    /\ DeleteIso(s)
    /\ removing' = removing \union {s}
    /\ UNCHANGED <<kind, uploads, file, tpl, trees, att, worker, edit, form>>

\* ... and then the ISO's upload and trees.
RemoveIsoTree(s) ==
    /\ s \in removing
    /\ removing' = removing \ {s}
    /\ file' = [file EXCEPT ![s] = 0]
    /\ trees' = [trees EXCEPT ![s] = [r \in Revs |-> NoTree]]
    /\ UNCHANGED <<kind, uploads, iso, tpl, att, worker, edit, form>>

\* POST /files/delete on the ISO's path
FilesDelete(s) ==
    /\ "vanish" \in Hazards
    /\ file[s] # 0
    /\ file' = [file EXCEPT ![s] = 0]
    /\ UNCHANGED <<kind, uploads, iso, tpl, trees, att, worker, edit, form,
                   removing>>
-----------------------------------------------------------------------------
(* The console: templates *)

\* POST /images with an ISO
TemplatesCreate(t, s) ==
    /\ tpl[t].iso = NoIso
    /\ Exists(s)
    /\ "reuse" \in Hazards \/ form.tpl # t
    /\ tpl' = [tpl EXCEPT ![t] = Mirror(s, iso[s])]
    /\ UNCHANGED <<kind, uploads, file, iso, trees, att, worker, edit, form,
                   removing>>

Installers(t) == {m \in Machines : att[m].open /\ att[m].tpl = t}

\* POST /images/{id}, up to `await request.form()'
TemplatesUpdateBegin(t) ==
    /\ form = NoForm
    /\ edit = NoEdit \/ MaxEdits = 2
    /\ tpl[t].iso # NoIso
    /\ form' = [tpl |-> t, seen |-> tpl[t]]
    /\ UNCHANGED <<kind, uploads, file, iso, tpl, trees, att, worker, edit,
                   removing>>

(***************************************************************************)
(* A template row after a save that syncs it with ISO s: only the columns  *)
(* that differ from the row as it was read are written.  Media paths of    *)
(* two ISOs are equal only when both are empty.                            *)
(***************************************************************************)
Saved(row, seen, s, media) ==
    LET Column(c) == IF media[c] = seen.media[c] THEN row.media[c] ELSE media[c]
        samePaths == /\ media.gen = seen.media.gen
                     /\ media.gen = 0 \/ s = seen.from
    IN  [iso |-> IF s = seen.iso THEN row.iso ELSE s,
         from |-> IF samePaths /\ row.media.gen # 0 THEN row.from ELSE s,
         media |-> [status |-> Column("status"),
                    rev |-> Column("rev"),
                    gen |-> IF samePaths THEN row.media.gen ELSE media.gen,
                    accepted |-> Column("accepted")],
         mixed |-> row # seen /\ (row.mixed \/ s # row.iso)]

(***************************************************************************)
(* The rest of it: the ISO is read, the template's own or another one, and *)
(* the template is synced with it.                                         *)
(***************************************************************************)
TemplatesUpdateSave(s) ==
    LET t == form.tpl
    IN  /\ form # NoForm
        /\ tpl[t].iso # NoIso
        /\ Exists(s)
        /\ \/ s = tpl[t].iso
           \/ "switch" \in Hazards
           \/ Installers(t) = {}
        /\ tpl' = [tpl EXCEPT ![t] = Saved(tpl[t], form.seen, s, iso[s])]
        /\ form' = NoForm
        /\ UNCHANGED <<kind, uploads, file, iso, trees, att, worker, edit,
                       removing>>

\* A save that is refused, or whose row is gone
TemplatesUpdateRefused ==
    /\ form # NoForm
    /\ form' = NoForm
    /\ UNCHANGED <<kind, uploads, file, iso, tpl, trees, att, worker, edit,
                   removing>>

\* POST /images/{id}/delete
ImageDelete(t) ==
    /\ tpl[t].iso # NoIso
    /\ Installers(t) = {}
    /\ "overlap" \in Hazards \/ form.tpl # t
    /\ tpl' = [tpl EXCEPT ![t] = NoMirror]
    /\ UNCHANGED <<kind, uploads, file, iso, trees, att, worker, edit, form,
                   removing>>
-----------------------------------------------------------------------------
(* Installs *)

\* image_deploy_reason of a template: extracted media, or an ISO to sanboot
Deployable(t) ==
    /\ tpl[t].iso # NoIso
    /\ tpl[t].media.status \notin Blocking
    /\ tpl[t].media.gen # 0 \/ tpl[t].media.accepted # 0

\* create_install_attempt for a deploy, a stage, a pick or a refresh
Install(m, t) ==
    LET s == tpl[t].from
        media == tpl[t].media
    IN  /\ Deployable(t)
        /\ att' = [att EXCEPT ![m] =
                      [open |-> TRUE, tpl |-> t, iso |-> s,
                       rev |-> media.rev, gen |-> media.gen,
                       pinned |-> IF media.gen = 0 THEN NoTree
                                  ELSE trees[s][media.gen],
                       mixed |-> tpl[t].mixed]]
        /\ UNCHANGED <<kind, uploads, file, iso, tpl, trees, worker, edit,
                       form, removing>>

\* payload.skips_guest_init: sanboot, or a live-boot tree on disk
OwnInstaller(s, gen) ==
    gen # 0 => trees[s][gen] \in {f \in Files : kind[f] = "live"}

(***************************************************************************)
(* mark_deployed closes the machine's attempt and collects the trees of    *)
(* the ISO its template is linked to now, staging trees included.          *)
(***************************************************************************)
MarkDeployed(m) ==
    LET s == tpl[att[m].tpl].iso
        unpacking == worker.phase = "unpacking" /\ worker.iso = s
    IN  /\ "sweep" \in Hazards \/ ~unpacking
        /\ att' = [att EXCEPT ![m] = NoAttempt]
        /\ trees' = Collected(s, Keep(s, iso[s].rev, Machines \ {m}))
        /\ worker' = IF unpacking THEN [worker EXCEPT !.hit = TRUE] ELSE worker
        /\ UNCHANGED <<kind, uploads, file, iso, tpl, edit, form, removing>>

\* The phone-home of an installer, or Mark deployed in the console
InstallEnds(m) ==
    /\ att[m].open
    /\ MarkDeployed(m)

\* A boot script of media that run their own installer
HandOut(m) ==
    /\ att[m].open
    /\ OwnInstaller(att[m].iso, att[m].gen)
    /\ MarkDeployed(m)

\* Abort, disable, a failed or silent install: closed, nothing collected
InstallDropped(m) ==
    /\ att[m].open
    /\ att' = [att EXCEPT ![m] = NoAttempt]
    /\ UNCHANGED <<kind, uploads, file, iso, tpl, trees, worker, edit, form,
                   removing>>
-----------------------------------------------------------------------------
(* The worker *)

NextQueued(s) ==
    /\ iso[s].status = "queued"
    /\ \A z \in Isos : iso[z].status = "queued" => s <= z

\* Mutated form: the templates' status is not updated with the ISO's.
ClaimIsoOnly(s) ==
    /\ worker.phase = "idle"
    /\ NextQueued(s)
    /\ iso' = [iso EXCEPT ![s].status = "extracting"]
    /\ worker' = [NoJob EXCEPT !.phase = "claimed", !.iso = s,
                               !.rev = iso[s].rev]
    /\ UNCHANGED <<kind, uploads, file, tpl, trees, att, edit, form, removing>>

ClaimNextJob(s) ==
    /\ worker.phase = "idle"
    /\ NextQueued(s)
    /\ iso' = [iso EXCEPT ![s].status = "extracting"]
    /\ tpl' = [t \in Templates |->
                  IF tpl[t].iso = s
                  THEN [tpl[t] EXCEPT !.media.status = "extracting"]
                  ELSE tpl[t]]
    /\ worker' = [NoJob EXCEPT !.phase = "claimed", !.iso = s,
                               !.rev = iso[s].rev]
    /\ UNCHANGED <<kind, uploads, file, trees, att, edit, form, removing>>

(***************************************************************************)
(* run_one_job reads the row; the job is dropped when the row has moved on *)
(* and set to idle when the file is gone.  The row object read here stays  *)
(* in the session: what later steps call the current row is this one.      *)
(***************************************************************************)
StartJob ==
    LET s == worker.iso
    IN  /\ worker.phase = "claimed"
        /\ IF ~Exists(s) \/ iso[s].rev # worker.rev
           THEN worker' = NoJob /\ UNCHANGED <<iso, tpl>>
           ELSE IF file[s] = 0
           THEN worker' = NoJob /\ SaveIso(s, [iso[s] EXCEPT !.status = "idle"])
           ELSE /\ worker' = [worker EXCEPT !.phase = "unpacking",
                                            !.seen = iso[s],
                                            !.source = file[s]]
                /\ UNCHANGED <<iso, tpl>>
        /\ UNCHANGED <<kind, uploads, file, trees, att, edit, form, removing>>

\* _replace_dir, _publish_linux_tree: a tree replaces what is at its revision.
Published(s, r, tree) == [trees EXCEPT ![s][r] = tree]

\* The archive is unpacked.
Publish ==
    LET tree == IF worker.hit THEN Damaged ELSE worker.source
    IN  /\ worker.phase = "unpacking"
        /\ trees' = IF kind[worker.source] = "plain" THEN trees
                    ELSE Published(worker.iso, worker.rev, tree)
        /\ worker' = [worker EXCEPT !.phase = "published", !.hit = FALSE]
        /\ UNCHANGED <<kind, uploads, file, iso, tpl, att, edit, form,
                       removing>>

\* The commit of a row read at the start: only changed columns are written.
WriteBack(media) ==
    LET s == worker.iso
    IN  /\ iso' = IF Exists(s)
                  THEN [iso EXCEPT ![s].status = media.status,
                                   ![s].gen = IF media.gen = worker.seen.gen
                                              THEN @ ELSE media.gen]
                  ELSE iso
        /\ tpl' = Synced(s, media)
        /\ worker' = NoJob

\* Mutated form: a status no other code knows (the column is a plain string).
MarkError ==
    /\ worker.phase = "unpacking"
    /\ WriteBack([worker.seen EXCEPT !.status = "error"])
    /\ UNCHANGED <<kind, uploads, file, trees, att, edit, form, removing>>

\* _mark_failed: a bad or oversized archive, a full disk, a timeout
MarkFailed ==
    /\ worker.phase = "unpacking"
    /\ WriteBack([worker.seen EXCEPT !.status = "failed"])
    /\ UNCHANGED <<kind, uploads, file, trees, att, edit, form, removing>>

\* Trees are collected before the commit that makes the new one current.
CollectGenerations ==
    LET s == worker.iso
    IN  /\ worker.phase = "published"
        /\ trees' = Collected(s, Keep(s, worker.seen.rev, Machines))
        /\ worker' = [worker EXCEPT !.phase = "collected"]
        /\ UNCHANGED <<kind, uploads, file, iso, tpl, att, edit, form,
                       removing>>

FinishJob ==
    /\ worker.phase = "collected"
    /\ WriteBack([worker.seen EXCEPT
                     !.status = "ready",
                     !.gen = IF kind[worker.source] = "plain" THEN 0
                             ELSE worker.rev])
    /\ UNCHANGED <<kind, uploads, file, trees, att, edit, form, removing>>

WorkerStep ==
    \/ \E s \in Isos : ClaimNextJob(s)
    \/ StartJob \/ Publish \/ MarkFailed
    \/ CollectGenerations \/ FinishJob

(***************************************************************************)
(* The worker dies at any point and main() starts over: stale jobs are     *)
(* queued again, ready ISOs whose tree is gone are scheduled, templates    *)
(* are synced.                                                             *)
(***************************************************************************)
NeedsBackfill(s) ==
    /\ iso[s].status = "ready"
    /\ iso[s].gen # 0 /\ file[s] # 0
    /\ trees[s][iso[s].rev] = NoTree

Recovered(s) ==
    IF iso[s].status = "extracting" THEN [iso[s] EXCEPT !.status = "queued"]
    ELSE IF NeedsBackfill(s) /\ iso[s].rev < MaxRev THEN Scheduled(iso[s])
    ELSE iso[s]

\* Mutated form: jobs the dead worker had claimed are not queued again.
RestartWithoutRequeue ==
    /\ worker' = NoJob
    /\ UNCHANGED <<kind, uploads, file, iso, tpl, trees, att, edit, form,
                   removing>>

WorkerRestart ==
    /\ worker' = NoJob
    /\ iso' = [s \in Isos |-> Recovered(s)]
    /\ tpl' = [t \in Templates |->
                  IF tpl[t].iso = NoIso THEN tpl[t]
                  ELSE Mirror(tpl[t].iso, Recovered(tpl[t].iso))]
    /\ UNCHANGED <<kind, uploads, file, trees, att, edit, form, removing>>
-----------------------------------------------------------------------------
Init ==
    /\ kind \in [Files -> Kinds]
    /\ uploads = 0
    /\ file = [s \in Isos |-> 0]
    /\ iso = [s \in Isos |-> NoMedia]
    /\ tpl = [t \in Templates |-> NoMirror]
    /\ trees = [s \in Isos |-> [r \in Revs |-> NoTree]]
    /\ att = [m \in Machines |-> NoAttempt]
    /\ worker = NoJob
    /\ edit = NoEdit
    /\ form = NoForm
    /\ removing = {}

IsoStep(s) ==
    \/ \E withFile \in BOOLEAN : IsosCreate(s, withFile)
    \/ IsosUpdateBegin(s)
    \/ IsoRetryExtract(s)
    \/ IsoDelete(s)
    \/ RemoveIsoTree(s)
    \/ FilesDelete(s)

EditStep ==
    \E withFile \in BOOLEAN : IsosUpdateSave(withFile) \/ IsosUpdateRefused(withFile)

TemplateStep(t) ==
    \/ \E s \in Isos : TemplatesCreate(t, s)
    \/ TemplatesUpdateBegin(t)
    \/ ImageDelete(t)

FormStep ==
    \/ \E s \in Isos : TemplatesUpdateSave(s)
    \/ TemplatesUpdateRefused

InstallStep(m) ==
    \/ \E t \in Templates : Install(m, t)
    \/ InstallEnds(m)
    \/ HandOut(m)
    \/ InstallDropped(m)

Next ==
    \/ \E s \in Isos : IsoStep(s)
    \/ EditStep
    \/ \E t \in Templates : TemplateStep(t)
    \/ FormStep
    \/ \E m \in Machines : InstallStep(m)
    \/ WorkerStep
    \/ WorkerRestart

Spec == Init /\ [][Next]_vars

\* The worker loops for ever; nobody has to upload, edit or install.
FairSpec == Spec /\ WF_vars(WorkerStep)
-----------------------------------------------------------------------------
(* Properties *)

\* Type correctness.
TypeOK ==
    /\ kind \in [Files -> Kinds]
    /\ uploads \in 0..MaxFile
    /\ file \in [Isos -> 0..MaxFile]
    /\ iso \in [Isos -> Media]
    /\ tpl \in [Templates -> Mirrors]
    /\ trees \in [Isos -> [Revs -> Damaged..MaxFile]]
    /\ att \in [Machines -> Attempts]
    /\ worker \in [phase : Phases, iso : Isos \union {NoIso},
                   rev : 0..MaxRev, seen : Media, source : 0..MaxFile,
                   hit : BOOLEAN]
    /\ edit \in [iso : Isos \union {NoIso}, seen : Media]
    /\ form \in [tpl : Templates \union {NoIso}, seen : Mirrors]
    /\ removing \subseteq Isos

(***************************************************************************)
(* The tree a running install was pinned to stays on disk, whole and       *)
(* unchanged, until the install is over, whatever is extracted, retried,   *)
(* deleted or collected meanwhile.  Excused: installs from a template that *)
(* was mixed, whose revision and tree may belong to two ISOs.              *)
(***************************************************************************)
PinnedMediaKept ==
    \A m \in Machines :
        att[m].open /\ ~att[m].mixed /\ att[m].gen # 0
            => /\ att[m].pinned \in Files
               /\ trees[att[m].iso][att[m].gen] = att[m].pinned

(***************************************************************************)
(* A template that can be deployed points to a tree that is on disk and    *)
(* was extracted from the file accepted for its ISO, or a newer one: no    *)
(* upload is forgotten and no collection takes the current tree.  Excused: *)
(* templates that are mixed.                                               *)
(***************************************************************************)
DeployableIsServable ==
    \A t \in Templates :
        Deployable(t) /\ ~tpl[t].mixed /\ tpl[t].media.gen # 0
            => trees[tpl[t].iso][tpl[t].media.gen] \in
                   (Files \ 0..(tpl[t].media.accepted - 1))

(***************************************************************************)
(* Templates mirror their ISO, whoever changed it last: the console's      *)
(* handlers, the worker or its restart, also while a save of the template  *)
(* waits for its form.  Excused, until it is synced again: a template that *)
(* was switched to another ISO by a save that crossed a commit to it.      *)
(***************************************************************************)
TemplatesMirrorIsos ==
    \A t \in Templates :
        tpl[t].iso # NoIso /\ ~tpl[t].mixed
            => tpl[t] = Mirror(tpl[t].iso, iso[tpl[t].iso])

(***************************************************************************)
(* The ISO under extraction stays in progress until the worker commits,    *)
(* whatever overlaps: so no request that looks at the status deletes it or *)
(* schedules it a second time under the worker's hands.                    *)
(***************************************************************************)
JobStaysInProgress ==
    worker.phase # "idle" => Exists(worker.iso) /\ Busy(worker.iso)

(***************************************************************************)
(* Extraction ends: a queued or extracting ISO gets a result, also when    *)
(* the worker died with the job, once the worker stays up.                 *)
(***************************************************************************)
ExtractionEnds ==
    \A s \in Isos :
        <>[][~WorkerRestart]_vars => (Busy(s) ~> ~Busy(s))

(***************************************************************************)
(* "Drop old extract revisions, keeping the current one and any a running  *)
(* install still pins." (src/src/extract_worker.py:175): a collection      *)
(* takes no tree that an open attempt is pinned to.                        *)
(***************************************************************************)
CollectionKeepsPins ==
    [][CollectGenerations \/ (\E m \in Machines : InstallEnds(m))
          => \A m \in Machines :
                att'[m].open /\ att'[m].gen # 0
                    => trees'[att[m].iso][att[m].gen]
                           = trees[att[m].iso][att[m].gen]]_vars
=============================================================================
