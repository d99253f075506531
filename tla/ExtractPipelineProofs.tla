------------------------ MODULE ExtractPipelineProofs ------------------------
(***************************************************************************)
(* Proofs about ExtractPipeline, for every set of ISOs, templates and      *)
(* machines and all bounds.  With any hazards: type correctness, and that  *)
(* the ISO the worker holds stays in progress.  Without hazards: pinned    *)
(* trees stay, templates mirror their ISOs and can be served.              *)
(***************************************************************************)
EXTENDS ExtractPipeline, TLAPS

(***************************************************************************)
(* The worker's job and the console's edit are of ISO ids; the job's ISO   *)
(* has a row, and its status keeps every other request away from it.       *)
(***************************************************************************)
JobHeld ==
    worker.phase # "idle"
        => worker.iso \in Isos /\ iso[worker.iso].status \in InProgress

EditKnown ==
    /\ edit # NoEdit => edit.iso \in Isos
    /\ form # NoForm => form.tpl \in Templates

\* A template row holds the paths of some ISO.
Rows == {row \in Mirrors : row.iso # NoIso => row.from \in Isos}

RowsKnown == tpl \in [Templates -> Rows]

PipelineInv == TypeOK /\ JobHeld /\ EditKnown /\ RowsKnown

Jobs == [phase : Phases, iso : Isos \union {NoIso}, rev : 0..MaxRev,
         seen : Media, source : 0..MaxFile, hit : BOOLEAN]
-----------------------------------------------------------------------------
(* Typed rows *)

LEMMA Numbers ==
  /\ 0 \in 0..MaxRev /\ 1 \in 0..MaxRev /\ 0 \in 0..MaxFile
  /\ NoTree \in Damaged..MaxFile
  BY PipelineAssumption DEF NoTree, Damaged

LEMMA NoMediaTyped == NoMedia \in Media
  BY Numbers DEF NoMedia, Media, Statuses

LEMMA CreatedIsoTyped == CreatedIso \in Media /\ CreatedIso.rev = 0
  BY NoMediaTyped DEF CreatedIso, NoMedia, Media, Statuses

LEMMA ScheduledTyped ==
  ASSUME NEW media \in Media, media.rev < MaxRev
  PROVE  Scheduled(media) \in Media /\ Scheduled(media).status = "queued"
  <1>1. media.rev + 1 \in 0..MaxRev
    BY PipelineAssumption DEF Media
  <1>2. QED BY <1>1 DEF Scheduled, Media, Statuses, Blocking, InProgress

LEMMA MirrorTyped ==
  ASSUME NEW s \in Isos, NEW media \in Media
  PROVE  Mirror(s, media) \in Rows
  BY DEF Mirror, Mirrors, Rows

LEMMA NoMirrorTyped == NoMirror \in Rows
  BY NoMediaTyped DEF NoMirror, Mirrors, Rows

LEMMA SyncedTyped ==
  ASSUME RowsKnown, NEW s \in Isos, NEW media \in Media
  PROVE  Synced(s, media) \in [Templates -> Rows]
  BY MirrorTyped DEF Synced, RowsKnown

LEMMA NoJobTyped == NoJob \in Jobs /\ NoJob.phase = "idle"
  BY NoMediaTyped, Numbers DEF NoJob, Jobs, Phases

LEMMA NoEditTyped == NoEdit \in [iso : Isos \union {NoIso}, seen : Media]
  BY NoMediaTyped DEF NoEdit

LEMMA NoFormTyped ==
  NoForm \in [tpl : Templates \union {NoIso}, seen : Mirrors]
  BY NoMirrorTyped DEF NoForm, Rows

LEMMA NoAttemptTyped == NoAttempt \in Attempts
  BY Numbers DEF NoAttempt, Attempts

LEMMA CollectedTyped ==
  ASSUME TypeOK, NEW s, NEW keep
  PROVE  Collected(s, keep) \in [Isos -> [Revs -> Damaged..MaxFile]]
  <1> DEFINE left == [r \in Revs |-> IF r \in keep THEN trees[s][r] ELSE NoTree]
  <1>1. s \in Isos => left \in [Revs -> Damaged..MaxFile]
    BY Numbers DEF TypeOK
  <1>2. Collected(s, keep) = [trees EXCEPT ![s] = left]
    BY DEF Collected
  <1> HIDE DEF left
  <1>3. QED BY <1>1, <1>2 DEF TypeOK

LEMMA RecoveredTyped ==
  ASSUME TypeOK, NEW s \in Isos
  PROVE  Recovered(s) \in Media
  <1>1. iso[s] \in Media
    BY DEF TypeOK
  <1>2. [iso[s] EXCEPT !.status = "queued"] \in Media
    BY <1>1 DEF Media, Statuses, Blocking, InProgress
  <1>3. QED BY <1>1, <1>2, ScheduledTyped DEF Recovered, NeedsBackfill
-----------------------------------------------------------------------------
(* Actions.  Jobs stay held because the worker's ISO only ever gets another *)
(* in-progress status from the others.                                     *)

LEMMA InitPipelineInv == Init => PipelineInv
  <1> SUFFICES ASSUME Init PROVE PipelineInv
    OBVIOUS
  <1>1. TypeOK
    BY NoMediaTyped, NoJobTyped, NoEditTyped, NoFormTyped, NoMirrorTyped,
       NoAttemptTyped, Numbers
    DEF Init, TypeOK, Jobs, Rows
  <1>2. JobHeld /\ EditKnown /\ RowsKnown
    BY NoJobTyped, NoMirrorTyped DEF Init, JobHeld, EditKnown, RowsKnown
  <1>3. QED BY <1>1, <1>2 DEF PipelineInv

LEMMA UploadTyped ==
  ASSUME TypeOK, NEW s, Upload(s)
  PROVE  /\ uploads' \in 0..MaxFile
         /\ file' \in [Isos -> 0..MaxFile]
         /\ NewFile \in 0..MaxFile
  <1>1. NewFile \in 0..MaxFile
    BY PipelineAssumption DEF NewFile, Upload, TypeOK
  <1>2. QED BY <1>1 DEF Upload, TypeOK

LEMMA IsoStepInv ==
  ASSUME PipelineInv, NEW s \in Isos, IsoStep(s)
  PROVE  PipelineInv'
  <1> USE DEF PipelineInv
  <1>0. iso[s] \in Media /\ (worker.iso = s /\ worker.phase # "idle" => Busy(s))
    BY DEF TypeOK, JobHeld, Busy
  <1>1. ASSUME NEW media \in Media, iso' = [iso EXCEPT ![s] = media],
               worker.iso = s /\ worker.phase # "idle"
                   => media.status \in InProgress,
               worker' = worker
        PROVE  iso' \in [Isos -> Media] /\ JobHeld'
    BY <1>1 DEF TypeOK, JobHeld
  <1>2. ASSUME NEW withFile \in BOOLEAN, IsosCreate(s, withFile)
        PROVE  PipelineInv'
    <2>1. ~Exists(s) /\ (worker.iso = s => worker.phase = "idle")
      BY <1>0, <1>2, PipelineAssumption
      DEF IsosCreate, NextIsoId, Exists, Busy, InProgress
    <2>2. CASE withFile
      <3> DEFINE new == UpdatedIso(CreatedIso, TRUE)
      <3>1. /\ uploads' \in 0..MaxFile /\ NewFile \in 0..MaxFile
            /\ file' \in [Isos -> 0..MaxFile]
        BY <1>2, <2>2, UploadTyped DEF IsosCreate
      <3>2. new \in Media /\ new.rev < MaxRev
        BY <3>1, CreatedIsoTyped, PipelineAssumption DEF UpdatedIso, Media
      <3>3. iso' = [iso EXCEPT ![s] = Scheduled(new)]
        BY <1>2, <2>2 DEF IsosCreate
      <3> HIDE DEF new
      <3>4. iso' \in [Isos -> Media] /\ JobHeld'
        BY <1>1, <1>2, <2>1, <3>2, <3>3, ScheduledTyped DEF IsosCreate
      <3>5. QED BY <1>2, <3>1, <3>4 DEF IsosCreate, TypeOK, EditKnown, RowsKnown, Rows
    <2>3. CASE ~withFile
      <3>1. CreatedIso \in Media
        BY CreatedIsoTyped
      <3>2. iso' \in [Isos -> Media] /\ JobHeld'
        BY <1>1, <1>2, <2>1, <2>3, <3>1 DEF IsosCreate
      <3>3. QED
        BY <1>2, <2>3, <3>2 DEF IsosCreate, NoUpload, TypeOK, EditKnown, RowsKnown, Rows
    <2>4. QED BY <2>2, <2>3
  <1>3. ASSUME IsosUpdateBegin(s) PROVE PipelineInv'
    <2>1. edit' \in [iso : Isos \union {NoIso}, seen : Media] /\ edit'.iso = s
      BY <1>0, <1>3 DEF IsosUpdateBegin
    <2>2. QED BY <1>3, <2>1 DEF IsosUpdateBegin, TypeOK, JobHeld, EditKnown, RowsKnown, Rows
  <1>4. ASSUME IsoRetryExtract(s) PROVE PipelineInv'
    <2>1. /\ Scheduled(iso[s]) \in Media
          /\ Scheduled(iso[s]).status \in InProgress
      BY <1>0, <1>4, ScheduledTyped DEF IsoRetryExtract, InProgress
    <2>2. iso' \in [Isos -> Media] /\ JobHeld'
      BY <1>1, <1>4, <2>1 DEF IsoRetryExtract, SaveIso
    <2>3. tpl' \in [Templates -> Rows]
      BY <1>4, <2>1, SyncedTyped DEF IsoRetryExtract, SaveIso
    <2>4. QED
      BY <1>4, <2>2, <2>3 DEF IsoRetryExtract, TypeOK, EditKnown, RowsKnown, Rows
  <1>5. ASSUME IsoDelete(s) PROVE PipelineInv'
    <2>1. worker.iso = s => worker.phase = "idle"
      BY <1>0, <1>5 DEF IsoDelete, DeleteIso
    <2>2. iso' \in [Isos -> Media] /\ JobHeld'
      BY <1>1, <1>5, <2>1, NoMediaTyped DEF IsoDelete, DeleteIso
    <2>3. QED BY <1>5, <2>2 DEF IsoDelete, DeleteIso, TypeOK, EditKnown, RowsKnown, Rows
  <1>6. ASSUME RemoveIsoTree(s) PROVE PipelineInv'
    <2>1. /\ file' \in [Isos -> 0..MaxFile]
          /\ trees' \in [Isos -> [Revs -> Damaged..MaxFile]]
      BY <1>6, Numbers DEF RemoveIsoTree, TypeOK
    <2>2. QED
      BY <1>6, <2>1 DEF RemoveIsoTree, TypeOK, JobHeld, EditKnown, RowsKnown, Rows
  <1>7. ASSUME FilesDelete(s) PROVE PipelineInv'
    <2>1. file' \in [Isos -> 0..MaxFile]
      BY <1>7, Numbers DEF FilesDelete, TypeOK
    <2>2. QED BY <1>7, <2>1 DEF FilesDelete, TypeOK, JobHeld, EditKnown, RowsKnown, Rows
  <1>8. QED
    BY <1>2, <1>3, <1>4, <1>5, <1>6, <1>7 DEF IsoStep

(***************************************************************************)
(* An edit may write a row that has moved on, but only to "queued".        *)
(***************************************************************************)
LEMMA EditStepInv ==
  ASSUME PipelineInv, EditStep
  PROVE  PipelineInv'
  <1> USE DEF PipelineInv
  <1>0. edit.seen \in Media
    BY DEF TypeOK
  <1>1. ASSUME NEW withFile \in BOOLEAN,
               IF withFile THEN Upload(edit.iso) ELSE NoUpload
        PROVE  uploads' \in 0..MaxFile /\ file' \in [Isos -> 0..MaxFile]
    BY <1>1, UploadTyped DEF NoUpload, TypeOK
  <1>2. ASSUME NEW withFile \in BOOLEAN, IsosUpdateSave(withFile)
        PROVE  PipelineInv'
    <2> DEFINE s == edit.iso
               mine == IF withFile
                       THEN Scheduled([edit.seen EXCEPT !.accepted = NewFile])
                       ELSE edit.seen
    <2>1. s \in Isos /\ edit' = NoEdit
      BY <1>2 DEF IsosUpdateSave, EditKnown, RowsKnown, Rows
    <2>2. mine \in Media /\ (withFile => mine.status = "queued")
      <3>1. CASE withFile
        <4> DEFINE posted == [edit.seen EXCEPT !.accepted = NewFile]
        <4>1. NewFile \in 0..MaxFile
          BY <1>2, <3>1, UploadTyped DEF IsosUpdateSave
        <4>2. posted \in Media /\ posted.rev < MaxRev
          BY <1>0, <1>2, <3>1, <4>1 DEF IsosUpdateSave, Media
        <4>3. mine = Scheduled(posted)
          BY <3>1
        <4> HIDE DEF posted
        <4>4. QED BY <4>2, <4>3, ScheduledTyped
      <3>2. QED BY <1>0, <3>1
    <2>3. /\ iso' \in {iso, [iso EXCEPT ![s].status = mine.status,
                                        ![s].rev = mine.rev,
                                        ![s].accepted = mine.accepted]}
          /\ iso' # iso => withFile
          /\ tpl' \in {tpl, Synced(s, mine)}
      BY <1>2 DEF IsosUpdateSave, UpdatedIso
    <2> HIDE DEF mine, s
    <2>4. iso' \in [Isos -> Media]
      <3>1. CASE iso' = iso
        BY <3>1 DEF TypeOK
      <3>2. CASE iso' = [iso EXCEPT ![s].status = mine.status,
                                    ![s].rev = mine.rev,
                                    ![s].accepted = mine.accepted]
        BY <2>1, <2>2, <3>2 DEF TypeOK, Media
      <3>3. QED BY <2>3, <3>1, <3>2
    <2>5. tpl' \in [Templates -> Rows]
      BY <2>1, <2>2, <2>3, SyncedTyped DEF RowsKnown
    <2>6. JobHeld'
      <3>1. worker' = worker
        BY <1>2 DEF IsosUpdateSave, UpdatedIso
      <3>2. CASE iso' = iso
        BY <3>1, <3>2 DEF JobHeld
      <3>3. CASE iso' # iso
        <4>1. \A z \in Isos : iso'[z].status = iso[z].status
                                  \/ iso'[z].status = "queued"
          <5>1. /\ iso' = [iso EXCEPT ![s].status = mine.status,
                                      ![s].rev = mine.rev,
                                      ![s].accepted = mine.accepted]
                /\ mine.status = "queued"
            BY <2>2, <2>3, <3>3
          <5>2. iso \in [Isos -> Media]
            BY DEF TypeOK
          <5> HIDE DEF PipelineInv
          <5>3. QED BY <2>1, <5>1, <5>2 DEF Media
        <4>2. QED BY <3>1, <4>1 DEF JobHeld, InProgress
      <3>4. QED BY <3>2, <3>3
    <2>7. uploads' \in 0..MaxFile /\ file' \in [Isos -> 0..MaxFile]
      BY <1>1, <1>2 DEF IsosUpdateSave, s
    <2>8. QED
      BY <1>2, <2>1, <2>4, <2>5, <2>6, <2>7, NoEditTyped
      DEF IsosUpdateSave, TypeOK, EditKnown, RowsKnown, Rows
  <1>3. ASSUME NEW withFile \in BOOLEAN, IsosUpdateRefused(withFile)
        PROVE  PipelineInv'
    <2>1. uploads' \in 0..MaxFile /\ file' \in [Isos -> 0..MaxFile]
      BY <1>1, <1>3 DEF IsosUpdateRefused
    <2>2. QED
      BY <1>3, <2>1, NoEditTyped
      DEF IsosUpdateRefused, TypeOK, JobHeld, EditKnown, RowsKnown, Rows
  <1>4. QED BY <1>2, <1>3 DEF EditStep

LEMMA RowSavedInv ==
  ASSUME PipelineInv, NEW t \in Templates, NEW row \in Rows,
         tpl' = [tpl EXCEPT ![t] = row], form' \in {form, NoForm},
         UNCHANGED <<kind, uploads, file, iso, trees, att, worker, edit,
                     removing>>
  PROVE  PipelineInv'
  <1>1. tpl' \in [Templates -> Rows]
    BY DEF PipelineInv, RowsKnown
  <1>2. form' \in [tpl : Templates \union {NoIso}, seen : Mirrors]
    BY NoFormTyped DEF PipelineInv, TypeOK
  <1>3. QED
    BY <1>1, <1>2 DEF PipelineInv, TypeOK, JobHeld, EditKnown, RowsKnown, Rows

LEMMA TemplateStepInv ==
  ASSUME PipelineInv, NEW t \in Templates, TemplateStep(t)
  PROVE  PipelineInv'
  <1> USE DEF PipelineInv
  <1>1. ASSUME NEW s \in Isos, TemplatesCreate(t, s) PROVE PipelineInv'
    <2>1. Mirror(s, iso[s]) \in Rows
      BY MirrorTyped DEF TypeOK
    <2>2. QED BY <1>1, <2>1, RowSavedInv DEF TemplatesCreate
  <1>2. ASSUME TemplatesUpdateBegin(t) PROVE PipelineInv'
    <2>1. tpl[t] \in Mirrors
      BY DEF TypeOK
    <2>2. /\ form' \in [tpl : Templates \union {NoIso}, seen : Mirrors]
          /\ form'.tpl \in Templates
      BY <1>2, <2>1 DEF TemplatesUpdateBegin
    <2>3. QED
      BY <1>2, <2>2
      DEF TemplatesUpdateBegin, TypeOK, JobHeld, EditKnown, RowsKnown, Rows
  <1>3. ASSUME ImageDelete(t) PROVE PipelineInv'
    BY <1>3, NoMirrorTyped, RowSavedInv DEF ImageDelete
  <1>4. QED BY <1>1, <1>2, <1>3 DEF TemplateStep

(***************************************************************************)
(* Every column of a saved row comes from a typed row.                     *)
(***************************************************************************)
LEMMA SavedTyped ==
  ASSUME NEW row \in Rows, row.iso # NoIso, NEW seen \in Mirrors,
         NEW s \in Isos, NEW media \in Media
  PROVE  Saved(row, seen, s, media) \in Rows
  <1> DEFINE Column(c) == IF media[c] = seen.media[c] THEN row.media[c]
                          ELSE media[c]
             samePaths == /\ media.gen = seen.media.gen
                          /\ media.gen = 0 \/ s = seen.from
             of == IF samePaths /\ row.media.gen # 0 THEN row.from ELSE s
             gen == IF samePaths THEN row.media.gen ELSE media.gen
             id == IF s = seen.iso THEN row.iso ELSE s
             mixed == row # seen /\ (row.mixed \/ s # row.iso)
  <1>1. row \in Mirrors /\ row.iso \in Isos /\ row.from \in Isos
    BY DEF Rows, Mirrors
  <1>2. row.media \in Media
    BY <1>1 DEF Mirrors
  <1>3. /\ Column("status") \in Statuses /\ Column("rev") \in 0..MaxRev
        /\ Column("accepted") \in 0..MaxFile
    BY <1>2 DEF Media
  <1>4. gen \in 0..MaxRev
    BY <1>2 DEF Media
  <1>5. id \in Isos /\ of \in Isos
    BY <1>1
  <1>6. mixed \in BOOLEAN
    BY <1>1 DEF Mirrors
  <1>7. Saved(row, seen, s, media) =
            [iso |-> id, from |-> of,
             media |-> [status |-> Column("status"), rev |-> Column("rev"),
                        gen |-> gen, accepted |-> Column("accepted")],
             mixed |-> mixed]
    BY DEF Saved
  <1> HIDE DEF Column, samePaths, of, gen, id, mixed
  <1>8. [status |-> Column("status"), rev |-> Column("rev"), gen |-> gen,
         accepted |-> Column("accepted")] \in Media
    BY <1>3, <1>4 DEF Media
  <1>9. QED BY <1>5, <1>6, <1>7, <1>8 DEF Rows, Mirrors

LEMMA FormStepInv ==
  ASSUME PipelineInv, FormStep
  PROVE  PipelineInv'
  <1> USE DEF PipelineInv
  <1>1. ASSUME NEW s \in Isos, TemplatesUpdateSave(s) PROVE PipelineInv'
    <2>1. form.tpl \in Templates /\ tpl[form.tpl].iso # NoIso
      BY <1>1 DEF TemplatesUpdateSave, EditKnown
    <2>2. /\ tpl[form.tpl] \in Rows /\ form.seen \in Mirrors
          /\ iso[s] \in Media
      BY <2>1 DEF TypeOK, RowsKnown
    <2>3. Saved(tpl[form.tpl], form.seen, s, iso[s]) \in Rows
      BY <2>1, <2>2, SavedTyped
    <2>4. QED BY <1>1, <2>1, <2>3, RowSavedInv DEF TemplatesUpdateSave
  <1>2. ASSUME TemplatesUpdateRefused PROVE PipelineInv'
    BY <1>2, NoFormTyped
    DEF TemplatesUpdateRefused, TypeOK, JobHeld, EditKnown, RowsKnown, Rows
  <1>3. QED BY <1>1, <1>2 DEF FormStep

LEMMA InstallStepInv ==
  ASSUME PipelineInv, NEW m \in Machines, InstallStep(m)
  PROVE  PipelineInv'
  <1> USE DEF PipelineInv
  <1>1. ASSUME NEW t \in Templates, Install(m, t) PROVE PipelineInv'
    <2> DEFINE s == tpl[t].from
               media == tpl[t].media
               pinned == IF media.gen = 0 THEN NoTree ELSE trees[s][media.gen]
               new == [open |-> TRUE, tpl |-> t, iso |-> s, rev |-> media.rev,
                       gen |-> media.gen, pinned |-> pinned,
                       mixed |-> tpl[t].mixed]
    <2>0. tpl[t] \in Rows /\ tpl[t].iso # NoIso
      BY <1>1 DEF Install, Deployable, RowsKnown
    <2>1. /\ s \in Isos /\ media.rev \in 0..MaxRev /\ media.gen \in 0..MaxRev
          /\ tpl[t].mixed \in BOOLEAN
      BY <2>0 DEF Rows, Mirrors, Media
    <2>2. pinned \in Damaged..MaxFile
      <3>1. media.gen # 0 => media.gen \in Revs
        BY <2>1, PipelineAssumption DEF Revs
      <3>2. QED BY <2>1, <3>1, Numbers DEF TypeOK
    <2>3. att' = [att EXCEPT ![m] = new]
      BY <1>1 DEF Install
    <2> HIDE DEF s, media, pinned
    <2>4. att' \in [Machines -> Attempts]
      BY <2>1, <2>2, <2>3 DEF TypeOK, Attempts
    <2>5. QED BY <1>1, <2>4 DEF Install, TypeOK, JobHeld, EditKnown, RowsKnown, Rows
  <1>2. ASSUME MarkDeployed(m) PROVE PipelineInv'
    <2>1. att' \in [Machines -> Attempts]
      BY <1>2, NoAttemptTyped DEF MarkDeployed, TypeOK
    <2>2. trees' \in [Isos -> [Revs -> Damaged..MaxFile]]
      BY <1>2, CollectedTyped DEF MarkDeployed
    <2>3. worker' \in Jobs /\ worker'.phase = worker.phase
            /\ worker'.iso = worker.iso
      BY <1>2 DEF MarkDeployed, TypeOK, Jobs
    <2>4. QED
      BY <1>2, <2>1, <2>2, <2>3
      DEF MarkDeployed, TypeOK, JobHeld, EditKnown, RowsKnown, Rows, Jobs
  <1>3. ASSUME InstallDropped(m) PROVE PipelineInv'
    <2>1. att' \in [Machines -> Attempts]
      BY <1>3, NoAttemptTyped DEF InstallDropped, TypeOK
    <2>2. QED BY <1>3, <2>1 DEF InstallDropped, TypeOK, JobHeld, EditKnown, RowsKnown, Rows
  <1>4. QED
    BY <1>1, <1>2, <1>3 DEF InstallStep, InstallEnds, HandOut

(***************************************************************************)
(* The worker's own steps.                                                 *)
(***************************************************************************)
LEMMA WorkerInv ==
  ASSUME PipelineInv, WorkerStep \/ WorkerRestart
  PROVE  PipelineInv'
  <1> USE DEF PipelineInv
  <1>0. worker \in Jobs
    BY DEF TypeOK, Jobs
  <1>1. ASSUME NEW s \in Isos, ClaimNextJob(s) PROVE PipelineInv'
    <2>1. iso' \in [Isos -> Media] /\ iso'[s].status = "extracting"
      BY <1>1 DEF ClaimNextJob, TypeOK, Media, Statuses, Blocking, InProgress
    <2> DEFINE claimed(media) == [media EXCEPT !.status = "extracting"]
               claim(t) == [tpl[t] EXCEPT !.media = claimed(tpl[t].media)]
    <2>2. tpl' \in [Templates -> Rows]
      <3>1. ASSUME NEW media \in Media PROVE claimed(media) \in Media
        BY DEF Media, Statuses, Blocking, InProgress
      <3>2. ASSUME NEW t \in Templates
            PROVE  tpl[t] \in Rows /\ claim(t) \in Rows
        <4>1. tpl[t] \in Rows
          BY DEF RowsKnown
        <4>2. claimed(tpl[t].media) \in Media
          BY <3>1, <4>1 DEF Rows, Mirrors
        <4> HIDE DEF claimed
        <4>3. QED BY <4>1, <4>2 DEF Rows, Mirrors
      <3>3. tpl' = [t \in Templates |->
                       IF tpl[t].iso = s THEN claim(t) ELSE tpl[t]]
        BY <1>1 DEF ClaimNextJob
      <3> HIDE DEF claim
      <3>4. QED BY <3>2, <3>3
    <2> HIDE DEF claimed, claim
    <2>3. worker' \in Jobs /\ worker'.iso = s
      BY <1>1, NoJobTyped DEF ClaimNextJob, TypeOK, Jobs, Media, Phases, NoJob
    <2>4. QED
      BY <1>1, <2>1, <2>2, <2>3
      DEF ClaimNextJob, TypeOK, JobHeld, EditKnown, RowsKnown, Rows, InProgress, Jobs
  <1>2. ASSUME NEW media \in Media, worker' = NoJob,
               SaveIso(worker.iso, media), worker.phase # "idle",
               UNCHANGED <<kind, uploads, file, trees, att, edit, form, removing>>
        PROVE  PipelineInv'
    <2>1. iso' \in [Isos -> Media]
      BY <1>2 DEF SaveIso, TypeOK
    <2>2. tpl' \in [Templates -> Rows]
      BY <1>2, SyncedTyped DEF SaveIso, JobHeld
    <2>3. QED
      BY <1>2, <2>1, <2>2, NoJobTyped
      DEF TypeOK, JobHeld, EditKnown, RowsKnown, Rows, Jobs
  <1>3. ASSUME StartJob PROVE PipelineInv'
    <2> DEFINE s == worker.iso
    <2>0. s \in Isos /\ worker.phase = "claimed"
      BY <1>3 DEF StartJob, JobHeld
    <2>1. CASE worker' = NoJob /\ UNCHANGED <<iso, tpl>>
      BY <1>3, <2>1, NoJobTyped
      DEF StartJob, TypeOK, JobHeld, EditKnown, RowsKnown, Rows, Jobs
    <2>2. CASE worker' = NoJob
               /\ SaveIso(s, [iso[s] EXCEPT !.status = "idle"])
      <3>1. [iso[s] EXCEPT !.status = "idle"] \in Media
        BY <2>0 DEF TypeOK, Media, Statuses
      <3>2. QED BY <1>2, <1>3, <2>0, <2>2, <3>1 DEF StartJob
    <2>3. CASE /\ worker' = [worker EXCEPT !.phase = "unpacking",
                                           !.seen = iso[s],
                                           !.source = file[s]]
               /\ UNCHANGED <<iso, tpl>>
      <3>1. worker' \in Jobs /\ worker'.iso = worker.iso
        BY <1>0, <2>0, <2>3 DEF Jobs, TypeOK, Phases
      <3>2. QED
        BY <1>3, <2>0, <2>3, <3>1
        DEF StartJob, TypeOK, JobHeld, EditKnown, RowsKnown, Rows, Jobs
    <2>4. QED BY <1>3, <2>1, <2>2, <2>3 DEF StartJob
  <1>4. ASSUME Publish PROVE PipelineInv'
    <2> DEFINE tree == IF worker.hit THEN Damaged ELSE worker.source
    <2>1. tree \in Damaged..MaxFile
      BY <1>0, PipelineAssumption DEF Jobs, Damaged
    <2>2. trees' \in {trees, [trees EXCEPT ![worker.iso][worker.rev] = tree]}
      BY <1>4 DEF Publish, Published
    <2> HIDE DEF tree
    <2>3. trees' \in [Isos -> [Revs -> Damaged..MaxFile]]
      <3> DEFINE shelf == [trees[worker.iso] EXCEPT ![worker.rev] = tree]
      <3>1. worker.iso \in Isos
        BY <1>4 DEF Publish, JobHeld
      <3>2. shelf \in [Revs -> Damaged..MaxFile]
        BY <2>1, <3>1 DEF TypeOK
      <3>3. trees' \in {trees, [trees EXCEPT ![worker.iso] = shelf]}
        BY <2>2
      <3> HIDE DEF shelf
      <3>4. QED BY <3>1, <3>2, <3>3 DEF TypeOK
    <2>4. worker' \in Jobs /\ worker'.iso = worker.iso
      BY <1>0, <1>4 DEF Publish, Jobs, Phases
    <2>5. QED
      BY <1>4, <2>3, <2>4 DEF Publish, TypeOK, JobHeld, EditKnown, RowsKnown, Rows, Jobs
  <1>5. ASSUME NEW media \in Media, WriteBack(media), worker.phase # "idle",
               UNCHANGED <<kind, uploads, file, trees, att, edit, form, removing>>
        PROVE  PipelineInv'
    <2>1. worker.iso \in Isos
      BY <1>5 DEF JobHeld
    <2>2. iso' \in [Isos -> Media]
      BY <1>5, <2>1 DEF WriteBack, TypeOK, Media
    <2>3. tpl' \in [Templates -> Rows]
      BY <1>5, <2>1, SyncedTyped DEF WriteBack
    <2>4. QED
      BY <1>5, <2>2, <2>3, NoJobTyped
      DEF WriteBack, TypeOK, JobHeld, EditKnown, RowsKnown, Rows, Jobs
  <1>6. ASSUME MarkFailed PROVE PipelineInv'
    <2>1. [worker.seen EXCEPT !.status = "failed"] \in Media
      BY <1>0 DEF Jobs, Media, Statuses, Blocking
    <2>2. QED BY <1>5, <1>6, <2>1 DEF MarkFailed
  <1>7. ASSUME CollectGenerations PROVE PipelineInv'
    <2>1. trees' \in [Isos -> [Revs -> Damaged..MaxFile]]
      BY <1>7, CollectedTyped DEF CollectGenerations
    <2>2. worker' \in Jobs /\ worker'.iso = worker.iso
      BY <1>0, <1>7 DEF CollectGenerations, Jobs, Phases
    <2>3. QED
      BY <1>7, <2>1, <2>2
      DEF CollectGenerations, TypeOK, JobHeld, EditKnown, RowsKnown, Rows, Jobs
  <1>8. ASSUME FinishJob PROVE PipelineInv'
    <2> DEFINE gen == IF kind[worker.source] = "plain" THEN 0 ELSE worker.rev
    <2>1. gen \in 0..MaxRev
      BY <1>0, Numbers DEF Jobs
    <2>2. WriteBack([worker.seen EXCEPT !.status = "ready", !.gen = gen])
      BY <1>8 DEF FinishJob
    <2> HIDE DEF gen
    <2>3. [worker.seen EXCEPT !.status = "ready", !.gen = gen] \in Media
      BY <1>0, <2>1 DEF Jobs, Media, Statuses
    <2>4. QED BY <1>5, <1>8, <2>2, <2>3 DEF FinishJob
  <1>9. ASSUME WorkerRestart PROVE PipelineInv'
    <2>1. iso' \in [Isos -> Media]
      BY <1>9, RecoveredTyped DEF WorkerRestart
    <2>2. tpl' \in [Templates -> Rows]
      <3>1. \A t \in Templates : tpl[t].iso # NoIso => tpl[t].iso \in Isos
        BY DEF TypeOK, Mirrors
      <3>2. \A t \in Templates : tpl[t].iso # NoIso
                => Mirror(tpl[t].iso, Recovered(tpl[t].iso)) \in Rows
        BY <3>1, MirrorTyped, RecoveredTyped
      <3>3. QED BY <1>9, <3>2 DEF WorkerRestart, RowsKnown
    <2>3. QED
      BY <1>9, <2>1, <2>2, NoJobTyped
      DEF WorkerRestart, TypeOK, JobHeld, EditKnown, RowsKnown, Rows, Jobs
  <1>10. QED
    BY <1>1, <1>3, <1>4, <1>6, <1>7, <1>8, <1>9 DEF WorkerStep

LEMMA NextPipelineInv == PipelineInv /\ [Next]_vars => PipelineInv'
  <1>1. ASSUME PipelineInv, UNCHANGED vars PROVE PipelineInv'
    BY <1>1 DEF vars, PipelineInv, TypeOK, JobHeld, EditKnown, RowsKnown, Rows
  <1>2. QED
    BY <1>1, IsoStepInv, EditStepInv, TemplateStepInv, FormStepInv, InstallStepInv,
       WorkerInv DEF Next

LEMMA AlwaysPipelineInv == Spec => []PipelineInv
  BY InitPipelineInv, NextPipelineInv, PTL DEF Spec
-----------------------------------------------------------------------------
(***************************************************************************)
(* Type correctness of the extraction pipeline: rows, trees, attempts, the *)
(* worker's job and the edit that waits, whatever overlaps.                *)
(***************************************************************************)
THEOREM PipelineTypeCorrect == Spec => []TypeOK
  BY AlwaysPipelineInv, PTL DEF PipelineInv

(***************************************************************************)
(* Under every hazard, no request takes the ISO of a running extraction    *)
(* out of progress: it cannot be deleted, and its status keeps retries and *)
(* new edits away until the worker commits.                                *)
(***************************************************************************)
THEOREM JobsStayInProgress == Spec => []JobStaysInProgress
  <1>1. PipelineInv => JobStaysInProgress
    BY DEF PipelineInv, JobHeld, JobStaysInProgress, Exists, Busy, InProgress
  <1>2. QED BY <1>1, AlwaysPipelineInv, PTL
-----------------------------------------------------------------------------
(* One careful operator: none of the hazards *)

Careful == Hazards = {}

\* The row an edit has read is still the row.
EditHolds ==
    edit # NoEdit =>
        Exists(edit.iso) /\ ~Busy(edit.iso) /\ edit.seen = iso[edit.iso]

TemplatesHold ==
    \A t \in Templates :
        tpl[t].iso # NoIso =>
            /\ Exists(tpl[t].iso)
            /\ ~tpl[t].mixed => tpl[t] = Mirror(tpl[t].iso, iso[tpl[t].iso])

\* A ready row points to its current tree, made of the file accepted last.
MediaHold ==
    \A s \in Isos :
        /\ file[s] <= uploads
        /\ Exists(s) =>
               /\ iso[s].accepted <= file[s]
               /\ iso[s].status = "idle" => iso[s].gen = 0
               /\ iso[s].status # "idle" => iso[s].rev # 0 /\ iso[s].accepted # 0
               /\ iso[s].status = "ready" /\ iso[s].gen # 0 =>
                      /\ iso[s].gen = iso[s].rev
                      /\ trees[s][iso[s].rev] >= iso[s].accepted

\* The row of the job is as the worker read it, and so is what it published.
JobHolds ==
    LET s == worker.iso
    IN  worker.phase # "idle" =>
            /\ iso[s].status = "extracting" /\ iso[s].rev = worker.rev
            /\ ~worker.hit
            /\ worker.phase # "claimed" =>
                   worker.seen = iso[s] /\ worker.source >= iso[s].accepted
            /\ worker.phase \in {"published", "collected"}
                   /\ kind[worker.source] # "plain" =>
                   trees[s][worker.rev] = worker.source

\* A pinned tree is current, or older than the one that is being made.
InstallsHold ==
    \A m \in Machines :
        LET a == att[m]
        IN  a.open =>
                /\ a.tpl \in Templates /\ tpl[a.tpl].iso # NoIso
                /\ ~a.mixed => tpl[a.tpl].iso = a.iso
                /\ ~a.mixed /\ a.gen # 0 =>
                       /\ a.rev = a.gen
                       /\ a.gen <= iso[a.iso].rev
                       /\ iso[a.iso].status # "ready" => a.gen < iso[a.iso].rev
                       /\ a.pinned \in Files
                       /\ trees[a.iso][a.gen] = a.pinned

RemovedHold == \A s \in removing : ~Exists(s)
(***************************************************************************)
(* The inductive invariant without hazards: whoever has read a row and     *)
(* writes it later keeps the others off it by its status or its edit, so   *)
(* nobody writes what is out of date; revisions only grow, so a new tree   *)
(* is never put in the place of one that is pinned.                        *)
(***************************************************************************)
CarefulInv ==
    /\ EditHolds /\ TemplatesHold /\ MediaHold
    /\ JobHolds /\ InstallsHold /\ RemovedHold

LEMMA Typed ==
  ASSUME PipelineInv
  PROVE  /\ \A s \in Isos : iso[s] \in Media /\ file[s] \in 0..MaxFile
         /\ \A s \in Isos, r \in Revs : trees[s][r] \in Damaged..MaxFile
         /\ \A t \in Templates : tpl[t] \in Mirrors /\ tpl[t] \in Rows
         /\ \A m \in Machines : att[m] \in Attempts
         /\ worker \in Jobs
         /\ edit \in [iso : Isos \union {NoIso}, seen : Media]
         /\ uploads \in 0..MaxFile
         /\ MaxRev \in Nat /\ MaxFile \in Nat
  BY PipelineAssumption DEF PipelineInv, TypeOK, Jobs, RowsKnown

LEMMA InitCareful == Init => CarefulInv
  <1> SUFFICES ASSUME Init PROVE CarefulInv
    OBVIOUS
  <1>1. EditHolds /\ TemplatesHold /\ RemovedHold
    BY DEF Init, EditHolds, TemplatesHold, RemovedHold, NoMirror
  <1>2. MediaHold
    BY DEF Init, MediaHold, Exists, NoMedia
  <1>3. JobHolds /\ InstallsHold
    BY DEF Init, JobHolds, InstallsHold, NoJob, NoAttempt
  <1> QED BY <1>1, <1>2, <1>3 DEF CarefulInv

(***************************************************************************)
(* The row of s is replaced, and nothing else that the others rely on: no  *)
(* edit, job or deletion is under way on it, and its installs stay older.  *)
(***************************************************************************)
LEMMA RowReplaced ==
  ASSUME PipelineInv, PipelineInv', CarefulInv, NEW s \in Isos, NEW media \in Media,
         iso' = [iso EXCEPT ![s] = media],
         edit' \in {edit, NoEdit}, edit'.iso # s,
         worker' = worker, worker.phase # "idle" => worker.iso # s,
         removing' = removing, s \notin removing,
         UNCHANGED <<kind, trees, att>>
  PROVE  EditHolds' /\ JobHolds' /\ RemovedHold'
  <1>1. \A z \in Isos : z # s => iso'[z] = iso[z]
    BY DEF PipelineInv, TypeOK
  <1>2. EditHolds'
    BY <1>1 DEF EditHolds, CarefulInv, Exists, Busy, PipelineInv, EditKnown
  <1>3. JobHolds'
    BY <1>1 DEF JobHolds, CarefulInv, PipelineInv, JobHeld
  <1>4. RemovedHold'
    BY <1>1 DEF RemovedHold, CarefulInv, Exists, PipelineInv, TypeOK
  <1> QED BY <1>2, <1>3, <1>4

LEMMA RowSynced ==
  ASSUME PipelineInv, CarefulInv, NEW s \in Isos, NEW media \in Media,
         SaveIso(s, media), media.status # "absent"
  PROVE  TemplatesHold' /\ \A t \in Templates : tpl'[t].iso = tpl[t].iso
  <1>1. /\ iso'[s] = media /\ \A z \in Isos : z # s => iso'[z] = iso[z]
        /\ tpl' = Synced(s, media)
    BY DEF SaveIso, PipelineInv, TypeOK
  <1>2. ASSUME NEW t \in Templates
        PROVE  /\ tpl'[t].iso = tpl[t].iso
               /\ tpl[t].iso = s => tpl'[t] = Mirror(s, media)
               /\ tpl[t].iso # s => tpl'[t] = tpl[t]
    BY <1>1 DEF Synced, Mirror
  <1>3. ASSUME NEW t \in Templates, tpl'[t].iso # NoIso
        PROVE  /\ iso'[tpl'[t].iso].status # "absent"
               /\ ~tpl'[t].mixed => tpl'[t] = Mirror(tpl'[t].iso, iso'[tpl'[t].iso])
    <2>1. tpl[t].iso \in Isos /\ tpl'[t].iso = tpl[t].iso
      BY <1>2, <1>3, Typed DEF Mirrors
    <2>2. CASE tpl[t].iso = s
      BY <1>1, <1>2, <2>1, <2>2
    <2>3. CASE tpl[t].iso # s
      <3>1. tpl'[t] = tpl[t] /\ iso'[tpl[t].iso] = iso[tpl[t].iso]
        BY <1>1, <1>2, <2>1, <2>3
      <3>2. /\ Exists(tpl[t].iso)
            /\ ~tpl[t].mixed => tpl[t] = Mirror(tpl[t].iso, iso[tpl[t].iso])
        BY <1>3, <2>1 DEF TemplatesHold, CarefulInv
      <3> QED BY <2>1, <3>1, <3>2 DEF Exists
    <2> QED BY <2>2, <2>3
  <1> QED BY <1>2, <1>3 DEF TemplatesHold, Exists

LEMMA RowOfMedia ==
  ASSUME PipelineInv, PipelineInv', CarefulInv, NEW s \in Isos, NEW media \in Media,
         iso' = [iso EXCEPT ![s] = media],
         \A z \in Isos : file'[z] <= uploads' /\ (z # s => file'[z] >= file[z]),
         trees' = trees,
         media.status # "absent" =>
             /\ media.accepted <= file'[s]
             /\ media.status = "idle" => media.gen = 0
             /\ media.status # "idle" => media.rev # 0 /\ media.accepted # 0
             /\ media.status = "ready" /\ media.gen # 0 =>
                    media.gen = media.rev /\ trees[s][media.rev] >= media.accepted
  PROVE  MediaHold'
  <1>1. iso'[s] = media /\ \A z \in Isos : z # s => iso'[z] = iso[z]
    BY DEF PipelineInv, TypeOK
  <1>2. ASSUME NEW z \in Isos, z # s, Exists(z)'
        PROVE  iso'[z].accepted <= file'[z]
    <2>1. iso[z].accepted <= file[z] /\ file[z] <= file'[z]
      BY <1>1, <1>2 DEF MediaHold, CarefulInv, Exists
    <2>2. iso[z].accepted \in Int /\ file[z] \in Int /\ file'[z] \in Int
      BY Typed DEF Media, PipelineInv, TypeOK
    <2> QED BY <1>1, <1>2, <2>1, <2>2
  <1> QED BY <1>1, <1>2 DEF MediaHold, CarefulInv, Exists

LEMMA RowOfInstalls ==
  ASSUME PipelineInv, CarefulInv, NEW s \in Isos, NEW media \in Media,
         iso' = [iso EXCEPT ![s] = media],
         \A t \in Templates : tpl'[t].iso = tpl[t].iso,
         UNCHANGED <<trees, att>>,
         \A m \in Machines :
             att[m].open /\ ~att[m].mixed /\ att[m].iso = s /\ att[m].gen # 0 =>
                 /\ att[m].gen <= media.rev
                 /\ media.status # "ready" => att[m].gen < media.rev
  PROVE  InstallsHold'
  <1>1. iso'[s] = media /\ \A z \in Isos : z # s => iso'[z] = iso[z]
    BY DEF PipelineInv, TypeOK
  <1> QED BY <1>1 DEF InstallsHold, CarefulInv

LEMMA IsoStepCareful ==
  ASSUME Careful, PipelineInv, PipelineInv', CarefulInv, NEW s \in Isos, IsoStep(s)
  PROVE  CarefulInv'
  <1> USE DEF CarefulInv
  <1>0. /\ worker.phase # "idle" => Exists(worker.iso) /\ Busy(worker.iso)
        /\ edit # NoEdit => edit.iso \in Isos /\ Exists(edit.iso)
        /\ \A m \in Machines : att[m].open =>
               /\ att[m].tpl \in Templates /\ tpl[att[m].tpl].iso # NoIso
               /\ ~att[m].mixed =>
                      /\ Exists(att[m].iso) /\ tpl[att[m].tpl].iso = att[m].iso
                      /\ att[m].iso \in Isos
    BY Typed, PipelineAssumption
    DEF Mirrors, JobHolds, EditHolds, PipelineInv, EditKnown, InstallsHold, TemplatesHold,
        Exists, Busy, InProgress
  <1>1. ASSUME NEW withFile \in BOOLEAN, IsosCreate(s, withFile)
        PROVE  CarefulInv'
    <2> DEFINE row == IF withFile
                      THEN Scheduled(UpdatedIso(CreatedIso, TRUE))
                      ELSE CreatedIso
    <2>1. /\ ~Exists(s) /\ edit.iso # s /\ s \notin removing
          /\ UNCHANGED <<kind, tpl, trees, att, worker, edit, form, removing>>
      BY <1>1, PipelineAssumption DEF IsosCreate, NextIsoId, Careful, Exists
    <2>2. /\ iso' = [iso EXCEPT ![s] = row] /\ row.status # "absent"
          /\ row.gen = 0 /\ row.accepted <= file'[s] /\ row.status # "ready"
          /\ row.status # "idle" => row.rev # 0 /\ row.accepted # 0
      <3>1. CASE withFile
        BY <1>1, <3>1, Typed
        DEF IsosCreate, CreatedIso, UpdatedIso, Scheduled, NoMedia, Upload,
            NewFile, PipelineInv, TypeOK
      <3>2. CASE ~withFile
        BY <1>1, <3>2, Typed DEF IsosCreate, CreatedIso, NoMedia, NoUpload
      <3> QED BY <3>1, <3>2
    <2> HIDE DEF row
    <2>3. row \in Media
      <3>1. iso'[s] = row /\ iso' \in [Isos -> Media]
        BY <2>2 DEF PipelineInv, TypeOK
      <3> QED BY <3>1
    <2>4. EditHolds' /\ JobHolds' /\ RemovedHold'
      BY <1>0, <2>1, <2>2, <2>3, RowReplaced
    <2>5. \A z \in Isos : file'[z] <= uploads' /\ (z # s => file'[z] >= file[z])
      <3>1. IF withFile THEN Upload(s) ELSE NoUpload
        BY <1>1 DEF IsosCreate
      <3> QED BY <3>1, Typed DEF Upload, NoUpload, NewFile, MediaHold,
                                 PipelineInv, TypeOK
    <2>6. MediaHold'
      BY <2>1, <2>2, <2>3, <2>5, RowOfMedia
    <2>7. TemplatesHold'
      BY <2>1, <2>2, Typed DEF TemplatesHold, Exists, PipelineInv, TypeOK, Mirrors
    <2>8. InstallsHold'
      <3>1. \A m \in Machines : ~(att[m].open /\ ~att[m].mixed /\ att[m].iso = s)
        BY <1>0, <2>1
      <3> QED BY <2>1, <2>2, <2>3, <3>1, RowOfInstalls
    <2> QED BY <2>4, <2>6, <2>7, <2>8
  <1>2. ASSUME IsosUpdateBegin(s) PROVE CarefulInv'
    <2>1. /\ edit' = [iso |-> s, seen |-> iso[s]] /\ Exists(s) /\ ~Busy(s)
          /\ UNCHANGED <<kind, uploads, file, iso, tpl, trees, att, worker, form, removing>>
      BY <1>2 DEF IsosUpdateBegin
    <2>2. EditHolds'
      BY <2>1 DEF EditHolds, Exists, Busy
    <2> QED
      BY <2>1, <2>2 DEF TemplatesHold, MediaHold, JobHolds, InstallsHold,
                        RemovedHold, Exists
  <1>3. ASSUME IsoRetryExtract(s) PROVE CarefulInv'
    <2> DEFINE row == Scheduled(iso[s])
    <2>1. /\ Exists(s) /\ ~Busy(s) /\ edit.iso # s /\ iso[s].accepted # 0
          /\ SaveIso(s, row) /\ iso' = [iso EXCEPT ![s] = row]
          /\ iso[s] \in Media /\ iso[s].rev < MaxRev
          /\ UNCHANGED <<kind, uploads, file, trees, att, worker, edit, form, removing>>
      BY <1>3, Typed DEF IsoRetryExtract, Careful, Undisturbed, SaveIso
    <2>2. /\ row \in Media /\ row.status = "queued" /\ row.rev = iso[s].rev + 1
          /\ row.accepted = iso[s].accepted
      BY <2>1, ScheduledTyped DEF Scheduled, Media
    <2> HIDE DEF row
    <2>3. s \notin removing
      BY <2>1 DEF RemovedHold
    <2>4. EditHolds' /\ JobHolds' /\ RemovedHold'
      BY <1>0, <2>1, <2>2, <2>3, RowReplaced
    <2>5. TemplatesHold' /\ \A t \in Templates : tpl'[t].iso = tpl[t].iso
      BY <2>1, <2>2, RowSynced
    <2>6. MediaHold'
      <3>1. row.rev # 0 /\ row.accepted <= file'[s]
        BY <2>1, <2>2, Typed DEF MediaHold, Media
      <3>2. \A z \in Isos : file'[z] <= uploads' /\ (z # s => file'[z] >= file[z])
        BY <2>1, Typed DEF MediaHold
      <3> QED BY <2>1, <2>2, <3>1, <3>2, RowOfMedia
    <2>7. InstallsHold'
      <3>1. \A m \in Machines :
                att[m].open /\ ~att[m].mixed /\ att[m].iso = s
                    /\ att[m].gen # 0 =>
                    att[m].gen <= row.rev /\ att[m].gen < row.rev
        BY <2>1, <2>2, Typed DEF InstallsHold, Media, Attempts
      <3> QED BY <2>1, <2>2, <2>5, <3>1, RowOfInstalls
    <2> QED BY <2>4, <2>5, <2>6, <2>7
  <1>4. ASSUME IsoDelete(s) PROVE CarefulInv'
    <2>1. /\ Exists(s) /\ ~Busy(s) /\ edit.iso # s
          /\ \A t \in Templates : tpl[t].iso # s
          /\ iso' = [iso EXCEPT ![s] = NoMedia]
          /\ removing' = removing \union {s}
          /\ UNCHANGED <<kind, uploads, file, tpl, trees, att, worker, edit, form>>
      BY <1>4 DEF IsoDelete, DeleteIso, Careful, Undisturbed, IsoTemplates
    <2>2. iso'[s] = NoMedia /\ \A z \in Isos : z # s => iso'[z] = iso[z]
      BY <2>1 DEF PipelineInv, TypeOK
    <2>3. EditHolds' /\ JobHolds'
      BY <1>0, <2>1, <2>2 DEF EditHolds, JobHolds, Exists, Busy, PipelineInv,
                              EditKnown, JobHeld
    <2>4. TemplatesHold'
      BY <2>1, <2>2, Typed DEF TemplatesHold, Exists, Mirrors
    <2>5. MediaHold' /\ RemovedHold'
      BY <2>1, <2>2 DEF MediaHold, RemovedHold, Exists, NoMedia, PipelineInv, TypeOK
    <2>6. InstallsHold'
      BY <1>0, <2>1, <2>2 DEF InstallsHold
    <2> QED BY <2>3, <2>4, <2>5, <2>6
  <1>5. ASSUME RemoveIsoTree(s) PROVE CarefulInv'
    <2>1. /\ ~Exists(s) /\ removing' = removing \ {s}
          /\ file' = [file EXCEPT ![s] = 0]
          /\ trees' = [trees EXCEPT ![s] = [r \in Revs |-> NoTree]]
          /\ UNCHANGED <<kind, uploads, iso, tpl, att, worker, edit, form>>
      BY <1>5 DEF RemoveIsoTree, RemovedHold
    <2>2. /\ file'[s] = 0
          /\ \A z \in Isos : z # s => file'[z] = file[z] /\ trees'[z] = trees[z]
      BY <2>1 DEF PipelineInv, TypeOK
    <2>3. MediaHold'
      BY <2>1, <2>2, Typed DEF MediaHold, Exists
    <2>4. JobHolds'
      BY <1>0, <2>1, <2>2 DEF JobHolds, PipelineInv, JobHeld
    <2>5. InstallsHold'
      BY <1>0, <2>1, <2>2 DEF InstallsHold
    <2> QED
      BY <2>1, <2>3, <2>4, <2>5 DEF EditHolds, TemplatesHold, RemovedHold, Exists, Busy
  <1>6. ASSUME FilesDelete(s) PROVE CarefulInv'
    BY <1>6 DEF FilesDelete, Careful
  <1> QED BY <1>1, <1>2, <1>3, <1>4, <1>5, <1>6 DEF IsoStep

LEMMA EditStepCareful ==
  ASSUME Careful, PipelineInv, PipelineInv', CarefulInv, EditStep
  PROVE  CarefulInv'
  <1> USE DEF CarefulInv
  <1> DEFINE s == edit.iso
  <1>0. edit # NoEdit =>
            /\ s \in Isos /\ Exists(s) /\ ~Busy(s) /\ edit.seen = iso[s]
            /\ s \notin removing
            /\ worker.phase # "idle" => worker.iso # s
            /\ iso[s] \in Media
    BY Typed DEF JobHolds, EditHolds, PipelineInv, EditKnown, RemovedHold, Busy,
                 InProgress
  <1>1. NoEdit.iso = NoIso /\ NoIso \notin Isos
    BY PipelineAssumption DEF NoEdit
  <1>2. ASSUME IsosUpdateSave(FALSE) PROVE CarefulInv'
    <2>1. /\ edit # NoEdit /\ iso' = iso /\ tpl' = Synced(s, iso[s])
          /\ edit' = NoEdit
          /\ UNCHANGED <<kind, uploads, file, trees, att, worker, form, removing>>
      BY <1>0, <1>2 DEF IsosUpdateSave, UpdatedIso, NoUpload
    <2>2. iso' = [iso EXCEPT ![s] = iso[s]]
      BY <1>0, <2>1 DEF PipelineInv, TypeOK
    <2>3. TemplatesHold' /\ \A t \in Templates : tpl'[t].iso = tpl[t].iso
      BY <1>0, <2>1, <2>2, RowSynced DEF SaveIso, Exists
    <2> QED
      BY <2>1, <2>3 DEF EditHolds, MediaHold, JobHolds, InstallsHold, RemovedHold,
                        Exists
  <1>3. ASSUME IsosUpdateSave(TRUE) PROVE CarefulInv'
    <2> DEFINE row == Scheduled([iso[s] EXCEPT !.accepted = NewFile])
    <2>1. /\ edit # NoEdit /\ iso[s].rev < MaxRev /\ Upload(s) /\ edit' = NoEdit
          /\ iso' = [iso EXCEPT ![s].status = row.status, ![s].rev = row.rev,
                                ![s].accepted = row.accepted]
          /\ tpl' = Synced(s, row)
          /\ UNCHANGED <<kind, trees, att, worker, form, removing>>
      BY <1>0, <1>3 DEF IsosUpdateSave, UpdatedIso
    <2>2. NewFile \in 0..MaxFile /\ NewFile = uploads + 1 /\ uploads \in Nat
      BY <2>1, UploadTyped DEF PipelineInv, TypeOK, NewFile
    <2>3. /\ row.status = "queued" /\ row.rev = iso[s].rev + 1
          /\ row.accepted = NewFile /\ row.gen = iso[s].gen
      BY <1>0, <2>1 DEF Scheduled, Media
    <2>4. row \in Media
      <3> DEFINE posted == [iso[s] EXCEPT !.accepted = NewFile]
      <3>1. posted \in Media /\ posted.rev < MaxRev
        BY <1>0, <2>1, <2>2 DEF Media
      <3> HIDE DEF posted
      <3>2. Scheduled(posted) \in Media
        BY <3>1, ScheduledTyped
      <3> QED BY <3>2 DEF posted
    <2>5. row = [iso[s] EXCEPT !.status = row.status, !.rev = row.rev,
                               !.accepted = row.accepted]
      BY <1>0, <2>1 DEF Scheduled, Media
    <2> HIDE DEF row
    <2>6. iso' = [iso EXCEPT ![s] = row]
      BY <1>0, <2>1, <2>5 DEF PipelineInv, TypeOK
    <2> HIDE DEF s
    <2>7. EditHolds' /\ JobHolds' /\ RemovedHold'
      BY <1>0, <1>1, <2>1, <2>4, <2>6, RowReplaced
    <2>8. TemplatesHold' /\ \A t \in Templates : tpl'[t].iso = tpl[t].iso
      BY <1>0, <2>1, <2>3, <2>4, <2>6, RowSynced DEF SaveIso
    <2>9. MediaHold'
      <3>1. file'[s] = NewFile /\ uploads' = NewFile
        BY <1>0, <2>1 DEF Upload, PipelineInv, TypeOK
      <3>2. \A z \in Isos : z # s => file'[z] = file[z]
        BY <1>0, <2>1 DEF Upload, PipelineInv, TypeOK
      <3>3. \A z \in Isos : file'[z] <= uploads' /\ (z # s => file'[z] >= file[z])
        BY <2>2, <3>1, <3>2, Typed DEF MediaHold
      <3>4. row.rev # 0 /\ row.accepted # 0 /\ row.accepted <= file'[s]
        BY <1>0, <2>1, <2>2, <2>3, <3>1 DEF Media
      <3> QED BY <1>0, <2>1, <2>3, <2>4, <2>6, <3>3, <3>4, RowOfMedia
    <2>10. InstallsHold'
      <3>1. \A m \in Machines :
                att[m].open /\ ~att[m].mixed /\ att[m].iso = s
                    /\ att[m].gen # 0 =>
                    att[m].gen <= row.rev /\ att[m].gen < row.rev
        BY <1>0, <2>1, <2>3, Typed DEF InstallsHold, Media, Attempts
      <3> QED BY <1>0, <2>1, <2>4, <2>6, <2>8, <3>1, RowOfInstalls
    <2> QED BY <2>7, <2>8, <2>9, <2>10
  <1>4. ASSUME NEW withFile \in BOOLEAN, IsosUpdateRefused(withFile)
        PROVE  CarefulInv'
    <2>1. /\ edit # NoEdit /\ edit' = NoEdit
          /\ UNCHANGED <<kind, iso, tpl, trees, att, worker, form, removing>>
          /\ Upload(s) \/ NoUpload
      BY <1>4 DEF IsosUpdateRefused
    <2>2. \A z \in Isos : file'[z] <= uploads' /\ file'[z] >= file[z]
      <3>1. CASE NoUpload
        BY <3>1, Typed DEF NoUpload, MediaHold
      <3>2. CASE Upload(s)
        <4>1. /\ uploads' = uploads + 1 /\ file'[s] = uploads + 1
              /\ \A z \in Isos : z # s => file'[z] = file[z]
          BY <1>0, <2>1, <3>2 DEF Upload, NewFile, PipelineInv, TypeOK
        <4>2. \A z \in Isos : file[z] <= uploads /\ file[z] \in Nat
          BY Typed DEF MediaHold
        <4> QED BY <4>1, <4>2, Typed
      <3> QED BY <2>1, <3>1, <3>2
    <2>3. MediaHold'
      <3>1. ASSUME NEW z \in Isos, Exists(z) PROVE iso[z].accepted <= file'[z]
        <4>1. iso[z].accepted <= file[z] /\ file'[z] >= file[z]
          BY <2>2, <3>1 DEF MediaHold
        <4>2. iso[z].accepted \in Int /\ file[z] \in Int /\ file'[z] \in Int
          BY Typed DEF Media, PipelineInv, TypeOK
        <4> QED BY <4>1, <4>2
      <3> QED BY <2>1, <2>2, <3>1 DEF MediaHold, Exists
    <2> QED
      BY <2>1, <2>3 DEF EditHolds, TemplatesHold, JobHolds, InstallsHold,
                        RemovedHold, Exists
  <1> QED BY <1>2, <1>3, <1>4 DEF EditStep

\* A template row is replaced, and not its ISO under an install of it.
LEMMA RowSavedCareful ==
  ASSUME PipelineInv, CarefulInv, NEW t \in Templates, NEW row,
         tpl' = [tpl EXCEPT ![t] = row],
         row.iso # NoIso =>
             /\ Exists(row.iso)
             /\ ~row.mixed => row = Mirror(row.iso, iso[row.iso]),
         row.iso = tpl[t].iso
             \/ \A m \in Machines : att[m].open => att[m].tpl # t,
         UNCHANGED <<kind, uploads, file, iso, trees, att, worker, edit,
                     removing>>
  PROVE  CarefulInv'
  <1> USE DEF CarefulInv
  <1>1. tpl'[t] = row /\ \A u \in Templates : u # t => tpl'[u] = tpl[u]
    BY DEF PipelineInv, TypeOK
  <1>2. TemplatesHold'
    BY <1>1 DEF TemplatesHold, Exists
  <1>3. InstallsHold'
    BY <1>1 DEF InstallsHold
  <1> QED
    BY <1>2, <1>3 DEF EditHolds, MediaHold, JobHolds, RemovedHold, Exists, Busy

LEMMA TemplateStepCareful ==
  ASSUME Careful, PipelineInv, CarefulInv, NEW t \in Templates, TemplateStep(t)
  PROVE  CarefulInv'
  <1> USE DEF CarefulInv
  <1>1. ASSUME NEW s \in Isos, TemplatesCreate(t, s) PROVE CarefulInv'
    <2>1. \A m \in Machines : att[m].open => att[m].tpl # t
      BY <1>1 DEF TemplatesCreate, InstallsHold
    <2>2. Mirror(s, iso[s]).iso = s
      BY DEF Mirror
    <2> QED BY <1>1, <2>1, <2>2, RowSavedCareful DEF TemplatesCreate
  <1>2. ASSUME TemplatesUpdateBegin(t) PROVE CarefulInv'
    BY <1>2 DEF TemplatesUpdateBegin, EditHolds, TemplatesHold, MediaHold,
                JobHolds, InstallsHold, RemovedHold, Exists, Busy
  <1>3. ASSUME ImageDelete(t) PROVE CarefulInv'
    <2>1. \A m \in Machines : att[m].open => att[m].tpl # t
      BY <1>3 DEF ImageDelete, Installers
    <2>2. NoMirror.iso = NoIso
      BY DEF NoMirror
    <2> QED BY <1>3, <2>1, <2>2, RowSavedCareful DEF ImageDelete
  <1> QED BY <1>1, <1>2, <1>3 DEF TemplateStep

(***************************************************************************)
(* A save writes what differs from the row it has read: all of it fits     *)
(* when the row has not changed, or mirrored the very ISO of the save.     *)
(***************************************************************************)
LEMMA SavedRow ==
  ASSUME NEW row \in Rows, row.iso # NoIso, NEW seen \in Mirrors,
         NEW s \in Isos, NEW media \in Media,
         row.iso = s /\ ~row.mixed => row = Mirror(s, media)
  PROVE  LET saved == Saved(row, seen, s, media)
         IN  /\ saved.iso \in {s, row.iso}
             /\ ~saved.mixed => saved = Mirror(s, media)
  <1> DEFINE Column(c) == IF media[c] = seen.media[c] THEN row.media[c]
                          ELSE media[c]
             samePaths == /\ media.gen = seen.media.gen
                          /\ media.gen = 0 \/ s = seen.from
             of == IF samePaths /\ row.media.gen # 0 THEN row.from ELSE s
             gen == IF samePaths THEN row.media.gen ELSE media.gen
             id == IF s = seen.iso THEN row.iso ELSE s
             mixed == row # seen /\ (row.mixed \/ s # row.iso)
             written == [status |-> Column("status"), rev |-> Column("rev"),
                         gen |-> gen, accepted |-> Column("accepted")]
  <1>1. Saved(row, seen, s, media) =
            [iso |-> id, from |-> of, media |-> written, mixed |-> mixed]
    BY DEF Saved
  <1>2. media = [status |-> media.status, rev |-> media.rev,
                 gen |-> media.gen, accepted |-> media.accepted]
    BY DEF Media
  <1>3. row \in Mirrors /\ row.media \in Media
    BY DEF Rows, Mirrors
  <1>4. ASSUME row = seen PROVE id = s /\ of = s /\ written = media
    <2>1. id = s
      BY <1>4
    <2>2. of = s /\ gen = media.gen
      BY <1>4
    <2>3. /\ Column("status") = media.status /\ Column("rev") = media.rev
          /\ Column("accepted") = media.accepted
      BY <1>4
    <2> HIDE DEF Column, gen, id, of
    <2> QED BY <1>2, <2>1, <2>2, <2>3
  <1>5. ASSUME row.iso = s, ~row.mixed PROVE id = s /\ of = s /\ written = media
    <2>1. row.media = media /\ row.from = s
      BY <1>5 DEF Mirror
    <2>2. id = s /\ of = s /\ gen = media.gen
      BY <1>5, <2>1
    <2>3. /\ Column("status") = media.status /\ Column("rev") = media.rev
          /\ Column("accepted") = media.accepted
      BY <2>1
    <2> HIDE DEF Column, gen, id, of
    <2> QED BY <1>2, <2>2, <2>3
  <1>6. ~mixed => row = seen \/ (row.iso = s /\ ~row.mixed)
    OBVIOUS
  <1>7. id \in {s, row.iso} /\ mixed \in BOOLEAN
    BY <1>3 DEF Mirrors
  <1> HIDE DEF id, of, written, mixed
  <1>8. ~mixed => id = s /\ of = s /\ written = media
    BY <1>4, <1>5, <1>6
  <1>9. ~mixed => mixed = FALSE
    BY <1>7
  <1>10. ~mixed => Saved(row, seen, s, media) = Mirror(s, media)
    BY <1>1, <1>8, <1>9 DEF Mirror
  <1>11. /\ Saved(row, seen, s, media).iso = id
         /\ Saved(row, seen, s, media).mixed = mixed
    BY <1>1
  <1> QED BY <1>7, <1>10, <1>11

LEMMA FormStepCareful ==
  ASSUME Careful, PipelineInv, CarefulInv, FormStep
  PROVE  CarefulInv'
  <1> USE DEF CarefulInv
  <1>1. ASSUME NEW s \in Isos, TemplatesUpdateSave(s) PROVE CarefulInv'
    <2> DEFINE t == form.tpl
               row == Saved(tpl[t], form.seen, s, iso[s])
    <2>1. /\ t \in Templates /\ tpl[t].iso # NoIso /\ Exists(s)
          /\ s = tpl[t].iso \/ \A m \in Machines : att[m].open => att[m].tpl # t
          /\ tpl' = [tpl EXCEPT ![t] = row]
          /\ UNCHANGED <<kind, uploads, file, iso, trees, att, worker, edit,
                         removing>>
      BY <1>1 DEF TemplatesUpdateSave, Careful, Installers, PipelineInv, EditKnown
    <2>2. /\ tpl[t] \in Rows /\ form.seen \in Mirrors /\ iso[s] \in Media
          /\ Exists(tpl[t].iso)
      BY <2>1, Typed DEF PipelineInv, TypeOK, TemplatesHold
    <2>3. tpl[t].iso = s /\ ~tpl[t].mixed => tpl[t] = Mirror(s, iso[s])
      BY <2>1 DEF TemplatesHold
    <2>4. /\ row.iso \in {s, tpl[t].iso}
          /\ ~row.mixed => row = Mirror(s, iso[s])
      BY <2>1, <2>2, <2>3, SavedRow
    <2> HIDE DEF row, t
    <2>5. row.iso # NoIso =>
              /\ Exists(row.iso)
              /\ ~row.mixed => row = Mirror(row.iso, iso[row.iso])
      BY <2>1, <2>2, <2>4 DEF Mirror
    <2> QED BY <2>1, <2>4, <2>5, RowSavedCareful
  <1>2. ASSUME TemplatesUpdateRefused PROVE CarefulInv'
    BY <1>2 DEF TemplatesUpdateRefused, EditHolds, TemplatesHold, MediaHold,
                JobHolds, InstallsHold, RemovedHold, Exists, Busy
  <1> QED BY <1>1, <1>2 DEF FormStep

\* A collection that keeps the current revision and the pins of s.
LEMMA CollectionCareful ==
  ASSUME PipelineInv, CarefulInv, NEW s \in Isos, NEW keep,
         trees' = Collected(s, keep), iso[s].rev \in keep,
         UNCHANGED <<uploads, file, iso, tpl>>,
         \A n \in Machines : att'[n].open =>
             /\ att'[n] = att[n]
             /\ ~att[n].mixed /\ att[n].iso = s => att[n].rev \in keep
  PROVE  /\ MediaHold' /\ InstallsHold'
         /\ \A z \in Isos : iso[z].rev # 0 =>
                trees'[z][iso[z].rev] = trees[z][iso[z].rev]
  <1>1. \A z \in Isos, r \in Revs : z # s \/ r \in keep => trees'[z][r] = trees[z][r]
    BY DEF Collected, PipelineInv, TypeOK
  <1>2. \A z \in Isos : iso[z].rev # 0 => iso[z].rev \in Revs
    BY Typed DEF Media, Revs
  <1>3. \A z \in Isos : iso[z].rev # 0 =>
            trees'[z][iso[z].rev] = trees[z][iso[z].rev]
    BY <1>1, <1>2
  <1>4. MediaHold'
    BY <1>3 DEF MediaHold, CarefulInv, Exists
  <1>5. InstallsHold'
    <2>1. ASSUME NEW n \in Machines, att[n].open, ~att[n].mixed, att[n].gen # 0
          PROVE  att[n].iso \in Isos /\ att[n].gen \in Revs
      BY <2>1, Typed DEF Attempts, Revs, InstallsHold, CarefulInv, Mirrors
    <2> QED BY <1>1, <2>1 DEF InstallsHold, CarefulInv
  <1> QED BY <1>3, <1>4, <1>5

LEMMA InstallStepCareful ==
  ASSUME Careful, PipelineInv, PipelineInv', CarefulInv, NEW m \in Machines,
         InstallStep(m)
  PROVE  CarefulInv'
  <1> USE DEF CarefulInv
  <1>1. ASSUME NEW t \in Templates, Install(m, t) PROVE CarefulInv'
    <2> DEFINE media == tpl[t].media
               s == tpl[t].from
               new == [open |-> TRUE, tpl |-> t, iso |-> s, rev |-> media.rev,
                       gen |-> media.gen,
                       pinned |-> IF media.gen = 0 THEN NoTree
                                  ELSE trees[s][media.gen],
                       mixed |-> tpl[t].mixed]
    <2>1. /\ tpl[t].iso # NoIso /\ media.status \notin Blocking
          /\ att' = [att EXCEPT ![m] = new] /\ s \in Isos
          /\ UNCHANGED <<kind, uploads, file, iso, tpl, trees, worker, edit,
                         removing>>
      BY <1>1, Typed DEF Install, Deployable, Rows
    <2>2. att'[m] = new /\ \A n \in Machines : n # m => att'[n] = att[n]
      BY <2>1 DEF PipelineInv, TypeOK
    <2>3. ASSUME ~tpl[t].mixed
          PROVE  /\ tpl[t].iso = s
                 /\ media.gen # 0 =>
                        /\ media.gen = media.rev /\ media.gen <= iso[s].rev
                        /\ iso[s].status = "ready"
                        /\ trees[s][media.gen] \in Files
      <3>1. s = tpl[t].iso /\ media = iso[s] /\ Exists(s) /\ media \in Media
        <4>1. /\ tpl[t] = Mirror(tpl[t].iso, iso[tpl[t].iso])
              /\ Exists(tpl[t].iso) /\ tpl[t].iso \in Isos
          BY <2>1, <2>3, Typed DEF TemplatesHold, Mirrors
        <4>2. s = tpl[t].iso /\ media = iso[tpl[t].iso]
          BY <4>1 DEF Mirror
        <4> QED BY <4>1, <4>2, Typed
      <3>2. media.status \in {"idle", "ready"}
        BY <2>1, <3>1 DEF Exists, Media, Statuses
      <3>3. media.gen # 0 =>
                /\ iso[s].status = "ready" /\ media.gen = media.rev
                /\ media.accepted # 0 /\ media.gen \in Revs
                /\ trees[s][media.gen] >= media.accepted
        BY <2>1, <3>1, <3>2, Typed DEF MediaHold, Exists, Media, Revs
      <3>4. media.gen # 0 => trees[s][media.gen] \in Files
        BY <2>1, <3>1, <3>3, Typed DEF Media, Files, Damaged
      <3>5. media.gen # 0 => media.gen <= iso[s].rev
        BY <3>1, <3>3 DEF Media
      <3> QED BY <3>1, <3>3, <3>4, <3>5
    <2>4. InstallsHold'
      <3>1. ASSUME NEW n \in Machines, n # m, att'[n].open
            PROVE  att'[n] = att[n] /\ att[n].open
        BY <2>2, <3>1
      <3> QED BY <2>1, <2>2, <2>3, <3>1 DEF InstallsHold
    <2> QED
      BY <2>1, <2>4 DEF EditHolds, TemplatesHold, MediaHold, JobHolds, RemovedHold,
                        Exists, Busy
  <1>2. ASSUME att[m].open, MarkDeployed(m) PROVE CarefulInv'
    <2> DEFINE s == tpl[att[m].tpl].iso
               keep == Keep(s, iso[s].rev, Machines \ {m})
    <2>1. /\ s \in Isos
          /\ \A n \in Machines : att[n].open /\ ~att[n].mixed =>
                 tpl[att[n].tpl].iso = att[n].iso
      BY <1>2, Typed DEF InstallsHold, Mirrors
    <2>2. /\ trees' = Collected(s, keep) /\ worker' = worker
          /\ att' = [att EXCEPT ![m] = NoAttempt]
          /\ UNCHANGED <<kind, uploads, file, iso, tpl, edit, form, removing>>
      BY <1>2, <2>1 DEF MarkDeployed, Careful
    <2>3. ~att'[m].open /\ \A n \in Machines : n # m => att'[n] = att[n]
      BY <2>2 DEF PipelineInv, TypeOK, NoAttempt
    <2>4. /\ iso[s].rev \in keep
          /\ \A n \in Machines \ {m} :
                 att[n].open /\ ~att[n].mixed /\ att[n].iso = s =>
                     att[n].rev \in keep
      BY <2>1 DEF Keep, OpenRevs
    <2> HIDE DEF s, keep
    <2>5. /\ MediaHold' /\ InstallsHold'
          /\ \A z \in Isos : iso[z].rev # 0 =>
                 trees'[z][iso[z].rev] = trees[z][iso[z].rev]
      BY <2>1, <2>2, <2>3, <2>4, CollectionCareful
    <2>6. JobHolds'
      <3>1. worker.phase # "idle" => worker.iso \in Isos /\ iso[worker.iso].rev # 0
        BY DEF PipelineInv, JobHeld, MediaHold, JobHolds, Exists
      <3> QED BY <2>2, <2>5, <3>1 DEF JobHolds
    <2> QED
      BY <2>2, <2>5, <2>6 DEF EditHolds, TemplatesHold, RemovedHold, Exists, Busy
  <1>3. ASSUME InstallDropped(m) PROVE CarefulInv'
    <2>1. /\ att' = [att EXCEPT ![m] = NoAttempt]
          /\ UNCHANGED <<kind, uploads, file, iso, tpl, trees, worker, edit, form, removing>>
      BY <1>3 DEF InstallDropped
    <2>2. ~att'[m].open /\ \A n \in Machines : n # m => att'[n] = att[n]
      BY <2>1 DEF PipelineInv, TypeOK, NoAttempt
    <2>3. InstallsHold'
      BY <2>1, <2>2 DEF InstallsHold
    <2> QED
      BY <2>1, <2>3 DEF EditHolds, TemplatesHold, MediaHold, JobHolds, RemovedHold,
                        Exists, Busy
  <1> QED BY <1>1, <1>2, <1>3 DEF InstallStep, InstallEnds, HandOut

\* The worker's commit: what it writes is the row it has read, but for this.
LEMMA WriteBackCareful ==
  ASSUME PipelineInv, PipelineInv', CarefulInv,
         worker.phase \in {"unpacking", "published", "collected"},
         NEW status \in {"failed", "ready"}, NEW gen \in 0..MaxRev,
         WriteBack([worker.seen EXCEPT !.status = status, !.gen = gen]),
         status = "ready" /\ gen # 0 =>
             gen = worker.rev /\ trees[worker.iso][gen] = worker.source,
         UNCHANGED <<kind, uploads, file, trees, att, edit, form, removing>>
  PROVE  CarefulInv'
  <1> USE DEF CarefulInv
  <1> DEFINE s == worker.iso
             row == [worker.seen EXCEPT !.status = status, !.gen = gen]
  <1>1. /\ s \in Isos /\ Exists(s) /\ Busy(s) /\ worker.seen = iso[s]
        /\ iso[s].rev = worker.rev /\ worker.source >= iso[s].accepted
        /\ iso[s].status = "extracting" /\ iso[s] \in Media
    BY Typed DEF PipelineInv, JobHeld, JobHolds, Exists, Busy, InProgress
  <1>2. /\ row \in Media /\ row.status = status /\ row.gen = gen
        /\ row.rev = iso[s].rev /\ row.accepted = iso[s].accepted
    BY <1>1 DEF Media, Statuses, Blocking
  <1>3. iso' = [iso EXCEPT ![s] = row] /\ tpl' = Synced(s, row) /\ worker' = NoJob
    <2>1. worker' = NoJob /\ tpl' = Synced(s, row)
      BY DEF WriteBack
    <2>2. iso' = [iso EXCEPT ![s].status = row.status,
                             ![s].gen = IF row.gen = worker.seen.gen THEN @
                                        ELSE row.gen]
      BY <1>1 DEF WriteBack
    <2>3. row = [iso[s] EXCEPT !.status = row.status,
                               !.gen = IF row.gen = worker.seen.gen THEN @
                                       ELSE row.gen]
      BY <1>1, <1>2 DEF Media
    <2> HIDE DEF row
    <2>4. iso' = [iso EXCEPT ![s] = row]
      BY <1>1, <2>2, <2>3 DEF PipelineInv, TypeOK
    <2> QED BY <2>1, <2>4
  <1> HIDE DEF row, s
  <1>4. iso'[s] = row /\ \A z \in Isos : z # s => iso'[z] = iso[z]
    BY <1>1, <1>3 DEF PipelineInv, TypeOK
  <1>5. EditHolds' /\ RemovedHold' /\ JobHolds'
    <2>1. edit # NoEdit => edit.iso \in Isos /\ edit.iso # s
      BY <1>1 DEF EditHolds, PipelineInv, EditKnown
    <2>2. removing \subseteq Isos /\ s \notin removing
      BY <1>1 DEF RemovedHold, PipelineInv, TypeOK
    <2>3. JobHolds'
      BY <1>3 DEF JobHolds, NoJob
    <2> QED
      BY <1>4, <2>1, <2>2, <2>3 DEF EditHolds, RemovedHold, Exists, Busy
  <1>6. TemplatesHold' /\ \A t \in Templates : tpl'[t].iso = tpl[t].iso
    BY <1>1, <1>2, <1>3, RowSynced DEF SaveIso
  <1>7. MediaHold'
    <2>1. row.rev # 0 /\ row.accepted # 0 /\ row.accepted <= file'[s]
      BY <1>1, <1>2, Typed DEF MediaHold, Exists, Busy, InProgress
    <2>2. \A z \in Isos : file'[z] <= uploads' /\ (z # s => file'[z] >= file[z])
      BY Typed DEF MediaHold
    <2>3. row.status = "ready" /\ row.gen # 0 =>
              row.gen = row.rev /\ trees[s][row.rev] >= row.accepted
      BY <1>1, <1>2 DEF s
    <2> QED BY <1>1, <1>2, <1>3, <2>1, <2>2, <2>3, RowOfMedia
  <1>8. InstallsHold'
    <2>1. \A m \in Machines :
              att[m].open /\ ~att[m].mixed /\ att[m].iso = s
                    /\ att[m].gen # 0 =>
                  att[m].gen <= row.rev /\ att[m].gen < row.rev
      BY <1>1, <1>2, Typed DEF InstallsHold
    <2> QED BY <1>1, <1>2, <1>3, <1>6, <2>1, RowOfInstalls
  <1> QED BY <1>5, <1>6, <1>7, <1>8

LEMMA ClaimCareful ==
  ASSUME PipelineInv, PipelineInv', CarefulInv, NEW s \in Isos, ClaimNextJob(s)
  PROVE  CarefulInv'
  <1> USE DEF CarefulInv
  <1> DEFINE row == [iso[s] EXCEPT !.status = "extracting"]
  <1>1. /\ iso[s].status = "queued" /\ iso[s] \in Media /\ worker.phase = "idle"
        /\ UNCHANGED <<kind, uploads, file, trees, att, edit, form, removing>>
    BY Typed DEF ClaimNextJob, NextQueued
  <1>2. /\ row \in Media /\ row.status = "extracting" /\ row.rev = iso[s].rev
        /\ row.gen = iso[s].gen /\ row.accepted = iso[s].accepted
    BY <1>1 DEF Media, Statuses, Blocking, InProgress
  <1>3. iso' = [iso EXCEPT ![s] = row]
    BY <1>1 DEF ClaimNextJob, PipelineInv, TypeOK
  <1>4. /\ worker'.phase = "claimed" /\ worker'.iso = s /\ worker'.rev = iso[s].rev
        /\ worker'.hit = FALSE
    BY DEF ClaimNextJob, NoJob
  <1>5. ASSUME NEW t \in Templates
        PROVE  /\ tpl'[t].iso = tpl[t].iso
               /\ tpl[t].iso = s =>
                      tpl'[t] = [tpl[t] EXCEPT !.media.status = "extracting"]
               /\ tpl[t].iso # s => tpl'[t] = tpl[t]
    BY Typed DEF ClaimNextJob, Mirrors
  <1> HIDE DEF row
  <1>6. iso'[s] = row /\ \A z \in Isos : z # s => iso'[z] = iso[z]
    BY <1>3 DEF PipelineInv, TypeOK
  <1>7. TemplatesHold'
    <2>1. ASSUME NEW t \in Templates, tpl[t].iso = s, ~tpl'[t].mixed
          PROVE  tpl'[t] = Mirror(s, row)
      <3>0. /\ tpl[t].iso = s /\ tpl[t].iso # NoIso /\ tpl[t] \in Mirrors
            /\ tpl'[t].mixed = tpl[t].mixed
        BY <1>5, <2>1, Typed, PipelineAssumption DEF Mirrors
      <3>1. tpl[t] = Mirror(s, iso[s])
        BY <2>1, <3>0 DEF TemplatesHold
      <3>2. tpl'[t] = [Mirror(s, iso[s]) EXCEPT !.media.status = "extracting"]
        BY <1>5, <2>1, <3>1
      <3>3. [Mirror(s, iso[s]) EXCEPT !.media.status = "extracting"]
                = Mirror(s, [iso[s] EXCEPT !.status = "extracting"])
        <4> DEFINE claimed == [iso[s] EXCEPT !.status = "extracting"]
        <4>1. [Mirror(s, iso[s]) EXCEPT !.media.status = "extracting"]
                  = [Mirror(s, iso[s]) EXCEPT !.media = claimed]
          BY DEF Mirror
        <4> HIDE DEF claimed
        <4>2. [Mirror(s, iso[s]) EXCEPT !.media = claimed] = Mirror(s, claimed)
          <5>1. ASSUME NEW unmixed
                PROVE  [[iso |-> s, from |-> s, media |-> iso[s],
                         mixed |-> unmixed] EXCEPT !.media = claimed]
                           = [iso |-> s, from |-> s, media |-> claimed,
                              mixed |-> unmixed]
            OBVIOUS
          <5>2. QED BY <5>1, Zenon DEF Mirror
        <4>3. QED BY <4>1, <4>2 DEF claimed
      <3>4. row = [iso[s] EXCEPT !.status = "extracting"]
        BY DEF row
      <3> QED BY <3>2, <3>3, <3>4, Zenon
    <2>2. ASSUME NEW t \in Templates, tpl'[t].iso # NoIso
          PROVE  /\ iso'[tpl'[t].iso].status # "absent"
                 /\ ~tpl'[t].mixed =>
                        tpl'[t] = Mirror(tpl'[t].iso, iso'[tpl'[t].iso])
      <3>1. tpl[t].iso \in Isos /\ tpl'[t].iso = tpl[t].iso
        BY <1>5, <2>2, Typed DEF Mirrors
      <3>2. CASE tpl[t].iso = s
        BY <1>2, <1>6, <2>1, <3>1, <3>2
      <3>3. CASE tpl[t].iso # s
        <4>1. tpl'[t] = tpl[t] /\ iso'[tpl[t].iso] = iso[tpl[t].iso]
          BY <1>5, <1>6, <3>1, <3>3
        <4>2. /\ Exists(tpl[t].iso)
              /\ ~tpl[t].mixed => tpl[t] = Mirror(tpl[t].iso, iso[tpl[t].iso])
          BY <2>2, <3>1 DEF TemplatesHold
        <4> QED BY <3>1, <4>1, <4>2 DEF Exists
      <3> QED BY <3>2, <3>3
    <2> QED BY <2>2 DEF TemplatesHold, Exists
  <1>8. EditHolds' /\ RemovedHold'
    <2>1. edit # NoEdit => edit.iso \in Isos /\ edit.iso # s
      BY <1>1 DEF EditHolds, PipelineInv, EditKnown, Busy, InProgress
    <2>2. removing \subseteq Isos /\ s \notin removing
      BY <1>1 DEF RemovedHold, PipelineInv, TypeOK, Exists
    <2> QED
      BY <1>1, <1>6, <2>1, <2>2 DEF EditHolds, RemovedHold, Exists, Busy
  <1>9. MediaHold'
    <2>1. row.rev # 0 /\ row.accepted # 0 /\ row.accepted <= file'[s]
      BY <1>1, <1>2, Typed DEF MediaHold, Exists
    <2>2. \A z \in Isos : file'[z] <= uploads' /\ (z # s => file'[z] >= file[z])
      BY <1>1, Typed DEF MediaHold
    <2> QED BY <1>1, <1>2, <1>3, <2>1, <2>2, RowOfMedia
  <1>10. InstallsHold'
    <2>1. \A m \in Machines :
              att[m].open /\ ~att[m].mixed /\ att[m].iso = s
                    /\ att[m].gen # 0 =>
                  att[m].gen <= row.rev /\ att[m].gen < row.rev
      BY <1>1, <1>2, Typed DEF InstallsHold
    <2> QED BY <1>1, <1>2, <1>3, <1>5, <2>1, RowOfInstalls
  <1>11. JobHolds'
    BY <1>2, <1>4, <1>6 DEF JobHolds
  <1> QED BY <1>7, <1>8, <1>9, <1>10, <1>11

LEMMA WorkerCareful ==
  ASSUME PipelineInv, PipelineInv', CarefulInv, WorkerStep
  PROVE  CarefulInv'
  <1> USE DEF CarefulInv
  <1>0. worker.phase # "idle" =>
            LET s == worker.iso
            IN  /\ s \in Isos /\ Exists(s) /\ iso[s] \in Media
                /\ iso[s].status = "extracting" /\ iso[s].rev = worker.rev
                /\ worker.rev \in Revs /\ ~worker.hit
                /\ iso[s].accepted # 0 /\ iso[s].accepted <= file[s]
    BY Typed DEF PipelineInv, JobHeld, JobHolds, MediaHold, Exists, Media, Revs
  <1>1. ASSUME StartJob PROVE CarefulInv'
    <2>1. /\ worker.phase = "claimed" /\ file[worker.iso] # 0
          /\ UNCHANGED <<kind, uploads, file, trees, att, edit, form, removing>>
      BY <1>0, <1>1, Typed DEF StartJob, Media
    <2>2. /\ worker' = [worker EXCEPT !.phase = "unpacking", !.seen = iso[worker.iso],
                                      !.source = file[worker.iso]]
          /\ UNCHANGED <<iso, tpl>>
      BY <1>0, <1>1, <2>1 DEF StartJob
    <2>3. /\ worker'.phase = "unpacking" /\ worker'.iso = worker.iso
          /\ worker'.rev = worker.rev /\ worker'.hit = worker.hit
          /\ worker'.seen = iso[worker.iso] /\ worker'.source = file[worker.iso]
      BY <2>2, Typed DEF Jobs
    <2>4. JobHolds'
      BY <1>0, <2>1, <2>2, <2>3, Typed DEF JobHolds, Media
    <2> QED
      BY <2>1, <2>2, <2>4 DEF EditHolds, TemplatesHold, MediaHold, InstallsHold,
                              RemovedHold, Exists, Busy
  <1>2. ASSUME Publish PROVE CarefulInv'
    <2> DEFINE s == worker.iso
    <2>1. /\ worker.phase = "unpacking"
          /\ trees' = IF kind[worker.source] = "plain" THEN trees
                      ELSE [trees EXCEPT ![s][worker.rev] = worker.source]
          /\ worker' = [worker EXCEPT !.phase = "published", !.hit = FALSE]
          /\ UNCHANGED <<kind, uploads, file, iso, tpl, att, edit, form, removing>>
      BY <1>0, <1>2 DEF Publish, Published
    <2>2. /\ worker'.phase = "published" /\ worker'.iso = s
          /\ worker'.rev = worker.rev /\ ~worker'.hit
          /\ worker'.seen = worker.seen /\ worker'.source = worker.source
      BY <2>1, Typed DEF Jobs
    <2>3. \A z \in Isos, r \in Revs :
              z # s \/ r # worker.rev => trees'[z][r] = trees[z][r]
      BY <1>0, <2>1 DEF PipelineInv, TypeOK
    <2>4. kind[worker.source] # "plain" => trees'[s][worker.rev] = worker.source
      BY <1>0, <2>1 DEF PipelineInv, TypeOK
    <2> HIDE DEF s
    <2>5. JobHolds'
      BY <2>1, <2>2, <2>4 DEF JobHolds, s
    <2>6. MediaHold'
      <3>1. ASSUME NEW z \in Isos, iso[z].status = "ready"
            PROVE  z # s /\ (iso[z].rev # 0 => iso[z].rev \in Revs)
        BY <1>0, <2>1, <3>1, Typed DEF Media, Revs, s
      <3> QED BY <2>1, <2>3, <3>1 DEF MediaHold, Exists
    <2>7. InstallsHold'
      <3>1. ASSUME NEW m \in Machines, att[m].open, ~att[m].mixed,
                   att[m].gen # 0
            PROVE  trees'[att[m].iso][att[m].gen] = trees[att[m].iso][att[m].gen]
        <4>1. att[m].iso \in Isos /\ att[m].gen \in Revs
          BY <3>1, Typed DEF InstallsHold, Attempts, Revs, Mirrors
        <4>2. att[m].iso = s => att[m].gen < worker.rev
          BY <1>0, <2>1, <3>1 DEF InstallsHold, s
        <4>3. att[m].iso = s => att[m].gen # worker.rev
          BY <1>0, <2>1, <4>1, <4>2 DEF Revs
        <4> QED BY <2>3, <4>1, <4>3
      <3> QED BY <2>1, <3>1 DEF InstallsHold
    <2> QED
      BY <2>1, <2>5, <2>6, <2>7 DEF EditHolds, TemplatesHold, RemovedHold, Exists, Busy
  <1>3. ASSUME MarkFailed PROVE CarefulInv'
    <2> DEFINE row == [worker.seen EXCEPT !.status = "failed", !.gen = worker.seen.gen]
    <2>1. worker.seen.gen \in 0..MaxRev
      BY Typed DEF Jobs, Media
    <2>2. row = [worker.seen EXCEPT !.status = "failed"]
      BY Typed DEF Jobs, Media
    <2> QED
      BY <1>3, <2>1, <2>2, WriteBackCareful DEF MarkFailed
  <1>4. ASSUME CollectGenerations PROVE CarefulInv'
    <2> DEFINE s == worker.iso
               keep == Keep(s, worker.seen.rev, Machines)
    <2>1. /\ worker.phase = "published" /\ trees' = Collected(s, keep)
          /\ worker' = [worker EXCEPT !.phase = "collected"]
          /\ UNCHANGED <<kind, uploads, file, iso, tpl, att, edit, form, removing>>
      BY <1>4 DEF CollectGenerations
    <2>2. s \in Isos /\ worker.seen = iso[s] /\ iso[s].rev # 0
      BY <1>0, <2>1 DEF JobHolds, Revs
    <2>3. /\ iso[s].rev \in keep
          /\ \A n \in Machines :
                 att[n].open /\ ~att[n].mixed /\ att[n].iso = s =>
                     att[n].rev \in keep
      BY <2>2 DEF Keep, OpenRevs, InstallsHold
    <2>4. /\ worker'.phase = "collected" /\ worker'.iso = s
          /\ worker'.rev = worker.rev /\ worker'.hit = worker.hit
          /\ worker'.seen = worker.seen /\ worker'.source = worker.source
      BY <2>1, Typed DEF Jobs
    <2> HIDE DEF s, keep
    <2>5. /\ MediaHold' /\ InstallsHold'
          /\ \A z \in Isos : iso[z].rev # 0 =>
                 trees'[z][iso[z].rev] = trees[z][iso[z].rev]
      BY <2>1, <2>2, <2>3, CollectionCareful
    <2>6. JobHolds'
      BY <1>0, <2>1, <2>2, <2>4, <2>5 DEF JobHolds, s
    <2> QED
      BY <2>1, <2>5, <2>6 DEF EditHolds, TemplatesHold, RemovedHold, Exists, Busy
  <1>5. ASSUME FinishJob PROVE CarefulInv'
    <2> DEFINE gen == IF kind[worker.source] = "plain" THEN 0 ELSE worker.rev
    <2>1. gen \in 0..MaxRev
      BY Typed, Numbers DEF Jobs
    <2>2. gen # 0 => gen = worker.rev /\ trees[worker.iso][gen] = worker.source
      BY <1>5 DEF FinishJob, JobHolds
    <2>3. /\ worker.phase = "collected"
          /\ WriteBack([worker.seen EXCEPT !.status = "ready", !.gen = gen])
          /\ UNCHANGED <<kind, uploads, file, trees, att, edit, form, removing>>
      BY <1>5 DEF FinishJob
    <2> HIDE DEF gen
    <2> QED BY <2>1, <2>2, <2>3, WriteBackCareful
  <1> QED
    BY <1>1, <1>2, <1>3, <1>4, <1>5, ClaimCareful DEF WorkerStep

(***************************************************************************)
(* A restart only queues the dead worker's ISO again: a ready one has its  *)
(* tree, so nothing is scheduled behind the back of an edit.               *)
(***************************************************************************)
LEMMA RestartCareful ==
  ASSUME PipelineInv, PipelineInv', CarefulInv, WorkerRestart
  PROVE  CarefulInv'
  <1> USE DEF CarefulInv
  <1>1. /\ worker' = NoJob
        /\ UNCHANGED <<kind, uploads, file, trees, att, edit, form, removing>>
    BY DEF WorkerRestart
  <1>2. \A s \in Isos : iso[s] \in Media /\ ~NeedsBackfill(s)
    <2>1. ASSUME NEW s \in Isos PROVE ~NeedsBackfill(s)
      <3>1. SUFFICES ASSUME NeedsBackfill(s) PROVE FALSE
        OBVIOUS
      <3>2. /\ Exists(s) /\ trees[s][iso[s].rev] = NoTree
            /\ iso[s].accepted # 0 /\ trees[s][iso[s].rev] >= iso[s].accepted
        BY <3>1 DEF NeedsBackfill, MediaHold, Exists
      <3> QED BY <3>2, Typed DEF Media, NoTree
    <2> QED BY <2>1, Typed
  <1>3. ASSUME NEW s \in Isos
        PROVE  /\ iso'[s] = Recovered(s)
               /\ iso[s].status # "extracting" => iso'[s] = iso[s]
               /\ iso[s].status = "extracting" => iso'[s].status = "queued"
               /\ iso'[s].rev = iso[s].rev /\ iso'[s].gen = iso[s].gen
               /\ iso'[s].accepted = iso[s].accepted
    <2>1. iso'[s] = IF iso[s].status = "extracting"
                    THEN [iso[s] EXCEPT !.status = "queued"] ELSE iso[s]
      BY <1>2 DEF WorkerRestart, Recovered
    <2>2. iso'[s] = Recovered(s)
      BY DEF WorkerRestart
    <2> QED BY <1>2, <2>1, <2>2 DEF Media
  <1>4. EditHolds'
    BY <1>1, <1>3 DEF EditHolds, PipelineInv, EditKnown, Exists, Busy, InProgress
  <1>5. RemovedHold'
    BY <1>1, <1>3 DEF RemovedHold, PipelineInv, TypeOK, Exists
  <1>6. ASSUME NEW t \in Templates
        PROVE  /\ tpl'[t].iso = tpl[t].iso
               /\ tpl[t].iso # NoIso =>
                      tpl'[t] = Mirror(tpl[t].iso, Recovered(tpl[t].iso))
    BY DEF WorkerRestart, Mirror
  <1>7. TemplatesHold'
    <2>1. \A t \in Templates : tpl[t].iso # NoIso => tpl[t].iso \in Isos
      BY Typed DEF Mirrors
    <2>2. \A s \in Isos : Exists(s) => iso'[s].status # "absent"
      BY <1>3 DEF Exists
    <2>3. ASSUME NEW t \in Templates, tpl'[t].iso # NoIso
          PROVE  /\ iso'[tpl'[t].iso].status # "absent"
                 /\ ~tpl'[t].mixed =>
                        tpl'[t] = Mirror(tpl'[t].iso, iso'[tpl'[t].iso])
      <3>1. tpl'[t].iso = tpl[t].iso /\ tpl[t].iso \in Isos
        BY <1>6, <2>1, <2>3
      <3>2. Exists(tpl[t].iso) /\ iso'[tpl[t].iso] = Recovered(tpl[t].iso)
        BY <1>3, <2>3, <3>1 DEF TemplatesHold
      <3> QED BY <1>6, <2>2, <2>3, <3>1, <3>2
    <2> QED BY <2>3 DEF TemplatesHold, Exists
  <1>8. MediaHold'
    BY <1>1, <1>3 DEF MediaHold, Exists
  <1>9. InstallsHold'
    <2>1. ASSUME NEW m \in Machines, att[m].open, ~att[m].mixed
          PROVE  att[m].iso \in Isos
      BY <2>1, Typed DEF InstallsHold, Mirrors
    <2>2. \A t \in Templates : tpl'[t].iso = tpl[t].iso
      BY <1>6
    <2> QED BY <1>1, <1>3, <2>1, <2>2 DEF InstallsHold
  <1>10. JobHolds'
    BY <1>1 DEF JobHolds, NoJob
  <1> QED BY <1>4, <1>5, <1>7, <1>8, <1>9, <1>10

LEMMA AlwaysCareful ==
  ASSUME Careful
  PROVE  Spec => []CarefulInv
  <1>1. PipelineInv /\ PipelineInv' /\ CarefulInv /\ [Next]_vars => CarefulInv'
    <2>1. ASSUME CarefulInv, UNCHANGED vars PROVE CarefulInv'
      BY <2>1 DEF vars, CarefulInv, EditHolds, TemplatesHold, MediaHold, JobHolds,
                  InstallsHold, RemovedHold, Exists, Busy
    <2> QED
      BY <2>1, IsoStepCareful, EditStepCareful, TemplateStepCareful,
         FormStepCareful, InstallStepCareful, WorkerCareful, RestartCareful DEF Next
  <1> QED BY <1>1, InitCareful, AlwaysPipelineInv, PTL DEF Spec

(***************************************************************************)
(* Without the hazards, the tree that an open attempt is pinned to stays   *)
(* on disk as it was when the attempt was made (gc_extract_generations,    *)
(* run_one_job, mark_deployed, iso_delete), for any ISOs, machines and     *)
(* worker restarts; attempts from a mixed template are excused.  A         *)
(* live-boot attempt is closed when its script is handed out: of its tree  *)
(* nothing is said from then on.                                           *)
(***************************************************************************)
THEOREM PinnedTreesStay ==
  ASSUME Careful
  PROVE  Spec => []PinnedMediaKept
  <1>1. CarefulInv => PinnedMediaKept
    BY DEF CarefulInv, InstallsHold, PinnedMediaKept
  <1> QED BY <1>1, AlwaysCareful, PTL

(***************************************************************************)
(* Without the hazards, what can be deployed, from a template that is not  *)
(* mixed, is on disk and made of the file accepted last, or a newer one    *)
(* (isos_update, run_one_job).                                             *)
(***************************************************************************)
THEOREM DeployableIsOnDisk ==
  ASSUME Careful
  PROVE  Spec => []DeployableIsServable
  <1>1. PipelineInv /\ CarefulInv => DeployableIsServable
    <2> SUFFICES ASSUME PipelineInv, CarefulInv, NEW t \in Templates,
                        Deployable(t), ~tpl[t].mixed, tpl[t].media.gen # 0
                 PROVE  trees[tpl[t].iso][tpl[t].media.gen] \in
                            (Files \ 0..(tpl[t].media.accepted - 1))
      BY DEF DeployableIsServable
    <2> DEFINE s == tpl[t].iso
               row == iso[s]
    <2>1. /\ s \in Isos /\ Exists(s) /\ tpl[t].media = row /\ row \in Media
          /\ row.gen # 0 /\ row.status \notin Blocking
      <3>1. /\ tpl[t] = Mirror(s, row) /\ Exists(s) /\ s \in Isos
            /\ tpl[t].media.status \notin Blocking
        BY Typed DEF Deployable, CarefulInv, TemplatesHold, Mirrors
      <3>2. tpl[t].media = row
        BY <3>1 DEF Mirror
      <3> QED BY <3>1, <3>2, Typed
    <2>2. row.status \in {"idle", "ready"}
      BY <2>1 DEF Exists, Media, Statuses
    <2>3. /\ row.gen = row.rev /\ row.accepted # 0 /\ row.gen \in Revs
          /\ trees[s][row.gen] >= row.accepted
      BY <2>1, <2>2 DEF CarefulInv, MediaHold, Media, Revs
    <2>4. trees[s][row.gen] \in Damaged..MaxFile
      BY <2>1, <2>3, Typed
    <2>5. row.accepted \in Nat /\ row.accepted > 0
      BY <2>1, <2>3, Typed DEF Media
    <2> HIDE DEF s, row
    <2>6. trees[s][row.gen] \in Files \ 0..(row.accepted - 1)
      BY <2>3, <2>4, <2>5, Typed DEF Files, Damaged
    <2> QED BY <2>1, <2>6 DEF s
  <1> QED BY <1>1, AlwaysPipelineInv, AlwaysCareful, PTL

(***************************************************************************)
(* Without the hazards, a template shows its ISO's row, whoever wrote last *)
(* (sync_templates, claim_next_job, recover_stale_jobs) and also when the  *)
(* worker or a request commits while a save of the template waits for its  *)
(* form (templates_update).  Only a save that switches the template to     *)
(* another ISO over such a commit leaves it mixed, until it is synced.     *)
(***************************************************************************)
THEOREM TemplatesStayInStep ==
  ASSUME Careful
  PROVE  Spec => []TemplatesMirrorIsos
  <1>1. CarefulInv => TemplatesMirrorIsos
    BY DEF CarefulInv, TemplatesHold, TemplatesMirrorIsos
  <1> QED BY <1>1, AlwaysCareful, PTL
=============================================================================
