------------------------- MODULE HostServicesProofs --------------------------
(***************************************************************************)
(* Theorems about the host services, for any processes, passwords, trees,  *)
(* certificates, settings, builds and discs.                               *)
(***************************************************************************)
EXTENDS HostServices, SubsequenceProofs, TLAPS

(***************************************************************************)
(* A step of the whole is a step of one component and leaves the others    *)
(* alone, so each component's own specification holds.                     *)
(***************************************************************************)
LEMMA StepsOfParts ==
  [Next]_hostVars =>
      /\ [DhcpNext]_dhcpVars /\ [TlsNext]_tlsVars /\ [SmbNext]_smbVars
      /\ [NfsNext]_nfsVars /\ [IpxeNext]_ipxeVars /\ [SourcesNext]_libVars
  BY DEF Next, Dnsmasq, Https, Samba, Ganesha, Ipxe, Library, hostVars

LEMMA PartsRun ==
  Spec => DhcpSpec /\ TlsSpec /\ SmbSpec /\ NfsSpec /\ IpxeSpec
  <1>1. Init => DhcpInit /\ TlsInit /\ SmbInit /\ NfsInit /\ IpxeInit
    BY DEF Init
  <1> QED BY <1>1, StepsOfParts, PTL
      DEF Spec, DhcpSpec, TlsSpec, SmbSpec, NfsSpec, IpxeSpec
-----------------------------------------------------------------------------
(* NFS exports *)

(***************************************************************************)
(* Ids that pass 65535 wrap, into the gaps between the ids of other ISOs:  *)
(* between trees of FewIsos and FewRevisions there is no collision.        *)
(***************************************************************************)
LEMMA NumbersDiffer ==
  ASSUME NEW i \in FewIsos, NEW r \in FewRevisions,
         NEW j \in FewIsos, NEW s \in FewRevisions,
         i # j \/ r # s
  PROVE  ExportId(i, r) # ExportId(j, s)
  <1> DEFINE Plain(n) == IF n > 65525 THEN n - 65531 ELSE n + 10
  <1>1. ExportId(i, r) = Plain(i * 1000 + r)
    BY SMTT(60) DEF ExportId, FewIsos, FewRevisions
  <1>2. ExportId(j, s) = Plain(j * 1000 + s)
    BY SMTT(60) DEF ExportId, FewIsos, FewRevisions
  <1>3. Plain(i * 1000 + r) # Plain(j * 1000 + s)
    BY SMTT(60) DEF FewIsos, FewRevisions
  <1> QED BY <1>1, <1>2, <1>3, SMT

LEMMA IdsDiffer ==
  ASSUME NEW t \in FewIsos \X FewRevisions, NEW u \in FewIsos \X FewRevisions,
         t # u
  PROVE  IdOf(t) # IdOf(u)
  <1>1. /\ t[1] \in FewIsos /\ t[2] \in FewRevisions
        /\ u[1] \in FewIsos /\ u[2] \in FewRevisions
        /\ t[1] # u[1] \/ t[2] # u[2]
    OBVIOUS
  <1> QED BY <1>1, NumbersDiffer DEF IdOf

(***************************************************************************)
(* In the export file, trees of up to 130 ISOs with revisions to 458 have  *)
(* ids of their own (export_id_for), whatever other trees there are and    *)
(* whatever was published, removed or lost before.                         *)
(***************************************************************************)
THEOREM ExportsHaveOwnIds == Spec => []ExportIdsDiffer
  <1>1. ExportIdsDiffer
    BY IdsDiffer DEF ExportIdsDiffer
  <1> QED BY <1>1, PTL
-----------------------------------------------------------------------------
(* The share password *)

\* A rotation that may have changed smb.password and has not asked for Samba
SmbBusy == \E h \in SmbHandlers : smbStep[h] \in {"rename", "commit", "request"}

SmbTypes ==
    /\ smbStep \in [SmbHandlers -> SmbSteps]
    /\ smbHelper \in {"poll", "apply", "set"}

(***************************************************************************)
(* The inductive invariant: what the root loop has read is the effective   *)
(* password, and so is Samba's when the loop polls, unless a rotation or a *)
(* request is still to come, or something failed.                          *)
(***************************************************************************)
SmbInv ==
    /\ SmbTypes
    /\ SmbBusy \/ smbCmd \/ smbFailed # {}
           \/ CASE smbHelper = "apply" -> TRUE
                [] smbHelper = "set" -> smbRead = Effective
                [] smbHelper = "poll" -> Effective # 0 => samba = Effective

LEMMA SmbInvariant == SmbSpec => []SmbInv
  <1>1. SmbInit => SmbInv
    BY DEF SmbInit, SmbInv, SmbTypes, SmbSteps
  <1>2. SmbInv /\ [SmbNext]_smbVars => SmbInv'
    <2> SUFFICES ASSUME SmbInv, [SmbNext]_smbVars PROVE SmbInv'
      OBVIOUS
    <2> USE DEF SmbInv, SmbTypes, SmbSteps
    <2>1. ASSUME NEW h \in SmbHandlers, RotateOpen(h) PROVE SmbInv'
      BY <2>1 DEF RotateOpen, SmbBusy, Effective
    <2>2. ASSUME NEW h \in SmbHandlers, RotateWrite(h) PROVE SmbInv'
      BY <2>2 DEF RotateWrite, SmbBusy
    <2>3. ASSUME NEW h \in SmbHandlers, RotateRename(h) PROVE SmbInv'
      BY <2>3 DEF RotateRename, SmbBusy, Renamed
    <2>4. ASSUME NEW h \in SmbHandlers, RotateMissesFile(h) PROVE SmbInv'
      BY <2>4 DEF RotateMissesFile
    <2>5. ASSUME NEW h \in SmbHandlers, RotateCommit(h) PROVE SmbInv'
      BY <2>5 DEF RotateCommit, SmbBusy
    <2>6. ASSUME NEW h \in SmbHandlers, RotateRequest(h) PROVE SmbInv'
      BY <2>6 DEF RotateRequest
    <2>7. ASSUME NEW h \in SmbHandlers, RotateEnds(h) PROVE SmbInv'
      BY <2>7 DEF RotateEnds, SmbBusy, Effective
    <2>8. CASE SmbHelperTakes
      BY <2>8 DEF SmbHelperTakes
    <2>9. CASE HelperReads
      BY <2>9 DEF HelperReads, SmbBusy, Effective
    <2>10. CASE HelperSets
      BY <2>10 DEF HelperSets, SmbBusy, Effective
    <2>11. CASE SmbdDies
      BY <2>11 DEF SmbdDies, SmbBusy, Effective
    <2>12. CASE SmbRestartHost
      BY <2>12 DEF SmbRestartHost
    <2>13. CASE UNCHANGED smbVars
      BY <2>13 DEF smbVars, SmbBusy, Effective
    <2> QED
      BY <2>1, <2>2, <2>3, <2>4, <2>5, <2>6, <2>7, <2>8, <2>9, <2>10, <2>11,
         <2>12, <2>13 DEF SmbNext
  <1> QED BY <1>1, <1>2, PTL DEF SmbSpec

(***************************************************************************)
(* The password WinPE is told opens the share once everybody is done       *)
(* (rotate_smb_password, the loop of entrypoint.sh), for any number of     *)
(* handlers that share the temporary file, unless one of them failed after *)
(* it had written its text.                                                *)
(***************************************************************************)
THEOREM SharesOpen == Spec => []ShareOpensAsTold
  <1>1. SmbInv => ShareOpensAsTold
    BY DEF SmbInv, SmbTypes, SmbBusy, ShareOpensAsTold, SmbSettled, OpensAsTold
  <1> QED BY <1>1, SmbInvariant, PartsRun, PTL
-----------------------------------------------------------------------------
(* The iPXE build *)

Contents == Options \union {"none", "stub", "stock"}
BuildSteps == {"none", "begun", "launch", "copy", "make", "look", "keep",
               "custom", "serve", "note", "report"}
Jobs == [step : BuildSteps, options : Contents, efi : Contents, kept : Contents]
BuildRows == [options : Contents, served : {"unset", "stock", "custom"},
         status : {"idle", "building", "ready", "failed"}]
Files == [native : Contents, custom : Contents, served : Contents, note : Contents]

IpxeTypes ==
    /\ ipxeRow \in BuildRows
    /\ ipxeFiles \in Files
    /\ ipxeJob \in [Builders -> Jobs]
    /\ ipxeWork \in Contents

\* A build that runs alone: the file it keeps is no build, there is a backup
\* when it writes its own, and it has the options of the row.
BuildFits(w) ==
    LET job == ipxeJob[w]
    IN  /\ job.step = "keep" => job.kept \in {"stub", "stock"}
        /\ job.step \in {"custom", "serve", "note", "report"}
               => ipxeFiles.native # "none"
        /\ job.step \notin {"none", "begun"} => ipxeRow.status = "building"
        /\ job.step \notin {"none", "begun", "launch"}
               => job.options = ipxeRow.options
        /\ job.step = "make" => ipxeWork = job.options
        /\ job.step \in {"look", "keep", "custom", "serve", "note", "report"}
               => job.efi = job.options
        /\ job.step \in {"serve", "note", "report"}
               => ipxeFiles.custom = job.options
        /\ job.step \in {"note", "report"}
               => ipxeFiles.served \in {job.options, "stub", "stock", "none"}
        /\ job.step = "report" => ipxeFiles.note = job.options

(***************************************************************************)
(* The inductive invariant.  Without an excuse there is one build at a     *)
(* time, and it found a file to keep; the backup, once made, is never a    *)
(* build, and what "Use stock" may put back is that backup.                *)
(***************************************************************************)
FilesFit ==
    /\ ipxeFiles.native \in {"none", "stub", "stock"}
    /\ ipxeFiles.served \in Options => ipxeFiles.native # "none"
    /\ ipxeRow.status = "ready" =>
           /\ ipxeFiles.custom = ipxeRow.options
           /\ ipxeFiles.note = ipxeRow.options
           /\ ipxeFiles.served \in {ipxeRow.options, "stub", "stock", "none"}

IpxeClean ==
    /\ \A v, w \in Builders : InProgress(v) /\ InProgress(w) => v = w
    /\ \A w \in Builders : BuildFits(w)
    /\ FilesFit

IpxeInv == IpxeTypes /\ (ipxeExcuses = {} => IpxeClean)

LEMMA IpxeBegins == IpxeInit => IpxeInv
  BY IpxeAssumption
     DEF IpxeAssumption, IpxeInit, IpxeInv, IpxeTypes, IpxeClean, BuildFits,
         FilesFit, InProgress, NoJob, Contents, BuildSteps, Jobs, BuildRows, Files

LEMMA ContentsHold ==
  "none" \in Contents /\ "stock" \in Contents /\ Options \subseteq Contents
  BY DEF Contents

\* What a step writes into a job, a row or the files.
LEMMA JobEdits ==
  ASSUME ipxeJob \in [Builders -> Jobs], NEW w \in Builders, NEW s \in BuildSteps,
         NEW c \in Contents
  PROVE  /\ [ipxeJob EXCEPT ![w].step = s] \in [Builders -> Jobs]
         /\ [ipxeJob EXCEPT ![w].step = s, ![w].options = c] \in [Builders -> Jobs]
         /\ [ipxeJob EXCEPT ![w].step = s, ![w].efi = c] \in [Builders -> Jobs]
         /\ [ipxeJob EXCEPT ![w].step = s, ![w].kept = c] \in [Builders -> Jobs]
         /\ [ipxeJob EXCEPT ![w] = NoJob] \in [Builders -> Jobs]
         /\ [ipxeJob EXCEPT ![w] = [NoJob EXCEPT !.step = s, !.options = c]]
                \in [Builders -> Jobs]
         /\ ipxeJob[w] \in Jobs
         /\ ipxeJob[w].options \in Contents
         /\ ipxeJob[w].efi \in Contents
         /\ ipxeJob[w].kept \in Contents
  <1>1. NoJob \in Jobs
    BY ContentsHold DEF NoJob, Jobs, BuildSteps
  <1>2. [NoJob EXCEPT !.step = s, !.options = c] \in Jobs
    BY ContentsHold DEF NoJob, Jobs
  <1>3. ipxeJob[w] \in Jobs
    OBVIOUS
  <1>4. /\ [ipxeJob[w] EXCEPT !.step = s] \in Jobs
        /\ [ipxeJob[w] EXCEPT !.step = s, !.options = c] \in Jobs
        /\ [ipxeJob[w] EXCEPT !.step = s, !.efi = c] \in Jobs
        /\ [ipxeJob[w] EXCEPT !.step = s, !.kept = c] \in Jobs
    BY <1>3 DEF Jobs
  <1>5. /\ [ipxeJob EXCEPT ![w].step = s]
              = [ipxeJob EXCEPT ![w] = [ipxeJob[w] EXCEPT !.step = s]]
        /\ [ipxeJob EXCEPT ![w].step = s, ![w].options = c]
              = [ipxeJob EXCEPT ![w] = [ipxeJob[w] EXCEPT !.step = s, !.options = c]]
        /\ [ipxeJob EXCEPT ![w].step = s, ![w].efi = c]
              = [ipxeJob EXCEPT ![w] = [ipxeJob[w] EXCEPT !.step = s, !.efi = c]]
        /\ [ipxeJob EXCEPT ![w].step = s, ![w].kept = c]
              = [ipxeJob EXCEPT ![w] = [ipxeJob[w] EXCEPT !.step = s, !.kept = c]]
    OBVIOUS
  <1>6. \A j \in Jobs : [ipxeJob EXCEPT ![w] = j] \in [Builders -> Jobs]
    OBVIOUS
  <1>7. /\ ipxeJob[w].options \in Contents
        /\ ipxeJob[w].efi \in Contents
        /\ ipxeJob[w].kept \in Contents
    BY <1>3 DEF Jobs
  <1> QED BY <1>1, <1>2, <1>3, <1>4, <1>5, <1>6, <1>7

LEMMA StepNames ==
  /\ "none" \in BuildSteps /\ "begun" \in BuildSteps /\ "launch" \in BuildSteps
  /\ "copy" \in BuildSteps /\ "make" \in BuildSteps /\ "look" \in BuildSteps
  /\ "keep" \in BuildSteps /\ "custom" \in BuildSteps /\ "serve" \in BuildSteps
  /\ "note" \in BuildSteps /\ "report" \in BuildSteps
  BY DEF BuildSteps

LEMMA RowEdits ==
  ASSUME ipxeRow \in BuildRows, NEW c \in Contents
  PROVE  /\ [ipxeRow EXCEPT !.options = c, !.status = "building"] \in BuildRows
         /\ [ipxeRow EXCEPT !.status = "ready", !.served = "custom"] \in BuildRows
         /\ [ipxeRow EXCEPT !.status = "failed"] \in BuildRows
         /\ [ipxeRow EXCEPT !.served = "stock"] \in BuildRows
         /\ ipxeRow.options \in Contents
  BY DEF BuildRows

LEMMA FileEdits ==
  ASSUME ipxeFiles \in Files, NEW c \in Contents
  PROVE  /\ [ipxeFiles EXCEPT !.native = c] \in Files
         /\ [ipxeFiles EXCEPT !.custom = c] \in Files
         /\ [ipxeFiles EXCEPT !.served = c] \in Files
         /\ [ipxeFiles EXCEPT !.note = c] \in Files
         /\ ipxeFiles.native \in Contents
         /\ ipxeFiles.served \in Contents
  BY DEF Files

LEMMA IpxeTypesKept == IpxeTypes /\ [IpxeNext]_ipxeVars => IpxeTypes'
  <1> SUFFICES ASSUME IpxeTypes, [IpxeNext]_ipxeVars PROVE IpxeTypes'
    OBVIOUS
  <1> USE ContentsHold, StepNames DEF IpxeTypes
  <1>1. ASSUME NEW w \in Builders,
               \/ BeginRebuild(w) \/ CommitBegun(w) \/ CancelPending(w) \/ ProcessEnds(w)
               \/ ReadOptions(w) \/ CopySources(w) \/ Make(w) \/ LookForNative(w)
               \/ KeepNative(w) \/ WriteCustom(w) \/ WriteServed(w) \/ WriteNote(w)
               \/ ReportReady(w) \/ JobFails(w)
        PROVE  IpxeTypes'
    <2> USE JobEdits, RowEdits, FileEdits DEF Step, Quiet
    <2>1. CASE BeginRebuild(w)
      <3>1. PICK o \in Options :
                ipxeJob' = [ipxeJob EXCEPT
                    ![w] = [NoJob EXCEPT !.step = "begun", !.options = o]]
        BY <2>1 DEF BeginRebuild
      <3>2. UNCHANGED <<ipxeRow, ipxeFiles, ipxeWork>>
        BY <2>1 DEF BeginRebuild, Started
      <3>3. o \in Contents
        BY <3>1
      <3> QED BY <3>1, <3>2, <3>3
    <2>2. CASE CommitBegun(w)
      BY <2>2 DEF CommitBegun
    <2>3. CASE CancelPending(w)
      BY <2>3 DEF CancelPending
    <2>4. CASE ProcessEnds(w)
      BY <2>4 DEF ProcessEnds
    <2>5. CASE ReadOptions(w)
      BY <2>5 DEF ReadOptions
    <2>6. CASE CopySources(w)
      BY <2>6 DEF CopySources
    <2>7. CASE Make(w)
      BY <2>7 DEF Make
    <2>8. CASE LookForNative(w)
      <3>1. PICK s \in BuildSteps :
                ipxeJob' = [ipxeJob EXCEPT ![w].step = s, ![w].kept = ipxeFiles.served]
        BY <2>8 DEF LookForNative
      <3>2. UNCHANGED <<ipxeRow, ipxeFiles, ipxeWork>>
        BY <2>8 DEF LookForNative
      <3> QED BY <3>1, <3>2
    <2>9. CASE KeepNative(w)
      BY <2>9 DEF KeepNative
    <2>10. CASE WriteCustom(w)
      BY <2>10 DEF WriteCustom
    <2>11. CASE WriteServed(w)
      BY <2>11 DEF WriteServed
    <2>12. CASE WriteNote(w)
      BY <2>12 DEF WriteNote
    <2>13. CASE ReportReady(w)
      BY <2>13 DEF ReportReady
    <2>14. CASE JobFails(w)
      BY <2>14 DEF JobFails
    <2> QED BY <1>1, <2>1, <2>2, <2>3, <2>4, <2>5, <2>6, <2>7, <2>8, <2>9, <2>10, <2>11, <2>12, <2>13, <2>14
  <1>2. ASSUME NEW w \in Builders,
               CheckRestore(w) \/ CopyNative(w) \/ CommitRestore(w)
        PROVE  IpxeTypes'
    BY <1>2, RowEdits, FileEdits DEF CheckRestore, CopyNative, CommitRestore
  <1>3. CASE UploadEfi \/ DeleteEfi
    BY <1>3, FileEdits DEF UploadEfi, DeleteEfi, FileBrowser
  <1>4. CASE UNCHANGED ipxeVars
    BY <1>4 DEF ipxeVars
  <1> QED BY <1>1, <1>2, <1>3, <1>4 DEF IpxeNext, ThreadStep

\* Only process w builds, before or after the step, and what it relies on holds.
LEMMA OneBuilds ==
  ASSUME NEW w \in Builders,
         \A v \in Builders \ {w} : ipxeJob'[v].step = "none",
         BuildFits(w)', FilesFit'
  PROVE  IpxeClean'
  BY DEF IpxeClean, InProgress, BuildFits

LEMMA OthersIdle ==
  ASSUME IpxeTypes, IpxeClean, NEW w \in Builders, InProgress(w),
         NEW j, ipxeJob' = [ipxeJob EXCEPT ![w] = j]
  PROVE  /\ \A v \in Builders \ {w} : ipxeJob'[v].step = "none"
         /\ ipxeJob'[w] = j
  BY DEF IpxeTypes, IpxeClean, InProgress

\* One step of the thread or of the request that starts it, by the only
\* process that builds.
LEMMA BuildStepFits ==
  ASSUME IpxeTypes, IpxeTypes', IpxeClean, NEW w \in Builders, ipxeExcuses' = {},
         \/ CommitBegun(w) \/ CancelPending(w)
         \/ ReadOptions(w) \/ CopySources(w) \/ Make(w) \/ LookForNative(w)
         \/ KeepNative(w) \/ WriteCustom(w) \/ WriteServed(w) \/ WriteNote(w)
         \/ ReportReady(w) \/ JobFails(w)
  PROVE  IpxeClean'
  <1> DEFINE job == ipxeJob[w]
  <1>0. /\ BuildFits(w) /\ FilesFit
        /\ ipxeJob \in [Builders -> Jobs] /\ job \in Jobs
        /\ ipxeRow \in BuildRows /\ ipxeFiles \in Files
        /\ ipxeFiles.served \in Contents
        /\ Options \cap {"none", "stub", "stock"} = {}
    BY IpxeAssumption DEF IpxeClean, IpxeTypes, Files, IpxeAssumption
  <1> USE <1>0
  <1>1. CASE CommitBegun(w)
    <2>1. ipxeJob' = [ipxeJob EXCEPT ![w] = [job EXCEPT !.step = "launch"]] /\ InProgress(w)
      BY <1>1 DEF CommitBegun, Step, InProgress
    <2>2. BuildFits(w)' /\ FilesFit'
      BY <1>1, <2>1, OthersIdle DEF CommitBegun, BuildFits, FilesFit, Jobs, BuildRows
    <2> QED BY <2>1, <2>2, OthersIdle, OneBuilds
  <1>2. CASE CancelPending(w)
    <2>1. ipxeJob' = [ipxeJob EXCEPT ![w] = NoJob] /\ InProgress(w)
      BY <1>2 DEF CancelPending, InProgress
    <2>2. BuildFits(w)' /\ FilesFit'
      BY <1>2, <2>1, OthersIdle DEF CancelPending, BuildFits, FilesFit, NoJob
    <2> QED BY <2>1, <2>2, OthersIdle, OneBuilds
  <1>3. CASE ReadOptions(w)
    <2>1. /\ ipxeJob' = [ipxeJob EXCEPT ![w] =
                             [job EXCEPT !.step = "copy", !.options = ipxeRow.options]]
          /\ InProgress(w)
      BY <1>3 DEF ReadOptions, InProgress
    <2>2. BuildFits(w)' /\ FilesFit'
      BY <1>3, <2>1, OthersIdle DEF ReadOptions, BuildFits, FilesFit, Jobs, BuildRows
    <2> QED BY <2>1, <2>2, OthersIdle, OneBuilds
  <1>4. CASE CopySources(w)
    <2>1. ipxeJob' = [ipxeJob EXCEPT ![w] = [job EXCEPT !.step = "make"]] /\ InProgress(w)
      BY <1>4 DEF CopySources, Step, InProgress
    <2>2. BuildFits(w)' /\ FilesFit'
      BY <1>4, <2>1, OthersIdle DEF CopySources, Step, BuildFits, FilesFit, Jobs
    <2> QED BY <2>1, <2>2, OthersIdle, OneBuilds
  <1>5. CASE Make(w)
    <2>1. /\ ipxeJob' = [ipxeJob EXCEPT ![w] = [job EXCEPT !.step = "look", !.efi = ipxeWork]]
          /\ InProgress(w)
      BY <1>5 DEF Make, InProgress
    <2>2. BuildFits(w)' /\ FilesFit'
      BY <1>5, <2>1, OthersIdle DEF Make, BuildFits, FilesFit, Jobs
    <2> QED BY <2>1, <2>2, OthersIdle, OneBuilds
  <1>6. CASE LookForNative(w)
    <2>1. PICK s \in {"keep", "custom"} :
              /\ ipxeJob' = [ipxeJob EXCEPT ![w] =
                                 [job EXCEPT !.step = s, !.kept = ipxeFiles.served]]
              /\ s = "keep" => ipxeFiles.native = "none" /\ ipxeFiles.served # "none"
              /\ s = "custom" => ipxeFiles.native # "none"
      BY <1>6 DEF LookForNative
    <2>2. InProgress(w) /\ job.step = "look" /\ UNCHANGED <<ipxeRow, ipxeFiles, ipxeWork>>
      BY <1>6 DEF LookForNative, InProgress
    <2>3. ipxeJob'[w] = [job EXCEPT !.step = s, !.kept = ipxeFiles.served]
      BY <2>1, <2>2, OthersIdle
    <2>4. s = "keep" => ipxeFiles.served \in {"stub", "stock"}
      BY <2>1 DEF FilesFit, Contents
    <2>5. BuildFits(w)' /\ FilesFit'
      BY <2>1, <2>2, <2>3, <2>4 DEF BuildFits, FilesFit, Jobs
    <2> QED BY <2>1, <2>2, <2>5, OthersIdle, OneBuilds
  <1>7. CASE KeepNative(w)
    <2>1. ipxeJob' = [ipxeJob EXCEPT ![w] = [job EXCEPT !.step = "custom"]] /\ InProgress(w)
      BY <1>7 DEF KeepNative, Step, InProgress
    <2>2. BuildFits(w)' /\ FilesFit'
      BY <1>7, <2>1, OthersIdle DEF KeepNative, Step, Quiet, BuildFits, FilesFit, Jobs, Files
    <2> QED BY <2>1, <2>2, OthersIdle, OneBuilds
  <1>8. CASE WriteCustom(w)
    <2>1. ipxeJob' = [ipxeJob EXCEPT ![w] = [job EXCEPT !.step = "serve"]] /\ InProgress(w)
      BY <1>8 DEF WriteCustom, Step, InProgress
    <2>2. BuildFits(w)' /\ FilesFit'
      BY <1>8, <2>1, OthersIdle DEF WriteCustom, Step, Quiet, BuildFits, FilesFit, Jobs, Files
    <2> QED BY <2>1, <2>2, OthersIdle, OneBuilds
  <1>9. CASE WriteServed(w)
    <2>1. ipxeJob' = [ipxeJob EXCEPT ![w] = [job EXCEPT !.step = "note"]] /\ InProgress(w)
      BY <1>9 DEF WriteServed, Step, InProgress
    <2>2. BuildFits(w)' /\ FilesFit'
      BY <1>9, <2>1, OthersIdle DEF WriteServed, Step, Quiet, BuildFits, FilesFit, Jobs, Files
    <2> QED BY <2>1, <2>2, OthersIdle, OneBuilds
  <1>10. CASE WriteNote(w)
    <2>1. ipxeJob' = [ipxeJob EXCEPT ![w] = [job EXCEPT !.step = "report"]] /\ InProgress(w)
      BY <1>10 DEF WriteNote, Step, InProgress
    <2>2. BuildFits(w)' /\ FilesFit'
      BY <1>10, <2>1, OthersIdle DEF WriteNote, Step, Quiet, BuildFits, FilesFit, Jobs, Files
    <2> QED BY <2>1, <2>2, OthersIdle, OneBuilds
  <1>11. CASE ReportReady(w)
    <2>1. ipxeJob' = [ipxeJob EXCEPT ![w] = NoJob] /\ InProgress(w)
      BY <1>11 DEF ReportReady, InProgress
    <2>2. BuildFits(w)' /\ FilesFit'
      BY <1>11, <2>1, OthersIdle DEF ReportReady, BuildFits, FilesFit, NoJob, BuildRows
    <2> QED BY <2>1, <2>2, OthersIdle, OneBuilds
  <1>12. CASE JobFails(w)
    <2>1. ipxeJob' = [ipxeJob EXCEPT ![w] = NoJob] /\ InProgress(w)
      BY <1>12 DEF JobFails, InProgress
    <2>2. BuildFits(w)' /\ FilesFit'
      BY <1>12, <2>1, OthersIdle DEF JobFails, BuildFits, FilesFit, NoJob, BuildRows
    <2> QED BY <2>1, <2>2, OthersIdle, OneBuilds
  <1> QED BY <1>1, <1>2, <1>3, <1>4, <1>5, <1>6, <1>7, <1>8, <1>9, <1>10, <1>11, <1>12

LEMMA IpxeInvariant == Spec => []IpxeInv
  <1>1. IpxeInv /\ [IpxeNext]_ipxeVars => IpxeInv'
    <2> SUFFICES ASSUME IpxeInv, [IpxeNext]_ipxeVars PROVE IpxeInv'
      OBVIOUS
    <2>1. IpxeTypes /\ IpxeTypes'
      BY IpxeTypesKept DEF IpxeInv
    <2>2. ipxeExcuses \subseteq ipxeExcuses'
      BY DEF IpxeNext, ThreadStep, BeginRebuild, Started, CommitBegun, CancelPending,
             ProcessEnds, ReadOptions, CopySources, Make, LookForNative, KeepNative,
             WriteCustom, WriteServed, WriteNote, ReportReady, JobFails, CheckRestore,
             CopyNative, CommitRestore, UploadEfi, DeleteEfi, FileBrowser, Quiet, ipxeVars
    <2> SUFFICES ASSUME ipxeExcuses' = {} PROVE IpxeClean'
      BY <2>1 DEF IpxeInv
    <2>3. IpxeClean
      BY <2>2 DEF IpxeInv
    <2>4. Options \cap {"none", "stub", "stock"} = {}
      BY IpxeAssumption DEF IpxeAssumption
    <2>5. ASSUME NEW w \in Builders, BeginRebuild(w) PROVE IpxeClean'
      <3>1. PICK o \in Options :
                ipxeJob' = [ipxeJob EXCEPT
                    ![w] = [NoJob EXCEPT !.step = "begun", !.options = o]]
        BY <2>5 DEF BeginRebuild
      <3>2. /\ \A v \in Builders : ipxeJob[v].step = "none"
            /\ UNCHANGED <<ipxeRow, ipxeFiles>>
        BY <2>5 DEF BeginRebuild, Started, InProgress
      <3>3. /\ ipxeJob'[w].step = "begun"
            /\ \A v \in Builders \ {w} : ipxeJob'[v].step = "none"
        BY <2>1, <3>1, <3>2 DEF IpxeTypes, NoJob
      <3>4. BuildFits(w)' /\ FilesFit'
        BY <2>3, <3>2, <3>3 DEF IpxeClean, BuildFits, FilesFit
      <3> QED BY <3>3, <3>4, OneBuilds
    <2>6. ASSUME NEW w \in Builders, ProcessEnds(w) PROVE IpxeClean'
      <3>1. \A v \in Builders : ipxeJob'[v] = ipxeJob[v] \/ ipxeJob'[v].step = "none"
        BY <2>1, <2>6 DEF ProcessEnds, IpxeTypes, NoJob
      <3>2. UNCHANGED <<ipxeRow, ipxeFiles, ipxeWork>>
        BY <2>6 DEF ProcessEnds
      <3> QED BY <2>3, <3>1, <3>2 DEF IpxeClean, InProgress, BuildFits, FilesFit
    <2>7. ASSUME NEW w \in Builders,
                 \/ CommitBegun(w) \/ CancelPending(w)
                 \/ ReadOptions(w) \/ CopySources(w) \/ Make(w) \/ LookForNative(w)
                 \/ KeepNative(w) \/ WriteCustom(w) \/ WriteServed(w) \/ WriteNote(w)
                 \/ ReportReady(w) \/ JobFails(w)
          PROVE  IpxeClean'
      BY <2>1, <2>3, <2>7, BuildStepFits
    <2>8. ASSUME NEW w \in Builders, CopyNative(w) PROVE IpxeClean'
      <3>1. /\ ipxeFiles' = [ipxeFiles EXCEPT !.served = ipxeFiles.native]
            /\ UNCHANGED <<ipxeRow, ipxeWork, ipxeJob>>
        BY <2>8 DEF CopyNative
      <3> QED BY <2>1, <2>3, <2>4, <3>1
              DEF IpxeTypes, Files, IpxeClean, InProgress, BuildFits, FilesFit
    <2>9. ASSUME NEW w \in Builders, CheckRestore(w) \/ CommitRestore(w)
          PROVE  IpxeClean'
      <3>1. /\ ipxeRow'.status = ipxeRow.status /\ ipxeRow'.options = ipxeRow.options
            /\ UNCHANGED <<ipxeFiles, ipxeWork, ipxeJob>>
        BY <2>1, <2>9 DEF CheckRestore, CommitRestore, IpxeTypes, BuildRows
      <3> QED BY <2>3, <3>1 DEF IpxeClean, InProgress, BuildFits, FilesFit
    <2>10. CASE UploadEfi \/ DeleteEfi
      <3>1. PICK c \in {"stock", "none"} : FileBrowser(c)
        BY <2>10 DEF UploadEfi, DeleteEfi
      <3>2. /\ ipxeFiles' = [ipxeFiles EXCEPT !.served = c]
            /\ \A w \in Builders : ipxeJob[w].step = "none"
            /\ UNCHANGED <<ipxeRow, ipxeWork, ipxeJob>>
        BY <3>1 DEF FileBrowser, InProgress
      <3> QED BY <2>1, <2>3, <2>4, <3>2
              DEF IpxeTypes, Files, IpxeClean, InProgress, BuildFits, FilesFit
    <2>11. CASE UNCHANGED ipxeVars
      BY <2>3, <2>11 DEF ipxeVars, IpxeClean, InProgress, BuildFits, FilesFit
    <2> QED BY <2>5, <2>6, <2>7, <2>8, <2>9, <2>10, <2>11 DEF IpxeNext, ThreadStep
  <1> QED BY <1>1, IpxeBegins, PartsRun, PTL DEF IpxeSpec

(***************************************************************************)
(* A backup of the entrypoint's or the operator's ipxe.efi can always be   *)
(* put back (_install_efi, restore_native), for any number of processes    *)
(* and builds, wherever they end.                                          *)
(***************************************************************************)
THEOREM StockReturns == Spec => []StockCanReturn
  <1>1. IpxeInv => StockCanReturn
    BY IpxeAssumption
       DEF IpxeAssumption, IpxeInv, IpxeClean, FilesFit, StockCanReturn
  <1> QED BY <1>1, IpxeInvariant, PTL

(***************************************************************************)
(* A row that says "ready" names the options of the files (_rebuild_job).  *)
(***************************************************************************)
THEOREM ReadyTellsTruth == Spec => []ReadyIsWhatIsShown
  <1>1. IpxeInv => ReadyIsWhatIsShown
    BY DEF IpxeInv, IpxeClean, FilesFit, ReadyIsWhatIsShown
  <1> QED BY <1>1, IpxeInvariant, PTL
-----------------------------------------------------------------------------
(* DHCP and TFTP settings *)

TaskRecords == [step : {"idle", "refresh", "write"}, row : Rows, at : {1, 2, 3, 4},
                open : BOOLEAN, ask : BOOLEAN, alone : BOOLEAN]
Tasks == {t \in TaskRecords :
              /\ t.step = "refresh" => t.at = 1 /\ ~t.open
              /\ t.open => t.at # 4}

DhcpTypes ==
    /\ dhcpRow \in Rows
    /\ dhcpFiles = [conf |-> dhcpFiles.conf, on |-> dhcpFiles.on,
                    tftp |-> dhcpFiles.tftp]
    /\ dhcpWriter \in [WebProcesses -> Tasks]
    /\ dhcpHelper \in {"poll", "read", "start"}

Runs(w) == dhcpWriter[w].step # "idle"

\* What a writer that runs alone has written is the row.
TaskFits(w) ==
    LET me == dhcpWriter[w]
    IN  me.alone /\ me.step = "write" =>
            /\ me.row = dhcpRow
            /\ me.at \in {2, 3, 4} => dhcpFiles.conf = FilesOf(dhcpRow).conf
            /\ me.at \in {3, 4} => dhcpFiles.on = FilesOf(dhcpRow).on
            /\ me.at = 4 => dhcpFiles.tftp = FilesOf(dhcpRow).tftp
            /\ me.open /\ me.at = 1 => dhcpFiles.conf = {}

Good == dnsmasq.status = "failed" \/ dnsmasq = Running(FilesOf(dhcpRow))

\* A start leaves no request: dnsmasq is right already, or a request waits.
StartFits(w) ==
    ~dhcpWriter[w].ask =>
        /\ dhcpWriter[w].step = "write"
        /\ dhcpHelper = "poll"
        /\ dhcpCmd \/ Good

\* When nobody writes, the files are the row, and dnsmasq runs with them or
\* is about to.
IdleFits ==
    /\ dhcpFiles = FilesOf(dhcpRow)
    /\ \/ dhcpCmd
       \/ dhcpHelper = "read"
       \/ dhcpHelper = "start" /\ Wanted(dhcpFiles)
       \/ dhcpHelper = "poll" /\ Good

(***************************************************************************)
(* The inductive invariant.  A writer that runs alone has written the row  *)
(* so far; unless something is to be repaired every writer runs alone, and *)
(* what it leaves to the loop is at least a request.                       *)
(***************************************************************************)
DhcpInv ==
    /\ DhcpTypes
    /\ \A v, w \in WebProcesses : Runs(v) /\ dhcpWriter[v].alone /\ Runs(w) => v = w
    /\ \A w \in WebProcesses : Runs(w) => TaskFits(w)
    /\ \A w \in WebProcesses :
           Runs(w) => dhcpDisturbed \/ (dhcpWriter[w].alone /\ StartFits(w))
    /\ dhcpDisturbed \/ (\E w \in WebProcesses : Runs(w)) \/ IdleFits

LEMMA DhcpBusyRun == DhcpBusy = {w \in WebProcesses : Runs(w)}
  BY DEF DhcpBusy, Runs

LEMMA FilesOfForm ==
  \A row : FilesOf(row) = [conf |-> FilesOf(row).conf, on |-> FilesOf(row).on,
                           tftp |-> FilesOf(row).tftp]
  BY DEF FilesOf

\* A step after which only w writes, and alone
LEMMA OneWriter ==
  ASSUME DhcpTypes', NEW w \in WebProcesses,
         \A v \in WebProcesses \ {w} : ~Runs(v)',
         Runs(w)' => TaskFits(w)' /\ (dhcpDisturbed' \/ (dhcpWriter[w].alone /\ StartFits(w))'),
         dhcpDisturbed' \/ Runs(w)' \/ IdleFits'
  PROVE  DhcpInv'
  <1>1. \A v \in WebProcesses : Runs(v)' => v = w
    OBVIOUS
  <1>2. /\ \A v \in WebProcesses : Runs(v)' => TaskFits(v)'
        /\ \A v \in WebProcesses :
               Runs(v)' => dhcpDisturbed' \/ (dhcpWriter'[v].alone /\ StartFits(v)')
    BY <1>1
  <1>3. \A u, v \in WebProcesses :
            Runs(u)' /\ dhcpWriter'[u].alone /\ Runs(v)' => u = v
    BY <1>1
  <1>4. dhcpDisturbed' \/ (\E v \in WebProcesses : Runs(v)') \/ IdleFits'
    OBVIOUS
  <1> QED BY <1>2, <1>3, <1>4 DEF DhcpInv

\* A step after which nobody writes alone
LEMMA NoLoneWriter ==
  ASSUME DhcpTypes', dhcpDisturbed',
         \A w \in WebProcesses : Runs(w)' => ~dhcpWriter'[w].alone
  PROVE  DhcpInv'
  <1>1. \A w \in WebProcesses : Runs(w)' => TaskFits(w)'
    BY DEF TaskFits
  <1> QED BY <1>1 DEF DhcpInv

LEMMA DhcpStarts == DhcpInit => DhcpInv
  <1> SUFFICES ASSUME DhcpInit PROVE DhcpInv
    OBVIOUS
  <1>1. DhcpTypes
    BY DnsmasqAssumption, FilesOfForm
       DEF DnsmasqAssumption, DhcpInit, DhcpTypes, Tasks, TaskRecords, DhcpNotWriting, Rows
  <1>2. \A w \in WebProcesses : ~Runs(w)
    BY DEF DhcpInit, Runs, DhcpNotWriting
  <1>3. IdleFits
    BY DEF DhcpInit, IdleFits, Good
  <1> QED BY <1>1, <1>2, <1>3 DEF DhcpInv

\* A handler or a start that begins
LEMMA DhcpBegins ==
  ASSUME DhcpInv, NEW w \in WebProcesses, NEW step \in {"refresh", "write"},
         NEW ask \in BOOLEAN, DhcpBegin(w, step, ask), ~Runs(w),
         dhcpRow' \in Rows, UNCHANGED <<dhcpFiles, dhcpCmd, dhcpHelper, dnsmasq>>,
         DhcpBusy # {} => dhcpDisturbed',
         ~dhcpDisturbed' => ~dhcpDisturbed,
         step = "write" => dhcpRow' = dhcpRow,
         ~ask => step = "write" /\ (dhcpDisturbed' \/ dhcpHelper = "poll")
  PROVE  DhcpInv'
  <1> DEFINE new == [DhcpNotWriting(dhcpRow) EXCEPT !.step = step, !.ask = ask,
                                                    !.alone = DhcpBusy = {}]
  <1>1. /\ dhcpWriter \in [WebProcesses -> Tasks] /\ DhcpTypes
        /\ DhcpBusy = {v \in WebProcesses : Runs(v)}
        /\ (DhcpBusy = {}) \in BOOLEAN
    BY DhcpBusyRun DEF DhcpInv, DhcpTypes
  <1>2. new \in Tasks
    BY <1>1 DEF Tasks, TaskRecords, DhcpNotWriting, DhcpTypes
  <1>3. /\ new.step = step /\ new.ask = ask /\ new.alone = (DhcpBusy = {})
        /\ new.row = dhcpRow /\ new.at = 1 /\ new.open = FALSE
    BY <1>1 DEF DhcpNotWriting
  <1>4. \A v \in WebProcesses :
            [dhcpWriter[v] EXCEPT !.alone = @ /\ v \notin DhcpBusy] \in Tasks
    BY <1>1 DEF Tasks, TaskRecords
  <1>5. /\ dhcpWriter' \in [WebProcesses -> Tasks]
        /\ dhcpWriter'[w] = new
        /\ \A v \in WebProcesses \ {w} : dhcpWriter'[v] =
               [dhcpWriter[v] EXCEPT !.alone = @ /\ v \notin DhcpBusy]
    BY <1>2, <1>4 DEF DhcpBegin
  <1> HIDE DEF new
  <1>6. DhcpTypes'
    BY <1>1, <1>5 DEF DhcpTypes
  <1>7. \A v \in WebProcesses \ {w} :
            /\ Runs(v)' <=> Runs(v)
            /\ Runs(v) => ~dhcpWriter'[v].alone
    BY <1>1, <1>5 DEF Runs, Tasks, TaskRecords
  <1>8. CASE DhcpBusy = {}
    <2>1. \A v \in WebProcesses \ {w} : ~Runs(v)'
      BY <1>1, <1>7, <1>8
    <2>2. Runs(w)' /\ dhcpWriter'[w].alone
      BY <1>3, <1>5, <1>8 DEF Runs
    <2>3. TaskFits(w)'
      BY <1>3, <1>5 DEF TaskFits
    <2>4. dhcpDisturbed' \/ StartFits(w)'
      <3>1. dhcpDisturbed \/ IdleFits
        BY <1>1, <1>8 DEF DhcpInv
      <3> QED BY <1>3, <1>5, <3>1 DEF StartFits, IdleFits, Good
    <2> QED BY <1>6, <2>1, <2>2, <2>3, <2>4, OneWriter
  <1>9. CASE DhcpBusy # {}
    <2>1. ~dhcpWriter'[w].alone
      BY <1>3, <1>5, <1>9
    <2> QED BY <1>6, <1>7, <1>9, <2>1, NoLoneWriter
  <1> QED BY <1>8, <1>9

\* A step of a writer that changes no row: what it finds and what it keeps
LEMMA TaskMoves ==
  ASSUME DhcpInv, NEW w \in WebProcesses, Runs(w), NEW j \in Tasks,
         dhcpWriter' = [dhcpWriter EXCEPT ![w] = j],
         j.alone = dhcpWriter[w].alone \/ j.step = "idle",
         dhcpRow' = dhcpRow, dhcpHelper' = dhcpHelper,
         dhcpFiles' = [conf |-> dhcpFiles'.conf, on |-> dhcpFiles'.on,
                       tftp |-> dhcpFiles'.tftp]
  PROVE  /\ DhcpTypes' /\ dhcpWriter'[w] = j
         /\ dhcpWriter[w].alone => \A v \in WebProcesses \ {w} : ~Runs(v)'
         /\ ~dhcpWriter[w].alone => dhcpDisturbed
         /\ ~dhcpWriter[w].alone /\ dhcpDisturbed' => DhcpInv'
  <1>1. DhcpTypes
    BY DEF DhcpInv
  <1>2. /\ dhcpWriter'[w] = j
        /\ \A v \in WebProcesses \ {w} : dhcpWriter'[v] = dhcpWriter[v]
    BY <1>1 DEF DhcpTypes
  <1>3. DhcpTypes'
    BY <1>1 DEF DhcpTypes
  <1>4. dhcpWriter[w].alone => \A v \in WebProcesses \ {w} : ~Runs(v)'
    BY <1>2 DEF DhcpInv, Runs
  <1>5. ~dhcpWriter[w].alone => dhcpDisturbed
    BY DEF DhcpInv
  <1>6. ASSUME ~dhcpWriter[w].alone, dhcpDisturbed' PROVE DhcpInv'
    <2>1. \A v \in WebProcesses : Runs(v)' => ~dhcpWriter'[v].alone
      <3> SUFFICES ASSUME NEW v \in WebProcesses, Runs(v)'
                   PROVE  ~dhcpWriter'[v].alone
        OBVIOUS
      <3>1. CASE v = w
        BY <1>2, <1>6, <3>1 DEF Runs
      <3>2. CASE v # w
        BY <1>2, <1>6, <3>2 DEF DhcpInv, Runs
      <3> QED BY <3>1, <3>2
    <2> QED BY <1>3, <1>6, <2>1, NoLoneWriter
  <1> QED BY <1>2, <1>3, <1>4, <1>5, <1>6

LEMMA TaskSteps ==
  ASSUME DhcpInv, NEW w \in WebProcesses, WriterStep(w)
  PROVE  DhcpInv'
  <1> DEFINE me == dhcpWriter[w]
  <1>1. /\ DhcpTypes /\ me \in Tasks /\ Runs(w) /\ TaskFits(w)
        /\ dhcpDisturbed \/ (me.alone /\ StartFits(w))
    BY DEF DhcpInv, DhcpTypes, WriterStep, RefreshRow, OpenFile, FillFile,
           RequestApply, Runs
  <1>2. /\ dhcpRow \in Rows
        /\ dhcpFiles = [conf |-> dhcpFiles.conf, on |-> dhcpFiles.on,
                        tftp |-> dhcpFiles.tftp]
    BY <1>1 DEF DhcpTypes
  <1>3. /\ Len(FileNames) = 3 /\ DOMAIN FileNames = {1, 2, 3}
        /\ FileNames[1] = "conf" /\ FileNames[2] = "on" /\ FileNames[3] = "tftp"
    BY DEF FileNames
  <1>4. CASE RefreshRow(w)
    <2> DEFINE j == [me EXCEPT !.step = "write", !.row = dhcpRow]
    <2>1. /\ j \in Tasks /\ j.alone = me.alone /\ j.row = dhcpRow /\ j.at = me.at
          /\ j.open = me.open /\ j.ask = me.ask /\ j.step = "write"
      BY <1>1, <1>2 DEF Tasks, TaskRecords
    <2>2. /\ dhcpWriter' = [dhcpWriter EXCEPT ![w] = j]
          /\ UNCHANGED <<dhcpRow, dhcpFiles, dhcpCmd, dhcpHelper, dnsmasq, dhcpDisturbed>>
      BY <1>4 DEF RefreshRow
    <2>3. \/ me.alone /\ \A v \in WebProcesses \ {w} : ~Runs(v)'
          \/ DhcpInv'
      BY <1>1, <1>2, <2>1, <2>2, TaskMoves
    <2>4. DhcpTypes' /\ dhcpWriter'[w] = j
      BY <1>1, <1>2, <2>1, <2>2, TaskMoves
    <2>5. me.at = 1 /\ ~me.open /\ me.step = "refresh"
      BY <1>1, <1>4 DEF RefreshRow, Tasks, TaskRecords
    <2>6. TaskFits(w)'
      BY <2>1, <2>2, <2>4, <2>5 DEF TaskFits
    <2>7. Runs(w)' /\ (~dhcpDisturbed => dhcpWriter'[w].alone /\ StartFits(w)')
      BY <1>1, <2>1, <2>2, <2>4, <2>5 DEF Runs, StartFits
    <2> HIDE DEF j, me
    <2> QED BY <2>2, <2>3, <2>4, <2>6, <2>7, OneWriter
  <1>5. CASE OpenFile(w)
    <2> DEFINE j == [me EXCEPT !.open = TRUE]
    <2>1. /\ me.step = "write" /\ me.at \in {1, 2, 3}
          /\ dhcpFiles' = [dhcpFiles EXCEPT ![FileNames[me.at]] = {}]
          /\ dhcpWriter' = [dhcpWriter EXCEPT ![w] = j]
          /\ UNCHANGED <<dhcpRow, dhcpCmd, dhcpHelper, dnsmasq, dhcpDisturbed>>
      BY <1>3, <1>5 DEF OpenFile
    <2>2. /\ j \in Tasks /\ j.alone = me.alone /\ j.row = me.row /\ j.at = me.at
          /\ j.ask = me.ask /\ j.step = me.step
      <3>1. me \in TaskRecords
        BY <1>1 DEF Tasks, TaskRecords
      <3>2. /\ j \in TaskRecords /\ j.alone = me.alone /\ j.row = me.row
            /\ j.at = me.at /\ j.ask = me.ask /\ j.step = me.step
        BY <3>1 DEF TaskRecords
      <3>3. j.step # "refresh" /\ j.at # 4
        BY <2>1, <3>2, SMT
      <3> HIDE DEF j, me
      <3> QED BY <3>2, <3>3 DEF Tasks
    <2>3. /\ dhcpFiles' = [conf |-> dhcpFiles'.conf, on |-> dhcpFiles'.on,
                           tftp |-> dhcpFiles'.tftp]
          /\ me.at = 1 => dhcpFiles'.conf = {}
          /\ me.at \in {2, 3} => dhcpFiles'.conf = dhcpFiles.conf
          /\ me.at = 3 => dhcpFiles'.on = dhcpFiles.on
      BY <1>2, <1>3, <2>1
    <2>4. \/ me.alone /\ \A v \in WebProcesses \ {w} : ~Runs(v)'
          \/ DhcpInv'
      BY <1>1, <2>1, <2>2, <2>3, TaskMoves
    <2>5. DhcpTypes' /\ dhcpWriter'[w] = j
      BY <1>1, <2>1, <2>2, <2>3, TaskMoves
    <2> HIDE DEF j, me
    <2>6. TaskFits(w)'
      BY <1>1, <2>1, <2>2, <2>3, <2>5 DEF TaskFits, me
    <2>7. Runs(w)' /\ (~dhcpDisturbed => dhcpWriter'[w].alone /\ StartFits(w)')
      BY <1>1, <2>1, <2>2, <2>5 DEF Runs, StartFits, Good, me
    <2> QED BY <2>1, <2>4, <2>5, <2>6, <2>7, OneWriter
  <1>6. CASE FillFile(w)
    <2> DEFINE j == [me EXCEPT !.at = @ + 1, !.open = FALSE]
               name == FileNames[me.at]
    <2>1. /\ me.step = "write" /\ me.open
          /\ dhcpWriter' = [dhcpWriter EXCEPT ![w] = j]
          /\ UNCHANGED <<dhcpRow, dhcpCmd, dhcpHelper, dnsmasq, dhcpDisturbed>>
      BY <1>6 DEF FillFile
    <2>2. PICK rest \in {{}, IF name = "conf" THEN dhcpFiles.conf ELSE {}} :
              dhcpFiles' = [dhcpFiles EXCEPT ![name] = FilesOf(me.row)[name] \union rest]
      BY <1>6 DEF FillFile
    <2>3. me.at \in {1, 2, 3}
      BY <1>1, <2>1 DEF Tasks, TaskRecords
    <2>4. /\ j \in Tasks /\ j.alone = me.alone /\ j.row = me.row /\ j.at = me.at + 1
          /\ j.ask = me.ask /\ j.step = me.step /\ j.open = FALSE
      <3>1. me \in TaskRecords /\ me.at + 1 \in {1, 2, 3, 4}
        BY <1>1, <2>3, SMT DEF Tasks
      <3>2. /\ j \in TaskRecords /\ j.alone = me.alone /\ j.row = me.row
            /\ j.at = me.at + 1 /\ j.ask = me.ask /\ j.step = me.step
            /\ j.open = FALSE
        BY <3>1 DEF TaskRecords
      <3> HIDE DEF j, me
      <3> QED BY <2>1, <3>2 DEF Tasks
    <2>5. /\ dhcpFiles' = [conf |-> dhcpFiles'.conf, on |-> dhcpFiles'.on,
                           tftp |-> dhcpFiles'.tftp]
          /\ me.at = 1 => dhcpFiles'.conf = FilesOf(me.row).conf \union rest
          /\ me.at = 2 => dhcpFiles'.conf = dhcpFiles.conf
                          /\ dhcpFiles'.on = FilesOf(me.row).on \union rest
          /\ me.at = 3 => dhcpFiles'.conf = dhcpFiles.conf
                          /\ dhcpFiles'.on = dhcpFiles.on
                          /\ dhcpFiles'.tftp = FilesOf(me.row).tftp \union rest
      BY <1>2, <1>3, <2>2, <2>3
    <2>6. /\ me.at = 1 => rest \in {{}, dhcpFiles.conf}
          /\ me.at # 1 => rest = {}
      BY <1>3, <2>2, <2>3
    <2>7. \/ me.alone /\ \A v \in WebProcesses \ {w} : ~Runs(v)'
          \/ DhcpInv'
      BY <1>1, <2>1, <2>4, <2>5, TaskMoves
    <2>8. DhcpTypes' /\ dhcpWriter'[w] = j
      BY <1>1, <2>1, <2>4, <2>5, TaskMoves
    <2> HIDE DEF j, me
    <2>9. ASSUME me.alone PROVE TaskFits(w)'
      <3>1. me.row = dhcpRow /\ (me.at = 1 => rest = {})
        BY <1>1, <2>1, <2>6, <2>9 DEF TaskFits, me
      <3>2. /\ me.at = 1 => dhcpFiles'.conf = FilesOf(dhcpRow).conf
            /\ me.at = 2 => dhcpFiles'.conf = FilesOf(dhcpRow).conf
                            /\ dhcpFiles'.on = FilesOf(dhcpRow).on
            /\ me.at = 3 => dhcpFiles'.conf = FilesOf(dhcpRow).conf
                            /\ dhcpFiles'.on = FilesOf(dhcpRow).on
                            /\ dhcpFiles'.tftp = FilesOf(dhcpRow).tftp
        BY <1>1, <2>1, <2>3, <2>5, <2>6, <2>9, <3>1 DEF TaskFits, me
      <3>3. /\ me.at = 1 => j.at = 2
            /\ me.at = 2 => j.at = 3
            /\ me.at = 3 => j.at = 4
        BY <2>4, SMT
      <3> QED BY <2>1, <2>3, <2>4, <2>8, <3>1, <3>2, <3>3 DEF TaskFits
    <2>10. Runs(w)' /\ (~dhcpDisturbed => dhcpWriter'[w].alone /\ StartFits(w)')
      BY <1>1, <2>1, <2>4, <2>8 DEF Runs, StartFits, Good, me
    <2> QED BY <2>1, <2>7, <2>8, <2>9, <2>10, OneWriter
  <1>7. CASE RequestApply(w)
    <2> DEFINE j == DhcpNotWriting(dhcpRow)
    <2>1. /\ me.step = "write" /\ me.at = 4
          /\ dhcpWriter' = [dhcpWriter EXCEPT ![w] = j]
          /\ dhcpCmd' = (dhcpCmd \/ me.ask)
          /\ dhcpDisturbed' = (dhcpDisturbed /\ ~(me.ask /\ me.alone))
          /\ UNCHANGED <<dhcpRow, dhcpFiles, dhcpHelper, dnsmasq>>
      BY <1>3, <1>7, SMT DEF RequestApply
    <2>2. j \in Tasks /\ j.step = "idle"
      BY <1>2 DEF Tasks, TaskRecords, DhcpNotWriting
    <2>3. /\ me.alone => \A v \in WebProcesses \ {w} : ~Runs(v)'
          /\ ~me.alone => dhcpDisturbed
          /\ ~me.alone /\ dhcpDisturbed' => DhcpInv'
          /\ DhcpTypes' /\ dhcpWriter'[w] = j
      BY <1>1, <1>2, <2>1, <2>2, TaskMoves
    <2> HIDE DEF j, me
    <2>4. CASE ~me.alone
      BY <2>1, <2>3, <2>4
    <2>5. CASE me.alone
      <3>1. dhcpFiles = FilesOf(dhcpRow)
        <4>1. /\ dhcpFiles.conf = FilesOf(dhcpRow).conf
              /\ dhcpFiles.on = FilesOf(dhcpRow).on
              /\ dhcpFiles.tftp = FilesOf(dhcpRow).tftp
          BY <1>1, <2>1, <2>5 DEF TaskFits, me
        <4> QED BY <1>2, <4>1, FilesOfForm
      <3>2. dhcpDisturbed' \/ dhcpCmd' \/ (dhcpHelper' = "poll" /\ Good')
        BY <1>1, <2>1, <2>5 DEF StartFits, Good, me
      <3>3. dhcpDisturbed' \/ IdleFits'
        BY <2>1, <3>1, <3>2 DEF IdleFits
      <3>4. ~Runs(w)'
        BY <2>2, <2>3 DEF Runs
      <3> QED BY <2>3, <2>5, <3>3, <3>4, OneWriter
    <2> QED BY <2>4, <2>5
  <1> QED BY <1>4, <1>5, <1>6, <1>7 DEF WriterStep

LEMMA DhcpKept == DhcpInv /\ [DhcpNext]_dhcpVars => DhcpInv'
  <1> SUFFICES ASSUME DhcpInv, [DhcpNext]_dhcpVars PROVE DhcpInv'
    OBVIOUS
  <1>0. /\ DhcpTypes /\ dhcpRow \in Rows
        /\ DhcpBusy = {w \in WebProcesses : Runs(w)}
    BY DhcpBusyRun DEF DhcpInv, DhcpTypes
  <1>1. ASSUME NEW w \in WebProcesses, SavePxe(w) \/ SaveDhcp(w) \/ SaveTftp(w)
        PROVE  DhcpInv'
    <2>1. PICK row \in Rows : Commit(w, row)
      BY <1>0, <1>1 DEF SavePxe, SaveDhcp, SaveTftp, Rows
    <2> QED BY <2>1, DhcpBegins DEF Commit, Runs
  <1>2. ASSUME NEW w \in WebProcesses, StartWeb(w) PROVE DhcpInv'
    BY <1>0, <1>2, DhcpBegins DEF StartWeb, Runs
  <1>3. ASSUME NEW w \in WebProcesses, WriterStep(w) PROVE DhcpInv'
    BY <1>3, TaskSteps
  <1>4. ASSUME NEW w \in WebProcesses, DhcpWriteFails(w) PROVE DhcpInv'
    <2> DEFINE j == DhcpNotWriting(dhcpRow)
    <2>1. /\ Runs(w) /\ dhcpWriter' = [dhcpWriter EXCEPT ![w] = j]
          /\ dhcpDisturbed' /\ UNCHANGED <<dhcpRow, dhcpFiles, dhcpHelper>>
      BY <1>4 DEF DhcpWriteFails, Runs
    <2>2. j \in Tasks /\ j.step = "idle"
      BY <1>0 DEF Tasks, TaskRecords, DhcpNotWriting
    <2>3. /\ DhcpTypes' /\ dhcpWriter'[w] = j
          /\ dhcpWriter[w].alone => \A v \in WebProcesses \ {w} : ~Runs(v)'
          /\ ~dhcpWriter[w].alone => DhcpInv'
      BY <1>0, <2>1, <2>2, TaskMoves DEF DhcpTypes
    <2> HIDE DEF j
    <2>4. ~Runs(w)'
      BY <2>2, <2>3 DEF Runs
    <2> QED BY <2>1, <2>3, <2>4, OneWriter
  <1>5. CASE DhcpHelperTakes
    <2>1. /\ dhcpHelper' = "read"
          /\ UNCHANGED <<dhcpRow, dhcpFiles, dhcpWriter, dnsmasq>>
          /\ dhcpDisturbed' = (dhcpDisturbed \/ \E w \in DhcpBusy : ~dhcpWriter[w].ask)
      BY <1>5 DEF DhcpHelperTakes
    <2>2. DhcpTypes'
      BY <1>0, <2>1 DEF DhcpTypes
    <2>3. /\ \A w \in WebProcesses : Runs(w)' <=> Runs(w)
          /\ \A w \in WebProcesses : Runs(w) => TaskFits(w)'
      BY <2>1 DEF DhcpInv, Runs, TaskFits
    <2>4. \A w \in WebProcesses :
              Runs(w) => dhcpDisturbed' \/ (dhcpWriter'[w].alone /\ StartFits(w)')
      BY <1>0, <2>1 DEF DhcpInv, StartFits
    <2>5. dhcpDisturbed' \/ (\E w \in WebProcesses : Runs(w)') \/ IdleFits'
      BY <2>1, <2>3 DEF DhcpInv, IdleFits
    <2> QED BY <2>1, <2>2, <2>3, <2>4, <2>5 DEF DhcpInv
  <1>6. CASE HelperStops \/ HelperStarts
    <2>1. /\ dhcpHelper \in {"read", "start"}
          /\ UNCHANGED <<dhcpRow, dhcpFiles, dhcpWriter, dhcpCmd, dhcpDisturbed>>
      BY <1>6 DEF HelperStops, HelperStarts
    <2>2. DhcpTypes'
      BY <1>0, <1>6, <2>1 DEF DhcpTypes, HelperStops, HelperStarts
    <2>3. /\ \A w \in WebProcesses : Runs(w)' <=> Runs(w)
          /\ \A w \in WebProcesses : Runs(w) => TaskFits(w)'
      BY <2>1 DEF DhcpInv, Runs, TaskFits
    <2>4. \A w \in WebProcesses :
              Runs(w) => dhcpDisturbed' \/ (dhcpWriter'[w].alone /\ StartFits(w)')
      BY <2>1 DEF DhcpInv, StartFits
    <2>5. IdleFits => IdleFits'
      <3>1. CASE HelperStops
        BY <2>1, <3>1 DEF HelperStops, IdleFits, Good, Running
      <3>2. CASE HelperStarts
        BY <2>1, <3>2 DEF HelperStarts, IdleFits, Good, Running
      <3> QED BY <1>6, <3>1, <3>2
    <2>6. dhcpDisturbed' \/ (\E w \in WebProcesses : Runs(w)') \/ IdleFits'
      BY <2>1, <2>3, <2>5 DEF DhcpInv
    <2> QED BY <2>1, <2>2, <2>3, <2>4, <2>6 DEF DhcpInv
  <1>7. CASE DhcpRestartHost
    <2>1. DhcpNotWriting(dhcpRow) \in Tasks /\ DhcpNotWriting(dhcpRow).step = "idle"
      BY <1>0 DEF Tasks, TaskRecords, DhcpNotWriting
    <2>2. DhcpTypes' /\ \A w \in WebProcesses : ~Runs(w)'
      BY <1>0, <1>7, <2>1, FilesOfForm DEF DhcpRestartHost, DhcpTypes, Runs
    <2>3. IdleFits'
      BY <1>7 DEF DhcpRestartHost, IdleFits, Good
    <2> QED BY <2>2, <2>3 DEF DhcpInv
  <1>8. CASE UNCHANGED dhcpVars
    BY <1>8 DEF dhcpVars, DhcpInv, DhcpTypes, Runs, TaskFits, StartFits, IdleFits, Good
  <1> QED BY <1>1, <1>2, <1>3, <1>4, <1>5, <1>6, <1>7, <1>8 DEF DhcpNext

(***************************************************************************)
(* dnsmasq runs with the settings of the row once everybody is done        *)
(* (_commit_runtime, write_runtime_files, the loop of entrypoint.sh), for  *)
(* any web processes, restarts and interfaces.                             *)
(***************************************************************************)
THEOREM SettingsAreServed == Spec => []SettingsServed
  <1>1. DhcpInv => SettingsServed
    BY DhcpBusyRun DEF DhcpInv, SettingsServed, DhcpSettled, IdleFits, Good
  <1> QED BY <1>1, DhcpStarts, DhcpKept, PartsRun, PTL DEF DhcpSpec
-----------------------------------------------------------------------------
(* The certificate *)

\* What may be left to do of an upload, a regeneration or a first start
UploadCrt == <<"crt", "key", "source", "reload", "load">>
UploadKey == <<"key", "source", "reload", "load">>
UploadSource == <<"source", "reload", "load">>
RegenerateCrt == <<"crt", "key", "source", "load", "reload">>
RegenerateKey == <<"key", "source", "load", "reload">>
RegenerateSource == <<"source", "load", "reload">>
ShowCrt == <<"crt", "key", "source", "load">>
ShowKey == <<"key", "source", "load">>
ShowSource == <<"source", "load">>
ReloadLoad == <<"reload", "load">>
LoadReload == <<"load", "reload">>
Load == <<"load">>
Reload == <<"reload">>

CertificateNext == {UploadCrt, RegenerateCrt, ShowCrt}
KeyNext == {UploadKey, RegenerateKey, ShowKey}
SourceNext == {UploadSource, RegenerateSource, ShowSource}
FilesDone == {ReloadLoad, LoadReload, Load, Reload}
Todos == CertificateNext \union KeyNext \union SourceNext \union FilesDone

Asks(todo) == \E k \in DOMAIN todo : todo[k] = "reload"

LEMMA TodoHeads ==
  /\ Head(UploadCrt) = "crt"
  /\ Head(UploadKey) = "key"
  /\ Head(UploadSource) = "source"
  /\ Head(RegenerateCrt) = "crt"
  /\ Head(RegenerateKey) = "key"
  /\ Head(RegenerateSource) = "source"
  /\ Head(ShowCrt) = "crt"
  /\ Head(ShowKey) = "key"
  /\ Head(ShowSource) = "source"
  /\ Head(ReloadLoad) = "reload"
  /\ Head(LoadReload) = "load"
  /\ Head(Load) = "load"
  /\ Head(Reload) = "reload"
  <1>1. Head(UploadCrt) = "crt"  BY DEF UploadCrt
  <1>2. Head(UploadKey) = "key"  BY DEF UploadKey
  <1>3. Head(UploadSource) = "source"  BY DEF UploadSource
  <1>4. Head(RegenerateCrt) = "crt"  BY DEF RegenerateCrt
  <1>5. Head(RegenerateKey) = "key"  BY DEF RegenerateKey
  <1>6. Head(RegenerateSource) = "source"  BY DEF RegenerateSource
  <1>7. Head(ShowCrt) = "crt"  BY DEF ShowCrt
  <1>8. Head(ShowKey) = "key"  BY DEF ShowKey
  <1>9. Head(ShowSource) = "source"  BY DEF ShowSource
  <1>10. Head(ReloadLoad) = "reload"  BY DEF ReloadLoad
  <1>11. Head(LoadReload) = "load"  BY DEF LoadReload
  <1>12. Head(Load) = "load"  BY DEF Load
  <1>13. Head(Reload) = "reload"  BY DEF Reload
  <1> QED BY <1>1, <1>2, <1>3, <1>4, <1>5, <1>6, <1>7, <1>8, <1>9, <1>10, <1>11, <1>12, <1>13

LEMMA TodoTails ==
  /\ Tail(UploadCrt) = UploadKey
  /\ Tail(UploadKey) = UploadSource
  /\ Tail(UploadSource) = ReloadLoad
  /\ Tail(RegenerateCrt) = RegenerateKey
  /\ Tail(RegenerateKey) = RegenerateSource
  /\ Tail(RegenerateSource) = LoadReload
  /\ Tail(ShowCrt) = ShowKey
  /\ Tail(ShowKey) = ShowSource
  /\ Tail(ShowSource) = Load
  /\ Tail(ReloadLoad) = Load
  /\ Tail(LoadReload) = Reload
  /\ Tail(Load) = <<>>
  /\ Tail(Reload) = <<>>
  <1>1. Tail(UploadCrt) = UploadKey  BY DEF UploadCrt, UploadKey
  <1>2. Tail(UploadKey) = UploadSource  BY DEF UploadKey, UploadSource
  <1>3. Tail(UploadSource) = ReloadLoad  BY DEF UploadSource, ReloadLoad
  <1>4. Tail(RegenerateCrt) = RegenerateKey  BY DEF RegenerateCrt, RegenerateKey
  <1>5. Tail(RegenerateKey) = RegenerateSource  BY DEF RegenerateKey, RegenerateSource
  <1>6. Tail(RegenerateSource) = LoadReload  BY DEF RegenerateSource, LoadReload
  <1>7. Tail(ShowCrt) = ShowKey  BY DEF ShowCrt, ShowKey
  <1>8. Tail(ShowKey) = ShowSource  BY DEF ShowKey, ShowSource
  <1>9. Tail(ShowSource) = Load  BY DEF ShowSource, Load
  <1>10. Tail(ReloadLoad) = Load  BY DEF ReloadLoad, Load
  <1>11. Tail(LoadReload) = Reload  BY DEF LoadReload, Reload
  <1>12. Tail(Load) = <<>>  BY DEF Load
  <1>13. Tail(Reload) = <<>>  BY DEF Reload
  <1> QED BY <1>1, <1>2, <1>3, <1>4, <1>5, <1>6, <1>7, <1>8, <1>9, <1>10, <1>11, <1>12, <1>13

LEMMA TodoAsks ==
  /\ Asks(UploadCrt) /\ UploadCrt # <<>>
  /\ Asks(UploadKey) /\ UploadKey # <<>>
  /\ Asks(UploadSource) /\ UploadSource # <<>>
  /\ Asks(RegenerateCrt) /\ RegenerateCrt # <<>>
  /\ Asks(RegenerateKey) /\ RegenerateKey # <<>>
  /\ Asks(RegenerateSource) /\ RegenerateSource # <<>>
  /\ ~Asks(ShowCrt) /\ ShowCrt # <<>>
  /\ ~Asks(ShowKey) /\ ShowKey # <<>>
  /\ ~Asks(ShowSource) /\ ShowSource # <<>>
  /\ Asks(ReloadLoad) /\ ReloadLoad # <<>>
  /\ Asks(LoadReload) /\ LoadReload # <<>>
  /\ ~Asks(Load) /\ Load # <<>>
  /\ Asks(Reload) /\ Reload # <<>>
  <1>1. Asks(UploadCrt) /\ UploadCrt # <<>>  BY DEF Asks, UploadCrt
  <1>2. Asks(UploadKey) /\ UploadKey # <<>>  BY DEF Asks, UploadKey
  <1>3. Asks(UploadSource) /\ UploadSource # <<>>  BY DEF Asks, UploadSource
  <1>4. Asks(RegenerateCrt) /\ RegenerateCrt # <<>>  BY DEF Asks, RegenerateCrt
  <1>5. Asks(RegenerateKey) /\ RegenerateKey # <<>>  BY DEF Asks, RegenerateKey
  <1>6. Asks(RegenerateSource) /\ RegenerateSource # <<>>  BY DEF Asks, RegenerateSource
  <1>7. ~Asks(ShowCrt) /\ ShowCrt # <<>>  BY DEF Asks, ShowCrt
  <1>8. ~Asks(ShowKey) /\ ShowKey # <<>>  BY DEF Asks, ShowKey
  <1>9. ~Asks(ShowSource) /\ ShowSource # <<>>  BY DEF Asks, ShowSource
  <1>10. Asks(ReloadLoad) /\ ReloadLoad # <<>>  BY DEF Asks, ReloadLoad
  <1>11. Asks(LoadReload) /\ LoadReload # <<>>  BY DEF Asks, LoadReload
  <1>12. ~Asks(Load) /\ Load # <<>>  BY DEF Asks, Load
  <1>13. Asks(Reload) /\ Reload # <<>>  BY DEF Asks, Reload
  <1> QED BY <1>1, <1>2, <1>3, <1>4, <1>5, <1>6, <1>7, <1>8, <1>9, <1>10, <1>11, <1>12, <1>13

LEMMA TodoSteps ==
  ASSUME NEW t \in Todos
  PROVE  /\ t # <<>>
         /\ t \in CertificateNext =>
                Head(t) = "crt" /\ Tail(t) \in KeyNext /\ (Asks(Tail(t)) <=> Asks(t))
         /\ t \in KeyNext =>
                Head(t) = "key" /\ Tail(t) \in SourceNext /\ (Asks(Tail(t)) <=> Asks(t))
         /\ t \in SourceNext =>
                Head(t) = "source" /\ Tail(t) \in FilesDone /\ (Asks(Tail(t)) <=> Asks(t))
         /\ t \in FilesDone =>
                \/ Head(t) = "reload" /\ Asks(t) /\ Tail(t) \in {Load, <<>>}
                \/ Head(t) = "load" /\ Asks(t) /\ Tail(t) = Reload
                \/ Head(t) = "load" /\ ~Asks(t) /\ Tail(t) = <<>> /\ t = Load
  <1>1. t # <<>>
    BY TodoAsks DEF Todos, CertificateNext, KeyNext, SourceNext, FilesDone
  <1>2. ASSUME t \in CertificateNext
        PROVE  Head(t) = "crt" /\ Tail(t) \in KeyNext /\ (Asks(Tail(t)) <=> Asks(t))
    BY <1>2, TodoHeads, TodoTails, TodoAsks DEF CertificateNext, KeyNext
  <1>3. ASSUME t \in KeyNext
        PROVE  Head(t) = "key" /\ Tail(t) \in SourceNext /\ (Asks(Tail(t)) <=> Asks(t))
    BY <1>3, TodoHeads, TodoTails, TodoAsks DEF KeyNext, SourceNext
  <1>4. ASSUME t \in SourceNext
        PROVE  Head(t) = "source" /\ Tail(t) \in FilesDone /\ (Asks(Tail(t)) <=> Asks(t))
    BY <1>4, TodoHeads, TodoTails, TodoAsks DEF SourceNext, FilesDone
  <1>5. ASSUME t \in FilesDone
        PROVE  \/ Head(t) = "reload" /\ Asks(t) /\ Tail(t) \in {Load, <<>>}
               \/ Head(t) = "load" /\ Asks(t) /\ Tail(t) = Reload
               \/ Head(t) = "load" /\ ~Asks(t) /\ Tail(t) = <<>> /\ t = Load
    BY <1>5, TodoHeads, TodoTails, TodoAsks DEF FilesDone
  <1> QED BY <1>1, <1>2, <1>3, <1>4, <1>5

Writers == [todo : Todos, pair : Nat \ {0}, source : Sources, alone : BOOLEAN]
Writes(p) == tlsWriter[p] \in Writers
CertFiles == [crt : Nat, key : Nat, source : Sources]

\* HTTPS serves the certificate, or is about to be restarted.
Follows == https = tlsFiles.crt \/ tlsReload \/ tlsLoop # "watch"

TlsTypes ==
    /\ tlsFiles \in CertFiles
    /\ tlsPairs \in Nat
    /\ tlsWriter \in [Processes -> Writers \union {TlsNotWriting}]

\* A handler that writes alone has written its own pair so far, and unless
\* something is to be repaired it goes on to ask for a reload, or has.
WriterFits(p) ==
    LET me == tlsWriter[p]
    IN  /\ me.alone =>
               /\ me.todo \notin CertificateNext => tlsFiles.crt = me.pair
               /\ me.todo \in SourceNext \union FilesDone => tlsFiles.key = me.pair
        /\ \/ tlsDisturbed
           \/ me.alone /\ (Asks(me.todo) \/ (me.todo = Load /\ Follows))

(***************************************************************************)
(* The inductive invariant.  At most one handler writes alone, and what it *)
(* has written fits; with nothing to repair HTTPS follows the files as     *)
(* soon as nobody writes.                                                  *)
(***************************************************************************)
TlsInv ==
    /\ TlsTypes
    /\ \A p, q \in Processes :
           Writes(p) /\ tlsWriter[p].alone /\ Writes(q) => p = q
    /\ \A p \in Processes : Writes(p) => WriterFits(p)
    /\ \/ tlsDisturbed
       \/ \E p \in Processes : Writes(p)
       \/ Whole(tlsFiles) /\ Follows

LEMMA WritersWrite == Writers \cap {TlsNotWriting} = {}
  BY TodoSteps DEF Writers, TlsNotWriting

LEMMA TlsBusyWrite ==
  ASSUME TlsTypes
  PROVE  TlsBusy = {p \in Processes : Writes(p)}
  BY WritersWrite DEF TlsTypes, TlsBusy, Writes

\* After a step of a process that writes alone, on the others' behalf
LEMMA AloneFits ==
  ASSUME TlsTypes', NEW p \in Processes,
         \A q \in Processes \ {p} : ~Writes(q)',
         Writes(p)' => WriterFits(p)',
         tlsDisturbed' \/ Writes(p)' \/ (Whole(tlsFiles) /\ Follows)'
  PROVE  TlsInv'
  <1>1. \A q \in Processes : Writes(q)' => q = p
    OBVIOUS
  <1>2. \A q \in Processes : Writes(q)' => WriterFits(q)'
    BY <1>1
  <1>3. \A q, r \in Processes :
            Writes(q)' /\ tlsWriter'[q].alone /\ Writes(r)' => q = r
    BY <1>1
  <1>4. tlsDisturbed' \/ (\E q \in Processes : Writes(q)')
            \/ (Whole(tlsFiles) /\ Follows)'
    OBVIOUS
  <1> QED BY <1>2, <1>3, <1>4 DEF TlsInv

\* After a step that leaves nobody writing alone
LEMMA NobodyAlone ==
  ASSUME TlsTypes', tlsDisturbed',
         \A q \in Processes : Writes(q)' => ~tlsWriter'[q].alone
  PROVE  TlsInv'
  <1>1. \A q \in Processes : Writes(q)' => WriterFits(q)'
    BY DEF WriterFits
  <1> QED BY <1>1 DEF TlsInv

LEMMA TlsStarts == TlsInit => TlsInv
  <1>1. TlsInit => TlsTypes
    BY DEF TlsInit, TlsTypes, CertFiles, Sources
  <1>2. TlsInit => \A p \in Processes : ~Writes(p)
    BY WritersWrite DEF TlsInit, Writes
  <1> QED BY <1>1, <1>2 DEF TlsInv, TlsInit

LEMMA TlsBegins ==
  ASSUME TlsInv, NEW p \in Processes, NEW source \in Sources,
         NEW todo \in CertificateNext, TlsBegin(p, source, todo),
         Asks(todo) \/ ~Whole(tlsFiles)
  PROVE  TlsInv'
  <1> DEFINE new == [todo |-> todo, pair |-> tlsPairs + 1, source |-> source,
                     alone |-> TlsBusy = {}]
  <1>1. /\ tlsWriter \in [Processes -> Writers \union {TlsNotWriting}]
        /\ tlsPairs \in Nat /\ tlsFiles \in CertFiles
        /\ ~Writes(p)
        /\ TlsBusy = {q \in Processes : Writes(q)}
    BY TlsBusyWrite, WritersWrite DEF TlsInv, TlsTypes, TlsBegin, Takes, Writes
  <1>2. new \in Writers
    BY <1>1, SMT DEF Writers, Todos
  <1>3. /\ tlsWriter'[p] = new
        /\ \A q \in Processes \ {p} :
               \/ Writes(q) /\ tlsWriter'[q] = [tlsWriter[q] EXCEPT !.alone = FALSE]
               \/ ~Writes(q) /\ tlsWriter'[q] = tlsWriter[q]
        /\ tlsWriter' \in [Processes -> Writers \union {TlsNotWriting}]
    <2>1. \A j \in Writers : [j EXCEPT !.alone = FALSE] \in Writers
      BY DEF Writers
    <2> QED BY <1>1, <1>2, <2>1 DEF TlsBegin, Writes
  <1>4. /\ tlsPairs' \in Nat
        /\ UNCHANGED <<tlsFiles, tlsReload, tlsLoop, https>>
        /\ tlsDisturbed' = (tlsDisturbed \/ TlsBusy # {})
    BY <1>1, SMT DEF TlsBegin
  <1>5. TlsTypes'
    BY <1>1, <1>3, <1>4 DEF TlsTypes
  <1>6. Writes(p)'
    BY <1>2, <1>3 DEF Writes
  <1>7. CASE TlsBusy = {}
    <2>1. \A q \in Processes \ {p} : ~Writes(q)'
      BY <1>1, <1>3, <1>7 DEF Writes
    <2>2. ~tlsDisturbed => Whole(tlsFiles)
      BY <1>1, <1>7 DEF TlsInv
    <2>3. WriterFits(p)'
      <3>1. todo \notin KeyNext \union SourceNext \union FilesDone
        BY TodoSteps DEF Todos
      <3>2. tlsWriter'[p].todo = todo /\ tlsWriter'[p].alone
        <4>1. (TlsBusy = {}) = TRUE
          BY <1>7
        <4>2. new.todo = todo /\ new.alone = (TlsBusy = {})
          OBVIOUS
        <4> HIDE DEF new
        <4> QED BY <1>3, <4>1, <4>2
      <3>3. tlsDisturbed' \/ Asks(todo)
        BY <1>4, <2>2
      <3>4. todo \in CertificateNext
        OBVIOUS
      <3> QED BY <3>1, <3>2, <3>3, <3>4 DEF WriterFits
    <2> QED BY <1>5, <1>6, <2>1, <2>3, AloneFits
  <1>8. CASE TlsBusy # {}
    <2>1. \A q \in Processes : Writes(q)' => ~tlsWriter'[q].alone
      BY <1>1, <1>3, <1>8 DEF Writes, Writers
    <2>2. tlsDisturbed'
      BY <1>4, <1>8
    <2> QED BY <1>5, <2>1, <2>2, NobodyAlone
  <1> QED BY <1>7, <1>8

LEMMA TlsContinues ==
  ASSUME TlsInv, NEW p \in Processes, tlsWriter[p].todo # <<>>, Continue(p),
         tlsFiles' \in CertFiles, UNCHANGED tlsPairs
  PROVE  LET me == tlsWriter[p]
         IN  /\ TlsTypes' /\ Writes(p) /\ me \in Writers
             /\ Tail(me.todo) = <<>> => ~Writes(p)'
             /\ Tail(me.todo) # <<>> =>
                    Writes(p)' /\ tlsWriter'[p] = [me EXCEPT !.todo = Tail(me.todo)]
             /\ tlsDisturbed' = (tlsDisturbed /\ ~(me.alone /\ Asks(me.todo)))
             /\ me.alone => \A q \in Processes \ {p} : ~Writes(q)'
             /\ ~me.alone => TlsInv'
  <1> DEFINE me == tlsWriter[p]
             rest == Tail(me.todo)
  <1>1. TlsTypes /\ me \in Writers /\ Writes(p)
    BY DEF TlsInv, TlsTypes, TlsNotWriting, Writes
  <1>2. me.todo \in Todos
    BY <1>1 DEF Writers
  <1>3. rest \in Todos \union {<<>>}
    BY <1>2, TodoSteps DEF Todos, FilesDone
  <1>4. /\ tlsWriter' = [tlsWriter EXCEPT
               ![p] = IF rest = <<>> THEN TlsNotWriting ELSE [me EXCEPT !.todo = rest]]
        /\ tlsDisturbed' = (tlsDisturbed /\ ~(me.alone /\ Asks(me.todo)))
    BY DEF Continue, Asks
  <1>5. rest # <<>> => [me EXCEPT !.todo = rest] \in Writers
    BY <1>1, <1>3 DEF Writers
  <1>6. tlsWriter'[p] = IF rest = <<>> THEN TlsNotWriting ELSE [me EXCEPT !.todo = rest]
    BY <1>1, <1>4 DEF TlsTypes
  <1>7. \A q \in Processes \ {p} : tlsWriter'[q] = tlsWriter[q]
    BY <1>1, <1>4 DEF TlsTypes
  <1>8. TlsTypes'
    BY <1>1, <1>4, <1>5 DEF TlsTypes
  <1>9. /\ rest = <<>> => ~Writes(p)'
        /\ rest # <<>> => Writes(p)' /\ tlsWriter'[p] = [me EXCEPT !.todo = rest]
    BY <1>5, <1>6, WritersWrite DEF Writes
  <1>10. me.alone => \A q \in Processes \ {p} : ~Writes(q)'
    BY <1>1, <1>7 DEF TlsInv, Writes
  <1>11. ASSUME ~me.alone PROVE TlsInv'
    <2>1. tlsDisturbed
      BY <1>1, <1>11 DEF TlsInv, WriterFits
    <2>2. ASSUME NEW q \in Processes, Writes(q)' PROVE ~tlsWriter'[q].alone
      <3>1. CASE q = p
        BY <1>6, <1>9, <1>1, <1>11, <2>2, <3>1 DEF Writers
      <3>2. CASE q # p
        BY <1>1, <1>7, <2>2, <3>2 DEF TlsInv, Writes
      <3> QED BY <3>1, <3>2
    <2> QED BY <1>4, <1>8, <1>11, <2>1, <2>2, NobodyAlone
  <1> HIDE DEF me, rest
  <1> QED BY <1>1, <1>4, <1>8, <1>9, <1>10, <1>11 DEF me, rest

LEMMA TlsWrites ==
  ASSUME TlsInv, NEW p \in Processes,
         \/ WriteCertificate(p) \/ WriteKey(p) \/ WriteSource(p)
         \/ LoadPair(p) \/ RequestReload(p)
  PROVE  TlsInv'
  <1> DEFINE me == tlsWriter[p]
             t == me.todo
  <1>1. /\ t # <<>> /\ Continue(p) /\ tlsPairs' = tlsPairs
        /\ tlsFiles \in CertFiles /\ me \in Writers \union {TlsNotWriting}
    BY DEF WriteCertificate, WriteKey, WriteSource, LoadPair, RequestReload,
           ReplaceFile, NextIs, TlsInv, TlsTypes
  <1>2. me \in Writers
    BY <1>1 DEF TlsNotWriting
  <1>3. t \in Todos /\ me.pair \in Nat \ {0} /\ me.source \in Sources
    BY <1>2 DEF Writers
  <1>4. tlsFiles' \in CertFiles
    BY <1>1, <1>3 DEF WriteCertificate, WriteKey, WriteSource, LoadPair,
       RequestReload, ReplaceFile, CertFiles
  <1> SUFFICES ASSUME me.alone PROVE TlsInv'
    BY <1>1, <1>4, TlsContinues
  <1>5. /\ TlsTypes' /\ Writes(p)
        /\ Tail(t) = <<>> => ~Writes(p)'
        /\ Tail(t) # <<>> => Writes(p)' /\ tlsWriter'[p] = [me EXCEPT !.todo = Tail(t)]
        /\ tlsDisturbed' = (tlsDisturbed /\ ~Asks(t))
        /\ \A q \in Processes \ {p} : ~Writes(q)'
    BY <1>1, <1>4, TlsContinues
  <1>6. WriterFits(p)
    BY <1>5 DEF TlsInv
  <1>7. tlsDisturbed' => tlsDisturbed /\ ~Asks(t)
    BY <1>5
  <1>8. ~tlsDisturbed' => Asks(t) \/ (t = Load /\ Follows)
    BY <1>5, <1>6 DEF WriterFits
  <1>9. Tail(t) # <<>> => /\ tlsWriter'[p].todo = Tail(t)
                          /\ tlsWriter'[p].pair = me.pair
                          /\ tlsWriter'[p].alone
    BY <1>2, <1>5 DEF Writers
  <1> HIDE DEF me, t
  <1>10. CASE WriteCertificate(p)
    <2>1. /\ Head(t) = "crt" /\ tlsFiles'.crt = me.pair
      BY <1>1, <1>10 DEF WriteCertificate, ReplaceFile, NextIs, CertFiles, me, t
    <2>2. /\ Tail(t) \in KeyNext /\ (Asks(Tail(t)) <=> Asks(t))
          /\ t # Load /\ Tail(t) # <<>>
      <3>1. t \in CertificateNext /\ t # Load
        BY <1>3, <2>1, TodoSteps, TodoHeads DEF Todos
      <3>2. Tail(t) \in KeyNext /\ (Asks(Tail(t)) <=> Asks(t))
        BY <1>3, <3>1, TodoSteps
      <3> QED BY <3>1, <3>2, TodoSteps DEF Todos
    <2>3. Tail(t) \notin SourceNext \union FilesDone
      BY <2>2, TodoSteps DEF Todos
    <2>4. WriterFits(p)'
      BY <1>8, <1>9, <2>1, <2>2, <2>3 DEF WriterFits
    <2> QED BY <1>5, <2>2, <2>4, AloneFits
  <1>11. CASE WriteKey(p)
    <2>1. /\ Head(t) = "key" /\ tlsFiles'.key = me.pair /\ tlsFiles'.crt = tlsFiles.crt
      BY <1>1, <1>11 DEF WriteKey, ReplaceFile, NextIs, CertFiles, me, t
    <2>2. /\ Tail(t) \in SourceNext /\ (Asks(Tail(t)) <=> Asks(t))
          /\ t # Load /\ Tail(t) # <<>> /\ t \notin CertificateNext
      <3>1. t \in KeyNext /\ t \notin CertificateNext /\ t # Load
        BY <1>3, <2>1, TodoSteps, TodoHeads DEF Todos
      <3>2. Tail(t) \in SourceNext /\ (Asks(Tail(t)) <=> Asks(t))
        BY <1>3, <3>1, TodoSteps
      <3> QED BY <3>1, <3>2, TodoSteps DEF Todos
    <2>3. tlsFiles.crt = me.pair
      BY <1>6, <2>2 DEF WriterFits, me, t
    <2>4. WriterFits(p)'
      BY <1>8, <1>9, <2>1, <2>2, <2>3 DEF WriterFits
    <2> QED BY <1>5, <2>2, <2>4, AloneFits
  <1>12. CASE WriteSource(p)
    <2>1. /\ Head(t) = "source"
          /\ tlsFiles'.key = tlsFiles.key /\ tlsFiles'.crt = tlsFiles.crt
      BY <1>1, <1>12 DEF WriteSource, ReplaceFile, NextIs, CertFiles, me, t
    <2>2. /\ t \in SourceNext /\ Tail(t) \in FilesDone /\ (Asks(Tail(t)) <=> Asks(t))
          /\ t # Load /\ Tail(t) # <<>> /\ t \notin CertificateNext
      <3>1. t \in SourceNext /\ t \notin CertificateNext /\ t # Load
        BY <1>3, <2>1, TodoSteps, TodoHeads DEF Todos
      <3>2. Tail(t) \in FilesDone /\ (Asks(Tail(t)) <=> Asks(t))
        BY <1>3, <3>1, TodoSteps
      <3> QED BY <3>1, <3>2, TodoSteps DEF Todos
    <2>3. tlsFiles.crt = me.pair /\ tlsFiles.key = me.pair
      BY <1>6, <2>2 DEF WriterFits, me, t
    <2>4. WriterFits(p)'
      BY <1>8, <1>9, <2>1, <2>2, <2>3 DEF WriterFits
    <2> QED BY <1>5, <2>2, <2>4, AloneFits
  <1>13. CASE LoadPair(p)
    <2>1. /\ Head(t) = "load" /\ Whole(tlsFiles)
          /\ UNCHANGED <<tlsFiles, tlsReload, tlsLoop, https>>
      BY <1>1, <1>13 DEF LoadPair, NextIs, me, t
    <2>2. /\ t \in FilesDone /\ t \notin CertificateNext
          /\ \/ Asks(t) /\ Tail(t) = Reload
             \/ ~Asks(t) /\ Tail(t) = <<>>
      BY <1>3, <2>1, TodoSteps DEF Todos
    <2>3. tlsFiles.crt = me.pair /\ tlsFiles.key = me.pair
      BY <1>6, <2>2 DEF WriterFits, me, t
    <2>4. CASE Tail(t) = Reload
      <3>1. Tail(t) # <<>> /\ Asks(Tail(t))
        BY <2>4, TodoAsks
      <3>2. WriterFits(p)'
        BY <1>9, <2>1, <2>3, <3>1 DEF WriterFits
      <3> QED BY <1>5, <3>1, <3>2, AloneFits
    <2>5. CASE ~Asks(t) /\ Tail(t) = <<>>
      <3>1. ~tlsDisturbed' => Follows
        BY <1>8, <2>5
      <3>2. tlsDisturbed' \/ (Whole(tlsFiles) /\ Follows)'
        BY <2>1, <3>1 DEF Whole, Follows
      <3> QED BY <1>5, <2>5, <3>2, AloneFits
    <2> QED BY <2>2, <2>4, <2>5
  <1>14. CASE RequestReload(p)
    <2>1. /\ Head(t) = "reload" /\ tlsReload' = TRUE /\ tlsFiles' = tlsFiles
      BY <1>1, <1>14 DEF RequestReload, NextIs, me, t
    <2>2. /\ t \in FilesDone /\ t \notin CertificateNext
          /\ Asks(t) /\ Tail(t) \in {Load, <<>>}
      BY <1>3, <2>1, TodoSteps DEF Todos
    <2>3. tlsFiles.crt = me.pair /\ tlsFiles.key = me.pair
      BY <1>6, <2>2 DEF WriterFits, me, t
    <2>4. Follows'
      BY <2>1 DEF Follows
    <2>5. CASE Tail(t) = Load
      <3>1. Tail(t) # <<>>
        BY <2>5, TodoAsks
      <3>2. WriterFits(p)'
        BY <1>9, <2>1, <2>3, <2>4, <2>5, <3>1 DEF WriterFits
      <3> QED BY <1>5, <3>1, <3>2, AloneFits
    <2>6. CASE Tail(t) = <<>>
      <3>1. Whole(tlsFiles)'
        BY <1>3, <2>1, <2>3 DEF Whole, me
      <3> QED BY <1>5, <2>4, <2>6, <3>1, AloneFits
    <2> QED BY <2>2, <2>5, <2>6
  <1> QED BY <1>10, <1>11, <1>12, <1>13, <1>14

LEMMA TlsKept == TlsInv /\ [TlsNext]_tlsVars => TlsInv'
  <1> SUFFICES ASSUME TlsInv, [TlsNext]_tlsVars PROVE TlsInv'
    OBVIOUS
  <1>0. /\ TlsTypes /\ tlsPairs \in Nat /\ tlsFiles \in CertFiles
        /\ tlsFiles.crt \in Nat
    BY DEF TlsInv, TlsTypes, CertFiles
  <1>1. ASSUME NEW p \in Processes, Upload(p) \/ Regenerate(p) \/ ShowWithout(p)
        PROVE  TlsInv'
    <2>1. PICK todo \in CertificateNext, source \in Sources :
              TlsBegin(p, source, todo) /\ (Asks(todo) \/ ~Whole(tlsFiles))
      BY <1>1, TodoAsks DEF Upload, Regenerate, ShowWithout, CertificateNext,
         UploadCrt, RegenerateCrt, ShowCrt, Sources, Whole
    <2> QED BY <2>1, TlsBegins
  <1>2. ASSUME NEW p \in Processes, ShowUnnoted(p) PROVE TlsInv'
    <2>1. /\ tlsFiles' \in CertFiles
          /\ tlsFiles'.crt = tlsFiles.crt /\ tlsFiles'.key = tlsFiles.key
          /\ UNCHANGED <<tlsReload, tlsWriter, tlsLoop, tlsPairs, https, tlsDisturbed>>
      BY <1>0, <1>2 DEF ShowUnnoted, CertFiles, Sources
    <2> QED BY <2>1 DEF TlsInv, TlsTypes, Writes, WriterFits, Whole, Follows
  <1>3. ASSUME NEW p \in Processes,
               \/ WriteCertificate(p) \/ WriteKey(p) \/ WriteSource(p)
               \/ LoadPair(p) \/ RequestReload(p)
        PROVE  TlsInv'
    BY <1>3, TlsWrites
  <1>4. ASSUME NEW p \in Processes, TlsWriteFails(p) \/ (HttpsDies /\ p = "https")
        PROVE  TlsInv'
    <2>1. /\ tlsWriter' = [tlsWriter EXCEPT ![p] = TlsNotWriting]
          /\ tlsDisturbed' /\ UNCHANGED <<tlsFiles, tlsPairs>>
      BY <1>4 DEF TlsWriteFails, HttpsDies
    <2>2. /\ TlsTypes'
          /\ \A q \in Processes : Writes(q)' => Writes(q) /\ tlsWriter'[q] = tlsWriter[q]
      BY <1>0, <2>1, WritersWrite DEF TlsTypes, Writes
    <2>3. \A q \in Processes : Writes(q)' => WriterFits(q)'
      BY <2>1, <2>2 DEF TlsInv, WriterFits
    <2> QED BY <2>1, <2>2, <2>3 DEF TlsInv
  <1>5. CASE LoopTakes \/ LoopStops
    <2>1. /\ UNCHANGED <<tlsFiles, tlsWriter, tlsPairs, tlsDisturbed>>
          /\ Follows'
      BY <1>5 DEF LoopTakes, LoopStops, Follows
    <2> QED BY <2>1 DEF TlsInv, TlsTypes, Writes, WriterFits, Whole
  <1>6. CASE LoopStarts
    <2>1. /\ UNCHANGED <<tlsFiles, tlsWriter, tlsPairs, tlsDisturbed>>
          /\ Whole(tlsFiles) => Follows'
      BY <1>6 DEF LoopStarts, Served, Follows
    <2>2. \A p \in Processes : Writes(p)' => WriterFits(p)'
      <3> SUFFICES ASSUME NEW p \in Processes, Writes(p)' PROVE WriterFits(p)'
        OBVIOUS
      <3>1. Writes(p) /\ WriterFits(p)
        BY <2>1 DEF TlsInv, Writes
      <3>2. tlsWriter[p].pair \in Nat \ {0} /\ tlsWriter[p].todo \in Todos
        BY <3>1 DEF Writes, Writers
      <3>3. Load \in FilesDone /\ Load \notin CertificateNext
        BY TodoHeads, TodoSteps DEF Todos, FilesDone
      <3>4. ASSUME tlsWriter[p].alone, tlsWriter[p].todo = Load PROVE Whole(tlsFiles)
        BY <3>1, <3>2, <3>3, <3>4 DEF WriterFits, Whole
      <3> QED BY <2>1, <3>1, <3>4 DEF WriterFits
    <2>3. tlsDisturbed' \/ (\E p \in Processes : Writes(p)') \/ (Whole(tlsFiles) /\ Follows)'
      BY <2>1 DEF TlsInv, Writes, Whole
    <2>4. TlsTypes'
      BY <1>0, <2>1 DEF TlsTypes
    <2>5. \A p, q \in Processes :
              Writes(p)' /\ tlsWriter'[p].alone /\ Writes(q)' => p = q
      BY <2>1 DEF TlsInv, Writes
    <2> QED BY <2>2, <2>3, <2>4, <2>5 DEF TlsInv
  <1>7. CASE TlsRestartHost
    <2>1. /\ tlsFiles' \in CertFiles /\ tlsPairs' \in Nat
          /\ StartOn(tlsFiles')
      <3>1. CASE tlsFiles.crt = 0 /\ tlsPairs' = tlsPairs + 1
                 /\ StartOn([crt |-> tlsPairs + 1, key |-> tlsPairs + 1,
                             source |-> "self-signed"])
        <4>1. tlsPairs + 1 \in Nat
          BY <1>0, SMT
        <4> QED BY <3>1, <4>1 DEF StartOn, CertFiles, Sources
      <3>2. CASE /\ StartOn([tlsFiles EXCEPT !.source =
                         IF Whole(tlsFiles) /\ @ = "none" THEN "operator" ELSE @])
                 /\ UNCHANGED tlsPairs
        BY <1>0, <3>2 DEF StartOn, CertFiles, Sources
      <3> QED BY <1>7, <3>1, <3>2 DEF TlsRestartHost
    <2>2. /\ TlsTypes' /\ \A q \in Processes : ~Writes(q)'
      BY <2>1, WritersWrite DEF StartOn, TlsTypes, Writes
    <2>3. tlsDisturbed' \/ (Whole(tlsFiles) /\ Follows)'
      BY <2>1 DEF StartOn, Served, Whole, Follows
    <2> QED BY <2>2, <2>3 DEF TlsInv
  <1>8. CASE UNCHANGED tlsVars
    BY <1>8 DEF tlsVars, TlsInv, TlsTypes, Writes, WriterFits, Whole, Follows
  <1>9. "https" \in Processes
    BY DEF Processes
  <1> QED BY <1>1, <1>2, <1>3, <1>4, <1>5, <1>6, <1>7, <1>8, <1>9 DEF TlsNext

(***************************************************************************)
(* HTTPS serves the certificate of the files, and it fits the key, once    *)
(* everybody is done (install_pem, ensure_tls_material, run-web.sh), for   *)
(* any number of certificates, crashes and restarts.                       *)
(***************************************************************************)
THEOREM PairIsServed == Spec => []HttpsServesThePair
  <1>1. TlsInv => HttpsServesThePair
    BY TlsBusyWrite DEF TlsInv, HttpsServesThePair, TlsSettled, Follows
  <1> QED BY <1>1, TlsStarts, TlsKept, PartsRun, PTL DEF TlsSpec
-----------------------------------------------------------------------------
(* Lists of install sources: each item stands for a row of the disc's list *)

LinuxFit(x, listing) ==
    x.id # "" /\ x.wim = 0 /\ \E j \in DOMAIN listing : listing[j].name = x.id

WimFit(x, listing) ==
    /\ x.id # "" /\ x.wim \in Nat \ {0}
    /\ \E j \in DOMAIN listing :
           /\ listing[j].index = x.wim
           /\ x.id = IF listing[j].name = "" THEN UnnamedId(x.wim)
                     ELSE listing[j].name

IsList(t) == \E S : t \in Seq(S)

LinuxList(t, listing) ==
    IsList(t) /\ \A k \in DOMAIN t : LinuxFit(t[k], listing)

WimList(t, listing) ==
    IsList(t) /\ \A k \in DOMAIN t : WimFit(t[k], listing)

\* Each element of t is one of the elements of s at keep.
Samples(t, s, keep) == \A i \in DOMAIN t : \E k \in keep : t[i] = s[k]

LEMMA ListDomain ==
  ASSUME NEW t, IsList(t)
  PROVE  /\ DOMAIN t = 1..Len(t) /\ Len(t) \in Nat
         /\ t # <<>> => 1 \in DOMAIN t
  <1>1. PICK S : t \in Seq(S)
    BY DEF IsList
  <1> QED BY <1>1

LEMMA PickedSamples ==
  ASSUME NEW items, IsList(items), NEW keep \in SUBSET (DOMAIN items)
  PROVE  IsList(Picked(items, keep)) /\ Samples(Picked(items, keep), items, keep)
  <1>1. PICK S : items \in Seq(S)
    BY DEF IsList
  <1>2. PICK t : t = Picked(items, keep)
    OBVIOUS
  <1>3. t \in Seq({items[k] : k \in keep})
    BY <1>1, <1>2, PickedWithin
  <1>4. \A i \in DOMAIN t : t[i] \in {items[k] : k \in keep}
    BY <1>3
  <1> QED BY <1>2, <1>3, <1>4 DEF IsList, Samples

\* A function on the positions of a list is a list.
LEMMA MappedList ==
  ASSUME NEW s, IsList(s), NEW t, DOMAIN t = DOMAIN s, t = [k \in DOMAIN t |-> t[k]]
  PROVE  IsList(t)
  <1>1. DOMAIN t = 1..Len(s) /\ Len(s) \in Nat
    BY ListDomain
  <1>2. t \in [1..Len(s) -> {t[k] : k \in DOMAIN t}]
    BY <1>1
  <1>3. t \in Seq({t[k] : k \in DOMAIN t})
    BY <1>1, <1>2
  <1> QED BY <1>3 DEF IsList

LEMMA LinuxSourcesFit ==
  ASSUME NEW listing, IsList(listing)
  PROVE  LinuxList(LinuxSources(listing), listing)
  <1>1. PICK items : items = LinuxItems(listing)
    OBVIOUS
  <1>2. PICK keep : keep = FirstNamed(items)
    OBVIOUS
  <1>3. PICK t : t = LinuxSources(listing)
    OBVIOUS
  <1>4. t = Picked(items, keep)
    BY <1>1, <1>2, <1>3 DEF LinuxSources
  <1>5. /\ DOMAIN items = DOMAIN listing
        /\ items = [k \in DOMAIN items |-> items[k]]
        /\ \A k \in DOMAIN items : items[k].id = listing[k].name /\ items[k].wim = 0
    BY <1>1 DEF LinuxItems
  <1>6. IsList(items)
    BY <1>5, MappedList
  <1>7. keep \in SUBSET (DOMAIN items) /\ \A k \in keep : items[k].id # ""
    BY <1>2 DEF FirstNamed
  <1>8. IsList(t) /\ Samples(t, items, keep)
    BY <1>4, <1>6, <1>7, PickedSamples
  <1>9. ASSUME NEW i \in DOMAIN t PROVE LinuxFit(t[i], listing)
    <2>1. PICK k \in keep : t[i] = items[k]
      BY <1>8 DEF Samples
    <2> QED BY <1>5, <1>7, <2>1 DEF LinuxFit
  <1> QED BY <1>3, <1>8, <1>9 DEF LinuxList

LEMMA ReadBackFacts ==
  ASSUME NEW items, IsList(items)
  PROVE  /\ IsList(ReadBack(items))
         /\ DOMAIN ReadBack(items) = DOMAIN items
         /\ \A k \in DOMAIN items :
                /\ ReadBack(items)[k].id = items[k].id
                /\ ReadBack(items)[k].wim =
                       IF items[k].wim < 1 THEN 0 ELSE items[k].wim
  <1>1. PICK t : t = ReadBack(items)
    OBVIOUS
  <1>2. /\ DOMAIN t = DOMAIN items /\ t = [k \in DOMAIN t |-> t[k]]
        /\ \A k \in DOMAIN items :
               /\ t[k].id = items[k].id
               /\ t[k].wim = IF items[k].wim < 1 THEN 0 ELSE items[k].wim
    BY <1>1 DEF ReadBack
  <1>3. IsList(t)
    BY <1>2, MappedList
  <1> QED BY <1>1, <1>2, <1>3

LEMMA StoredSamples ==
  ASSUME NEW items, IsList(items)
  PROVE  /\ IsList(Stored(items))
         /\ \A i \in DOMAIN Stored(items) : \E k \in DOMAIN items :
                /\ Stored(items)[i].id = items[k].id
                /\ Stored(items)[i].wim =
                       IF items[k].wim < 1 THEN 0 ELSE items[k].wim
  <1>1. PICK read : read = ReadBack(items)
    OBVIOUS
  <1>2. PICK keep : keep = FirstNamed(read)
    OBVIOUS
  <1>3. PICK t : t = Stored(items)
    OBVIOUS
  <1>4. t = Picked(read, keep)
    BY <1>1, <1>2, <1>3 DEF Stored
  <1>5. /\ IsList(read) /\ DOMAIN read = DOMAIN items
        /\ \A k \in DOMAIN items :
               /\ read[k].id = items[k].id
               /\ read[k].wim = IF items[k].wim < 1 THEN 0 ELSE items[k].wim
    BY <1>1, ReadBackFacts
  <1>6. keep \in SUBSET (DOMAIN read)
    BY <1>2 DEF FirstNamed
  <1>7. IsList(t) /\ Samples(t, read, keep)
    BY <1>4, <1>5, <1>6, PickedSamples
  <1>8. ASSUME NEW i \in DOMAIN t
        PROVE  \E k \in DOMAIN items :
                   /\ t[i].id = items[k].id
                   /\ t[i].wim = IF items[k].wim < 1 THEN 0 ELSE items[k].wim
    <2>1. PICK k \in keep : t[i] = read[k]
      BY <1>7 DEF Samples
    <2>2. k \in DOMAIN items
      BY <1>5, <1>6
    <2> QED BY <1>5, <2>1, <2>2
  <1> QED BY <1>3, <1>7, <1>8

\* The list of a Linux disc, as stored
LEMMA LinuxStored ==
  ASSUME NEW listing, IsList(listing)
  PROVE  LinuxList(Stored(LinuxSources(listing)), listing)
  <1>1. PICK items : items = LinuxSources(listing)
    OBVIOUS
  <1>2. IsList(items) /\ \A k \in DOMAIN items : LinuxFit(items[k], listing)
    BY <1>1, LinuxSourcesFit DEF LinuxList
  <1>3. PICK t : t = Stored(items)
    OBVIOUS
  <1>4. IsList(t)
    BY <1>2, <1>3, StoredSamples
  <1>5. ASSUME NEW i \in DOMAIN t PROVE LinuxFit(t[i], listing)
    <2>1. PICK k \in DOMAIN items :
              /\ t[i].id = items[k].id
              /\ t[i].wim = IF items[k].wim < 1 THEN 0 ELSE items[k].wim
      BY <1>2, <1>3, StoredSamples
    <2> QED BY <1>2, <2>1 DEF LinuxFit
  <1> QED BY <1>1, <1>3, <1>4, <1>5 DEF LinuxList
-----------------------------------------------------------------------------
(* Sorted: the items, by index *)

\* The recursive function in Sorted, up to n
Builds(f, n, items) ==
    f = [m \in 0..n |-> IF m = 0 THEN <<>>
                        ELSE f[m - 1] \o Picked(items, AtIndex(items, m))]

LEMMA BuildsExists ==
  ASSUME NEW items, NEW c \in Nat
  PROVE  \E f : Builds(f, c, items)
  <1> DEFINE Reached == {n \in 0..c : \E f : Builds(f, n, items)}
  <1>1. 0 \in Reached
    <2>1. Builds([m \in 0..0 |-> <<>>], 0, items)
      BY DEF Builds
    <2> QED BY <2>1
  <1>2. ASSUME NEW n \in 0..c, n \in Reached, n < c PROVE n + 1 \in Reached
    <2>1. PICK f : Builds(f, n, items)
      BY <1>2
    <2> DEFINE g == [m \in 0..(n + 1) |->
                        IF m <= n THEN f[m]
                        ELSE f[n] \o Picked(items, AtIndex(items, m))]
    <2>2. \A m \in 0..n : f[m] =
              IF m = 0 THEN <<>>
              ELSE f[m - 1] \o Picked(items, AtIndex(items, m))
      BY <2>1 DEF Builds
    <2>3. ASSUME NEW m \in 0..(n + 1)
          PROVE  g[m] = IF m = 0 THEN <<>>
                        ELSE g[m - 1] \o Picked(items, AtIndex(items, m))
      <3>1. CASE m <= n
        <4>1. m \in 0..n /\ g[m] = f[m] /\ (m # 0 => g[m - 1] = f[m - 1])
          BY <3>1
        <4> HIDE DEF g
        <4> QED BY <2>2, <4>1
      <3>2. CASE m = n + 1
        <4>1. m # 0 /\ m - 1 = n /\ ~(m <= n) /\ n \in 0..(n + 1)
          BY <3>2
        <4>2. g[n] = f[n]
          BY <4>1
        <4> QED BY <4>1, <4>2
      <3> QED BY <3>1, <3>2
    <2>4. g = [m \in 0..(n + 1) |-> g[m]]
      OBVIOUS
    <2> HIDE DEF g
    <2>5. Builds(g, n + 1, items)
      BY <2>3, <2>4 DEF Builds
    <2>6. n + 1 \in 0..c
      BY <1>2
    <2> QED BY <2>5, <2>6
  <1>3. Reached \in SUBSET (0..c)
    OBVIOUS
  <1> HIDE DEF Reached
  <1>4. Reached = 0..c
    BY <1>1, <1>2, <1>3, Counting
  <1>5. c \in Reached
    BY <1>4
  <1> QED BY <1>5 DEF Reached

\* The indexes of a list have a largest one.
LEMMA LastIndex ==
  ASSUME NEW items, IsList(items), \A k \in DOMAIN items : items[k].wim \in Nat
  PROVE  Max({0} \union {items[k].wim : k \in DOMAIN items}) \in Nat
  <1>1. PICK n : n = Len(items)
    OBVIOUS
  <1>2. n \in Nat /\ DOMAIN items = 1..n
    BY <1>1, ListDomain
  <1> DEFINE Reached == {m \in 0..n : \E b \in Nat : \A k \in 1..m : items[k].wim <= b}
  <1>3. 0 \in Reached
    BY <1>2
  <1>4. ASSUME NEW m \in 0..n, m \in Reached, m < n PROVE m + 1 \in Reached
    <2>1. PICK b \in Nat : \A k \in 1..m : items[k].wim <= b
      BY <1>4
    <2>2. m + 1 \in 1..n /\ m + 1 \in 0..n
      BY <1>2, <1>4
    <2>3. items[m + 1].wim \in Nat
      BY <1>2, <2>2
    <2>4. PICK x \in Nat : x = items[m + 1].wim
      BY <2>3
    <2>5. b + x \in Nat /\ \A k \in 1..(m + 1) : k = m + 1 \/ k \in 1..m
      BY <1>4
    <2>6. \A k \in 1..(m + 1) : items[k].wim <= b + x
      <3> SUFFICES ASSUME NEW k \in 1..(m + 1) PROVE items[k].wim <= b + x
        OBVIOUS
      <3>1. CASE k = m + 1
        BY <2>4, <3>1
      <3>2. CASE k \in 1..m
        <4>1. k \in 1..n
          BY <1>2, <1>4, <3>2
        <4>2. items[k].wim \in Nat /\ items[k].wim <= b
          BY <1>2, <2>1, <3>2, <4>1
        <4> QED BY <4>2
      <3> QED BY <2>5, <3>1, <3>2
    <2> QED BY <2>2, <2>5, <2>6
  <1>5. Reached \in SUBSET (0..n)
    OBVIOUS
  <1> HIDE DEF Reached
  <1>6. n \in Reached
    BY <1>2, <1>3, <1>4, <1>5, Counting
  <1>7. PICK b \in Nat : \A k \in 1..n : items[k].wim <= b
    BY <1>6 DEF Reached
  <1>8. PICK S : S = {0} \union {items[k].wim : k \in DOMAIN items}
    OBVIOUS
  <1>9. S \in SUBSET (0..b) /\ S # {}
    <2>1. \A k \in DOMAIN items : items[k].wim \in 0..b
      BY <1>2, <1>7
    <2> QED BY <1>8, <2>1
  <1>10. \E x \in S : \A y \in S : x >= y
    BY <1>9, LargestExists
  <1>11. Max(S) \in S
    BY <1>10 DEF Max
  <1> QED BY <1>8, <1>9, <1>11

LEMMA SortedSamples ==
  ASSUME NEW items, IsList(items), \A k \in DOMAIN items : items[k].wim \in Nat
  PROVE  IsList(Sorted(items)) /\ Samples(Sorted(items), items, DOMAIN items)
  <1>1. PICK c : c = Max({0} \union {items[k].wim : k \in DOMAIN items})
    OBVIOUS
  <1>2. c \in Nat
    BY <1>1, LastIndex
  <1>3. PICK f : f = CHOOSE g : Builds(g, c, items)
    OBVIOUS
  <1>4. Builds(f, c, items)
    BY <1>2, <1>3, BuildsExists
  <1>5. Sorted(items) = f[c]
    BY <1>1, <1>3 DEF Sorted, Builds
  <1>6. PICK E : E = {items[k] : k \in DOMAIN items}
    OBVIOUS
  <1> DEFINE Reached == {n \in 0..c : f[n] \in Seq(E)}
  <1>7. 0 \in Reached
    BY <1>2, <1>4 DEF Builds
  <1>8. ASSUME NEW n \in 0..c, n \in Reached, n < c PROVE n + 1 \in Reached
    <2>1. n + 1 \in 0..c /\ n + 1 # 0 /\ (n + 1) - 1 = n
      BY <1>2, <1>8
    <2>2. f[n + 1] = f[n] \o Picked(items, AtIndex(items, n + 1))
      BY <1>4, <2>1 DEF Builds
    <2>3. PICK keep : keep = AtIndex(items, n + 1)
      OBVIOUS
    <2>4. keep \in SUBSET (DOMAIN items)
      BY <2>3 DEF AtIndex
    <2>5. PICK S : items \in Seq(S)
      BY DEF IsList
    <2>6. Picked(items, keep) \in Seq({items[k] : k \in keep})
      BY <2>4, <2>5, PickedWithin
    <2>7. {items[k] : k \in keep} \subseteq E
      BY <1>6, <2>4
    <2>8. Picked(items, keep) \in Seq(E)
      BY <2>6, <2>7
    <2>9. f[n] \in Seq(E)
      BY <1>8
    <2>10. PICK more \in Seq(E) : more = Picked(items, keep)
      BY <2>8
    <2>11. f[n + 1] = f[n] \o more
      BY <2>2, <2>3, <2>10
    <2>12. f[n + 1] \in Seq(E)
      BY <2>9, <2>11
    <2> QED BY <2>1, <2>12
  <1>9. Reached \in SUBSET (0..c)
    OBVIOUS
  <1> HIDE DEF Reached
  <1>10. c \in Reached
    BY <1>2, <1>7, <1>8, <1>9, Counting
  <1>11. Sorted(items) \in Seq(E)
    BY <1>5, <1>10 DEF Reached
  <1>12. \A i \in DOMAIN Sorted(items) : Sorted(items)[i] \in E
    BY <1>11
  <1> QED BY <1>6, <1>11, <1>12 DEF IsList, Samples

LEMMA WimSourcesFit ==
  ASSUME NEW listing, IsList(listing),
         \A k \in DOMAIN listing : listing[k].index \in Int
  PROVE  WimList(WimSources(listing), listing)
  <1>1. PICK items : items = WimItems(listing)
    OBVIOUS
  <1>2. PICK keep : keep = FirstNamed(items)
    OBVIOUS
  <1>3. /\ DOMAIN items = DOMAIN listing
        /\ items = [k \in DOMAIN items |-> items[k]]
        /\ \A k \in DOMAIN items :
               /\ items[k].wim = listing[k].index
               /\ items[k].id = IF listing[k].index < 1 THEN ""
                                ELSE IF listing[k].name = ""
                                THEN UnnamedId(listing[k].index)
                                ELSE listing[k].name
    BY <1>1 DEF WimItems
  <1>4. IsList(items)
    BY <1>3, MappedList
  <1>5. keep \in SUBSET (DOMAIN items) /\ \A k \in keep : items[k].id # ""
    BY <1>2 DEF FirstNamed
  <1>6. PICK images : images = Picked(items, keep)
    OBVIOUS
  <1>7. IsList(images) /\ Samples(images, items, keep)
    BY <1>4, <1>5, <1>6, PickedSamples
  <1>8. ASSUME NEW i \in DOMAIN images PROVE WimFit(images[i], listing)
    <2>1. PICK k \in keep : images[i] = items[k]
      BY <1>7 DEF Samples
    <2>2. /\ k \in DOMAIN listing /\ items[k].id # "" /\ listing[k].index \in Int
          /\ items[k].wim = listing[k].index
      BY <1>3, <1>5
    <2>3. ~(listing[k].index < 1)
      BY <1>3, <1>5, <2>2
    <2>4. items[k].wim \in Nat \ {0}
      <3>1. PICK x \in Int : x = listing[k].index
        BY <2>2
      <3>2. ~(x < 1)
        BY <2>3, <3>1
      <3>3. x \in Nat \ {0}
        BY <3>1, <3>2
      <3>4. items[k].wim = x
        BY <2>2, <3>1
      <3> QED BY <3>3, <3>4
    <2>5. items[k].id = IF listing[k].name = "" THEN UnnamedId(items[k].wim)
                        ELSE listing[k].name
      BY <1>3, <2>2, <2>3
    <2> QED BY <2>1, <2>2, <2>4, <2>5 DEF WimFit
  <1>9. PICK sorted : sorted = Sorted(images)
    OBVIOUS
  <1>10. IsList(sorted) /\ Samples(sorted, images, DOMAIN images)
    <2>1. \A k \in DOMAIN images : images[k].wim \in Nat
      BY <1>8 DEF WimFit
    <2> QED BY <1>7, <1>9, <2>1, SortedSamples
  <1>11. \A i \in DOMAIN sorted : WimFit(sorted[i], listing)
    BY <1>8, <1>10 DEF Samples
  <1>12. PICK t : t = WithDefault(sorted)
    OBVIOUS
  <1>13. /\ DOMAIN t = DOMAIN sorted
         /\ t = sorted \/ t = [k \in DOMAIN t |-> t[k]]
         /\ \A k \in DOMAIN t : t[k].id = sorted[k].id /\ t[k].wim = sorted[k].wim
    BY <1>12 DEF WithDefault
  <1>14. IsList(t)
    BY <1>10, <1>13, MappedList
  <1>15. ASSUME NEW i \in DOMAIN t PROVE WimFit(t[i], listing)
    <2>1. WimFit(sorted[i], listing)
      BY <1>11, <1>13
    <2>2. t[i].id = sorted[i].id /\ t[i].wim = sorted[i].wim
      BY <1>13
    <2> QED BY <2>1, <2>2 DEF WimFit
  <1>16. t = WimSources(listing)
    BY <1>1, <1>2, <1>6, <1>9, <1>12 DEF WimSources
  <1> QED BY <1>14, <1>15, <1>16 DEF WimList

LEMMA WimStored ==
  ASSUME NEW listing, IsList(listing),
         \A k \in DOMAIN listing : listing[k].index \in Int
  PROVE  WimList(Stored(WimSources(listing)), listing)
  <1>1. PICK items : items = WimSources(listing)
    OBVIOUS
  <1>2. IsList(items) /\ \A k \in DOMAIN items : WimFit(items[k], listing)
    BY <1>1, WimSourcesFit DEF WimList
  <1>3. PICK t : t = Stored(items)
    OBVIOUS
  <1>4. IsList(t)
    BY <1>2, <1>3, StoredSamples
  <1>5. ASSUME NEW i \in DOMAIN t PROVE WimFit(t[i], listing)
    <2>1. PICK k \in DOMAIN items :
              /\ t[i].id = items[k].id
              /\ t[i].wim = IF items[k].wim < 1 THEN 0 ELSE items[k].wim
      BY <1>2, <1>3, StoredSamples
    <2>2. t[i].wim = items[k].wim
      <3>1. PICK x \in Nat \ {0} : x = items[k].wim
        BY <1>2 DEF WimFit
      <3>2. ~(x < 1)
        OBVIOUS
      <3> QED BY <2>1, <3>1, <3>2
    <2> QED BY <1>2, <2>1, <2>2 DEF WimFit
  <1> QED BY <1>1, <1>3, <1>4, <1>5 DEF WimList
-----------------------------------------------------------------------------
(* Catalogues, and what is picked of them *)

LEMMA ListingFacts ==
  ASSUME NEW d \in Discs
  PROVE  /\ IsList(Content[d].listing)
         /\ \A k \in DOMAIN Content[d].listing : Content[d].listing[k].index \in Int
  <1>1. PICK l : l = Content[d].listing
    OBVIOUS
  <1>2. PICK Entries : Entries = [name : STRING, default : BOOLEAN, index : Int]
    OBVIOUS
  <1>3. l \in Seq(Entries)
    BY <1>1, <1>2, SourcesAssumption DEF Discs
  <1>4. IsList(l)
    BY <1>3 DEF IsList
  <1>5. ASSUME NEW k \in DOMAIN l PROVE l[k].index \in Int
    <2>1. PICK row \in Entries : row = l[k]
      BY <1>3
    <2> QED BY <1>2, <2>1
  <1> QED BY <1>1, <1>4, <1>5

LEMMA DiscLists ==
  ASSUME NEW d \in Discs
  PROVE  /\ LinuxList(LinuxLists[d], Content[d].listing)
         /\ WimList(WimLists[d], Content[d].listing)
  <1>1. LinuxLists[d] = Stored(LinuxSources(Content[d].listing))
    BY DEF LinuxLists
  <1>2. WimLists[d] = Stored(WimSources(Content[d].listing))
    BY DEF WimLists
  <1>3. PICK l : l = Content[d].listing
    OBVIOUS
  <1>4. IsList(l) /\ \A k \in DOMAIN l : l[k].index \in Int
    BY <1>3, ListingFacts
  <1>5. LinuxList(Stored(LinuxSources(l)), l)
    BY <1>4, LinuxStored
  <1>6. WimList(Stored(WimSources(l)), l)
    BY <1>4, WimStored
  <1> QED BY <1>1, <1>2, <1>3, <1>5, <1>6

\* Whatever list a row may have: its indexes are numbers.
LEMMA SourceListFacts ==
  ASSUME NEW items \in SourceLists
  PROVE  IsList(items) /\ \A k \in DOMAIN items : items[k].wim \in Nat
  <1>1. CASE items = <<>>
    <2>1. items \in Seq({})
      BY <1>1
    <2> QED BY <1>1, <2>1 DEF IsList
  <1>2. ASSUME NEW d \in Discs, items = LinuxLists[d]
        PROVE  IsList(items) /\ \A k \in DOMAIN items : items[k].wim \in Nat
    <2>1. LinuxList(items, Content[d].listing)
      BY <1>2, DiscLists
    <2>2. IsList(items) /\ \A k \in DOMAIN items : LinuxFit(items[k], Content[d].listing)
      BY <2>1 DEF LinuxList
    <2>3. ASSUME NEW k \in DOMAIN items PROVE items[k].wim \in Nat
      <3>1. LinuxFit(items[k], Content[d].listing)
        BY <2>2
      <3>2. PICK x \in Nat : x = 0
        OBVIOUS
      <3>3. items[k].wim = x
        BY <3>1, <3>2 DEF LinuxFit
      <3> QED BY <3>3
    <2> QED BY <2>2, <2>3
  <1>3. ASSUME NEW d \in Discs, items = WimLists[d]
        PROVE  IsList(items) /\ \A k \in DOMAIN items : items[k].wim \in Nat
    <2>1. WimList(items, Content[d].listing)
      BY <1>3, DiscLists
    <2>2. IsList(items) /\ \A k \in DOMAIN items : WimFit(items[k], Content[d].listing)
      BY <2>1 DEF WimList
    <2>3. ASSUME NEW k \in DOMAIN items PROVE items[k].wim \in Nat
      <3>1. WimFit(items[k], Content[d].listing)
        BY <2>2
      <3> QED BY <3>1 DEF WimFit
    <2> QED BY <2>2, <2>3
  <1> QED BY <1>1, <1>2, <1>3 DEF SourceLists

\* The disc offers each item of its catalogue, at the item's index.
ItemFits(x, d) ==
    /\ x.id # ""
    /\ libFamily # "linux" => x.wim # 0 /\ Offers(d, x.id, x.wim)
    /\ libFamily = "linux" => \A index : Offers(d, x.id, index)

LEMMA CatalogueFits ==
  ASSUME NEW media \in Medias
  PROVE  /\ Catalogue(media) \in SourceLists
         /\ Catalogue(media) # <<>> => media.disc \in Discs
         /\ Catalogue(media) # <<>> =>
                \A k \in DOMAIN Catalogue(media) :
                    ItemFits(Catalogue(media)[k], media.disc)
  <1>1. PICK d : d = media.disc
    OBVIOUS
  <1>2. PICK items : items = Catalogue(media)
    OBVIOUS
  <1>3. d \in Discs \union {"none"}
    BY <1>1 DEF Medias
  <1>4. \/ items = <<>>
        \/ d \in Discs /\ libFamily = "linux" /\ items = LinuxLists[d]
        \/ d \in Discs /\ libFamily # "linux" /\ items = WimLists[d]
    BY <1>1, <1>2, <1>3 DEF Catalogue
  <1>5. items \in SourceLists
    BY <1>4 DEF SourceLists
  <1>6. CASE items = <<>>
    BY <1>2, <1>5, <1>6
  <1>7. CASE d \in Discs /\ libFamily = "linux" /\ items = LinuxLists[d]
    <2>1. LinuxList(items, Content[d].listing)
      BY <1>7, DiscLists
    <2>2. ASSUME NEW k \in DOMAIN items PROVE ItemFits(items[k], d)
      <3>1. LinuxFit(items[k], Content[d].listing)
        BY <2>1 DEF LinuxList
      <3> QED BY <1>7, <3>1 DEF LinuxFit, ItemFits, Offers
    <2> QED BY <1>1, <1>2, <1>5, <1>7, <2>2
  <1>8. CASE d \in Discs /\ libFamily # "linux" /\ items = WimLists[d]
    <2>1. WimList(items, Content[d].listing)
      BY <1>8, DiscLists
    <2>2. ASSUME NEW k \in DOMAIN items PROVE ItemFits(items[k], d)
      <3>1. WimFit(items[k], Content[d].listing)
        BY <2>1 DEF WimList
      <3> QED BY <1>8, <3>1 DEF WimFit, ItemFits, Offers
    <2> QED BY <1>1, <1>2, <1>5, <1>8, <2>2
  <1> QED BY <1>4, <1>6, <1>7, <1>8

\* A set of positions has a first one.
LEMMA FirstPosition ==
  ASSUME NEW items, IsList(items), NEW D \in SUBSET (DOMAIN items), D # {}
  PROVE  Min(D) \in D
  <1>1. D \subseteq Nat
    <2>1. PICK n \in Nat : DOMAIN items = 1..n
      BY ListDomain
    <2> QED BY <2>1
  <1>2. \E x \in D : \A y \in D : x <= y
    BY <1>1, LeastExists
  <1> QED BY <1>2 DEF Min

LEMMA PickIsOffered ==
  ASSUME NEW items, IsList(items), items # <<>>, NEW current
  PROVE  Pick(items, current) \in Ids(items)
  <1>1. CASE current \in Ids(items)
    BY <1>1 DEF Pick
  <1>2. CASE current \notin Ids(items)
    <2>1. PICK D : D = {k \in DOMAIN items : items[k].default}
      OBVIOUS
    <2>2. PICK n : n = IF D = {} THEN 1 ELSE Min(D)
      OBVIOUS
    <2>3. Pick(items, current) = items[n].id
      BY <1>2, <2>1, <2>2 DEF Pick
    <2>4. D \in SUBSET (DOMAIN items)
      BY <2>1
    <2>5. n \in DOMAIN items
      BY <2>2, <2>4, FirstPosition, ListDomain
    <2> QED BY <2>3, <2>5 DEF Ids
  <1> QED BY <1>1, <1>2

\* The index of an item that has one is that of an item with its id.
LEMMA WimIndexFits ==
  ASSUME NEW items, IsList(items), NEW id \in Ids(items), NEW else
  PROVE  \E k \in DOMAIN items :
             /\ items[k].id = id
             /\ WimIndex(items, id, else) =
                    IF items[k].wim # 0 THEN items[k].wim ELSE else
  <1>1. PICK D : D = {k \in DOMAIN items : items[k].id = id}
    OBVIOUS
  <1>2. D \in SUBSET (DOMAIN items) /\ D # {}
    BY <1>1 DEF Ids
  <1>3. Min(D) \in D
    BY <1>2, FirstPosition
  <1>4. PICK k : k = Min(D)
    OBVIOUS
  <1>5. k \in DOMAIN items /\ items[k].id = id
    BY <1>1, <1>3, <1>4
  <1>6. WimIndex(items, id, else) = IF items[k].wim # 0 THEN items[k].wim ELSE else
    BY <1>1, <1>2, <1>4 DEF WimIndex
  <1> QED BY <1>5, <1>6

\* What a template names of the catalogue of its disc, the disc offers.
LEMMA NamedIsOffered ==
  ASSUME NEW media \in Medias, Catalogue(media) # <<>>,
         NEW id \in Ids(Catalogue(media)), NEW else
  PROVE  /\ id # ""
         /\ Offers(media.disc, id, WimIndex(Catalogue(media), id, else))
  <1>1. PICK items : items = Catalogue(media)
    OBVIOUS
  <1>2. IsList(items) /\ id \in Ids(items)
    BY <1>1, CatalogueFits, SourceListFacts
  <1>3. PICK k \in DOMAIN items :
            /\ items[k].id = id
            /\ WimIndex(items, id, else) =
                   IF items[k].wim # 0 THEN items[k].wim ELSE else
    BY <1>2, WimIndexFits
  <1>4. ItemFits(items[k], media.disc)
    BY <1>1, <1>3, CatalogueFits
  <1> QED BY <1>1, <1>3, <1>4 DEF ItemFits
-----------------------------------------------------------------------------
(* Rows that fit their disc *)

SourceNames ==
    PostedSources \union {""} \union UNION {Ids(l) : l \in SourceLists}

IsoRows ==
    [status : LibStatuses, todo : Discs \union {"none"}, media : Medias,
     options : SourceLists]

TemplateRows ==
    [iso : LibIsos \union {0}, status : LibStatuses, media : Medias,
     options : SourceLists, source : SourceNames, wim : Nat \ {0}]

AttRows ==
    [tpl : LibTemplates \union {0}, media : Medias, source : SourceNames,
     wim : Nat \ {0}, listed : BOOLEAN, mixed : BOOLEAN]

EditRows == [tpl : LibTemplates \union {0}, seen : TemplateRows]

\* The list of an ISO row is its disc's, if that has one to read.
IsoFits(r) ==
    \/ r.options = <<>> \/ Catalogue(r.media) = <<>>
    \/ r.options = Catalogue(r.media)

\* The row names a source, and the disc has it at the row's index.
Names(x) == x.source # "" /\ Offers(x.media.disc, x.source, x.wim)

TemplateFits(x) ==
    \/ x.options = <<>> \/ Catalogue(x.media) = <<>> \/ x.media.how = "live"
    \/ x.options = Catalogue(x.media) /\ Names(x)

AttFits(a) ==
    a.tpl # 0 /\ a.listed /\ ~a.mixed /\ a.media.how # "live"
        /\ Catalogue(a.media) # <<>>
    => Names(a)

FitIsos == {r \in IsoRows : IsoFits(r)}
FitTemplates == {x \in TemplateRows : TemplateFits(x)}
FitAtts == {a \in AttRows : AttFits(a)}

LEMMA NoMediaIsEmpty == NoMedia \in Medias /\ Catalogue(NoMedia) = <<>>
  BY DEF NoMedia, Medias, Catalogue

LEMMA EmptyListed == <<>> \in SourceLists /\ "" \in SourceNames
  BY DEF SourceLists, SourceNames

\* WithSource writes two columns.
LEMMA SourceWritten ==
  ASSUME NEW x \in TemplateRows, NEW id,
         NEW y, y = WithSource(x, id)
  PROVE  /\ y.iso = x.iso /\ y.status = x.status /\ y.media = x.media
         /\ y.options = x.options /\ y.source = id
         /\ y.wim = WimIndex(x.options, id, x.wim)
         /\ y = [iso |-> y.iso, status |-> y.status, media |-> y.media,
                 options |-> y.options, source |-> y.source, wim |-> y.wim]
  <1>1. PICK w : w = WimIndex(x.options, id, x.wim)
    OBVIOUS
  <1>2. y = [x EXCEPT !.source = id, !.wim = w]
    BY <1>1 DEF WithSource
  <1> QED BY <1>1, <1>2 DEF TemplateRows

\* A source of the list that is picked for a template fits it.
LEMMA PickedFits ==
  ASSUME NEW x \in TemplateRows, x.options # <<>>, NEW current,
         \/ Catalogue(x.media) = <<>> \/ x.media.how = "live"
         \/ x.options = Catalogue(x.media)
  PROVE  WithSource(x, Pick(x.options, current)) \in FitTemplates
  <1>1. PICK id : id = Pick(x.options, current)
    OBVIOUS
  <1>2. PICK y : y = WithSource(x, id)
    OBVIOUS
  <1>3. PICK w : w = WimIndex(x.options, id, x.wim)
    OBVIOUS
  <1>4. /\ y.iso = x.iso /\ y.status = x.status /\ y.media = x.media
        /\ y.options = x.options /\ y.source = id /\ y.wim = w
        /\ y = [iso |-> y.iso, status |-> y.status, media |-> y.media,
                options |-> y.options, source |-> y.source, wim |-> y.wim]
    BY <1>2, <1>3, SourceWritten
  <1>5. PICK items : items = x.options
    OBVIOUS
  <1>6. /\ x.iso \in LibIsos \union {0} /\ x.status \in LibStatuses
        /\ x.media \in Medias /\ items \in SourceLists /\ x.wim \in Nat \ {0}
    BY <1>5 DEF TemplateRows
  <1>7. IsList(items) /\ \A k \in DOMAIN items : items[k].wim \in Nat
    BY <1>6, SourceListFacts
  <1>8. id \in Ids(items)
    BY <1>1, <1>5, <1>7, PickIsOffered
  <1>9. w \in Nat \ {0}
    <2>1. PICK old \in Nat \ {0} : old = x.wim
      BY <1>6
    <2>2. PICK k \in DOMAIN items :
              w = IF items[k].wim # 0 THEN items[k].wim ELSE old
      BY <1>3, <1>5, <1>7, <1>8, <2>1, WimIndexFits
    <2>3. PICK n \in Nat : n = items[k].wim
      BY <1>7
    <2> QED BY <2>2, <2>3
  <1>10. id \in SourceNames
    BY <1>6, <1>8 DEF SourceNames
  <1>11. y \in TemplateRows
    BY <1>4, <1>5, <1>6, <1>9, <1>10 DEF TemplateRows
  <1>12. TemplateFits(y)
    <2>1. CASE Catalogue(x.media) = <<>> \/ x.media.how = "live"
      BY <1>4, <2>1 DEF TemplateFits
    <2>2. CASE items = Catalogue(x.media)
      <3>1. PICK m \in Medias : m = x.media
        BY <1>6
      <3>2. id # "" /\ Offers(m.disc, id, w)
        BY <1>3, <1>5, <1>8, <2>2, <3>1, NamedIsOffered
      <3> QED BY <1>4, <1>5, <2>2, <3>1, <3>2 DEF TemplateFits, Names
    <2> QED BY <1>5, <2>1, <2>2
  <1> QED BY <1>1, <1>2, <1>11, <1>12 DEF FitTemplates

LEMMA SyncFits ==
  ASSUME NEW x \in TemplateRows, NEW s \in LibIsos, NEW r \in FitIsos
  PROVE  SyncTemplate(x, s, r) \in FitTemplates
  <1>1. PICK m : m = [x EXCEPT !.iso = s, !.status = r.status,
                               !.media = r.media, !.options = r.options]
    OBVIOUS
  <1>2. /\ m \in TemplateRows /\ m.media = r.media /\ m.options = r.options
        /\ m.source = x.source
    BY <1>1 DEF TemplateRows, FitIsos, IsoRows
  <1>3. PICK y : y = SyncTemplate(x, s, r)
    OBVIOUS
  <1>4. CASE BootMode(r) # ""
    <2>1. y = [m EXCEPT !.source = ""]
      BY <1>1, <1>3, <1>4 DEF SyncTemplate
    <2>2. y \in TemplateRows /\ y.media = r.media
      BY <1>2, <2>1, EmptyListed DEF TemplateRows
    <2>3. r.media = NoMedia \/ r.media.how = "live"
      BY <1>4 DEF BootMode
    <2>4. TemplateFits(y)
      BY <2>2, <2>3, NoMediaIsEmpty DEF TemplateFits
    <2> QED BY <1>3, <2>2, <2>4 DEF FitTemplates
  <1>5. CASE BootMode(r) = "" /\ r.options = <<>>
    <2>1. y = m
      BY <1>1, <1>3, <1>5 DEF SyncTemplate
    <2> QED BY <1>2, <1>3, <1>5, <2>1 DEF FitTemplates, TemplateFits
  <1>6. CASE BootMode(r) = "" /\ r.options # <<>>
    <2>1. y = WithSource(m, Pick(r.options, x.source))
      BY <1>1, <1>3, <1>6 DEF SyncTemplate
    <2>2. Catalogue(m.media) = <<>> \/ m.options = Catalogue(m.media)
      BY <1>2, <1>6 DEF FitIsos, IsoFits
    <2>3. WithSource(m, Pick(m.options, x.source)) \in FitTemplates
      BY <1>2, <1>6, <2>2, PickedFits
    <2> QED BY <1>2, <1>3, <2>1, <2>3
  <1> QED BY <1>4, <1>5, <1>6

LEMMA UpdateFits ==
  ASSUME NEW x \in FitTemplates, NEW posted \in PostedSources,
         NEW index \in PostedIndexes \union {0}
  PROVE  Updated(x, posted, index) \in FitTemplates
  <1>1. PICK z : z = IF index = 0 THEN x ELSE [x EXCEPT !.wim = index]
    OBVIOUS
  <1>2. index # 0 => index \in Nat \ {0}
    BY SourcesAssumption DEF SourcesAssumption
  <1>3. x \in TemplateRows /\ TemplateFits(x)
    BY DEF FitTemplates
  <1>4. z \in TemplateRows /\ z.media = x.media /\ z.options = x.options
    BY <1>1, <1>2, <1>3 DEF TemplateRows
  <1>5. PICK y : y = Updated(x, posted, index)
    OBVIOUS
  <1>6. CASE x.options = <<>>
    <2>1. y = [z EXCEPT !.source = posted]
      BY <1>1, <1>5, <1>6 DEF Updated
    <2>2. posted \in SourceNames
      BY DEF SourceNames
    <2>3. y \in TemplateRows /\ y.options = <<>>
      BY <1>4, <1>6, <2>1, <2>2 DEF TemplateRows
    <2> QED BY <1>5, <2>3 DEF FitTemplates, TemplateFits
  <1>7. CASE x.options # <<>>
    <2>1. y = WithSource(z, Pick(x.options, posted))
      BY <1>1, <1>5, <1>7 DEF Updated
    <2>2. \/ Catalogue(z.media) = <<>> \/ z.media.how = "live"
          \/ z.options = Catalogue(z.media)
      BY <1>3, <1>4, <1>7 DEF TemplateFits
    <2>3. WithSource(z, Pick(z.options, posted)) \in FitTemplates
      BY <1>4, <1>7, <2>2, PickedFits
    <2> QED BY <1>4, <1>5, <2>1, <2>3
  <1> QED BY <1>6, <1>7
\* Columns of one row, or of another: a row.
LEMMA MergedRow ==
  ASSUME NEW new \in TemplateRows, NEW seen \in TemplateRows,
         NEW now \in TemplateRows, NEW y,
         y = [col \in DOMAIN new |->
                 IF new[col] # seen[col] THEN new[col] ELSE now[col]]
  PROVE  y \in TemplateRows /\ (now = seen => y = new)
  <1>1. y \in TemplateRows
    BY DEF TemplateRows
  <1>2. now = seen => y = new
    BY DEF TemplateRows
  <1> QED BY <1>1, <1>2

SourcesInv ==
    /\ libFamily \in {"linux", "windows"}
    /\ libIso \in [LibIsos -> FitIsos]
    /\ libTpl \in [LibTemplates -> TemplateRows]
    /\ libMixed \subseteq LibTemplates
    /\ \A t \in LibTemplates \ libMixed : libTpl[t] \in FitTemplates
    /\ libAtt \in [LibHosts -> FitAtts]
    /\ libEdit \in [LibEditors -> EditRows]
    /\ libJobs \in 0..MaxJobs

\* What fits a disc does so as long as the family is the same.
LEMMA FitsSame ==
  ASSUME UNCHANGED libFamily
  PROVE  FitIsos' = FitIsos /\ FitTemplates' = FitTemplates /\ FitAtts' = FitAtts
  BY DEF FitIsos, FitTemplates, FitAtts, IsoFits, TemplateFits, AttFits, Names,
         Offers, Catalogue, Legible

LEMMA IsosSaved ==
  ASSUME SourcesInv, NEW rows \in [LibIsos -> FitIsos],
         NEW changed \in SUBSET LibIsos, SaveIsos(rows, changed),
         libJobs' \in 0..MaxJobs
  PROVE  SourcesInv'
  <1>1. PICK linked : linked = UNION {TemplatesOf(s) : s \in changed}
    OBVIOUS
  <1>2. /\ libIso' = rows
        /\ libTpl' = [t \in LibTemplates |->
               IF t \in linked
               THEN SyncTemplate(libTpl[t], libTpl[t].iso, rows[libTpl[t].iso])
               ELSE libTpl[t]]
        /\ libMixed' = libMixed \ linked
        /\ UNCHANGED <<libFamily, libAtt, libEdit>>
    BY <1>1 DEF SaveIsos
  <1>3. FitIsos' = FitIsos /\ FitTemplates' = FitTemplates /\ FitAtts' = FitAtts
    BY <1>2, FitsSame
  <1>4. ASSUME NEW t \in linked
        PROVE  t \in LibTemplates /\ libTpl[t].iso \in LibIsos
    BY <1>1 DEF TemplatesOf
  <1>5. ASSUME NEW t \in linked
        PROVE  libTpl'[t] \in FitTemplates
    <2>1. PICK x : x = libTpl[t]
      OBVIOUS
    <2>2. PICK s : s = x.iso
      OBVIOUS
    <2>3. t \in LibTemplates /\ s \in LibIsos
      BY <1>4, <2>1, <2>2
    <2>4. x \in TemplateRows
      BY <2>1, <2>3 DEF SourcesInv
    <2>5. SyncTemplate(x, s, rows[s]) \in FitTemplates
      BY <2>3, <2>4, SyncFits
    <2>6. libTpl'[t] = SyncTemplate(x, s, rows[s])
      BY <1>2, <2>1, <2>2, <2>3
    <2> QED BY <2>5, <2>6
  <1>6. FitTemplates \subseteq TemplateRows
    BY DEF FitTemplates
  <1>7. ASSUME NEW t \in LibTemplates \ linked PROVE libTpl'[t] = libTpl[t]
    BY <1>2
  <1>8. ASSUME NEW t \in LibTemplates PROVE libTpl'[t] \in TemplateRows
    BY <1>5, <1>6, <1>7 DEF SourcesInv
  <1>9. libTpl' \in [LibTemplates -> TemplateRows]
    <2>1. libTpl' = [t \in LibTemplates |-> libTpl'[t]]
      BY <1>2
    <2> QED BY <1>8, <2>1
  <1>10. \A t \in LibTemplates \ libMixed' : libTpl'[t] \in FitTemplates
    BY <1>2, <1>5, <1>7 DEF SourcesInv
  <1> QED BY <1>2, <1>3, <1>9, <1>10 DEF SourcesInv

\* One ISO row
LEMMA IsoSaved ==
  ASSUME SourcesInv, NEW s \in LibIsos, NEW row \in FitIsos, SaveLibIso(s, row),
         libJobs' \in 0..MaxJobs
  PROVE  SourcesInv'
  <1>1. PICK rows : rows = [libIso EXCEPT ![s] = row]
    OBVIOUS
  <1>2. rows \in [LibIsos -> FitIsos]
    BY <1>1 DEF SourcesInv
  <1>3. SaveIsos(rows, {s})
    BY <1>1 DEF SaveLibIso
  <1> QED BY <1>2, <1>3, IsosSaved

LEMMA RowFits ==
  ASSUME NEW row, row \in IsoRows, IsoFits(row)
  PROVE  row \in FitIsos
  BY DEF FitIsos

LEMMA RefreshedFits ==
  ASSUME NEW row \in FitIsos
  PROVE  Refreshed(row) \in FitIsos
  <1>1. CASE row.status = "ready" /\ Catalogue(row.media) # <<>>
    <2>1. PICK c : c = Catalogue(row.media)
      OBVIOUS
    <2>2. row \in IsoRows /\ row.media \in Medias
      BY DEF FitIsos, IsoRows
    <2>3. c \in SourceLists
      BY <2>1, <2>2, CatalogueFits
    <2>4. PICK new : new = [row EXCEPT !.options = c]
      OBVIOUS
    <2>5. new \in IsoRows /\ new.media = row.media /\ new.options = c
      BY <2>2, <2>3, <2>4 DEF IsoRows
    <2>6. IsoFits(new)
      BY <2>1, <2>5 DEF IsoFits
    <2>7. new = Refreshed(row)
      BY <1>1, <2>1, <2>4 DEF Refreshed
    <2> QED BY <2>5, <2>6, <2>7, RowFits
  <1>2. CASE ~(row.status = "ready" /\ Catalogue(row.media) # <<>>)
    BY <1>2 DEF Refreshed
  <1> QED BY <1>1, <1>2

LEMMA Unpacks ==
  ASSUME NEW d \in Discs \union {"none"}, NEW works,
         Extracted(d, works) # "failed"
  PROVE  MediaOf(d, Extracted(d, works)) \in Medias
  BY DEF Extracted, ExtractLinux, ExtractWindows, MediaOf, NoMedia, Medias

LEMMA QueueKeeps ==
  ASSUME SourcesInv, NEW s \in LibIsos, NEW d \in Discs, Queue(s, d)
  PROVE  SourcesInv'
  <1>1. PICK row : row = libIso[s]
    OBVIOUS
  <1>2. row \in IsoRows /\ IsoFits(row)
    BY <1>1 DEF SourcesInv, FitIsos
  <1>3. PICK new : new = [row EXCEPT !.todo = d, !.status = "queued"]
    OBVIOUS
  <1>4. new \in IsoRows /\ new.media = row.media /\ new.options = row.options
    BY <1>2, <1>3 DEF IsoRows, LibStatuses
  <1>5. IsoFits(new)
    BY <1>2, <1>4 DEF IsoFits
  <1>6. new \in FitIsos
    BY <1>4, <1>5, RowFits
  <1>7. SaveLibIso(s, new)
    BY <1>1, <1>3 DEF Queue
  <1>8. libJobs' \in 0..MaxJobs
    BY SourcesAssumption DEF Queue, SourcesInv, SourcesAssumption
  <1> QED BY <1>6, <1>7, <1>8, IsoSaved

LEMMA RunJobKeeps ==
  ASSUME SourcesInv, NEW s \in LibIsos, NEW works \in BOOLEAN, RunJob(s, works)
  PROVE  SourcesInv'
  <1>1. PICK old : old = libIso[s]
    OBVIOUS
  <1>2. old \in IsoRows /\ IsoFits(old)
    BY <1>1 DEF SourcesInv, FitIsos
  <1>3. PICK how : how = Extracted(old.todo, works)
    OBVIOUS
  <1>4. PICK media : media = MediaOf(old.todo, how)
    OBVIOUS
  <1>5. PICK row : row = [old EXCEPT !.todo = "none"]
    OBVIOUS
  <1>6. /\ row \in IsoRows /\ row.media = old.media /\ row.options = old.options
        /\ old.todo \in Discs \union {"none"}
    BY <1>2, <1>5 DEF IsoRows
  <1>7. PICK kept : kept = IF libFamily = "linux" \/ Catalogue(media) # <<>>
                           THEN Catalogue(media) ELSE row.options
    OBVIOUS
  <1>8. PICK new : new = IF how = "failed" THEN [row EXCEPT !.status = "failed"]
                         ELSE [row EXCEPT !.status = "ready",
                                   !.media = media, !.options = kept]
    OBVIOUS
  <1>9. SaveLibIso(s, new)
    BY <1>1, <1>3, <1>4, <1>5, <1>7, <1>8 DEF RunJob
  <1>10. libJobs' \in 0..MaxJobs
    BY DEF RunJob, SourcesInv
  <1>11. CASE how = "failed"
    <2>1. new \in IsoRows /\ new.media = row.media /\ new.options = row.options
      BY <1>6, <1>8, <1>11 DEF IsoRows, LibStatuses
    <2>2. IsoFits(new)
      BY <1>2, <1>6, <2>1 DEF IsoFits
    <2> QED BY <1>9, <1>10, <2>1, <2>2, RowFits, IsoSaved
  <1>12. CASE how # "failed"
    <2>1. media \in Medias
      BY <1>3, <1>4, <1>6, <1>12, Unpacks
    <2>2. Catalogue(media) \in SourceLists
      BY <2>1, CatalogueFits
    <2>3. row.options \in SourceLists
      BY <1>6 DEF IsoRows
    <2>4. kept \in SourceLists
      BY <1>7, <2>2, <2>3
    <2>5. new \in IsoRows /\ new.media = media /\ new.options = kept
      BY <1>6, <1>8, <1>12, <2>1, <2>4 DEF IsoRows, LibStatuses
    <2>6. Catalogue(media) = <<>> \/ kept = Catalogue(media)
      BY <1>7
    <2>7. IsoFits(new)
      BY <2>5, <2>6 DEF IsoFits
    <2> QED BY <1>9, <1>10, <2>5, <2>7, RowFits, IsoSaved
  <1> QED BY <1>11, <1>12

LEMMA BackfillKeeps ==
  ASSUME SourcesInv, BackfillSources
  PROVE  SourcesInv'
  <1>1. PICK rows : rows = [s \in LibIsos |-> Refreshed(libIso[s])]
    OBVIOUS
  <1>2. \A s \in LibIsos : Refreshed(libIso[s]) \in FitIsos
    BY RefreshedFits DEF SourcesInv
  <1>3. rows \in [LibIsos -> FitIsos]
    BY <1>1, <1>2
  <1>4. SaveIsos(rows, LibIsos) /\ libJobs' \in 0..MaxJobs
    BY <1>1 DEF BackfillSources, SourcesInv
  <1>5. LibIsos \in SUBSET LibIsos
    OBVIOUS
  <1> QED BY <1>3, <1>4, <1>5, IsosSaved

LEMMA ViewKeeps ==
  ASSUME SourcesInv, NEW t \in LibTemplates, ViewImage(t)
  PROVE  SourcesInv'
  <1>1. PICK s : s = libTpl[t].iso
    OBVIOUS
  <1>2. s \in LibIsos
    BY <1>1 DEF ViewImage, SourcesInv, TemplateRows
  <1>3. PICK row : row = Refreshed(libIso[s])
    OBVIOUS
  <1>4. row \in FitIsos
    BY <1>2, <1>3, RefreshedFits DEF SourcesInv
  <1>5. SaveLibIso(s, row) /\ libJobs' \in 0..MaxJobs
    BY <1>1, <1>3 DEF ViewImage, SourcesInv
  <1> QED BY <1>2, <1>4, <1>5, IsoSaved

LEMMA NoTemplateFits == NoTemplate \in FitTemplates /\ NoTemplate \in TemplateRows
  <1>1. PICK none \in LibIsos \union {0} : none = 0
    OBVIOUS
  <1>2. PICK one \in Nat \ {0} : one = 1
    OBVIOUS
  <1>3. PICK row : row = [iso |-> none, status |-> "idle", media |-> NoMedia,
                          options |-> <<>>, source |-> "", wim |-> one]
    OBVIOUS
  <1>4. row \in TemplateRows
    BY <1>3, EmptyListed, NoMediaIsEmpty DEF TemplateRows, LibStatuses
  <1>5. row = NoTemplate
    BY <1>1, <1>2, <1>3 DEF NoTemplate
  <1>6. TemplateFits(row)
    BY <1>3 DEF TemplateFits
  <1> QED BY <1>4, <1>5, <1>6 DEF FitTemplates

LEMMA CreateKeeps ==
  ASSUME SourcesInv, NEW t \in LibTemplates, NEW s \in LibIsos,
         CreateTemplate(t, s)
  PROVE  SourcesInv'
  <1>1. PICK row : row = libIso[s]
    OBVIOUS
  <1>2. row \in FitIsos
    BY <1>1 DEF SourcesInv
  <1>3. NoTemplate \in TemplateRows
    BY NoTemplateFits
  <1>4. PICK y : y = SyncTemplate(NoTemplate, s, row)
    OBVIOUS
  <1>5. y \in FitTemplates /\ y \in TemplateRows
    BY <1>2, <1>3, <1>4, SyncFits DEF FitTemplates
  <1>6. /\ libTpl' = [libTpl EXCEPT ![t] = y]
        /\ UNCHANGED <<libFamily, libIso, libMixed, libAtt, libEdit, libJobs>>
    BY <1>1, <1>4 DEF CreateTemplate
  <1>7. FitIsos' = FitIsos /\ FitTemplates' = FitTemplates /\ FitAtts' = FitAtts
    BY <1>6, FitsSame
  <1> QED BY <1>5, <1>6, <1>7 DEF SourcesInv

LEMMA BeginSaveKeeps ==
  ASSUME SourcesInv, NEW c \in LibEditors, NEW t \in LibTemplates,
         BeginTemplateSave(c, t)
  PROVE  SourcesInv'
  <1>1. PICK x \in TemplateRows : x = libTpl[t]
    BY DEF SourcesInv
  <1>2. PICK e : e = [tpl |-> t, seen |-> x]
    OBVIOUS
  <1>3. e \in EditRows
    BY <1>2 DEF EditRows
  <1>4. /\ libEdit' = [libEdit EXCEPT ![c] = e]
        /\ UNCHANGED <<libFamily, libIso, libTpl, libMixed, libAtt, libJobs>>
    BY <1>1, <1>2 DEF BeginTemplateSave
  <1>5. FitIsos' = FitIsos /\ FitTemplates' = FitTemplates /\ FitAtts' = FitAtts
    BY <1>4, FitsSame
  <1> QED BY <1>3, <1>4, <1>5 DEF SourcesInv

LEMMA NoEditIsEdit == NoTplEdit \in EditRows
  <1>1. PICK none \in LibTemplates \union {0} : none = 0
    OBVIOUS
  <1>2. PICK e : e = [tpl |-> none, seen |-> NoTemplate]
    OBVIOUS
  <1>3. e \in EditRows
    BY <1>2, NoTemplateFits DEF EditRows
  <1> QED BY <1>1, <1>2, <1>3 DEF NoTplEdit

LEMMA RefusalKeeps ==
  ASSUME SourcesInv, NEW c \in LibEditors, NEW s \in LibIsos,
         NEW posted \in PostedSources, TemplateSaveRefused(c, s, posted)
  PROVE  SourcesInv'
  <1>1. /\ libEdit' = [libEdit EXCEPT ![c] = NoTplEdit]
        /\ UNCHANGED <<libFamily, libIso, libTpl, libMixed, libAtt, libJobs>>
    BY DEF TemplateSaveRefused
  <1>2. FitIsos' = FitIsos /\ FitTemplates' = FitTemplates /\ FitAtts' = FitAtts
    BY <1>1, FitsSame
  <1> QED BY <1>1, <1>2, NoEditIsEdit DEF SourcesInv

LEMMA SaveKeeps ==
  ASSUME SourcesInv, NEW c \in LibEditors, NEW s \in LibIsos,
         NEW posted \in PostedSources, NEW index \in PostedIndexes \union {0},
         SaveTemplate(c, s, posted, index)
  PROVE  SourcesInv'
  <1>1. PICK t : t = libEdit[c].tpl
    OBVIOUS
  <1>2. PICK seen : seen = libEdit[c].seen
    OBVIOUS
  <1>3. t \in LibTemplates /\ seen \in TemplateRows
    BY <1>1, <1>2 DEF SaveTemplate, SourcesInv, EditRows
  <1>4. PICK row : row = libIso[s]
    OBVIOUS
  <1>5. row \in FitIsos
    BY <1>4 DEF SourcesInv
  <1>6. PICK synced : synced = SyncTemplate(seen, s, row)
    OBVIOUS
  <1>7. synced \in FitTemplates
    BY <1>3, <1>5, <1>6, SyncFits
  <1>8. PICK new : new = Updated(synced, posted, index)
    OBVIOUS
  <1>9. new \in FitTemplates
    BY <1>7, <1>8, UpdateFits
  <1>10. PICK now : now = libTpl[t]
    OBVIOUS
  <1>11. new \in TemplateRows /\ now \in TemplateRows
    BY <1>3, <1>9, <1>10 DEF FitTemplates, SourcesInv
  <1>12. CommitTemplate(c, new)
    BY <1>2, <1>4, <1>6, <1>8 DEF SaveTemplate, Saved
  <1>13. PICK y : y = [col \in DOMAIN new |->
                          IF new[col] # seen[col] THEN new[col] ELSE now[col]]
    OBVIOUS
  <1>14. y \in TemplateRows /\ (now = seen => y = new)
    BY <1>3, <1>11, <1>13, MergedRow
  <1>15. /\ libTpl' = [libTpl EXCEPT ![t] = y]
         /\ libMixed' = IF now = seen THEN libMixed \ {t} ELSE libMixed \union {t}
         /\ libEdit' = [libEdit EXCEPT ![c] = NoTplEdit]
         /\ UNCHANGED <<libFamily, libIso, libAtt, libJobs>>
    BY <1>1, <1>2, <1>10, <1>12, <1>13 DEF CommitTemplate
  <1>16. FitIsos' = FitIsos /\ FitTemplates' = FitTemplates /\ FitAtts' = FitAtts
    BY <1>15, FitsSame
  <1>17. ASSUME NEW u \in LibTemplates \ libMixed' PROVE libTpl'[u] \in FitTemplates
    <2>1. CASE u = t
      <3>1. now = seen
        BY <1>15, <1>17, <2>1
      <3> QED BY <1>3, <1>9, <1>14, <1>15, <2>1, <3>1 DEF SourcesInv
    <2>2. CASE u # t
      <3>1. u \in LibTemplates \ libMixed /\ libTpl'[u] = libTpl[u]
        BY <1>15, <2>2 DEF SourcesInv
      <3> QED BY <3>1 DEF SourcesInv
    <2> QED BY <2>1, <2>2
  <1>18. libTpl' \in [LibTemplates -> TemplateRows]
    BY <1>3, <1>14, <1>15 DEF SourcesInv
  <1>19. libMixed' \subseteq LibTemplates
    BY <1>3, <1>15 DEF SourcesInv
  <1>20. libEdit' \in [LibEditors -> EditRows]
    BY <1>15, NoEditIsEdit DEF SourcesInv
  <1> QED BY <1>15, <1>16, <1>17, <1>18, <1>19, <1>20 DEF SourcesInv

LEMMA StageKeeps ==
  ASSUME SourcesInv, NEW m \in LibHosts, NEW t \in LibTemplates, StageInstall(m, t)
  PROVE  SourcesInv'
  <1>1. PICK x \in TemplateRows : x = libTpl[t]
    BY DEF SourcesInv
  <1>2. PICK a : a = [tpl |-> t, media |-> x.media, source |-> x.source,
                      wim |-> x.wim, listed |-> x.options # <<>>,
                      mixed |-> t \in libMixed]
    OBVIOUS
  <1>3. /\ libAtt' = [libAtt EXCEPT ![m] = a]
        /\ UNCHANGED <<libFamily, libIso, libTpl, libMixed, libEdit, libJobs>>
    BY <1>1, <1>2 DEF StageInstall
  <1>4. a \in AttRows
    BY <1>2 DEF AttRows, TemplateRows
  <1>5. AttFits(a)
    <2>1. /\ a.media = x.media /\ a.source = x.source /\ a.wim = x.wim
          /\ a.listed => x.options # <<>>
          /\ ~a.mixed => t \notin libMixed
      BY <1>2
    <2>2. t \notin libMixed => TemplateFits(x)
      BY <1>1 DEF SourcesInv, FitTemplates
    <2> QED BY <2>1, <2>2 DEF AttFits, TemplateFits, Names
  <1>6. a \in FitAtts
    BY <1>4, <1>5 DEF FitAtts
  <1>7. FitIsos' = FitIsos /\ FitTemplates' = FitTemplates /\ FitAtts' = FitAtts
    BY <1>3, FitsSame
  <1> QED BY <1>3, <1>6, <1>7 DEF SourcesInv

LEMMA NoAttemptFits == NoLibAttempt \in FitAtts
  <1>1. PICK none \in LibTemplates \union {0} : none = 0
    OBVIOUS
  <1>2. PICK one \in Nat \ {0} : one = 1
    OBVIOUS
  <1>3. PICK a : a = [tpl |-> none, media |-> NoMedia, source |-> "", wim |-> one,
                      listed |-> FALSE, mixed |-> FALSE]
    OBVIOUS
  <1>4. a \in AttRows
    BY <1>3, EmptyListed, NoMediaIsEmpty DEF AttRows
  <1>5. a = NoLibAttempt
    BY <1>1, <1>2, <1>3 DEF NoLibAttempt
  <1>6. AttFits(a)
    BY <1>1, <1>3 DEF AttFits
  <1> QED BY <1>4, <1>5, <1>6 DEF FitAtts

LEMMA EndKeeps ==
  ASSUME SourcesInv, NEW m \in LibHosts, EndInstall(m)
  PROVE  SourcesInv'
  <1>1. /\ libAtt' = [libAtt EXCEPT ![m] = NoLibAttempt]
        /\ UNCHANGED <<libFamily, libIso, libTpl, libMixed, libEdit, libJobs>>
    BY DEF EndInstall
  <1>2. FitIsos' = FitIsos /\ FitTemplates' = FitTemplates /\ FitAtts' = FitAtts
    BY <1>1, FitsSame
  <1> QED BY <1>1, <1>2, NoAttemptFits DEF SourcesInv

LEMMA SourcesKept == SourcesInv /\ [SourcesNext]_libVars => SourcesInv'
  <1> SUFFICES ASSUME SourcesInv, [SourcesNext]_libVars PROVE SourcesInv'
    OBVIOUS
  <1>1. CASE UNCHANGED libVars
    <2>1. FitIsos' = FitIsos /\ FitTemplates' = FitTemplates /\ FitAtts' = FitAtts
      BY <1>1, FitsSame DEF libVars
    <2> QED BY <1>1, <2>1 DEF libVars, SourcesInv
  <1> QED BY <1>1, QueueKeeps, RunJobKeeps, CreateKeeps, SaveKeeps, RefusalKeeps,
             BackfillKeeps, ViewKeeps, BeginSaveKeeps, StageKeeps, EndKeeps
          DEF SourcesNext

LEMMA SourcesStart == SourcesInit \/ SourcesIdle => SourcesInv
  <1> SUFFICES ASSUME SourcesInit \/ SourcesIdle PROVE SourcesInv
    OBVIOUS
  <1>1. NoIsoRow \in FitIsos
    <2>1. NoIsoRow \in IsoRows
      BY EmptyListed, NoMediaIsEmpty DEF NoIsoRow, IsoRows, LibStatuses
    <2>2. IsoFits(NoIsoRow)
      BY DEF NoIsoRow, IsoFits
    <2> QED BY <2>1, <2>2, RowFits
  <1>2. ASSUME NEW d \in Discs PROVE OldIso(d) \in FitIsos
    <2>1. PICK how : how = Extracted(d, TRUE)
      OBVIOUS
    <2>2. CASE how = "failed"
      BY <1>1, <2>1, <2>2 DEF OldIso
    <2>3. CASE how # "failed"
      <3>1. PICK media : media = MediaOf(d, how)
        OBVIOUS
      <3>2. media \in Medias
        BY <2>1, <2>3, <3>1, Unpacks
      <3>3. PICK row : row = [NoIsoRow EXCEPT !.status = "ready", !.media = media]
        OBVIOUS
      <3>4. row \in IsoRows /\ row.options = <<>>
        BY <3>2, <3>3, EmptyListed DEF NoIsoRow, IsoRows, LibStatuses
      <3>5. row = OldIso(d)
        BY <2>1, <2>3, <3>1, <3>3 DEF OldIso
      <3>6. IsoFits(row)
        BY <3>4 DEF IsoFits
      <3> QED BY <3>4, <3>5, <3>6, RowFits
    <2> QED BY <2>2, <2>3
  <1>3. libIso \in [LibIsos -> FitIsos]
    <2>1. CASE SourcesIdle
      BY <1>1, <2>1 DEF SourcesIdle
    <2>2. CASE SourcesInit
      <3>1. PICK old \in OldLibraries : libIso = [s \in LibIsos |-> OldIso(old[s])]
        BY <2>2 DEF SourcesInit
      <3>2. old \in [LibIsos -> Discs]
        BY SourcesAssumption DEF SourcesAssumption, Discs
      <3>3. \A s \in LibIsos : OldIso(old[s]) \in FitIsos
        BY <1>2, <3>2
      <3> QED BY <3>1, <3>3
    <2> QED BY <2>1, <2>2
  <1>4. libFamily \in {"linux", "windows"} /\ NobodyYet
    BY DEF SourcesInit, SourcesIdle
  <1>5. PICK fresh : fresh = NoTemplate
    OBVIOUS
  <1>6. fresh \in TemplateRows /\ fresh \in FitTemplates
    BY <1>5, NoTemplateFits
  <1>7. /\ libTpl \in [LibTemplates -> TemplateRows]
        /\ \A t \in LibTemplates : libTpl[t] \in FitTemplates
    BY <1>4, <1>5, <1>6 DEF NobodyYet
  <1>8. libAtt \in [LibHosts -> FitAtts]
    BY <1>4, NoAttemptFits DEF NobodyYet
  <1>9. libEdit \in [LibEditors -> EditRows]
    BY <1>4, NoEditIsEdit DEF NobodyYet
  <1>10. libMixed = {} /\ libJobs \in 0..MaxJobs
    BY <1>4, SourcesAssumption DEF NobodyYet, SourcesAssumption
  <1> QED BY <1>3, <1>4, <1>7, <1>8, <1>9, <1>10 DEF SourcesInv

LEMMA SourcesInvFits == SourcesInv => SourceFits
  <1> SUFFICES ASSUME SourcesInv, NEW m \in LibHosts,
                      NEW a, a = libAtt[m],
                      a.tpl # 0 /\ a.listed /\ ~a.mixed /\ a.media.how # "live",
                      Catalogue(a.media) # <<>>
               PROVE  Offers(a.media.disc, Told(m), a.wim)
    BY DEF SourceFits
  <1>1. AttFits(a)
    BY DEF SourcesInv, FitAtts
  <1>2. a.source # "" /\ Offers(a.media.disc, a.source, a.wim)
    BY <1>1 DEF AttFits, Names
  <1>3. Told(m) = a.source
    BY <1>2 DEF Told
  <1> QED BY <1>2, <1>3

LEMMA SourcesInvTypes == SourcesInv => SourcesTypeOK
  BY DEF SourcesInv, SourcesTypeOK, FitIsos, IsoRows, TemplateRows, FitAtts, AttRows,
         EditRows

LEMMA SourcesInvariant == Spec => []SourcesInv
  <1>1. Init => SourcesInv
    BY SourcesStart DEF Init
  <1>2. SourcesInv /\ [Next]_hostVars => SourcesInv'
    BY SourcesKept, StepsOfParts
  <1> QED BY <1>1, <1>2, PTL DEF Spec

(***************************************************************************)
(* What a guest is told to install is on the disc its install pinned, and  *)
(* on Windows the name and the index are of one and the same image         *)
(* (sync_template, pick_source_id, wim_index_for_source, update_image,     *)
(* create_install_attempt), for any discs, pages and editors at once.      *)
(***************************************************************************)
THEOREM GuestsAreToldWhatFits == Spec => []SourceFits
  BY SourcesInvariant, SourcesInvFits, PTL
-----------------------------------------------------------------------------
(* The types of each component *)

SmbFlags == smbCmd \in BOOLEAN /\ smbd \in BOOLEAN

SmbNumbers ==
    /\ smbFile \in NoFile..MaxPasswords /\ smbTmp \in NoFile..MaxPasswords
    /\ smbNew \in [SmbHandlers -> 0..MaxPasswords]
    /\ smbRead \in 0..MaxPasswords
    /\ samba \in 0..MaxPasswords
    /\ smbDrawn \in 0..MaxPasswords
    /\ smbFailed \subseteq {"handler", "smbpasswd", "rename"}

LEMMA SmbTyped == SmbSpec => []SmbTypeOK
  <1>1. SmbInit => SmbFlags /\ SmbNumbers
    <2>1. SmbInit => SmbFlags
      BY Zenon DEF SmbInit, SmbFlags
    <2>2. SmbInit => SmbNumbers
      BY PasswordsAssumption DEF PasswordsAssumption, SmbInit, SmbNumbers, NoFile
    <2> QED BY <2>1, <2>2
  <1>2. SmbFlags /\ [SmbNext]_smbVars => SmbFlags'
    BY Zenon DEF SmbFlags, SmbNext, RotateOpen, RotateWrite, RotateRename,
       RotateMissesFile, RotateCommit, RotateRequest, RotateEnds,
       SmbHelperTakes, HelperReads, HelperSets, SmbdDies, SmbRestartHost, smbVars
  <1>3. SmbNumbers /\ [SmbNext]_smbVars => SmbNumbers'
    <2> SUFFICES ASSUME SmbNumbers, [SmbNext]_smbVars PROVE SmbNumbers'
      OBVIOUS
    <2> USE DEF SmbNumbers, NoFile
    <2>1. Effective \in 0..MaxPasswords /\ 0 \in 0..MaxPasswords
      BY PasswordsAssumption DEF PasswordsAssumption, Effective
    <2>2. ASSUME NEW h \in SmbHandlers, RotateOpen(h) PROVE SmbNumbers'
      BY <2>2, PasswordsAssumption DEF PasswordsAssumption, RotateOpen
    <2>3. ASSUME NEW h \in SmbHandlers, RotateWrite(h) PROVE SmbNumbers'
      BY <2>3, PasswordsAssumption DEF PasswordsAssumption, RotateWrite
    <2>4. ASSUME NEW h \in SmbHandlers,
                 \/ RotateRename(h) \/ RotateMissesFile(h)
                 \/ RotateCommit(h) \/ RotateRequest(h)
          PROVE  SmbNumbers'
      <3>1. -1 \in -1..MaxPasswords
        BY PasswordsAssumption DEF PasswordsAssumption
      <3>2. CASE RotateRename(h)
        BY <3>1, <3>2 DEF RotateRename
      <3>3. CASE RotateMissesFile(h)
        BY <3>3 DEF RotateMissesFile
      <3>4. CASE RotateCommit(h) \/ RotateRequest(h)
        BY <3>4 DEF RotateCommit, RotateRequest
      <3> QED BY <2>4, <3>2, <3>3, <3>4
    <2>5. ASSUME NEW h \in SmbHandlers, RotateEnds(h) PROVE SmbNumbers'
      BY <2>1, <2>5 DEF RotateEnds
    <2>6. CASE SmbHelperTakes \/ HelperReads \/ HelperSets \/ SmbdDies \/ SmbRestartHost
      BY <2>1, <2>6
         DEF SmbHelperTakes, HelperReads, HelperSets, SmbdDies, SmbRestartHost
    <2>7. CASE UNCHANGED smbVars
      BY <2>7 DEF smbVars
    <2> QED BY <2>2, <2>3, <2>4, <2>5, <2>6, <2>7 DEF SmbNext
  <1>4. SmbInv /\ SmbFlags /\ SmbNumbers => SmbTypeOK
    BY DEF SmbInv, SmbTypes, SmbFlags, SmbNumbers, SmbTypeOK
  <1> QED BY <1>1, <1>2, <1>3, <1>4, SmbInvariant, PTL DEF SmbSpec

NfsFlags == nfsStamp \in BOOLEAN /\ nfsUp \in BOOLEAN

NfsLoopTyped ==
    nfsLoop \in [step : {"write", "reload", "clear", "check", "prepare", "boot"},
                 changed : BOOLEAN]

NfsRest ==
    /\ nfsTrees \subseteq Trees
    /\ nfsConf \subseteq Trees
    /\ nfsLoaded \subseteq Trees
    /\ nfsChanges \in 0..MaxChanges

LEMMA NfsTyped == NfsSpec => []NfsTypeOK
  <1>1. NfsInit => NfsFlags /\ NfsLoopTyped /\ NfsRest
    <2>1. NfsInit => NfsFlags
      BY Zenon DEF NfsInit, NfsFlags
    <2>2. NfsInit => NfsLoopTyped
      BY DEF NfsInit, NfsLoopTyped, At
    <2>3. NfsInit => NfsRest
      BY TreesAssumption DEF TreesAssumption, NfsInit, NfsRest
    <2> QED BY <2>1, <2>2, <2>3
  <1>2. NfsFlags /\ [NfsNext]_nfsVars => NfsFlags'
    BY Zenon DEF NfsFlags, NfsNext, NfsLoopStep, Publish, LeaveStamp, RemoveTree,
       GaneshaDies, NfsRestartHost, SyncWrites, SyncFails, SyncReloads, SyncClears,
       LoopChecks, StartPrepares, StartBoots, nfsVars
  <1>3. NfsLoopTyped /\ [NfsNext]_nfsVars => NfsLoopTyped'
    <2> SUFFICES ASSUME NfsLoopTyped, [NfsNext]_nfsVars PROVE NfsLoopTyped'
      OBVIOUS
    <2>1. \/ nfsLoop' = nfsLoop
          \/ nfsLoop' \in {At("clear"), At("check"), At("write"), At("prepare"), At("boot")}
          \/ nfsLoop' = [step |-> "reload", changed |-> nfsConf # nfsTrees]
      BY DEF NfsNext, NfsLoopStep, Publish, LeaveStamp, RemoveTree, GaneshaDies,
         NfsRestartHost, SyncWrites, SyncFails, SyncReloads, SyncClears, LoopChecks,
         StartPrepares, StartBoots, nfsVars
    <2>2. CASE nfsLoop' = [step |-> "reload", changed |-> nfsConf # nfsTrees]
      <3>1. CASE nfsConf # nfsTrees
        <4>1. nfsLoop' = [step |-> "reload", changed |-> TRUE]
          BY <2>2, <3>1
        <4> QED BY <4>1 DEF NfsLoopTyped
      <3>2. CASE nfsConf = nfsTrees
        <4>1. nfsLoop' = [step |-> "reload", changed |-> FALSE]
          BY <2>2, <3>2
        <4> QED BY <4>1 DEF NfsLoopTyped
      <3> QED BY <3>1, <3>2
    <2>3. CASE nfsLoop' \in {At("clear"), At("check"), At("write"), At("prepare"), At("boot")}
      <3>1. PICK name \in {"clear", "check", "write", "prepare", "boot"} :
                nfsLoop' = At(name)
        BY <2>3
      <3>2. nfsLoop' = [step |-> name, changed |-> FALSE]
        BY <3>1 DEF At
      <3> QED BY <3>2 DEF NfsLoopTyped
    <2>4. CASE nfsLoop' = nfsLoop
      BY <2>4 DEF NfsLoopTyped
    <2> QED BY <2>1, <2>2, <2>3, <2>4
  <1>4. NfsRest /\ [NfsNext]_nfsVars => NfsRest'
    <2> SUFFICES ASSUME NfsRest, [NfsNext]_nfsVars PROVE NfsRest'
      OBVIOUS
    <2>1. nfsTrees' \subseteq Trees /\ nfsConf' \subseteq Trees /\ nfsChanges' \in 0..MaxChanges
      BY TreesAssumption DEF TreesAssumption, Change, NfsRest, NfsNext, NfsLoopStep,
         Publish, LeaveStamp, RemoveTree, GaneshaDies, NfsRestartHost, SyncWrites,
         SyncFails, SyncReloads, SyncClears, LoopChecks, StartPrepares, StartBoots, nfsVars
    <2>2. nfsLoaded' \in {nfsLoaded, {}} \/ nfsLoaded' \in Loadings(nfsConf)
      BY DEF NfsNext, NfsLoopStep, Publish, LeaveStamp, RemoveTree,
         GaneshaDies, NfsRestartHost, SyncWrites, SyncFails, SyncReloads, SyncClears,
         LoopChecks, StartPrepares, StartBoots, nfsVars
    <2>3. nfsLoaded' \subseteq Trees
      BY <2>2, Zenon DEF NfsRest, Loadings
    <2> QED BY <2>1, <2>3 DEF NfsRest
  <1>5. NfsFlags /\ NfsLoopTyped /\ NfsRest => NfsTypeOK
    BY DEF NfsFlags, NfsLoopTyped, NfsRest, NfsTypeOK
  <1> QED BY <1>1, <1>2, <1>3, <1>4, <1>5, PTL DEF NfsSpec

\* What DhcpInv leaves open
DhcpRest ==
    /\ dhcpFiles.on \subseteq {"0", "1"} /\ dhcpFiles.tftp \subseteq {"0", "1"}
    /\ dnsmasq.status \in {"running", "stopped", "failed"}
    /\ dhcpSaves \in 0..MaxSaves

DhcpFlags == dhcpCmd \in BOOLEAN /\ dhcpDisturbed \in BOOLEAN

LEMMA DhcpFlagsKept ==
  ASSUME DhcpFlags, [DhcpNext]_dhcpVars
  PROVE  DhcpFlags'
  BY Zenon DEF DhcpFlags, DhcpNext, WriterStep, SavePxe, SaveDhcp, SaveTftp, Commit,
     StartWeb, RefreshRow, OpenFile, FillFile, RequestApply, DhcpWriteFails,
     DhcpHelperTakes, HelperStops, HelperStarts, DhcpRestartHost, dhcpVars

LEMMA FlagFiles ==
  ASSUME NEW row
  PROVE  /\ FilesOf(row).on \subseteq {"0", "1"}
         /\ FilesOf(row).tftp \subseteq {"0", "1"}
         /\ Running(FilesOf(row)).status \in {"running", "stopped", "failed"}
  BY DEF FilesOf, Flag, Running

LEMMA DhcpTyped == DhcpSpec => []DhcpTypeOK
  <1>1. DhcpInit => DhcpRest /\ DhcpFlags
    <2>1. DhcpInit => DhcpFlags
      BY Zenon DEF DhcpInit, DhcpFlags
    <2> SUFFICES ASSUME DhcpInit PROVE DhcpRest
      BY <2>1
    <2>2. dhcpSaves \in 0..MaxSaves
      BY DnsmasqAssumption DEF DnsmasqAssumption, DhcpInit
    <2> QED BY <2>2, FlagFiles DEF DhcpInit, DhcpRest
  <1>2. DhcpInv /\ DhcpRest /\ [DhcpNext]_dhcpVars => DhcpRest'
    <2> SUFFICES ASSUME DhcpInv, DhcpRest, [DhcpNext]_dhcpVars PROVE DhcpRest'
      OBVIOUS
    <2> USE DEF DhcpRest
    <2>1. dhcpFiles = [conf |-> dhcpFiles.conf, on |-> dhcpFiles.on,
                       tftp |-> dhcpFiles.tftp]
      BY DEF DhcpInv, DhcpTypes
    <2>2. /\ DOMAIN FileNames = {1, 2, 3}
          /\ FileNames[1] = "conf" /\ FileNames[2] = "on" /\ FileNames[3] = "tftp"
      BY DEF FileNames
    <2>3. ASSUME NEW w \in WebProcesses, SavePxe(w) \/ SaveDhcp(w) \/ SaveTftp(w)
          PROVE  DhcpRest'
      <3>1. PICK row : Commit(w, row)
        BY <2>3 DEF SavePxe, SaveDhcp, SaveTftp
      <3> QED BY <3>1, DnsmasqAssumption DEF DnsmasqAssumption, Commit
    <2>4. ASSUME NEW w \in WebProcesses,
                 RefreshRow(w) \/ StartWeb(w) \/ RequestApply(w) \/ DhcpWriteFails(w)
          PROVE  DhcpRest'
      BY <2>4 DEF RefreshRow, StartWeb, RequestApply, DhcpWriteFails
    <2>5. ASSUME NEW w \in WebProcesses, OpenFile(w) PROVE DhcpRest'
      <3>1. PICK name \in {"conf", "on", "tftp"} :
                dhcpFiles' = [dhcpFiles EXCEPT ![name] = {}]
        BY <2>2, <2>5 DEF OpenFile
      <3>2. dhcpFiles'.on \subseteq {"0", "1"} /\ dhcpFiles'.tftp \subseteq {"0", "1"}
        BY <2>1, <3>1
      <3> QED BY <2>5, <3>2 DEF OpenFile
    <2>6. ASSUME NEW w \in WebProcesses, FillFile(w) PROVE DhcpRest'
      <3>1. PICK at : at = dhcpWriter[w].at
        OBVIOUS
      <3>2. at \in {1, 2, 3}
        BY <2>6, <3>1 DEF FillFile, DhcpInv, DhcpTypes, Tasks, TaskRecords
      <3>3. PICK row : row = dhcpWriter[w].row
        OBVIOUS
      <3>4. PICK name \in {"conf", "on", "tftp"} : name = FileNames[at]
        BY <2>2, <3>2
      <3>5. PICK rest \in {{}, IF name = "conf" THEN dhcpFiles.conf ELSE {}} :
                dhcpFiles' = [dhcpFiles EXCEPT ![name] = FilesOf(row)[name] \union rest]
        BY <2>6, <3>1, <3>3, <3>4 DEF FillFile
      <3>6. name = "on" => dhcpFiles'.on = FilesOf(row).on /\ dhcpFiles'.tftp = dhcpFiles.tftp
        BY <2>1, <3>5
      <3>7. name = "tftp" => dhcpFiles'.on = dhcpFiles.on /\ dhcpFiles'.tftp = FilesOf(row).tftp
        BY <2>1, <3>5
      <3>8. name = "conf" => dhcpFiles'.on = dhcpFiles.on /\ dhcpFiles'.tftp = dhcpFiles.tftp
        BY <2>1, <3>5
      <3>9. dhcpFiles'.on \subseteq {"0", "1"} /\ dhcpFiles'.tftp \subseteq {"0", "1"}
        BY <3>4, <3>6, <3>7, <3>8, FlagFiles
      <3> QED BY <2>6, <3>9 DEF FillFile
    <2>7. CASE DhcpHelperTakes \/ HelperStops \/ HelperStarts
      <3>1. /\ UNCHANGED <<dhcpFiles, dhcpSaves>>
            /\ \/ dnsmasq' = dnsmasq
               \/ dnsmasq' \in {[status |-> "stopped", conf |-> {}],
                                [status |-> "running", conf |-> dhcpFiles.conf],
                                [status |-> "failed", conf |-> {}]}
        BY <2>7 DEF DhcpHelperTakes, HelperStops, HelperStarts
      <3> QED BY <3>1
    <2>8. CASE DhcpRestartHost
      BY <2>8, FlagFiles DEF DhcpRestartHost
    <2>9. CASE UNCHANGED dhcpVars
      BY <2>9 DEF dhcpVars
    <2> QED BY <2>3, <2>4, <2>5, <2>6, <2>7, <2>8, <2>9 DEF DhcpNext, WriterStep
  <1>3. DhcpInv /\ DhcpRest /\ DhcpFlags => DhcpTypeOK
    <2> SUFFICES ASSUME DhcpInv, DhcpRest, DhcpFlags PROVE DhcpTypeOK
      OBVIOUS
    <2>1. /\ dhcpRow \in Rows /\ DOMAIN dhcpFiles = {"conf", "on", "tftp"}
          /\ DOMAIN dhcpWriter = WebProcesses
          /\ dhcpHelper \in {"poll", "read", "start"}
      BY DEF DhcpInv, DhcpTypes
    <2>2. Len(FileNames) = 3
      BY DEF FileNames
    <2>3. ASSUME NEW w \in WebProcesses
          PROVE  /\ dhcpWriter[w].step \in {"idle", "refresh", "write"}
                 /\ dhcpWriter[w].row \in Rows
                 /\ dhcpWriter[w].at \in {1, 2, 3, 4}
                 /\ dhcpWriter[w].open => dhcpWriter[w].at # 4
      BY DEF DhcpInv, DhcpTypes, Tasks, TaskRecords
    <2>4. ASSUME NEW w \in WebProcesses
          PROVE  /\ dhcpWriter[w].at \in 1..(Len(FileNames) + 1)
                 /\ dhcpWriter[w].open => dhcpWriter[w].at <= Len(FileNames)
      <3>1. PICK at \in {1, 2, 3, 4} : at = dhcpWriter[w].at
        BY <2>3
      <3>2. at \in 1..(Len(FileNames) + 1) /\ (at # 4 => at <= Len(FileNames))
        BY <2>2
      <3> QED BY <2>3, <3>1, <3>2
    <2> QED BY <2>1, <2>3, <2>4 DEF DhcpRest, DhcpFlags, DhcpTypeOK
  <1> QED BY <1>1, <1>2, <1>3, DhcpStarts, DhcpKept, DhcpFlagsKept, PTL DEF DhcpSpec

TlsFlags == tlsReload \in BOOLEAN /\ tlsDisturbed \in BOOLEAN

\* What TlsInv leaves open
TlsNumbers ==
    /\ tlsFiles.crt \in 0..MaxPairs /\ tlsFiles.key \in 0..MaxPairs
    /\ \A p \in Processes : tlsWriter[p].pair \in 0..MaxPairs
    /\ tlsLoop \in {"watch", "stop", "start"}
    /\ tlsPairs \in 0..MaxPairs
    /\ https \in 0..MaxPairs

LEMMA TlsFlagsKept ==
  ASSUME TlsFlags, [TlsNext]_tlsVars
  PROVE  TlsFlags'
  BY Zenon DEF TlsFlags, TlsNext, Upload, Regenerate, ShowWithout, TlsBegin, ShowUnnoted,
     WriteCertificate, WriteKey, WriteSource, ReplaceFile, LoadPair, RequestReload,
     Continue, TlsWriteFails, LoopTakes, LoopStops, LoopStarts, HttpsDies,
     TlsRestartHost, StartOn, tlsVars

LEMMA TlsTyped == TlsSpec => []TlsTypeOK
  <1>1. TlsInit => TlsFlags /\ TlsNumbers
    <2>1. TlsInit => TlsFlags
      BY Zenon DEF TlsInit, TlsFlags
    <2>2. TlsInit => TlsNumbers
      BY PairsAssumption DEF PairsAssumption, TlsInit, TlsNumbers, TlsNotWriting
    <2> QED BY <2>1, <2>2
  <1>2. TlsInv /\ TlsNumbers /\ [TlsNext]_tlsVars => TlsNumbers'
    <2> SUFFICES ASSUME TlsInv, TlsNumbers, [TlsNext]_tlsVars PROVE TlsNumbers'
      OBVIOUS
    <2>1. /\ tlsFiles = [crt |-> tlsFiles.crt, key |-> tlsFiles.key,
                         source |-> tlsFiles.source]
          /\ \A p \in Processes : tlsWriter[p] \in Writers \union {TlsNotWriting}
          /\ DOMAIN tlsWriter = Processes /\ "https" \in Processes
          /\ TlsNotWriting.pair \in 0..MaxPairs
      BY PairsAssumption DEF PairsAssumption, TlsInv, TlsTypes, CertFiles, Processes,
         TlsNotWriting
    <2>2. ASSUME NEW p \in Processes, Upload(p) \/ Regenerate(p) \/ ShowWithout(p)
          PROVE  TlsNumbers'
      <3>1. PICK source, todo : TlsBegin(p, source, todo)
        BY <2>2 DEF Upload, Regenerate, ShowWithout
      <3>2. PICK n \in 0..MaxPairs : n = tlsPairs + 1
        BY <3>1, PairsAssumption DEF PairsAssumption, TlsBegin, TlsNumbers
      <3>3. ASSUME NEW q \in Processes PROVE tlsWriter'[q].pair \in 0..MaxPairs
        <4>1. CASE q = p
          BY <3>1, <3>2, <4>1 DEF TlsBegin
        <4>2. CASE q # p
          <5>1. PICK x \in Writers \union {TlsNotWriting} : x = tlsWriter[q]
            BY <2>1
          <5>2. tlsWriter'[q] \in {x, [x EXCEPT !.alone = FALSE]}
            BY <3>1, <4>2, <5>1 DEF TlsBegin
          <5>3. x.pair \in 0..MaxPairs
            BY <5>1 DEF TlsNumbers
          <5>4. [x EXCEPT !.alone = FALSE].pair = x.pair
            BY DEF Writers, TlsNotWriting
          <5> QED BY <5>2, <5>3, <5>4
        <4> QED BY <4>1, <4>2
      <3>4. tlsPairs' = n /\ UNCHANGED <<tlsFiles, tlsLoop, https>>
        BY <3>1, <3>2 DEF TlsBegin
      <3> QED BY <3>3, <3>4 DEF TlsNumbers
    <2>3. ASSUME NEW p \in Processes, ShowUnnoted(p) PROVE TlsNumbers'
      <3>1. tlsFiles'.crt = tlsFiles.crt /\ tlsFiles'.key = tlsFiles.key
        BY <2>1, <2>3 DEF ShowUnnoted
      <3> QED BY <2>3, <3>1 DEF ShowUnnoted, TlsNumbers
    <2>4. ASSUME NEW p \in Processes, Continue(p)
          PROVE  \A q \in Processes : tlsWriter'[q].pair \in 0..MaxPairs
      <3>1. PICK x \in Writers \union {TlsNotWriting} : x = tlsWriter[p]
        BY <2>1
      <3>2. PICK rest : rest = Tail(x.todo)
        OBVIOUS
      <3>3. PICK y : y = IF rest = <<>> THEN TlsNotWriting ELSE [x EXCEPT !.todo = rest]
        OBVIOUS
      <3>4. tlsWriter' = [tlsWriter EXCEPT ![p] = y]
        BY <2>4, <3>1, <3>2, <3>3 DEF Continue
      <3>5. [x EXCEPT !.todo = rest].pair = x.pair
        BY DEF Writers, TlsNotWriting
      <3>6. y.pair \in 0..MaxPairs
        BY <2>1, <3>1, <3>3, <3>5 DEF TlsNumbers
      <3> QED BY <2>1, <3>4, <3>6 DEF TlsNumbers
    <2>5. ASSUME NEW p \in Processes,
                 \/ WriteCertificate(p) \/ WriteKey(p) \/ WriteSource(p)
                 \/ LoadPair(p) \/ RequestReload(p)
          PROVE  TlsNumbers'
      <3>1. /\ Continue(p) /\ UNCHANGED <<tlsLoop, tlsPairs, https>>
            /\ \/ tlsFiles' = [tlsFiles EXCEPT !.crt = tlsWriter[p].pair]
               \/ tlsFiles' = [tlsFiles EXCEPT !.key = tlsWriter[p].pair]
               \/ tlsFiles' = [tlsFiles EXCEPT !.source = tlsWriter[p].source]
               \/ tlsFiles' = tlsFiles
        BY <2>5 DEF WriteCertificate, WriteKey, WriteSource, ReplaceFile, LoadPair,
           RequestReload
      <3>2. tlsFiles'.crt \in 0..MaxPairs /\ tlsFiles'.key \in 0..MaxPairs
        BY <2>1, <3>1 DEF TlsNumbers
      <3> QED BY <2>4, <3>1, <3>2 DEF TlsNumbers
    <2>6. ASSUME NEW p \in Processes, TlsWriteFails(p) \/ (HttpsDies /\ p = "https")
          PROVE  TlsNumbers'
      <3>1. /\ tlsWriter' = [tlsWriter EXCEPT ![p] = TlsNotWriting]
            /\ https' \in {https, 0} /\ UNCHANGED <<tlsFiles, tlsLoop, tlsPairs>>
        BY <2>6 DEF TlsWriteFails, HttpsDies
      <3>2. 0 \in 0..MaxPairs
        BY PairsAssumption DEF PairsAssumption
      <3> QED BY <2>1, <3>1, <3>2 DEF TlsNumbers
    <2>7. 0 \in 0..MaxPairs /\ Served(tlsFiles) \in 0..MaxPairs
      BY PairsAssumption DEF PairsAssumption, Served, TlsNumbers
    <2>8. CASE LoopTakes \/ LoopStops \/ LoopStarts
      BY <2>7, <2>8 DEF LoopTakes, LoopStops, LoopStarts, TlsNumbers
    <2>9. CASE TlsRestartHost
      <3>1. PICK files : /\ StartOn(files)
                         /\ files.crt \in 0..MaxPairs /\ files.key \in 0..MaxPairs
                         /\ tlsPairs' \in 0..MaxPairs
        <4>1. CASE /\ tlsPairs < MaxPairs /\ tlsPairs' = tlsPairs + 1
                   /\ StartOn([crt |-> tlsPairs + 1, key |-> tlsPairs + 1,
                               source |-> "self-signed"])
          <5>1. PICK n \in 0..MaxPairs : n = tlsPairs + 1
            BY <4>1, PairsAssumption DEF PairsAssumption, TlsNumbers
          <5> QED BY <4>1, <5>1
        <4>2. CASE /\ StartOn([tlsFiles EXCEPT !.source =
                           IF Whole(tlsFiles) /\ @ = "none" THEN "operator" ELSE @])
                   /\ UNCHANGED tlsPairs
          <5>1. PICK from : from = IF Whole(tlsFiles) /\ tlsFiles.source = "none"
                                   THEN "operator" ELSE tlsFiles.source
            OBVIOUS
          <5>2. PICK files : files = [tlsFiles EXCEPT !.source = from]
            OBVIOUS
          <5>3. StartOn(files)
            BY <4>2, <5>1, <5>2
          <5>4. files.crt = tlsFiles.crt /\ files.key = tlsFiles.key
            BY <2>1, <5>2
          <5> QED BY <4>2, <5>3, <5>4 DEF TlsNumbers
        <4> QED BY <2>9, <4>1, <4>2 DEF TlsRestartHost
      <3>2. https' \in 0..MaxPairs
        BY <2>7, <3>1 DEF StartOn, Served
      <3>3. tlsFiles' = files /\ tlsLoop' = "watch"
            /\ \A q \in Processes : tlsWriter'[q] = TlsNotWriting
        BY <3>1 DEF StartOn
      <3> QED BY <2>1, <3>1, <3>2, <3>3 DEF TlsNumbers
    <2>10. CASE UNCHANGED tlsVars
      BY <2>10 DEF tlsVars, TlsNumbers
    <2> QED BY <2>1, <2>2, <2>3, <2>5, <2>6, <2>8, <2>9, <2>10 DEF TlsNext
  <1>3. TlsInv /\ TlsFlags /\ TlsNumbers => TlsTypeOK
    <2> SUFFICES ASSUME TlsInv, TlsFlags, TlsNumbers PROVE TlsTypeOK
      OBVIOUS
    <2>1. tlsFiles \in [crt : 0..MaxPairs, key : 0..MaxPairs, source : Sources]
      BY DEF TlsInv, TlsTypes, CertFiles, TlsNumbers
    <2>2. ASSUME NEW p \in Processes
          PROVE  tlsWriter[p].source \in Sources /\ tlsWriter[p].alone \in BOOLEAN
      <3>1. PICK x \in Writers \union {TlsNotWriting} : x = tlsWriter[p]
        BY DEF TlsInv, TlsTypes
      <3>2. CASE x \in Writers
        BY <3>1, <3>2 DEF Writers
      <3>3. CASE x = TlsNotWriting
        <4>1. x.source = "none" /\ x.alone = TRUE
          BY <3>3 DEF TlsNotWriting
        <4> QED BY <3>1, <4>1 DEF Sources
      <3> QED BY <3>2, <3>3
    <2> QED BY <2>1, <2>2 DEF TlsFlags, TlsNumbers, TlsTypeOK
  <1> QED BY <1>1, <1>2, <1>3, TlsStarts, TlsKept, TlsFlagsKept, PTL DEF TlsSpec

RestoreSteps == {"no", "checked", "copied"}

\* What IpxeTypes leaves open
IpxeRest ==
    /\ ipxeRow.options \in Options
    /\ ipxeWork \in Options \union {"none"}
    /\ \A w \in Builders :
           ipxeJob[w].step # "none" => ipxeJob[w].options \in Options
    /\ ipxeRestore \in [Builders -> RestoreSteps]
    /\ ipxeBegun \in 0..MaxBuilds
    /\ ipxeExcuses \subseteq {"overlap", "bare"}

\* A build that goes on builds what it did, or the options of the row.
LEMMA OptionsKept ==
  ASSUME IpxeTypes, IpxeRest, NEW w \in Builders, NEW j,
         ipxeJob' = [ipxeJob EXCEPT ![w] = j],
         j.step = "none" \/ j.options \in Options
  PROVE  \A v \in Builders : ipxeJob'[v].step # "none" => ipxeJob'[v].options \in Options
  BY DEF IpxeTypes, IpxeRest

\* A step that leaves the options of a build alone
LEMMA SameOptions ==
  ASSUME IpxeTypes, IpxeRest, NEW w \in Builders, ipxeJob[w].step # "none",
         NEW j, ipxeJob' = [ipxeJob EXCEPT ![w] = j], j.options = ipxeJob[w].options
  PROVE  \A v \in Builders : ipxeJob'[v].step # "none" => ipxeJob'[v].options \in Options
  <1>1. j.options \in Options
    BY DEF IpxeRest
  <1> QED BY <1>1, OptionsKept

LEMMA IpxeTyped == IpxeSpec => []IpxeTypeOK
  <1>1. IpxeInit => IpxeRest
    BY IpxeAssumption DEF IpxeAssumption, IpxeInit, IpxeRest, NoJob, RestoreSteps
  <1>2. IpxeTypes /\ IpxeRest /\ [IpxeNext]_ipxeVars => IpxeRest'
    <2> SUFFICES ASSUME IpxeTypes, IpxeRest, [IpxeNext]_ipxeVars PROVE IpxeRest'
      OBVIOUS
    <2>1. /\ ipxeRow \in BuildRows
          /\ \A w \in Builders : ipxeJob[w] \in Jobs
          /\ DOMAIN ipxeRestore = Builders
      BY DEF IpxeTypes, IpxeRest
    <2>2. ASSUME NEW w \in Builders, BeginRebuild(w) PROVE IpxeRest'
      <3>1. PICK o \in Options :
                /\ Started(w, o) /\ UNCHANGED ipxeRow
                /\ ipxeJob' = [ipxeJob EXCEPT
                       ![w] = [NoJob EXCEPT !.step = "begun", !.options = o]]
        BY <2>2 DEF BeginRebuild
      <3>2. PICK j : j = [NoJob EXCEPT !.step = "begun", !.options = o]
        OBVIOUS
      <3>3. j.options = o
        BY <3>2 DEF NoJob
      <3>4. \A v \in Builders : ipxeJob'[v].step # "none" => ipxeJob'[v].options \in Options
        BY <3>1, <3>2, <3>3, OptionsKept
      <3>5. ipxeBegun' \in 0..MaxBuilds
        BY <3>1, IpxeAssumption DEF IpxeAssumption, Started, IpxeRest
      <3>6. ipxeExcuses' \subseteq {"overlap", "bare"}
        BY <3>1 DEF Started, IpxeRest
      <3> QED BY <3>1, <3>4, <3>5, <3>6 DEF Started, IpxeRest
    <2>3. ASSUME NEW w \in Builders, CommitBegun(w) PROVE IpxeRest'
      <3>1. PICK j : j = [ipxeJob[w] EXCEPT !.step = "launch"]
        OBVIOUS
      <3>2. ipxeJob' = [ipxeJob EXCEPT ![w] = j] /\ ipxeJob[w].step # "none"
        BY <2>3, <3>1 DEF CommitBegun, Step
      <3>3. j.options = ipxeJob[w].options
        BY <2>1, <3>1 DEF Jobs
      <3>4. ipxeRow'.options = ipxeJob[w].options
        BY <2>1, <2>3 DEF CommitBegun, BuildRows
      <3> QED BY <2>3, <3>2, <3>3, <3>4, SameOptions DEF CommitBegun, Quiet, IpxeRest
    <2>4. ASSUME NEW w \in Builders, CancelPending(w) \/ ProcessEnds(w) PROVE IpxeRest'
      <3>1. ipxeJob' = [ipxeJob EXCEPT ![w] = NoJob] /\ NoJob.step = "none"
        BY <2>4 DEF CancelPending, ProcessEnds, NoJob
      <3>2. \A v \in Builders : ipxeJob'[v].step # "none" => ipxeJob'[v].options \in Options
        BY <3>1, OptionsKept
      <3>3. ipxeRestore' \in [Builders -> RestoreSteps]
        BY <2>4 DEF CancelPending, ProcessEnds, Quiet, IpxeRest, RestoreSteps
      <3> QED BY <2>4, <3>2, <3>3 DEF CancelPending, ProcessEnds, Quiet, IpxeRest
    <2>5. ASSUME NEW w \in Builders, ReadOptions(w) PROVE IpxeRest'
      <3>1. PICK j : j = [ipxeJob[w] EXCEPT !.step = "copy", !.options = ipxeRow.options]
        OBVIOUS
      <3>2. ipxeJob' = [ipxeJob EXCEPT ![w] = j]
        BY <2>5, <3>1 DEF ReadOptions
      <3>3. j.options \in Options
        BY <2>1, <3>1 DEF Jobs, IpxeRest
      <3> QED BY <2>5, <3>2, <3>3, OptionsKept DEF ReadOptions, Quiet, IpxeRest
    <2>6. ASSUME NEW w \in Builders,
                 \/ CopySources(w) \/ KeepNative(w) \/ WriteCustom(w)
                 \/ WriteServed(w) \/ WriteNote(w)
          PROVE  IpxeRest'
      <3>1. PICK s : /\ ipxeJob' = [ipxeJob EXCEPT ![w].step = s]
                     /\ ipxeJob[w].step # "none"
        BY <2>6 DEF CopySources, KeepNative, WriteCustom, WriteServed, WriteNote, Step
      <3>2. PICK j : j = [ipxeJob[w] EXCEPT !.step = s]
        OBVIOUS
      <3>3. ipxeJob' = [ipxeJob EXCEPT ![w] = j]
        BY <3>1, <3>2
      <3>4. j.options = ipxeJob[w].options
        BY <2>1, <3>2 DEF Jobs
      <3>5. /\ UNCHANGED <<ipxeRow, ipxeRestore, ipxeBegun, ipxeExcuses>>
            /\ ipxeWork' \in {ipxeWork, ipxeJob[w].options}
        BY <2>6 DEF CopySources, KeepNative, WriteCustom, WriteServed, WriteNote, Quiet
      <3>6. ipxeWork' \in Options \union {"none"}
        BY <3>1, <3>5 DEF IpxeRest
      <3> QED BY <3>1, <3>3, <3>4, <3>5, <3>6, SameOptions DEF IpxeRest
    <2>7. ASSUME NEW w \in Builders, Make(w) PROVE IpxeRest'
      <3>1. PICK j : j = [ipxeJob[w] EXCEPT !.step = "look", !.efi = ipxeWork]
        OBVIOUS
      <3>2. ipxeJob' = [ipxeJob EXCEPT ![w] = j] /\ ipxeJob[w].step # "none"
        BY <2>7, <3>1 DEF Make
      <3>3. j.options = ipxeJob[w].options
        BY <2>1, <3>1 DEF Jobs
      <3> QED BY <2>7, <3>2, <3>3, SameOptions DEF Make, Quiet, IpxeRest
    <2>8. ASSUME NEW w \in Builders, LookForNative(w) PROVE IpxeRest'
      <3>1. PICK s : /\ ipxeJob' = [ipxeJob EXCEPT ![w].step = s,
                                                   ![w].kept = ipxeFiles.served]
                     /\ ipxeJob[w].step # "none"
        BY <2>8 DEF LookForNative
      <3>2. PICK j : j = [ipxeJob[w] EXCEPT !.step = s, !.kept = ipxeFiles.served]
        OBVIOUS
      <3>3. ipxeJob' = [ipxeJob EXCEPT ![w] = j]
        BY <3>1, <3>2
      <3>4. j.options = ipxeJob[w].options
        BY <2>1, <3>2 DEF Jobs
      <3>5. ipxeExcuses' \subseteq {"overlap", "bare"}
        BY <2>8 DEF LookForNative, IpxeRest
      <3> QED BY <2>8, <3>1, <3>3, <3>4, <3>5, SameOptions DEF LookForNative, IpxeRest
    <2>9. ASSUME NEW w \in Builders, ReportReady(w) \/ JobFails(w) PROVE IpxeRest'
      <3>1. ipxeJob' = [ipxeJob EXCEPT ![w] = NoJob] /\ NoJob.step = "none"
        BY <2>9 DEF ReportReady, JobFails, NoJob
      <3>2. ipxeRow'.options = ipxeRow.options
        BY <2>1, <2>9 DEF ReportReady, JobFails, BuildRows
      <3>3. \A v \in Builders : ipxeJob'[v].step # "none" => ipxeJob'[v].options \in Options
        BY <3>1, OptionsKept
      <3> QED BY <2>9, <3>2, <3>3 DEF ReportReady, JobFails, Quiet, IpxeRest
    <2>10. ASSUME NEW w \in Builders, CheckRestore(w) \/ CopyNative(w) \/ CommitRestore(w)
           PROVE  IpxeRest'
      <3>1. ipxeRow'.options = ipxeRow.options
        BY <2>1, <2>10 DEF CheckRestore, CopyNative, CommitRestore, BuildRows
      <3>2. ipxeRestore' \in [Builders -> RestoreSteps]
        BY <2>10 DEF CheckRestore, CopyNative, CommitRestore, IpxeRest, RestoreSteps
      <3> QED BY <2>10, <3>1, <3>2 DEF CheckRestore, CopyNative, CommitRestore, IpxeRest
    <2>11. CASE UploadEfi \/ DeleteEfi
      BY <2>11 DEF UploadEfi, DeleteEfi, FileBrowser, IpxeRest
    <2>12. CASE UNCHANGED ipxeVars
      BY <2>12 DEF ipxeVars, IpxeRest
    <2> QED BY <2>2, <2>3, <2>4, <2>5, <2>6, <2>7, <2>8, <2>9, <2>10, <2>11, <2>12
            DEF IpxeNext, ThreadStep
  <1>3. IpxeTypes /\ IpxeRest => IpxeTypeOK
    <2> SUFFICES ASSUME IpxeTypes, IpxeRest PROVE IpxeTypeOK
      OBVIOUS
    <2>1. ipxeRow \in [options : Options, served : {"unset", "stock", "custom"},
                       status : {"idle", "building", "ready", "failed"}]
      BY DEF IpxeTypes, IpxeRest, BuildRows
    <2>2. ASSUME NEW n \in {"native", "custom", "served", "note"}
          PROVE  ipxeFiles[n] \in Options \union {"none", "stub", "stock"}
      BY DEF IpxeTypes, Files, Contents
    <2>3. ASSUME NEW w \in Builders
          PROVE  /\ ipxeJob[w].step \in {"none", "begun", "launch", "copy", "make",
                        "look", "keep", "custom", "serve", "note", "report"}
                 /\ ipxeRestore[w] \in {"no", "checked", "copied"}
      BY DEF IpxeTypes, IpxeRest, Jobs, BuildSteps, RestoreSteps
    <2> QED BY <2>1, <2>2, <2>3 DEF IpxeRest, IpxeTypeOK
  <1>4. IpxeTypes /\ [IpxeNext]_ipxeVars => IpxeTypes'
    BY IpxeTypesKept
  <1>5. IpxeInit => IpxeTypes
    BY IpxeBegins DEF IpxeInv
  <1> QED BY <1>1, <1>2, <1>3, <1>4, <1>5, PTL DEF IpxeSpec

LEMMA FocusKept == Spec => [](focus \in Focuses)
  <1>1. Init => focus \in Focuses
    BY DEF Init
  <1>2. focus \in Focuses /\ [Next]_hostVars => (focus \in Focuses)'
    BY DEF Next, Dnsmasq, Https, Samba, Ganesha, Ipxe, Library, hostVars
  <1> QED BY <1>1, <1>2, PTL DEF Spec

(***************************************************************************)
(* Type correctness of all host services: what each component has read,    *)
(* written, counted and still to do stays in its range.                    *)
(***************************************************************************)
THEOREM HostTypesHold == Spec => []TypeOK
  <1>1. /\ focus \in Focuses /\ DhcpTypeOK /\ TlsTypeOK /\ SmbTypeOK /\ NfsTypeOK
        /\ IpxeTypeOK /\ SourcesTypeOK
        => TypeOK
    BY DEF TypeOK
  <1> QED BY <1>1, FocusKept, DhcpTyped, TlsTyped, SmbTyped, NfsTyped, IpxeTyped,
             SourcesInvariant, SourcesInvTypes, PartsRun, PTL
=============================================================================
