------------------------------ MODULE IpxeBuild ------------------------------
(***************************************************************************)
(* Building a local iPXE with other USB options and serving it             *)
(* (src/src/ipxe_build.py, the iPXE part of src/src/routes/boot_menu.py).  *)
(* HTTP and HTTPS are two processes: each has its own guard against a      *)
(* second build, but one row, one work tree and one TFTP root.             *)
(*                                                                         *)
(* A file holds "none", "stub" (what the entrypoint puts there), "stock"   *)
(* (an upload) or the options of a build.  Simplifications: copying the    *)
(* sources and writing their usb.h is one step; a commit writes all its    *)
(* columns (two processes that build at once are excused below anyhow);    *)
(* the backup is not deleted, nor ipxe.efi touched in the file browser     *)
(* during a build.                                                         *)
(***************************************************************************)
EXTENDS Naturals

CONSTANTS Builders,       \* web processes
          Options,        \* choices of the USB form
          DefaultOptions, \* those of a new row
          WithKeyboard,   \* those that link the keyboard driver
          MaxBuilds       \* bound: builds begun

ASSUME IpxeAssumption ==
    /\ DefaultOptions \in Options
    /\ WithKeyboard \subseteq Options
    /\ Options \cap {"none", "stub", "stock"} = {}
    /\ MaxBuilds \in Nat

VARIABLES ipxeRow,      \* [options, status, served] of the committed row
          ipxeFiles,    \* ipxe-native.efi, ipxe-custom.efi, ipxe.efi and note
          ipxeWork,     \* usb.h in the work tree
          ipxeJob,      \* the build of each process
          ipxeRestore,  \* "Use stock" in each process: "no", "checked", "copied"
          ipxeBegun,    \* builds begun
          ipxeExcuses   \* history: "overlap", two processes have built at
                        \* once; "bare", a build found no ipxe.efi to keep

ipxeVars == <<ipxeRow, ipxeFiles, ipxeWork, ipxeJob, ipxeRestore, ipxeBegun,
              ipxeExcuses>>

NoJob == [step |-> "none", options |-> "none", efi |-> "none", kept |-> "none"]

\* _pending, or a thread that is alive
InProgress(w) == ipxeJob[w].step # "none"

Step(w, from, to) ==
    /\ ipxeJob[w].step = from
    /\ ipxeJob' = [ipxeJob EXCEPT ![w].step = to]

Quiet == UNCHANGED <<ipxeRestore, ipxeBegun, ipxeExcuses>>
-----------------------------------------------------------------------------
(* The request: begin_rebuild, the commit, launch_rebuild *)

Started(w, o) ==
    /\ ipxeBegun < MaxBuilds
    /\ ipxeBegun' = ipxeBegun + 1
    /\ ipxeExcuses' = ipxeExcuses \union
           (IF \E v \in Builders \ {w} : InProgress(v) THEN {"overlap"} ELSE {})
    /\ UNCHANGED <<ipxeFiles, ipxeWork, ipxeRestore>>

\* Mutated form: the guard looks at _pending only.  The options are committed
\* under the running thread, and launch_rebuild leaves that thread alone.
BeginUnlessPending(w) ==
    /\ ipxeJob[w].step # "begun"
    /\ \E o \in Options :
           /\ Started(w, o)
           /\ IF InProgress(w)
              THEN /\ ipxeRow' = [ipxeRow EXCEPT !.options = o,
                                                 !.status = "building"]
                   /\ UNCHANGED ipxeJob
              ELSE /\ ipxeJob' = [ipxeJob EXCEPT
                          ![w] = [NoJob EXCEPT !.step = "begun", !.options = o]]
                   /\ UNCHANGED ipxeRow

BeginRebuild(w) ==
    /\ ~InProgress(w)
    /\ \E o \in Options :
           /\ Started(w, o)
           /\ ipxeJob' = [ipxeJob EXCEPT
                  ![w] = [NoJob EXCEPT !.step = "begun", !.options = o]]
           /\ UNCHANGED ipxeRow

CommitBegun(w) ==
    /\ Step(w, "begun", "launch")
    /\ ipxeRow' = [ipxeRow EXCEPT !.options = ipxeJob[w].options,
                                  !.status = "building"]
    /\ Quiet /\ UNCHANGED <<ipxeFiles, ipxeWork>>

\* The process ends, and its thread with it.  HTTPS is restarted for every
\* new certificate.
ProcessEnds(w) ==
    /\ InProgress(w) \/ ipxeRestore[w] # "no"
    /\ ipxeJob' = [ipxeJob EXCEPT ![w] = NoJob]
    /\ ipxeRestore' = [ipxeRestore EXCEPT ![w] = "no"]
    /\ UNCHANGED <<ipxeRow, ipxeFiles, ipxeWork, ipxeBegun, ipxeExcuses>>

\* The commit fails: cancel_rebuild_pending.
CancelPending(w) ==
    /\ ipxeJob[w].step = "begun"
    /\ ipxeJob' = [ipxeJob EXCEPT ![w] = NoJob]
    /\ Quiet /\ UNCHANGED <<ipxeRow, ipxeFiles, ipxeWork>>
-----------------------------------------------------------------------------
(* The thread: _rebuild_job *)

ReadOptions(w) ==
    /\ ipxeJob[w].step = "launch"
    /\ ipxeJob' = [ipxeJob EXCEPT ![w].step = "copy", ![w].options = ipxeRow.options]
    /\ Quiet /\ UNCHANGED <<ipxeRow, ipxeFiles, ipxeWork>>

CopySources(w) ==
    /\ Step(w, "copy", "make")
    /\ ipxeWork' = ipxeJob[w].options
    /\ Quiet /\ UNCHANGED <<ipxeRow, ipxeFiles>>

\* A build for the keyboard is refused without the driver in the link map.
Make(w) ==
    /\ ipxeJob[w].step = "make"
    /\ ipxeJob[w].options \in WithKeyboard => ipxeWork \in WithKeyboard
    /\ ipxeJob' = [ipxeJob EXCEPT ![w].step = "look", ![w].efi = ipxeWork]
    /\ Quiet /\ UNCHANGED <<ipxeRow, ipxeFiles, ipxeWork>>

\* Mutated form: every build backs up what it replaces.
LookAlways(w) ==
    /\ ipxeJob[w].step = "look"
    /\ ipxeJob' = [ipxeJob EXCEPT ![w].step = "keep", ![w].kept = ipxeFiles.served]
    /\ Quiet /\ UNCHANGED <<ipxeRow, ipxeFiles, ipxeWork>>

LookForNative(w) ==
    LET bare == ipxeFiles.native = "none" /\ ipxeFiles.served = "none"
        keep == ipxeFiles.native = "none" /\ ~bare
    IN  /\ ipxeJob[w].step = "look"
        /\ ipxeJob' = [ipxeJob EXCEPT ![w].step = IF keep THEN "keep" ELSE "custom",
                                      ![w].kept = ipxeFiles.served]
        /\ ipxeExcuses' = ipxeExcuses \union (IF bare THEN {"bare"} ELSE {})
        /\ UNCHANGED <<ipxeRow, ipxeFiles, ipxeWork, ipxeRestore, ipxeBegun>>

KeepNative(w) ==
    /\ Step(w, "keep", "custom")
    /\ ipxeFiles' = [ipxeFiles EXCEPT !.native = ipxeJob[w].kept]
    /\ Quiet /\ UNCHANGED <<ipxeRow, ipxeWork>>

WriteCustom(w) ==
    /\ Step(w, "custom", "serve")
    /\ ipxeFiles' = [ipxeFiles EXCEPT !.custom = ipxeJob[w].efi]
    /\ Quiet /\ UNCHANGED <<ipxeRow, ipxeWork>>

WriteServed(w) ==
    /\ Step(w, "serve", "note")
    /\ ipxeFiles' = [ipxeFiles EXCEPT !.served = ipxeJob[w].efi]
    /\ Quiet /\ UNCHANGED <<ipxeRow, ipxeWork>>

WriteNote(w) ==
    /\ Step(w, "note", "report")
    /\ ipxeFiles' = [ipxeFiles EXCEPT !.note = ipxeJob[w].options]
    /\ Quiet /\ UNCHANGED <<ipxeRow, ipxeWork>>

ReportReady(w) ==
    /\ ipxeJob[w].step = "report"
    /\ ipxeJob' = [ipxeJob EXCEPT ![w] = NoJob]
    /\ ipxeRow' = [ipxeRow EXCEPT !.status = "ready", !.served = "custom"]
    /\ Quiet /\ UNCHANGED <<ipxeFiles, ipxeWork>>

\* An exception at any step: no sources, make fails or runs out of time, a
\* full disk, a work tree removed by the other process.
JobFails(w) ==
    /\ ipxeJob[w].step \in {"copy", "make", "look", "keep", "custom", "serve", "note"}
    /\ ipxeJob' = [ipxeJob EXCEPT ![w] = NoJob]
    /\ ipxeRow' = [ipxeRow EXCEPT !.status = "failed"]
    /\ Quiet /\ UNCHANGED <<ipxeFiles, ipxeWork>>
-----------------------------------------------------------------------------
(* "Use stock", and the operator's own files *)

CheckRestore(w) ==
    /\ ipxeRestore[w] = "no"
    /\ ~InProgress(w)
    /\ ipxeFiles.native # "none"
    /\ ipxeRestore' = [ipxeRestore EXCEPT ![w] = "checked"]
    /\ UNCHANGED <<ipxeRow, ipxeFiles, ipxeWork, ipxeJob, ipxeBegun, ipxeExcuses>>

CopyNative(w) ==
    /\ ipxeRestore[w] = "checked"
    /\ ipxeRestore' = [ipxeRestore EXCEPT ![w] = "copied"]
    /\ ipxeFiles' = [ipxeFiles EXCEPT !.served = ipxeFiles.native]
    /\ UNCHANGED <<ipxeRow, ipxeWork, ipxeJob, ipxeBegun, ipxeExcuses>>

\* If this commit fails the row goes on naming the custom build.
CommitRestore(w) ==
    /\ ipxeRestore[w] = "copied"
    /\ ipxeRestore' = [ipxeRestore EXCEPT ![w] = "no"]
    /\ ipxeRow' \in {ipxeRow, [ipxeRow EXCEPT !.served = "stock"]}
    /\ UNCHANGED <<ipxeFiles, ipxeWork, ipxeJob, ipxeBegun, ipxeExcuses>>

FileBrowser(served) ==
    /\ \A w \in Builders : ~InProgress(w)
    /\ ipxeFiles' = [ipxeFiles EXCEPT !.served = served]
    /\ UNCHANGED <<ipxeRow, ipxeWork, ipxeJob, ipxeRestore, ipxeBegun, ipxeExcuses>>

\* An upload is written in place; one that is empty or too large leaves nothing.
UploadEfi == FileBrowser("stock") \/ FileBrowser("none")
DeleteEfi == ipxeFiles.served # "none" /\ FileBrowser("none")
-----------------------------------------------------------------------------
IpxeInit ==
    /\ ipxeRow = [options |-> DefaultOptions, status |-> "idle", served |-> "unset"]
    /\ ipxeFiles = [native |-> "none", custom |-> "none", served |-> "stub",
                    note |-> "none"]
    /\ ipxeWork = "none"
    /\ ipxeJob = [w \in Builders |-> NoJob]
    /\ ipxeRestore = [w \in Builders |-> "no"]
    /\ ipxeBegun = 0
    /\ ipxeExcuses = {}

ThreadStep(w) ==
    \/ ReadOptions(w) \/ CopySources(w) \/ Make(w) \/ LookForNative(w)
    \/ KeepNative(w) \/ WriteCustom(w) \/ WriteServed(w) \/ WriteNote(w)
    \/ ReportReady(w) \/ JobFails(w)

IpxeNext ==
    \/ \E w \in Builders :
           \/ BeginRebuild(w) \/ CommitBegun(w) \/ CancelPending(w) \/ ProcessEnds(w)
           \/ ThreadStep(w)
           \/ CheckRestore(w) \/ CopyNative(w) \/ CommitRestore(w)
    \/ UploadEfi \/ DeleteEfi

IpxeSpec == IpxeInit /\ [][IpxeNext]_ipxeVars
-----------------------------------------------------------------------------
(* Properties *)

\* Type correctness.
IpxeTypeOK ==
    /\ ipxeRow \in [options : Options, served : {"unset", "stock", "custom"},
                    status : {"idle", "building", "ready", "failed"}]
    /\ \A n \in {"native", "custom", "served", "note"} :
           ipxeFiles[n] \in Options \union {"none", "stub", "stock"}
    /\ ipxeWork \in Options \union {"none"}
    /\ \A w \in Builders :
           /\ ipxeJob[w].step \in {"none", "begun", "launch", "copy", "make",
                  "look", "keep", "custom", "serve", "note", "report"}
           /\ ipxeRestore[w] \in {"no", "checked", "copied"}
    /\ ipxeBegun \in 0..MaxBuilds
    /\ ipxeExcuses \subseteq {"overlap", "bare"}

(***************************************************************************)
(* "The first rebuild keeps the previous file as ipxe-native.efi, and Use  *)
(* stock puts that backup back" (src/CHANGELOG.md:92): as long as builds   *)
(* of two processes have not overlapped and no build found the served file *)
(* missing, whenever clients get a build of our own there is a backup, and *)
(* the backup is never such a build, wherever builds fail or processes     *)
(* die.                                                                    *)
(***************************************************************************)
StockCanReturn ==
    ipxeExcuses = {} =>
        /\ ipxeFiles.native \notin Options
        /\ ipxeFiles.served \in Options => ipxeFiles.native # "none"

(***************************************************************************)
(* A row that says "ready" tells the truth: the custom file, the note and, *)
(* if it is a build at all, the served file have the options that the      *)
(* console shows, with the same exceptions.                                *)
(***************************************************************************)
ReadyIsWhatIsShown ==
    ipxeRow.status = "ready" /\ ipxeExcuses = {} =>
        /\ ipxeFiles.custom = ipxeRow.options
        /\ ipxeFiles.note = ipxeRow.options
        /\ ipxeFiles.served \in {ipxeRow.options, "stub", "stock", "none"}
=============================================================================
