-------------------------- MODULE MachineLifecycle --------------------------
(***************************************************************************)
(* The inventory's machine lifecycle: the machine row, its install         *)
(* attempts, staged jobs and seed snapshot, the boot policy that decides   *)
(* which iPXE script a machine gets, the installer callbacks, the imaging  *)
(* timer and the console handlers (src/src/inventory/service.py,           *)
(* src/src/boot/policy.py, src/src/routes/machines.py, ipxe.py, events.py, *)
(* cloudinit.py, boot_files.py).                                           *)
(*                                                                         *)
(* One action is one HTTP handler (or one turn of the extraction worker's  *)
(* idle loop), as one committed transaction.  A handler that is refused,   *)
(* or whose transaction rolls back, changes nothing and is no action.      *)
(*                                                                         *)
(* A machine m is a row id.  SQLite gives the id of a deleted last row to  *)
(* the next one inserted, so a deleted m may come back as a new machine    *)
(* while the installers of the old one still know its URLs.                *)
(***************************************************************************)
EXTENDS Integers, FiniteSets

CONSTANTS Machines,     \* inventory row ids
          Images,       \* image (template) row ids
          NoImage,      \* a NULL image id
          MaxInstance,  \* bound: instance ids drawn per row id
          MaxTimeout    \* bound: largest imaging timeout, in clock ticks

ASSUME ConstantsAssumption ==
    /\ NoImage \notin Images
    /\ MaxInstance \in Nat
    /\ MaxTimeout \in Nat

VARIABLES row,         \* row[m]: the machine row and all rows that hang on it
          lib,         \* lib[i]: what image row i boots, or "absent"
          extracting,  \* images whose extract status blocks a deploy
          limit        \* the imaging timeout setting; 0 disables the timer

vars == <<row, lib, extracting, limit>>
-----------------------------------------------------------------------------
(* States and types *)

InstallStates == {"deploying", "staged", "imaging"}
EditLockedStates == {"deploying", "imaging"}
MachineStates == InstallStates \union
    {"pending", "ready", "timeout_error", "deployed", "disabled", "failed"}

Instances == 1..MaxInstance
NoClock == -1                      \* imaging_started_at is NULL

(***************************************************************************)
(* state     Machine.state, or "absent" when there is no such row          *)
(* named     hostname is not blank                                         *)
(* assigned  assigned_image_id                                             *)
(* instance  instance_id: a fresh uuid, numbered in the order drawn        *)
(* clock     age of imaging_started_at in ticks                            *)
(* open      instances whose InstallAttempt has completed_at NULL          *)
(* img       InstallAttempt.image_id by instance                           *)
(* own       instances whose attempt pinned media that run their own       *)
(*           installer (sanboot or live-boot: no seed, no phone-home)      *)
(* jobs      instances staged by a StagedJob with applied_at NULL          *)
(* snap      instances with a seed snapshot under install-seeds/{m}/       *)
(* served    instances an install script was ever handed out for           *)
(* Deleting the row forgets all but instance, own and served, which also   *)
(* describe installers that are still running out there.                   *)
(***************************************************************************)
Rows == [state : MachineStates \union {"absent"},
         named : BOOLEAN,
         assigned : Images \union {NoImage},
         instance : 0..MaxInstance,
         clock : NoClock..MaxTimeout,
         open : SUBSET Instances,
         img : [Instances -> Images \union {NoImage}],
         own : SUBSET Instances,
         jobs : SUBSET Instances,
         snap : SUBSET Instances,
         served : SUBSET Instances]

(***************************************************************************)
(* "tool" boots from the menu; "bare" has no bootable media yet;           *)
(* "installer" is casper or Setup media that take a seed and phone home;   *)
(* "own" is an ISO or live-boot medium that runs its own installer.        *)
(***************************************************************************)
DiskKinds == {"bare", "installer", "own"}
ImageKinds == DiskKinds \union {"tool", "absent"}

Blank(r) == [r EXCEPT !.state = "absent", !.named = FALSE,
                      !.assigned = NoImage, !.clock = NoClock,
                      !.open = {}, !.img = [j \in Instances |-> NoImage],
                      !.jobs = {}, !.snap = {}]

UnusedRow == [state |-> "absent", named |-> FALSE, assigned |-> NoImage,
              instance |-> 0, clock |-> NoClock, open |-> {},
              img |-> [j \in Instances |-> NoImage], own |-> {},
              jobs |-> {}, snap |-> {}, served |-> {}]
-----------------------------------------------------------------------------
(* Steps of the service layer on one machine row *)

Exists(r) == r.state # "absent"
Installing(r) == r.state \in InstallStates       \* guest_init_allowed

ImageExists(i) == i \in Images /\ lib[i] # "absent"

\* image_deploy_reason is empty
Deployable(i) ==
    /\ ImageExists(i)
    /\ i \notin extracting
    /\ lib[i] # "bare"

CloseOpenAttempts(r) == [r EXCEPT !.open = {}]

BumpInstanceId(r) == [r EXCEPT !.instance = @ + 1]

(***************************************************************************)
(* create_install_attempt: close what is open, snapshot the seed, prune    *)
(* the other snapshots, pin the image's media for the current instance.    *)
(***************************************************************************)
NewAttempt(r, i) ==
    [CloseOpenAttempts(r) EXCEPT
        !.open = @ \union {r.instance},
        !.img = [j \in Instances |-> IF j = r.instance THEN i ELSE @[j]],
        !.own = IF lib[i] = "own" THEN @ \union {r.instance} ELSE @,
        !.snap = {r.instance}]

\* Mutated form: the instance id is drawn after the attempt was created.
RefreshThenBump(r, i) == BumpInstanceId(NewAttempt(r, i))

RefreshAttempt(r, i) == NewAttempt(BumpInstanceId(CloseOpenAttempts(r)), i)

DeployRow(r, i) ==
    NewAttempt(BumpInstanceId([r EXCEPT !.assigned = i,
                                        !.state = "deploying",
                                        !.clock = NoClock]), i)

StageRow(r, i) ==
    LET staged == BumpInstanceId([r EXCEPT !.assigned = i,
                                           !.state = "staged",
                                           !.clock = NoClock])
    IN  NewAttempt([staged EXCEPT !.jobs = @ \union {staged.instance}], i)

TimeoutError(r) ==
    CloseOpenAttempts([r EXCEPT !.state = "timeout_error", !.clock = NoClock])

\* Mutated form: a machine exactly at the timeout is not overdue.
OverdueLater(r) == r.clock > limit

Overdue(r) == r.clock >= limit

\* expire_stale_imaging, for one machine
Expired(r) ==
    IF limit > 0 /\ r.state = "imaging"
    THEN IF r.clock = NoClock THEN [r EXCEPT !.clock = 0]
         ELSE IF Overdue(r) THEN TimeoutError(r) ELSE r
    ELSE r

MarkDeployed(r) ==
    [CloseOpenAttempts(r) EXCEPT !.state = "deployed", !.clock = NoClock,
                                 !.jobs = {}, !.snap = {}]

Failed(r) ==
    CloseOpenAttempts([r EXCEPT !.state = "failed", !.clock = NoClock])

MarkImaging(r) == [r EXCEPT !.state = "imaging", !.clock = 0]

\* Mutated form: abort forgets the imaging clock.
AbortLeavesClock(r) ==
    CloseOpenAttempts([r EXCEPT !.state = IF @ = "staged" THEN "deployed"
                                          ELSE "timeout_error"])

AbortDeploy(r) ==
    CloseOpenAttempts([r EXCEPT !.state = IF @ = "staged" THEN "deployed"
                                          ELSE "timeout_error",
                                !.clock = NoClock])

Disable(r) ==
    CloseOpenAttempts([r EXCEPT !.state = "disabled", !.clock = NoClock])

\* Mutated form: a state no other code knows (the column is a plain string).
EnableAsEnabled(r) == [r EXCEPT !.state = "enabled", !.clock = NoClock]

Enable(r) == [r EXCEPT !.state = "ready", !.clock = NoClock]

\* A new Machine row: pending, with an instance id of its own.
NewRow(r, hasName) ==
    BumpInstanceId([r EXCEPT !.state = "pending", !.named = hasName])

\* touch_machine: an unknown MAC becomes a pending row.
Touched(r) == IF Exists(r) THEN r ELSE NewRow(r, FALSE)
-----------------------------------------------------------------------------
(* Boot policy *)

\* Mutated form: a disabled machine with a name sees the folder menu.
NamedOrManaged(r) ==
    /\ r.state \notin InstallStates
    /\ \/ r.named
       \/ r.state \in {"ready", "deployed", "timeout_error", "failed"}

MenuEligible(r) ==
    /\ r.state # "disabled"
    /\ r.state \notin InstallStates
    /\ \/ r.named
       \/ r.state \in {"ready", "deployed", "timeout_error", "failed"}

\* decide_script.  Both install kinds are "install".
Script(r) ==
    IF Installing(r)
    THEN IF ~ImageExists(r.assigned) \/ lib[r.assigned] = "tool"
         THEN "unknown_local"
         ELSE IF r.instance \notin r.open /\ r.assigned \in extracting
              THEN "image_not_ready"
              ELSE "install"
    ELSE IF MenuEligible(r) THEN "menu" ELSE "unknown_local"

\* payload.skips_guest_init, of the open attempt or else of the image
SkipsGuestInit(r) ==
    IF r.instance \in r.open THEN r.instance \in r.own
    ELSE lib[r.assigned] = "own"

(***************************************************************************)
(* _render_policy_script: handing out an installer that never phones home  *)
(* records Deployed at once.                                               *)
(***************************************************************************)
Rendered(r) ==
    IF Script(r) # "install" THEN r
    ELSE LET handed == [r EXCEPT !.served = @ \union {r.instance}]
         IN  IF SkipsGuestInit(r) THEN MarkDeployed(handed) ELSE handed

\* ipxe_boot_image, after touch_machine and expire_stale_imaging
Picked(r, i) ==
    IF Script(r) = "menu" /\ Deployable(i) /\ lib[i] # "tool"
    THEN Rendered(IF r.state = "deployed" THEN StageRow(r, i)
                  ELSE DeployRow(r, i))
    ELSE Rendered(r)
-----------------------------------------------------------------------------
(* Handlers *)

\* Bound: a handler that draws an instance id is taken while ids are left.
CanDraw(r) == r.instance < MaxInstance

Commit(m, r) ==
    /\ row' = [row EXCEPT ![m] = r]
    /\ UNCHANGED <<lib, extracting, limit>>

\* A handler that calls expire_stale_imaging in the same transaction.
CommitWithExpiry(m, r) ==
    /\ row' = [n \in Machines |-> IF n = m THEN r ELSE Expired(row[n])]
    /\ UNCHANGED <<lib, extracting, limit>>

\* GET /ipxe/{mac} and /ipxe/{mac}/menu/{folder}
IpxeScript(m) ==
    /\ Exists(row[m]) \/ CanDraw(row[m])
    /\ CommitWithExpiry(m, Rendered(Expired(Touched(row[m]))))

\* GET /ipxe/{mac}/boot/{image}: the client picked an entry of its menu.
IpxeBootImage(m, i) ==
    /\ CanDraw(row[m])
    /\ CommitWithExpiry(m, Picked(Expired(Touched(row[m])), i))

\* POST /machines: the operator adds a MAC.
RegisterMachine(m, hasName) ==
    /\ ~Exists(row[m])
    /\ CanDraw(row[m])
    /\ Commit(m, NewRow(row[m], hasName))

(***************************************************************************)
(* POST /machines/{id}/save with image i, or without one.  A staged        *)
(* machine gets a fresh attempt so that the staged install uses the saved  *)
(* seed; the save fails as a whole when that image cannot be deployed.     *)
(***************************************************************************)
MachineSave(m, i, hasName) ==
    LET r == [row[m] EXCEPT !.named = hasName,
                            !.assigned = IF ImageExists(i) THEN i ELSE @]
    IN  /\ Exists(row[m])
        /\ row[m].state \notin EditLockedStates
        /\ IF r.state = "staged" /\ ImageExists(r.assigned)
           THEN /\ CanDraw(r)
                /\ Deployable(r.assigned)
                /\ Commit(m, RefreshAttempt(r, r.assigned))
           ELSE Commit(m, r)

\* POST /machines/{id}/deploy.  The hostname may be set, never cleared.
MachineDeploy(m, i, hasName) ==
    LET r == Expired(row[m])
    IN  /\ Exists(r)
        /\ r.state # "imaging"
        /\ Deployable(i)
        /\ lib[i] # "tool"
        /\ CanDraw(r)
        /\ CommitWithExpiry(m,
               DeployRow([r EXCEPT !.named = @ \/ hasName], i))

MachineAbort(m) ==
    /\ Installing(row[m])
    /\ Commit(m, AbortDeploy(row[m]))

\* POST /machines/{id}/seed/copy-default: the form's image, else the assigned
MachineCopyDefault(m, i, hasName) ==
    LET image == IF i = NoImage THEN row[m].assigned ELSE i
    IN  /\ Exists(row[m])
        /\ row[m].state \notin EditLockedStates
        /\ ImageExists(image)
        /\ Commit(m, [row[m] EXCEPT !.assigned = image,
                                    !.named = @ \/ hasName])

MachineStage(m) ==
    LET image == row[m].assigned
    IN  /\ Exists(row[m])
        /\ row[m].state # "imaging"
        /\ Deployable(image)
        /\ lib[image] # "tool"
        /\ CanDraw(row[m])
        /\ Commit(m, StageRow(row[m], image))

MachineMarkDeployed(m) ==
    /\ Exists(row[m])
    /\ Commit(m, MarkDeployed(row[m]))

MachineDisable(m) ==
    /\ Exists(row[m])
    /\ Commit(m, Disable(row[m]))

MachineEnable(m) ==
    /\ Exists(row[m])
    /\ Commit(m, Enable(row[m]))

\* POST /machines/{id}/delete, with every row and seed file of the machine
MachineDelete(m) ==
    /\ Exists(row[m])
    /\ Commit(m, Blank(row[m]))
-----------------------------------------------------------------------------
(* Installer callbacks.  They name the machine, not the install: any       *)
(* installer that was ever handed out for this row id may be the caller,   *)
(* late, twice or never, unless it is one that never phones home.          *)

Callers(r) == r.served \ r.own

\* Mutated form: the callback is not refused outside the install states.
ImagingEventAnytime(m) ==
    /\ Exists(row[m])
    /\ Callers(row[m]) # {}
    /\ Commit(m, MarkImaging(row[m]))

\* POST /api/machines/{id}/events?event=imaging
ImagingEvent(m) ==
    /\ Installing(row[m])
    /\ Callers(row[m]) # {}
    /\ Commit(m, MarkImaging(row[m]))

\* POST /api/machines/{id}/events?event=phone_home
SuccessEvent(m) ==
    LET r == Expired(row[m])
    IN  /\ Installing(r)
        /\ Callers(r) # {}
        /\ CommitWithExpiry(m, MarkDeployed(r))

\* POST /api/machines/{id}/install-log
InstallLog(m) ==
    /\ Installing(row[m])
    /\ Callers(row[m]) # {}
    /\ Commit(m, Failed(row[m]))

Heartbeat(m) ==
    /\ row[m].state = "imaging"
    /\ Commit(m, [row[m] EXCEPT !.clock = 0])

\* /cloud-init/{id}/{instance}/..., /windows/..., /cloudbase-init/...
GuestInitFetch(m, instance) ==
    /\ instance \in Callers(row[m])
    /\ instance = row[m].instance
    /\ Heartbeat(m)

\* /install-files/{id}/{slot} does not name an instance
InstallFileFetch(m) ==
    /\ Callers(row[m]) # {}
    /\ Heartbeat(m)
-----------------------------------------------------------------------------
(* Time, the worker's idle loop and the console pages that expire too *)

Tick ==
    /\ \E m \in Machines : row[m].clock \in 0..(MaxTimeout - 1)
    /\ row' = [m \in Machines |->
                  [row[m] EXCEPT !.clock = IF @ \in 0..(MaxTimeout - 1)
                                           THEN @ + 1 ELSE @]]
    /\ UNCHANGED <<lib, extracting, limit>>

ExpireStaleImaging ==
    /\ row' = [m \in Machines |-> Expired(row[m])]
    /\ UNCHANGED <<lib, extracting, limit>>

\* POST of the Machines settings
SaveImagingTimeout(n) ==
    /\ limit' = n
    /\ UNCHANGED <<row, lib, extracting>>
-----------------------------------------------------------------------------
(* The image library, as far as the lifecycle sees it *)

SetImage(i, kind, isExtracting) ==
    /\ lib' = [lib EXCEPT ![i] = kind]
    /\ extracting' = IF isExtracting THEN extracting \union {i}
                     ELSE extracting \ {i}
    /\ UNCHANGED <<row, limit>>

\* POST /images: a tool, or a template of an ISO in whatever state it is
CreateImage(i, kind, isExtracting) ==
    /\ lib[i] = "absent"
    /\ SetImage(i, kind, isExtracting)

(***************************************************************************)
(* sync_templates and update_image: the template's ISO is extracted,       *)
(* edited or exchanged, at any time and whoever is installing from it.     *)
(***************************************************************************)
MediaChanges(i, kind, isExtracting) ==
    /\ lib[i] \in DiskKinds
    /\ SetImage(i, kind, isExtracting)

\* Mutated form: only the machines' assigned image protects an image.
ImageIdle(i) ==
    \A m \in Machines : row[m].assigned = i => ~Installing(row[m])

ImageUnused(i) ==
    /\ \A m \in Machines : \A j \in row[m].open : row[m].img[j] # i
    /\ \A m \in Machines : row[m].assigned = i => ~Installing(row[m])

\* What delete_image leaves of the rows that name image i
Unlinked(r, i) ==
    [r EXCEPT !.assigned = IF @ = i THEN NoImage ELSE @,
              !.jobs = {j \in @ : r.img[j] # i},
              !.img = [j \in Instances |->
                          IF r.img[j] = i THEN NoImage ELSE r.img[j]]]

DeleteImage(i) ==
    /\ ImageExists(i)
    /\ ImageUnused(i)
    /\ row' = [m \in Machines |-> Unlinked(row[m], i)]
    /\ lib' = [lib EXCEPT ![i] = "absent"]
    /\ extracting' = extracting \ {i}
    /\ UNCHANGED limit
-----------------------------------------------------------------------------
Init ==
    /\ row = [m \in Machines |-> UnusedRow]
    /\ lib = [i \in Images |-> "absent"]
    /\ extracting = {}
    /\ limit \in 0..MaxTimeout

ConsoleStep(m) ==
    \/ \E hasName \in BOOLEAN : RegisterMachine(m, hasName)
    \/ \E i \in Images \union {NoImage}, hasName \in BOOLEAN :
           MachineSave(m, i, hasName) \/ MachineCopyDefault(m, i, hasName)
    \/ \E i \in Images, hasName \in BOOLEAN : MachineDeploy(m, i, hasName)
    \/ MachineAbort(m)
    \/ MachineStage(m)
    \/ MachineMarkDeployed(m)
    \/ MachineDisable(m)
    \/ MachineEnable(m)
    \/ MachineDelete(m)

ClientStep(m) ==
    \/ IpxeScript(m)
    \/ \E i \in Images : IpxeBootImage(m, i)

Callback(m) == ImagingEvent(m) \/ SuccessEvent(m) \/ InstallLog(m)

Fetch(m) ==
    \/ \E instance \in Instances : GuestInitFetch(m, instance)
    \/ InstallFileFetch(m)

LibraryStep(i) ==
    \/ CreateImage(i, "tool", FALSE)
    \/ \E kind \in DiskKinds, isExtracting \in BOOLEAN :
           \/ CreateImage(i, kind, isExtracting)
           \/ MediaChanges(i, kind, isExtracting)
    \/ DeleteImage(i)

Next ==
    \/ \E m \in Machines :
           ConsoleStep(m) \/ ClientStep(m) \/ Callback(m) \/ Fetch(m)
    \/ Tick
    \/ ExpireStaleImaging
    \/ \E n \in 0..MaxTimeout : SaveImagingTimeout(n)
    \/ \E i \in Images : LibraryStep(i)

Spec == Init /\ [][Next]_vars

(***************************************************************************)
(* Time passes, and the worker's loop expires stale machines every second  *)
(* it has no extraction to run (extract_worker.main).                      *)
(***************************************************************************)
FairSpec == Spec /\ WF_vars(Tick) /\ WF_vars(ExpireStaleImaging)
-----------------------------------------------------------------------------
(* Properties *)

\* Type correctness.
TypeOK ==
    /\ row \in [Machines -> Rows]
    /\ lib \in [Images -> ImageKinds]
    /\ extracting \subseteq Images
    /\ limit \in 0..MaxTimeout

(***************************************************************************)
(* At most one install attempt of a machine is open, the one of its        *)
(* current instance id; a machine in an install state has it open with its *)
(* seed snapshot on disk.  So get_open_attempt never falls back to the     *)
(* image's current media or to the unsnapshotted seed during an install.   *)
(***************************************************************************)
InstallIsPinned ==
    \A m \in Machines :
        /\ row[m].open \subseteq {row[m].instance}
        /\ Installing(row[m]) => row[m].instance \in row[m].open
        /\ row[m].open \subseteq row[m].snap

(***************************************************************************)
(* The imaging clock runs exactly while the machine is imaging: a clock    *)
(* that survives abort, disable, failure or a new deploy would make the    *)
(* next imaging time out early; one that is missing would never expire.    *)
(***************************************************************************)
ClockIffImaging ==
    \A m \in Machines : row[m].state = "imaging" <=> row[m].clock # NoClock

(***************************************************************************)
(* No image row disappears under an install: neither the one an open       *)
(* attempt pinned nor the one the installing machine is assigned, even     *)
(* after a staged machine was switched to another image.                   *)
(***************************************************************************)
InstalledImageExists ==
    \A m \in Machines :
        /\ \A j \in row[m].open : ImageExists(row[m].img[j])
        /\ Installing(row[m]) => ImageExists(row[m].assigned)

(***************************************************************************)
(* Quarantine holds: only the console takes a machine out of "disabled".   *)
(* No boot, menu pick, late callback, timer or image change does.          *)
(***************************************************************************)
QuarantineHolds ==
    [][\A m \in Machines :
          row[m].state = "disabled" /\ row'[m].state # "disabled"
              => ConsoleStep(m)]_vars

(***************************************************************************)
(* The lifecycle implements install tickets: an install script is handed   *)
(* out only for the instance somebody requested and nobody withdrew, and   *)
(* a withdrawn one never comes back, whatever late callbacks arrive.       *)
(***************************************************************************)
Ticket == INSTANCE InstallTicket WITH
    Numbers <- 0..MaxInstance,
    ticket <- [m \in Machines |->
                  IF Installing(row[m]) THEN row[m].instance ELSE 0],
    used <- [m \in Machines |-> row[m].instance],
    given <- [m \in Machines |-> row[m].served]

ImplementsTickets == Ticket!Spec

(***************************************************************************)
(* An installer that went silent does not hold its machine in "imaging":   *)
(* once no heartbeat arrives and the timer stays enabled, the machine      *)
(* leaves the state.                                                       *)
(***************************************************************************)
Beats(m) == ImagingEvent(m) \/ Fetch(m)

SilentImagingEnds ==
    \A m \in Machines :
        <>[][~Beats(m)]_vars /\ <>[](limit > 0)
            => []<>(row[m].state # "imaging")

(***************************************************************************)
(* "Deploy started. The next PXE boot installs this image."                *)
(* (src/src/routes/machines.py:194): an install is not reported failed     *)
(* before an installer was handed out for it.                              *)
(***************************************************************************)
NextBootInstalls ==
    [][\A m \in Machines :
          Installing(row[m]) /\ row'[m].state = "failed"
              => row[m].instance \in row[m].served]_vars
=============================================================================
