----------------------- MODULE MachineLifecycleProofs -----------------------
(***************************************************************************)
(* Proofs about MachineLifecycle, for every set of machines and images and *)
(* every bound on instance ids and clocks.                                 *)
(*                                                                         *)
(* Nearly everything a handler does is a function of one machine row, so   *)
(* the inductive invariant is a predicate RowOK on rows, and the work is   *)
(* in one lemma per row operator: it takes good rows to good rows.         *)
(***************************************************************************)
EXTENDS MachineLifecycle, TLAPS

(***************************************************************************)
(* A good row: typed; its only open attempt is that of its instance id and *)
(* has a seed snapshot; it has one when it is installing; no deleted row   *)
(* leaves an attempt open (a later row of that id would inherit it); and   *)
(* its clock runs exactly while it images.                                 *)
(***************************************************************************)
Pinned(r) ==
    /\ r.open \subseteq {r.instance}
    /\ Installing(r) => r.instance \in r.open
    /\ r.open \subseteq r.snap
    /\ ~Exists(r) => r.open = {}

Clocked(r) == r.state = "imaging" <=> r.clock # NoClock

RowOK(r) == r \in Rows /\ Pinned(r) /\ Clocked(r)

RowInv ==
    /\ row \in [Machines -> Rows]
    /\ \A m \in Machines : RowOK(row[m])
    /\ lib \in [Images -> ImageKinds]
    /\ extracting \subseteq Images
    /\ limit \in 0..MaxTimeout
-----------------------------------------------------------------------------
(* Row operators *)

(***************************************************************************)
(* The values a clock is set to (NoClock stays opaque from here on).       *)
(***************************************************************************)
LEMMA Clocks ==
  /\ NoClock \in NoClock..MaxTimeout
  /\ 0 \in NoClock..MaxTimeout
  /\ NoClock # 0
  BY ConstantsAssumption DEF NoClock

IdleStates == {"absent", "pending", "ready", "timeout_error", "deployed",
               "disabled", "failed"}

(***************************************************************************)
(* A typed row outside the install states is good when nothing is open.    *)
(***************************************************************************)
LEMMA IdleRowOK ==
  ASSUME NEW q \in Rows, q.open = {}, q.clock = NoClock, q.state \in IdleStates
  PROVE  RowOK(q)
  BY DEF RowOK, Pinned, Clocked, IdleStates, Installing, InstallStates

LEMMA UnusedRowOK == RowOK(UnusedRow)
  <1>1. UnusedRow \in Rows
    BY ConstantsAssumption DEF Rows, UnusedRow, NoClock
  <1>2. /\ UnusedRow.open = {} /\ UnusedRow.clock = NoClock
        /\ UnusedRow.state = "absent"
    BY DEF UnusedRow
  <1>3. QED BY <1>1, <1>2, IdleRowOK DEF IdleStates

LEMMA BlankOK ==
  ASSUME NEW r, RowOK(r)
  PROVE  RowOK(Blank(r))
  <1>1. Blank(r) \in Rows
    BY Clocks
    DEF RowOK, Rows, MachineStates, Blank
  <1>2. /\ Blank(r).open = {} /\ Blank(r).clock = NoClock
        /\ Blank(r).state = "absent"
    BY DEF RowOK, Rows, IdleStates, Blank
  <1>3. QED BY <1>1, <1>2, IdleRowOK DEF IdleStates

LEMMA TimeoutErrorOK ==
  ASSUME NEW r, RowOK(r)
  PROVE  RowOK(TimeoutError(r)) /\ TimeoutError(r).instance = r.instance
  <1>1. TimeoutError(r) \in Rows
    BY Clocks
    DEF RowOK, Rows, MachineStates, TimeoutError, CloseOpenAttempts
  <1>2. /\ TimeoutError(r).open = {} /\ TimeoutError(r).clock = NoClock
        /\ TimeoutError(r).state = "timeout_error"
        /\ TimeoutError(r).instance = r.instance
    BY DEF RowOK, Rows, IdleStates, TimeoutError, CloseOpenAttempts
  <1>3. QED BY <1>1, <1>2, IdleRowOK DEF IdleStates

LEMMA ExpiredOK ==
  ASSUME NEW r, RowOK(r)
  PROVE  RowOK(Expired(r)) /\ Expired(r).instance = r.instance
  <1>1. CASE limit > 0 /\ r.state = "imaging" /\ r.clock = NoClock
    BY <1>1 DEF RowOK, Clocked
  <1>2. CASE limit > 0 /\ r.state = "imaging" /\ r.clock # NoClock /\ Overdue(r)
    <2>1. Expired(r) = TimeoutError(r)
      BY <1>2 DEF Expired
    <2>2. QED BY <2>1, TimeoutErrorOK
  <1>3. CASE ~(limit > 0 /\ r.state = "imaging")
             \/ (r.clock # NoClock /\ ~Overdue(r))
    BY <1>3 DEF Expired
  <1>4. QED BY <1>1, <1>2, <1>3

LEMMA MarkDeployedOK ==
  ASSUME NEW r, RowOK(r)
  PROVE  RowOK(MarkDeployed(r)) /\ MarkDeployed(r).instance = r.instance
  <1>1. MarkDeployed(r) \in Rows
    BY Clocks
    DEF RowOK, Rows, MachineStates, MarkDeployed, CloseOpenAttempts
  <1>2. /\ MarkDeployed(r).open = {} /\ MarkDeployed(r).clock = NoClock
        /\ MarkDeployed(r).state = "deployed"
        /\ MarkDeployed(r).instance = r.instance
    BY DEF RowOK, Rows, IdleStates, MarkDeployed, CloseOpenAttempts
  <1>3. QED BY <1>1, <1>2, IdleRowOK DEF IdleStates

LEMMA FailedOK ==
  ASSUME NEW r, RowOK(r)
  PROVE  RowOK(Failed(r))
  <1>1. Failed(r) \in Rows
    BY Clocks
    DEF RowOK, Rows, MachineStates, Failed, CloseOpenAttempts
  <1>2. /\ Failed(r).open = {} /\ Failed(r).clock = NoClock
        /\ Failed(r).state = "failed"
    BY DEF RowOK, Rows, IdleStates, Failed, CloseOpenAttempts
  <1>3. QED BY <1>1, <1>2, IdleRowOK DEF IdleStates

LEMMA DisableOK ==
  ASSUME NEW r, RowOK(r)
  PROVE  RowOK(Disable(r))
  <1>1. Disable(r) \in Rows
    BY Clocks
    DEF RowOK, Rows, MachineStates, Disable, CloseOpenAttempts
  <1>2. /\ Disable(r).open = {} /\ Disable(r).clock = NoClock
        /\ Disable(r).state = "disabled"
    BY DEF RowOK, Rows, IdleStates, Disable, CloseOpenAttempts
  <1>3. QED BY <1>1, <1>2, IdleRowOK DEF IdleStates

LEMMA AbortDeployOK ==
  ASSUME NEW r, RowOK(r)
  PROVE  RowOK(AbortDeploy(r))
  <1>1. AbortDeploy(r) \in Rows
    BY Clocks
    DEF RowOK, Rows, MachineStates, AbortDeploy, CloseOpenAttempts
  <1>2. /\ AbortDeploy(r).open = {} /\ AbortDeploy(r).clock = NoClock
        /\ AbortDeploy(r).state \in IdleStates
    BY DEF RowOK, Rows, IdleStates, AbortDeploy, CloseOpenAttempts
  <1>3. QED BY <1>1, <1>2, IdleRowOK DEF IdleStates

(***************************************************************************)
(* Enable keeps an attempt that was open: the row leaves the install       *)
(* states, the attempt stays that of its instance.                         *)
(***************************************************************************)
LEMMA EnableOK ==
  ASSUME NEW r, RowOK(r), Exists(r)
  PROVE  RowOK(Enable(r))
  <1>1. Enable(r) \in Rows
    BY Clocks DEF RowOK, Rows, MachineStates, Enable
  <1>2. /\ Enable(r).open = r.open /\ Enable(r).snap = r.snap
        /\ Enable(r).instance = r.instance
        /\ Enable(r).clock = NoClock
        /\ Enable(r).state = "ready"
    BY DEF RowOK, Rows, Enable
  <1>3. QED
    BY <1>1, <1>2
    DEF RowOK, Pinned, Clocked, Exists, Installing, InstallStates

LEMMA MarkImagingOK ==
  ASSUME NEW r, RowOK(r), Installing(r)
  PROVE  RowOK(MarkImaging(r))
  <1>1. MarkImaging(r) \in Rows
    BY Clocks DEF RowOK, Rows, MachineStates, InstallStates, MarkImaging
  <1>2. /\ MarkImaging(r).open = r.open /\ MarkImaging(r).snap = r.snap
        /\ MarkImaging(r).instance = r.instance
        /\ MarkImaging(r).clock = 0
        /\ MarkImaging(r).state = "imaging"
    BY DEF RowOK, Rows, MarkImaging
  <1>3. QED
    BY <1>1, <1>2, Clocks DEF RowOK, Pinned, Clocked, Exists

(***************************************************************************)
(* Drawing an instance id changes nothing else.                            *)
(***************************************************************************)
LEMMA BumpFields ==
  ASSUME NEW r \in Rows
  PROVE  /\ BumpInstanceId(r).instance = r.instance + 1
         /\ BumpInstanceId(r).state = r.state
         /\ BumpInstanceId(r).clock = r.clock
         /\ BumpInstanceId(r).open = r.open
         /\ BumpInstanceId(r).snap = r.snap
  BY DEF Rows, BumpInstanceId

LEMMA BumpTyped ==
  ASSUME NEW r \in Rows, CanDraw(r)
  PROVE  /\ BumpInstanceId(r) \in Rows
         /\ BumpInstanceId(r).instance \in Instances
  <1>1. r.instance + 1 \in 0..MaxInstance /\ r.instance + 1 \in Instances
    BY ConstantsAssumption DEF Rows, Instances, CanDraw
  <1>2. BumpInstanceId(r) \in Rows
    BY <1>1 DEF Rows, BumpInstanceId
  <1>3. QED BY <1>1, <1>2, BumpFields

LEMMA NewRowOK ==
  ASSUME NEW r, RowOK(r), ~Exists(r), NEW hasName \in BOOLEAN,
         CanDraw(r)
  PROVE  RowOK(NewRow(r, hasName))
  <1> DEFINE p == [r EXCEPT !.state = "pending", !.named = hasName]
  <1>1. r.clock = NoClock /\ r.open = {}
    BY DEF RowOK, Clocked, Pinned, Exists
  <1>2. p \in Rows
    BY DEF RowOK, Rows, MachineStates
  <1>3. /\ p.state = "pending" /\ p.open = {}
        /\ p.clock = NoClock /\ p.instance = r.instance
    BY <1>1 DEF RowOK, Rows
  <1>4. NewRow(r, hasName) = BumpInstanceId(p)
    BY DEF NewRow
  <1> HIDE DEF p
  <1>5. CanDraw(p)
    BY <1>3 DEF CanDraw
  <1>6. QED
    BY <1>2, <1>3, <1>4, <1>5, BumpFields, BumpTyped, IdleRowOK DEF IdleStates

(***************************************************************************)
(* A fresh attempt for the instance the row has just drawn pins it.        *)
(***************************************************************************)
LEMMA NewAttemptOK ==
  ASSUME NEW r, r \in Rows, NEW i \in Images,
         r.instance \in Instances, Exists(r), Clocked(r)
  PROVE  RowOK(NewAttempt(r, i)) /\ NewAttempt(r, i).instance = r.instance
  BY ConstantsAssumption
  DEF RowOK, Rows, Pinned, Clocked, NewAttempt, CloseOpenAttempts,
      Installing, Exists, Instances

(***************************************************************************)
(* The ways an attempt is started: a new deploy, a stage, and the refresh  *)
(* of a staged attempt when the machine is saved.                          *)
(***************************************************************************)
LEMMA RefreshAttemptOK ==
  ASSUME NEW r, RowOK(r), Exists(r), CanDraw(r), NEW i \in Images
  PROVE  RowOK(RefreshAttempt(r, i))
  <1> DEFINE p == CloseOpenAttempts(r)
  <1>1. p \in Rows
    BY DEF RowOK, Rows, CloseOpenAttempts
  <1>2. p.state = r.state /\ p.clock = r.clock /\ p.instance = r.instance
    BY DEF RowOK, Rows, CloseOpenAttempts
  <1>3. RefreshAttempt(r, i) = NewAttempt(BumpInstanceId(p), i)
    BY DEF RefreshAttempt
  <1> HIDE DEF p
  <1>4. CanDraw(p)
    BY <1>2 DEF CanDraw
  <1>5. Exists(BumpInstanceId(p)) /\ Clocked(BumpInstanceId(p))
    BY <1>1, <1>2, BumpFields DEF RowOK, Exists, Clocked
  <1>6. QED
    BY <1>1, <1>3, <1>4, <1>5, BumpTyped, NewAttemptOK

LEMMA DeployRowOK ==
  ASSUME NEW r \in Rows, CanDraw(r), NEW i \in Images
  PROVE  RowOK(DeployRow(r, i))
  <1> DEFINE p == [r EXCEPT !.assigned = i, !.state = "deploying",
                            !.clock = NoClock]
  <1>1. p \in Rows
    BY Clocks DEF Rows, MachineStates, InstallStates
  <1>2. p.state = "deploying" /\ p.clock = NoClock /\ p.instance = r.instance
    BY DEF Rows
  <1>3. DeployRow(r, i) = NewAttempt(BumpInstanceId(p), i)
    BY DEF DeployRow
  <1> HIDE DEF p
  <1>4. CanDraw(p)
    BY <1>2 DEF CanDraw
  <1>5. Exists(BumpInstanceId(p)) /\ Clocked(BumpInstanceId(p))
    BY <1>1, <1>2, BumpFields DEF Exists, Clocked
  <1>6. QED
    BY <1>1, <1>3, <1>4, <1>5, BumpTyped, NewAttemptOK

LEMMA StageRowOK ==
  ASSUME NEW r \in Rows, CanDraw(r), NEW i \in Images
  PROVE  RowOK(StageRow(r, i))
  <1> DEFINE p == [r EXCEPT !.assigned = i, !.state = "staged",
                            !.clock = NoClock]
             staged == BumpInstanceId(p)
             q == [staged EXCEPT !.jobs = @ \union {staged.instance}]
  <1>1. p \in Rows
    BY Clocks DEF Rows, MachineStates, InstallStates
  <1>2. p.state = "staged" /\ p.clock = NoClock /\ p.instance = r.instance
    BY DEF Rows
  <1>3. StageRow(r, i) = NewAttempt(q, i)
    BY DEF StageRow
  <1> HIDE DEF p
  <1>4. CanDraw(p)
    BY <1>2 DEF CanDraw
  <1>5. /\ staged \in Rows /\ staged.instance \in Instances
        /\ staged.state = "staged" /\ staged.clock = NoClock
    BY <1>1, <1>2, <1>4, BumpTyped, BumpFields
  <1> HIDE DEF staged
  <1>6. q \in Rows
    BY <1>5 DEF Rows
  <1>7. /\ q.instance = staged.instance
        /\ q.state = "staged" /\ q.clock = NoClock
    BY <1>5 DEF Rows
  <1> HIDE DEF q
  <1>8. q.instance \in Instances /\ Exists(q) /\ Clocked(q)
    BY <1>5, <1>7 DEF Exists, Clocked
  <1>9. QED
    BY <1>3, <1>6, <1>8, NewAttemptOK

(***************************************************************************)
(* Handing out a script records the instance; it may record Deployed.      *)
(***************************************************************************)
LEMMA RenderedOK ==
  ASSUME NEW r, RowOK(r)
  PROVE  RowOK(Rendered(r))
  <1>1. CASE Script(r) # "install"
    BY <1>1 DEF Rendered
  <1>2. CASE Script(r) = "install"
    <2> DEFINE handed == [r EXCEPT !.served = @ \union {r.instance}]
    <2>1. Installing(r)
      BY <1>2 DEF Script
    <2>2. r.instance \in Instances
      BY <2>1 DEF RowOK, Rows, Pinned
    <2>3. handed \in Rows
      BY <2>2 DEF RowOK, Rows
    <2>4. /\ handed.state = r.state /\ handed.clock = r.clock
          /\ handed.open = r.open /\ handed.snap = r.snap
          /\ handed.instance = r.instance
      BY DEF RowOK, Rows
    <2>5. Rendered(r) \in {MarkDeployed(handed), handed}
      BY <1>2 DEF Rendered
    <2> HIDE DEF handed
    <2>6. RowOK(handed)
      BY <2>3, <2>4 DEF RowOK, Pinned, Clocked, Installing, Exists
    <2>7. QED BY <2>5, <2>6, MarkDeployedOK
  <1>3. QED BY <1>1, <1>2

(***************************************************************************)
(* A machine the server has just met has no name: it sees no menu, so no   *)
(* pick can draw a second instance id in the request that creates the row. *)
(***************************************************************************)
LEMMA TouchedOK ==
  ASSUME NEW r, RowOK(r), Exists(r) \/ CanDraw(r)
  PROVE  /\ RowOK(Touched(r))
         /\ Exists(r) => Touched(r) = r
         /\ ~Exists(r) => Script(Expired(Touched(r))) = "unknown_local"
  <1>1. CASE Exists(r)
    BY <1>1 DEF Touched
  <1>2. CASE ~Exists(r)
    <2> DEFINE q == NewRow(r, FALSE)
    <2>1. RowOK(q) /\ Touched(r) = q
      BY <1>2, NewRowOK DEF Touched
    <2>2. q.state = "pending" /\ q.named = FALSE
      BY DEF NewRow, BumpInstanceId, RowOK, Rows
    <2> HIDE DEF q
    <2>3. Expired(q) = q
      BY <2>2 DEF Expired
    <2>4. Script(q) = "unknown_local"
      BY <2>2 DEF Script, Installing, InstallStates, MenuEligible
    <2>5. QED BY <1>2, <2>1, <2>3, <2>4
  <1>3. QED BY <1>1, <1>2

LEMMA PickedOK ==
  ASSUME NEW r, RowOK(r), NEW i \in Images, Script(r) = "menu" => CanDraw(r)
  PROVE  RowOK(Picked(r, i))
  <1>1. CASE Script(r) = "menu"
    <2>1. RowOK(StageRow(r, i)) /\ RowOK(DeployRow(r, i))
      BY <1>1, StageRowOK, DeployRowOK DEF RowOK
    <2>2. QED BY <2>1, RenderedOK DEF Picked
  <1>2. CASE Script(r) # "menu"
    BY <1>2, RenderedOK DEF Picked
  <1>3. QED BY <1>1, <1>2

(***************************************************************************)
(* Editing the hostname and the assigned image, deleting an image row and  *)
(* the passing of time keep a row good.                                    *)
(***************************************************************************)
LEMMA EditedOK ==
  ASSUME NEW r, RowOK(r), NEW hasName \in BOOLEAN,
         NEW image \in Images \union {NoImage}
  PROVE  RowOK([r EXCEPT !.named = hasName, !.assigned = image])
  <1> DEFINE q == [r EXCEPT !.named = hasName, !.assigned = image]
  <1>1. q \in Rows
    BY DEF RowOK, Rows
  <1>2. /\ q.state = r.state /\ q.clock = r.clock /\ q.open = r.open
        /\ q.snap = r.snap /\ q.instance = r.instance
    BY DEF RowOK, Rows
  <1>3. QED
    BY <1>1, <1>2 DEF RowOK, Pinned, Clocked, Installing, Exists

LEMMA UnlinkedOK ==
  ASSUME NEW r, RowOK(r), NEW i \in Images
  PROVE  RowOK(Unlinked(r, i))
  <1> DEFINE q == Unlinked(r, i)
  <1>1. q \in Rows
    BY DEF RowOK, Rows, Unlinked
  <1>2. /\ q.state = r.state /\ q.clock = r.clock /\ q.open = r.open
        /\ q.snap = r.snap /\ q.instance = r.instance
    BY DEF RowOK, Rows, Unlinked
  <1>3. QED
    BY <1>1, <1>2 DEF RowOK, Pinned, Clocked, Installing, Exists

LEMMA AgedOK ==
  ASSUME NEW r, RowOK(r)
  PROVE  RowOK([r EXCEPT !.clock = IF @ \in 0..(MaxTimeout - 1)
                                   THEN @ + 1 ELSE @])
  <1> DEFINE c == IF r.clock \in 0..(MaxTimeout - 1) THEN r.clock + 1
                  ELSE r.clock
             q == [r EXCEPT !.clock = c]
  <1>1. /\ c \in NoClock..MaxTimeout
        /\ c = NoClock <=> r.clock = NoClock
    BY ConstantsAssumption DEF RowOK, Rows, NoClock
  <1> HIDE DEF c
  <1>2. q \in Rows
    BY <1>1 DEF RowOK, Rows
  <1>3. /\ q.state = r.state /\ q.clock = c /\ q.open = r.open
        /\ q.snap = r.snap /\ q.instance = r.instance
    BY DEF RowOK, Rows
  <1>4. RowOK(q)
    BY <1>1, <1>2, <1>3 DEF RowOK, Pinned, Clocked, Installing, Exists
  <1>5. QED BY <1>4 DEF c
-----------------------------------------------------------------------------
(* Transactions and handlers *)

LEMMA CommitInv ==
  ASSUME RowInv, NEW m \in Machines, NEW r, RowOK(r), Commit(m, r)
  PROVE  RowInv'
  <1>1. row' \in [Machines -> Rows] /\ \A n \in Machines : RowOK(row'[n])
    BY DEF RowInv, Commit, RowOK
  <1>2. QED BY <1>1 DEF RowInv, Commit

LEMMA CommitWithExpiryInv ==
  ASSUME RowInv, NEW m \in Machines, NEW r, RowOK(r), CommitWithExpiry(m, r)
  PROVE  RowInv'
  <1>1. \A n \in Machines : RowOK(Expired(row[n]))
    BY ExpiredOK DEF RowInv
  <1>2. \A n \in Machines : RowOK(row'[n])
    BY <1>1 DEF CommitWithExpiry
  <1>3. row' \in [Machines -> Rows]
    BY <1>1 DEF CommitWithExpiry, RowOK
  <1>4. QED BY <1>2, <1>3 DEF RowInv, CommitWithExpiry

LEMMA InitRowInv == Init => RowInv
  BY UnusedRowOK DEF Init, RowInv, RowOK, ImageKinds

(***************************************************************************)
(* The console's handlers.                                                 *)
(***************************************************************************)
LEMMA ConsoleRowInv ==
  ASSUME RowInv, NEW m \in Machines, ConsoleStep(m)
  PROVE  RowInv'
  <1>0. RowOK(row[m]) /\ RowOK(Expired(row[m]))
    BY ExpiredOK DEF RowInv
  <1>1. ASSUME NEW hasName \in BOOLEAN, RegisterMachine(m, hasName)
        PROVE  RowInv'
    BY <1>0, <1>1, NewRowOK, CommitInv DEF RegisterMachine
  <1>2. ASSUME NEW i \in Images \union {NoImage}, NEW hasName \in BOOLEAN,
               MachineSave(m, i, hasName)
        PROVE  RowInv'
    <2> DEFINE image == IF ImageExists(i) THEN i ELSE row[m].assigned
               r == [row[m] EXCEPT !.named = hasName, !.assigned = image]
    <2>1. image \in Images \union {NoImage}
      BY <1>0 DEF RowOK, Rows
    <2> HIDE DEF image
    <2>2. RowOK(r)
      BY <1>0, <2>1, EditedOK
    <2>3. r.state = row[m].state
      BY <1>0 DEF RowOK, Rows
    <2>4. r = [row[m] EXCEPT !.named = hasName,
                             !.assigned = IF ImageExists(i) THEN i ELSE @]
      BY <1>0 DEF image, RowOK, Rows
    <2>5. CASE r.state = "staged" /\ ImageExists(r.assigned)
      <3>1. /\ CanDraw(r) /\ r.assigned \in Images
            /\ Commit(m, RefreshAttempt(r, r.assigned))
        BY <1>2, <2>4, <2>5 DEF MachineSave, ImageExists
      <3>2. Exists(r)
        BY <2>5 DEF Exists
      <3> HIDE DEF r
      <3>3. QED BY <2>2, <3>1, <3>2, RefreshAttemptOK, CommitInv
    <2>6. CASE ~(r.state = "staged" /\ ImageExists(r.assigned))
      <3>1. Commit(m, r)
        BY <1>2, <2>4, <2>6 DEF MachineSave
      <3>2. QED BY <2>2, <3>1, CommitInv
    <2>7. QED BY <2>5, <2>6
  <1>3. ASSUME NEW i \in Images \union {NoImage}, NEW hasName \in BOOLEAN,
               MachineCopyDefault(m, i, hasName)
        PROVE  RowInv'
    <2> DEFINE image == IF i = NoImage THEN row[m].assigned ELSE i
               name == row[m].named \/ hasName
               r == [row[m] EXCEPT !.named = name, !.assigned = image]
    <2>1. image \in Images \union {NoImage} /\ name \in BOOLEAN
      BY <1>0 DEF RowOK, Rows
    <2>2. Commit(m, [row[m] EXCEPT !.assigned = image,
                                   !.named = @ \/ hasName])
      BY <1>3 DEF MachineCopyDefault
    <2>3. r = [row[m] EXCEPT !.assigned = image, !.named = @ \/ hasName]
      BY <1>0 DEF RowOK, Rows
    <2> HIDE DEF image, name
    <2>4. RowOK(r)
      BY <1>0, <2>1, EditedOK
    <2>5. QED BY <2>2, <2>3, <2>4, CommitInv
  <1>4. ASSUME NEW i \in Images, NEW hasName \in BOOLEAN,
               MachineDeploy(m, i, hasName)
        PROVE  RowInv'
    <2> DEFINE r == Expired(row[m])
               q == [r EXCEPT !.named = @ \/ hasName]
    <2>1. CanDraw(r) /\ CommitWithExpiry(m, DeployRow(q, i))
      BY <1>4 DEF MachineDeploy
    <2> HIDE DEF r
    <2>2. q \in Rows /\ CanDraw(q)
      BY <1>0, <2>1 DEF r, RowOK, Rows, CanDraw
    <2>3. RowOK(DeployRow(q, i))
      BY <2>2, DeployRowOK
    <2>4. QED BY <2>1, <2>3, CommitWithExpiryInv
  <1>5. ASSUME MachineAbort(m) PROVE RowInv'
    BY <1>0, <1>5, AbortDeployOK, CommitInv DEF MachineAbort
  <1>6. ASSUME MachineStage(m) PROVE RowInv'
    <2>1. /\ row[m].assigned \in Images /\ CanDraw(row[m])
          /\ Commit(m, StageRow(row[m], row[m].assigned))
      BY <1>6 DEF MachineStage, Deployable, ImageExists
    <2>2. RowOK(StageRow(row[m], row[m].assigned))
      BY <1>0, <2>1, StageRowOK DEF RowOK
    <2>3. QED BY <2>1, <2>2, CommitInv
  <1>7. ASSUME MachineMarkDeployed(m) PROVE RowInv'
    BY <1>0, <1>7, MarkDeployedOK, CommitInv DEF MachineMarkDeployed
  <1>8. ASSUME MachineDisable(m) PROVE RowInv'
    BY <1>0, <1>8, DisableOK, CommitInv DEF MachineDisable
  <1>9. ASSUME MachineEnable(m) PROVE RowInv'
    BY <1>0, <1>9, EnableOK, CommitInv DEF MachineEnable
  <1>10. ASSUME MachineDelete(m) PROVE RowInv'
    BY <1>0, <1>10, BlankOK, CommitInv DEF MachineDelete
  <1>11. QED
    BY <1>1, <1>2, <1>3, <1>4, <1>5, <1>6, <1>7, <1>8, <1>9, <1>10
    DEF ConsoleStep

(***************************************************************************)
(* The boot scripts, the installer callbacks and the seed and file fetches.*)
(***************************************************************************)
LEMMA ClientRowInv ==
  ASSUME RowInv, NEW m \in Machines,
         ClientStep(m) \/ Callback(m) \/ Fetch(m)
  PROVE  RowInv'
  <1>0. RowOK(row[m]) /\ RowOK(Expired(row[m]))
    BY ExpiredOK DEF RowInv
  <1>1. ASSUME IpxeScript(m) PROVE RowInv'
    <2>1. RowOK(Rendered(Expired(Touched(row[m]))))
      BY <1>0, <1>1, TouchedOK, ExpiredOK, RenderedOK DEF IpxeScript
    <2>2. QED BY <1>1, <2>1, CommitWithExpiryInv DEF IpxeScript
  <1>2. ASSUME NEW i \in Images, IpxeBootImage(m, i) PROVE RowInv'
    <2> DEFINE q == Expired(Touched(row[m]))
    <2>1. CanDraw(row[m]) /\ CommitWithExpiry(m, Picked(q, i))
      BY <1>2 DEF IpxeBootImage
    <2>2. RowOK(q)
      BY <1>0, <2>1, TouchedOK, ExpiredOK
    <2>3. Script(q) = "menu" => CanDraw(q)
      BY <1>0, <2>1, TouchedOK, ExpiredOK DEF CanDraw
    <2> HIDE DEF q
    <2>4. QED BY <2>1, <2>2, <2>3, PickedOK, CommitWithExpiryInv
  <1>3. ASSUME ImagingEvent(m) PROVE RowInv'
    BY <1>0, <1>3, MarkImagingOK, CommitInv DEF ImagingEvent
  <1>4. ASSUME SuccessEvent(m) PROVE RowInv'
    BY <1>0, <1>4, MarkDeployedOK, CommitWithExpiryInv DEF SuccessEvent
  <1>5. ASSUME InstallLog(m) PROVE RowInv'
    BY <1>0, <1>5, FailedOK, CommitInv DEF InstallLog
  <1>6. ASSUME Heartbeat(m) PROVE RowInv'
    <2>1. [row[m] EXCEPT !.clock = 0] = MarkImaging(row[m])
      BY <1>0, <1>6 DEF Heartbeat, MarkImaging, RowOK, Rows
    <2>2. Installing(row[m])
      BY <1>6 DEF Heartbeat, Installing, InstallStates
    <2>3. QED BY <1>0, <1>6, <2>1, <2>2, MarkImagingOK, CommitInv DEF Heartbeat
  <1>7. QED
    BY <1>1, <1>2, <1>3, <1>4, <1>5, <1>6
    DEF ClientStep, Callback, Fetch, GuestInitFetch, InstallFileFetch

(***************************************************************************)
(* The image library.                                                      *)
(***************************************************************************)
LEMMA LibraryRowInv ==
  ASSUME RowInv, NEW i \in Images, LibraryStep(i)
  PROVE  RowInv'
  <1>1. ASSUME NEW kind \in ImageKinds, NEW isExtracting \in BOOLEAN,
               SetImage(i, kind, isExtracting)
        PROVE  RowInv'
    <2>1. lib' \in [Images -> ImageKinds]
      BY <1>1 DEF RowInv, SetImage
    <2>2. extracting' \subseteq Images
      BY <1>1 DEF RowInv, SetImage
    <2>3. QED BY <1>1, <2>1, <2>2 DEF RowInv, SetImage
  <1>2. ASSUME DeleteImage(i) PROVE RowInv'
    <2>1. \A m \in Machines : RowOK(Unlinked(row[m], i))
      BY UnlinkedOK DEF RowInv
    <2>2. \A m \in Machines : RowOK(row'[m])
      BY <1>2, <2>1 DEF DeleteImage
    <2>3. row' \in [Machines -> Rows]
      BY <1>2, <2>1 DEF DeleteImage, RowOK
    <2>4. lib' \in [Images -> ImageKinds] /\ extracting' \subseteq Images
      BY <1>2 DEF DeleteImage, RowInv, ImageKinds
    <2>5. QED BY <1>2, <2>2, <2>3, <2>4 DEF RowInv, DeleteImage
  <1>3. QED
    BY <1>1, <1>2 DEF LibraryStep, CreateImage, MediaChanges, ImageKinds, DiskKinds

(***************************************************************************)
(* RowInv is inductive.                                                    *)
(***************************************************************************)
LEMMA NextRowInv == RowInv /\ [Next]_vars => RowInv'
  <1> SUFFICES ASSUME RowInv, [Next]_vars PROVE RowInv'
    OBVIOUS
  <1>1. ASSUME NEW m \in Machines,
               ConsoleStep(m) \/ ClientStep(m) \/ Callback(m) \/ Fetch(m)
        PROVE  RowInv'
    BY <1>1, ConsoleRowInv, ClientRowInv
  <1>2. CASE Tick
    <2>1. \A m \in Machines : RowOK(row'[m])
      BY <1>2, AgedOK DEF Tick, RowInv
    <2>2. row' \in [Machines -> Rows]
      BY <1>2, AgedOK DEF Tick, RowInv, RowOK
    <2>3. QED BY <1>2, <2>1, <2>2 DEF Tick, RowInv
  <1>3. CASE ExpireStaleImaging
    <2>1. \A m \in Machines : RowOK(row'[m])
      BY <1>3, ExpiredOK DEF ExpireStaleImaging, RowInv
    <2>2. row' \in [Machines -> Rows]
      BY <1>3, ExpiredOK DEF ExpireStaleImaging, RowInv, RowOK
    <2>3. QED BY <1>3, <2>1, <2>2 DEF ExpireStaleImaging, RowInv
  <1>4. ASSUME NEW n \in 0..MaxTimeout, SaveImagingTimeout(n) PROVE RowInv'
    BY <1>4 DEF SaveImagingTimeout, RowInv
  <1>5. ASSUME NEW i \in Images, LibraryStep(i) PROVE RowInv'
    BY <1>5, LibraryRowInv
  <1>6. CASE UNCHANGED vars
    BY <1>6 DEF vars, RowInv
  <1>7. QED BY <1>1, <1>2, <1>3, <1>4, <1>5, <1>6 DEF Next

LEMMA AlwaysRowInv == Spec => []RowInv
  BY InitRowInv, NextRowInv, PTL DEF Spec

(***************************************************************************)
(* Type correctness: every handler keeps the inventory's rows, the image   *)
(* library and the timeout setting within their types.                     *)
(***************************************************************************)
THEOREM TypeCorrect == Spec => []TypeOK
  <1>1. RowInv => TypeOK
    BY DEF RowInv, TypeOK
  <1>2. QED BY <1>1, AlwaysRowInv, PTL

(***************************************************************************)
(* An install always boots the media and the seed that were pinned for it: *)
(* the only open attempt is that of the current instance id, and it is     *)
(* open, with its seed snapshot, as long as the machine is installing.     *)
(***************************************************************************)
THEOREM InstallsArePinned == Spec => []InstallIsPinned
  <1>1. RowInv => InstallIsPinned
    BY DEF RowInv, RowOK, Pinned, InstallIsPinned
  <1>2. QED BY <1>1, AlwaysRowInv, PTL

(***************************************************************************)
(* The imaging clock runs exactly while the machine is imaging.            *)
(***************************************************************************)
THEOREM ClocksMatchStates == Spec => []ClockIffImaging
  <1>1. RowInv => ClockIffImaging
    BY DEF RowInv, RowOK, Clocked, ClockIffImaging
  <1>2. QED BY <1>1, AlwaysRowInv, PTL
-----------------------------------------------------------------------------
(***************************************************************************)
(* No image row disappears under an install, on top of RowInv.             *)
(*                                                                         *)
(* Linked(r) says it of one row.  Handlers leave the library alone, so it  *)
(* is enough that each row operator keeps Linked; the steps of the library *)
(* keep every image that exists, except for DeleteImage and its guard.     *)
(***************************************************************************)

Linked(r) ==
    /\ \A j \in r.open : ImageExists(r.img[j])
    /\ Installing(r) => ImageExists(r.assigned)

ImageInv == RowInv /\ \A m \in Machines : Linked(row[m])
-----------------------------------------------------------------------------
LEMMA IdleLinked ==
  ASSUME NEW q, q.open = {}, q.state \in IdleStates
  PROVE  Linked(q)
  BY DEF Linked, IdleStates, Installing, InstallStates

(***************************************************************************)
(* Operators that keep the attempts and the assigned image.                *)
(***************************************************************************)
LEMMA SameLinked ==
  ASSUME NEW r, NEW q, Linked(r),
         q.open = r.open, q.img = r.img,
         Installing(q) => Installing(r) /\ q.assigned = r.assigned
  PROVE  Linked(q)
  BY DEF Linked

LEMMA ExpiredLinked ==
  ASSUME NEW r, RowOK(r), Linked(r)
  PROVE  Linked(Expired(r))
  <1>1. CASE limit > 0 /\ r.state = "imaging" /\ r.clock = NoClock
    BY <1>1 DEF RowOK, Clocked
  <1>2. CASE limit > 0 /\ r.state = "imaging" /\ r.clock # NoClock /\ Overdue(r)
    <2>1. Expired(r) = TimeoutError(r)
      BY <1>2 DEF Expired
    <2>2. TimeoutError(r).open = {} /\ TimeoutError(r).state = "timeout_error"
      BY DEF TimeoutError, CloseOpenAttempts, RowOK, Rows
    <2>3. QED BY <2>1, <2>2, IdleLinked DEF IdleStates
  <1>3. CASE ~(limit > 0 /\ r.state = "imaging")
             \/ (r.clock # NoClock /\ ~Overdue(r))
    BY <1>3 DEF Expired
  <1>4. QED BY <1>1, <1>2, <1>3

LEMMA MarkDeployedLinked ==
  ASSUME NEW r \in Rows
  PROVE  Linked(MarkDeployed(r))
  <1>1. MarkDeployed(r).open = {} /\ MarkDeployed(r).state = "deployed"
    BY DEF MarkDeployed, CloseOpenAttempts, Rows
  <1>2. QED BY <1>1, IdleLinked DEF IdleStates

(***************************************************************************)
(* A fresh attempt pins image i and the row is assigned image i.           *)
(***************************************************************************)
LEMMA NewAttemptLinked ==
  ASSUME NEW r \in Rows, NEW i \in Images, ImageExists(i),
         r.instance \in Instances, r.assigned = i
  PROVE  Linked(NewAttempt(r, i))
  <1> DEFINE q == NewAttempt(r, i)
  <1>1. q.open = {r.instance} /\ q.assigned = i
    BY DEF NewAttempt, CloseOpenAttempts, Rows
  <1>2. q.img = [j \in Instances |-> IF j = r.instance THEN i ELSE r.img[j]]
    BY DEF NewAttempt, CloseOpenAttempts, Rows
  <1> HIDE DEF q
  <1>3. QED BY <1>1, <1>2 DEF Linked, q

LEMMA BumpAssigned ==
  ASSUME NEW r \in Rows
  PROVE  BumpInstanceId(r).assigned = r.assigned
  BY DEF BumpInstanceId, Rows

LEMMA RefreshAttemptLinked ==
  ASSUME NEW r \in Rows, CanDraw(r), ImageExists(r.assigned)
  PROVE  Linked(RefreshAttempt(r, r.assigned))
  <1> DEFINE p == CloseOpenAttempts(r)
  <1>1. p \in Rows
    BY DEF Rows, CloseOpenAttempts
  <1>2. p.assigned = r.assigned /\ p.instance = r.instance
    BY DEF Rows, CloseOpenAttempts
  <1>3. RefreshAttempt(r, r.assigned) =
            NewAttempt(BumpInstanceId(p), r.assigned)
    BY DEF RefreshAttempt
  <1> HIDE DEF p
  <1>4. CanDraw(p) /\ r.assigned \in Images
    BY <1>2 DEF CanDraw, ImageExists
  <1>5. QED
    BY <1>1, <1>2, <1>3, <1>4, BumpTyped, BumpAssigned, NewAttemptLinked

LEMMA DeployRowLinked ==
  ASSUME NEW r \in Rows, CanDraw(r), NEW i \in Images, ImageExists(i)
  PROVE  Linked(DeployRow(r, i))
  <1> DEFINE p == [r EXCEPT !.assigned = i, !.state = "deploying",
                            !.clock = NoClock]
  <1>1. p \in Rows
    BY Clocks DEF Rows, MachineStates, InstallStates
  <1>2. p.assigned = i /\ p.instance = r.instance
    BY DEF Rows
  <1>3. DeployRow(r, i) = NewAttempt(BumpInstanceId(p), i)
    BY DEF DeployRow
  <1> HIDE DEF p
  <1>4. CanDraw(p)
    BY <1>2 DEF CanDraw
  <1>5. QED
    BY <1>1, <1>2, <1>3, <1>4, BumpTyped, BumpAssigned, NewAttemptLinked

LEMMA StageRowLinked ==
  ASSUME NEW r \in Rows, CanDraw(r), NEW i \in Images, ImageExists(i)
  PROVE  Linked(StageRow(r, i))
  <1> DEFINE p == [r EXCEPT !.assigned = i, !.state = "staged",
                            !.clock = NoClock]
             staged == BumpInstanceId(p)
             q == [staged EXCEPT !.jobs = @ \union {staged.instance}]
  <1>1. p \in Rows
    BY Clocks DEF Rows, MachineStates, InstallStates
  <1>2. p.assigned = i /\ p.instance = r.instance
    BY DEF Rows
  <1>3. StageRow(r, i) = NewAttempt(q, i)
    BY DEF StageRow
  <1> HIDE DEF p
  <1>4. CanDraw(p)
    BY <1>2 DEF CanDraw
  <1>5. /\ staged \in Rows /\ staged.instance \in Instances
        /\ staged.assigned = i
    BY <1>1, <1>2, <1>4, BumpTyped, BumpAssigned
  <1> HIDE DEF staged
  <1>6. q \in Rows
    BY <1>5 DEF Rows
  <1>7. q.instance = staged.instance /\ q.assigned = i
    BY <1>5 DEF Rows
  <1> HIDE DEF q
  <1>8. QED
    BY <1>3, <1>5, <1>6, <1>7, NewAttemptLinked

LEMMA RenderedLinked ==
  ASSUME NEW r, RowOK(r), Linked(r)
  PROVE  Linked(Rendered(r))
  <1>1. CASE Script(r) # "install"
    BY <1>1 DEF Rendered
  <1>2. CASE Script(r) = "install"
    <2> DEFINE handed == [r EXCEPT !.served = @ \union {r.instance}]
    <2>1. Installing(r)
      BY <1>2 DEF Script
    <2>2. r.instance \in Instances
      BY <2>1 DEF RowOK, Rows, Pinned
    <2>3. handed \in Rows
      BY <2>2 DEF RowOK, Rows
    <2>4. /\ handed.state = r.state /\ handed.open = r.open
          /\ handed.img = r.img /\ handed.assigned = r.assigned
      BY DEF RowOK, Rows
    <2>5. Rendered(r) \in {MarkDeployed(handed), handed}
      BY <1>2 DEF Rendered
    <2> HIDE DEF handed
    <2>6. Linked(handed)
      BY <2>4, SameLinked DEF Installing
    <2>7. QED BY <2>3, <2>5, <2>6, MarkDeployedLinked
  <1>3. QED BY <1>1, <1>2

LEMMA NewRowLinked ==
  ASSUME NEW r, RowOK(r), ~Exists(r), NEW hasName \in BOOLEAN
  PROVE  Linked(NewRow(r, hasName))
  <1> DEFINE q == NewRow(r, hasName)
  <1>1. q.state = "pending"
    BY DEF NewRow, BumpInstanceId, RowOK, Rows
  <1>2. q.open = {}
    BY DEF NewRow, BumpInstanceId, RowOK, Rows, Pinned
  <1>3. QED BY <1>1, <1>2, IdleLinked DEF IdleStates

LEMMA PickedLinked ==
  ASSUME NEW r, RowOK(r), Linked(r), NEW i \in Images,
         Script(r) = "menu" => CanDraw(r)
  PROVE  Linked(Picked(r, i))
  <1>1. CASE Script(r) = "menu" /\ Deployable(i) /\ lib[i] # "tool"
    <2> DEFINE q == IF r.state = "deployed" THEN StageRow(r, i)
                    ELSE DeployRow(r, i)
    <2>1. RowOK(q)
      BY <1>1, StageRowOK, DeployRowOK DEF RowOK
    <2>2. Linked(q)
      BY <1>1, StageRowLinked, DeployRowLinked DEF RowOK, Deployable
    <2>3. Picked(r, i) = Rendered(q)
      BY <1>1 DEF Picked
    <2> HIDE DEF q
    <2>4. QED BY <2>1, <2>2, <2>3, RenderedLinked
  <1>2. CASE ~(Script(r) = "menu" /\ Deployable(i) /\ lib[i] # "tool")
    BY <1>2, RenderedLinked DEF Picked
  <1>3. QED BY <1>1, <1>2
-----------------------------------------------------------------------------
(* Transactions and handlers *)

LEMMA CommitLinked ==
  ASSUME ImageInv, NEW m \in Machines, NEW r, Linked(r), Commit(m, r)
  PROVE  \A n \in Machines : Linked(row[n])'
  <1>1. \A n \in Machines : Linked(row'[n])
    BY DEF ImageInv, RowInv, Commit
  <1>2. QED BY <1>1 DEF Commit, Linked, ImageExists

LEMMA CommitWithExpiryLinked ==
  ASSUME ImageInv, NEW m \in Machines, NEW r, Linked(r),
         CommitWithExpiry(m, r)
  PROVE  \A n \in Machines : Linked(row[n])'
  <1>1. \A n \in Machines : Linked(Expired(row[n]))
    BY ExpiredLinked DEF ImageInv, RowInv
  <1>2. \A n \in Machines : Linked(row'[n])
    BY <1>1 DEF CommitWithExpiry
  <1>3. QED BY <1>2 DEF CommitWithExpiry, Linked, ImageExists

LEMMA ConsoleLinked ==
  ASSUME ImageInv, NEW m \in Machines, ConsoleStep(m)
  PROVE  \A n \in Machines : Linked(row[n])'
  <1> DEFINE Goal == \A n \in Machines : Linked(row[n])'
  <1>0. /\ RowOK(row[m]) /\ Linked(row[m])
        /\ RowOK(Expired(row[m])) /\ Linked(Expired(row[m]))
    BY ExpiredOK, ExpiredLinked DEF ImageInv, RowInv
  <1>1. ASSUME NEW hasName \in BOOLEAN, RegisterMachine(m, hasName)
        PROVE  Goal
    BY <1>0, <1>1, NewRowLinked, CommitLinked DEF RegisterMachine
  <1>2. ASSUME NEW i \in Images \union {NoImage}, NEW hasName \in BOOLEAN,
               MachineSave(m, i, hasName)
        PROVE  Goal
    <2> DEFINE image == IF ImageExists(i) THEN i ELSE row[m].assigned
               r == [row[m] EXCEPT !.named = hasName, !.assigned = image]
    <2>1. image \in Images \union {NoImage}
      BY <1>0 DEF RowOK, Rows
    <2>2. Installing(row[m]) => ImageExists(image)
      BY <1>0 DEF Linked
    <2>3. r = [row[m] EXCEPT !.named = hasName,
                             !.assigned = IF ImageExists(i) THEN i ELSE @]
      BY <1>0 DEF RowOK, Rows
    <2> HIDE DEF image
    <2>4. r \in Rows
      BY <1>0, <2>1 DEF RowOK, Rows
    <2>5. /\ r.state = row[m].state /\ r.open = row[m].open
          /\ r.img = row[m].img /\ r.assigned = image
      BY <1>0 DEF RowOK, Rows
    <2>6. CASE r.state = "staged" /\ ImageExists(r.assigned)
      <3>1. CanDraw(r) /\ Commit(m, RefreshAttempt(r, r.assigned))
        BY <1>2, <2>3, <2>6 DEF MachineSave
      <3> HIDE DEF r
      <3>2. QED BY <2>4, <2>6, <3>1, RefreshAttemptLinked, CommitLinked
    <2>7. CASE ~(r.state = "staged" /\ ImageExists(r.assigned))
      <3>1. Commit(m, r)
        BY <1>2, <2>3, <2>7 DEF MachineSave
      <3>2. Linked(r)
        <4> HIDE DEF r
        <4>1. QED BY <1>0, <2>2, <2>5 DEF Linked, Installing
      <3>3. QED BY <3>1, <3>2, CommitLinked
    <2>8. QED BY <2>6, <2>7
  <1>3. ASSUME NEW i \in Images \union {NoImage}, NEW hasName \in BOOLEAN,
               MachineCopyDefault(m, i, hasName)
        PROVE  Goal
    <2> DEFINE image == IF i = NoImage THEN row[m].assigned ELSE i
               r == [row[m] EXCEPT !.assigned = image,
                                   !.named = @ \/ hasName]
    <2>1. ImageExists(image) /\ Commit(m, r)
      BY <1>3 DEF MachineCopyDefault
    <2> HIDE DEF image
    <2>2. r.open = row[m].open /\ r.img = row[m].img /\ r.assigned = image
      BY <1>0 DEF RowOK, Rows
    <2> HIDE DEF r
    <2>3. Linked(r)
      BY <1>0, <2>1, <2>2 DEF Linked
    <2>4. QED BY <2>1, <2>3, CommitLinked
  <1>4. ASSUME NEW i \in Images, NEW hasName \in BOOLEAN,
               MachineDeploy(m, i, hasName)
        PROVE  Goal
    <2> DEFINE r == Expired(row[m])
               q == [r EXCEPT !.named = @ \/ hasName]
    <2>1. /\ CanDraw(r) /\ ImageExists(i)
          /\ CommitWithExpiry(m, DeployRow(q, i))
      BY <1>4 DEF MachineDeploy, Deployable
    <2> HIDE DEF r
    <2>2. q \in Rows /\ CanDraw(q)
      BY <1>0, <2>1 DEF r, RowOK, Rows, CanDraw
    <2>3. QED BY <2>1, <2>2, DeployRowLinked, CommitWithExpiryLinked
  <1>5. ASSUME MachineStage(m) PROVE Goal
    <2>1. /\ ImageExists(row[m].assigned) /\ CanDraw(row[m])
          /\ Commit(m, StageRow(row[m], row[m].assigned))
      BY <1>5 DEF MachineStage, Deployable
    <2>2. Linked(StageRow(row[m], row[m].assigned))
      BY <1>0, <2>1, StageRowLinked DEF RowOK, ImageExists
    <2>3. QED BY <2>1, <2>2, CommitLinked
  <1>6. ASSUME MachineMarkDeployed(m) PROVE Goal
    BY <1>0, <1>6, MarkDeployedLinked, CommitLinked
    DEF MachineMarkDeployed, RowOK
  <1>7. ASSUME NEW q, q.open = {}, q.state \in IdleStates, Commit(m, q)
        PROVE  Goal
    BY <1>7, IdleLinked, CommitLinked
  <1>8. ASSUME MachineAbort(m) PROVE Goal
    <2>1. AbortDeploy(row[m]).open = {}
      BY <1>0 DEF AbortDeploy, CloseOpenAttempts, RowOK, Rows
    <2>2. AbortDeploy(row[m]).state \in IdleStates
      BY <1>0 DEF AbortDeploy, CloseOpenAttempts, RowOK, Rows, IdleStates
    <2>3. QED BY <1>7, <1>8, <2>1, <2>2 DEF MachineAbort
  <1>9. ASSUME MachineDisable(m) PROVE Goal
    <2>1. Disable(row[m]).open = {} /\ Disable(row[m]).state = "disabled"
      BY <1>0 DEF Disable, CloseOpenAttempts, RowOK, Rows
    <2>2. QED BY <1>7, <1>9, <2>1 DEF MachineDisable, IdleStates
  <1>10. ASSUME MachineDelete(m) PROVE Goal
    <2>1. Blank(row[m]).open = {} /\ Blank(row[m]).state = "absent"
      BY <1>0 DEF Blank, RowOK, Rows
    <2>2. QED BY <1>7, <1>10, <2>1 DEF MachineDelete, IdleStates
  <1>11. ASSUME MachineEnable(m) PROVE Goal
    <2> DEFINE q == Enable(row[m])
    <2>1. /\ q.open = row[m].open /\ q.img = row[m].img
          /\ q.state = "ready"
      BY <1>0 DEF Enable, RowOK, Rows
    <2> HIDE DEF q
    <2>2. Linked(q)
      BY <1>0, <2>1 DEF Linked, Installing, InstallStates
    <2>3. QED BY <1>11, <2>2, CommitLinked DEF MachineEnable, q
  <1>12. QED
    BY <1>1, <1>2, <1>3, <1>4, <1>5, <1>6, <1>8, <1>9, <1>10, <1>11
    DEF ConsoleStep

LEMMA ClientLinked ==
  ASSUME ImageInv, NEW m \in Machines,
         ClientStep(m) \/ Callback(m) \/ Fetch(m)
  PROVE  \A n \in Machines : Linked(row[n])'
  <1> DEFINE Goal == \A n \in Machines : Linked(row[n])'
  <1>0. /\ RowOK(row[m]) /\ Linked(row[m])
        /\ RowOK(Expired(row[m])) /\ Linked(Expired(row[m]))
    BY ExpiredOK, ExpiredLinked DEF ImageInv, RowInv
  <1>1. ASSUME Exists(row[m]) \/ CanDraw(row[m])
        PROVE  /\ RowOK(Expired(Touched(row[m])))
               /\ Linked(Expired(Touched(row[m])))
    <2>1. RowOK(Touched(row[m]))
      BY <1>0, <1>1, TouchedOK
    <2>2. Linked(Touched(row[m]))
      BY <1>0, NewRowLinked DEF Touched
    <2>3. QED BY <2>1, <2>2, ExpiredOK, ExpiredLinked
  <1>2. ASSUME IpxeScript(m) PROVE Goal
    BY <1>1, <1>2, RenderedLinked, CommitWithExpiryLinked DEF IpxeScript
  <1>3. ASSUME NEW i \in Images, IpxeBootImage(m, i) PROVE Goal
    <2> DEFINE q == Expired(Touched(row[m]))
    <2>1. CanDraw(row[m]) /\ CommitWithExpiry(m, Picked(q, i))
      BY <1>3 DEF IpxeBootImage
    <2>2. RowOK(q) /\ Linked(q)
      BY <1>1, <2>1
    <2>3. Script(q) = "menu" => CanDraw(q)
      BY <1>0, <2>1, TouchedOK, ExpiredOK DEF CanDraw
    <2> HIDE DEF q
    <2>4. QED BY <2>1, <2>2, <2>3, PickedLinked, CommitWithExpiryLinked
  <1>4. ASSUME Installing(row[m]), Commit(m, MarkImaging(row[m])) PROVE Goal
    <2> DEFINE q == MarkImaging(row[m])
    <2>1. /\ q.open = row[m].open /\ q.img = row[m].img
          /\ q.assigned = row[m].assigned
      BY <1>0 DEF MarkImaging, RowOK, Rows
    <2> HIDE DEF q
    <2>2. Linked(q)
      BY <1>0, <1>4, <2>1, SameLinked
    <2>3. QED BY <1>4, <2>2, CommitLinked DEF q
  <1>5. ASSUME ImagingEvent(m) PROVE Goal
    BY <1>4, <1>5 DEF ImagingEvent
  <1>6. ASSUME SuccessEvent(m) PROVE Goal
    BY <1>0, <1>6, MarkDeployedLinked, CommitWithExpiryLinked
    DEF SuccessEvent, RowOK
  <1>7. ASSUME InstallLog(m) PROVE Goal
    <2>1. Failed(row[m]).open = {} /\ Failed(row[m]).state = "failed"
      BY <1>0 DEF Failed, CloseOpenAttempts, RowOK, Rows
    <2>2. QED
      BY <1>7, <2>1, IdleLinked, CommitLinked DEF InstallLog, IdleStates
  <1>8. ASSUME Heartbeat(m) PROVE Goal
    <2>1. [row[m] EXCEPT !.clock = 0] = MarkImaging(row[m])
      BY <1>0, <1>8 DEF Heartbeat, MarkImaging, RowOK, Rows
    <2>2. Installing(row[m])
      BY <1>8 DEF Heartbeat, Installing, InstallStates
    <2>3. QED BY <1>4, <1>8, <2>1, <2>2 DEF Heartbeat
  <1>9. QED
    BY <1>2, <1>3, <1>5, <1>6, <1>7, <1>8
    DEF ClientStep, Callback, Fetch, GuestInitFetch, InstallFileFetch

(***************************************************************************)
(* The library's steps.  delete_image refuses while an open attempt names  *)
(* the image and while an installing machine is assigned it: both halves   *)
(* of the guard are needed, for an attempt need not name the image its     *)
(* machine is assigned (MachineCopyDefault on a staged machine).           *)
(***************************************************************************)
LEMMA LibraryLinked ==
  ASSUME ImageInv, NEW i \in Images, LibraryStep(i)
  PROVE  \A n \in Machines : Linked(row[n])'
  <1> DEFINE Goal == \A n \in Machines : Linked(row[n])'
  <1>1. ASSUME NEW kind \in ImageKinds \ {"absent"},
               NEW isExtracting \in BOOLEAN, SetImage(i, kind, isExtracting)
        PROVE  Goal
    <2>1. \A k : ImageExists(k) => ImageExists(k)'
      BY <1>1 DEF SetImage, ImageExists, ImageInv, RowInv
    <2>2. row' = row
      BY <1>1 DEF SetImage
    <2>3. QED BY <2>1, <2>2 DEF ImageInv, Linked, Installing
  <1>2. ASSUME DeleteImage(i) PROVE Goal
    <2> SUFFICES ASSUME NEW m \in Machines PROVE Linked(row[m])'
      OBVIOUS
    <2>1. RowOK(row[m]) /\ Linked(row[m])
      BY DEF ImageInv, RowInv
    <2>2. row'[m] = Unlinked(row[m], i)
      BY <1>2 DEF DeleteImage
    <2>3. /\ row'[m].open = row[m].open /\ row'[m].state = row[m].state
          /\ row'[m].assigned = IF row[m].assigned = i THEN NoImage
                                ELSE row[m].assigned
          /\ row'[m].img = [j \in Instances |-> IF row[m].img[j] = i
                                               THEN NoImage
                                               ELSE row[m].img[j]]
      BY <2>1, <2>2 DEF Unlinked, RowOK, Rows
    <2>4. \A k \in Images : lib[k] # "absent" /\ k # i => lib'[k] # "absent"
      BY <1>2 DEF DeleteImage, ImageInv, RowInv
    <2>5. /\ \A j \in row[m].open : row[m].img[j] # i
          /\ Installing(row[m]) => row[m].assigned # i
      BY <1>2 DEF DeleteImage, ImageUnused
    <2>6. row[m].open \subseteq Instances
      BY <2>1 DEF RowOK, Rows
    <2>7. \A j \in row'[m].open :
              row'[m].img[j] \in Images /\ lib'[row'[m].img[j]] # "absent"
      BY <2>1, <2>3, <2>4, <2>5, <2>6 DEF Linked, ImageExists
    <2>8. row'[m].state \in InstallStates =>
              row'[m].assigned \in Images /\ lib'[row'[m].assigned] # "absent"
      BY <2>1, <2>3, <2>4, <2>5 DEF Linked, Installing, ImageExists
    <2>9. QED BY <2>7, <2>8 DEF Linked, Installing, ImageExists
  <1>3. QED
    BY <1>1, <1>2 DEF LibraryStep, CreateImage, MediaChanges, ImageKinds, DiskKinds

LEMMA NextImageInv == ImageInv /\ [Next]_vars => ImageInv'
  <1> DEFINE Goal == \A n \in Machines : Linked(row[n])'
  <1> SUFFICES ASSUME ImageInv, [Next]_vars PROVE Goal
    BY NextRowInv DEF ImageInv
  <1>1. ASSUME NEW m \in Machines,
               ConsoleStep(m) \/ ClientStep(m) \/ Callback(m) \/ Fetch(m)
        PROVE  Goal
    BY <1>1, ConsoleLinked, ClientLinked
  <1>2. CASE Tick
    <2> SUFFICES ASSUME NEW m \in Machines PROVE Linked(row[m])'
      OBVIOUS
    <2> DEFINE c == IF row[m].clock \in 0..(MaxTimeout - 1)
                    THEN row[m].clock + 1 ELSE row[m].clock
               q == [row[m] EXCEPT !.clock = c]
    <2>1. RowOK(row[m]) /\ Linked(row[m])
      BY DEF ImageInv, RowInv
    <2>2. row'[m] = q
      BY <1>2, <2>1 DEF Tick, RowOK, Rows
    <2>3. /\ q.open = row[m].open /\ q.img = row[m].img
          /\ q.state = row[m].state /\ q.assigned = row[m].assigned
      BY <2>1 DEF RowOK, Rows
    <2> HIDE DEF q
    <2>4. Linked(q)
      BY <2>1, <2>3, SameLinked DEF Installing
    <2>5. QED BY <1>2, <2>2, <2>4 DEF Tick, Linked, ImageExists, Installing
  <1>3. CASE ExpireStaleImaging
    <2>1. \A m \in Machines : Linked(row'[m])
      BY <1>3, ExpiredLinked DEF ExpireStaleImaging, ImageInv, RowInv
    <2>2. QED BY <1>3, <2>1 DEF ExpireStaleImaging, Linked, ImageExists
  <1>4. ASSUME NEW n \in 0..MaxTimeout, SaveImagingTimeout(n) PROVE Goal
    BY <1>4 DEF SaveImagingTimeout, ImageInv, Linked, ImageExists, Installing
  <1>5. ASSUME NEW i \in Images, LibraryStep(i) PROVE Goal
    BY <1>5, LibraryLinked
  <1>6. CASE UNCHANGED vars
    BY <1>6 DEF vars, ImageInv, Linked, ImageExists, Installing
  <1>7. QED
    BY <1>1, <1>2, <1>3, <1>4, <1>5, <1>6 DEF Next

(***************************************************************************)
(* Whatever the console, the clients, the timer and the library do, the    *)
(* image rows an install depends on exist until the install is over.       *)
(***************************************************************************)
THEOREM InstalledImagesExist == Spec => []InstalledImageExists
  <1>1. Init => ImageInv
    <2>1. Linked(UnusedRow)
      BY IdleLinked DEF UnusedRow, IdleStates
    <2>2. QED BY <2>1, InitRowInv DEF ImageInv, Init
  <1>2. ImageInv => InstalledImageExists
    BY DEF ImageInv, Linked, InstalledImageExists
  <1>3. QED BY <1>1, <1>2, NextImageInv, PTL DEF Spec
=============================================================================
