-------------------------- MODULE MachineStepProofs --------------------------
(***************************************************************************)
(* What a step of MachineLifecycle may do to a machine row: proofs that a  *)
(* disabled machine stays in quarantine and that the lifecycle implements  *)
(* install tickets.                                                        *)
(*                                                                         *)
(* Both follow from a case analysis of [Next]_vars.  A step either keeps   *)
(* the instance id of a row (Kept) or draws the next one (Drawn); the two  *)
(* relations say what happens to the install states and to the record of   *)
(* scripts handed out.                                                     *)
(***************************************************************************)
EXTENDS MachineLifecycleProofs

(***************************************************************************)
(* Same instance: a machine does not start installing, and a script is     *)
(* handed out only when it is installing already.                          *)
(***************************************************************************)
Kept(r, q) ==
    /\ q.instance = r.instance
    /\ Installing(q) => Installing(r)
    /\ \/ q.served = r.served
       \/ Installing(r) /\ q.served = r.served \union {r.instance}

\* Next instance: a script may be handed out for the new one only.
Drawn(r, q) ==
    /\ q.instance = r.instance + 1
    /\ q.served \in {r.served, r.served \union {q.instance}}

RowStep(r, q) == Kept(r, q) \/ Drawn(r, q)

\* A disabled row stays disabled.
Quarantined(r, q) == r.state = "disabled" => q.state = "disabled"
-----------------------------------------------------------------------------
(* Row operators that keep the instance id *)

LEMMA ExpiredKept ==
  ASSUME NEW r, RowOK(r)
  PROVE  /\ Kept(r, Expired(r))
         /\ Expired(r).served = r.served
         /\ r.state # "imaging" => Expired(r) = r
  <1>1. CASE limit > 0 /\ r.state = "imaging" /\ r.clock = NoClock
    BY <1>1 DEF RowOK, Clocked
  <1>2. CASE limit > 0 /\ r.state = "imaging" /\ r.clock # NoClock /\ Overdue(r)
    <2>1. Expired(r) = TimeoutError(r)
      BY <1>2 DEF Expired
    <2>2. /\ TimeoutError(r).instance = r.instance
          /\ TimeoutError(r).served = r.served
          /\ TimeoutError(r).state = "timeout_error"
      BY DEF TimeoutError, CloseOpenAttempts, RowOK, Rows
    <2>3. QED BY <1>2, <2>1, <2>2 DEF Kept, Installing, InstallStates
  <1>3. CASE ~(limit > 0 /\ r.state = "imaging")
             \/ (r.clock # NoClock /\ ~Overdue(r))
    BY <1>3 DEF Expired, Kept
  <1>4. QED BY <1>1, <1>2, <1>3

LEMMA MarkDeployedFields ==
  ASSUME NEW r \in Rows
  PROVE  /\ MarkDeployed(r).instance = r.instance
         /\ MarkDeployed(r).served = r.served
         /\ MarkDeployed(r).state = "deployed"
  BY DEF MarkDeployed, CloseOpenAttempts, Rows

LEMMA RenderedKept ==
  ASSUME NEW r, RowOK(r)
  PROVE  /\ Kept(r, Rendered(r))
         /\ Script(r) # "install" => Rendered(r) = r
  <1>1. CASE Script(r) # "install"
    BY <1>1 DEF Rendered, Kept
  <1>2. CASE Script(r) = "install"
    <2> DEFINE handed == [r EXCEPT !.served = @ \union {r.instance}]
    <2>1. Installing(r)
      BY <1>2 DEF Script
    <2>2. r.instance \in Instances
      BY <2>1 DEF RowOK, Rows, Pinned
    <2>3. handed \in Rows
      BY <2>2 DEF RowOK, Rows
    <2>4. /\ handed.instance = r.instance
          /\ handed.served = r.served \union {r.instance}
      BY DEF RowOK, Rows
    <2>5. Rendered(r) \in {MarkDeployed(handed), handed}
      BY <1>2 DEF Rendered
    <2> HIDE DEF handed
    <2>6. QED
      BY <1>2, <2>1, <2>3, <2>4, <2>5, MarkDeployedFields DEF Kept
  <1>3. QED BY <1>1, <1>2
-----------------------------------------------------------------------------
(* Row operators that draw an instance id *)

LEMMA BumpServed ==
  ASSUME NEW r \in Rows
  PROVE  BumpInstanceId(r).served = r.served
  BY DEF BumpInstanceId, Rows

LEMMA NewAttemptFields ==
  ASSUME NEW r \in Rows, NEW i \in Images
  PROVE  /\ NewAttempt(r, i).instance = r.instance
         /\ NewAttempt(r, i).served = r.served
         /\ NewAttempt(r, i).state = r.state
  BY DEF NewAttempt, CloseOpenAttempts, Rows

LEMMA NewRowDrawn ==
  ASSUME NEW r, RowOK(r), NEW hasName \in BOOLEAN
  PROVE  Drawn(r, NewRow(r, hasName))
  BY DEF Drawn, NewRow, BumpInstanceId, RowOK, Rows

LEMMA RefreshAttemptDrawn ==
  ASSUME NEW r \in Rows, CanDraw(r), NEW i \in Images
  PROVE  Drawn(r, RefreshAttempt(r, i)) /\ RefreshAttempt(r, i).state = r.state
  <1> DEFINE p == CloseOpenAttempts(r)
  <1>1. p \in Rows
    BY DEF Rows, CloseOpenAttempts
  <1>2. p.state = r.state /\ p.instance = r.instance /\ p.served = r.served
    BY DEF Rows, CloseOpenAttempts
  <1>3. RefreshAttempt(r, i) = NewAttempt(BumpInstanceId(p), i)
    BY DEF RefreshAttempt
  <1> HIDE DEF p
  <1>4. CanDraw(p)
    BY <1>2 DEF CanDraw
  <1>5. QED
    BY <1>1, <1>2, <1>3, <1>4, BumpTyped, BumpFields, BumpServed,
       NewAttemptFields DEF Drawn

LEMMA DeployRowDrawn ==
  ASSUME NEW r \in Rows, CanDraw(r), NEW i \in Images
  PROVE  /\ DeployRow(r, i).instance = r.instance + 1
         /\ DeployRow(r, i).served = r.served
  <1> DEFINE p == [r EXCEPT !.assigned = i, !.state = "deploying",
                            !.clock = NoClock]
  <1>1. p \in Rows
    BY Clocks DEF Rows, MachineStates, InstallStates
  <1>2. p.instance = r.instance /\ p.served = r.served
    BY DEF Rows
  <1>3. DeployRow(r, i) = NewAttempt(BumpInstanceId(p), i)
    BY DEF DeployRow
  <1> HIDE DEF p
  <1>4. CanDraw(p)
    BY <1>2 DEF CanDraw
  <1>5. QED
    BY <1>1, <1>2, <1>3, <1>4, BumpTyped, BumpFields, BumpServed,
       NewAttemptFields

LEMMA StageRowDrawn ==
  ASSUME NEW r \in Rows, CanDraw(r), NEW i \in Images
  PROVE  /\ StageRow(r, i).instance = r.instance + 1
         /\ StageRow(r, i).served = r.served
  <1> DEFINE p == [r EXCEPT !.assigned = i, !.state = "staged",
                            !.clock = NoClock]
             staged == BumpInstanceId(p)
             q == [staged EXCEPT !.jobs = @ \union {staged.instance}]
  <1>1. p \in Rows
    BY Clocks DEF Rows, MachineStates, InstallStates
  <1>2. p.instance = r.instance /\ p.served = r.served
    BY DEF Rows
  <1>3. StageRow(r, i) = NewAttempt(q, i)
    BY DEF StageRow
  <1> HIDE DEF p
  <1>4. CanDraw(p)
    BY <1>2 DEF CanDraw
  <1>5. /\ staged \in Rows /\ staged.instance \in Instances
        /\ staged.instance = r.instance + 1 /\ staged.served = r.served
    BY <1>1, <1>2, <1>4, BumpTyped, BumpFields, BumpServed
  <1> HIDE DEF staged
  <1>6. q \in Rows
    BY <1>5 DEF Rows
  <1>7. q.instance = staged.instance /\ q.served = staged.served
    BY <1>5 DEF Rows
  <1> HIDE DEF q
  <1>8. QED BY <1>3, <1>5, <1>6, <1>7, NewAttemptFields

LEMMA PickedStep ==
  ASSUME NEW r, RowOK(r), NEW i \in Images, Script(r) = "menu" => CanDraw(r)
  PROVE  /\ RowStep(r, Picked(r, i))
         /\ Script(r) # "menu" => Picked(r, i) = Rendered(r)
  <1>1. CASE Script(r) = "menu" /\ Deployable(i) /\ lib[i] # "tool"
    <2> DEFINE q == IF r.state = "deployed" THEN StageRow(r, i)
                    ELSE DeployRow(r, i)
    <2>1. RowOK(q)
      BY <1>1, StageRowOK, DeployRowOK DEF RowOK
    <2>2. q.instance = r.instance + 1 /\ q.served = r.served
      BY <1>1, StageRowDrawn, DeployRowDrawn DEF RowOK
    <2>3. Picked(r, i) = Rendered(q)
      BY <1>1 DEF Picked
    <2> HIDE DEF q
    <2>4. Kept(q, Rendered(q))
      BY <2>1, RenderedKept
    <2>5. QED BY <1>1, <2>2, <2>3, <2>4 DEF Kept, Drawn, RowStep
  <1>2. CASE ~(Script(r) = "menu" /\ Deployable(i) /\ lib[i] # "tool")
    BY <1>2, RenderedKept DEF Picked, RowStep
  <1>3. QED BY <1>1, <1>2
(***************************************************************************)
(* Row operators that start no install: their one promise is Kept.         *)
(***************************************************************************)
LEMMA EndedKept ==
  ASSUME NEW r, RowOK(r),
         NEW q \in {MarkDeployed(r), Failed(r), AbortDeploy(r), Disable(r),
                    Enable(r), Blank(r)}
  PROVE  Kept(r, q)
  <1>1. q.instance = r.instance /\ q.served = r.served /\ ~Installing(q)
    BY DEF MarkDeployed, Failed, AbortDeploy, Disable, Enable, Blank,
           CloseOpenAttempts, RowOK, Rows, Installing, InstallStates
  <1>2. QED BY <1>1 DEF Kept

LEMMA MarkImagingKept ==
  ASSUME NEW r, RowOK(r), Installing(r)
  PROVE  Kept(r, MarkImaging(r))
  BY DEF Kept, MarkImaging, RowOK, Rows

LEMMA EditedKept ==
  ASSUME NEW r, RowOK(r), NEW hasName, NEW image
  PROVE  Kept(r, [r EXCEPT !.named = hasName, !.assigned = image])
  BY DEF Kept, RowOK, Rows, Installing

LEMMA UnlinkedKept ==
  ASSUME NEW r, RowOK(r), NEW i
  PROVE  Kept(r, Unlinked(r, i)) /\ Quarantined(r, Unlinked(r, i))
  BY DEF Kept, Quarantined, Unlinked, RowOK, Rows, Installing

(***************************************************************************)
(* Expiring a machine first is no step of its own.                         *)
(***************************************************************************)
LEMMA ExpiredThen ==
  ASSUME NEW r, RowOK(r), NEW q, RowStep(Expired(r), q)
  PROVE  RowStep(r, q)
  BY ExpiredKept DEF RowStep, Kept, Drawn

LEMMA ExpiredStep ==
  ASSUME NEW r, RowOK(r)
  PROVE  RowStep(r, Expired(r)) /\ Quarantined(r, Expired(r))
  BY ExpiredKept DEF RowStep, Quarantined
-----------------------------------------------------------------------------
(* Transactions and handlers *)

LEMMA CommitSteps ==
  ASSUME RowInv, NEW m \in Machines, NEW r, RowStep(row[m], r), Commit(m, r)
  PROVE  /\ row'[m] = r
         /\ \A n \in Machines : /\ RowStep(row[n], row'[n])
                                /\ n # m => Quarantined(row[n], row'[n])
  <1>1. row'[m] = r
    BY DEF Commit, RowInv
  <1>2. \A n \in Machines \ {m} : row'[n] = row[n]
    BY DEF Commit, RowInv
  <1>3. QED BY <1>1, <1>2 DEF RowStep, Kept, Quarantined

LEMMA CommitWithExpirySteps ==
  ASSUME RowInv, NEW m \in Machines, NEW r, RowStep(row[m], r),
         CommitWithExpiry(m, r)
  PROVE  /\ row'[m] = r
         /\ \A n \in Machines : /\ RowStep(row[n], row'[n])
                                /\ n # m => Quarantined(row[n], row'[n])
  <1>1. row'[m] = r
    BY DEF CommitWithExpiry
  <1>2. \A n \in Machines \ {m} : row'[n] = Expired(row[n])
    BY DEF CommitWithExpiry
  <1>3. \A n \in Machines : RowOK(row[n])
    BY DEF RowInv
  <1>4. QED BY <1>1, <1>2, <1>3, ExpiredStep

(***************************************************************************)
(* The console's handlers, for their own machine and for the others.       *)
(***************************************************************************)
LEMMA ConsoleSteps ==
  ASSUME RowInv, NEW m \in Machines, ConsoleStep(m)
  PROVE  \A n \in Machines : /\ RowStep(row[n], row'[n])
                             /\ n # m => Quarantined(row[n], row'[n])
  <1> DEFINE Goal == \A n \in Machines :
                        /\ RowStep(row[n], row'[n])
                        /\ n # m => Quarantined(row[n], row'[n])
  <1>0. RowOK(row[m]) /\ RowOK(Expired(row[m]))
    BY ExpiredOK DEF RowInv
  <1>1. ASSUME NEW hasName \in BOOLEAN, RegisterMachine(m, hasName)
        PROVE  Goal
    BY <1>0, <1>1, NewRowDrawn, CommitSteps DEF RegisterMachine, RowStep
  <1>2. ASSUME NEW i \in Images \union {NoImage}, NEW hasName \in BOOLEAN,
               MachineSave(m, i, hasName)
        PROVE  Goal
    <2> DEFINE image == IF ImageExists(i) THEN i ELSE row[m].assigned
               r == [row[m] EXCEPT !.named = hasName, !.assigned = image]
    <2>1. image \in Images \union {NoImage}
      BY <1>0 DEF RowOK, Rows
    <2> HIDE DEF image
    <2>2. Kept(row[m], r) /\ RowOK(r)
      BY <1>0, <2>1, EditedKept, EditedOK
    <2>3. /\ r.state = row[m].state /\ r.instance = row[m].instance
          /\ r.served = row[m].served
      BY <1>0 DEF RowOK, Rows
    <2>4. r = [row[m] EXCEPT !.named = hasName,
                             !.assigned = IF ImageExists(i) THEN i ELSE @]
      BY <1>0 DEF image, RowOK, Rows
    <2>5. CASE r.state = "staged" /\ ImageExists(r.assigned)
      <3>1. /\ CanDraw(r) /\ r.assigned \in Images
            /\ Commit(m, RefreshAttempt(r, r.assigned))
        BY <1>2, <2>4, <2>5 DEF MachineSave, ImageExists
      <3> HIDE DEF r
      <3>2. Drawn(r, RefreshAttempt(r, r.assigned))
        BY <2>2, <3>1, RefreshAttemptDrawn DEF RowOK
      <3>3. RowStep(row[m], RefreshAttempt(r, r.assigned))
        BY <2>3, <3>2 DEF Drawn, RowStep
      <3>4. QED BY <3>1, <3>3, CommitSteps
    <2>6. CASE ~(r.state = "staged" /\ ImageExists(r.assigned))
      <3>1. Commit(m, r)
        BY <1>2, <2>4, <2>6 DEF MachineSave
      <3>2. QED BY <2>2, <3>1, CommitSteps DEF RowStep
    <2>7. QED BY <2>5, <2>6
  <1>3. ASSUME NEW i \in Images \union {NoImage}, NEW hasName \in BOOLEAN,
               MachineCopyDefault(m, i, hasName)
        PROVE  Goal
    <2> DEFINE image == IF i = NoImage THEN row[m].assigned ELSE i
               name == row[m].named \/ hasName
               r == [row[m] EXCEPT !.named = name, !.assigned = image]
    <2>1. Commit(m, [row[m] EXCEPT !.assigned = image,
                                   !.named = @ \/ hasName])
      BY <1>3 DEF MachineCopyDefault
    <2>2. r = [row[m] EXCEPT !.assigned = image, !.named = @ \/ hasName]
      BY <1>0 DEF RowOK, Rows
    <2>3. Kept(row[m], r)
      BY <1>0, EditedKept
    <2> HIDE DEF r
    <2>4. QED BY <2>1, <2>2, <2>3, CommitSteps DEF RowStep
  <1>4. ASSUME NEW i \in Images, NEW hasName \in BOOLEAN,
               MachineDeploy(m, i, hasName)
        PROVE  Goal
    <2> DEFINE r == Expired(row[m])
               q == [r EXCEPT !.named = @ \/ hasName]
    <2>1. CanDraw(r) /\ CommitWithExpiry(m, DeployRow(q, i))
      BY <1>4 DEF MachineDeploy
    <2> HIDE DEF r
    <2>2. /\ q \in Rows /\ CanDraw(q)
          /\ q.instance = r.instance /\ q.served = r.served
      BY <1>0, <2>1 DEF r, RowOK, Rows, CanDraw
    <2> HIDE DEF q
    <2>3. RowStep(r, DeployRow(q, i))
      BY <2>2, DeployRowDrawn DEF RowStep, Drawn
    <2>4. RowStep(row[m], DeployRow(q, i))
      BY <1>0, <2>3, ExpiredThen DEF r
    <2>5. QED BY <2>1, <2>4, CommitWithExpirySteps
  <1>5. ASSUME MachineStage(m) PROVE Goal
    <2>1. /\ row[m].assigned \in Images /\ CanDraw(row[m])
          /\ Commit(m, StageRow(row[m], row[m].assigned))
      BY <1>5 DEF MachineStage, Deployable, ImageExists
    <2>2. RowStep(row[m], StageRow(row[m], row[m].assigned))
      BY <1>0, <2>1, StageRowDrawn DEF RowOK, RowStep, Drawn
    <2>3. QED BY <2>1, <2>2, CommitSteps
  <1>6. ASSUME NEW q \in {MarkDeployed(row[m]), AbortDeploy(row[m]),
                          Disable(row[m]), Enable(row[m]), Blank(row[m])},
               Commit(m, q)
        PROVE  Goal
    BY <1>0, <1>6, EndedKept, CommitSteps DEF RowStep
  <1>7. QED
    BY <1>1, <1>2, <1>3, <1>4, <1>5, <1>6
    DEF ConsoleStep, MachineAbort, MachineMarkDeployed, MachineDisable,
        MachineEnable, MachineDelete

(***************************************************************************)
(* The boot scripts, the installer callbacks and the seed and file fetches *)
(* leave a disabled machine alone.                                         *)
(***************************************************************************)
LEMMA ClientSteps ==
  ASSUME RowInv, NEW m \in Machines,
         ClientStep(m) \/ Callback(m) \/ Fetch(m)
  PROVE  \A n \in Machines : /\ RowStep(row[n], row'[n])
                             /\ Quarantined(row[n], row'[n])
  <1> DEFINE Goal == \A n \in Machines :
                        /\ RowStep(row[n], row'[n])
                        /\ Quarantined(row[n], row'[n])
             e == Expired(Touched(row[m]))
  <1>0. RowOK(row[m]) /\ RowOK(Expired(row[m]))
    BY ExpiredOK DEF RowInv
  <1>1. ASSUME NEW r, RowStep(row[m], r), Quarantined(row[m], r),
               Commit(m, r) \/ CommitWithExpiry(m, r)
        PROVE  Goal
    BY <1>1, CommitSteps, CommitWithExpirySteps
  <1>2. ASSUME NEW r, RowStep(row[m], r), Installing(row[m]),
               Commit(m, r) \/ CommitWithExpiry(m, r)
        PROVE  Goal
    BY <1>1, <1>2 DEF Quarantined, Installing, InstallStates
  <1>3. ASSUME Exists(row[m]) \/ CanDraw(row[m])
        PROVE  /\ RowOK(e)
               /\ Exists(row[m]) => e = Expired(row[m])
               /\ ~Exists(row[m]) => /\ Drawn(row[m], e)
                                     /\ Script(e) = "unknown_local"
    <2>1. RowOK(Touched(row[m])) /\ RowOK(e)
      BY <1>0, <1>3, TouchedOK, ExpiredOK
    <2>2. Exists(row[m]) => e = Expired(row[m])
      BY <1>0, <1>3, TouchedOK
    <2>3. ~Exists(row[m]) => Script(e) = "unknown_local"
      BY <1>0, <1>3, TouchedOK
    <2>4. ASSUME ~Exists(row[m]) PROVE Drawn(row[m], e)
      <3>1. Drawn(row[m], Touched(row[m]))
        BY <1>0, <2>4, NewRowDrawn DEF Touched
      <3>2. /\ e.instance = Touched(row[m]).instance
            /\ e.served = Touched(row[m]).served
        BY <2>1, ExpiredKept DEF Kept
      <3> HIDE DEF e
      <3>3. QED BY <3>1, <3>2 DEF Drawn
    <2>5. QED BY <2>1, <2>2, <2>3, <2>4
  <1>4. row[m].state = "disabled" =>
            /\ Exists(row[m])
            /\ Expired(row[m]) = row[m]
            /\ Script(row[m]) = "unknown_local"
    BY <1>0, ExpiredKept
    DEF Exists, Script, Installing, InstallStates, MenuEligible
  <1>5. ASSUME IpxeScript(m) PROVE Goal
    <2>1. CommitWithExpiry(m, Rendered(e)) /\ (Exists(row[m]) \/ CanDraw(row[m]))
      BY <1>5 DEF IpxeScript
    <2> HIDE DEF e
    <2>2. Kept(e, Rendered(e))
      BY <1>3, <2>1, RenderedKept
    <2>3. RowStep(row[m], Rendered(e))
      <3>1. CASE Exists(row[m])
        BY <1>0, <1>3, <2>1, <2>2, <3>1, ExpiredThen DEF RowStep
      <3>2. CASE ~Exists(row[m])
        BY <1>3, <2>1, <3>2, RenderedKept DEF RowStep
      <3>3. QED BY <3>1, <3>2
    <2>4. Quarantined(row[m], Rendered(e))
      BY <1>0, <1>3, <1>4, <2>1, RenderedKept DEF Quarantined
    <2>5. QED BY <1>1, <2>1, <2>3, <2>4
  <1>6. ASSUME NEW i \in Images, IpxeBootImage(m, i) PROVE Goal
    <2>1. CommitWithExpiry(m, Picked(e, i)) /\ CanDraw(row[m])
      BY <1>6 DEF IpxeBootImage
    <2>2. Script(e) = "menu" => CanDraw(e)
      BY <1>0, <1>3, <2>1, ExpiredKept DEF CanDraw, Kept
    <2> HIDE DEF e
    <2>3. /\ RowStep(e, Picked(e, i))
          /\ Script(e) # "menu" => Picked(e, i) = Rendered(e)
      BY <1>3, <2>1, <2>2, PickedStep
    <2>4. RowStep(row[m], Picked(e, i))
      <3>1. CASE Exists(row[m])
        BY <1>0, <1>3, <2>1, <2>3, <3>1, ExpiredThen
      <3>2. CASE ~Exists(row[m])
        BY <1>3, <2>1, <2>3, <3>2, RenderedKept DEF RowStep
      <3>3. QED BY <3>1, <3>2
    <2>5. Quarantined(row[m], Picked(e, i))
      BY <1>0, <1>3, <1>4, <2>1, <2>3, RenderedKept DEF Quarantined
    <2>6. QED BY <1>1, <2>1, <2>4, <2>5
  <1>7. ASSUME ImagingEvent(m) PROVE Goal
    BY <1>0, <1>2, <1>7, MarkImagingKept DEF ImagingEvent, RowStep
  <1>8. ASSUME SuccessEvent(m) PROVE Goal
    <2>1. /\ Installing(Expired(row[m]))
          /\ CommitWithExpiry(m, MarkDeployed(Expired(row[m])))
      BY <1>8 DEF SuccessEvent
    <2>2. RowStep(row[m], MarkDeployed(Expired(row[m])))
      BY <1>0, EndedKept, ExpiredThen DEF RowStep
    <2>3. Installing(row[m])
      BY <1>0, <2>1, ExpiredKept DEF Kept
    <2>4. QED BY <1>2, <2>1, <2>2, <2>3
  <1>9. ASSUME InstallLog(m) PROVE Goal
    BY <1>0, <1>2, <1>9, EndedKept DEF InstallLog, RowStep
  <1>10. ASSUME Heartbeat(m) PROVE Goal
    <2>1. [row[m] EXCEPT !.clock = 0] = MarkImaging(row[m])
      BY <1>0, <1>10 DEF Heartbeat, MarkImaging, RowOK, Rows
    <2>2. Installing(row[m])
      BY <1>10 DEF Heartbeat, Installing, InstallStates
    <2>3. QED
      BY <1>0, <1>2, <1>10, <2>1, <2>2, MarkImagingKept DEF Heartbeat, RowStep
  <1>11. QED
    BY <1>5, <1>6, <1>7, <1>8, <1>9, <1>10
    DEF ClientStep, Callback, Fetch, GuestInitFetch, InstallFileFetch

(***************************************************************************)
(* Every step of the specification, for every machine.                     *)
(***************************************************************************)
LEMMA NextSteps ==
  ASSUME RowInv, [Next]_vars
  PROVE  \A n \in Machines :
            /\ RowStep(row[n], row'[n])
            /\ ~ConsoleStep(n) => Quarantined(row[n], row'[n])
  <1> DEFINE Goal == \A n \in Machines :
                        /\ RowStep(row[n], row'[n])
                        /\ ~ConsoleStep(n) => Quarantined(row[n], row'[n])
  <1>0. \A n \in Machines : RowOK(row[n])
    BY DEF RowInv
  <1>1. ASSUME NEW m \in Machines,
               ConsoleStep(m) \/ ClientStep(m) \/ Callback(m) \/ Fetch(m)
        PROVE  Goal
    BY <1>1, ConsoleSteps, ClientSteps
  <1>2. CASE Tick
    <2>1. \A n \in Machines :
              /\ row'[n].instance = row[n].instance
              /\ row'[n].served = row[n].served
              /\ row'[n].state = row[n].state
      BY <1>0, <1>2 DEF Tick, RowOK, Rows
    <2>2. QED BY <2>1 DEF RowStep, Kept, Quarantined, Installing
  <1>3. CASE ExpireStaleImaging
    <2>1. \A n \in Machines : row'[n] = Expired(row[n])
      BY <1>3 DEF ExpireStaleImaging
    <2>2. QED BY <1>0, <2>1, ExpiredStep
  <1>4. CASE UNCHANGED row
    BY <1>4 DEF RowStep, Kept, Quarantined
  <1>5. ASSUME NEW i \in Images, DeleteImage(i) PROVE Goal
    <2>1. \A n \in Machines : row'[n] = Unlinked(row[n], i)
      BY <1>5 DEF DeleteImage
    <2>2. QED BY <1>0, <2>1, UnlinkedKept DEF RowStep
  <1>6. QED
    BY <1>1, <1>2, <1>3, <1>4, <1>5
    DEF Next, vars, SaveImagingTimeout, LibraryStep, CreateImage,
        MediaChanges, SetImage
-----------------------------------------------------------------------------
(***************************************************************************)
(* Quarantine: nothing but a console handler for that machine takes it out *)
(* of "disabled".                                                          *)
(***************************************************************************)
THEOREM DisabledStaysDisabled == Spec => QuarantineHolds
  <1>1. RowInv /\ [Next]_vars =>
          [\A m \in Machines :
              row[m].state = "disabled" /\ row'[m].state # "disabled"
                  => ConsoleStep(m)]_vars
    BY NextSteps DEF Quarantined
  <1>2. QED BY <1>1, AlwaysRowInv, PTL DEF Spec, QuarantineHolds

(***************************************************************************)
(* A good step of a good row is the machine's part of a ticket step.       *)
(***************************************************************************)
LEMMA RowStepIsTicketStep ==
  ASSUME NEW m \in Machines, RowOK(row[m]), RowOK(row'[m]),
         RowStep(row[m], row'[m]), row' = [n \in Machines |-> row'[n]]
  PROVE  Ticket!MachineStep(m)
  <1> DEFINE r == row[m]
             q == row'[m]
             held(x) == IF Installing(x) THEN x.instance ELSE 0
  <1>1. /\ r.instance \in 0..MaxInstance /\ q.instance \in 0..MaxInstance
        /\ Installing(r) => r.instance \in Instances
        /\ Installing(q) => q.instance \in Instances
    BY DEF RowOK, Rows, Pinned
  <1>2. SUFFICES \E n \in 0..MaxInstance :
          /\ n = held(r) \/ n > r.instance
          /\ q.instance = IF n > r.instance THEN n ELSE r.instance
          /\ held(q) \in {n, 0}
          /\ q.served \in {r.served, r.served \union ({n} \ {0})}
    BY DEF Ticket!MachineStep
  <1> HIDE DEF r, q
  <1>3. CASE Kept(r, q)
    <2>1. held(r) \in 0..MaxInstance /\ ~(held(r) > r.instance)
      BY <1>1, ConstantsAssumption DEF Instances
    <2>2. held(q) \in {held(r), 0}
      BY <1>3 DEF Kept
    <2>3. q.served \in {r.served, r.served \union ({held(r)} \ {0})}
      <3>1. CASE Installing(r)
        <4>1. held(r) = r.instance /\ r.instance # 0
          BY <1>1, <3>1 DEF Instances
        <4>2. {held(r)} \ {0} = {r.instance}
          BY <4>1
        <4>3. QED BY <1>3, <4>2 DEF Kept
      <3>2. QED BY <1>3, <3>1 DEF Kept
    <2>4. q.instance = r.instance
      BY <1>3 DEF Kept
    <2> HIDE DEF held
    <2>5. QED BY <2>1, <2>2, <2>3, <2>4
  <1>4. CASE Drawn(r, q)
    <2>1. q.instance = r.instance + 1 /\ q.instance > r.instance
      BY <1>1, <1>4, ConstantsAssumption DEF Drawn
    <2>2. q.instance # 0
      BY <1>1, <2>1, ConstantsAssumption
    <2>3. {q.instance} \ {0} = {q.instance}
      BY <2>2
    <2>4. q.served \in {r.served, r.served \union ({q.instance} \ {0})}
      BY <1>4, <2>3 DEF Drawn
    <2>5. held(q) \in {q.instance, 0}
      OBVIOUS
    <2> HIDE DEF held
    <2>6. QED BY <1>1, <2>1, <2>4, <2>5
  <1>5. QED BY <1>3, <1>4 DEF RowStep, r, q

(***************************************************************************)
(* The lifecycle implements install tickets: an installer is handed out    *)
(* only for the instance that was requested last and not withdrawn since.  *)
(***************************************************************************)
THEOREM LifecycleImplementsTickets == Spec => ImplementsTickets
  <1>1. Init => Ticket!Init
    BY DEF Init, Ticket!Init, UnusedRow, Installing, InstallStates
  <1>2. RowInv /\ RowInv' /\ [Next]_vars => [Ticket!Next]_(Ticket!ticketVars)
    <2> SUFFICES ASSUME RowInv, RowInv', [Next]_vars
                 PROVE  Ticket!Next
      BY DEF Ticket!ticketVars
    <2>1. ASSUME NEW m \in Machines
          PROVE  /\ RowOK(row[m]) /\ RowOK(row'[m])
                 /\ RowStep(row[m], row'[m])
                 /\ row' = [n \in Machines |-> row'[n]]
      BY NextSteps DEF RowInv, RowOK
    <2>2. QED BY <2>1, RowStepIsTicketStep DEF Ticket!Next
  <1>3. QED
    BY <1>1, <1>2, AlwaysRowInv, PTL DEF Spec, ImplementsTickets, Ticket!Spec
=============================================================================
