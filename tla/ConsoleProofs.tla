---------------------------- MODULE ConsoleProofs ----------------------------
(***************************************************************************)
(* Theorems about WebConsole, for any rows, addresses, UUIDs, seed texts,  *)
(* edits and number of handlers at once: who boots (MachineIdentity), the  *)
(* seed files (GuestSeeds) and the editor (CloudConfigEditor).             *)
(***************************************************************************)
EXTENDS WebConsole, TLAPS

\* A step of the console is a step of one part, and the others stand still.
LEMMA PartStarts == Init => IdentityInit /\ SeedInit
  BY DEF Init

LEMMA PartSteps ==
  ASSUME [Next]_consoleVars
  PROVE  /\ [IdentityNext]_idVars /\ [SeedNext]_seedVars /\ [EditorNext]_editorVars
         /\ focus' = focus
  BY DEF Next, Identity, SeedStore, Editor, consoleVars, idVars, seedVars, editorVars
-----------------------------------------------------------------------------
(* Who boots *)

IdentityRows == [mac : Macs \union {"none"}, uuid : Uuids \union {"none"},
                 live : BOOLEAN]

Tasks == [how : {"idle", "touch", "move", "insert"}, id : RowIds \union {0},
          mac : Macs \union {"none"}, uuid : Uuids \union {"none"},
          alone : BOOLEAN]

(***************************************************************************)
(* What touch_machine and register_machine have decided is (still) right:  *)
(* the row is there, and nobody has the address or UUID it is to get.      *)
(***************************************************************************)
Right(task) ==
    /\ task.how \in {"touch", "move"} => task.id \in RowsUsed
    /\ task.how = "touch" => task.uuid = "none" \/ ByUuid(task.uuid) = {}
    /\ task.how = "move" =>
           /\ ~idRows[task.id].live
           /\ task.uuid = "none"
    /\ task.how \in {"move", "insert"} => task.mac \in Macs /\ ByMac(task.mac) = {}
    /\ task.how = "insert" => task.uuid = "none" \/ ByUuid(task.uuid) = {}

DecidedRight(c) == Right(idTask[c])

IdentityTypes ==
    /\ idRows \in [RowIds -> IdentityRows]
    /\ \A r \in RowIds : idRows[r].mac = "none" => idRows[r] = NoRow
    /\ idTask \in [BootHandlers -> Tasks]
    /\ \A c \in BootHandlers :
           idTask[c].how \in {"insert", "move"} => idTask[c].mac # "none"
    /\ idBoots \in 0..MaxBoots

(***************************************************************************)
(* The inductive invariant: a handler that nobody has overlapped is the    *)
(* only one that has decided, and its decision is right.                   *)
(***************************************************************************)
IdentityInv ==
    /\ IdentityTypes
    /\ Unique(idRows)
    /\ \A c, d \in Deciding : idTask[c].alone => c = d
    /\ \A c \in Deciding : idTask[c].alone => DecidedRight(c)

LEMMA IdentityStarts == IdentityInit => IdentityInv
  <1> SUFFICES ASSUME IdentityInit PROVE IdentityInv
    OBVIOUS
  <1>1. NoRow \in IdentityRows /\ IdleTask \in Tasks /\ 0 \in 0..MaxBoots
    BY IdentityAssumption DEF IdentityAssumption, NoRow, IdentityRows, IdleTask, Tasks
  <1>2. IdentityTypes
    BY <1>1 DEF IdentityInit, IdentityTypes, IdleTask
  <1>3. Deciding = {}
    BY DEF IdentityInit, Deciding, IdleTask
  <1>4. Unique(idRows)
    BY DEF IdentityInit, Unique, NoRow
  <1> QED BY <1>2, <1>3, <1>4 DEF IdentityInv

LEMMA DecisionsAreRight ==
  ASSUME IdentityInv, NEW mac \in Macs, NEW uuid \in Uuids \union {"none"},
         NEW task \in Decide(mac, uuid)
  PROVE  task \in Tasks /\ task.how # "idle" /\ Right(task)
  <1>1. IdentityTypes /\ \A r \in RowsUsed : r \in RowIds
    BY DEF IdentityInv, RowsUsed
  <1>2. ASSUME NEW r \in RowIds, task = Touch(r, uuid), r \in RowsUsed
        PROVE  task \in Tasks /\ task.how # "idle" /\ Right(task)
    <2> DEFINE u == IF idRows[r].uuid = "none" /\ ByUuid(uuid) = {} THEN uuid
                    ELSE "none"
    <2>1. u \in Uuids \union {"none"} /\ (u = "none" \/ ByUuid(u) = {})
      OBVIOUS
    <2> HIDE DEF u
    <2>2. task = [IdleTask EXCEPT !.how = "touch", !.id = r, !.uuid = u]
      BY <1>2 DEF Touch, u
    <2>3. /\ task \in Tasks /\ task.how = "touch" /\ task.id = r /\ task.uuid = u
      BY <2>1, <2>2 DEF IdleTask, Tasks
    <2> QED BY <1>2, <2>1, <2>3 DEF Right
  <1>3. ASSUME NEW u \in {uuid, "none"}, task = Insert(mac, u), ByMac(mac) = {},
               u = "none" \/ ByUuid(u) = {}
        PROVE  task \in Tasks /\ task.how # "idle" /\ Right(task)
    <2>1. /\ task \in Tasks /\ task.how = "insert" /\ task.mac = mac
          /\ task.uuid = u
      BY <1>3 DEF Insert, IdleTask, Tasks
    <2> QED BY <1>3, <2>1 DEF Right
  <1>4. ASSUME NEW r \in RowIds, r \in RowsUsed, task = Move(r, mac),
               ByMac(mac) = {}, ~idRows[r].live
        PROVE  task \in Tasks /\ task.how # "idle" /\ Right(task)
    <2>1. /\ task \in Tasks /\ task.how = "move" /\ task.mac = mac
          /\ task.uuid = "none" /\ task.id = r
      BY <1>4 DEF Move, IdleTask, Tasks
    <2> QED BY <1>4, <2>1 DEF Right
  <1>5. CASE ByMac(mac) # {}
    <2>1. PICK r \in ByMac(mac) : task = Touch(r, uuid)
      BY <1>5 DEF Decide
    <2>2. r \in RowsUsed
      BY DEF ByMac
    <2> QED BY <1>1, <1>2, <2>1, <2>2
  <1>6. CASE ByMac(mac) = {} /\ ByUuid(uuid) = {}
    <2>1. task = Insert(mac, uuid)
      BY <1>6 DEF Decide
    <2> QED BY <1>3, <1>6, <2>1
  <1>7. CASE ByMac(mac) = {} /\ ByUuid(uuid) # {}
    <2>1. PICK r \in ByUuid(uuid) :
              task = IF idRows[r].live THEN Insert(mac, "none") ELSE Move(r, mac)
      BY <1>7 DEF Decide
    <2>2. r \in RowsUsed
      BY DEF ByUuid
    <2> QED BY <1>1, <1>3, <1>4, <1>7, <2>1, <2>2
  <1> QED BY <1>5, <1>6, <1>7

LEMMA BeginKeeps ==
  ASSUME IdentityInv, NEW c \in BootHandlers, NEW task \in Tasks,
         task.how # "idle", Right(task), Begin(c, task)
  PROVE  IdentityInv'
  <1> DEFINE new == [task EXCEPT !.alone = Deciding = {}]
  <1>1. /\ IdentityTypes /\ idRows' = idRows /\ idBoots' \in 0..MaxBoots
        /\ (Deciding = {}) \in BOOLEAN
    BY IdentityAssumption, SMT DEF IdentityAssumption, IdentityInv, IdentityTypes, Begin
  <1>2. /\ new \in Tasks /\ new.how = task.how /\ new.id = task.id
        /\ new.mac = task.mac /\ new.uuid = task.uuid
        /\ new.alone = (Deciding = {})
    BY <1>1 DEF Tasks
  <1>3. \A d \in BootHandlers :
            /\ [idTask[d] EXCEPT !.alone = d \notin Deciding] \in Tasks
            /\ [idTask[d] EXCEPT !.alone = d \notin Deciding].how = idTask[d].how
            /\ [idTask[d] EXCEPT !.alone = d \notin Deciding].mac = idTask[d].mac
            /\ [idTask[d] EXCEPT !.alone = d \notin Deciding].alone = (d \notin Deciding)
    BY <1>1 DEF IdentityTypes, Tasks
  <1>4. /\ idTask' \in [BootHandlers -> Tasks] /\ idTask'[c] = new
        /\ \A d \in BootHandlers \ {c} :
               idTask'[d] = [idTask[d] EXCEPT !.alone = d \notin Deciding]
    BY <1>2, <1>3 DEF Begin
  <1> HIDE DEF new
  <1>5. \A d \in BootHandlers \ {c} :
            d \in Deciding' => d \in Deciding /\ ~idTask'[d].alone
    BY <1>3, <1>4 DEF Deciding
  <1>6. idTask'[c].alone => Deciding = {} /\ Deciding' \subseteq {c}
    BY <1>2, <1>4, <1>5 DEF Deciding
  <1>7. DecidedRight(c)'
    BY <1>1, <1>2, <1>4 DEF DecidedRight, Right, RowsUsed, ByMac, ByUuid
  <1>8. \A d, e \in Deciding' : idTask'[d].alone => d = e
    BY <1>5, <1>6 DEF Deciding
  <1>9. \A d \in Deciding' : idTask'[d].alone => DecidedRight(d)'
    <2> SUFFICES ASSUME NEW d \in Deciding', idTask'[d].alone PROVE DecidedRight(d)'
      OBVIOUS
    <2>1. d = c
      BY <1>5 DEF Deciding
    <2> QED BY <1>7, <2>1
  <1>10. IdentityTypes' /\ Unique(idRows')
    <2>1. \A d \in BootHandlers :
              idTask'[d].how \in {"insert", "move"} => idTask'[d].mac # "none"
      <3>1. task.how \in {"insert", "move"} => task.mac # "none"
        BY IdentityAssumption DEF IdentityAssumption, Right
      <3>2. idTask'[c].how \in {"insert", "move"} => idTask'[c].mac # "none"
        BY <1>2, <1>4, <3>1
      <3>3. \A d \in BootHandlers \ {c} :
                idTask'[d].how = idTask[d].how /\ idTask'[d].mac = idTask[d].mac
        BY <1>3, <1>4
      <3> QED BY <1>1, <3>2, <3>3 DEF IdentityTypes
    <2> QED BY <1>1, <1>4, <2>1 DEF IdentityInv, IdentityTypes
  <1> QED BY <1>8, <1>9, <1>10 DEF IdentityInv

\* The rows that a right decision writes keep the two columns unique.
LEMMA RightFits ==
  ASSUME IdentityTypes, Unique(idRows), NEW task \in Tasks, Right(task),
         task.how # "idle", HasRoom(task)
  PROVE  Writable(task)
  <1> DEFINE x == IF task.how = "insert" THEN NextId ELSE task.id
             new == Written(task)[x]
  <1>1. x \in RowIds
    BY DEF HasRoom, Right, RowsUsed, Tasks
  <1>2. \A s \in RowIds \ {x} : Written(task)[s] = idRows[s]
    BY <1>1 DEF Written, IdentityTypes
  <1>3. /\ new.mac = "none" \/ \A s \in RowIds \ {x} : idRows[s].mac # new.mac
        /\ new.uuid = "none" \/ \A s \in RowIds \ {x} : idRows[s].uuid # new.uuid
    <2>0. \A s \in RowIds : idRows[s] = NoRow => idRows[s].mac = "none" /\ idRows[s].uuid = "none"
      BY DEF NoRow
    <2>1. CASE task.how = "insert"
      <3>1. new.mac = task.mac /\ new.uuid = task.uuid
        BY <1>1, <2>1 DEF Written, IdentityTypes
      <3> HIDE DEF new
      <3> QED BY <2>0, <2>1, <3>1 DEF Right, ByMac, ByUuid, RowsUsed
    <2>2. CASE task.how \in {"touch", "move"}
      <3>1. /\ new.mac = IF task.how = "move" THEN task.mac ELSE idRows[x].mac
            /\ new.uuid = IF task.uuid # "none" THEN task.uuid ELSE idRows[x].uuid
        BY <1>1, <2>2 DEF Written, IdentityTypes, IdentityRows
      <3> HIDE DEF new, x
      <3>2. new.mac = "none" \/ \A s \in RowIds \ {x} : idRows[s].mac # new.mac
        <4>1. CASE task.how = "move"
          BY <2>0, <3>1, <4>1 DEF Right, ByMac, RowsUsed
        <4>2. CASE task.how # "move"
          BY <1>1, <3>1, <4>2 DEF Unique
        <4> QED BY <4>1, <4>2
      <3>3. new.uuid = "none" \/ \A s \in RowIds \ {x} : idRows[s].uuid # new.uuid
        <4>1. CASE task.uuid # "none"
          BY <2>0, <2>2, <3>1, <4>1 DEF Right, ByUuid, RowsUsed
        <4>2. CASE task.uuid = "none"
          BY <1>1, <3>1, <4>2 DEF Unique
        <4> QED BY <4>1, <4>2
      <3> QED BY <3>2, <3>3
    <2> QED BY <2>1, <2>2 DEF Tasks
  <1>4. task.how = "insert" \/ task.id \in RowsUsed
    BY DEF Right, Tasks
  <1> HIDE DEF x, new
  <1>5. Unique(Written(task))
    <2> SUFFICES ASSUME NEW r \in RowIds, NEW s \in RowIds, r # s
                 PROVE  /\ \/ Written(task)[r].mac = "none"
                           \/ Written(task)[r].mac # Written(task)[s].mac
                        /\ \/ Written(task)[r].uuid = "none"
                           \/ Written(task)[r].uuid # Written(task)[s].uuid
      BY DEF Unique
    <2>1. CASE r # x /\ s # x
      BY <1>2, <2>1 DEF Unique
    <2>2. CASE r = x
      BY <1>2, <1>3, <2>2 DEF new
    <2>3. CASE s = x
      BY <1>2, <1>3, <2>3 DEF new
    <2> QED BY <2>1, <2>2, <2>3
  <1> QED BY <1>4, <1>5 DEF Writable

LEMMA WrittenTypes ==
  ASSUME IdentityTypes, NEW task \in Tasks, HasRoom(task), Writable(task),
         task.how # "idle",
         task.how \in {"insert", "move"} => task.mac # "none"
  PROVE  /\ Written(task) \in [RowIds -> IdentityRows]
         /\ \A r \in RowIds : Written(task)[r].mac = "none" => Written(task)[r] = NoRow
  <1>1. CASE task.how = "insert"
    <2> DEFINE new == [mac |-> task.mac, uuid |-> task.uuid, live |-> TRUE]
    <2>1. new \in IdentityRows /\ new.mac # "none"
      BY <1>1 DEF Tasks, IdentityRows
    <2>2. Written(task) = [idRows EXCEPT ![NextId] = new] /\ NextId \in RowIds
      BY <1>1 DEF Written, HasRoom
    <2> HIDE DEF new
    <2> QED BY <2>1, <2>2 DEF IdentityTypes
  <1>2. CASE task.how # "insert"
    <2> DEFINE new == [idRows[task.id] EXCEPT
                          !.live = TRUE,
                          !.mac = IF task.how = "move" THEN task.mac ELSE @,
                          !.uuid = IF task.uuid # "none" THEN task.uuid ELSE @]
    <2>1. task.id \in RowIds /\ idRows[task.id].mac # "none"
      BY <1>2 DEF Writable, RowsUsed, IdentityTypes
    <2>2. new \in IdentityRows /\ new.mac # "none"
      <3>1. idRows[task.id] \in IdentityRows
        BY <2>1 DEF IdentityTypes
      <3>2. /\ task.mac \in Macs \union {"none"} /\ task.uuid \in Uuids \union {"none"}
            /\ task.how = "move" => task.mac # "none"
        BY DEF Tasks
      <3> QED BY <2>1, <3>1, <3>2 DEF IdentityRows
    <2>3. Written(task) = [idRows EXCEPT ![task.id] = new]
      BY <1>2, <2>1 DEF Written, IdentityTypes, IdentityRows
    <2> HIDE DEF new
    <2> QED BY <2>1, <2>2, <2>3 DEF IdentityTypes
  <1> QED BY <1>1, <1>2

LEMMA CommitKeeps ==
  ASSUME IdentityInv, NEW c \in BootHandlers, Commit(c) \/ CommitRefused(c)
  PROVE  IdentityInv'
  <1>1. /\ IdentityTypes /\ c \in Deciding /\ idTask[c] \in Tasks
        /\ IdleTask \in Tasks /\ IdleTask.how = "idle"
        /\ HasRoom(idTask[c])
    BY DEF IdentityInv, IdentityTypes, Commit, CommitRefused, Deciding, IdleTask, Tasks
  <1>2. /\ idTask' = [idTask EXCEPT ![c] = IdleTask] /\ idBoots' = idBoots
    BY DEF Commit, CommitRefused
  <1>3. /\ idTask' \in [BootHandlers -> Tasks] /\ idTask'[c] = IdleTask
        /\ \A d \in BootHandlers \ {c} : idTask'[d] = idTask[d]
    BY <1>1, <1>2 DEF IdentityTypes
  <1>4. Deciding' = Deciding \ {c}
    BY <1>1, <1>3 DEF Deciding
  \* Whoever still has something to commit was overlapped by this handler.
  <1>5. \A d \in Deciding' : ~idTask'[d].alone
    BY <1>1, <1>3, <1>4 DEF IdentityInv, Deciding
  <1>6. /\ idRows' \in [RowIds -> IdentityRows] /\ Unique(idRows')
        /\ \A r \in RowIds : idRows'[r].mac = "none" => idRows'[r] = NoRow
    <2>1. CASE Commit(c)
      <3>1. idRows' = Written(idTask[c]) /\ Writable(idTask[c])
        BY <2>1 DEF Commit
      <3>2. /\ idTask[c].how # "idle"
            /\ idTask[c].how \in {"insert", "move"} => idTask[c].mac # "none"
        BY <1>1 DEF Deciding, IdentityTypes
      <3> QED BY <1>1, <3>1, <3>2, WrittenTypes DEF Writable
    <2>2. CASE CommitRefused(c)
      BY <1>1, <2>2 DEF CommitRefused, IdentityInv, IdentityTypes
    <2> QED BY <2>1, <2>2
  <1>7. IdentityTypes'
    <2>1. \A d \in BootHandlers :
              idTask'[d].how \in {"insert", "move"} => idTask'[d].mac # "none"
      BY <1>1, <1>3 DEF IdentityTypes
    <2> QED BY <1>1, <1>2, <1>3, <1>6, <2>1 DEF IdentityTypes
  <1> QED BY <1>5, <1>6, <1>7 DEF IdentityInv

LEMMA IdentityKept == IdentityInv /\ [IdentityNext]_idVars => IdentityInv'
  <1> SUFFICES ASSUME IdentityInv, [IdentityNext]_idVars PROVE IdentityInv'
    OBVIOUS
  <1>0. IdentityTypes /\ Unique(idRows)
    BY DEF IdentityInv
  <1>1. ASSUME NEW c \in BootHandlers, Boot(c) PROVE IdentityInv'
    <2>1. PICK mac \in Macs, uuid \in Uuids \union {"none"} :
              \E task \in Decide(mac, uuid) : Begin(c, task)
      BY <1>1 DEF Boot
    <2>2. PICK task \in Decide(mac, uuid) : Begin(c, task)
      BY <2>1
    <2> QED BY <2>2, DecisionsAreRight, BeginKeeps
  <1>2. ASSUME NEW c \in BootHandlers, Register(c) PROVE IdentityInv'
    <2>1. PICK mac \in Macs : ByMac(mac) = {} /\ Begin(c, Insert(mac, "none"))
      BY <1>2 DEF Register
    <2>2. Insert(mac, "none") \in Decide(mac, "none")
      BY <2>1 DEF Decide, ByUuid
    <2> QED BY <2>1, <2>2, DecisionsAreRight, BeginKeeps
  <1>3. ASSUME NEW c \in BootHandlers, Commit(c) \/ CommitRefused(c) PROVE IdentityInv'
    BY <1>3, CommitKeeps
  <1>4. CASE DeleteMachine
    <2>1. PICK r \in RowIds : idRows' = [idRows EXCEPT ![r] = NoRow]
      BY <1>4 DEF DeleteMachine, RowsUsed
    <2>2. /\ idBoots' = idBoots
          /\ idTask' = [c \in BootHandlers |->
                           [idTask[c] EXCEPT !.alone = c \notin Deciding]]
      BY <1>4 DEF DeleteMachine
    <2>3. NoRow \in IdentityRows /\ NoRow.mac = "none" /\ NoRow.uuid = "none"
      BY DEF NoRow, IdentityRows
    <2>4. \A c \in BootHandlers :
              /\ idTask'[c] \in Tasks /\ idTask'[c].how = idTask[c].how
              /\ idTask'[c].mac = idTask[c].mac
              /\ idTask'[c].alone = (c \notin Deciding)
      BY <1>0, <2>2 DEF IdentityTypes, Tasks
    <2>5. \A c \in Deciding' : ~idTask'[c].alone
      BY <2>4 DEF Deciding
    <2>6. Unique(idRows')
      BY <1>0, <2>1, <2>3 DEF Unique, IdentityTypes
    <2>7. IdentityTypes'
      BY <1>0, <2>1, <2>2, <2>3, <2>4 DEF IdentityTypes
    <2> QED BY <2>5, <2>6, <2>7 DEF IdentityInv
  <1>5. CASE HourPasses
    <2>1. PICK r \in RowsUsed : idRows' = [idRows EXCEPT ![r].live = FALSE]
      BY <1>5 DEF HourPasses
    <2>2. /\ r \in RowIds /\ idRows[r].mac # "none"
          /\ UNCHANGED <<idTask, idBoots>>
      BY <1>0, <1>5 DEF RowsUsed, IdentityTypes, HourPasses
    <2>3. \A s \in RowIds :
              /\ idRows'[s] \in IdentityRows
              /\ idRows'[s].mac = idRows[s].mac /\ idRows'[s].uuid = idRows[s].uuid
              /\ ~idRows[s].live => ~idRows'[s].live
              /\ s # r => idRows'[s] = idRows[s]
      BY <1>0, <2>1, <2>2 DEF IdentityTypes, IdentityRows
    <2>4. IdentityTypes'
      BY <1>0, <2>1, <2>2, <2>3 DEF IdentityTypes
    <2>5. Unique(idRows')
      BY <1>0, <2>3 DEF Unique
    <2>6. RowsUsed' = RowsUsed
      <3>1. idRows'[r] # NoRow
        BY <2>2, <2>3 DEF NoRow
      <3> QED BY <2>1, <2>3, <3>1 DEF RowsUsed
    <2>7. \A c \in Deciding : DecidedRight(c) => DecidedRight(c)'
      BY <2>2, <2>3, <2>6 DEF DecidedRight, Right, ByMac, ByUuid, RowsUsed
    <2>8. Deciding' = Deciding
      BY <2>2 DEF Deciding
    <2> QED BY <2>2, <2>4, <2>5, <2>7, <2>8 DEF IdentityInv
  <1>6. CASE UNCHANGED idVars
    BY <1>6 DEF idVars, IdentityInv, IdentityTypes, Unique, Deciding, DecidedRight,
       Right, ByMac, ByUuid, RowsUsed
  <1> QED BY <1>1, <1>2, <1>3, <1>4, <1>5, <1>6 DEF IdentityNext

LEMMA IdentityInvariant == Spec => []IdentityInv
  BY PartStarts, PartSteps, IdentityStarts, IdentityKept, PTL DEF Spec

(***************************************************************************)
(* A boot request that nobody overlaps gets its script, and does not take  *)
(* the row of a host that is alive (touch_machine), for any number of      *)
(* rows, addresses, UUIDs and handlers.                                    *)
(***************************************************************************)
THEOREM LoneBootsAreServed == Spec => []LoneBootsFit
  <1>1. IdentityInv => LoneBootsFit
    <2> SUFFICES ASSUME IdentityInv, NEW c \in Deciding, idTask[c].alone,
                        HasRoom(idTask[c])
                 PROVE  /\ Writable(idTask[c])
                        /\ idTask[c].how = "move" => ~idRows[idTask[c].id].live
      BY DEF LoneBootsFit
    <2>1. Right(idTask[c])
      BY DEF IdentityInv, DecidedRight
    <2>2. idTask[c] \in Tasks /\ idTask[c].how # "idle"
      BY DEF IdentityInv, IdentityTypes, Deciding
    <2>3. Writable(idTask[c])
      BY <2>1, <2>2, RightFits DEF IdentityInv
    <2> QED BY <2>1, <2>3 DEF Right
  <1> QED BY <1>1, IdentityInvariant, PTL
-----------------------------------------------------------------------------
(* Seed files *)

MachineRows ==
    [row : 0..MaxBorn, state : {"idle", "staged", "deploying"},
     image : ImageIds \union {0}, open : BOOLEAN, inst : Instances \union {0},
     pinned : ImageIds \union {0}, text : Texts \union {NoText}]

SeedTasks ==
    [on : {"none", "machine", "image", "tree", "files"},
     id : SeededIds \union ImageIds \union {0}, row : MachineRows]

SeedTypes ==
    /\ seedRows \in [SeededIds -> MachineRows]
    /\ imageRows \in [ImageIds -> 0..MaxBorn]
    /\ seedFiles \in SeedFiles
    /\ seedTask \in [Savers -> SeedTasks]
    /\ seedBorn \in 0..MaxBorn
    /\ pinTrouble \subseteq SeededIds

On(c, kind, id) == seedTask[c].on = kind /\ seedTask[c].id = id

\* Requests on one machine or image follow each other, up to the commit.
OneEach ==
    \A c, d \in Savers, kind \in {"machine", "image"}, id \in SeededIds \union ImageIds :
        On(c, kind, id) /\ On(d, kind, id) => c = d

TaskFits(c) ==
    LET task == seedTask[c]
    IN  /\ task.on \in {"machine", "tree"} => task.id \in SeededIds
        /\ task.on \in {"image", "files"} => task.id \in ImageIds
        /\ task.on = "machine" => MachineLives(task.id)

\* A request is on a row that is there, and so is every open install.
TasksFit ==
    /\ \A c \in Savers : TaskFits(c)
    /\ \A m \in SeededIds : seedRows[m].open => MachineLives(m)

\* The snapshot that a row names is the text the row was staged with.
Answered(m, row, files) ==
    row.open =>
        /\ row.inst \in Instances
        /\ row.text = IF files.snap[m, row.inst] = NoText THEN Factory
                      ELSE files.snap[m, row.inst]

PinsFit ==
    \A m \in SeededIds \ pinTrouble :
        /\ ~Busy("machine", m) => Answered(m, seedRows[m], seedFiles)
        /\ \A c \in Savers :
               On(c, "machine", m) => Answered(m, seedTask[c].row, seedFiles)

Removing(kind, id) == \E c \in Savers : On(c, kind, id)

Excused == ownTrouble \union seedReused

\* A seed is of the row that has the id, or about to be removed.
OwnersFit ==
    /\ \A i \in ImageIds : seedFiles.image[i].from # "machine"
    /\ \A m \in SeededIds :
           <<"tree", m>> \notin Excused /\ seedFiles.own[m].from = "machine" =>
               \/ MachineLives(m) /\ seedFiles.own[m].row = seedRows[m].row
               \/ ~MachineLives(m) /\ Removing("tree", m)
    /\ \A i \in ImageIds :
           <<"files", i>> \notin Excused /\ seedFiles.image[i].from = "image" =>
               \/ ImageLives(i) /\ seedFiles.image[i].row = imageRows[i]
               \/ ~ImageLives(i) /\ Removing("files", i)

(***************************************************************************)
(* The inductive invariant.  What the handler on a machine is about to     *)
(* commit fits the files it has changed, and a seed of another row is      *)
(* about to be removed, or one of the removals that are excused.           *)
(***************************************************************************)
SeedInv == SeedTypes /\ OneEach /\ TasksFit /\ PinsFit /\ OwnersFit

LEMMA TextKinds ==
  /\ NoText.from = "none" /\ Factory.from = "factory" /\ Factory # NoText
  /\ Factory \in Texts
  /\ \A text \in Texts : text # NoText
  BY DEF NoText, Factory, Texts

LEMMA NoMachineTyped ==
  NoMachine \in MachineRows /\ ~NoMachine.open /\ NoMachine.row = 0
  BY SeedAssumption DEF NoMachine, MachineRows

LEMMA SeedStarts == SeedInit => SeedInv
  <1> SUFFICES ASSUME SeedInit PROVE SeedInv
    OBVIOUS
  <1>1. IdleSaver \in SeedTasks
    BY NoMachineTyped DEF IdleSaver, SeedTasks
  <1>2. SeedTypes
    BY <1>1, NoMachineTyped, SeedAssumption DEF SeedInit, SeedTypes, SeedFiles
  <1>3. OneEach /\ TasksFit
    BY NoMachineTyped DEF SeedInit, OneEach, TasksFit, TaskFits, On, IdleSaver
  <1>4. PinsFit
    BY NoMachineTyped DEF SeedInit, PinsFit, Answered, On, IdleSaver
  <1>5. OwnersFit
    BY TextKinds DEF SeedInit, OwnersFit
  <1> QED BY <1>2, <1>3, <1>4, <1>5 DEF SeedInv

(***************************************************************************)
(* A request on machine m changes files of m only, writes no seed of       *)
(* another row, and is to commit a row that fits the files.                *)
(***************************************************************************)
OfMachine(m, files) ==
    /\ files \in SeedFiles
    /\ files.image = seedFiles.image
    /\ \A n \in SeededIds \ {m} :
           /\ files.own[n] = seedFiles.own[n]
           /\ \A inst \in Instances : files.snap[n, inst] = seedFiles.snap[n, inst]
    /\ \/ files.own[m] = seedFiles.own[m]
       \/ files.own[m].from # "machine"
       \/ files.own[m].row = seedRows[m].row

LEMMA SeedBegins ==
  ASSUME SeedInv, NEW c \in Savers, NEW m \in SeededIds, NEW files, NEW row,
         Ready(c, m), BeginSeed(c, m, files, row),
         OfMachine(m, files), row \in MachineRows,
         m \notin pinTrouble => Answered(m, row, files)
  PROVE  SeedInv'
  <1> USE DEF SeedInv
  <1> DEFINE task == [on |-> "machine", id |-> m, row |-> row]
  <1>1. /\ seedFiles' = files /\ seedTask' = [seedTask EXCEPT ![c] = task]
        /\ UNCHANGED <<seedRows, imageRows, seedBorn, pinTrouble, ownTrouble,
                     seedReused>>
        /\ MachineLives(m) /\ seedTask[c] = IdleSaver
        /\ \A d \in Savers : ~On(d, "machine", m)
    BY DEF BeginSeed, Ready, Busy, On
  <1>2. /\ seedTask'[c] = task /\ \A d \in Savers : d # c => seedTask'[d] = seedTask[d]
        /\ task \in SeedTasks
    BY <1>1 DEF SeedTypes, SeedTasks
  <1>3. /\ On(c, "machine", m)' /\ seedTask'[c].row = row
        /\ \A kind, id : On(c, kind, id)' => kind = "machine" /\ id = m
        /\ \A kind, id : ~On(c, kind, id) \/ kind = "none"
    BY <1>1, <1>2 DEF On, IdleSaver
  <1>4. \A d \in Savers : \A kind, id : d # c => (On(d, kind, id)' <=> On(d, kind, id))
    BY <1>2 DEF On
  <1> HIDE DEF task
  <1>5. SeedTypes'
    BY <1>1, <1>2 DEF SeedTypes, OfMachine
  <1>6. OneEach'
    BY <1>1, <1>3, <1>4 DEF OneEach
  <1>7. TasksFit'
    BY <1>1, <1>2 DEF TasksFit, TaskFits, MachineLives, ImageLives, task
  <1>8. PinsFit'
    <2>1. Busy("machine", m)'
      BY <1>3 DEF Busy, On
    <2>2. ASSUME NEW n \in SeededIds \ {m}, NEW old, Answered(n, old, seedFiles)
          PROVE  Answered(n, old, files)
      BY <2>2 DEF Answered, OfMachine
    <2>3. ASSUME NEW n \in SeededIds \ {m} PROVE Busy("machine", n)' <=> Busy("machine", n)
      BY <1>3, <1>4 DEF Busy, On
    <2>4. ASSUME NEW n \in SeededIds \ pinTrouble, n # m, ~Busy("machine", n)'
          PROVE  Answered(n, seedRows[n], seedFiles)'
      <3>1. Answered(n, seedRows[n], seedFiles)
        BY <2>3, <2>4 DEF PinsFit
      <3>2. Answered(n, seedRows[n], files)
        BY <2>2, <2>4, <3>1
      <3> QED BY <1>1, <3>2 DEF Answered
    <2>5. ASSUME NEW n \in SeededIds \ pinTrouble, NEW d \in Savers,
                 On(d, "machine", n)'
          PROVE  Answered(n, seedTask[d].row, seedFiles)'
      <3>1. CASE d = c
        BY <1>1, <1>3, <2>5, <3>1 DEF Answered
      <3>2. CASE d # c
        <4>1. On(d, "machine", n) /\ n # m /\ seedTask'[d] = seedTask[d]
          BY <1>1, <1>2, <1>4, <2>5, <3>2
        <4>2. Answered(n, seedTask[d].row, seedFiles)
          BY <2>5, <4>1 DEF PinsFit
        <4>3. Answered(n, seedTask[d].row, files)
          BY <2>2, <4>1, <4>2
        <4> QED BY <1>1, <4>1, <4>3 DEF Answered
      <3> QED BY <3>1, <3>2
    <2> QED BY <1>1, <2>1, <2>4, <2>5 DEF PinsFit
  <1>9. OwnersFit'
    <2>1. \A kind, id : Removing(kind, id) => kind = "none" \/ Removing(kind, id)'
      BY <1>2, <1>3, <1>4 DEF Removing
    <2>2. \A i \in ImageIds : files.image[i] = seedFiles.image[i]
      BY DEF OfMachine
    <2>3. ASSUME NEW n \in SeededIds, <<"tree", n>> \notin Excused,
                 files.own[n].from = "machine"
          PROVE  \/ MachineLives(n) /\ files.own[n].row = seedRows[n].row
                 \/ ~MachineLives(n)' /\ Removing("tree", n)'
      <3>1. CASE files.own[n] = seedFiles.own[n]
        BY <1>1, <2>1, <2>3, <3>1 DEF OwnersFit, MachineLives
      <3>2. CASE files.own[n] # seedFiles.own[n]
        <4>1. n = m
          BY <3>2 DEF OfMachine
        <4> QED BY <1>1, <2>3, <3>2, <4>1 DEF OfMachine
      <3> QED BY <3>1, <3>2
    <2> QED BY <1>1, <2>1, <2>2, <2>3 DEF OwnersFit, Excused, MachineLives, ImageLives
  <1> QED BY <1>5, <1>6, <1>7, <1>8, <1>9

\* What the helpers of seed_store leave of the files
AnyText == Texts \union {NoText}

LEMMA OwnWritten ==
  ASSUME NEW files \in SeedFiles, NEW m \in SeededIds, NEW text \in AnyText
  PROVE  LET new == WithOwn(m, text, files)
         IN  /\ new \in SeedFiles /\ new.image = files.image /\ new.snap = files.snap
             /\ new.own[m] = text
             /\ \A n \in SeededIds : n # m => new.own[n] = files.own[n]
  BY DEF WithOwn, SeedFiles, AnyText

PrunedTo(m, keep, files, new) ==
    /\ new \in SeedFiles /\ new.image = files.image /\ new.own = files.own
    /\ \A n \in SeededIds, inst \in Instances :
           new.snap[n, inst] = IF n = m /\ inst # keep THEN NoText
                               ELSE files.snap[n, inst]

LEMMA SnapshotsPruned ==
  ASSUME NEW files \in SeedFiles, NEW m \in SeededIds, NEW keep
  PROVE  PrunedTo(m, keep, files, Prune(m, keep, files))
  <1> DEFINE left == [k \in DOMAIN files.snap |->
                         IF k[1] = m /\ k[2] # keep THEN NoText ELSE files.snap[k]]
             new == Prune(m, keep, files)
  <1>1. DOMAIN files.snap = SeededIds \X Instances
    BY DEF SeedFiles
  <1>2. left \in [SeededIds \X Instances -> AnyText]
    BY <1>1 DEF SeedFiles, AnyText
  <1>3. \A n \in SeededIds, inst \in Instances :
            left[n, inst] = IF n = m /\ inst # keep THEN NoText ELSE files.snap[n, inst]
    BY <1>1
  <1>4. new = [files EXCEPT !.snap = left]
    BY DEF Prune
  <1> HIDE DEF left
  <1>5. /\ new \in SeedFiles /\ new.image = files.image /\ new.own = files.own
        /\ new.snap = left
    BY <1>2, <1>4 DEF SeedFiles, AnyText
  <1> HIDE DEF new
  <1>6. PrunedTo(m, keep, files, new)
    BY <1>3, <1>5 DEF PrunedTo
  <1> QED BY <1>6 DEF new

LEMMA Snapped ==
  ASSUME NEW files \in SeedFiles, NEW m \in SeededIds, NEW inst \in Instances,
         NEW text \in Texts
  PROVE  LET new == Snapshot(m, inst, text, files)
         IN  /\ new \in SeedFiles /\ new.image = files.image /\ new.own = files.own
             /\ new.snap[m, inst] = text
             /\ \A n \in SeededIds \ {m} : \A j \in Instances :
                    new.snap[n, j] = files.snap[n, j]
  <1> DEFINE wider == [files EXCEPT !.snap[<<m, inst>>] = text]
  <1>1. /\ wider \in SeedFiles /\ wider.image = files.image /\ wider.own = files.own
        /\ wider.snap[m, inst] = text
        /\ \A n \in SeededIds \ {m} : \A j \in Instances :
               wider.snap[n, j] = files.snap[n, j]
    BY DEF SeedFiles
  <1>2. Snapshot(m, inst, text, files) = Prune(m, inst, wider)
    BY DEF Snapshot
  <1> DEFINE new == Snapshot(m, inst, text, files)
  <1> HIDE DEF wider
  <1>3. PrunedTo(m, inst, wider, new)
    BY <1>1, <1>2, SnapshotsPruned
  <1> HIDE DEF new
  <1> QED
    <2>1. new.snap[m, inst] = text
      BY <1>1, <1>3 DEF PrunedTo
    <2>2. \A n \in SeededIds \ {m} : \A j \in Instances :
              new.snap[n, j] = files.snap[n, j]
      BY <1>1, <1>3 DEF PrunedTo
    <2> QED BY <1>1, <1>3, <2>1, <2>2 DEF new, PrunedTo

LEMMA DefaultIs ==
  ASSUME SeedInv, NEW files \in SeedFiles, files.image = seedFiles.image,
         NEW i \in ImageIds \union {0}
  PROVE  DefaultText(i, files) \in Texts /\ DefaultText(i, files).from # "machine"
  <1>1. CASE ImageLives(i) /\ files.image[i] # NoText
    BY <1>1, SeedAssumption
    DEF DefaultText, ImageLives, SeedInv, OwnersFit, SeedFiles
  <1>2. CASE ~(ImageLives(i) /\ files.image[i] # NoText)
    BY <1>2, TextKinds DEF DefaultText
  <1> QED BY <1>1, <1>2

LEMMA SelectIs ==
  ASSUME SeedInv, NEW files \in SeedFiles, files.image = seedFiles.image,
         NEW i \in ImageIds \union {0}, NEW m \in SeededIds
  PROVE  SelectText(m, i, files) \in Texts
  BY DefaultIs DEF SelectText, SeedFiles

LEMMA RowOf ==
  ASSUME SeedInv, NEW m \in SeededIds
  PROVE  /\ seedRows[m] \in MachineRows
         /\ MachineLives(m) => seedRows[m].row \in 1..MaxBorn
         /\ seedFiles \in SeedFiles
  BY SeedAssumption DEF SeedInv, SeedTypes, MachineRows, MachineLives

LEMMA PostedIs ==
  ASSUME SeedInv, NEW m \in SeededIds, MachineLives(m),
         NEW text \in Posted("machine", seedRows[m].row)
  PROVE  text \in Texts /\ text.row = seedRows[m].row
  BY RowOf DEF Posted, Texts

LEMMA OwnOfMachine ==
  ASSUME NEW m \in SeededIds, NEW files, OfMachine(m, files), NEW text \in AnyText,
         \/ text.from # "machine" \/ text.row = seedRows[m].row
         \/ text = seedFiles.own[m]
  PROVE  /\ OfMachine(m, WithOwn(m, text, files))
         /\ WithOwn(m, text, files).snap = files.snap
  <1> DEFINE new == WithOwn(m, text, files)
  <1>1. /\ new \in SeedFiles /\ new.image = files.image /\ new.snap = files.snap
        /\ new.own[m] = text
        /\ \A n \in SeededIds : n # m => new.own[n] = files.own[n]
    BY OwnWritten DEF OfMachine
  <1> HIDE DEF new
  <1>2. OfMachine(m, new)
    BY <1>1 DEF OfMachine
  <1> QED BY <1>1, <1>2 DEF new

LEMMA CopyOfMachine ==
  ASSUME SeedInv, NEW m \in SeededIds, NEW i \in ImageIds \union {0}, NEW files,
         OfMachine(m, files), NEW overwrite \in BOOLEAN
  PROVE  /\ OfMachine(m, CopyDefault(m, i, files, overwrite))
         /\ CopyDefault(m, i, files, overwrite).snap = files.snap
  <1>1. files \in SeedFiles /\ files.image = seedFiles.image
    BY DEF OfMachine
  <1>2. DefaultText(i, files) \in AnyText /\ DefaultText(i, files).from # "machine"
    BY <1>1, DefaultIs DEF AnyText
  <1> QED BY <1>2, OwnOfMachine DEF CopyDefault

LEMMA FilesOfMachine ==
  ASSUME SeedInv, NEW m \in SeededIds
  PROVE  OfMachine(m, seedFiles)
  BY DEF SeedInv, SeedTypes, OfMachine

\* An install is staged: its snapshot is the text it is answered with.
LEMMA StageKeeps ==
  ASSUME SeedInv, NEW c \in Savers, NEW m \in SeededIds, NEW i \in ImageIds,
         NEW state \in {"staged", "deploying"}, NEW files,
         OfMachine(m, files), Ready(c, m), Stage(c, m, i, state, files)
  PROVE  SeedInv'
  <1> DEFINE text == SelectText(m, i, files)
  <1>1. files \in SeedFiles /\ files.image = seedFiles.image
    BY DEF OfMachine
  <1>2. text \in Texts
    BY <1>1, SelectIs
  <1> HIDE DEF text
  <1>3. PICK inst \in Fresh :
            BeginSeed(c, m, Snapshot(m, inst, text, files),
                [seedRows[m] EXCEPT !.state = state, !.image = i, !.open = TRUE,
                    !.inst = inst, !.pinned = i, !.text = text])
    BY DEF Stage, text
  <1>4. inst \in Instances
    BY DEF Fresh
  <1> DEFINE row == [seedRows[m] EXCEPT !.state = state, !.image = i, !.open = TRUE,
                         !.inst = inst, !.pinned = i, !.text = text]
             new == Snapshot(m, inst, text, files)
  <1>5. /\ row \in MachineRows /\ row.inst = inst /\ row.text = text
    BY <1>2, <1>4, RowOf DEF MachineRows
  <1>7. BeginSeed(c, m, new, row)
    BY <1>3
  <1>9. /\ new \in SeedFiles /\ new.image = files.image /\ new.own = files.own
        /\ new.snap[m, inst] = text
        /\ \A n \in SeededIds \ {m} : \A j \in Instances :
               new.snap[n, j] = files.snap[n, j]
    BY <1>1, <1>2, <1>4, Snapped
  <1> HIDE DEF row, new
  <1>6. OfMachine(m, new) /\ new.snap[m, inst] = text
    BY <1>9 DEF OfMachine
  <1>8. Answered(m, row, new)
    BY <1>2, <1>4, <1>5, <1>6, TextKinds DEF Answered
  <1> QED BY <1>5, <1>6, <1>7, <1>8, SeedBegins

\* Another request on a machine leaves the snapshot of its row alone.
LEMMA OtherKeeps ==
  ASSUME SeedInv, NEW c \in Savers, NEW m \in SeededIds, NEW files, NEW row,
         OfMachine(m, files), Ready(c, m), BeginSeed(c, m, files, row),
         row \in MachineRows,
         row.open => /\ seedRows[m].open
                     /\ row.inst = seedRows[m].inst /\ row.text = seedRows[m].text
                     /\ files.snap = seedFiles.snap
  PROVE  SeedInv'
  <1>1. ASSUME m \notin pinTrouble PROVE Answered(m, row, files)
    <2>1. Answered(m, seedRows[m], seedFiles)
      BY <1>1 DEF Ready, SeedInv, PinsFit
    <2> QED BY <2>1 DEF Answered
  <1> QED BY <1>1, SeedBegins

LEMMA MachineKeeps ==
  ASSUME SeedInv, NEW c \in Savers, NEW m \in SeededIds,
         \/ Deploy(c, m) \/ StageReimage(c, m) \/ Save(c, m)
         \/ CopyDefaultSeed(c, m) \/ MarkDeployed(c, m) \/ LeaveInstall(c, m)
         \/ Delete(c, m)
  PROVE  SeedInv'
  <1>0. /\ MachineLives(m) /\ Ready(c, m) /\ seedRows[m] \in MachineRows
        /\ seedFiles \in SeedFiles /\ OfMachine(m, seedFiles)
    BY RowOf, FilesOfMachine
    DEF Deploy, StageReimage, Save, CopyDefaultSeed, MarkDeployed, LeaveInstall,
        Delete, Ready
  <1>1. ASSUME NEW text \in Posted("machine", seedRows[m].row)
                                \union {NoText, seedFiles.own[m]}
        PROVE  /\ OfMachine(m, ApplyGuestFields(m, text))
               /\ ApplyGuestFields(m, text).snap = seedFiles.snap
    <2>1. /\ text \in AnyText
          /\ \/ text.from # "machine" \/ text.row = seedRows[m].row
             \/ text = seedFiles.own[m]
      BY <1>0, <1>1, PostedIs, TextKinds DEF AnyText, SeedFiles
    <2> QED BY <1>0, <2>1, OwnOfMachine DEF ApplyGuestFields
  <1>2. ASSUME Deploy(c, m) PROVE SeedInv'
    <2>1. PICK i \in ImageIds,
               text \in Posted("machine", seedRows[m].row) \union {seedFiles.own[m]} :
                   Stage(c, m, i, "deploying",
                         CopyDefault(m, i, ApplyGuestFields(m, text), FALSE))
      BY <1>2 DEF Deploy
    <2>2. OfMachine(m, CopyDefault(m, i, ApplyGuestFields(m, text), FALSE))
      BY <1>1, CopyOfMachine
    <2> QED BY <1>0, <2>1, <2>2, StageKeeps
  <1>3. ASSUME StageReimage(c, m) PROVE SeedInv'
    <2>1. seedRows[m].image \in ImageIds
      BY <1>0, <1>3 DEF StageReimage, ImageLives, MachineRows
    <2>2. OfMachine(m, CopyDefault(m, seedRows[m].image, seedFiles, FALSE))
      BY <1>0, <2>1, CopyOfMachine
    <2> QED BY <1>0, <1>3, <2>1, <2>2, StageKeeps DEF StageReimage
  <1>4. ASSUME Save(c, m) PROVE SeedInv'
    <2>1. PICK i \in ImageIds,
               text \in Posted("machine", seedRows[m].row) \union {NoText} :
                   IF seedRows[m].state = "staged"
                   THEN Stage(c, m, i, "staged", ApplyGuestFields(m, text))
                   ELSE BeginSeed(c, m, ApplyGuestFields(m, text),
                                  [seedRows[m] EXCEPT !.image = i])
      BY <1>4 DEF Save
    <2>2. CASE seedRows[m].state = "staged"
      BY <1>0, <1>1, <2>1, <2>2, StageKeeps
    <2>3. CASE seedRows[m].state # "staged"
      <3> DEFINE row == [seedRows[m] EXCEPT !.image = i]
      <3>1. /\ row \in MachineRows /\ row.open = seedRows[m].open
            /\ row.inst = seedRows[m].inst /\ row.text = seedRows[m].text
        BY <1>0 DEF MachineRows
      <3>2. BeginSeed(c, m, ApplyGuestFields(m, text), row)
        BY <2>1, <2>3
      <3> HIDE DEF row
      <3> QED BY <1>0, <1>1, <3>1, <3>2, OtherKeeps
    <2> QED BY <2>2, <2>3
  <1>5. ASSUME CopyDefaultSeed(c, m) PROVE SeedInv'
    <2>1. PICK i \in ImageIds :
              BeginSeed(c, m, CopyDefault(m, i, seedFiles, TRUE),
                        [seedRows[m] EXCEPT !.image = i])
      BY <1>5 DEF CopyDefaultSeed
    <2> DEFINE row == [seedRows[m] EXCEPT !.image = i]
               files == CopyDefault(m, i, seedFiles, TRUE)
    <2>2. /\ row \in MachineRows /\ row.open = seedRows[m].open
          /\ row.inst = seedRows[m].inst /\ row.text = seedRows[m].text
      BY <1>0 DEF MachineRows
    <2>3. OfMachine(m, files) /\ files.snap = seedFiles.snap
      <3>1. TRUE \in BOOLEAN /\ i \in ImageIds \union {0}
        OBVIOUS
      <3> QED BY <1>0, <3>1, CopyOfMachine
    <2>4. BeginSeed(c, m, files, row)
      BY <2>1
    <2> HIDE DEF row, files
    <2> QED BY <1>0, <2>2, <2>3, <2>4, OtherKeeps
  <1>6. ASSUME MarkDeployed(c, m) PROVE SeedInv'
    <2> DEFINE row == [seedRows[m] EXCEPT !.state = "idle", !.open = FALSE]
    <2>1. row \in MachineRows /\ ~row.open
      BY <1>0 DEF MachineRows
    <2> DEFINE new == Prune(m, 0, seedFiles)
    <2>3. BeginSeed(c, m, new, row)
      BY <1>6 DEF MarkDeployed
    <2>4. PrunedTo(m, 0, seedFiles, new)
      BY <1>0, SnapshotsPruned
    <2> HIDE DEF row, new
    <2>2. OfMachine(m, new)
      BY <2>4 DEF OfMachine, PrunedTo
    <2> QED BY <1>0, <2>1, <2>2, <2>3, OtherKeeps
  <1>7. ASSUME LeaveInstall(c, m) PROVE SeedInv'
    <2>1. PICK open \in {FALSE, seedRows[m].open} :
              BeginSeed(c, m, seedFiles,
                        [seedRows[m] EXCEPT !.state = "idle", !.open = open])
      BY <1>7 DEF LeaveInstall
    <2> DEFINE row == [seedRows[m] EXCEPT !.state = "idle", !.open = open]
    <2>2. /\ row \in MachineRows /\ (row.open => seedRows[m].open)
          /\ row.inst = seedRows[m].inst /\ row.text = seedRows[m].text
      BY <1>0 DEF MachineRows
    <2>3. BeginSeed(c, m, seedFiles, row)
      BY <2>1
    <2> HIDE DEF row
    <2> QED BY <1>0, <2>2, <2>3, OtherKeeps
  <1>8. ASSUME Delete(c, m) PROVE SeedInv'
    <2>1. OfMachine(m, DropSnapshot(m, seedRows[m], seedFiles))
      <3> DEFINE left == [k \in DOMAIN seedFiles.snap |->
                             IF k = <<m, seedRows[m].inst>> THEN NoText
                             ELSE seedFiles.snap[k]]
                 new == DropSnapshot(m, seedRows[m], seedFiles)
      <3>1. DOMAIN seedFiles.snap = SeededIds \X Instances
        BY <1>0 DEF SeedFiles
      <3>2. left \in [SeededIds \X Instances -> AnyText]
        BY <1>0, <3>1 DEF SeedFiles, AnyText
      <3>3. \A n \in SeededIds \ {m}, j \in Instances :
                left[n, j] = seedFiles.snap[n, j]
        BY <3>1
      <3>4. new = [seedFiles EXCEPT !.snap = left]
        BY DEF DropSnapshot
      <3> HIDE DEF left
      <3>5. /\ new \in SeedFiles /\ new.image = seedFiles.image
            /\ new.own = seedFiles.own /\ new.snap = left
        BY <1>0, <3>2, <3>4 DEF SeedFiles, AnyText
      <3> QED BY <3>3, <3>5 DEF OfMachine
    <2> QED BY <1>0, <1>8, <2>1, NoMachineTyped, OtherKeeps DEF Delete
  <1> QED BY <1>2, <1>3, <1>4, <1>5, <1>6, <1>7, <1>8

\* A request that changes files only, on pages whose rows exist
LEMMA FilesKeep ==
  ASSUME SeedInv, UNCHANGED <<seedRows, imageRows, seedTask, seedBorn, pinTrouble, ownTrouble,
                     seedReused>>,
         seedFiles' \in SeedFiles, seedFiles'.snap = seedFiles.snap,
         \A m \in SeededIds :
             \/ seedFiles'.own[m] = seedFiles.own[m]
             \/ seedFiles'.own[m].from # "machine"
             \/ MachineLives(m) /\ seedFiles'.own[m].row = seedRows[m].row,
         \A i \in ImageIds :
             \/ seedFiles'.image[i] = seedFiles.image[i]
             \/ /\ seedFiles'.image[i].from # "machine"
                /\ seedFiles'.image[i].from = "image" =>
                       ImageLives(i) /\ seedFiles'.image[i].row = imageRows[i]
  PROVE  SeedInv'
  <1>1. SeedTypes'
    BY DEF SeedInv, SeedTypes
  <1>2. OneEach' /\ TasksFit'
    BY DEF SeedInv, OneEach, TasksFit, TaskFits, On, MachineLives, ImageLives
  <1>3. PinsFit'
    <2>1. \A m \in SeededIds : \A row :
              Answered(m, row, seedFiles) => Answered(m, row, seedFiles')
      BY DEF Answered
    <2>2. /\ \A m : Busy("machine", m)' <=> Busy("machine", m)
          /\ \A d, kind, id : On(d, kind, id)' <=> On(d, kind, id)
      BY DEF Busy, On
    <2>3. ASSUME NEW m \in SeededIds \ pinTrouble, ~Busy("machine", m)'
          PROVE  Answered(m, seedRows[m], seedFiles)'
      <3>1. Answered(m, seedRows[m], seedFiles')
        BY <2>1, <2>2, <2>3 DEF SeedInv, PinsFit
      <3> QED BY <3>1 DEF Answered
    <2>4. ASSUME NEW m \in SeededIds \ pinTrouble, NEW d \in Savers,
                 On(d, "machine", m)'
          PROVE  Answered(m, seedTask[d].row, seedFiles)'
      <3>1. Answered(m, seedTask[d].row, seedFiles')
        BY <2>1, <2>2, <2>4 DEF SeedInv, PinsFit
      <3> QED BY <3>1 DEF Answered
    <2> QED BY <2>3, <2>4 DEF PinsFit
  <1>4. OwnersFit'
    <2>1. \A kind, id : Removing(kind, id)' <=> Removing(kind, id)
      BY DEF Removing, On
    <2> QED BY <2>1 DEF SeedInv, OwnersFit, Excused, MachineLives, ImageLives
  <1> QED BY <1>1, <1>2, <1>3, <1>4 DEF SeedInv

LEMMA RefusedKeeps ==
  ASSUME SeedInv, NEW m \in SeededIds, RefusedLate(m)
  PROVE  SeedInv'
  <1>1. PICK text \in Posted("machine", seedRows[m].row)
                \union {x \in {NoText} : seedRows[m].state = "staged"} :
            seedFiles' = WithOwn(m, text, seedFiles)
    BY DEF RefusedLate, ApplyGuestFields
  <1>2. MachineLives(m)
        /\ UNCHANGED <<seedRows, imageRows, seedTask, seedBorn, pinTrouble, ownTrouble,
                     seedReused>>
    BY DEF RefusedLate
  <1>3. /\ text \in AnyText
        /\ text.from # "machine" \/ text.row = seedRows[m].row
    BY <1>1, <1>2, PostedIs, TextKinds DEF AnyText
  <1>4. /\ seedFiles' \in SeedFiles /\ seedFiles'.image = seedFiles.image
        /\ seedFiles'.snap = seedFiles.snap /\ seedFiles'.own[m] = text
        /\ \A n \in SeededIds : n # m => seedFiles'.own[n] = seedFiles.own[n]
    BY <1>1, <1>3, RowOf, OwnWritten
  <1> QED BY <1>2, <1>3, <1>4, FilesKeep

LEMMA ImageWritten ==
  ASSUME NEW files \in SeedFiles, NEW i \in ImageIds, NEW text \in AnyText
  PROVE  LET new == [files EXCEPT !.image[i] = text]
         IN  /\ new \in SeedFiles /\ new.own = files.own /\ new.snap = files.snap
             /\ new.image[i] = text
             /\ \A j \in ImageIds : j # i => new.image[j] = files.image[j]
  BY DEF SeedFiles, AnyText

LEMMA ImageSeedKeeps ==
  ASSUME SeedInv, NEW i \in ImageIds, SaveImage(i) \/ ResetImageSeed(i)
  PROVE  SeedInv'
  <1>1. PICK text \in Posted("image", imageRows[i]) \union {Factory} :
            seedFiles' = WithImageSeed(i, text)
    BY DEF SaveImage, ResetImageSeed, WriteImageSeed
  <1>2. ImageLives(i)
        /\ UNCHANGED <<seedRows, imageRows, seedTask, seedBorn, pinTrouble, ownTrouble,
                     seedReused>>
    BY DEF SaveImage, ResetImageSeed, WriteImageSeed
  <1>3. /\ text \in AnyText /\ text.from # "machine"
        /\ text.from = "image" => text.row = imageRows[i]
    <2>1. CASE text = Factory
      BY <2>1, TextKinds DEF AnyText
    <2>2. CASE text \in Posted("image", imageRows[i])
      <3>1. imageRows[i] \in 1..MaxBorn
        BY <1>2, SeedAssumption DEF SeedInv, SeedTypes, ImageLives
      <3> QED BY <2>2, <3>1 DEF Posted, AnyText, Texts
    <2> QED BY <1>1, <2>1, <2>2
  <1>4. /\ seedFiles' \in SeedFiles /\ seedFiles'.own = seedFiles.own
        /\ seedFiles'.snap = seedFiles.snap /\ seedFiles'.image[i] = text
        /\ \A j \in ImageIds : j # i => seedFiles'.image[j] = seedFiles.image[j]
    <2>1. seedFiles \in SeedFiles
      BY DEF SeedInv, SeedTypes
    <2> QED BY <1>1, <1>3, <2>1, ImageWritten DEF WithImageSeed
  <1> QED BY <1>2, <1>3, <1>4, FilesKeep

LEMMA IdleTyped == IdleSaver \in SeedTasks
  BY NoMachineTyped DEF IdleSaver, SeedTasks

LEMMA DeleteImageKeeps ==
  ASSUME SeedInv, NEW c \in Savers, NEW i \in ImageIds, DeleteImage(c, i)
  PROVE  SeedInv'
  <1> DEFINE task == [on |-> "image", id |-> i, row |-> NoMachine]
  <1>1. /\ seedTask' = [seedTask EXCEPT ![c] = task] /\ seedTask[c] = IdleSaver
        /\ ~Busy("image", i)
        /\ UNCHANGED <<seedRows, imageRows, seedFiles, seedBorn, pinTrouble, ownTrouble,
                     seedReused>>
    BY DEF DeleteImage
  <1>2. task \in SeedTasks /\ task.on = "image" /\ task.id = i
    BY NoMachineTyped DEF SeedTasks
  <1> HIDE DEF task
  <1>3. /\ seedTask'[c] = task
        /\ \A d \in Savers : d # c => seedTask'[d] = seedTask[d]
        /\ seedTask' \in [Savers -> SeedTasks]
        /\ \A kind, id : On(c, kind, id)' <=> task.on = kind /\ task.id = id
        /\ \A d \in Savers : \A kind, id : d # c => (On(d, kind, id)' <=> On(d, kind, id))
    BY <1>1, <1>2 DEF SeedInv, SeedTypes, On
  <1>4. \A d \in Savers : ~On(d, "image", i)
    BY <1>1 DEF Busy, On
  <1>5. \A kind : \A id : kind # "none" => ~On(c, kind, id)
    BY <1>1 DEF On, IdleSaver
  <1>6. SeedTypes'
    BY <1>1, <1>3 DEF SeedInv, SeedTypes
  <1>7. OneEach'
    BY <1>2, <1>3, <1>4 DEF SeedInv, OneEach
  <1>8. TasksFit'
    BY <1>1, <1>2, <1>3 DEF SeedInv, TasksFit, TaskFits, MachineLives, ImageLives
  <1>9. PinsFit'
    <2>1. \A m : Busy("machine", m)' <=> Busy("machine", m)
      BY <1>2, <1>3, <1>5 DEF Busy, On
    <2>3. ASSUME NEW m \in SeededIds \ pinTrouble, ~Busy("machine", m)'
          PROVE  Answered(m, seedRows[m], seedFiles)'
      <3>1. Answered(m, seedRows[m], seedFiles)
        BY <2>1, <2>3 DEF SeedInv, PinsFit
      <3> QED BY <1>1, <3>1 DEF Answered
    <2>4. ASSUME NEW m \in SeededIds \ pinTrouble, NEW d \in Savers,
                 On(d, "machine", m)'
          PROVE  Answered(m, seedTask[d].row, seedFiles)'
      <3>1. d # c /\ On(d, "machine", m) /\ seedTask'[d] = seedTask[d]
        BY <1>2, <1>3, <2>4
      <3>2. Answered(m, seedTask[d].row, seedFiles)
        BY <2>4, <3>1 DEF SeedInv, PinsFit
      <3> QED BY <1>1, <3>1, <3>2 DEF Answered
    <2> QED BY <1>1, <2>3, <2>4 DEF PinsFit
  <1>10. OwnersFit'
    <2>1. \A kind \in {"tree", "files"} : \A id : Removing(kind, id) => Removing(kind, id)'
      BY <1>3, <1>5 DEF Removing
    <2> QED BY <1>1, <2>1 DEF SeedInv, OwnersFit, Excused, MachineLives, ImageLives
  <1> QED BY <1>6, <1>7, <1>8, <1>9, <1>10 DEF SeedInv

\* A machine's row is written back, or deleted and its files left to remove.
LEMMA MachineCommitKeeps ==
  ASSUME SeedInv, NEW c \in Savers, CommitSeed(c)
  PROVE  SeedInv'
  <1>0. PICK m \in SeededIds : m = seedTask[c].id
    BY DEF SeedInv, TasksFit, TaskFits, CommitSeed
  <1> DEFINE row == seedTask[c].row
             gone == row = NoMachine
             task == IF gone THEN [seedTask[c] EXCEPT !.on = "tree"] ELSE IdleSaver
             new == IF gone THEN row ELSE [row EXCEPT !.row = seedRows[m].row]
  <1>1. /\ On(c, "machine", m) /\ MachineLives(m)
        /\ seedRows' = [seedRows EXCEPT ![m] = new]
        /\ UNCHANGED <<imageRows, seedFiles, seedBorn, pinTrouble, ownTrouble,
                     seedReused>>
    BY <1>0 DEF CommitSeed, CommitMachine, On
  <1>2. seedTask' = [seedTask EXCEPT ![c] = task]
    BY <1>0 DEF CommitSeed, CommitMachine, Finish
  <1>3. m \in SeededIds /\ seedTask[c] \in SeedTasks /\ row \in MachineRows
        /\ seedRows[m] \in MachineRows
    BY <1>1 DEF SeedInv, SeedTypes, TasksFit, TaskFits, On, SeedTasks
  <1>4. /\ new \in MachineRows /\ new.open = row.open /\ new.inst = row.inst
        /\ new.text = row.text
        /\ gone => new = NoMachine
        /\ ~gone => new.row = seedRows[m].row
    BY <1>3 DEF MachineRows
  <1>5. /\ task \in SeedTasks
        /\ gone => task.on = "tree" /\ task.id = m
        /\ ~gone => task.on = "none"
    BY <1>1, <1>3, IdleTyped DEF SeedTasks, IdleSaver, On
  <1> HIDE DEF new, task
  <1>6. /\ seedRows'[m] = new /\ seedRows' \in [SeededIds -> MachineRows]
        /\ \A n \in SeededIds : n # m => seedRows'[n] = seedRows[n]
    BY <1>1, <1>3, <1>4 DEF SeedInv, SeedTypes
  <1>7. /\ seedTask'[c] = task
        /\ \A d \in Savers : d # c => seedTask'[d] = seedTask[d]
        /\ seedTask' \in [Savers -> SeedTasks]
        /\ \A kind, id : On(c, kind, id)' <=> task.on = kind /\ task.id = id
        /\ \A d \in Savers : \A kind, id : d # c => (On(d, kind, id)' <=> On(d, kind, id))
    BY <1>2, <1>5 DEF SeedInv, SeedTypes, On
  <1>8. \A d \in Savers : On(d, "machine", m) => d = c
    BY <1>1, <1>3 DEF SeedInv, OneEach
  <1>9. \A kind, id : On(c, kind, id) => kind = "machine" /\ id = m
    BY <1>1 DEF On
  <1>10. \A d \in Savers, kind \in {"machine", "image"} : \A id :
             On(d, kind, id)' => On(d, kind, id)
    BY <1>1, <1>5, <1>7
  <1>11. SeedTypes'
    BY <1>1, <1>6, <1>7 DEF SeedInv, SeedTypes
  <1>12. OneEach'
    BY <1>10 DEF SeedInv, OneEach
  <1>13. TasksFit'
    <2>1. ASSUME NEW d \in Savers, d # c
          PROVE  /\ seedTask'[d] = seedTask[d]
                 /\ seedTask[d].on = "machine" =>
                        /\ seedTask[d].id # m /\ seedTask[d].id \in SeededIds
                        /\ MachineLives(seedTask[d].id)
      BY <1>7, <1>8, <2>1 DEF On, SeedInv, TasksFit, TaskFits
    <2>2. ASSUME NEW n \in SeededIds, n # m
          PROVE  /\ MachineLives(n)' <=> MachineLives(n)
                 /\ seedRows'[n].open <=> seedRows[n].open
      BY <1>6, <2>2 DEF MachineLives
    <2>3. seedRows'[m].open => MachineLives(m)'
      BY <1>1, <1>4, <1>6, NoMachineTyped DEF MachineLives
    <2>4. ASSUME NEW d \in Savers PROVE TaskFits(d)'
      <3>1. CASE d = c
        BY <1>3, <1>5, <1>7, <3>1 DEF TaskFits
      <3>2. CASE d # c
        BY <2>1, <2>2, <3>2 DEF SeedInv, TasksFit, TaskFits
      <3> QED BY <3>1, <3>2
    <2>5. \A n \in SeededIds : seedRows'[n].open => MachineLives(n)'
      BY <2>2, <2>3 DEF SeedInv, TasksFit
    <2> QED BY <2>4, <2>5 DEF TasksFit
  <1>14. PinsFit'
    <2>1. ASSUME NEW n \in SeededIds \ pinTrouble, NEW d \in Savers,
                 On(d, "machine", n)'
          PROVE  Answered(n, seedTask[d].row, seedFiles)'
      <3>1. d # c
        BY <1>5, <1>7, <2>1
      <3>2. On(d, "machine", n) /\ seedTask'[d] = seedTask[d]
        BY <1>7, <2>1, <3>1
      <3>3. Answered(n, seedTask[d].row, seedFiles)
        BY <2>1, <3>2 DEF SeedInv, PinsFit
      <3> QED BY <1>1, <3>2, <3>3 DEF Answered
    <2>2. ASSUME NEW n \in SeededIds \ pinTrouble, ~Busy("machine", n)', n # m
          PROVE  Answered(n, seedRows[n], seedFiles)'
      <3>1. \A d \in Savers : On(d, "machine", n) => On(d, "machine", n)'
        BY <1>7, <1>9, <2>2
      <3>2. ~Busy("machine", n)
        BY <2>2, <3>1 DEF Busy, On
      <3>3. Answered(n, seedRows[n], seedFiles)
        BY <2>2, <3>2 DEF SeedInv, PinsFit
      <3> QED BY <1>1, <1>6, <2>2, <3>3 DEF Answered
    <2>3. ASSUME m \notin pinTrouble PROVE Answered(m, seedRows[m], seedFiles)'
      <3>1. Answered(m, row, seedFiles)
        BY <1>1, <1>3, <2>3 DEF SeedInv, PinsFit
      <3> QED BY <1>1, <1>4, <1>6, <3>1 DEF Answered
    <2> QED BY <1>1, <2>1, <2>2, <2>3 DEF PinsFit
  <1>15. OwnersFit'
    <2>1. \A kind \in {"tree", "files"} : \A id : Removing(kind, id) => Removing(kind, id)'
      BY <1>7, <1>9 DEF Removing
    <2>2. gone => Removing("tree", m)'
      BY <1>5, <1>7 DEF Removing
    <2>3. ASSUME NEW n \in SeededIds, MachineLives(n) PROVE
             \/ ~MachineLives(n)' /\ Removing("tree", n)'
             \/ MachineLives(n)' /\ seedRows'[n].row = seedRows[n].row
      BY <1>1, <1>4, <1>6, <2>2, <2>3, NoMachineTyped DEF MachineLives
    <2>7. \A n \in SeededIds : ~MachineLives(n) => ~MachineLives(n)'
      BY <1>1, <1>6 DEF MachineLives
    <2>4. /\ \A i \in ImageIds : seedFiles'.image[i].from # "machine"
          /\ \A i \in ImageIds :
                 <<"files", i>> \notin Excused' /\ seedFiles'.image[i].from = "image" =>
                     \/ ImageLives(i)' /\ seedFiles'.image[i].row = imageRows'[i]
                     \/ ~ImageLives(i)' /\ Removing("files", i)'
      BY <1>1, <2>1 DEF SeedInv, OwnersFit, Excused, ImageLives
    <2>5. ASSUME NEW n \in SeededIds, <<"tree", n>> \notin Excused',
                 seedFiles'.own[n].from = "machine"
          PROVE  \/ MachineLives(n)' /\ seedFiles'.own[n].row = seedRows'[n].row
                 \/ ~MachineLives(n)' /\ Removing("tree", n)'
      BY <1>1, <2>1, <2>3, <2>5, <2>7 DEF SeedInv, OwnersFit, Excused
    <2> QED BY <2>4, <2>5 DEF OwnersFit
  <1> QED BY <1>11, <1>12, <1>13, <1>14, <1>15 DEF SeedInv

\* An image's row is deleted and its seed left to remove.
LEMMA ImageCommitKeeps ==
  ASSUME SeedInv, NEW c \in Savers, CommitImageDelete(c)
  PROVE  SeedInv'
  <1>0. PICK i \in ImageIds : i = seedTask[c].id
    BY DEF SeedInv, TasksFit, TaskFits, CommitImageDelete
  <1> DEFINE task == [seedTask[c] EXCEPT !.on = "files"]
  <1>1. /\ On(c, "image", i)
        /\ imageRows' = [imageRows EXCEPT ![i] = 0]
        /\ seedRows' = [m \in SeededIds |->
               IF seedRows[m].image = i THEN [seedRows[m] EXCEPT !.image = 0]
               ELSE seedRows[m]]
        /\ seedTask' = [seedTask EXCEPT ![c] = task]
        /\ UNCHANGED <<seedFiles, seedBorn, pinTrouble, ownTrouble,
                     seedReused>>
    BY <1>0 DEF CommitImageDelete, On
  <1>2. i \in ImageIds /\ seedTask[c] \in SeedTasks
    BY <1>1 DEF SeedInv, SeedTypes, TasksFit, TaskFits, On
  <1>3. task \in SeedTasks /\ task.on = "files" /\ task.id = i
    BY <1>1, <1>2 DEF SeedTasks, On
  <1> HIDE DEF task
  <1>4. /\ seedTask'[c] = task
        /\ \A d \in Savers : d # c => seedTask'[d] = seedTask[d]
        /\ seedTask' \in [Savers -> SeedTasks]
    BY <1>1, <1>3 DEF SeedInv, SeedTypes
  <1>5. /\ \A d \in Savers : d # c => \A kind, id : (On(d, kind, id)' <=> On(d, kind, id))
        /\ \A kind, id : On(c, kind, id)' <=> kind = "files" /\ id = i
        /\ \A kind, id : On(c, kind, id) => kind = "image"
    BY <1>1, <1>3, <1>4 DEF On
  <1>6. /\ imageRows' \in [ImageIds -> 0..MaxBorn] /\ imageRows'[i] = 0
        /\ \A j \in ImageIds : j # i => imageRows'[j] = imageRows[j]
    BY <1>1, <1>2, SeedAssumption DEF SeedInv, SeedTypes
  <1>7. \A m \in SeededIds :
            /\ seedRows'[m] \in MachineRows /\ seedRows'[m].row = seedRows[m].row
            /\ seedRows'[m].open = seedRows[m].open
            /\ seedRows'[m].inst = seedRows[m].inst
            /\ seedRows'[m].text = seedRows[m].text
    <2> TAKE m \in SeededIds
    <2>1. seedRows[m] \in MachineRows
      BY DEF SeedInv, SeedTypes
    <2>2. CASE seedRows[m].image = i
      BY <1>1, <2>1, <2>2 DEF MachineRows
    <2>3. CASE seedRows[m].image # i
      BY <1>1, <2>1, <2>3
    <2> QED BY <2>2, <2>3
  <1>8. seedRows' \in [SeededIds -> MachineRows]
    <2>1. seedRows' = [m \in SeededIds |-> seedRows'[m]]
      BY <1>1
    <2> QED BY <1>7, <2>1
  <1>9. SeedTypes'
    BY <1>1, <1>4, <1>6, <1>8 DEF SeedInv, SeedTypes
  <1>10. OneEach'
    BY <1>5 DEF SeedInv, OneEach
  <1>11. TasksFit'
    BY <1>2, <1>3, <1>4, <1>7 DEF SeedInv, TasksFit, TaskFits, MachineLives
  <1>12. PinsFit'
    <2>1. ASSUME NEW m \in SeededIds \ pinTrouble, NEW d \in Savers,
                 On(d, "machine", m)'
          PROVE  Answered(m, seedTask[d].row, seedFiles)'
      <3>1. d # c
        BY <1>5, <2>1
      <3>2. On(d, "machine", m) /\ seedTask'[d] = seedTask[d]
        BY <1>4, <1>5, <2>1, <3>1
      <3>3. Answered(m, seedTask[d].row, seedFiles)
        BY <2>1, <3>2 DEF SeedInv, PinsFit
      <3> QED BY <1>1, <3>2, <3>3 DEF Answered
    <2>2. ASSUME NEW m \in SeededIds \ pinTrouble, ~Busy("machine", m)'
          PROVE  Answered(m, seedRows[m], seedFiles)'
      <3>1. ~Busy("machine", m)
        <4>1. ASSUME NEW d \in Savers, On(d, "machine", m) PROVE FALSE
          <5>1. d # c
            BY <1>5, <4>1
          <5> QED BY <1>5, <2>2, <4>1, <5>1 DEF Busy, On
        <4> QED BY <4>1 DEF Busy, On
      <3>2. Answered(m, seedRows[m], seedFiles)
        BY <2>2, <3>1 DEF SeedInv, PinsFit
      <3> QED BY <1>1, <1>7, <3>2 DEF Answered
    <2> QED BY <1>1, <2>1, <2>2 DEF PinsFit
  <1>13. OwnersFit'
    <2>1. \A kind \in {"tree", "files"} : \A id : Removing(kind, id) => Removing(kind, id)'
      BY <1>5 DEF Removing
    <2>2. ~ImageLives(i)' /\ Removing("files", i)'
      BY <1>5, <1>6 DEF Removing, ImageLives
    <2>3. \A m \in SeededIds : MachineLives(m)' <=> MachineLives(m)
      BY <1>7 DEF MachineLives
    <2>4. \A j \in ImageIds : j # i => (ImageLives(j)' <=> ImageLives(j))
      BY <1>6 DEF ImageLives
    <2>5. ASSUME NEW j \in ImageIds, <<"files", j>> \notin Excused',
                 seedFiles'.image[j].from = "image"
          PROVE  \/ ImageLives(j)' /\ seedFiles'.image[j].row = imageRows'[j]
                 \/ ~ImageLives(j)' /\ Removing("files", j)'
      BY <1>1, <1>6, <2>1, <2>2, <2>4, <2>5 DEF SeedInv, OwnersFit, Excused
    <2>6. ASSUME NEW m \in SeededIds, <<"tree", m>> \notin Excused',
                 seedFiles'.own[m].from = "machine"
          PROVE  \/ MachineLives(m)' /\ seedFiles'.own[m].row = seedRows'[m].row
                 \/ ~MachineLives(m)' /\ Removing("tree", m)'
      BY <1>1, <1>7, <2>1, <2>3, <2>6 DEF SeedInv, OwnersFit, Excused
    <2> QED BY <1>1, <2>5, <2>6 DEF SeedInv, OwnersFit
  <1> QED BY <1>9, <1>10, <1>11, <1>12, <1>13 DEF SeedInv

\* The files of what was deleted go, and those another row has put there.
LEMMA RemoveKeeps ==
  ASSUME SeedInv, NEW c \in Savers, RemoveFiles(c)
  PROVE  SeedInv'
  <1> DEFINE on == seedTask[c].on
             id == seedTask[c].id
  <1>1. /\ on \in {"tree", "files"} /\ On(c, on, id)
        /\ seedTask' = [seedTask EXCEPT ![c] = IdleSaver]
        /\ seedFiles' = IF on = "tree" THEN RemoveTree(id, seedFiles)
                        ELSE WithImageSeed(id, NoText)
        /\ pinTrouble' = pinTrouble \union {m \in {id} : on = "tree" /\ MachineLives(m)}
        /\ Excused' = Excused \ {<<on, id>>}
        /\ UNCHANGED <<seedRows, imageRows, seedBorn>>
    BY DEF RemoveFiles, Finish, On, Excused
  <1>2. /\ on = "tree" => id \in SeededIds
        /\ on = "files" => id \in ImageIds
        /\ seedFiles \in SeedFiles
        /\ \A m \in SeededIds : seedRows[m].open => MachineLives(m)
        /\ \A d \in Savers : \A m : On(d, "machine", m) => MachineLives(m)
    BY <1>1 DEF SeedInv, SeedTypes, TasksFit, TaskFits, On
  <1>3. /\ seedTask'[c] = IdleSaver
        /\ \A d \in Savers : d # c => seedTask'[d] = seedTask[d]
        /\ seedTask' \in [Savers -> SeedTasks]
    BY <1>1, IdleTyped DEF SeedInv, SeedTypes
  <1>4. /\ \A kind, x : On(c, kind, x)' => kind = "none"
        /\ \A d \in Savers : d # c => \A kind, x : (On(d, kind, x)' <=> On(d, kind, x))
        /\ \A kind, x : On(c, kind, x) => kind = on /\ x = id
    BY <1>1, <1>3 DEF On, IdleSaver
  <1>5. /\ seedFiles' \in SeedFiles
        /\ \A m \in SeededIds :
               \/ on = "tree" /\ m = id /\ seedFiles'.own[m] = NoText
               \/ /\ ~(on = "tree" /\ m = id)
                  /\ seedFiles'.own[m] = seedFiles.own[m]
                  /\ \A inst \in Instances :
                         seedFiles'.snap[m, inst] = seedFiles.snap[m, inst]
        /\ \A i \in ImageIds :
               \/ on = "files" /\ i = id /\ seedFiles'.image[i] = NoText
               \/ ~(on = "files" /\ i = id) /\ seedFiles'.image[i] = seedFiles.image[i]
    <2>1. CASE on = "tree"
      <3> DEFINE less == WithOwn(id, NoText, seedFiles)
      <3>1. seedFiles' = Prune(id, 0, less)
        BY <1>1, <2>1 DEF RemoveTree
      <3>2. /\ less \in SeedFiles /\ less.image = seedFiles.image
            /\ less.snap = seedFiles.snap /\ less.own[id] = NoText
            /\ \A n \in SeededIds : n # id => less.own[n] = seedFiles.own[n]
        BY <1>2, <2>1, OwnWritten DEF AnyText
      <3> HIDE DEF less
      <3>3. PrunedTo(id, 0, less, seedFiles')
        BY <1>2, <2>1, <3>1, <3>2, SnapshotsPruned
      <3> QED BY <1>2, <2>1, <3>2, <3>3 DEF PrunedTo
    <2>2. CASE on = "files"
      <3> DEFINE new == [seedFiles EXCEPT !.image[id] = NoText]
      <3>1. seedFiles' = new
        BY <1>1, <2>2 DEF WithImageSeed
      <3>2. /\ new \in SeedFiles /\ new.own = seedFiles.own /\ new.snap = seedFiles.snap
            /\ new.image[id] = NoText
            /\ \A j \in ImageIds : j # id => new.image[j] = seedFiles.image[j]
        BY <1>2, <2>2, ImageWritten DEF AnyText
      <3> HIDE DEF new
      <3> QED BY <1>2, <2>2, <3>1, <3>2
    <2> QED BY <1>1, <2>1, <2>2
  <1> HIDE DEF on, id
  <1>6. pinTrouble' \subseteq SeededIds
    BY <1>1, <1>2 DEF SeedInv, SeedTypes
  <1>7. SeedTypes'
    BY <1>1, <1>3, <1>5, <1>6 DEF SeedInv, SeedTypes
  <1>8. OneEach'
    BY <1>4 DEF SeedInv, OneEach
  <1>9. TasksFit'
    BY <1>1, <1>3 DEF SeedInv, TasksFit, TaskFits, MachineLives, IdleSaver
  <1>10. PinsFit'
    <2>1. ASSUME NEW m \in SeededIds, NEW row, Answered(m, row, seedFiles),
                 ~(on = "tree" /\ m = id)
          PROVE  Answered(m, row, seedFiles')
      BY <1>5, <2>1 DEF Answered
    <2>2. ASSUME NEW m \in SeededIds \ pinTrouble', NEW d \in Savers,
                 On(d, "machine", m)'
          PROVE  Answered(m, seedTask[d].row, seedFiles)'
      <3>1. d # c /\ On(d, "machine", m) /\ seedTask'[d] = seedTask[d] /\ m \notin pinTrouble
        BY <1>1, <1>3, <1>4, <2>2
      <3>2. ~(on = "tree" /\ m = id)
        BY <1>1, <1>2, <2>2, <3>1
      <3>3. Answered(m, seedTask[d].row, seedFiles)
        BY <2>2, <3>1 DEF SeedInv, PinsFit
      <3>4. Answered(m, seedTask[d].row, seedFiles')
        BY <2>1, <3>2, <3>3
      <3> QED BY <3>1, <3>4 DEF Answered
    <2>3. ASSUME NEW m \in SeededIds \ pinTrouble', ~Busy("machine", m)'
          PROVE  Answered(m, seedRows[m], seedFiles)'
      <3>1. CASE on = "tree" /\ m = id
        <4>1. ~seedRows[m].open
          BY <1>1, <1>2, <2>3, <3>1
        <4> QED BY <1>1, <4>1 DEF Answered
      <3>2. CASE ~(on = "tree" /\ m = id)
        <4>1. \A d \in Savers : ~On(d, "machine", m)
          BY <1>1, <1>4, <2>3 DEF Busy, On
        <4>2. Answered(m, seedRows[m], seedFiles)
          BY <1>1, <2>3, <4>1 DEF SeedInv, PinsFit, Busy, On
        <4>3. Answered(m, seedRows[m], seedFiles')
          BY <2>1, <3>2, <4>2
        <4> QED BY <1>1, <4>3 DEF Answered
      <3> QED BY <3>1, <3>2
    <2> QED BY <2>2, <2>3 DEF PinsFit
  <1>11. OwnersFit'
    <2>1. \A kind \in {"tree", "files"} : \A x :
              Removing(kind, x) => Removing(kind, x)' \/ (kind = on /\ x = id)
      BY <1>4 DEF Removing
    <2>2. ASSUME NEW i \in ImageIds, seedFiles'.image[i].from # "none"
          PROVE  ~(on = "files" /\ i = id) /\ seedFiles'.image[i] = seedFiles.image[i]
      BY <1>5, <2>2, TextKinds
    <2>3. ASSUME NEW m \in SeededIds, seedFiles'.own[m].from # "none"
          PROVE  ~(on = "tree" /\ m = id) /\ seedFiles'.own[m] = seedFiles.own[m]
      BY <1>5, <2>3, TextKinds
    <2>4. ASSUME NEW i \in ImageIds, <<"files", i>> \notin Excused',
                 seedFiles'.image[i].from = "image"
          PROVE  \/ ImageLives(i)' /\ seedFiles'.image[i].row = imageRows'[i]
                 \/ ~ImageLives(i)' /\ Removing("files", i)'
      <3>1. <<"files", i>> \notin Excused
        BY <1>1, <2>2, <2>4
      <3> QED BY <1>1, <2>1, <2>2, <2>4, <3>1 DEF SeedInv, OwnersFit, ImageLives
    <2>5. ASSUME NEW m \in SeededIds, <<"tree", m>> \notin Excused',
                 seedFiles'.own[m].from = "machine"
          PROVE  \/ MachineLives(m)' /\ seedFiles'.own[m].row = seedRows'[m].row
                 \/ ~MachineLives(m)' /\ Removing("tree", m)'
      <3>1. <<"tree", m>> \notin Excused
        BY <1>1, <2>3, <2>5
      <3> QED BY <1>1, <2>1, <2>3, <2>5, <3>1 DEF SeedInv, OwnersFit, MachineLives
    <2>6. \A i \in ImageIds : seedFiles'.image[i].from # "machine"
      BY <2>2 DEF SeedInv, OwnersFit
    <2> QED BY <2>4, <2>5, <2>6 DEF OwnersFit
  <1> QED BY <1>7, <1>8, <1>9, <1>10, <1>11 DEF SeedInv

\* A request ends before its commit, or before its removal.
LEMMA LossKeeps ==
  ASSUME SeedInv, NEW c \in Savers, CommitLost(c) \/ RemovalLost(c)
  PROVE  SeedInv'
  <1> DEFINE on == seedTask[c].on
             id == seedTask[c].id
  <1>1. /\ on \in {"machine", "image", "tree", "files"} /\ On(c, on, id)
        /\ seedTask' = [seedTask EXCEPT ![c] = IdleSaver]
        /\ UNCHANGED <<seedRows, imageRows, seedFiles, seedBorn>>
        /\ pinTrouble' = pinTrouble \union {m \in {id} : on = "machine"}
        /\ Excused \subseteq Excused'
        /\ on \in {"tree", "files"} => <<on, id>> \in Excused'
    <2>1. CASE CommitLost(c)
      BY <2>1 DEF CommitLost, Finish, On, Excused
    <2>2. CASE RemovalLost(c)
      BY <2>2 DEF RemovalLost, Finish, On, Excused
    <2> QED BY <2>1, <2>2
  <1>2. on = "machine" => id \in SeededIds
    BY <1>1 DEF SeedInv, TasksFit, TaskFits
  <1>3. /\ seedTask'[c] = IdleSaver
        /\ \A d \in Savers : d # c => seedTask'[d] = seedTask[d]
        /\ seedTask' \in [Savers -> SeedTasks]
    BY <1>1, IdleTyped DEF SeedInv, SeedTypes
  <1>4. /\ \A kind, x : On(c, kind, x)' => kind = "none"
        /\ \A d \in Savers : d # c => \A kind, x : (On(d, kind, x)' <=> On(d, kind, x))
        /\ \A kind, x : On(c, kind, x) => kind = on /\ x = id
    BY <1>1, <1>3 DEF On, IdleSaver
  <1> HIDE DEF on, id
  <1>5. SeedTypes'
    BY <1>1, <1>2, <1>3 DEF SeedInv, SeedTypes
  <1>6. OneEach'
    BY <1>4 DEF SeedInv, OneEach
  <1>7. TasksFit'
    BY <1>1, <1>3 DEF SeedInv, TasksFit, TaskFits, MachineLives, IdleSaver
  <1>8. PinsFit'
    <2>1. ASSUME NEW m \in SeededIds \ pinTrouble', NEW d \in Savers,
                 On(d, "machine", m)'
          PROVE  Answered(m, seedTask[d].row, seedFiles)'
      <3>1. d # c /\ On(d, "machine", m) /\ seedTask'[d] = seedTask[d] /\ m \notin pinTrouble
        BY <1>1, <1>3, <1>4, <2>1
      <3>2. Answered(m, seedTask[d].row, seedFiles)
        BY <2>1, <3>1 DEF SeedInv, PinsFit
      <3> QED BY <1>1, <3>1, <3>2 DEF Answered
    <2>2. ASSUME NEW m \in SeededIds \ pinTrouble', ~Busy("machine", m)'
          PROVE  Answered(m, seedRows[m], seedFiles)'
      <3>1. ~(on = "machine" /\ m = id) /\ m \notin pinTrouble
        BY <1>1, <2>2
      <3>2. \A d \in Savers : ~On(d, "machine", m)
        BY <1>4, <2>2, <3>1 DEF Busy, On
      <3>3. Answered(m, seedRows[m], seedFiles)
        BY <2>2, <3>1, <3>2 DEF SeedInv, PinsFit, Busy, On
      <3> QED BY <1>1, <3>3 DEF Answered
    <2> QED BY <2>1, <2>2 DEF PinsFit
  <1>9. OwnersFit'
    <2>1. \A kind \in {"tree", "files"} : \A x :
              Removing(kind, x) => Removing(kind, x)' \/ <<kind, x>> \in Excused'
      BY <1>1, <1>4 DEF Removing
    <2> QED BY <1>1, <2>1 DEF SeedInv, OwnersFit, MachineLives, ImageLives
  <1> QED BY <1>5, <1>6, <1>7, <1>8, <1>9 DEF SeedInv

\* A new row finds no seed of an older one under its id, or its removal is
\* under way and noted.
LEMMA CreateMachineKeeps ==
  ASSUME SeedInv, CreateMachine
  PROVE  SeedInv'
  <1>1. PICK m \in SeededIds :
            /\ NextFree(m, SeededIds, [n \in SeededIds |-> seedRows[n].row])
            /\ seedRows' = [seedRows EXCEPT ![m] = [NoMachine EXCEPT !.row = seedBorn + 1]]
            /\ GiveOut("tree", m)
    BY DEF CreateMachine
  <1> DEFINE new == [NoMachine EXCEPT !.row = seedBorn + 1]
  <1>2. /\ seedBorn < MaxBorn /\ seedBorn' = seedBorn + 1
        /\ UNCHANGED <<imageRows, seedFiles, seedTask, pinTrouble, ownTrouble>>
    BY DEF CreateMachine
  <1>3. seedBorn + 1 \in 1..MaxBorn
    BY <1>2, SeedAssumption DEF SeedInv, SeedTypes
  <1>4. new \in MachineRows /\ ~new.open
    BY <1>3, NoMachineTyped DEF MachineRows
  <1>5. /\ ~MachineLives(m) /\ Excused \subseteq Excused'
        /\ Removing("tree", m) => <<"tree", m>> \in Excused'
    <2>1. seedRows[m].row = 0
      BY <1>1, SeedAssumption DEF NextFree, Free
    <2> QED BY <1>1, <1>2, <2>1 DEF MachineLives, Removing, Busy, On, GiveOut, Excused
  <1>6. seedRows' = [seedRows EXCEPT ![m] = new]
    BY <1>1
  <1> HIDE DEF new
  <1>7. /\ seedRows'[m] = new /\ seedRows' \in [SeededIds -> MachineRows]
        /\ \A n \in SeededIds : n # m => seedRows'[n] = seedRows[n]
    BY <1>4, <1>6 DEF SeedInv, SeedTypes
  <1>8. SeedTypes'
    BY <1>2, <1>3, <1>7 DEF SeedInv, SeedTypes
  <1>9. /\ \A d \in Savers : \A kind, id : On(d, kind, id)' <=> On(d, kind, id)
        /\ \A d \in Savers : seedTask'[d] = seedTask[d]
        /\ \A kind, id : Busy(kind, id)' <=> Busy(kind, id)
        /\ \A kind, id : Removing(kind, id)' <=> Removing(kind, id)
    BY <1>2 DEF On, Busy, Removing
  <1>10. OneEach'
    BY <1>9 DEF SeedInv, OneEach
  <1>11. TasksFit'
    <2>0. \A n \in SeededIds : seedRows'[n].open => MachineLives(n)'
      BY <1>4, <1>7 DEF SeedInv, TasksFit, MachineLives
    <2> SUFFICES ASSUME NEW d \in Savers PROVE TaskFits(d)'
      BY <2>0 DEF TasksFit
    <2>1. TaskFits(d)
      BY DEF SeedInv, TasksFit
    <2>2. seedTask[d].on = "machine" => seedTask[d].id # m
      BY <1>5, <2>1 DEF TaskFits
    <2> QED BY <1>2, <1>7, <2>1, <2>2 DEF TaskFits, MachineLives
  <1>12. PinsFit'
    <2>1. ASSUME NEW n \in SeededIds \ pinTrouble, NEW d \in Savers,
                 On(d, "machine", n)'
          PROVE  Answered(n, seedTask[d].row, seedFiles)'
      <3>1. Answered(n, seedTask[d].row, seedFiles)
        BY <1>9, <2>1 DEF SeedInv, PinsFit
      <3> QED BY <1>2, <3>1 DEF Answered
    <2>2. ASSUME NEW n \in SeededIds \ pinTrouble, ~Busy("machine", n)'
          PROVE  Answered(n, seedRows[n], seedFiles)'
      <3>1. CASE n = m
        BY <1>4, <1>7, <3>1 DEF Answered
      <3>2. CASE n # m
        <4>1. Answered(n, seedRows[n], seedFiles)
          BY <1>9, <2>2 DEF SeedInv, PinsFit
        <4> QED BY <1>2, <1>7, <3>2, <4>1 DEF Answered
      <3> QED BY <3>1, <3>2
    <2> QED BY <1>2, <2>1, <2>2 DEF PinsFit
  <1>13. OwnersFit'
    <2>1. \A n \in SeededIds : n # m => (MachineLives(n)' <=> MachineLives(n))
      BY <1>7 DEF MachineLives
    <2> QED BY <1>2, <1>5, <1>7, <1>9, <2>1 DEF SeedInv, OwnersFit, ImageLives
  <1> QED BY <1>8, <1>10, <1>11, <1>12, <1>13 DEF SeedInv

LEMMA CreateImageKeeps ==
  ASSUME SeedInv, CreateImage
  PROVE  SeedInv'
  <1>1. PICK i \in ImageIds :
            /\ NextFree(i, ImageIds, imageRows)
            /\ imageRows' = [imageRows EXCEPT ![i] = seedBorn + 1]
            /\ seedFiles' = IF seedFiles.image[i] # NoText THEN seedFiles
                            ELSE WithImageSeed(i, Factory)
            /\ GiveOut("files", i)
    BY DEF CreateImage
  <1>2. /\ seedBorn < MaxBorn /\ seedBorn' = seedBorn + 1
        /\ UNCHANGED <<seedRows, seedTask, pinTrouble, ownTrouble>>
    BY DEF CreateImage
  <1>3. seedBorn + 1 \in 1..MaxBorn
    BY <1>2, SeedAssumption DEF SeedInv, SeedTypes
  <1>4. /\ ~ImageLives(i) /\ Excused \subseteq Excused'
        /\ Removing("files", i) => <<"files", i>> \in Excused'
    <2>1. imageRows[i] = 0
      BY <1>1, SeedAssumption DEF NextFree, Free
    <2> QED BY <1>1, <1>2, <2>1 DEF ImageLives, Removing, Busy, On, GiveOut, Excused
  <1>5. /\ imageRows'[i] = seedBorn + 1 /\ imageRows' \in [ImageIds -> 0..MaxBorn]
        /\ \A j \in ImageIds : j # i => imageRows'[j] = imageRows[j]
    BY <1>1, <1>3 DEF SeedInv, SeedTypes
  <1>6. /\ seedFiles' \in SeedFiles /\ seedFiles'.own = seedFiles.own
        /\ seedFiles'.snap = seedFiles.snap
        /\ seedFiles'.image[i] = seedFiles.image[i] \/ seedFiles'.image[i] = Factory
        /\ \A j \in ImageIds : j # i => seedFiles'.image[j] = seedFiles.image[j]
    <2>1. seedFiles \in SeedFiles /\ Factory \in AnyText
      BY TextKinds DEF SeedInv, SeedTypes, AnyText
    <2>2. CASE seedFiles.image[i] # NoText
      BY <1>1, <2>1, <2>2
    <2>3. CASE seedFiles.image[i] = NoText
      BY <1>1, <2>1, <2>3, ImageWritten DEF WithImageSeed
    <2> QED BY <2>2, <2>3
  <1>7. SeedTypes'
    BY <1>2, <1>3, <1>5, <1>6 DEF SeedInv, SeedTypes
  <1>8. /\ \A d \in Savers : \A kind, id : On(d, kind, id)' <=> On(d, kind, id)
        /\ \A d \in Savers : seedTask'[d] = seedTask[d]
        /\ \A kind, id : Busy(kind, id)' <=> Busy(kind, id)
        /\ \A kind, id : Removing(kind, id)' <=> Removing(kind, id)
    BY <1>2 DEF On, Busy, Removing
  <1>9. OneEach'
    BY <1>8 DEF SeedInv, OneEach
  <1>10. TasksFit'
    BY <1>2, <1>8 DEF SeedInv, TasksFit, TaskFits, MachineLives
  <1>11. PinsFit'
    <2>1. ASSUME NEW m \in SeededIds \ pinTrouble, NEW d \in Savers,
                 On(d, "machine", m)'
          PROVE  Answered(m, seedTask[d].row, seedFiles)'
      <3>1. Answered(m, seedTask[d].row, seedFiles)
        BY <1>8, <2>1 DEF SeedInv, PinsFit
      <3> QED BY <1>6, <1>8, <3>1 DEF Answered
    <2>2. ASSUME NEW m \in SeededIds \ pinTrouble, ~Busy("machine", m)'
          PROVE  Answered(m, seedRows[m], seedFiles)'
      <3>1. Answered(m, seedRows[m], seedFiles)
        BY <1>8, <2>2 DEF SeedInv, PinsFit
      <3> QED BY <1>2, <1>6, <3>1 DEF Answered
    <2> QED BY <1>2, <2>1, <2>2 DEF PinsFit
  <1>12. OwnersFit'
    <2>1. \A j \in ImageIds : j # i => (ImageLives(j)' <=> ImageLives(j))
      BY <1>5 DEF ImageLives
    <2>2. ASSUME NEW j \in ImageIds
          PROVE  /\ seedFiles'.image[j].from # "machine"
                 /\ <<"files", j>> \notin Excused' /\ seedFiles'.image[j].from = "image" =>
                        \/ ImageLives(j)' /\ seedFiles'.image[j].row = imageRows'[j]
                        \/ ~ImageLives(j)' /\ Removing("files", j)'
      <3>1. CASE j = i
        BY <1>2, <1>4, <1>6, <3>1, TextKinds DEF SeedInv, OwnersFit
      <3>2. CASE j # i
        BY <1>4, <1>5, <1>6, <1>8, <2>1, <3>2 DEF SeedInv, OwnersFit
      <3> QED BY <3>1, <3>2
    <2> QED BY <1>2, <1>4, <1>6, <1>8, <2>2 DEF SeedInv, OwnersFit, MachineLives
  <1> QED BY <1>7, <1>9, <1>10, <1>11, <1>12 DEF SeedInv

LEMMA SeedStutters ==
  ASSUME SeedInv, UNCHANGED seedVars
  PROVE  SeedInv'
  BY FilesKeep DEF seedVars, SeedInv, SeedTypes

LEMMA SeedStepKeeps ==
  SeedInv /\ [SeedNext]_seedVars => SeedInv'
  <1> SUFFICES ASSUME SeedInv, [SeedNext]_seedVars PROVE SeedInv'
    OBVIOUS
  <1>1. ASSUME NEW c \in Savers, NEW m \in SeededIds,
               \/ Deploy(c, m) \/ StageReimage(c, m) \/ Save(c, m)
               \/ CopyDefaultSeed(c, m) \/ MarkDeployed(c, m) \/ LeaveInstall(c, m)
               \/ Delete(c, m)
        PROVE  SeedInv'
    BY <1>1, MachineKeeps
  <1>2. ASSUME NEW m \in SeededIds, RefusedLate(m) PROVE SeedInv'
    BY <1>2, RefusedKeeps
  <1>3. ASSUME NEW i \in ImageIds, SaveImage(i) \/ ResetImageSeed(i) PROVE SeedInv'
    BY <1>3, ImageSeedKeeps
  <1>4. ASSUME NEW i \in ImageIds, NEW c \in Savers, DeleteImage(c, i) PROVE SeedInv'
    BY <1>4, DeleteImageKeeps
  <1>5. ASSUME NEW c \in Savers,
               \/ CommitSeed(c) \/ CommitImageDelete(c) \/ RemoveFiles(c)
               \/ CommitLost(c) \/ RemovalLost(c)
        PROVE  SeedInv'
    BY <1>5, MachineCommitKeeps, ImageCommitKeeps, RemoveKeeps, LossKeeps
  <1>6. CASE CreateMachine \/ CreateImage
    BY <1>6, CreateMachineKeeps, CreateImageKeeps
  <1>7. CASE UNCHANGED seedVars
    BY <1>7, SeedStutters
  <1> QED BY <1>1, <1>2, <1>3, <1>4, <1>5, <1>6, <1>7 DEF SeedNext

LEMMA SeedInvariant == Spec => []SeedInv
  BY PartStarts, PartSteps, SeedStarts, SeedStepKeeps, PTL DEF Spec

(***************************************************************************)
(* While no request on the machine is under way, the guest of an open      *)
(* install is given the text that was selected when the install was        *)
(* staged, for any machines, images and handlers.                          *)
(***************************************************************************)
THEOREM GuestsGetTheirSeed == Spec => []ServesPinnedSeed
  <1>1. SeedInv => ServesPinnedSeed
    BY DEF SeedInv, PinsFit, Answered, ServesPinnedSeed, Served
  <1> QED BY <1>1, SeedInvariant, PTL

(***************************************************************************)
(* A seed is of the machine or image that has the id now, for any          *)
(* machines, images and handlers, except where the removal of the files    *)
(* was lost in a crash or had still to come when the id was given out.     *)
(***************************************************************************)
THEOREM SeedsStayWithOwners == Spec => []SeedsHaveOwners
  <1>1. SeedInv => SeedsHaveOwners
    BY DEF SeedInv, OwnersFit, Excused, SeedsHaveOwners
  <1> QED BY <1>1, SeedInvariant, PTL
-----------------------------------------------------------------------------
(* The editor *)

SeedRecord(s) ==
    s = [mode |-> s.mode, body |-> s.body, header |-> s.header, block |-> s.block,
         inline |-> s.inline, lines |-> s.lines, applied |-> s.applied]

\* A seed is read as mappings that have each key once.
ReadsWell(s) ==
    /\ s.mode \in {"cloud-config", "autoinstall"}
    /\ OncePerKey(s.body) /\ OncePerKey(CloudConfig(s))
    /\ s.mode = "autoinstall" => OncePerKey(UserDataOf(s))

GoodSeed(s) ==
    /\ SeedRecord(s) /\ ReadsWell(s)
    /\ s.lines \subseteq Keys(s.body)
    /\ s.applied \in 0..MaxApplies

PageRecord(pg) ==
    pg = [doc |-> pg.doc, extra |-> pg.extra, installer |-> pg.installer,
          installerExtra |-> pg.installerExtra, edited |-> pg.edited,
          installerEdited |-> pg.installerEdited, edits |-> pg.edits]

\* An open page has each key once in each of its parts, and no field of the
\* installer for the user-data.
GoodPage(pg) ==
    /\ PageRecord(pg)
    /\ OncePerKey(pg.doc) /\ OncePerKey(pg.extra)
    /\ OncePerKey(pg.installer) /\ OncePerKey(pg.installerExtra)
    /\ UserData \notin Keys(pg.installer)
    /\ pg.edits \in 0..MaxFieldEdits

(***************************************************************************)
(* The inductive invariant: seed and page have each key once, and a page   *)
(* is open for an apply that is still to come.                             *)
(***************************************************************************)
EditorInv ==
    /\ GoodSeed(seed)
    /\ page # Closed => GoodPage(page) /\ seed.applied < MaxApplies

LEMMA KeysAre ==
  ASSUME NEW map, NEW key
  PROVE  key \in Keys(map) <=> \E p \in map : p[1] = key
  BY DEF Keys

LEMMA OnlyPair ==
  ASSUME NEW map, OncePerKey(map), NEW key, NEW v, <<key, v>> \in map
  PROVE  key \in Keys(map) /\ At(map, key) = v
  <1> DEFINE p == CHOOSE pair \in map : pair[1] = key
  <1>1. p \in map /\ p[1] = key
    BY <<key, v>>[1] = key
  <1>2. p = <<key, v>>
    <2> HIDE DEF p
    <2> QED BY <1>1 DEF OncePerKey
  <1>3. At(map, key) = v
    <2>1. At(map, key) = p[2]
      BY DEF At
    <2> HIDE DEF p
    <2> QED BY <1>2, <2>1
  <1>4. key \in Keys(map)
    BY <1>1 DEF Keys
  <1> QED BY <1>3, <1>4

LEMMA PartOnce ==
  ASSUME NEW map, OncePerKey(map), NEW part, part \subseteq map
  PROVE  OncePerKey(part) /\ Keys(part) \subseteq Keys(map)
  BY DEF OncePerKey, Keys

\* Maps without a key in common make one with each key once.
LEMMA UnionOnce ==
  ASSUME NEW map, NEW other, OncePerKey(map), OncePerKey(other),
         Keys(map) \intersect Keys(other) = {}
  PROVE  OncePerKey(map \union other)
  <1>1. \A p \in map, q \in other : p[1] # q[1]
    BY DEF Keys
  <1> QED BY <1>1 DEF OncePerKey

LEMMA KeysOfUnion ==
  ASSUME NEW map, NEW other
  PROVE  Keys(map \union other) = Keys(map) \union Keys(other)
  BY DEF Keys

\* Pairs of a map get other values.
LEMMA EachOnce ==
  ASSUME NEW map, OncePerKey(map), NEW V, NEW new,
         \A x \in new : \E p \in map : x = <<p[1], V[p]>>
  PROVE  OncePerKey(new) /\ Keys(new) \subseteq Keys(map)
  <1>1. ASSUME NEW x \in new, NEW y \in new, x[1] = y[1] PROVE x = y
    <2>1. PICK p \in map : x = <<p[1], V[p]>>
      OBVIOUS
    <2>2. PICK q \in map : y = <<q[1], V[q]>>
      OBVIOUS
    <2>3. p = q
      BY <1>1, <2>1, <2>2 DEF OncePerKey
    <2> QED BY <2>1, <2>2, <2>3
  <1>2. ASSUME NEW x \in new PROVE x[1] \in Keys(map)
    BY DEF Keys
  <1> QED BY <1>1, <1>2 DEF OncePerKey, Keys

LEMMA SetOnce ==
  ASSUME NEW map, OncePerKey(map), NEW key, NEW v
  PROVE  /\ OncePerKey(Without(map, key))
         /\ key \notin Keys(Without(map, key))
         /\ OncePerKey(Without(map, key) \union {<<key, v>>})
         /\ Keys(Without(map, key)) \subseteq Keys(map)
         /\ Keys(Without(map, key) \union {<<key, v>>}) \subseteq Keys(map) \union {key}
  BY DEF OncePerKey, Keys, Without

\* What is read of a seed depends on its mode and its body only.
LEMMA SameReading ==
  ASSUME NEW s, NEW t, t.mode = s.mode, t.body = s.body
  PROVE  ReadsWell(t) <=> ReadsWell(s)
  BY DEF ReadsWell, CloudConfig, UserDataOf

LEMMA DumpedIs ==
  ASSUME NEW s, SeedRecord(s), NEW body, NEW t, t = Dumped(s, body)
  PROVE  t = [mode |-> s.mode, body |-> body, header |-> TRUE, block |-> TRUE,
              inline |-> FALSE, lines |-> {}, applied |-> s.applied + 1]
  BY DEF Dumped, SeedRecord

LEMMA DumpedGood ==
  ASSUME NEW s, SeedRecord(s), s.applied \in 0..MaxApplies, s.applied < MaxApplies,
         NEW body, NEW t, t = Dumped(s, body)
  PROVE  /\ SeedRecord(t) /\ t.mode = s.mode /\ t.body = body
         /\ t.lines \subseteq Keys(t.body) /\ t.applied \in 0..MaxApplies
  <1>1. t = [mode |-> s.mode, body |-> body, header |-> TRUE, block |-> TRUE,
             inline |-> FALSE, lines |-> {}, applied |-> s.applied + 1]
    BY DumpedIs
  <1>2. s.applied + 1 \in 0..MaxApplies
    BY EditorAssumption
  <1> QED BY <1>1, <1>2 DEF SeedRecord

LEMMA RenamedOnce ==
  ASSUME NEW cc, OncePerKey(cc)
  PROVE  OncePerKey(Renamed(cc))
  <1>1. CASE Alias \in Keys(cc) /\ Canonical \notin Keys(cc)
    <2>1. Canonical \notin Keys(Without(cc, Alias)) /\ OncePerKey(Without(cc, Alias))
      BY <1>1, SetOnce
    <2> QED BY <1>1, <2>1 DEF Renamed, OncePerKey, Keys
  <1> QED BY <1>1 DEF Renamed

LEMMA PageIsGood ==
  ASSUME NEW s, GoodSeed(s)
  PROVE  GoodPage(PageOf(s))
  <1> DEFINE cc == Renamed(CloudConfig(s))
             shown == {p \in cc : HasForm(p[1], p[2])}
             doc == {<<p[1], View(FieldOf(p[1]), p[2])>> : p \in shown}
             V == [p \in shown |-> View(FieldOf(p[1]), p[2])]
             part == {p \in Installer(s) : HasInstallerForm(p[1], p[2])}
             W == [p \in part |-> View(InstallerFields[p[1]], p[2])]
  <1>1. OncePerKey(cc)
    BY RenamedOnce DEF GoodSeed, ReadsWell
  <1>2. OncePerKey(shown) /\ OncePerKey(cc \ shown)
    BY <1>1, PartOnce
  <1>3. OncePerKey(doc)
    <2>1. \A x \in doc : \E p \in shown : x = <<p[1], V[p]>>
      OBVIOUS
    <2> HIDE DEF doc, V, shown
    <2> QED BY <1>2, <2>1, EachOnce
  <1>4. OncePerKey(Installer(s)) /\ UserData \notin Keys(Installer(s))
    <2>1. CASE s.mode = "autoinstall"
      BY <2>1, SetOnce DEF Installer, GoodSeed, ReadsWell
    <2>2. CASE s.mode # "autoinstall"
      BY <2>2 DEF Installer, OncePerKey, Keys
    <2> QED BY <2>1, <2>2
  <1>5. OncePerKey(part) /\ Keys(part) \subseteq Keys(Installer(s))
    BY <1>4, PartOnce
  <1>6. OncePerKey(InstallerDoc(Installer(s))) /\ UserData \notin Keys(InstallerDoc(Installer(s)))
    <2>1. \A x \in InstallerDoc(Installer(s)) : \E p \in part : x = <<p[1], W[p]>>
      BY DEF InstallerDoc
    <2> HIDE DEF part, W
    <2>2. /\ OncePerKey(InstallerDoc(Installer(s)))
          /\ Keys(InstallerDoc(Installer(s))) \subseteq Keys(part)
      BY <1>5, <2>1, EachOnce
    <2> QED BY <1>4, <1>5, <2>2
  <1>7. OncePerKey(InstallerRest(Installer(s)))
    BY <1>4, PartOnce DEF InstallerRest
  <1>8. PageOf(s) = [doc |-> doc, extra |-> cc \ shown,
                     installer |-> InstallerDoc(Installer(s)),
                     installerExtra |-> InstallerRest(Installer(s)),
                     edited |-> {}, installerEdited |-> {}, edits |-> 0]
    BY DEF PageOf
  <1>9. 0 \in 0..MaxFieldEdits
    BY EditorAssumption
  <1> HIDE DEF cc, shown, doc, part
  <1> QED BY <1>2, <1>3, <1>6, <1>7, <1>8, <1>9 DEF GoodPage, PageRecord

(***************************************************************************)
(* The document that an apply builds, if it is not refused, has each key   *)
(* once: what is set both in a field and in YAML is refused.               *)
(***************************************************************************)
LEMMA MergedOnce ==
  ASSUME NEW pg, GoodPage(pg), ~CloudConfigRefused(pg)
  PROVE  OncePerKey(Merged(pg))
  <1> DEFINE E == [p \in pg.doc |-> Emit(FieldOf(p[1]), p[2])]
  <1>1. \A x \in Pruned(pg.doc) : \E p \in pg.doc : x = <<p[1], E[p]>>
    BY DEF Pruned, EmittedPairs
  <1> HIDE DEF E
  <1>2. OncePerKey(Pruned(pg.doc))
    BY <1>1, EachOnce DEF GoodPage
  <1>3. Keys(Pruned(pg.doc)) \intersect Keys(pg.extra) = {}
    BY DEF CloudConfigRefused
  <1> QED BY <1>2, <1>3, UnionOnce DEF Merged, GoodPage

LEMMA InstallerOnce ==
  ASSUME NEW pg, GoodPage(pg), NEW original, ~InstallerRefused(pg, original)
  PROVE  /\ OncePerKey(InstallerPairs(pg, original) \union pg.installerExtra)
         /\ UserData \notin Keys(InstallerPairs(pg, original) \union pg.installerExtra)
  <1> DEFINE I == [p \in pg.installer |-> InstallerValue(p, original)]
  <1>1. \A x \in InstallerPairs(pg, original) : \E p \in pg.installer : x = <<p[1], I[p]>>
    BY DEF InstallerPairs
  <1> HIDE DEF I
  <1>2. /\ OncePerKey(InstallerPairs(pg, original))
        /\ Keys(InstallerPairs(pg, original)) \subseteq Keys(pg.installer)
    BY <1>1, EachOnce DEF GoodPage
  <1>3. /\ Keys(InstallerPairs(pg, original)) \intersect Keys(pg.installerExtra) = {}
        /\ UserData \notin Keys(pg.installerExtra)
    BY DEF InstallerRefused
  <1> QED BY <1>2, <1>3, UnionOnce, KeysOfUnion DEF GoodPage

\* What an apply leaves of the installer's keys
InstallerOf(s, pg, posted) ==
    IF posted THEN InstallerPairs(pg, Installer(s)) \union pg.installerExtra
    ELSE Installer(s)

\* What an apply leaves under user-data is a mapping with each key once.
LEMMA BuiltReads ==
  ASSUME NEW s, GoodSeed(s), NEW pg, GoodPage(pg), NEW posted \in BOOLEAN,
         ~Refuses(s, pg, posted),
         NEW t, t.mode = s.mode, t.body = Built(s, pg, posted)
  PROVE  /\ ReadsWell(t)
         /\ CloudConfig(t) \in {{}, Merged(pg)}
         /\ Installer(t) = IF s.mode = "cloud-config" THEN {} ELSE InstallerOf(s, pg, posted)
  <1> DEFINE merged == Merged(pg)
             installer == InstallerOf(s, pg, posted)
             whole == installer \union {<<UserData, Map(merged)>>}
  <1>1. OncePerKey(merged)
    BY MergedOnce DEF Refuses
  <1>2. CASE s.mode = "cloud-config"
    BY <1>1, <1>2 DEF ReadsWell, CloudConfig, Installer, Built
  <1>3. CASE s.mode # "cloud-config"
    <2>1. s.mode = "autoinstall"
      BY <1>3 DEF GoodSeed, ReadsWell
    <2>2. OncePerKey(installer) /\ UserData \notin Keys(installer)
      <3>1. CASE posted
        BY <2>1, <3>1, InstallerOnce DEF Refuses, InstallerOf
      <3>2. CASE ~posted
        BY <2>1, <3>2, SetOnce DEF Installer, GoodSeed, ReadsWell, InstallerOf
      <3> QED BY <3>1, <3>2
    <2>3. t.body \in {installer, whole}
      BY <1>3 DEF Built, Rebuilt, InstallerOf
    <2> HIDE DEF merged, installer
    <2>6. Without(installer, UserData) = installer /\ Without(whole, UserData) = installer
      BY <2>2 DEF Without, Keys
    <2>7. Installer(t) = installer
      BY <2>1, <2>3, <2>6 DEF Installer
    <2>4. ASSUME t.body = installer
          PROVE  ReadsWell(t) /\ CloudConfig(t) \in {{}, merged}
      <3>1. OncePerKey({})
        BY DEF OncePerKey
      <3>2. CloudConfig(t) = {}
        BY <2>1, <2>2, <2>4 DEF CloudConfig
      <3> QED BY <2>1, <2>2, <2>4, <3>1, <3>2 DEF ReadsWell, UserDataOf
    <2>5. ASSUME t.body = whole
          PROVE  ReadsWell(t) /\ CloudConfig(t) \in {{}, merged}
      <3>1. OncePerKey(t.body)
        BY <2>2, <2>5 DEF OncePerKey, Keys
      <3>2. UserData \in Keys(t.body) /\ At(t.body, UserData) = Map(merged)
        BY <2>5, <3>1, OnlyPair
      <3>3. Map(merged)[1] = "map" /\ Map(merged)[2] = merged
        BY DEF Map
      <3>4. CloudConfig(t) = merged
        BY <2>1, <3>2, <3>3 DEF CloudConfig
      <3>5. UserDataOf(t) \in {{}, merged}
        BY <3>2, <3>3, <3>4 DEF UserDataOf
      <3>6. OncePerKey({})
        BY DEF OncePerKey
      <3> QED BY <1>1, <2>1, <3>1, <3>4, <3>5, <3>6 DEF ReadsWell
    <2>8. ReadsWell(t) /\ CloudConfig(t) \in {{}, merged}
      <3>1. CASE t.body = installer
        BY <2>4, <3>1
      <3>2. CASE t.body = whole
        BY <2>5, <3>2
      <3> QED BY <2>3, <3>1, <3>2
    <2> QED BY <1>3, <2>7, <2>8 DEF merged, installer
  <1> QED BY <1>2, <1>3

LEMMA RenderedBody ==
  ASSUME NEW s, SeedRecord(s), NEW body, NEW t, t = Rendered(s, body)
  PROVE  t.mode = s.mode /\ t.body = body
  <1>1. CASE t = Dumped(s, body)
    BY <1>1, DumpedIs
  <1>2. CASE t = [s EXCEPT !.applied = @ + 1] /\ body = s.body
    BY <1>2 DEF SeedRecord
  <1>3. CASE t = Spliced(s, body)
    BY <1>3 DEF Spliced, SeedRecord
  <1> QED BY <1>1, <1>2, <1>3 DEF Rendered, SameMeaning

LEMMA RenderedGood ==
  ASSUME NEW s, GoodSeed(s), s.applied < MaxApplies, NEW body, NEW t, t = Rendered(s, body),
         \A u : u.mode = s.mode /\ u.body = body => ReadsWell(u)
  PROVE  GoodSeed(t)
  <1> USE DEF GoodSeed
  <1>1. CASE t = Dumped(s, body)
    BY <1>1, DumpedGood
  <1>2. CASE t = [s EXCEPT !.applied = @ + 1]
    <2>1. t = [mode |-> s.mode, body |-> s.body, header |-> s.header, block |-> s.block,
               inline |-> s.inline, lines |-> s.lines, applied |-> s.applied + 1]
      BY <1>2 DEF SeedRecord
    <2>2. s.applied + 1 \in 0..MaxApplies
      BY EditorAssumption
    <2>3. ReadsWell(t)
      BY <2>1, SameReading
    <2> QED BY <2>1, <2>2, <2>3 DEF SeedRecord
  <1>3. CASE t = Spliced(s, body)
    <2> DEFINE lines == {key \in s.lines \intersect Keys(body) :
                            SameMeaning(At(body, key), At(s.body, key))}
    <2>1. t = [mode |-> s.mode, body |-> body, header |-> s.header, block |-> s.block,
               inline |-> s.inline, lines |-> lines, applied |-> s.applied + 1]
      BY <1>3 DEF Spliced, SeedRecord
    <2>2. s.applied + 1 \in 0..MaxApplies
      BY EditorAssumption
    <2>3. lines \subseteq Keys(body)
      OBVIOUS
    <2> HIDE DEF lines
    <2> QED BY <2>1, <2>2, <2>3 DEF SeedRecord
  <1> QED BY <1>1, <1>2, <1>3 DEF Rendered

\* strip_autoinstall leaves a cloud-config that has each key once.
LEMMA StripGood ==
  ASSUME EditorInv, StripAutoinstall
  PROVE  GoodSeed(seed')
  <1> DEFINE body == Stripped(seed)
             t == Dumped(seed, body)
  <1>1. OncePerKey(body)
    <2>1. OncePerKey(UserDataOf(seed))
      BY DEF EditorInv, GoodSeed, ReadsWell, StripAutoinstall
    <2>2. \/ body = UserDataOf(seed)
          \/ \E v : body = Without(UserDataOf(seed), Runcmd) \union {<<Runcmd, v>>}
      BY DEF Stripped
    <2> HIDE DEF body
    <2>3. ASSUME NEW v, body = Without(UserDataOf(seed), Runcmd) \union {<<Runcmd, v>>}
          PROVE  OncePerKey(body)
      BY <2>1, <2>3, SetOnce
    <2> QED BY <2>1, <2>2, <2>3
  <1>3. seed' = [t EXCEPT !.mode = "cloud-config", !.applied = 0]
    BY DEF StripAutoinstall
  <1> HIDE DEF body
  <1>2. t = [mode |-> seed.mode, body |-> body, header |-> TRUE, block |-> TRUE,
             inline |-> FALSE, lines |-> {}, applied |-> seed.applied + 1]
    BY DumpedIs DEF EditorInv, GoodSeed
  <1> HIDE DEF t
  <1>4. seed' = [mode |-> "cloud-config", body |-> body, header |-> TRUE, block |-> TRUE,
                 inline |-> FALSE, lines |-> {}, applied |-> 0]
    BY <1>2, <1>3
  <1>5. 0 \in 0..MaxApplies
    BY EditorAssumption
  <1>6. SeedRecord(seed') /\ seed'.lines \subseteq Keys(seed'.body) /\ seed'.applied \in 0..MaxApplies
    BY <1>4, <1>5 DEF SeedRecord
  <1>7. ReadsWell(seed')
    BY <1>1, <1>4 DEF ReadsWell, CloudConfig
  <1> QED BY <1>6, <1>7 DEF GoodSeed

LEMMA SeedsAreGood ==
  ASSUME NEW s \in Seeds \union {Blank}
  PROVE  GoodSeed(s)
  <1>1. 0 \in 0..MaxApplies
    BY EditorAssumption
  <1>2. CASE s \in Seeds
    <2>1. s = Seed(s.mode, s.body, s.header, s.block, s.inline) /\ ReadsWell(s)
      BY <1>2, EditorAssumption DEF ReadsWell
    <2>2. /\ s.lines = Keys(s.body) /\ s.applied = 0
          /\ SeedRecord(s)
      BY <2>1 DEF Seed, SeedRecord
    <2> QED BY <1>1, <2>1, <2>2 DEF GoodSeed
  <1>3. CASE s = Blank
    <2>1. /\ s.mode = "cloud-config" /\ s.body = {} /\ s.lines = Keys({})
          /\ s.applied = 0 /\ SeedRecord(s)
      BY <1>3 DEF Blank, Seed, SeedRecord
    <2>2. ReadsWell(s)
      BY <2>1 DEF ReadsWell, CloudConfig, OncePerKey
    <2> QED BY <1>1, <2>1, <2>2 DEF GoodSeed
  <1> QED BY <1>2, <1>3

\* An edit of a page gives one part another value for one key.
LEMMA EditKeeps ==
  ASSUME EditorInv, NEW next, NEW key,
         Edit(next, key) \/ EditInstaller(next, key),
         GoodPage(next), next.edits = page.edits
  PROVE  EditorInv'
  <1>1. /\ page # Closed /\ page.edits < MaxFieldEdits /\ seed' = seed
        /\ page.edits \in 0..MaxFieldEdits
    BY DEF Edit, EditInstaller, EditorInv, GoodPage
  <1> DEFINE e == page'.edited
             i == page'.installerEdited
  <1>2. page' = [doc |-> next.doc, extra |-> next.extra, installer |-> next.installer,
                 installerExtra |-> next.installerExtra, edited |-> e,
                 installerEdited |-> i, edits |-> page.edits + 1]
    <2>1. CASE Edit(next, key)
      BY <2>1 DEF Edit, GoodPage, PageRecord
    <2>2. CASE EditInstaller(next, key)
      BY <2>2 DEF EditInstaller, GoodPage, PageRecord
    <2> QED BY <2>1, <2>2
  <1>3. page.edits + 1 \in 0..MaxFieldEdits
    BY <1>1, EditorAssumption
  <1> HIDE DEF e, i
  <1>4. GoodPage(page')
    BY <1>2, <1>3 DEF GoodPage, PageRecord
  <1> QED BY <1>1, <1>4 DEF EditorInv

LEMMA EditorStarts == Init => EditorInv
  BY SeedsAreGood DEF Init, EditorInit, EditorInv

LEMMA PageParts ==
  ASSUME NEW pg, PageRecord(pg), NEW map
  PROVE  /\ [pg EXCEPT !.doc = map] =
                [doc |-> map, extra |-> pg.extra, installer |-> pg.installer,
                 installerExtra |-> pg.installerExtra, edited |-> pg.edited,
                 installerEdited |-> pg.installerEdited, edits |-> pg.edits]
         /\ [pg EXCEPT !.extra = map] =
                [doc |-> pg.doc, extra |-> map, installer |-> pg.installer,
                 installerExtra |-> pg.installerExtra, edited |-> pg.edited,
                 installerEdited |-> pg.installerEdited, edits |-> pg.edits]
         /\ [pg EXCEPT !.installer = map] =
                [doc |-> pg.doc, extra |-> pg.extra, installer |-> map,
                 installerExtra |-> pg.installerExtra, edited |-> pg.edited,
                 installerEdited |-> pg.installerEdited, edits |-> pg.edits]
         /\ [pg EXCEPT !.installerExtra = map] =
                [doc |-> pg.doc, extra |-> pg.extra, installer |-> pg.installer,
                 installerExtra |-> map, edited |-> pg.edited,
                 installerEdited |-> pg.installerEdited, edits |-> pg.edits]
  BY DEF PageRecord

\* One part of a page is replaced by one that has each key once.
LEMMA PageSet ==
  ASSUME NEW pg, GoodPage(pg), NEW map, OncePerKey(map)
  PROVE  /\ GoodPage([pg EXCEPT !.doc = map]) /\ [pg EXCEPT !.doc = map].edits = pg.edits
         /\ GoodPage([pg EXCEPT !.extra = map]) /\ [pg EXCEPT !.extra = map].edits = pg.edits
         /\ /\ UserData \notin Keys(map) => GoodPage([pg EXCEPT !.installer = map])
            /\ [pg EXCEPT !.installer = map].edits = pg.edits
         /\ /\ GoodPage([pg EXCEPT !.installerExtra = map])
            /\ [pg EXCEPT !.installerExtra = map].edits = pg.edits
  <1> USE PageParts DEF GoodPage
  <1>1. PageRecord(pg)
    OBVIOUS
  <1>2. GoodPage([pg EXCEPT !.doc = map]) /\ [pg EXCEPT !.doc = map].edits = pg.edits
    BY <1>1 DEF PageRecord
  <1>3. GoodPage([pg EXCEPT !.extra = map]) /\ [pg EXCEPT !.extra = map].edits = pg.edits
    BY <1>1 DEF PageRecord
  <1>4. /\ UserData \notin Keys(map) => GoodPage([pg EXCEPT !.installer = map])
        /\ [pg EXCEPT !.installer = map].edits = pg.edits
    BY <1>1 DEF PageRecord
  <1>5. /\ GoodPage([pg EXCEPT !.installerExtra = map])
        /\ [pg EXCEPT !.installerExtra = map].edits = pg.edits
    BY <1>1 DEF PageRecord
  <1> QED BY <1>2, <1>3, <1>4, <1>5

LEMMA EditsKeep ==
  ASSUME EditorInv, NEW key, NEW v,
         \/ TypeInField(key, v) \/ ClearField(key) \/ TypeInYaml(key, v) \/ ClearYaml(key)
         \/ TypeInInstaller(key, v) /\ key # UserData
         \/ ClearInstaller(key) \/ TypeInInstallerYaml(key, v)
  PROVE  EditorInv'
  <1>1. page # Closed
    BY DEF TypeInField, ClearField, TypeInYaml, ClearYaml, TypeInInstaller, ClearInstaller,
       TypeInInstallerYaml, Edit, EditInstaller
  <1>2. GoodPage(page)
    BY <1>1 DEF EditorInv
  <1>3. /\ OncePerKey(page.doc) /\ OncePerKey(page.extra)
        /\ OncePerKey(page.installer) /\ OncePerKey(page.installerExtra)
        /\ UserData \notin Keys(page.installer)
    BY <1>2 DEF GoodPage
  <1>4. ASSUME NEW map, OncePerKey(map)
        PROVE  /\ OncePerKey(Without(map, key))
               /\ OncePerKey(Without(map, key) \union {<<key, v>>})
               /\ Keys(Without(map, key)) \subseteq Keys(map)
               /\ Keys(Without(map, key) \union {<<key, v>>}) \subseteq Keys(map) \union {key}
    BY <1>4, SetOnce
  <1>5. PICK next :
            /\ Edit(next, key) \/ EditInstaller(next, key)
            /\ GoodPage(next) /\ next.edits = page.edits
    <2>1. CASE TypeInField(key, v)
      <3>1. PICK map : map = Without(page.doc, key) \union {<<key, v>>}
        OBVIOUS
      <3>2. Edit([page EXCEPT !.doc = map], key)
        BY <2>1, <3>1 DEF TypeInField
      <3>3. OncePerKey(map) /\ Keys(map) \subseteq Keys(page.doc) \union {key}
        BY <1>3, <1>4, <3>1
      <3> QED BY <1>2, <3>2, <3>3, PageSet
    <2>2. CASE ClearField(key)
      <3>1. PICK map : map = Without(page.doc, key)
        OBVIOUS
      <3>2. Edit([page EXCEPT !.doc = map], key)
        BY <2>2, <3>1 DEF ClearField
      <3>3. OncePerKey(map) /\ Keys(map) \subseteq Keys(page.doc) \union {key}
        BY <1>3, <1>4, <3>1
      <3> QED BY <1>2, <3>2, <3>3, PageSet
    <2>3. CASE TypeInYaml(key, v)
      <3>1. PICK map : map = Without(page.extra, key) \union {<<key, v>>}
        OBVIOUS
      <3>2. Edit([page EXCEPT !.extra = map], key)
        BY <2>3, <3>1 DEF TypeInYaml
      <3>3. OncePerKey(map) /\ Keys(map) \subseteq Keys(page.extra) \union {key}
        BY <1>3, <1>4, <3>1
      <3> QED BY <1>2, <3>2, <3>3, PageSet
    <2>4. CASE ClearYaml(key)
      <3>1. PICK map : map = Without(page.extra, key)
        OBVIOUS
      <3>2. Edit([page EXCEPT !.extra = map], key)
        BY <2>4, <3>1 DEF ClearYaml
      <3>3. OncePerKey(map) /\ Keys(map) \subseteq Keys(page.extra) \union {key}
        BY <1>3, <1>4, <3>1
      <3> QED BY <1>2, <3>2, <3>3, PageSet
    <2>5. CASE TypeInInstaller(key, v) /\ key # UserData
      <3>1. PICK map : map = Without(page.installer, key) \union {<<key, v>>}
        OBVIOUS
      <3>2. EditInstaller([page EXCEPT !.installer = map], key)
        BY <2>5, <3>1 DEF TypeInInstaller
      <3>3. OncePerKey(map) /\ Keys(map) \subseteq Keys(page.installer) \union {key}
        BY <1>3, <1>4, <3>1
      <3>4. UserData \notin Keys(map)
        BY <1>3, <1>4, <2>5, <3>1
      <3> QED BY <1>2, <3>4, <3>2, <3>3, PageSet
    <2>6. CASE ClearInstaller(key)
      <3>1. PICK map : map = Without(page.installer, key)
        OBVIOUS
      <3>2. EditInstaller([page EXCEPT !.installer = map], key)
        BY <2>6, <3>1 DEF ClearInstaller
      <3>3. OncePerKey(map) /\ Keys(map) \subseteq Keys(page.installer) \union {key}
        BY <1>3, <1>4, <3>1
      <3>4. UserData \notin Keys(map)
        BY <1>3, <1>4, <2>6, <3>1
      <3> QED BY <1>2, <3>4, <3>2, <3>3, PageSet
    <2>7. CASE TypeInInstallerYaml(key, v)
      <3>1. PICK map : map = Without(page.installerExtra, key) \union {<<key, v>>}
        OBVIOUS
      <3>2. EditInstaller([page EXCEPT !.installerExtra = map], key)
        BY <2>7, <3>1 DEF TypeInInstallerYaml
      <3>3. OncePerKey(map) /\ Keys(map) \subseteq Keys(page.installerExtra) \union {key}
        BY <1>3, <1>4, <3>1
      <3> QED BY <1>2, <3>2, <3>3, PageSet
    <2> QED BY <2>1, <2>2, <2>3, <2>4, <2>5, <2>6, <2>7
  <1> QED BY <1>5, EditKeeps

LEMMA EditorKeeps == EditorInv /\ [EditorNext]_editorVars => EditorInv'
  <1> SUFFICES ASSUME EditorInv, [EditorNext]_editorVars PROVE EditorInv'
    OBVIOUS
  <1>1. CASE OpenEditor
    <2>1. page' = PageOf(seed) /\ seed' = seed /\ seed.applied < MaxApplies
      BY <1>1 DEF OpenEditor
    <2>2. GoodPage(PageOf(seed))
      BY PageIsGood DEF EditorInv
    <2> QED BY <2>1, <2>2 DEF EditorInv
  <1>2. CASE CloseEditor
    BY <1>2 DEF CloseEditor, EditorInv
  <1>3. CASE StripAutoinstall
    <2>1. page' = Closed
      BY <1>3 DEF StripAutoinstall
    <2> QED BY <1>3, <2>1, StripGood DEF EditorInv
  <1>4. ASSUME NEW posted \in BOOLEAN, ApplyEditor(posted) PROVE EditorInv'
    <2>1. /\ GoodSeed(seed) /\ GoodPage(page) /\ seed.applied < MaxApplies
          /\ ~Refuses(seed, page, posted) /\ page' = Closed
          /\ seed' = Rendered(seed, Built(seed, page, posted))
      BY <1>4 DEF ApplyEditor, EditorInv
    <2>2. \A u : u.mode = seed.mode /\ u.body = Built(seed, page, posted) => ReadsWell(u)
      BY <2>1, BuiltReads
    <2>3. GoodSeed(seed')
      BY <2>1, <2>2, RenderedGood
    <2> QED BY <2>1, <2>3 DEF EditorInv
  <1>5. ASSUME NEW posted \in BOOLEAN, ApplyRefused(posted) PROVE EditorInv'
    BY <1>5 DEF ApplyRefused, editorVars, EditorInv
  <1>6. ASSUME NEW edit \in Edits, TypeInField(edit[1], edit[2]) PROVE EditorInv'
    BY <1>6, EditsKeep
  <1>7. ASSUME NEW edit \in YamlEdits, TypeInYaml(edit[1], edit[2]) PROVE EditorInv'
    BY <1>7, EditsKeep
  <1>8. ASSUME NEW edit \in InstallerEdits, TypeInInstaller(edit[1], edit[2]) PROVE EditorInv'
    <2>1. edit[1] # UserData
      BY EditorAssumption DEF InstallerFields, UserData
    <2> QED BY <1>8, <2>1, EditsKeep
  <1>9. ASSUME NEW edit \in InstallerYamlEdits, TypeInInstallerYaml(edit[1], edit[2])
        PROVE  EditorInv'
    BY <1>9, EditsKeep
  <1>10. ASSUME NEW key, ClearField(key) \/ ClearYaml(key) \/ ClearInstaller(key)
         PROVE  EditorInv'
    BY <1>10, EditsKeep
  <1>11. CASE UNCHANGED editorVars
    BY <1>11 DEF editorVars, EditorInv
  <1> QED BY <1>1, <1>2, <1>3, <1>4, <1>5, <1>6, <1>7, <1>8, <1>9, <1>10, <1>11
    DEF EditorNext
-----------------------------------------------------------------------------
(* Literal passwords *)

\* One level of what is found: all of it, what is not a secret, and what is in
\* lines
Inside(found) == UNION {Held(x) : x \in found}
Openly(found) == UNION {HeldOpenly(x) : x \in found}
InLines(found) == UNION {HeldInLines(x) : x \in found}

LEMMA Levels ==
  ASSUME NEW v
  PROVE  \E a, b, c, d, e :
             /\ a = Inside({v}) /\ b = Inside(a) /\ c = Inside(b)
             /\ d = Inside(c) /\ e = Inside(d)
             /\ Within(v, Held) =
                    {v} \union a \union b \union c \union d \union e \union Inside(e)
  BY DEF Within, Inside

LEMMA OpenLevels ==
  ASSUME NEW v
  PROVE  \E a, b, c, d, e :
             /\ a = Openly({v}) /\ b = Openly(a) /\ c = Openly(b)
             /\ d = Openly(c) /\ e = Openly(d)
             /\ Within(v, HeldOpenly) =
                    {v} \union a \union b \union c \union d \union e \union Openly(e)
  BY DEF Within, Openly

LEMMA LineLevels ==
  ASSUME NEW v
  PROVE  \E a, b, c, d, e :
             /\ a = InLines({v}) /\ b = InLines(a) /\ c = InLines(b)
             /\ d = InLines(c) /\ e = InLines(d)
             /\ Within(v, HeldInLines) =
                    {v} \union a \union b \union c \union d \union e \union InLines(e)
  BY DEF Within, InLines

\* What is in a part of two mappings is in one of them.
LEMMA WithinPart ==
  ASSUME NEW A, NEW B, NEW S, S \subseteq A \union B
  PROVE  Within(Map(S), Held) \subseteq
             {Map(S)} \union Within(Map(A), Held) \union Within(Map(B), Held)
  <1>1. PICK a, b, c, d, e :
             /\ a = Inside({Map(S)}) /\ b = Inside(a) /\ c = Inside(b)
             /\ d = Inside(c) /\ e = Inside(d)
             /\ Within(Map(S), Held) =
                    {Map(S)} \union a \union b \union c \union d \union e \union Inside(e)
    BY Levels
  <1>2. PICK a1, b1, c1, d1, e1 :
             /\ a1 = Inside({Map(A)}) /\ b1 = Inside(a1) /\ c1 = Inside(b1)
             /\ d1 = Inside(c1) /\ e1 = Inside(d1)
             /\ Within(Map(A), Held) =
                    {Map(A)} \union a1 \union b1 \union c1 \union d1 \union e1 \union Inside(e1)
    BY Levels
  <1>3. PICK a2, b2, c2, d2, e2 :
             /\ a2 = Inside({Map(B)}) /\ b2 = Inside(a2) /\ c2 = Inside(b2)
             /\ d2 = Inside(c2) /\ e2 = Inside(d2)
             /\ Within(Map(B), Held) =
                    {Map(B)} \union a2 \union b2 \union c2 \union d2 \union e2 \union Inside(e2)
    BY Levels
  <1>4. ASSUME NEW F, NEW G, NEW H, F \subseteq G \union H
        PROVE  Inside(F) \subseteq Inside(G) \union Inside(H)
    BY <1>4 DEF Inside
  <1>5. a \subseteq a1 \union a2
    <2>1. a = Held(Map(S)) /\ a1 = Held(Map(A)) /\ a2 = Held(Map(B))
      BY <1>1, <1>2, <1>3 DEF Inside
    <2>2. \A M : Held(Map(M)) = {pair[2] : pair \in M}
      BY DEF Held, Map
    <2> QED BY <2>1, <2>2
  <1>6. b \subseteq b1 \union b2
    <2>1. b = Inside(a) /\ b1 = Inside(a1) /\ b2 = Inside(a2)
      BY <1>1, <1>2, <1>3
    <2> QED BY <1>4, <1>5, <2>1
  <1>7. c \subseteq c1 \union c2
    <2>1. c = Inside(b) /\ c1 = Inside(b1) /\ c2 = Inside(b2)
      BY <1>1, <1>2, <1>3
    <2> QED BY <1>4, <1>6, <2>1
  <1>8. d \subseteq d1 \union d2
    <2>1. d = Inside(c) /\ d1 = Inside(c1) /\ d2 = Inside(c2)
      BY <1>1, <1>2, <1>3
    <2> QED BY <1>4, <1>7, <2>1
  <1>9. e \subseteq e1 \union e2
    <2>1. e = Inside(d) /\ e1 = Inside(d1) /\ e2 = Inside(d2)
      BY <1>1, <1>2, <1>3
    <2> QED BY <1>4, <1>8, <2>1
  <1>10. Inside(e) \subseteq Inside(e1) \union Inside(e2)
    BY <1>4, <1>9
  <1>11. ASSUME NEW x \in Within(Map(S), Held)
         PROVE  x = Map(S) \/ x \in Within(Map(A), Held) \/ x \in Within(Map(B), Held)
    <2>1. \/ x = Map(S) \/ x \in a \/ x \in b \/ x \in c \/ x \in d \/ x \in e
          \/ x \in Inside(e)
      BY <1>1, <1>11
    <2>2. /\ a1 \subseteq Within(Map(A), Held) /\ b1 \subseteq Within(Map(A), Held)
          /\ c1 \subseteq Within(Map(A), Held) /\ d1 \subseteq Within(Map(A), Held)
          /\ e1 \subseteq Within(Map(A), Held) /\ Inside(e1) \subseteq Within(Map(A), Held)
      BY <1>2
    <2>3. /\ a2 \subseteq Within(Map(B), Held) /\ b2 \subseteq Within(Map(B), Held)
          /\ c2 \subseteq Within(Map(B), Held) /\ d2 \subseteq Within(Map(B), Held)
          /\ e2 \subseteq Within(Map(B), Held) /\ Inside(e2) \subseteq Within(Map(B), Held)
      BY <1>3
    <2> QED BY <1>5, <1>6, <1>7, <1>8, <1>9, <1>10, <2>1, <2>2, <2>3
  <1> QED BY <1>11

\* A part of two mappings without secrets has none.
LEMMA PartIsSafe ==
  ASSUME NEW A, NEW B, NEW S, S \subseteq A \union B
  PROVE  /\ ~Unsafe(A) /\ ~Unsafe(B) => ~Unsafe(S)
         /\ ~UnsafeInstaller(A) /\ ~UnsafeInstaller(B) => ~UnsafeInstaller(S)
  <1>1. \A M : Map(M) \in Within(Map(M), Held)
    BY Levels
  <1>2. ASSUME Unsafe(S) PROVE Unsafe(A) \/ Unsafe(B)
    <2>1. PICK x \in Within(Map(S), Held) :
              /\ x[1] = "map"
              /\ \E pair \in x[2] : pair[1] \in CredentialKeys /\ Literal(pair[1], pair[2])
      BY <1>2 DEF Unsafe, Smuggled
    <2>2. CASE x = Map(S)
      <3>1. PICK pair \in S : pair[1] \in CredentialKeys /\ Literal(pair[1], pair[2])
        BY <2>1, <2>2 DEF Map
      <3>2. Map(A)[1] = "map" /\ Map(A)[2] = A /\ Map(B)[1] = "map" /\ Map(B)[2] = B
        BY DEF Map
      <3> QED BY <1>1, <3>1, <3>2 DEF Unsafe, Smuggled
    <2>3. CASE x # Map(S)
      BY <2>1, <2>3, WithinPart DEF Unsafe, Smuggled
    <2> QED BY <2>2, <2>3
  <1>3. ASSUME HasSecret(Map(S)) PROVE HasSecret(Map(A)) \/ HasSecret(Map(B))
    <2>1. SecretLine # Map(S)
      BY DEF SecretLine, Str, Map
    <2> QED BY <1>3, <2>1, WithinPart DEF HasSecret
  <1> QED BY <1>2, <1>3 DEF UnsafeInstaller

LEMMA NothingIsSafe == ~UnsafeInstaller({}) /\ ~Unsafe({})
  <1>1. Inside({Map({})}) = {} /\ Inside({}) = {}
    BY DEF Inside, Held, Map
  <1>2. Within(Map({}), Held) = {Map({})}
    BY <1>1, Levels
  <1>3. SecretLine # Map({}) /\ Map({})[2] = {}
    BY DEF SecretLine, Str, Map
  <1> QED BY <1>2, <1>3 DEF UnsafeInstaller, Unsafe, Smuggled, HasSecret

\* A line is looked for in all that a value holds.
LEMMA WithinLines ==
  ASSUME NEW v
  PROVE  Within(v, Held) \subseteq Within(v, HeldInLines)
  <1>1. PICK a, b, c, d, e :
             /\ a = Inside({v}) /\ b = Inside(a) /\ c = Inside(b)
             /\ d = Inside(c) /\ e = Inside(d)
             /\ Within(v, Held) =
                    {v} \union a \union b \union c \union d \union e
                        \union Inside(e)
    BY Levels
  <1>2. PICK a1, b1, c1, d1, e1 :
             /\ a1 = InLines({v}) /\ b1 = InLines(a1) /\ c1 = InLines(b1)
             /\ d1 = InLines(c1) /\ e1 = InLines(d1)
             /\ Within(v, HeldInLines) =
                    {v} \union a1 \union b1 \union c1 \union d1 \union e1
                        \union InLines(e1)
    BY LineLevels
  <1>3. \A x : Held(x) \subseteq HeldInLines(x)
    BY DEF Held, HeldInLines
  <1>4. ASSUME NEW F, NEW G, F \subseteq G PROVE Inside(F) \subseteq InLines(G)
    BY <1>3, <1>4 DEF Inside, InLines
  <1>5. a \subseteq a1
    <2>1. a = Inside({v}) /\ a1 = InLines({v})
      BY <1>1, <1>2
    <2> QED BY <1>4, <2>1
  <1>6. b \subseteq b1
    <2>1. b = Inside(a) /\ b1 = InLines(a1)
      BY <1>1, <1>2
    <2> QED BY <1>4, <1>5, <2>1
  <1>7. c \subseteq c1
    <2>1. c = Inside(b) /\ c1 = InLines(b1)
      BY <1>1, <1>2
    <2> QED BY <1>4, <1>6, <2>1
  <1>8. d \subseteq d1
    <2>1. d = Inside(c) /\ d1 = InLines(c1)
      BY <1>1, <1>2
    <2> QED BY <1>4, <1>7, <2>1
  <1>9. e \subseteq e1
    <2>1. e = Inside(d) /\ e1 = InLines(d1)
      BY <1>1, <1>2
    <2> QED BY <1>4, <1>8, <2>1
  <1>10. Inside(e) \subseteq InLines(e1)
    BY <1>4, <1>9
  <1> QED BY <1>1, <1>2, <1>5, <1>6, <1>7, <1>8, <1>9, <1>10

\* Under a secret's name there is nothing to look into.
Leaves == {Null, Str(""), Str("{{password}}"), Str("$6$hash")}

LEMMA LeavesHoldNothing ==
  ASSUME NEW x \in Leaves
  PROVE  Held(x) = {} /\ x[1] # "map"
  <1>1. Null[1] = "null" /\ \A t : Str(t)[1] = "str"
    BY DEF Null, Str
  <1>2. x[1] # "list" /\ x[1] # "map"
    BY <1>1, "null" # "list", "null" # "map", "str" # "list", "str" # "map" DEF Leaves
  <1> QED BY <1>2 DEF Held

\* What is in a value without a secret is found, but for what its secret keys
\* may have.
LEMMA WithinOpenly ==
  ASSUME NEW v, ~FlowSecret(v)
  PROVE  Within(v, Held) \subseteq Within(v, HeldOpenly) \union Leaves
  <1>1. PICK a, b, c, d, e :
             /\ a = Inside({v}) /\ b = Inside(a) /\ c = Inside(b)
             /\ d = Inside(c) /\ e = Inside(d)
             /\ Within(v, Held) =
                    {v} \union a \union b \union c \union d \union e
                        \union Inside(e)
    BY Levels
  <1>2. PICK a1, b1, c1, d1, e1 :
             /\ a1 = Openly({v}) /\ b1 = Openly(a1) /\ c1 = Openly(b1)
             /\ d1 = Openly(c1) /\ e1 = Openly(d1)
             /\ Within(v, HeldOpenly) =
                    {v} \union a1 \union b1 \union c1 \union d1 \union e1
                        \union Openly(e1)
    BY OpenLevels
  <1>3. ASSUME NEW x \in Within(v, HeldOpenly)
        PROVE  Held(x) \subseteq HeldOpenly(x) \union Leaves
    <2>1. CASE x[1] # "map"
      BY <2>1 DEF HeldOpenly
    <2>2. CASE x[1] = "map"
      <3>1. \A p \in x[2] : p[1] \in SecretKeys => p[2] \in Leaves
        BY <2>2 DEF FlowSecret, Crypted, Leaves
      <3>2. Held(x) = {pair[2] : pair \in x[2]}
        BY <2>2 DEF Held
      <3>3. HeldOpenly(x) = {p[2] : p \in {q \in x[2] : q[1] \notin SecretKeys}}
        BY <2>2 DEF HeldOpenly
      <3> QED BY <3>1, <3>2, <3>3
    <2> QED BY <2>1, <2>2
  <1>4. ASSUME NEW F, NEW G, F \subseteq G \union Leaves, G \subseteq Within(v, HeldOpenly)
        PROVE  Inside(F) \subseteq Openly(G) \union Leaves
    <2> SUFFICES ASSUME NEW x \in F, NEW y \in Held(x) PROVE y \in Openly(G) \union Leaves
      BY DEF Inside
    <2>1. x \in G
      BY <1>4, LeavesHoldNothing
    <2>2. y \in HeldOpenly(x) \union Leaves
      BY <1>3, <1>4, <2>1
    <2> QED BY <2>1, <2>2 DEF Openly
  <1>5. a \subseteq a1 \union Leaves
    <2>1. a = Inside({v}) /\ a1 = Openly({v}) /\ {v} \subseteq Within(v, HeldOpenly)
      BY <1>1, <1>2
    <2> QED BY <1>4, <2>1
  <1>6. b \subseteq b1 \union Leaves
    <2>1. b = Inside(a) /\ b1 = Openly(a1) /\ a1 \subseteq Within(v, HeldOpenly)
      BY <1>1, <1>2
    <2> QED BY <1>4, <1>5, <2>1
  <1>7. c \subseteq c1 \union Leaves
    <2>1. c = Inside(b) /\ c1 = Openly(b1) /\ b1 \subseteq Within(v, HeldOpenly)
      BY <1>1, <1>2
    <2> QED BY <1>4, <1>6, <2>1
  <1>8. d \subseteq d1 \union Leaves
    <2>1. d = Inside(c) /\ d1 = Openly(c1) /\ c1 \subseteq Within(v, HeldOpenly)
      BY <1>1, <1>2
    <2> QED BY <1>4, <1>7, <2>1
  <1>9. e \subseteq e1 \union Leaves
    <2>1. e = Inside(d) /\ e1 = Openly(d1) /\ d1 \subseteq Within(v, HeldOpenly)
      BY <1>1, <1>2
    <2> QED BY <1>4, <1>8, <2>1
  <1>10. Inside(e) \subseteq Openly(e1) \union Leaves
    <2>1. e1 \subseteq Within(v, HeldOpenly)
      BY <1>2
    <2> QED BY <1>4, <1>9, <2>1
  <1>11. {v} \union a1 \union b1 \union c1 \union d1 \union e1 \union Openly(e1)
             \subseteq Within(v, HeldOpenly)
    BY <1>2
  <1>12. ASSUME NEW x \in Within(v, Held) PROVE x \in Within(v, HeldOpenly) \union Leaves
    <2>1. \/ x = v \/ x \in a \/ x \in b \/ x \in c \/ x \in d \/ x \in e \/ x \in Inside(e)
      BY <1>1, <1>12
    <2> QED BY <1>5, <1>6, <1>7, <1>8, <1>9, <1>10, <1>11, <2>1
  <1> QED BY <1>12

\* What can be saved has no literal password, and no line with one.
LEMMA SavableIsSafe ==
  ASSUME NEW body, NEW block, Savable(body, block)
  PROVE  ~UnsafeInstaller(body)
  <1>1. ~FlowSecret(Map(body))
    BY DEF Savable
  <1>2. ~Smuggled(Map(body))
    <2> SUFFICES ASSUME NEW x \in Within(Map(body), Held), x[1] = "map",
                        NEW pair \in x[2], pair[1] \in CredentialKeys,
                        Literal(pair[1], pair[2])
                 PROVE  FALSE
      BY DEF Smuggled
    <2>1. x \in Within(Map(body), HeldOpenly)
      BY <1>1, WithinOpenly, LeavesHoldNothing
    <2>2. pair[1] \in SecretKeys
      BY DEF SecretKeys
    <2>3. /\ pair[2] \notin {Null, Str(""), Str("{{password}}")}
          /\ ~Crypted(pair[1], pair[2])
      BY DEF Literal, IsEmpty, Crypted
    <2> QED BY <1>1, <2>1, <2>2, <2>3 DEF FlowSecret
  <1>3. ~HasSecret(Map(body))
    <2>1. CASE block
      BY <2>1, WithinLines DEF Savable, LineSecret, HasSecret
    <2>2. CASE ~block
      BY <2>2 DEF Savable
    <2> QED BY <2>1, <2>2
  <1> QED BY <1>2, <1>3 DEF UnsafeInstaller, Unsafe

(***************************************************************************)
(* What an apply makes of a seed has no literal password: the parts of the *)
(* page are checked one by one, and what is not checked was in the seed    *)
(* before.                                                                 *)
(***************************************************************************)
LEMMA BuiltIsSafe ==
  ASSUME NEW s, GoodSeed(s), ~UnsafeInstaller(Installer(s)),
         NEW pg, GoodPage(pg), NEW posted \in BOOLEAN, ~Refuses(s, pg, posted),
         NEW t, t.mode = s.mode, t.body = Built(s, pg, posted)
  PROVE  ~Unsafe(CloudConfig(t)) /\ ~UnsafeInstaller(Installer(t))
  <1>1. ~Unsafe(Merged(pg))
    <2>1. ~Unsafe(Pruned(pg.doc)) /\ ~Unsafe(pg.extra)
      BY DEF Refuses, CloudConfigRefused
    <2> QED BY <2>1, PartIsSafe DEF Merged
  <1>2. ASSUME s.mode = "autoinstall", posted
        PROVE  ~UnsafeInstaller(InstallerOf(s, pg, posted))
    <2> DEFINE original == Installer(s)
               pairs == InstallerPairs(pg, original)
    <2>1. ~InstallerRefused(pg, original)
      BY <1>2 DEF Refuses
    <2>2. ~UnsafeInstaller(pairs \ original)
      BY <2>1 DEF InstallerRefused
    <2>3. ~UnsafeInstaller(pairs)
      <3>1. pairs \subseteq (pairs \ original) \union original
        OBVIOUS
      <3> HIDE DEF pairs, original
      <3>2. ~UnsafeInstaller(original)
        BY DEF original
      <3> QED BY <2>2, <3>1, <3>2, PartIsSafe
    <2>4. ~UnsafeInstaller(pg.installerExtra)
      <3>1. InstallerRest(original) \subseteq original \union original
        BY DEF InstallerRest
      <3>2. ~UnsafeInstaller(InstallerRest(original))
        BY <3>1, PartIsSafe
      <3> QED BY <2>1, <3>2 DEF InstallerRefused
    <2> QED BY <1>2, <2>3, <2>4, PartIsSafe DEF InstallerOf
  <1>3. /\ CloudConfig(t) \in {{}, Merged(pg)}
        /\ Installer(t) = IF s.mode = "cloud-config" THEN {} ELSE InstallerOf(s, pg, posted)
    BY BuiltReads
  <1>4. ~Unsafe(CloudConfig(t))
    BY <1>1, <1>3, NothingIsSafe
  <1>5. ~UnsafeInstaller(Installer(t))
    <2>1. CASE s.mode = "cloud-config"
      BY <1>3, <2>1, NothingIsSafe
    <2>2. CASE s.mode # "cloud-config" /\ posted
      BY <1>2, <1>3, <2>2 DEF GoodSeed, ReadsWell
    <2>3. CASE s.mode # "cloud-config" /\ ~posted
      BY <1>3, <2>3 DEF InstallerOf
    <2> QED BY <2>1, <2>2, <2>3
  <1> QED BY <1>4, <1>5

(***************************************************************************)
(* The second invariant: the installer's section of the seed has no        *)
(* literal password.  It had none when the seed was saved, an apply checks *)
(* what it changes of it, and a seed that is stripped has no such section. *)
(***************************************************************************)
InstallerIsSafe == ~UnsafeInstaller(Installer(seed))

LEMMA SafeStarts == Init => InstallerIsSafe
  <1> SUFFICES ASSUME Init PROVE InstallerIsSafe
    OBVIOUS
  <1>1. CASE seed \in Seeds
    <2>1. ~UnsafeInstaller(seed.body)
      BY <1>1, EditorAssumption, SavableIsSafe
    <2>2. Installer(seed) \subseteq seed.body \union seed.body
      BY DEF Installer, Without
    <2> QED BY <2>1, <2>2, PartIsSafe DEF InstallerIsSafe
  <1>2. CASE seed = Blank
    <2>1. Installer(seed) = {}
      BY <1>2 DEF Blank, Seed, Installer
    <2> QED BY <2>1, NothingIsSafe DEF InstallerIsSafe
  <1> QED BY <1>1, <1>2 DEF Init, EditorInit

LEMMA AppliedIsSafe ==
  ASSUME EditorInv, InstallerIsSafe, NEW posted \in BOOLEAN, ApplyEditor(posted)
  PROVE  ~Unsafe(CloudConfig(seed')) /\ ~UnsafeInstaller(Installer(seed'))
  <1>1. /\ GoodSeed(seed) /\ GoodPage(page) /\ ~Refuses(seed, page, posted)
        /\ seed' = Rendered(seed, Built(seed, page, posted))
    BY DEF ApplyEditor, EditorInv
  <1>2. seed'.mode = seed.mode /\ seed'.body = Built(seed, page, posted)
    BY <1>1, RenderedBody DEF GoodSeed
  <1> QED BY <1>1, <1>2, BuiltIsSafe DEF InstallerIsSafe

LEMMA SafeKept == EditorInv /\ InstallerIsSafe /\ [EditorNext]_editorVars => InstallerIsSafe'
  <1> SUFFICES ASSUME EditorInv, InstallerIsSafe, [EditorNext]_editorVars
               PROVE  InstallerIsSafe'
    OBVIOUS
  <1>1. ASSUME NEW posted \in BOOLEAN, ApplyEditor(posted) PROVE InstallerIsSafe'
    BY <1>1, AppliedIsSafe DEF InstallerIsSafe
  <1>2. CASE StripAutoinstall
    <2>1. PICK t : t = Dumped(seed, Stripped(seed))
      OBVIOUS
    <2>2. t = [mode |-> seed.mode, body |-> t.body, header |-> TRUE, block |-> TRUE,
               inline |-> FALSE, lines |-> {}, applied |-> t.applied]
      BY <2>1, DumpedIs DEF EditorInv, GoodSeed
    <2>3. seed' = [t EXCEPT !.mode = "cloud-config", !.applied = 0]
      BY <1>2, <2>1 DEF StripAutoinstall
    <2>4. seed'.mode = "cloud-config"
      BY <2>2, <2>3
    <2>5. Installer(seed') = {}
      BY <2>4 DEF Installer
    <2> QED BY <2>5, NothingIsSafe DEF InstallerIsSafe
  <1>3. ASSUME seed' = seed PROVE InstallerIsSafe'
    BY <1>3 DEF InstallerIsSafe
  <1>4. CASE \/ OpenEditor \/ CloseEditor \/ UNCHANGED editorVars
             \/ \E posted \in BOOLEAN : ApplyRefused(posted)
    BY <1>3, <1>4 DEF OpenEditor, CloseEditor, ApplyRefused, editorVars
  <1>5. ASSUME NEW key, NEW v,
               \/ TypeInField(key, v) \/ TypeInYaml(key, v)
               \/ TypeInInstaller(key, v) \/ TypeInInstallerYaml(key, v)
               \/ ClearField(key) \/ ClearYaml(key) \/ ClearInstaller(key)
        PROVE  InstallerIsSafe'
    BY <1>3, <1>5 DEF TypeInField, ClearField, TypeInYaml, ClearYaml, TypeInInstaller,
       ClearInstaller, TypeInInstallerYaml, Edit, EditInstaller
  <1> QED BY <1>1, <1>2, <1>4, <1>5 DEF EditorNext

(***************************************************************************)
(* No apply writes a literal password, whatever is typed in the fields, in *)
(* Other keys, in Advanced YAML and in the installer's part, for any seeds *)
(* and edits: what an apply changes is checked                             *)
(* (_check_top_credentials, _check_installer_value), and what it keeps was *)
(* checked when the seed was saved.                                        *)
(***************************************************************************)
THEOREM NoLiteralPasses == Spec => NoLiteralWritten
  <1>1. EditorInv /\ InstallerIsSafe /\ [Next]_consoleVars =>
            [\A posted \in BOOLEAN : ApplyEditor(posted) =>
                ~Unsafe(CloudConfig(seed')) /\ ~UnsafeInstaller(Installer(seed'))]_editorVars
    BY AppliedIsSafe
  <1> QED BY <1>1, PartSteps, EditorStarts, EditorKeeps, SafeStarts, SafeKept, PTL
    DEF Spec, NoLiteralWritten

(***************************************************************************)
(* Rows, seed files, the tasks of handlers and the open page are typed,    *)
(* for any constants; no two rows share an address or a UUID, and a seed   *)
(* and a page have each key once, whatever is edited.                      *)
(***************************************************************************)
THEOREM ConsoleTypesHold == Spec => []TypeOK
  <1> DEFINE Focused == focus \in {"identity", "seeds", "editor"}
  <1>1. Init => Focused
    BY DEF Init
  <1>2. Focused /\ [Next]_consoleVars => Focused'
    BY PartSteps
  <1>3. IdentityInv => IdentityTypeOK
    BY DEF IdentityInv, IdentityTypes, IdentityRows, Tasks, IdentityTypeOK
  <1>4. SeedInv => SeedTypeOK
    BY DEF SeedInv, SeedTypes, SeedTasks, MachineRows, SeedTypeOK
  <1>5. EditorInv => EditorTypeOK
    BY DEF EditorInv, GoodSeed, GoodPage, ReadsWell, EditorTypeOK
  <1>6. Focused /\ IdentityInv /\ SeedInv /\ EditorInv => TypeOK
    BY <1>3, <1>4, <1>5 DEF TypeOK
  <1>7. Spec => []EditorInv
    BY PartSteps, EditorStarts, EditorKeeps, PTL DEF Spec
  <1>8. Spec => []Focused
    BY <1>1, <1>2, PTL DEF Spec
  <1> QED BY <1>6, <1>7, <1>8, IdentityInvariant, SeedInvariant, PTL
=============================================================================
