--------------------------- MODULE MachineIdentity ---------------------------
(***************************************************************************)
(* Which row a PXE client gets (touch_machine, register_machine and        *)
(* delete_machine of src/src/inventory/service.py, called by the handlers  *)
(* of src/src/routes/ipxe.py).  A client is known by its MAC address; its  *)
(* SMBIOS UUID finds the row of a host whose network card was replaced,    *)
(* unless that row's host has been seen within the hour.                   *)
(*                                                                         *)
(* A handler reads and decides, and commits later; both processes run      *)
(* handlers at once.  MAC and UUID columns are unique indexes.  Addresses  *)
(* that cannot be parsed are answered before any of this.                  *)
(***************************************************************************)
EXTENDS Naturals, FiniteSets

CONSTANTS RowIds,     \* bound: ids 1..n of rows
          Macs,
          Uuids,
          BootHandlers,   \* handlers that may run at once
          MaxBoots    \* bound: requests

ASSUME IdentityAssumption ==
    /\ RowIds = 1..Cardinality(RowIds)
    /\ MaxBoots \in Nat
    /\ "none" \notin Macs \union Uuids

VARIABLES idRows,     \* [mac, uuid, live] of each row, or NoRow
          idTask,     \* what each handler has decided to write
          idBoots     \* requests so far

idVars == <<idRows, idTask, idBoots>>

NoRow == [mac |-> "none", uuid |-> "none", live |-> FALSE]

RowsUsed == {r \in RowIds : idRows[r] # NoRow}

\* SQLite gives a new row the id after the largest one in use.
NextId ==
    IF RowsUsed = {} THEN 1
    ELSE 1 + CHOOSE r \in RowsUsed : \A s \in RowsUsed : s <= r

\* find_by_mac, and the same for a UUID
ByMac(mac) == {r \in RowsUsed : idRows[r].mac = mac}
ByUuid(uuid) == {r \in RowsUsed : uuid # "none" /\ idRows[r].uuid = uuid}

(***************************************************************************)
(* how    "idle", or what is to be written: "touch", "move" or "insert"    *)
(* alone  no other handler ran, and no row was deleted, since it decided   *)
(***************************************************************************)
IdleTask == [how |-> "idle", id |-> 0, mac |-> "none", uuid |-> "none",
             alone |-> TRUE]

Deciding == {c \in BootHandlers : idTask[c].how # "idle"}
-----------------------------------------------------------------------------
(* The decision *)

\* Mutated form: a missing UUID is filled in without asking who has it.
TouchFilled(r, uuid) ==
    [IdleTask EXCEPT !.how = "touch", !.id = r,
        !.uuid = IF idRows[r].uuid = "none" THEN uuid ELSE "none"]

Touch(r, uuid) ==
    [IdleTask EXCEPT !.how = "touch", !.id = r,
        !.uuid = IF idRows[r].uuid = "none" /\ ByUuid(uuid) = {} THEN uuid
                 ELSE "none"]

Move(r, mac) == [IdleTask EXCEPT !.how = "move", !.id = r, !.mac = mac]

Insert(mac, uuid) ==
    [IdleTask EXCEPT !.how = "insert", !.mac = mac, !.uuid = uuid]

\* touch_machine.  A UUID in use by a live host is not believed.
Decide(mac, uuid) ==
    IF ByMac(mac) # {}
    THEN {Touch(r, uuid) : r \in ByMac(mac)}
    ELSE IF ByUuid(uuid) = {}
    THEN {Insert(mac, uuid)}
    ELSE {IF idRows[r].live THEN Insert(mac, "none") ELSE Move(r, mac)
              : r \in ByUuid(uuid)}

Begin(c, task) ==
    /\ idTask[c] = IdleTask
    /\ idBoots < MaxBoots
    /\ idBoots' = idBoots + 1
    /\ idTask' = [d \in BootHandlers |->
           IF d = c THEN [task EXCEPT !.alone = Deciding = {}]
           ELSE [idTask[d] EXCEPT !.alone = d \notin Deciding]]
    /\ UNCHANGED idRows

Boot(c) ==
    \E mac \in Macs, uuid \in Uuids \union {"none"} :
        \E task \in Decide(mac, uuid) : Begin(c, task)

\* register_machine: the operator adds a MAC by hand.
Register(c) ==
    \E mac \in Macs : ByMac(mac) = {} /\ Begin(c, Insert(mac, "none"))
-----------------------------------------------------------------------------
(* The commit *)

Unique(rows) ==
    \A r, s \in RowIds :
        r # s =>
            /\ rows[r].mac = "none" \/ rows[r].mac # rows[s].mac
            /\ rows[r].uuid = "none" \/ rows[r].uuid # rows[s].uuid

\* The rows with the columns of a task in them
Written(task) ==
    IF task.how = "insert"
    THEN [idRows EXCEPT ![NextId] =
              [mac |-> task.mac, uuid |-> task.uuid, live |-> TRUE]]
    ELSE [idRows EXCEPT
              ![task.id].live = TRUE,
              ![task.id].mac = IF task.how = "move" THEN task.mac ELSE @,
              ![task.id].uuid = IF task.uuid # "none" THEN task.uuid ELSE @]

Writable(task) ==
    /\ task.how = "insert" \/ task.id \in RowsUsed
    /\ Unique(Written(task))

\* An insert waits for a free id here; SQLite has as many as it needs.
HasRoom(task) == task.how = "insert" => NextId \in RowIds

Commit(c) ==
    /\ c \in Deciding /\ HasRoom(idTask[c]) /\ Writable(idTask[c])
    /\ idRows' = Written(idTask[c])
    /\ idTask' = [idTask EXCEPT ![c] = IdleTask]
    /\ UNCHANGED idBoots

\* The row is gone or an index refuses the write: the client gets no script.
CommitRefused(c) ==
    /\ c \in Deciding /\ HasRoom(idTask[c]) /\ ~Writable(idTask[c])
    /\ idTask' = [idTask EXCEPT ![c] = IdleTask]
    /\ UNCHANGED <<idRows, idBoots>>

\* delete_machine, in one request
DeleteMachine ==
    /\ \E r \in RowsUsed : idRows' = [idRows EXCEPT ![r] = NoRow]
    /\ idTask' = [c \in BootHandlers |->
                     [idTask[c] EXCEPT !.alone = c \notin Deciding]]
    /\ UNCHANGED idBoots

HourPasses ==
    /\ \E r \in RowsUsed :
           idRows[r].live /\ idRows' = [idRows EXCEPT ![r].live = FALSE]
    /\ UNCHANGED <<idTask, idBoots>>
-----------------------------------------------------------------------------
IdentityInit ==
    /\ idRows = [r \in RowIds |-> NoRow]
    /\ idTask = [c \in BootHandlers |-> IdleTask]
    /\ idBoots = 0

IdentityNext ==
    \/ \E c \in BootHandlers : Boot(c) \/ Register(c) \/ Commit(c) \/ CommitRefused(c)
    \/ DeleteMachine \/ HourPasses

IdentitySpec == IdentityInit /\ [][IdentityNext]_idVars
-----------------------------------------------------------------------------
(* Properties *)

\* Type correctness, with the two unique indexes.
IdentityTypeOK ==
    /\ idRows \in [RowIds -> [mac : Macs \union {"none"}, live : BOOLEAN,
                               uuid : Uuids \union {"none"}]]
    /\ Unique(idRows)
    /\ \A c \in BootHandlers :
           /\ idTask[c].how \in {"idle", "touch", "move", "insert"}
           /\ idTask[c].id \in RowIds \union {0}
    /\ idBoots \in 0..MaxBoots

(***************************************************************************)
(* A boot request that runs alone gets its script: no unique index refuses *)
(* what touch_machine has decided, whatever MACs and UUIDs came before.    *)
(* And "a live SMBIOS UUID (seen within the last hour) is not stolen by a  *)
(* second MAC" (src/CHANGELOG.md:118).                                     *)
(***************************************************************************)
LoneBootsFit ==
    \A c \in Deciding :
        idTask[c].alone /\ HasRoom(idTask[c]) =>
            /\ Writable(idTask[c])
            /\ idTask[c].how = "move" => ~idRows[idTask[c].id].live
=============================================================================
