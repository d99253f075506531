-------------------------- MODULE DnsmasqSettings ---------------------------
(***************************************************************************)
(* The DHCP and TFTP settings of the console and the dnsmasq they end up   *)
(* in (src/src/dhcp_runtime.py, src/src/dhcp_config.py and the first loop  *)
(* of src/scripts/entrypoint.sh).  A handler commits the row, writes three *)
(* files one after the other and leaves a request; the root loop removes   *)
(* the request, reads the files and restarts dnsmasq.  A web process that  *)
(* starts writes the files too, without a request.                         *)
(*                                                                         *)
(* Simplifications: a handler reads the row and commits its columns in one *)
(* step (nothing happens in between); a refused form changes nothing and   *)
(* is left out, and so is an apply that cannot read a file.                *)
(***************************************************************************)
EXTENDS Naturals, Sequences

CONSTANTS WebProcesses,   \* each runs one handler at a time here
          Restarted,      \* those that are restarted on their own (HTTPS)
          Interfaces,     \* names the operator may bind dnsmasq to
          Environment,    \* the row made of the environment at first
          MaxSaves        \* bound: saves of the settings

ASSUME DnsmasqAssumption ==
    /\ MaxSaves \in Nat
    /\ Restarted \subseteq WebProcesses
    /\ Environment \in [iface : Interfaces, on : BOOLEAN,
                        authoritative : BOOLEAN, tftp : BOOLEAN]
    /\ Interfaces \cap {"tftp", "boot", "range", "proxy"} = {}

VARIABLES dhcpRow,      \* the committed row
          dhcpFiles,    \* dnsmasq-pxe.conf, dhcp.enabled and tftp.enabled,
                        \* each the set of its lines
          dhcpCmd,      \* dhcp.cmd exists
          dhcpWriter,   \* the handler (or start) of each web process
          dhcpHelper,   \* the root loop
          dnsmasq,      \* [status, conf]: what runs, and with which file
          dhcpSaves,    \* saves so far
          dhcpDisturbed \* history: since the last save that ran alone, a
                        \* write failed or was overlapped

dhcpVars == <<dhcpRow, dhcpFiles, dhcpCmd, dhcpWriter, dhcpHelper, dnsmasq,
              dhcpSaves, dhcpDisturbed>>

Rows == [iface : Interfaces, on : BOOLEAN, authoritative : BOOLEAN,
         tftp : BOOLEAN]

FileNames == <<"conf", "on", "tftp">>

\* render_dnsmasq_conf: the lines that depend on the settings
Rendered(row) ==
    {row.iface}
    \union (IF row.tftp THEN {"tftp"} ELSE {})
    \union (IF ~row.on THEN {}
            ELSE {"boot", IF row.authoritative THEN "range" ELSE "proxy"})

Flag(b) == {IF b THEN "1" ELSE "0"}

FilesOf(row) == [conf |-> Rendered(row), on |-> Flag(row.on),
                 tftp |-> Flag(row.tftp)]

Wanted(files) == "1" \in files.on \/ "1" \in files.tftp

Running(files) ==
    IF Wanted(files) THEN [status |-> "running", conf |-> files.conf]
    ELSE [status |-> "stopped", conf |-> {}]
-----------------------------------------------------------------------------
(***************************************************************************)
(* step    "idle", "refresh" (committed), or "write": file number at is    *)
(*         next, and open tells whether it has been truncated already      *)
(* ask     a save leaves a request at the end, a start does not            *)
(* alone   nobody else has written since this one began                    *)
(***************************************************************************)
DhcpNotWriting(row) == [step |-> "idle", row |-> row, at |-> 1, open |-> FALSE,
                    ask |-> FALSE, alone |-> TRUE]

DhcpBusy == {w \in WebProcesses : dhcpWriter[w].step # "idle"}

\* Writer w begins beside the ones that are busy.
DhcpBegin(w, step, ask) ==
    dhcpWriter' = [v \in WebProcesses |->
        IF v = w THEN [DhcpNotWriting(dhcpRow) EXCEPT !.step = step, !.ask = ask,
                                                  !.alone = DhcpBusy = {}]
        ELSE [dhcpWriter[v] EXCEPT !.alone = @ /\ v \notin DhcpBusy]]

Commit(w, row) ==
    /\ dhcpWriter[w].step = "idle"
    /\ dhcpSaves < MaxSaves
    /\ dhcpSaves' = dhcpSaves + 1
    /\ dhcpRow' = row
    /\ DhcpBegin(w, "refresh", TRUE)
    /\ dhcpDisturbed' = (dhcpDisturbed \/ DhcpBusy # {})
    /\ UNCHANGED <<dhcpFiles, dhcpCmd, dhcpHelper, dnsmasq>>

SavePxe(w) == \E i \in Interfaces : Commit(w, [dhcpRow EXCEPT !.iface = i])

SaveDhcp(w) ==
    \E on, auth \in BOOLEAN :
        Commit(w, [dhcpRow EXCEPT !.on = on, !.authoritative = auth])

SaveTftp(w) == \E on \in BOOLEAN : Commit(w, [dhcpRow EXCEPT !.tftp = on])

\* _commit_runtime refreshes the row after its commit.
RefreshRow(w) ==
    /\ dhcpWriter[w].step = "refresh"
    /\ dhcpWriter' = [dhcpWriter EXCEPT ![w].step = "write", ![w].row = dhcpRow]
    /\ UNCHANGED <<dhcpRow, dhcpFiles, dhcpCmd, dhcpHelper, dnsmasq, dhcpSaves,
                   dhcpDisturbed>>

\* init_db of a web process that starts (HTTPS, after a new certificate)
StartWeb(w) ==
    /\ w \in Restarted
    /\ dhcpWriter[w].step = "idle"
    /\ DhcpBegin(w, "write", FALSE)
    /\ dhcpDisturbed' = (dhcpDisturbed \/ DhcpBusy # {} \/ dhcpHelper # "poll")
    /\ UNCHANGED <<dhcpRow, dhcpFiles, dhcpCmd, dhcpHelper, dnsmasq, dhcpSaves>>

OpenFile(w) ==
    LET me == dhcpWriter[w]
    IN  /\ me.step = "write" /\ me.at \in DOMAIN FileNames /\ ~me.open
        /\ dhcpFiles' = [dhcpFiles EXCEPT ![FileNames[me.at]] = {}]
        /\ dhcpWriter' = [dhcpWriter EXCEPT ![w].open = TRUE]
        /\ UNCHANGED <<dhcpRow, dhcpCmd, dhcpHelper, dnsmasq, dhcpSaves,
                       dhcpDisturbed>>

\* Mutated form: the file stays open.
FillPast(w) ==
    /\ dhcpWriter[w].step = "write" /\ dhcpWriter[w].open
    /\ dhcpWriter' = [dhcpWriter EXCEPT ![w].at = @ + 1]
    /\ UNCHANGED <<dhcpRow, dhcpFiles, dhcpCmd, dhcpHelper, dnsmasq, dhcpSaves,
                   dhcpDisturbed>>

\* A longer text that another process has put there sticks out at the end.
FillFile(w) ==
    LET me == dhcpWriter[w]
        name == FileNames[me.at]
    IN  /\ me.step = "write" /\ me.open
        /\ \E rest \in {{}, IF name = "conf" THEN dhcpFiles.conf ELSE {}} :
               dhcpFiles' = [dhcpFiles EXCEPT
                   ![name] = FilesOf(me.row)[name] \union rest]
        /\ dhcpWriter' = [dhcpWriter EXCEPT ![w].at = @ + 1, ![w].open = FALSE]
        /\ UNCHANGED <<dhcpRow, dhcpCmd, dhcpHelper, dnsmasq, dhcpSaves,
                       dhcpDisturbed>>

\* The boot chain scripts have been written (or not, which is ignored).
RequestApply(w) ==
    LET me == dhcpWriter[w]
    IN  /\ me.step = "write" /\ me.at = Len(FileNames) + 1
        /\ dhcpCmd' = (dhcpCmd \/ me.ask)
        /\ dhcpWriter' = [dhcpWriter EXCEPT ![w] = DhcpNotWriting(dhcpRow)]
        /\ dhcpDisturbed' = (dhcpDisturbed /\ ~(me.ask /\ me.alone))
        /\ UNCHANGED <<dhcpRow, dhcpFiles, dhcpHelper, dnsmasq, dhcpSaves>>

\* A full disk, or the process dies.
DhcpWriteFails(w) ==
    /\ dhcpWriter[w].step # "idle"
    /\ dhcpWriter' = [dhcpWriter EXCEPT ![w] = DhcpNotWriting(dhcpRow)]
    /\ dhcpDisturbed' = TRUE
    /\ UNCHANGED <<dhcpRow, dhcpFiles, dhcpCmd, dhcpHelper, dnsmasq, dhcpSaves>>
-----------------------------------------------------------------------------
(* The root loop: dhcpHelper is "poll", "read" (the request is removed) or *)
(* "start" (dnsmasq is stopped and is to be started)                       *)

DhcpHelperTakes ==
    /\ dhcpHelper = "poll" /\ dhcpCmd
    /\ dhcpCmd' = FALSE
    /\ dhcpHelper' = "read"
    /\ dhcpDisturbed' = (dhcpDisturbed
                         \/ \E w \in DhcpBusy : ~dhcpWriter[w].ask)
    /\ UNCHANGED <<dhcpRow, dhcpFiles, dhcpWriter, dnsmasq, dhcpSaves>>

HelperStops ==
    /\ dhcpHelper = "read"
    /\ dhcpHelper' = IF Wanted(dhcpFiles) THEN "start" ELSE "poll"
    /\ dnsmasq' = [status |-> "stopped", conf |-> {}]
    /\ UNCHANGED <<dhcpRow, dhcpFiles, dhcpCmd, dhcpWriter, dhcpSaves,
                   dhcpDisturbed>>

\* Mutated form: the request is removed once it has been carried out.
StartThenRemove ==
    /\ dhcpHelper = "start"
    /\ dhcpHelper' = "poll"
    /\ dnsmasq' = [status |-> "running", conf |-> dhcpFiles.conf]
    /\ dhcpCmd' = FALSE
    /\ UNCHANGED <<dhcpRow, dhcpFiles, dhcpWriter, dhcpSaves, dhcpDisturbed>>

HelperStarts ==
    /\ dhcpHelper = "start"
    /\ dhcpHelper' = "poll"
    /\ dnsmasq' \in {[status |-> "running", conf |-> dhcpFiles.conf],
                     [status |-> "failed", conf |-> {}]}
    /\ UNCHANGED <<dhcpRow, dhcpFiles, dhcpCmd, dhcpWriter, dhcpSaves,
                   dhcpDisturbed>>

\* The container starts again: init_db writes the files before dnsmasq is up.
DhcpRestartHost ==
    /\ dhcpFiles' = FilesOf(dhcpRow)
    /\ dnsmasq' = Running(FilesOf(dhcpRow))
    /\ dhcpWriter' = [w \in WebProcesses |-> DhcpNotWriting(dhcpRow)]
    /\ dhcpHelper' = "poll"
    /\ dhcpDisturbed' = FALSE
    /\ UNCHANGED <<dhcpRow, dhcpCmd, dhcpSaves>>
-----------------------------------------------------------------------------
DhcpInit ==
    /\ dhcpRow = Environment
    /\ dhcpFiles = FilesOf(dhcpRow)
    /\ dhcpCmd = FALSE
    /\ dhcpWriter = [w \in WebProcesses |-> DhcpNotWriting(dhcpRow)]
    /\ dhcpHelper = "poll"
    /\ dnsmasq = Running(FilesOf(dhcpRow))
    /\ dhcpSaves = 0
    /\ dhcpDisturbed = FALSE

WriterStep(w) ==
    RefreshRow(w) \/ OpenFile(w) \/ FillFile(w) \/ RequestApply(w)

DhcpNext ==
    \/ \E w \in WebProcesses :
           \/ SavePxe(w) \/ SaveDhcp(w) \/ SaveTftp(w) \/ StartWeb(w)
           \/ WriterStep(w) \/ DhcpWriteFails(w)
    \/ DhcpHelperTakes \/ HelperStops \/ HelperStarts
    \/ DhcpRestartHost

DhcpSpec == DhcpInit /\ [][DhcpNext]_dhcpVars
-----------------------------------------------------------------------------
(* Properties *)

\* Type correctness.
DhcpTypeOK ==
    /\ dhcpRow \in Rows
    /\ DOMAIN dhcpFiles = {"conf", "on", "tftp"}
    /\ dhcpFiles.on \subseteq {"0", "1"} /\ dhcpFiles.tftp \subseteq {"0", "1"}
    /\ dhcpCmd \in BOOLEAN
    /\ DOMAIN dhcpWriter = WebProcesses
    /\ \A w \in WebProcesses :
           /\ dhcpWriter[w].step \in {"idle", "refresh", "write"}
           /\ dhcpWriter[w].row \in Rows
           /\ dhcpWriter[w].at \in 1..(Len(FileNames) + 1)
           /\ dhcpWriter[w].open => dhcpWriter[w].at <= Len(FileNames)
    /\ dhcpHelper \in {"poll", "read", "start"}
    /\ dnsmasq.status \in {"running", "stopped", "failed"}
    /\ dhcpSaves \in 0..MaxSaves
    /\ dhcpDisturbed \in BOOLEAN

(***************************************************************************)
(* "Settings in the console is the source of truth (SQLite)" (src/PLAN.md, *)
(* line 82): when everybody is done, dnsmasq runs with what the row holds, *)
(* or has been seen to fail.  The history variable excuses what a failed   *)
(* or overlapped write has left behind, until a save has run on its own.   *)
(***************************************************************************)
DhcpSettled == DhcpBusy = {} /\ ~dhcpCmd /\ dhcpHelper = "poll"

SettingsServed ==
    DhcpSettled /\ ~dhcpDisturbed =>
        dnsmasq.status = "failed" \/ dnsmasq = Running(FilesOf(dhcpRow))
=============================================================================
