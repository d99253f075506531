---------------------------- MODULE GuestInstall -----------------------------
(***************************************************************************)
(* One host, its firmware and the installer on it, against the server: the *)
(* host boots by its BootOrder, the server hands out an installer while it *)
(* holds a ticket for the host, the installer runs the commands of its     *)
(* rendered seed, and the boot-order helper among them rewrites BootOrder  *)
(* after a request to the server (src/src/boot/uefi_order.py,              *)
(* src/src/seed_render.py).                                                *)
(*                                                                         *)
(* The server is the abstract one of InstallTicket, which MachineLifecycle *)
(* implements; a phone-home (also the helper's) withdraws the ticket or is *)
(* answered 409 when there is none.  Requests and replies may be lost, and *)
(* the host may lose power at any point.                                   *)
(***************************************************************************)
EXTENDS UefiBootOrder, SeedCommands

CONSTANTS Lines,       \* the firmware's entries: id -> description and path
          Bootable,    \* ids by what they do: "pxe", "disk" or "nothing"
          LinuxSeeds,  \* autoinstall mappings an operator may have saved
          WindowsSeeds,\* specialize commands of an answer file
          MaxTicket    \* bound: install requests

ASSUME GuestAssumption ==
    /\ MaxTicket \in Nat
    /\ IsFiniteSet(DOMAIN Lines)
    /\ DOMAIN Bootable = DOMAIN Lines
    /\ \A id \in DOMAIN Lines : Bootable[id] \in {"pxe", "disk", "nothing"}
    /\ LinuxSeeds \subseteq AutoInstalls
    /\ WindowsSeeds \subseteq SetupCommands

\* The firmware's entries are named so that the helpers on both systems know
\* which of them boot the disk.
ASSUME NamesAssumption ==
    \A id \in DOMAIN Lines :
        /\ Bootable[id] = "disk" <=> LinuxItem(Lines, id).kind = "disk"
        /\ Bootable[id] = "disk" <=> WindowsItem(Lines, id).kind = "disk"

VARIABLES ticket,   \* the instance the server wants installed, or 0
          used,     \* the largest instance id drawn
          given,    \* instances an installer was handed out for
          order,    \* the firmware's BootOrder
          current,  \* BootCurrent
          disk,     \* the instance whose system is on the disk; 0 is none
          run,      \* the host's activity
          wrote     \* history: the install whose helper last wrote the order
                    \* for the policy "pxe", or 0

server == <<ticket, used, given>>
vars == <<ticket, used, given, order, current, disk, run, wrote>>

Host == "host"
Phases == {"firmware", "os", "fetch", "install", "commands", "gate", "halted"}

(***************************************************************************)
(* phase   "firmware": trying entry number at of BootOrder;                *)
(*         "fetch", "install", "commands", "gate": the installer           *)
(* inst    the instance the running installer was handed out for           *)
(* family, policy, todo   its rendered seed: the commands still to run     *)
(* tries   requests of the helper's gate made so far                       *)
(***************************************************************************)
Firmware(k) == [phase |-> "firmware", at |-> k, inst |-> 0, tries |-> 0,
                family |-> "linux", policy |-> "", seed |-> {}, todo |-> <<>>]

PowerOn == Firmware(1)
-----------------------------------------------------------------------------
(* The server, as far as the host sees it *)

\* Mutated form: a new install gets the instance id of the one before.
RequestAgain ==
    /\ used < MaxTicket
    /\ used' = IF used = 0 THEN 1 ELSE used
    /\ ticket' = used'
    /\ UNCHANGED <<given, order, current, disk, run, wrote>>

\* A console deploy, a stage, or a pick in the host's own menu
Request ==
    /\ used < MaxTicket
    /\ used' = used + 1
    /\ ticket' = used + 1
    /\ UNCHANGED <<given, order, current, disk, run, wrote>>

\* Abort, disable, timer, failure report, phone-home of some older installer
Withdraw ==
    /\ ticket # 0
    /\ ticket' = 0
    /\ UNCHANGED <<used, given, order, current, disk, run, wrote>>

\* A phone-home that arrives; 200 if there was a ticket, else 409
PhoneHomeArrives ==
    /\ ticket' = 0
    /\ UNCHANGED <<used, given>>
-----------------------------------------------------------------------------
(* Firmware *)

PowerCycle ==
    /\ run' = PowerOn
    /\ UNCHANGED <<server, order, current, disk, wrote>>

\* Somebody picks an entry in the firmware's own boot menu.
PickEntry ==
    /\ run.phase = "firmware"
    /\ \E k \in DOMAIN order : run' = Firmware(k)
    /\ UNCHANGED <<server, order, current, disk, wrote>>

TryEntry ==
    /\ run.phase = "firmware"
    /\ run.at \in DOMAIN order
    /\ LET id == order[run.at]
       IN  CASE Bootable[id] = "pxe" /\ ticket # 0 ->
                    /\ current' = id
                    /\ given' = given \union {ticket}
                    /\ run' = [PowerOn EXCEPT !.phase = "fetch",
                                              !.inst = ticket]
             [] Bootable[id] = "disk" /\ disk # 0 ->
                    /\ current' = id
                    /\ run' = [PowerOn EXCEPT !.phase = "os"]
                    /\ UNCHANGED given
             [] OTHER ->               \* the menu's "continue", or a failure
                    /\ run' = Firmware(run.at + 1)
                    /\ UNCHANGED <<current, given>>
    /\ UNCHANGED <<ticket, used, order, disk, wrote>>

NothingBoots ==
    /\ run.phase = "firmware"
    /\ run.at \notin DOMAIN order
    /\ run' = [PowerOn EXCEPT !.phase = "halted"]
    /\ UNCHANGED <<server, order, current, disk, wrote>>
-----------------------------------------------------------------------------
(* Installer *)

(***************************************************************************)
(* The seed is rendered when it is fetched, for the machine's current      *)
(* instance only, with the next-boot policy the machine has then.  An      *)
(* installer that is refused its seed waits for somebody to reset it.      *)
(***************************************************************************)
FetchLinuxSeed(auto, policy) ==
    LET full == CompleteUserData(auto, policy, "catalog")
    IN  run' = [run EXCEPT !.phase = "install", !.family = "linux",
                           !.policy = policy, !.seed = {auto},
                           !.todo = full.late]

FetchWindowsSeed(cmds, policy, safeUrl) ==
    run' = [run EXCEPT !.phase = "install", !.family = "windows",
                       !.policy = policy, !.seed = {cmds},
                       !.todo = AsExecuted(InjectUefiOrder(cmds, policy,
                                                           safeUrl))]

FetchSeed ==
    /\ run.phase = "fetch"
    /\ ticket = run.inst
    /\ \E policy \in Policies :
           \/ \E auto \in LinuxSeeds : FetchLinuxSeed(auto, policy)
           \/ \E cmds \in WindowsSeeds, safeUrl \in BOOLEAN :
                  FetchWindowsSeed(cmds, policy, safeUrl)
    /\ UNCHANGED <<server, order, current, disk, wrote>>

Install ==
    /\ run.phase = "install"
    /\ \/ run' = [run EXCEPT !.phase = "commands", !.seed = {}] /\ disk' = run.inst
       \/ run' = [PowerOn EXCEPT !.phase = "halted"] /\ disk' = 0
    /\ UNCHANGED <<server, order, current, wrote>>

RunNext(cmd) ==
    /\ run.phase = "commands"
    /\ run.todo # <<>>
    /\ Head(run.todo) = cmd
    /\ run' = [run EXCEPT !.todo = Tail(@)]

\* wget tries three times and its failure is ignored.
RunPhoneHome ==
    /\ RunNext("phone") \/ RunNext("phone?")
    /\ PhoneHomeArrives \/ UNCHANGED server
    /\ UNCHANGED <<order, current, disk, wrote>>

RunOther ==
    /\ \E cmd \in Commands \ {"phone", "phone?", "order", "reboot"} : RunNext(cmd)
    /\ UNCHANGED <<server, order, current, disk, wrote>>

\* The forced reboot, or the installer's own at the end of the list
RunReboot ==
    /\ run.phase = "commands"
    /\ IF run.todo = <<>> THEN TRUE ELSE Head(run.todo) = "reboot"
    /\ PowerCycle
-----------------------------------------------------------------------------
(* The boot-order helper *)

Listing == [order |-> order, current |-> current, lines |-> Lines]

NewOrder(family, policy) ==
    IF family = "linux" THEN LinuxOrder(Listing, policy)
    ELSE WindowsOrder(Listing, policy)

\* The rest of main(): plan and write, then on with the list of commands
ApplyOrder ==
    LET new == NewOrder(run.family, run.policy)
    IN  /\ order' = new
        /\ wrote' = IF new = order THEN wrote
                    ELSE IF run.policy = "pxe" THEN run.inst ELSE 0
        /\ run' = [run EXCEPT !.phase = "commands", !.todo = Tail(@)]
        /\ UNCHANGED <<current, disk>>

\* A no, no order to write, or any exception on the way
LeaveOrder ==
    /\ run' = [run EXCEPT !.phase = "commands", !.todo = Tail(@)]
    /\ UNCHANGED <<order, current, disk, wrote>>

\* No EFI directory, no tool, a download or a listing that fails
HelperSkips ==
    /\ run.phase = "commands"
    /\ run.todo # <<>>
    /\ Head(run.todo) = "order"
    /\ LeaveOrder
    /\ UNCHANGED server

HelperStarts ==
    /\ run.phase = "commands"
    /\ run.todo # <<>>
    /\ Head(run.todo) = "order"
    /\ IF run.policy = "pxe"
       THEN /\ run' = [run EXCEPT !.phase = "gate", !.tries = 0]
            /\ UNCHANGED <<order, current, disk, wrote>>
       ELSE ApplyOrder
    /\ UNCHANGED server

\* Mutated form: a request that went unanswered is taken for a yes.
GateHopes ==
    /\ run.phase = "gate"
    /\ \/ ApplyOrder /\ UNCHANGED server
       \/ PhoneHomeArrives /\ ApplyOrder

\* No answer is tried again, whether the server saw the request or not;
\* three make a no (Invoke-PxeGate counts them as _confirm_pxe does).
GateUnanswered ==
    /\ PhoneHomeArrives \/ UNCHANGED server
    /\ IF run.tries = 2 THEN LeaveOrder
       ELSE /\ run' = [run EXCEPT !.tries = @ + 1]
            /\ UNCHANGED <<order, current, disk, wrote>>

\* _confirm_pxe: 200 and 409 are a yes, any other answer (an error of the
\* server, a machine that was deleted) is a no.
Gate ==
    /\ run.phase = "gate"
    /\ \/ PhoneHomeArrives /\ ApplyOrder
       \/ LeaveOrder /\ UNCHANGED server
       \/ GateUnanswered
-----------------------------------------------------------------------------
Init ==
    /\ ticket = 0
    /\ used = 0
    /\ given = {}
    /\ order \in SetToSeqs(DOMAIN Lines)
    /\ current = ""
    /\ disk = 0
    /\ run = PowerOn
    /\ wrote = 0

Next ==
    \/ Request \/ Withdraw
    \/ PowerCycle \/ PickEntry \/ TryEntry \/ NothingBoots
    \/ FetchSeed \/ Install \/ RunPhoneHome \/ RunOther \/ RunReboot
    \/ HelperSkips \/ HelperStarts \/ Gate

Spec == Init /\ [][Next]_vars
-----------------------------------------------------------------------------
(* Properties *)

\* Type correctness; no boot entry is lost or doubled by any sequence of
\* installs.
TypeOK ==
    /\ Len(order) = Cardinality(DOMAIN Lines)
    /\ ToSet(order) = DOMAIN Lines
    /\ ticket \in 0..MaxTicket
    /\ used \in 0..MaxTicket
    /\ given \subseteq 1..MaxTicket
    /\ current \in DOMAIN Lines \union {""}
    /\ disk \in 0..MaxTicket
    /\ wrote \in 0..MaxTicket
    /\ run.phase \in Phases
    /\ run.inst \in 0..MaxTicket
    /\ run.tries \in 0..2

(***************************************************************************)
(* "PXE-first is only applied after the server confirms phone-home, so a   *)
(* lost callback cannot loop the host back into the installer"             *)
(* (src/CHANGELOG.md:70): once a helper has put network boot first, the    *)
(* server no longer wants the install that the helper belonged to, however *)
(* requests and replies were lost and whatever was requested meanwhile.    *)
(***************************************************************************)
PxeFirstMeansDone == wrote # 0 => ticket # wrote

(***************************************************************************)
(* "The iPXE menu's continue exits back to firmware, which tries the next  *)
(* BootOrder entry, so disk must follow IPv4 PXE" (uefi_order.py:77): in   *)
(* an order written for the policy "pxe" only IPv4 network entries, and    *)
(* the one the guest was booted from, come before the disk.                *)
(***************************************************************************)
ContinueReachesDisk ==
    wrote # 0 =>
        \A k \in DOMAIN order : \A j \in 1..(k - 1) :
            Bootable[order[k]] = "disk" /\ Bootable[order[j]] # "disk"
                => \/ j = 1
                   \/ IsIpv4Network(Lines[order[j]].desc)
                   \/ IsIpv4Network(EntryOf(Lines, order[j]).desc)

(***************************************************************************)
(* The order settles: a helper that runs again on the order it has just    *)
(* written, on either system and for either policy, leaves it alone, so    *)
(* reinstalls do not wear out the firmware's variable store.               *)
(***************************************************************************)
OrderSettles ==
    \A policy \in Policies :
        LET linux == LinuxOrder(Listing, policy)
            windows == WindowsOrder(Listing, policy)
        IN  /\ LinuxOrder([Listing EXCEPT !.order = linux], policy) = linux
            /\ WindowsOrder([Listing EXCEPT !.order = windows], policy)
                    = windows

(***************************************************************************)
(* "late-command order is phone-home, reorder, reboot" (the boot-policy    *)
(* notes): in a rendered seed whose own list phones home before it         *)
(* touches sysrq, and has no helper of its own, the helper runs after the  *)
(* phone-home and before the reboot.  A Windows file runs it last.         *)
(***************************************************************************)
Before(a, b, cmds) ==
    \E j \in DOMAIN cmds : cmds[j] = a /\ \A k \in 1..j : cmds[k] \notin b

HelperAfterPhoneHome ==
    run.phase = "install" =>
        IF run.family = "linux"
        THEN \A auto \in run.seed :
                 /\ ~Has(AsList(auto.late), "order")
                 /\ Before("phone", {"sysrq", "reboot"}, AsList(auto.late))
                 => /\ Before("phone", {"order", "reboot"}, run.todo)
                    /\ Before("order", {"reboot"}, run.todo)
        ELSE \A k \in DOMAIN run.todo :
                 run.todo[k] = "order" /\ ~(\E cmds \in run.seed :
                     \E c \in DOMAIN cmds : cmds[c].cmd = "order")
                 => k = Len(run.todo)

(***************************************************************************)
(* A rendered seed that is saved as a seed is served as it is: rendering   *)
(* adds nothing twice, whatever list of commands an operator started from. *)
(***************************************************************************)
RenderingSettles ==
    run.phase = "install" /\ run.family = "linux" =>
        \A auto \in run.seed :
            LET full == CompleteUserData(auto, run.policy, "catalog")
            IN  CompleteUserData(full, run.policy, "catalog") = full

(***************************************************************************)
(* The server of this module is an instance of the abstract install        *)
(* tickets, which MachineLifecycle implements.                             *)
(***************************************************************************)
Server == INSTANCE InstallTicket WITH
    Machines <- {Host},
    Numbers <- 0..MaxTicket,
    ticket <- [h \in {Host} |-> ticket],
    used <- [h \in {Host} |-> used],
    given <- [h \in {Host} |-> given]

KeepsTickets == Server!Spec
=============================================================================
