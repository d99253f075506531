---------------------------- MODULE InstallTicket ----------------------------
(***************************************************************************)
(* What the boot server promises about wiping disks, without saying how.   *)
(*                                                                         *)
(* A machine holds at most one install ticket.  A ticket is a number that  *)
(* was never used before on that machine; it stands for somebody's request *)
(* to (re)install.  The installer is handed out only for the ticket the    *)
(* machine holds at that moment, as often as the machine asks.  A ticket   *)
(* that was withdrawn (finished, aborted, timed out, ...) never comes      *)
(* back: without a new request the machine is never installed again.       *)
(***************************************************************************)
EXTENDS Naturals

CONSTANTS Machines,  \* inventory rows
          Numbers    \* ticket numbers; 0 stands for "no ticket"

VARIABLES ticket,    \* ticket[m]: the ticket machine m holds, or 0
          used,      \* used[m]: the largest number ever drawn for m
          given      \* given[m]: numbers an installer was handed out for

ticketVars == <<ticket, used, given>>

Init ==
    /\ ticket = [m \in Machines |-> 0]
    /\ used = [m \in Machines |-> 0]
    /\ given = [m \in Machines |-> {}]

(***************************************************************************)
(* One machine's part of a step: keep the ticket n it holds or draw a new  *)
(* n, perhaps hand out the installer for n, perhaps withdraw n.            *)
(***************************************************************************)
MachineStep(m) ==
    \E n \in Numbers :
        /\ n = ticket[m] \/ n > used[m]
        /\ used'[m] = IF n > used[m] THEN n ELSE used[m]
        /\ ticket'[m] \in {n, 0}
        /\ given'[m] \in {given[m], given[m] \union ({n} \ {0})}

Next == \A m \in Machines : MachineStep(m)

Spec == Init /\ [][Next]_ticketVars
=============================================================================
