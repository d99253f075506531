----------------------------- MODULE NfsExports -----------------------------
(***************************************************************************)
(* The NFS exports of extracted Linux media (src/src/ganesha_exports.py,   *)
(* src/scripts/sync_ganesha_exports.py and the third loop of               *)
(* src/scripts/entrypoint.sh).  Every five seconds the loop renders one    *)
(* export block per tree on the disk, tells Ganesha when the text changed  *)
(* or the extraction worker left a stamp, and starts Ganesha when it is    *)
(* not running.  Trees come and go under its hands.                        *)
(*                                                                         *)
(* A tree is <<ISO id, revision>>; what Ganesha does with the file is      *)
(* external: of the blocks with one export id it takes the first.          *)
(***************************************************************************)
EXTENDS Naturals, FiniteSets

CONSTANTS Trees,       \* trees that may be published
          MaxChanges   \* bound: changes on the disk, failures, crashes

ASSUME TreesAssumption ==
    /\ Trees \subseteq (Nat \ {0}) \X Nat
    /\ MaxChanges \in Nat

VARIABLES nfsTrees,    \* exportable trees on the disk
          nfsStamp,    \* .pxe-reload-exports exists
          nfsConf,     \* trees in pxe-generations.conf
          nfsLoaded,   \* trees Ganesha exports
          nfsUp,       \* ganesha.nfsd runs
          nfsLoop,     \* [step, changed] of the loop
          nfsChanges   \* changes so far

nfsVars == <<nfsTrees, nfsStamp, nfsConf, nfsLoaded, nfsUp, nfsLoop, nfsChanges>>

\* Mutated form: a hundred ids for each ISO.
NarrowId(iso, revision) == 10 + iso * 100 + revision

\* export_id_for
ExportId(iso, revision) ==
    LET n == 10 + iso * 1000 + revision
    IN  IF n > 65535 THEN 2 + ((iso * 1000 + revision) % 65533) ELSE n

IdOf(tree) == ExportId(tree[1], tree[2])

\* What Ganesha takes from a file: one tree of each id.  Which one depends on
\* the order of the directories' names, "10" before "2", and is left open.
Loadings(conf) ==
    {{t \in conf : first[IdOf(t)] = t} :
        first \in {f \in [{IdOf(t) : t \in conf} -> conf] :
                      \A n \in DOMAIN f : IdOf(f[n]) = n}}

At(step) == [step |-> step, changed |-> FALSE]

Change ==
    /\ nfsChanges < MaxChanges
    /\ nfsChanges' = nfsChanges + 1
-----------------------------------------------------------------------------
(* The extraction worker and the collector *)

Publish ==
    /\ Change
    /\ \E t \in Trees \ nfsTrees : nfsTrees' = nfsTrees \union {t}
    /\ UNCHANGED <<nfsStamp, nfsConf, nfsLoaded, nfsUp, nfsLoop>>

\* request_export_reload, at the end of a job
LeaveStamp ==
    /\ Change
    /\ nfsStamp' = TRUE
    /\ UNCHANGED <<nfsTrees, nfsConf, nfsLoaded, nfsUp, nfsLoop>>

RemoveTree ==
    /\ Change
    /\ \E t \in nfsTrees : nfsTrees' = nfsTrees \ {t}
    /\ UNCHANGED <<nfsStamp, nfsConf, nfsLoaded, nfsUp, nfsLoop>>
-----------------------------------------------------------------------------
(* The loop: "write", "reload", "clear", "check", "prepare", "boot" *)

\* sync_generation_exports
SyncWrites ==
    /\ nfsLoop.step = "write"
    /\ nfsConf' = nfsTrees
    /\ nfsLoop' = [step |-> "reload", changed |-> nfsConf # nfsTrees]
    /\ UNCHANGED <<nfsTrees, nfsStamp, nfsLoaded, nfsUp, nfsChanges>>

\* A tree vanishes while the script looks into it: the script ends there.
SyncFails ==
    /\ Change
    /\ nfsLoop.step = "write"
    /\ nfsLoop' = At("check")
    /\ UNCHANGED <<nfsTrees, nfsStamp, nfsConf, nfsLoaded, nfsUp>>

\* Mutated form: only the stamp is looked at.
ReloadOnStamp ==
    /\ nfsLoop.step = "reload"
    /\ IF nfsStamp
       THEN /\ nfsLoaded' \in IF nfsUp THEN Loadings(nfsConf) ELSE {nfsLoaded}
            /\ nfsLoop' = At("clear")
       ELSE /\ nfsLoop' = At("check")
            /\ UNCHANGED nfsLoaded
    /\ UNCHANGED <<nfsTrees, nfsStamp, nfsConf, nfsUp, nfsChanges>>

SyncReloads ==
    /\ nfsLoop.step = "reload"
    /\ IF nfsLoop.changed \/ nfsStamp
       THEN /\ nfsLoaded' \in IF nfsUp THEN Loadings(nfsConf) ELSE {nfsLoaded}
            /\ nfsLoop' = At("clear")
       ELSE /\ nfsLoop' = At("check")
            /\ UNCHANGED nfsLoaded
    /\ UNCHANGED <<nfsTrees, nfsStamp, nfsConf, nfsUp, nfsChanges>>

\* A stamp left since the reload is lost with this.
SyncClears ==
    /\ nfsLoop.step = "clear"
    /\ nfsStamp' = FALSE
    /\ nfsLoop' = At("check")
    /\ UNCHANGED <<nfsTrees, nfsConf, nfsLoaded, nfsUp, nfsChanges>>

LoopChecks ==
    /\ nfsLoop.step = "check"
    /\ nfsLoop' = At(IF nfsUp THEN "write" ELSE "prepare")
    /\ UNCHANGED <<nfsTrees, nfsStamp, nfsConf, nfsLoaded, nfsUp, nfsChanges>>

\* start_nfs renders the file from nothing; the script may fail here too.
StartPrepares ==
    /\ nfsLoop.step = "prepare"
    /\ \/ nfsConf' = nfsTrees /\ UNCHANGED nfsChanges
       \/ nfsConf' = {} /\ Change
    /\ nfsLoop' = At("boot")
    /\ UNCHANGED <<nfsTrees, nfsStamp, nfsLoaded, nfsUp>>

StartBoots ==
    /\ nfsLoop.step = "boot"
    /\ \/ /\ nfsUp' = TRUE
          /\ nfsLoaded' \in Loadings(nfsConf)
          /\ UNCHANGED nfsChanges
       \/ Change /\ UNCHANGED <<nfsUp, nfsLoaded>>
    /\ nfsLoop' = At("write")
    /\ UNCHANGED <<nfsTrees, nfsStamp, nfsConf>>

GaneshaDies ==
    /\ Change
    /\ nfsUp
    /\ nfsUp' = FALSE
    /\ nfsLoaded' = {}
    /\ UNCHANGED <<nfsTrees, nfsStamp, nfsConf, nfsLoop>>

NfsRestartHost ==
    /\ Change
    /\ nfsUp' = FALSE
    /\ nfsLoaded' = {}
    /\ nfsLoop' = At("prepare")
    /\ UNCHANGED <<nfsTrees, nfsStamp, nfsConf>>
-----------------------------------------------------------------------------
NfsInit ==
    /\ nfsTrees = {}
    /\ nfsStamp = FALSE
    /\ nfsConf = {}
    /\ nfsLoaded = {}
    /\ nfsUp = FALSE
    /\ nfsLoop = At("prepare")
    /\ nfsChanges = 0

NfsLoopStep ==
    \/ SyncWrites \/ SyncReloads \/ SyncClears \/ LoopChecks
    \/ StartPrepares \/ StartBoots

NfsNext ==
    \/ Publish \/ LeaveStamp \/ RemoveTree
    \/ NfsLoopStep \/ SyncFails
    \/ GaneshaDies \/ NfsRestartHost

NfsSpec == NfsInit /\ [][NfsNext]_nfsVars

\* The loop runs as long as the container does.
NfsFairness == WF_nfsVars(NfsLoopStep)
-----------------------------------------------------------------------------
(* Properties *)

\* Type correctness.
NfsTypeOK ==
    /\ nfsTrees \subseteq Trees
    /\ nfsConf \subseteq Trees
    /\ nfsLoaded \subseteq Trees
    /\ nfsStamp \in BOOLEAN /\ nfsUp \in BOOLEAN
    /\ nfsLoop.step \in {"write", "reload", "clear", "check", "prepare", "boot"}
    /\ nfsLoop.changed \in BOOLEAN
    /\ nfsChanges \in 0..MaxChanges

FewIsos == 1..130
FewRevisions == 0..458

(***************************************************************************)
(* "Each successful Ubuntu ISO extract becomes its own NFS export"         *)
(* (src/README.md:261), so no two trees in the file may have one export    *)
(* id: Ganesha would leave one of them out.  Checked for trees of the      *)
(* ISOs 1 to 130 with revisions to 458, among any others: computed ids     *)
(* that pass 65535 wrap into the gaps between the ids of other ISOs, and   *)
(* up to there they do not meet.  Of all trees it does not hold: revision  *)
(* 1001 of ISO 1 has the id of revision 1 of ISO 2, and none is refused.   *)
(***************************************************************************)
ExportIdsDiffer ==
    \A t, u \in nfsConf \intersect (FewIsos \X FewRevisions) :
        t # u => IdOf(t) # IdOf(u)

(***************************************************************************)
(* "After each extract, Ganesha publishes that directory as its own NFSv3  *)
(* Path" (src/CHANGELOG.md:222): once trees stop changing and Ganesha      *)
(* stops failing, it comes to export exactly the trees on the disk, less   *)
(* those it must leave out because another has their id, also when a stamp *)
(* was left at the wrong moment and lost.                                  *)
(***************************************************************************)
ExportsCatchUp == <>[](nfsUp /\ nfsLoaded \in Loadings(nfsTrees))
=============================================================================
