---------------------------- MODULE SeedCommands -----------------------------
(***************************************************************************)
(* What serving a guest-init seed adds to it (src/src/seed_render.py,      *)
(* src/src/boot/uefi_order.py): the commands and keys that keep a          *)
(* Subiquity install unattended, and the boot-order command of a Windows   *)
(* answer file.                                                            *)
(*                                                                         *)
(* A command is known by what the code looks for in its text:              *)
(*   "imaging", "phone"  a callback; "imaging?", "phone?" the same with    *)
(*                       --post-data=, which some wgets do not understand  *)
(*   "wifi"     unbinds Wi-Fi           "confirm"  fetches the confirm     *)
(*   "inline"   the old inline confirm             helper                  *)
(*   "log"      uploads the failure log                                    *)
(*   "order"    runs the boot-order helper                                 *)
(*   "reboot"   the blocking sync and sysrq reboot, or reboot -f           *)
(*   "sysrq"    an asynchronous sysrq sync or remount                      *)
(*   "other"    anything else                                              *)
(***************************************************************************)
EXTENDS Integers, Sequences, SequencesExt, FiniteSetsExt, Subsequences

NoList == <<"not a list">>        \* the key is missing or no list

Commands == {"imaging", "imaging?", "phone", "phone?", "wifi", "confirm",
             "inline", "log", "order", "reboot", "sysrq", "other"}

CommandLists == Seq(Commands) \union {NoList}

Has(cmds, cmd) == \E k \in DOMAIN cmds : cmds[k] = cmd

AsList(cmds) == IF cmds = NoList THEN <<>> ELSE cmds

\* The seed's own list, with cmd put in front unless found says it is there
Prefixed(cmd, cmds, found) ==
    IF cmds = NoList THEN <<cmd>> ELSE IF found THEN cmds ELSE <<cmd>> \o cmds

EnsureQuietWifi(cmds) == Prefixed("wifi", cmds, Has(cmds, "wifi"))

HasImagingCallback(cmds) == Has(cmds, "imaging") \/ Has(cmds, "imaging?")

EnsureImaging(cmds) == Prefixed("imaging", cmds, HasImagingCallback(cmds))

\* An inline confirm of an older seed gives way to the fetched helper.
EnsureConfirm(cmds) ==
    IF cmds = NoList THEN <<"confirm">>
    ELSE LET kept == Picked(cmds, {k \in DOMAIN cmds : cmds[k] # "inline"})
         IN  Prefixed("confirm", kept, Has(kept, "confirm"))

\* Mutated form: the upload is added without a look.
InstallLogAgain(cmds) == Append(AsList(cmds), "log")

EnsureInstallLog(cmds) ==
    IF cmds = NoList THEN <<"log">>
    ELSE IF Has(cmds, "log") THEN cmds ELSE Append(cmds, "log")

NormalizeCallback(cmd) ==
    CASE cmd = "imaging?" -> "imaging" [] cmd = "phone?" -> "phone"
      [] OTHER -> cmd

NormalizeCallbacks(cmds) ==
    IF cmds = NoList THEN NoList
    ELSE [k \in DOMAIN cmds |-> NormalizeCallback(cmds[k])]

EnsureForceReboot(cmds) ==
    LET rewritten == [k \in DOMAIN cmds |->
                         IF cmds[k] = "sysrq" THEN "reboot" ELSE cmds[k]]
    IN  IF cmds = NoList THEN <<"reboot">>
        ELSE IF Has(rewritten, "reboot") THEN rewritten
        ELSE Append(rewritten, "reboot")

\* Mutated form: the helper is put at the end of the list.
OrderAtEnd(cmds, policy) ==
    IF policy \notin {"pxe", "disk"} \/ Has(cmds, "order") THEN cmds
    ELSE Append(AsList(cmds), "order")

\* Just before the first reboot, or at the end
EnsureUefiOrder(cmds, policy) ==
    LET list == AsList(cmds)
        reboots == {k \in DOMAIN list : list[k] = "reboot"}
        index == IF reboots = {} THEN Len(list) + 1 ELSE Min(reboots)
    IN  IF policy \notin {"pxe", "disk"} \/ Has(list, "order") THEN cmds
        ELSE InsertAt(list, index, "order")
-----------------------------------------------------------------------------
(* The other keys of the autoinstall mapping                               *)
(*   keys      the top-level and apt keys of AUTOINSTALL_UNATTENDED that   *)
(*             it has, and "timezone" for one at the root                  *)
(*   identity  user name, and whether host name and password are there;    *)
(*             "" is no user name                                          *)
(*   userData  its user-data: whether a host name is there, and the users  *)
(*             of chpasswd with their names, and whether with a password   *)
(*   source    the source id, or ""                                        *)
(*   nics      the kinds of its network.ethernets: "named" has no match,   *)
(*             "match" and "optional" match by name                        *)
(*   sshKeys   the kinds of ssh key lists in it and around it              *)

UnattendedKeys == {"locale", "storage", "apt.geoip", "apt.fallback"}

AutoInstalls ==
    [keys : SUBSET (UnattendedKeys \union {"timezone"}),
     early : CommandLists, error : CommandLists, late : CommandLists,
     identity : [user : STRING, host : BOOLEAN, password : BOOLEAN],
     userData : [host : BOOLEAN,
                 users : Seq([name : STRING, password : BOOLEAN])],
     source : STRING, nics : SUBSET {"named", "match", "optional"},
     sshKeys : SUBSET {"empty", "keys"}]

SafeUser(user) == IF user = "root" THEN "ubuntu" ELSE user

Complete3(identity) ==
    identity.user # "" /\ identity.host /\ identity.password

\* _identity_from_user_data: the first user with a name and a password
IdentityFromUserData(auto) ==
    LET users == auto.userData.users
        whole == {k \in DOMAIN users : users[k].name # "" /\ users[k].password}
    IN  [user |-> IF whole = {} THEN "" ELSE users[Min(whole)].name,
         host |-> auto.userData.host,
         password |-> whole # {}]

\* _ensure_identity: nothing is added unless all three are found.
EnsureIdentity(auto) ==
    LET own == auto.identity
        found == IdentityFromUserData(auto)
        merged == [user |-> SafeUser(IF own.user # "" THEN own.user
                                     ELSE found.user),
                   host |-> own.host \/ found.host,
                   password |-> own.password \/ found.password]
    IN  IF ~Complete3(own) /\ Complete3(merged) THEN merged ELSE own

EnsureOptionalNics(nics) ==
    {IF kind = "match" THEN "optional" ELSE kind : kind \in nics}

EnsureSource(source, catalog) == IF source # "" THEN source ELSE catalog

\* A time zone at the root is no key of autoinstall.
DropAutoinstallTimezone(keys) == keys \ {"timezone"}

\* Subiquity refuses an empty list.
DropEmptySshKeyLists(lists) == lists \ {"empty"}

(***************************************************************************)
(* complete_linux_user_data.  Each early command is put before those added *)
(* already: confirm, imaging, Wi-Fi.                                       *)
(***************************************************************************)
EarlyCommands(cmds) ==
    NormalizeCallbacks(EnsureConfirm(EnsureImaging(EnsureQuietWifi(cmds))))

LateCommands(cmds, policy) ==
    EnsureUefiOrder(EnsureForceReboot(NormalizeCallbacks(cmds)), policy)

CompleteIdentity(auto) ==
    LET named == EnsureIdentity(auto)
    IN  [named EXCEPT !.user = SafeUser(@)]

CompleteUserData(auto, policy, catalog) ==
    [keys |-> DropAutoinstallTimezone(auto.keys \union UnattendedKeys),
     early |-> EarlyCommands(auto.early),
     error |-> EnsureInstallLog(auto.error),
     late |-> LateCommands(auto.late, policy),
     identity |-> CompleteIdentity(auto),
     userData |-> auto.userData,
     source |-> EnsureSource(auto.source, catalog),
     nics |-> EnsureOptionalNics(auto.nics),
     sshKeys |-> DropEmptySshKeyLists(auto.sshKeys)]
-----------------------------------------------------------------------------
(* The specialize pass of a Windows answer file: commands with an Order    *)

SetupCommands == Seq([order : Nat, cmd : Commands])

Orders(cmds) == {cmds[k].order : k \in DOMAIN cmds}

NextOrder(cmds) == Max(Orders(cmds) \union {0}) + 1

(***************************************************************************)
(* inject_uefi_order_command: not into a file that runs the helper, and    *)
(* not when the server's URL is unsafe in a command line, or too long.     *)
(***************************************************************************)
InjectUefiOrder(cmds, policy, safeUrl) ==
    IF \/ policy \notin {"pxe", "disk"}
       \/ ~safeUrl
       \/ \E k \in DOMAIN cmds : cmds[k].cmd = "order"
    THEN cmds
    ELSE Append(cmds, [order |-> NextOrder(cmds), cmd |-> "order"])

\* Setup runs them by Order; equal ones as they come.
Sooner(cmds, k) ==
    {j \in DOMAIN cmds : \/ cmds[j].order < cmds[k].order
                         \/ cmds[j].order = cmds[k].order /\ j < k}

AsExecuted(cmds) ==
    [n \in DOMAIN cmds |->
        cmds[CHOOSE k \in DOMAIN cmds : Cardinality(Sooner(cmds, k)) = n - 1].cmd]
=============================================================================
