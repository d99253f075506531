---------------------------- MODULE UefiBootOrder ----------------------------
(***************************************************************************)
(* The UEFI BootOrder policy that a helper applies inside a freshly        *)
(* installed guest (src/src/boot/uefi_order.py): how boot entries are      *)
(* read, classified and put in order, by the Python helper for Linux and   *)
(* the PowerShell helper for Windows.                                      *)
(*                                                                         *)
(* A description or a device path is the set of keywords it contains.      *)
(***************************************************************************)
EXTENDS Integers, Sequences, SequencesExt, Subsequences

Policies == {"pxe", "disk"}

\* "Network" stands for LAN, Ethernet and NIC too.
NetworkWords == {"PXE", "HTTP", "IPv4", "IPv6", "Network"}
DiskWords == {"ubuntu", "Windows Boot Manager"}
NetworkPaths == {"MAC", "Uri"}

\* Network wins: some network device paths contain a disk.
Classify(desc, path) ==
    IF desc \intersect NetworkWords # {} \/ path \intersect NetworkPaths # {}
    THEN "network"
    ELSE IF desc \intersect DiskWords # {} \/ "HD" \in path THEN "disk"
    ELSE "other"

IsIpv4Network(desc) ==
    /\ desc \intersect {"IPv6", "HTTP"} = {}
    /\ desc \intersect {"IPv4", "PXE"} # {}
-----------------------------------------------------------------------------
(* One line of the listing, as the firmware's tool prints it: description, *)
(* separator, device path.  Without a separator that the parser knows, the *)
(* words of the path count as words of the description.                    *)

\* "spaces": two of them before a device path of a known kind
Separators == {"tab", "spaces"}

SplitBootEntry(line) ==
    IF line.sep \in Separators
    THEN [desc |-> line.desc, path |-> line.path]
    ELSE [desc |-> line.desc \union line.path, path |-> {}]

\* An id of BootOrder that is not listed has no description: "other".
EntryOf(lines, id) ==
    IF id \in DOMAIN lines THEN SplitBootEntry(lines[id])
    ELSE [desc |-> {}, path |-> {}]

\* id, kind and "is IPv4 network boot" of an entry
LinuxItem(lines, id) ==
    LET e == EntryOf(lines, id)
        kind == Classify(e.desc, e.path)
    IN  [id |-> id, kind |-> kind,
         ipv4 |-> kind = "network" /\ IsIpv4Network(e.desc)]

(***************************************************************************)
(* bcdedit lists no device paths, and calls the disk's boot manager        *)
(* {bootmgr} whatever its description.                                     *)
(***************************************************************************)
WindowsItem(lines, id) ==
    LET desc == IF id \in DOMAIN lines THEN lines[id].desc ELSE {}
        kind == IF id = "{bootmgr}" THEN "disk" ELSE Classify(desc, {})
    IN  [id |-> id, kind |-> kind,
         ipv4 |-> kind = "network" /\ IsIpv4Network(desc)]

\* The entries in BootOrder order
Items(listing) ==
    [k \in DOMAIN listing.order |-> LinuxItem(listing.lines, listing.order[k])]

WindowsItems(listing) ==
    [k \in DOMAIN listing.order |-> WindowsItem(listing.lines, listing.order[k])]
-----------------------------------------------------------------------------
(* The new order *)

Ids(items) == [k \in DOMAIN items |-> items[k].id]

InBucket(items, kinds, ipv4) ==
    {k \in DOMAIN items : items[k].kind \in kinds /\ items[k].ipv4 \in ipv4}

\* Mutated form: the last entry of a bucket comes first.
BucketBackwards(items, kinds, ipv4) ==
    Reverse(Picked(items, InBucket(items, kinds, ipv4)))

\* The items of a bucket, in the order the firmware had them
Bucket(items, kinds, ipv4) == Picked(items, InBucket(items, kinds, ipv4))

\* Mutated form: IPv6 and HTTP boot are tried before the disk.
DiskLast(items) ==
    Bucket(items, {"network"}, {TRUE}) \o Bucket(items, {"network"}, {FALSE})
        \o Bucket(items, {"disk"}, {FALSE}) \o Bucket(items, {"other"}, {FALSE})

PxeBuckets(items) ==
    Bucket(items, {"network"}, {TRUE}) \o Bucket(items, {"disk"}, {FALSE})
        \o Bucket(items, {"network"}, {FALSE})
        \o Bucket(items, {"other"}, {FALSE})

\* Mutated form: entries that are neither disk nor network are left out.
NamedBuckets(items) ==
    Bucket(items, {"disk"}, {FALSE}) \o Bucket(items, {"network"}, BOOLEAN)

DiskBuckets(items) ==
    Bucket(items, {"disk"}, {FALSE}) \o Bucket(items, {"other"}, {FALSE})
        \o Bucket(items, {"network"}, BOOLEAN)

\* The network entry the guest was booted from goes first.
CurrentFirst(items, current) ==
    LET picks == {k \in DOMAIN items :
                     items[k].id = current /\ items[k].kind = "network"}
    IN  IF picks = {} THEN PxeBuckets(items)
        ELSE LET k == CHOOSE p \in picks : \A q \in picks : p <= q
             IN  <<items[k]>> \o PxeBuckets(Picked(items, DOMAIN items \ {k}))

HasNetwork(items) == \E k \in DOMAIN items : items[k].kind = "network"

\* The order to write: the one it was when nothing should change.
Planned(items, new) == IF HasNetwork(items) THEN Ids(new) ELSE Ids(items)

\* plan_efibootmgr
LinuxOrder(listing, policy) ==
    LET items == Items(listing)
    IN  Planned(items, IF policy = "pxe"
                       THEN CurrentFirst(items, listing.current)
                       ELSE DiskBuckets(items))

\* Get-NewOrder: no entry is known to be the current one.
WindowsOrder(listing, policy) ==
    LET items == WindowsItems(listing)
    IN  Planned(items, IF policy = "pxe" THEN PxeBuckets(items)
                       ELSE DiskBuckets(items))
=============================================================================
