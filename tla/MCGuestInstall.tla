--------------------------- MODULE MCGuestInstall ----------------------------
(* Values for TLC: four boot entries and the seeds of an operator.           *)
EXTENDS GuestInstall

Entry(desc, path, sep) == [desc |-> desc, path |-> path, sep |-> sep]

FourLines ==
    "0001" :> Entry({"PXE", "IPv4"}, {"MAC", "IPv4"}, "tab")
    @@ "0002" :> Entry({}, {"MAC", "IPv6"}, "none")
    @@ "{bootmgr}" :> Entry({"Windows Boot Manager"}, {"HD"}, "tab")
    @@ "0005" :> Entry({}, {"USB"}, "spaces")

FourBoots ==
    "0001" :> "pxe" @@ "0002" :> "pxe" @@ "{bootmgr}" :> "disk"
    @@ "0005" :> "nothing"

Auto(early, late) ==
    [keys |-> {"locale", "timezone"}, early |-> early, error |-> NoList, late |-> late,
     identity |-> [user |-> "", host |-> TRUE, password |-> FALSE],
     userData |-> [host |-> TRUE,
                   users |-> <<[name |-> "", password |-> TRUE],
                               [name |-> "root", password |-> TRUE],
                               [name |-> "late", password |-> TRUE]>>],
     source |-> "", nics |-> {"named", "match"},
     sshKeys |-> {"empty", "keys"}]

\* All lists of up to two late commands, and some early ones
LateLists ==
    {NoList} \union SeqOf({"phone?", "sysrq", "reboot", "order", "other"}, 2)
        \union {<<"phone", "reboot">>, <<"phone", "sysrq", "sysrq">>}

EarlyLists == {NoList, <<"inline", "imaging?">>, <<"confirm", "inline">>,
               <<"other", "wifi">>}

SomeLinuxSeeds ==
    {Auto(NoList, late) : late \in LateLists}
        \union {Auto(early, <<"phone", "reboot">>) : early \in EarlyLists}

Command(n, cmd) == [order |-> n, cmd |-> cmd]

SomeWindowsSeeds ==
    {<<>>, <<Command(1, "phone")>>,
     <<Command(3, "other"), Command(1, "phone")>>,
     <<Command(1, "other"), Command(4, "phone")>>,
     <<Command(1, "order"), Command(2, "phone")>>}
=============================================================================
