--------------------------- MODULE MCHostServices ---------------------------
(* Values for TLC. *)
EXTENDS HostServices

HttpAndHttps == {"http", "https"}

MCEnvironment == [iface |-> "e0", on |-> TRUE, authoritative |-> FALSE,
                  tftp |-> TRUE]

\* Ids that are neighbours without wrapping, ids that wrap, and a revision
\* whose id is that of another ISO's tree.
MCTrees == {<<1, 101>>, <<1, 1001>>, <<2, 1>>, <<66, 458>>, <<67, 1>>}

(***************************************************************************)
(* Discs: two Ubuntu releases that share a source, one with a row without  *)
(* an id and none of them the default; an Ubuntu disc without a squashfs;  *)
(* a live-boot disc; two Windows discs that share an image at different    *)
(* indexes, one with an unnamed image, a repeated name, and no image 1;    *)
(* and a Windows disc whose list cannot be read.                           *)
(***************************************************************************)
Entry(name, default, index) ==
    [name |-> name, default |-> default, index |-> index]

Disc(parts, found, listing) ==
    [parts |-> parts, large |-> FALSE, found |-> found, listing |-> listing]

Casper == {"casper kernel", "casper initrd", "casper squashfs"}
Setup == {"setup.exe", "boot.wim", "install.wim"}

MCContent ==
    [jammy |-> Disc(Casper, {"yaml"},
                    <<Entry("minimal", FALSE, 0), Entry("server", TRUE, 0)>>),
     noble |-> Disc(Casper, {"yaml"},
                    <<Entry("server", FALSE, 0), Entry("", TRUE, 0),
                      Entry("desktop", FALSE, 0)>>),
     netboot |-> Disc(Casper \ {"casper squashfs"}, {}, <<>>),
     scale |-> Disc({"live squashfs", "live kernel", "live initrd"},
                    {}, <<>>),
     ws22 |-> Disc(Setup, {"header"},
                   <<Entry("core", FALSE, 1), Entry("dc", FALSE, 2)>>),
     ws25 |-> Disc(Setup, {"tail"},
                   <<Entry("dc", FALSE, 3), Entry("", FALSE, 2),
                     Entry("dc", FALSE, 4)>>),
     opaque |-> Disc(Setup, {}, <<Entry("core", FALSE, 1)>>)]

MCOldLibraries == {<<"noble", "ws22">>, <<"ws22", "noble">>}
=============================================================================
