--------------------------- MODULE InstallSources ---------------------------
(***************************************************************************)
(* What an ISO turns out to hold, and which install source a guest is told *)
(* (src/src/iso_extract.py, src/src/install_sources.py,                    *)
(* src/src/inventory/isos.py, src/src/routes/images.py).                   *)
(*                                                                         *)
(* The worker unpacks a disc and reads the list of sources on it: Ubuntu's *)
(* casper/install-sources.yaml, or the images of a Windows install.wim.    *)
(* The list is stored with the ISO and copied to its templates; a template *)
(* names one source, and for Windows the index of that image as well.  An  *)
(* install pins both with the media, and its seed tells them to Setup,     *)
(* which wants an image of that name and of that index.                    *)
(*                                                                         *)
(* ExtractPipeline has the trees, revisions and interleavings of the       *)
(* worker; here a job is one step.  A template only takes ISOs of its own  *)
(* family, so all ISOs of a behaviour are of one.                          *)
(***************************************************************************)
EXTENDS Integers, Sequences, FiniteSetsExt, TLC, Subsequences

CONSTANTS LibIsos,       \* ISO rows
          LibTemplates,  \* template rows
          LibHosts,      \* machines
          LibEditors,    \* requests that may save a template at once
          Content,       \* what is on each disc, by its name
          OldLibraries,  \* the disc of each ISO, unpacked by an older release
          PostedSources, \* sources that some page, old or new, may post
          PostedIndexes, \* WIM indexes an operator may type
          MaxJobs        \* bound: extractions asked for

ASSUME SourcesAssumption ==
    /\ "none" \notin DOMAIN Content
    /\ \A d \in DOMAIN Content :
           Content[d].listing
               \in Seq([name : STRING, default : BOOLEAN, index : Int])
    /\ OldLibraries \subseteq [LibIsos -> DOMAIN Content]
    /\ PostedIndexes \subseteq Nat \ {0}
    /\ MaxJobs \in Nat

VARIABLES libFamily,  \* "linux" or "windows"
          libIso,     \* the ISO rows
          libTpl,     \* the template rows
          libMixed,   \* templates saved over a change made since they were read
          libAtt,     \* the attempt of each host
          libEdit,    \* template saves between their read and their commit
          libJobs     \* extractions asked for so far

libVars == <<libFamily, libIso, libTpl, libMixed, libAtt, libEdit, libJobs>>
-----------------------------------------------------------------------------
(***************************************************************************)
(* Content[d] is a record of                                               *)
(*   parts    the members that matter, {} for a file that is no archive    *)
(*   large    more than PXE_MAX_EXTRACT_BYTES                              *)
(*   found    where its list of sources can be read: "yaml" in casper/,    *)
(*            "header" or "tail", the ways to the XML in an install.wim    *)
(*   listing  its rows, in the order of the file: [name, default] of a     *)
(*            YAML entry, [name, index] of a WIM image; no name is ""      *)
(***************************************************************************)
Discs == DOMAIN Content

\* linux_member_pair, live_member_pair, validate_windows_media
LinuxPair(d) == {"casper kernel", "casper initrd"} \subseteq Content[d].parts

LivePair(d) ==
    {"live squashfs", "live kernel", "live initrd"} \subseteq Content[d].parts

WindowsMedia(d) ==
    /\ {"setup.exe", "boot.wim"} \subseteq Content[d].parts
    /\ {"install.wim", "install.esd"} \intersect Content[d].parts # {}

HasCasper(d) == "casper squashfs" \in Content[d].parts

LiveTree(d) == "live squashfs" \in Content[d].parts /\ ~HasCasper(d)

\* extract_linux_payloads: "http" is a kernel without a tree, "plain" nothing
ExtractLinux(d) ==
    IF LinuxPair(d)
    THEN IF ~HasCasper(d) THEN "http"
         ELSE IF Content[d].large THEN "failed" ELSE "casper"
    ELSE IF ~LivePair(d) THEN "plain"
    ELSE IF Content[d].large \/ ~LiveTree(d) THEN "failed" ELSE "live"

ExtractWindows(d) ==
    IF WindowsMedia(d) /\ ~Content[d].large THEN "setup" ELSE "failed"

(***************************************************************************)
(* 7-Zip may fail on any disc: no room, a timeout, an empty member.        *)
(***************************************************************************)
Extracted(d, works) ==
    IF ~works \/ Content[d].parts = {} THEN "failed"
    ELSE IF libFamily = "linux" THEN ExtractLinux(d) ELSE ExtractWindows(d)

\* The media columns of a row: the disc they were unpacked from, and what
\* was found.  Plain media leave no path behind.
NoMedia == [disc |-> "none", how |-> "plain"]

MediaOf(d, how) == IF how = "plain" THEN NoMedia ELSE [disc |-> d, how |-> how]
-----------------------------------------------------------------------------
(* The list of sources *)

Ids(items) == {items[k].id : k \in DOMAIN items}

\* The rows that have an id and are the first to have it
FirstNamed(items) ==
    {k \in DOMAIN items :
        items[k].id # "" /\ \A j \in 1..(k - 1) : items[j].id # items[k].id}

\* parse_ubuntu_install_sources
LinuxItems(listing) ==
    [k \in DOMAIN listing |->
        [id |-> listing[k].name, default |-> listing[k].default, wim |-> 0]]

LinuxSources(listing) ==
    Picked(LinuxItems(listing), FirstNamed(LinuxItems(listing)))

UnnamedId(index) == "image-" \o ToString(index)

\* parse_wim_image_xml: an IMAGE with an index below 1 is passed over.
WimItems(listing) ==
    [k \in DOMAIN listing |->
        LET image == listing[k]
        IN  [id |-> IF image.index < 1 THEN ""
                    ELSE IF image.name = "" THEN UnnamedId(image.index)
                    ELSE image.name,
             default |-> image.index = 1, wim |-> image.index]]

\* The items at a WIM index, in the order they have
AtIndex(items, index) == {k \in DOMAIN items : items[k].wim = index}

\* Sorted by index
Sorted(items) ==
    LET upTo[n \in 0..Max({0} \union {items[k].wim : k \in DOMAIN items})] ==
            IF n = 0 THEN <<>>
            ELSE upTo[n - 1] \o Picked(items, AtIndex(items, n))
    IN  upTo[Max({0} \union {items[k].wim : k \in DOMAIN items})]

\* Without an image 1 the first one is the default.
WithDefault(items) ==
    IF items = <<>> \/ \E k \in DOMAIN items : items[k].default THEN items
    ELSE [k \in DOMAIN items |->
             [id |-> items[k].id, default |-> k = 1, wim |-> items[k].wim]]

WimSources(listing) ==
    LET items == WimItems(listing)
    IN  WithDefault(Sorted(Picked(items, FirstNamed(items))))

\* What catalog_from_json reads of a list; 0 stands for no index.
ReadBack(items) ==
    [k \in DOMAIN items |->
        [id |-> items[k].id, default |-> items[k].default,
         wim |-> IF items[k].wim < 1 THEN 0 ELSE items[k].wim]]

Stored(items) == Picked(ReadBack(items), FirstNamed(ReadBack(items)))

\* A WIM's XML is looked up by its header; if it is compressed or not there,
\* searched in the file's tail.
Legible(d) ==
    IF libFamily = "linux" THEN "yaml" \in Content[d].found
    ELSE Content[d].found \intersect {"header", "tail"} # {}

\* discover_image_sources: only a tree and an install.wim have a list.
LinuxLists == [d \in Discs |-> Stored(LinuxSources(Content[d].listing))]
WimLists == [d \in Discs |-> Stored(WimSources(Content[d].listing))]

Catalogue(media) ==
    IF media.disc = "none" \/ media.how = "http" THEN <<>>
    ELSE IF ~Legible(media.disc) THEN <<>>
    ELSE IF libFamily = "linux" THEN LinuxLists[media.disc]
    ELSE WimLists[media.disc]

\* Mutated form: the current source is kept whether it is offered or not.
PickKeeps(items, current) ==
    IF current # "" THEN current ELSE items[1].id

\* pick_source_id of a list that is not empty
Pick(items, current) ==
    IF current \in Ids(items) THEN current
    ELSE LET defaults == {k \in DOMAIN items : items[k].default}
         IN  items[IF defaults = {} THEN 1 ELSE Min(defaults)].id

\* wim_index_for_source, or else the index there was
WimIndex(items, id, else) ==
    LET named == {k \in DOMAIN items : items[k].id = id}
    IN  IF named # {} /\ items[Min(named)].wim # 0 THEN items[Min(named)].wim
        ELSE else
-----------------------------------------------------------------------------
(* Rows *)

\* An ISO that has no file yet; todo is the disc a queued job will unpack.
NoIsoRow == [status |-> "idle", todo |-> "none", media |-> NoMedia,
             options |-> <<>>]

NoTemplate == [iso |-> 0, status |-> "idle", media |-> NoMedia,
               options |-> <<>>, source |-> "", wim |-> 1]

NoLibAttempt == [tpl |-> 0, media |-> NoMedia, source |-> "", wim |-> 1,
                 listed |-> FALSE, mixed |-> FALSE]

NoTplEdit == [tpl |-> 0, seen |-> NoTemplate]

\* linux_boot_mode: ready media that run an installer of their own
BootMode(row) ==
    IF libFamily # "linux" \/ row.status # "ready" THEN ""
    ELSE IF row.media = NoMedia THEN "sanboot"
    ELSE IF row.media.how = "live" THEN "live-boot" ELSE ""

WithSource(template, id) ==
    [template EXCEPT !.source = id,
                     !.wim = WimIndex(template.options, id, @)]

\* sync_template
SyncTemplate(template, s, row) ==
    LET mirrored == [template EXCEPT !.iso = s, !.status = row.status,
                         !.media = row.media, !.options = row.options]
    IN  IF BootMode(row) # "" THEN [mirrored EXCEPT !.source = ""]
        ELSE IF row.options = <<>> THEN mirrored
        ELSE WithSource(mirrored, Pick(row.options, template.source))

TemplatesOf(s) == {t \in LibTemplates : libTpl[t].iso = s}

\* sync_templates, after ISO rows have changed
SaveIsos(rows, changed) ==
    LET linked == UNION {TemplatesOf(s) : s \in changed}
    IN  /\ libIso' = rows
        /\ libTpl' = [t \in LibTemplates |->
               IF t \in linked
               THEN SyncTemplate(libTpl[t], libTpl[t].iso, rows[libTpl[t].iso])
               ELSE libTpl[t]]
        /\ libMixed' = libMixed \ linked
        /\ UNCHANGED <<libFamily, libAtt, libEdit>>

SaveLibIso(s, row) == SaveIsos([libIso EXCEPT ![s] = row], {s})
-----------------------------------------------------------------------------
(* The ISO and its extraction; "queued" stands for extracting as well *)

\* isos_create and isos_update with a file, or Retry extract with any
Queue(s, d) ==
    /\ libIso[s].status # "queued"
    /\ libJobs < MaxJobs
    /\ libJobs' = libJobs + 1
    /\ SaveLibIso(s, [libIso[s] EXCEPT !.todo = d, !.status = "queued"])

RunJob(s, works) ==
    /\ libIso[s].status = "queued"
    /\ UNCHANGED libJobs
    /\ LET how == Extracted(libIso[s].todo, works)
           media == MediaOf(libIso[s].todo, how)
           row == [libIso[s] EXCEPT !.todo = "none"]
           kept == IF libFamily = "linux" \/ Catalogue(media) # <<>>
                   THEN Catalogue(media) ELSE row.options
       IN  SaveLibIso(s, IF how = "failed"
                         THEN [row EXCEPT !.status = "failed"]
                         ELSE [row EXCEPT !.status = "ready",
                                   !.media = media, !.options = kept])

\* refresh_iso_sources
Refreshed(row) ==
    IF row.status = "ready" /\ Catalogue(row.media) # <<>>
    THEN [row EXCEPT !.options = Catalogue(row.media)] ELSE row

\* backfill_image_sources, when the worker starts
BackfillSources ==
    /\ SaveIsos([s \in LibIsos |-> Refreshed(libIso[s])], LibIsos)
    /\ UNCHANGED libJobs

\* Opening the page of a template that shows no sources
ViewImage(t) ==
    LET s == libTpl[t].iso
    IN  /\ s # 0 /\ BootMode(libTpl[t]) = "" /\ libTpl[t].options = <<>>
        /\ Refreshed(libIso[s]) # libIso[s]
        /\ SaveLibIso(s, Refreshed(libIso[s]))
        /\ UNCHANGED libJobs
-----------------------------------------------------------------------------
(* Templates *)

CreateTemplate(t, s) ==
    /\ libTpl[t].iso = 0
    /\ libTpl' = [libTpl EXCEPT ![t] = SyncTemplate(NoTemplate, s, libIso[s])]
    /\ UNCHANGED <<libFamily, libIso, libMixed, libAtt, libEdit, libJobs>>

\* templates_update reads the row, and waits for the form.
BeginTemplateSave(c, t) ==
    /\ libEdit[c].tpl = 0 /\ libTpl[t].iso # 0
    /\ libEdit' = [libEdit EXCEPT ![c] = [tpl |-> t, seen |-> libTpl[t]]]
    /\ UNCHANGED <<libFamily, libIso, libTpl, libMixed, libAtt, libJobs>>

Offered(template, posted) ==
    template.options = <<>> \/ posted \in Ids(template.options) \union {""}

\* update_image: first the ISO, then the index, then the source
Updated(template, posted, index) ==
    LET indexed == IF index = 0 THEN template
                   ELSE [template EXCEPT !.wim = index]
    IN  IF template.options = <<>> THEN [indexed EXCEPT !.source = posted]
        ELSE WithSource(indexed, Pick(template.options, posted))

Saved(c, s) == SyncTemplate(libEdit[c].seen, s, libIso[s])

(***************************************************************************)
(* Only columns that differ from what the request read are written.        *)
(***************************************************************************)
CommitTemplate(c, new) ==
    LET t == libEdit[c].tpl
        seen == libEdit[c].seen
    IN  /\ libTpl' = [libTpl EXCEPT ![t] =
               [col \in DOMAIN new |-> IF new[col] # seen[col] THEN new[col]
                                       ELSE libTpl[t][col]]]
        /\ libMixed' = IF libTpl[t] = seen THEN libMixed \ {t}
                       ELSE libMixed \union {t}
        /\ libEdit' = [libEdit EXCEPT ![c] = NoTplEdit]
        /\ UNCHANGED <<libFamily, libIso, libAtt, libJobs>>

SaveTemplate(c, s, posted, index) ==
    /\ libEdit[c].tpl # 0
    /\ Offered(Saved(c, s), posted)
    /\ CommitTemplate(c, Updated(Saved(c, s), posted, index))

TemplateSaveRefused(c, s, posted) ==
    /\ libEdit[c].tpl # 0
    /\ ~Offered(Saved(c, s), posted)
    /\ libEdit' = [libEdit EXCEPT ![c] = NoTplEdit]
    /\ UNCHANGED <<libFamily, libIso, libTpl, libMixed, libAtt, libJobs>>
-----------------------------------------------------------------------------
(* Installs *)

\* image_deploy_reason; an idle ISO has neither a file nor a kernel.
LibDeployable(t) == libTpl[t].iso # 0 /\ libTpl[t].status = "ready"

\* create_install_attempt
StageInstall(m, t) ==
    /\ LibDeployable(t)
    /\ libAtt' = [libAtt EXCEPT ![m] =
           [tpl |-> t, media |-> libTpl[t].media, source |-> libTpl[t].source,
            wim |-> libTpl[t].wim, listed |-> libTpl[t].options # <<>>,
            mixed |-> t \in libMixed]]
    /\ UNCHANGED <<libFamily, libIso, libTpl, libMixed, libEdit, libJobs>>

EndInstall(m) ==
    /\ libAtt[m].tpl # 0
    /\ libAtt' = [libAtt EXCEPT ![m] = NoLibAttempt]
    /\ UNCHANGED <<libFamily, libIso, libTpl, libMixed, libEdit, libJobs>>

\* placeholder_values: the attempt's source, or else the template's of now
Told(m) ==
    IF libAtt[m].source # "" THEN libAtt[m].source
    ELSE libTpl[libAtt[m].tpl].source
-----------------------------------------------------------------------------
(***************************************************************************)
(* ISOs start without a file, or as an older release left them: unpacked,  *)
(* but with no list of sources read.                                       *)
(***************************************************************************)
OldIso(d) ==
    LET how == Extracted(d, TRUE)
    IN  IF how = "failed" THEN NoIsoRow
        ELSE [NoIsoRow EXCEPT !.status = "ready", !.media = MediaOf(d, how)]

NobodyYet ==
    /\ libTpl = [t \in LibTemplates |-> NoTemplate]
    /\ libMixed = {}
    /\ libAtt = [m \in LibHosts |-> NoLibAttempt]
    /\ libEdit = [c \in LibEditors |-> NoTplEdit]
    /\ libJobs = 0

SourcesInit ==
    /\ libFamily \in {"linux", "windows"}
    /\ \E old \in OldLibraries :
           libIso = [s \in LibIsos |-> OldIso(old[s])]
    /\ NobodyYet

SourcesIdle ==
    /\ libFamily = "linux" /\ libIso = [s \in LibIsos |-> NoIsoRow]
    /\ NobodyYet

SourcesNext ==
    \/ \E s \in LibIsos :
          \/ \E d \in Discs : Queue(s, d)
          \/ \E works \in BOOLEAN : RunJob(s, works)
          \/ \E t \in LibTemplates : CreateTemplate(t, s)
          \/ \E c \in LibEditors, posted \in PostedSources :
                \/ \E index \in PostedIndexes \union {0} :
                      SaveTemplate(c, s, posted, index)
                \/ TemplateSaveRefused(c, s, posted)
    \/ BackfillSources
    \/ \E t \in LibTemplates :
          \/ ViewImage(t)
          \/ \E c \in LibEditors : BeginTemplateSave(c, t)
          \/ \E m \in LibHosts : StageInstall(m, t)
    \/ \E m \in LibHosts : EndInstall(m)

SourcesSpec == SourcesInit /\ [][SourcesNext]_libVars
-----------------------------------------------------------------------------
LibStatuses == {"idle", "queued", "ready", "failed"}

Medias == [disc : Discs \union {"none"},
           how : {"plain", "http", "casper", "live", "setup"}]

SourceLists == {<<>>} \union {LinuxLists[d] : d \in Discs}
                \union {WimLists[d] : d \in Discs}

SourcesTypeOK ==
    /\ libFamily \in {"linux", "windows"}
    /\ libIso \in [LibIsos -> [status : LibStatuses,
           todo : Discs \union {"none"}, media : Medias, options : SourceLists]]
    /\ \A t \in LibTemplates :
           /\ libTpl[t].iso \in LibIsos \union {0}
           /\ libTpl[t].options \in SourceLists
           /\ libTpl[t].wim \in Nat \ {0}
    /\ libMixed \subseteq LibTemplates
    /\ libJobs \in 0..MaxJobs
    /\ \A m \in LibHosts : libAtt[m].tpl \in LibTemplates \union {0}
    /\ \A c \in LibEditors : libEdit[c].tpl \in LibTemplates \union {0}

\* The disc has an image or a source of that name; if Windows, at that index.
\* An image without a name is asked for by a name nobody gave it, see README.
Offers(d, source, index) ==
    \E k \in DOMAIN Content[d].listing :
        LET row == Content[d].listing[k]
        IN  IF libFamily = "linux" THEN row.name = source
            ELSE /\ row.index = index
                 /\ source = IF row.name = "" THEN UnnamedId(index) ELSE row.name

(***************************************************************************)
(* What a guest is told to install is on the disc its install pinned,      *)
(* whatever has been uploaded, saved from an old page or switched since:   *)
(* both words of the seed fit one and the same row of the disc's list      *)
(* (seed_render.py: "Windows Setup treats INDEX+NAME as AND").  Installs   *)
(* are meant whose disc has a list that can be read, staged when the       *)
(* template showed a list; a template whose save crossed another change    *)
(* is not, until the next sync (see CommitTemplate).                       *)
(***************************************************************************)
SourceFits ==
    \A m \in LibHosts :
        LET a == libAtt[m]
        IN  a.tpl # 0 /\ a.listed /\ ~a.mixed /\ a.media.how # "live"
                /\ Catalogue(a.media) # <<>>
            => Offers(a.media.disc, Told(m), a.wim)
=============================================================================
