-------------------------- MODULE CloudConfigEditor --------------------------
(***************************************************************************)
(* The cloud-init editor of a seed (src/src/cloudinit/editor.py), between  *)
(* the text box of a page and the form: opening it shows the seed as form  *)
(* fields, Advanced YAML and, for an autoinstall seed, the installer's     *)
(* fields and Other installer keys; applying it writes them back.          *)
(*                                                                         *)
(* A key of the document is named after the type of its field.  "ca-certs" *)
(* is an old name of "ca_certs"; "other" has no field.  A seed keeps the   *)
(* keys whose lines are still the original ones.                           *)
(***************************************************************************)
EXTENDS EditorFields

CONSTANTS Seeds,       \* the seeds an operator opens
          Edits,       \* <<key, form>>: what the operator types in a field
          YamlEdits,   \* <<key, value>>: what is typed in Advanced YAML
          InstallerEdits,
          InstallerYamlEdits,
          MaxFieldEdits, \* bound: edits before an apply
          MaxApplies     \* bound: applies to one seed

VARIABLES seed,  \* the text of the box: its mode, its keys and its layout
          page   \* the open editor, or Closed

editorVars == <<seed, page>>

\* Mode "autoinstall" has the user-data inside; header: the first line is
\* #cloud-config; block: a plain block mapping; inline: a list placeholder
\* shares its line.
Seed(mode, body, header, block, inline) ==
    [mode |-> mode, body |-> body, header |-> header, block |-> block,
     inline |-> inline, lines |-> Keys(body), applied |-> 0]

\* An empty box
Blank == Seed("cloud-config", {}, FALSE, TRUE, FALSE)
Closed == <<>>
UserData == "user-data"
Alias == "ca-certs"
Canonical == "ca_certs"
FieldOf(key) == IF key = Canonical THEN "object" ELSE key
InstallerFields == [key \in {"early", "late", "storage"} |->
                       IF key = "storage" THEN "layout" ELSE "command_list"]
Modelled == FieldTypes \union {Canonical}

\* _cloud_config_mapping; user-data that is text counts as none
CloudConfig(s) ==
    IF s.mode = "cloud-config" THEN s.body
    ELSE IF UserData \in Keys(s.body) /\ At(s.body, UserData)[1] = "map"
    THEN At(s.body, UserData)[2] ELSE {}
Installer(s) == IF s.mode = "autoinstall" THEN Without(s.body, UserData) ELSE {}

\* _rename_top
Renamed(cc) ==
    IF Alias \in Keys(cc) /\ Canonical \notin Keys(cc)
    THEN Without(cc, Alias) \union {<<Canonical, At(cc, Alias)>>} ELSE cc
-----------------------------------------------------------------------------
(* cloud_config_view *)

HasForm(key, v) == key \in Modelled /\ View(FieldOf(key), v) # Odd
HasInstallerForm(key, v) ==
    key \in DOMAIN InstallerFields /\ View(InstallerFields[key], v) # Odd

InstallerDoc(installer) ==
    {<<pair[1], View(InstallerFields[pair[1]], pair[2])>> :
        pair \in {p \in installer : HasInstallerForm(p[1], p[2])}}
InstallerRest(installer) == {p \in installer : ~HasInstallerForm(p[1], p[2])}

PageOf(s) ==
    LET cc == Renamed(CloudConfig(s))
        shown == {p \in cc : HasForm(p[1], p[2])}
    IN  [doc |-> {<<p[1], View(FieldOf(p[1]), p[2])>> : p \in shown},
         extra |-> cc \ shown,
         installer |-> InstallerDoc(Installer(s)),
         installerExtra |-> InstallerRest(Installer(s)),
         edited |-> {}, installerEdited |-> {}, edits |-> 0]
-----------------------------------------------------------------------------
(* _build: the document that the posted fields make *)

\* _emit_document
EmittedPairs(doc) == {<<p[1], Emit(FieldOf(p[1]), p[2])>> : p \in doc}
Pruned(doc) == {p \in EmittedPairs(doc) : p[2] # Omit}

\* _check_top_credentials and _check_installer_value
Unsafe(pairs) == Smuggled(Map(pairs))
UnsafeInstaller(pairs) == Unsafe(pairs) \/ HasSecret(Map(pairs))

\* Mutated form: Advanced YAML is not checked for credentials.
CloudConfigRefusedUnchecked(pg) ==
    LET pruned == Pruned(pg.doc)
    IN  \/ Refused \in {p[2] : p \in pruned}
        \/ Unsafe(pruned)
        \/ Keys(pruned) \intersect Keys(pg.extra) # {}

\* Mutated form: a key may be set in the form and in Advanced YAML.
CloudConfigRefusedButTwice(pg) ==
    LET pruned == Pruned(pg.doc)
    IN  Refused \in {p[2] : p \in pruned} \/ Unsafe(pruned) \/ Unsafe(pg.extra)

CloudConfigRefused(pg) ==
    LET pruned == Pruned(pg.doc)
    IN  \/ Refused \in {p[2] : p \in pruned}
        \/ Unsafe(pruned)
        \/ Unsafe(pg.extra)
        \/ Keys(pruned) \intersect Keys(pg.extra) # {}
Merged(pg) == Pruned(pg.doc) \union pg.extra

\* _emit_installer; a field that still shows what it showed keeps its value
InstallerValue(p, original) ==
    IF p \in InstallerDoc(original) THEN At(original, p[1])
    ELSE Emit(InstallerFields[p[1]], p[2])
InstallerPairs(pg, original) ==
    {p \in {<<q[1], InstallerValue(q, original)>> : q \in pg.installer} : p[2] # Omit}
InstallerRefused(pg, original) ==
    LET pairs == InstallerPairs(pg, original)
    IN  \/ Refused \in {p[2] : p \in pairs}
        \/ UnsafeInstaller(pairs \ original)
        \/ pg.installerExtra # InstallerRest(original) /\ UnsafeInstaller(pg.installerExtra)
        \/ UserData \in Keys(pg.installerExtra)
        \/ Keys(pairs) \intersect Keys(pg.installerExtra) # {}

\* A client that posts no installer fields leaves that section as it is; an
\* empty user-data is added to no seed.
Rebuilt(s, pg, posted) ==
    LET merged == Merged(pg)
        installer == IF posted THEN InstallerPairs(pg, Installer(s)) \union pg.installerExtra
                     ELSE Installer(s)
    IN  IF UserData \in Keys(s.body) \/ merged # {}
        THEN installer \union {<<UserData, Map(merged)>>} ELSE installer
Built(s, pg, posted) ==
    IF s.mode = "cloud-config" THEN Merged(pg) ELSE Rebuilt(s, pg, posted)
Refuses(s, pg, posted) ==
    \/ CloudConfigRefused(pg)
    \/ s.mode = "autoinstall" /\ posted /\ InstallerRefused(pg, Installer(s))
-----------------------------------------------------------------------------
(* _render_seed: how much of the text is written anew *)

\* The order of keys and the spelling of placeholders and numbers aside
SameMeaning(body, other) == body = other

Dumped(s, body) ==
    [s EXCEPT !.body = body, !.lines = {}, !.applied = @ + 1,
              !.header = TRUE, !.block = TRUE, !.inline = FALSE]

\* _splice_autoinstall: only the keys whose meaning changed
Spliced(s, body) ==
    [s EXCEPT !.body = body, !.applied = @ + 1,
              !.lines = {key \in s.lines \intersect Keys(body) :
                          SameMeaning(At(body, key), At(s.body, key))}]

Rendered(s, body) ==
    IF s.inline THEN Dumped(s, body)
    ELSE IF s.header /\ SameMeaning(body, s.body) THEN [s EXCEPT !.applied = @ + 1]
    ELSE IF s.mode = "autoinstall" /\ s.header /\ s.block /\ s.body # {}
    THEN Spliced(s, body) ELSE Dumped(s, body)
-----------------------------------------------------------------------------
(***************************************************************************)
(* What a page takes when it saves a seed.  The parsed mapping must have   *)
(* placeholders for its secrets, also where it is written in one line, and *)
(* so must every line of the text by itself: a line that names a secret    *)
(* and holds nothing is refused, too.                                      *)
(***************************************************************************)
SecretKeys == CredentialKeys \union {"secret"}
Crypted(key, v) == key = "hashed_passwd" /\ v = Str("$6$hash")

\* _reject_flow_secrets, which looks at the value of a secret no further
HeldOpenly(x) ==
    IF x[1] = "map" THEN {p[2] : p \in {q \in x[2] : q[1] \notin SecretKeys}} ELSE Held(x)
FlowSecret(v) ==
    \E x \in Within(v, HeldOpenly) :
        /\ x[1] = "map"
        /\ \E p \in x[2] :
               /\ p[1] \in SecretKeys /\ ~Crypted(p[1], p[2])
               /\ p[2] \notin {Null, Str(""), Str("{{password}}")}

\* line_has_literal_secret, over the lines of a block mapping
HeldInLines(x) == IF x[1] = "text" THEN {p[2] : p \in x[2]} ELSE Held(x)
LineSecret(v) ==
    \E x \in Within(v, HeldInLines) :
        \/ x = SecretLine
        \/ /\ x[1] \in {"map", "text"}
           /\ \E p \in x[2] :
                  p[1] \in SecretKeys /\ p[2] # Str("{{password}}") /\ ~Crypted(p[1], p[2])

Savable(body, block) ==
    /\ ~FlowSecret(Map(body))
    /\ IF block THEN ~LineSecret(Map(body)) ELSE ~HasSecret(Map(body))
-----------------------------------------------------------------------------
(* strip_autoinstall *)

Runcmd == "command_list"
CurtinCommands == [t \in {"curtin in-target -- p"} |-> Str("p")]
InstallerOnly == {Str("reboot -f")}

\* _kept_install_command
Converted(x) ==
    IF IsStr(x) /\ x[2] \in DOMAIN CurtinCommands THEN CurtinCommands[x[2]] ELSE x
AsCommands(cc) ==
    IF Runcmd \notin Keys(cc) \/ At(cc, Runcmd) = Null THEN <<>>
    ELSE IF At(cc, Runcmd)[1] = "list" THEN At(cc, Runcmd)[2] ELSE <<At(cc, Runcmd)>>
InstallCommands(s, key) ==
    IF key \in Keys(s.body) /\ IsList(At(s.body, key)) THEN At(s.body, key)[2] ELSE <<>>

KeptCommands(s, existing) ==
    LET fit == SelectSeq(InstallCommands(s, "early") \o InstallCommands(s, "late"),
                         LAMBDA x : x \notin InstallerOnly \union {Null, Str("")})
        Add(kept, x) ==
            IF Converted(x) \in ToSet(existing \o kept) THEN kept
            ELSE Append(kept, Converted(x))
    IN  FoldLeft(Add, <<>>, fit)

\* _user_data_mapping reads user-data that is text, too.
UserDataOf(s) ==
    IF UserData \notin Keys(s.body) \/ At(s.body, UserData) \in {Null, Str("")} THEN {}
    ELSE IF At(s.body, UserData)[1] = "text" THEN At(s.body, UserData)[2]
    ELSE CloudConfig(s)
Stripped(s) ==
    LET cc == UserDataOf(s)
        existing == AsCommands(cc)
        kept == KeptCommands(s, existing)
    IN  IF kept = <<>> THEN cc
        ELSE Without(cc, Runcmd) \union {<<Runcmd, List(existing \o kept)>>}
-----------------------------------------------------------------------------
(* The operator at the form (src/src/static/cloudinit-editor.js) *)

(***************************************************************************)
(* A seed is what a text that can be saved is read as: YAML has each key   *)
(* once, also in the user-data.  The form has fields for the installer's   *)
(* keys only.                                                              *)
(***************************************************************************)
ASSUME EditorAssumption ==
    /\ \A s \in Seeds :
           /\ s = Seed(s.mode, s.body, s.header, s.block, s.inline)
           /\ s.mode \in {"cloud-config", "autoinstall"}
           /\ OncePerKey(s.body) /\ OncePerKey(CloudConfig(s))
           /\ s.mode = "autoinstall" => OncePerKey(UserDataOf(s))
           /\ Savable(s.body, s.block)
    /\ \A edit \in InstallerEdits : edit[1] \in DOMAIN InstallerFields
    /\ MaxFieldEdits \in Nat /\ MaxApplies \in Nat

EditorInit == seed \in Seeds /\ page = Closed

OpenEditor ==
    /\ page = Closed /\ seed.applied < MaxApplies
    /\ page' = PageOf(seed)
    /\ UNCHANGED seed

Edit(next, key) ==
    /\ page # Closed /\ page.edits < MaxFieldEdits
    /\ page' = [next EXCEPT !.edited = @ \union {key}, !.edits = @ + 1]
    /\ UNCHANGED seed
TypeInField(key, form) == Edit([page EXCEPT !.doc = Without(@, key) \union {<<key, form>>}], key)
ClearField(key) == Edit([page EXCEPT !.doc = Without(@, key)], key)
TypeInYaml(key, v) == Edit([page EXCEPT !.extra = Without(@, key) \union {<<key, v>>}], key)
ClearYaml(key) == Edit([page EXCEPT !.extra = Without(@, key)], key)

EditInstaller(next, key) ==
    /\ page # Closed /\ seed.mode = "autoinstall" /\ page.edits < MaxFieldEdits
    /\ page' = [next EXCEPT !.installerEdited = @ \union {key}, !.edits = @ + 1]
    /\ UNCHANGED seed
TypeInInstaller(key, form) ==
    EditInstaller([page EXCEPT !.installer = Without(@, key) \union {<<key, form>>}], key)
ClearInstaller(key) == EditInstaller([page EXCEPT !.installer = Without(@, key)], key)
TypeInInstallerYaml(key, v) ==
    EditInstaller([page EXCEPT !.installerExtra = Without(@, key) \union {<<key, v>>}], key)

ApplyEditor(posted) ==
    /\ page # Closed
    /\ page' = Closed
    /\ ~Refuses(seed, page, posted)
    /\ seed' = Rendered(seed, Built(seed, page, posted))

ApplyRefused(posted) ==
    /\ page # Closed
    /\ Refuses(seed, page, posted)
    /\ UNCHANGED editorVars

CloseEditor == page # Closed /\ page' = Closed /\ UNCHANGED seed

StripAutoinstall ==
    /\ page = Closed /\ seed.mode = "autoinstall"
    /\ seed' = [Dumped(seed, Stripped(seed)) EXCEPT !.mode = "cloud-config", !.applied = 0]
    /\ UNCHANGED page

EditorNext ==
    \/ OpenEditor \/ CloseEditor \/ StripAutoinstall
    \/ \E posted \in BOOLEAN : ApplyEditor(posted) \/ ApplyRefused(posted)
    \/ \E edit \in Edits : TypeInField(edit[1], edit[2])
    \/ \E edit \in YamlEdits : TypeInYaml(edit[1], edit[2])
    \/ \E edit \in InstallerEdits : TypeInInstaller(edit[1], edit[2])
    \/ \E edit \in InstallerYamlEdits : TypeInInstallerYaml(edit[1], edit[2])
    \/ page # Closed /\ \E key \in Keys(page.doc) : ClearField(key)
    \/ page # Closed /\ \E key \in Keys(page.extra) : ClearYaml(key)
    \/ page # Closed /\ \E key \in Keys(page.installer) : ClearInstaller(key)

EditorSpec == EditorInit /\ [][EditorNext]_editorVars
-----------------------------------------------------------------------------
(* Properties *)

\* Type correctness; no key is written twice.
EditorTypeOK ==
    /\ seed.mode \in {"cloud-config", "autoinstall"}
    /\ OncePerKey(seed.body) /\ OncePerKey(CloudConfig(seed))
    /\ seed.lines \subseteq Keys(seed.body)
    /\ seed.applied \in 0..MaxApplies
    /\ page # Closed =>
           /\ OncePerKey(page.doc) /\ OncePerKey(page.extra)
           /\ OncePerKey(page.installer) /\ OncePerKey(page.installerExtra)
           /\ page.edits \in 0..MaxFieldEdits

\* Respellings the page does not announce: an octal text becomes a number,
\* a list of one placeholder that placeholder, repeated choices one; nothing
\* is left of a null command; groups are listed one by one, and a group whose
\* one member is a list placeholder loses it.
Respelled(f) == f \in {"octal", "string_list", "enum_list", "command_list", "groups"}

\* Editing a key never changes another: every key of the cloud-config that
\* was not edited keeps its value, unless the page says how it will be saved
\* or its field only respells it; no key appears that was not typed; every
\* installer key that was not edited keeps its value, and its lines when the
\* text allows for it.
Untouched(s, pg, body, lines) ==
    LET before == Renamed(CloudConfig(s))
        after == CloudConfig([s EXCEPT !.body = body])
    IN  /\ \A p \in before : p[1] \notin pg.edited =>
               \/ p \in after
               \/ p[1] \in Keys(after) /\ (Noted(FieldOf(p[1]), p[2]) \/ Respelled(p[1]))
        /\ Keys(after) \subseteq Keys(before) \union pg.edited
        /\ \A p \in Installer(s) : p[1] \notin pg.installerEdited =>
               /\ p \in body
               /\ s.header /\ s.block /\ ~s.inline /\ p[1] \in s.lines => p[1] \in lines
EditsKeepTheRest ==
    [][\A posted \in BOOLEAN :
          ApplyEditor(posted) => Untouched(seed, page, seed'.body, seed'.lines)]_editorVars

(***************************************************************************)
(* No way through the editor writes a literal password: not a field, not   *)
(* Other keys, not Advanced YAML, not the installer's fields or its YAML   *)
(* (_check_top_credentials, _check_installer_value).                       *)
(***************************************************************************)
NoLiteralWritten ==
    [][\A posted \in BOOLEAN : ApplyEditor(posted) =>
          ~Unsafe(CloudConfig(seed')) /\ ~UnsafeInstaller(Installer(seed'))]_editorVars

(***************************************************************************)
(* "The same rule seed_render.validate_seed_template applies on save"      *)
(* (editor.py, line 11): what an apply makes of a seed that can be saved   *)
(* can be saved, unless YAML that somebody typed could not be.             *)
(***************************************************************************)
TypedYaml(pg) ==
    {pg.extra, pg.installerExtra}
        \union {p[2][3] : p \in {q \in pg.doc \union pg.installer : IsForm(q[2])}}
        \union {p[2][2] : p \in {q \in pg.doc : q[2][1] = "map"}}
StaysSavable ==
    [][\A posted \in BOOLEAN :
          /\ ApplyEditor(posted) /\ Savable(seed.body, TRUE)
          /\ \A yaml \in TypedYaml(page) : Savable(yaml, TRUE)
          => Savable(seed'.body, TRUE)]_editorVars

\* editor.py, line 13: an apply without edits returns the seed unchanged;
\* here, unless the page says what it will save differently.
NoOpReturnsSeed ==
    [][\A posted \in BOOLEAN :
          ApplyEditor(posted) /\ page.edits = 0 /\ ~seed.inline /\ seed.header =>
              \/ seed'.body = seed.body
              \/ \E p \in Renamed(CloudConfig(seed)) :
                     Noted(FieldOf(p[1]), p[2]) \/ p \notin CloudConfig(seed)]_editorVars

=============================================================================
