---------------------------- MODULE EditorFields ----------------------------
(***************************************************************************)
(* The fields of the cloud-init editor (src/src/cloudinit/editor.py): for  *)
(* each type of field, what the form shows of a YAML value (View) and what *)
(* it writes back (Emit).                                                  *)
(*                                                                         *)
(* A value is a tagged tuple.  A mapping is a set of pairs, since cloud-   *)
(* init does not read the order of keys; KeyOrder stands for the order a   *)
(* file has.  A placeholder is written {{name}} in seed and form alike:    *)
(* the code shields it for YAML and unshields it again.  A few words stand *)
(* for the shapes of text the code tells apart.  The fields of an object   *)
(* and the columns of a row are text fields here.                          *)
(***************************************************************************)
EXTENDS Naturals, Sequences, FiniteSets, SequencesExt

Str(t) == <<"str", t>>
Num(n) == <<"num", n>>
Bool(b) == <<"bool", b>>
Null == <<"null">>
List(s) == <<"list", s>>
Map(s) == <<"map", s>>

Odd == <<"odd">>          \* _Unrepresentable: the form cannot show it
Omit == <<"omit">>        \* _OMIT: the field writes nothing
Refused == <<"refused">>  \* EditorError

IsStr(v) == v[1] = "str"
IsNum(v) == v[1] = "num"
IsBool(v) == v[1] = "bool"
IsList(v) == v[1] = "list" /\ v[2] # <<>>
IsMap(v) == v[1] = "map" /\ v[2] # {}
Filled(v) == IsStr(v) /\ v[2] # ""
OneLine(v) == Filled(v) /\ v[2] # "two lines"
IsEmpty(v) == v \in {Null, Str(""), List(<<>>), Map({})}

BlockTokens == {Str("{{packages}}"), Str("{{ssh_keys}}")}
Placeholders == BlockTokens \union {Str("{{password}}")}
Digits == [t \in {"12"} |-> 12]
Octal == [t \in {"0o644", "0o14"} |-> IF t = "0o14" THEN 12 ELSE 420]
Truth == [t \in {"true", "false"} |-> t = "true"]
IsDigits(v) == IsStr(v) /\ v[2] \in DOMAIN Digits
IsTruth(v) == IsStr(v) /\ v[2] \in DOMAIN Truth

ShownIf(fits, v) == IF fits THEN v ELSE Odd
WrittenIf(fits, v) == IF fits THEN v ELSE Omit
Every(items, P(_)) == \A k \in DOMAIN items : P(items[k])
Each(items, F(_)) == [k \in DOMAIN items |-> F(items[k])]
ListOr(items, other) == IF items = <<>> THEN other ELSE List(items)

Keys(map) == {pair[1] : pair \in map}
At(map, key) == (CHOOSE pair \in map : pair[1] = key)[2]
OncePerKey(map) == \A p, q \in map : p[1] = q[1] => p = q
Without(map, key) == {pair \in map : pair[1] # key}
KeyOrder == <<"a", "apt", "b", "name", "password", "snap", "type">>
SortedKeys(map) == SelectSeq(KeyOrder, LAMBDA key : key \in Keys(map))

CredentialKeys == {"password", "hashed_passwd"}

\* _validate_password_value: a literal, where a placeholder must stand; only
\* hashed_passwd also takes a crypt hash.
Literal(key, v) ==
    /\ ~IsEmpty(v)
    /\ v # Str("{{password}}")
    /\ ~(key = "hashed_passwd" /\ v = Str("$6$hash"))

(***************************************************************************)
(* v and all that is in it, Into(x) being what is looked at in x; bound:   *)
(* values nest no deeper than six.                                         *)
(***************************************************************************)
Within(v, Into(_)) ==
    LET In(found) == UNION {Into(x) : x \in found}
        one == In({v})
        two == In(one)
        three == In(two)
        four == In(three)
        five == In(four)
    IN  {v} \union one \union two \union three \union four \union five \union In(five)

Held(x) ==
    IF x[1] = "list" THEN ToSet(x[2])
    ELSE IF x[1] = "map" THEN {pair[2] : pair \in x[2]} ELSE {}

\* _check_credentials: a literal anywhere in a value; the lines of the
\* legacy chpasswd.list are left out.
Smuggled(v) ==
    \E x \in Within(v, Held) :
        /\ x[1] = "map"
        /\ \E pair \in x[2] :
               pair[1] \in CredentialKeys /\ Literal(pair[1], pair[2])
-----------------------------------------------------------------------------
(* Text and scalars *)

ViewString(f, v) ==
    IF f = "octal" /\ IsNum(v)
    THEN Str(CHOOSE t \in DOMAIN Octal : Octal[t] = v[2])
    ELSE ShownIf(OneLine(v), v)
EmitString(f, s) ==
    IF ~Filled(s) THEN Omit
    ELSE IF f \in CredentialKeys /\ Literal(f, s) THEN Refused
    ELSE IF f = "octal" /\ s[2] \in DOMAIN Octal THEN Num(Octal[s[2]])
    ELSE s

ViewText(v) == ShownIf(Filled(v), v)
EmitText(s) == WrittenIf(Filled(s), s)

ViewBool(v) == ShownIf(IsBool(v), v)
EmitBool(s) ==
    IF IsBool(s) THEN s
    ELSE IF s \in {Null, Str("")} THEN Omit
    ELSE IF IsTruth(s) THEN Bool(Truth[s[2]])
    ELSE Refused

\* The uid of a user may be written as text.
ViewInt(f, v) ==
    IF f = "uid" /\ IsDigits(v) THEN Num(Digits[v[2]]) ELSE ShownIf(IsNum(v), v)
EmitInt(s) ==
    IF IsEmpty(s) THEN Omit
    ELSE IF IsDigits(s) THEN Num(Digits[s[2]])
    ELSE IF IsNum(s) THEN s ELSE Refused

TruthText(b) == Str(CHOOSE t \in DOMAIN Truth : Truth[t] = b)

\* A choice among words; "switch" has true and false among them.
ViewEnum(f, v) ==
    IF IsBool(v) /\ f = "switch" THEN TruthText(v[2])
    ELSE ShownIf(Filled(v) /\ ~(f = "switch" /\ IsTruth(v)), v)
EmitEnum(f, s) ==
    IF f = "switch" /\ IsTruth(s) THEN Bool(Truth[s[2]])
    ELSE WrittenIf(IsBool(s) \/ Filled(s), s)

\* _emit_flex_value: text that reads as a number or a truth value is one.
EmitFlex(s) ==
    IF IsTruth(s) THEN Bool(Truth[s[2]])
    ELSE IF IsDigits(s) THEN Num(Digits[s[2]])
    ELSE WrittenIf(IsBool(s) \/ IsNum(s) \/ Filled(s), s)
ViewFlex(v) ==
    IF IsBool(v) THEN TruthText(v[2])
    ELSE ShownIf(IsNum(v) \/ (IsStr(v) /\ EmitFlex(v) = v), v)
-----------------------------------------------------------------------------
(* Lists *)

Scalar(x) == OneLine(x) \/ IsNum(x)

\* _emit_scalar_items
KeptItems(items) ==
    SelectSeq(items, LAMBDA x : Filled(x) \/ IsNum(x) \/ IsBool(x))

ViewItems(v, P(_)) == ShownIf(IsList(v) /\ Every(v[2], P), v)
EmitItems(s) == IF IsList(s) THEN ListOr(KeptItems(s[2]), Omit) ELSE Omit

\* _block_token: a list placeholder, also as the only item of a list
BlockToken(s) == {t \in BlockTokens : s \in {t, List(<<t>>)}}

ViewStringList(v) ==
    IF v \in BlockTokens THEN v
    ELSE IF OneLine(v) THEN List(<<v>>) ELSE ViewItems(v, Scalar)
EmitStringList(s) ==
    IF BlockToken(s) # {} THEN CHOOSE t \in BlockToken(s) : TRUE
    ELSE EmitItems(IF IsStr(s) THEN List(<<s>>) ELSE s)

\* sudo may be false.
ViewStringOrList(f, v) ==
    IF OneLine(v) \/ (f = "sudo" /\ v = Bool(FALSE)) THEN v ELSE ViewItems(v, Scalar)
EmitStringOrList(f, s) ==
    IF Filled(s) \/ (f = "sudo" /\ s = Bool(FALSE)) THEN s ELSE EmitItems(s)

ViewEnumList(v) == ViewItems(v, OneLine)
EmitEnumList(s) ==
    LET Add(kept, x) ==
            IF Filled(x) /\ x \notin ToSet(kept) THEN Append(kept, x) ELSE kept
        items == IF IsStr(s) THEN <<s>> ELSE IF IsList(s) THEN s[2] ELSE <<>>
    IN  ListOr(FoldLeft(Add, <<>>, items), Omit)

ViewAllOrList(v) == IF v = Str("all") THEN v ELSE ViewItems(v, OneLine)
EmitAllOrList(s) == IF s = Str("all") THEN s ELSE EmitItems(s)

\* Text is one line.
ViewLines(v) == ViewItems(v, Scalar)
EmitLines(s) == EmitItems(IF IsStr(s) THEN List(<<s>>) ELSE s)

\* A command is text or a list of words; a mapping of commands is taken in
\* the order of its keys.
IsCommand(x) == Filled(x) \/ ViewItems(x, Scalar) # Odd
ViewCommands(v) ==
    LET items == IF IsMap(v) THEN Each(SortedKeys(v[2]), LAMBDA key : At(v[2], key))
                 ELSE IF IsList(v) THEN v[2] ELSE <<>>
        kept == SelectSeq(items, LAMBDA x : x # Null)
    IN  IF Every(kept, IsCommand) THEN ListOr(kept, Odd) ELSE Odd

SecretLine == Str("password: x")
\* _check_secret_lines
HasSecret(v) == SecretLine \in Within(v, Held)
\* Mutated form: the lines are not looked at.
EmitCommandsUnchecked(s) ==
    LET items == IF IsStr(s) THEN <<s>> ELSE IF IsList(s) THEN s[2] ELSE <<>>
        written == Each(items, LAMBDA x : IF Filled(x) THEN x ELSE EmitItems(x))
    IN  ListOr(SelectSeq(written, LAMBDA x : x # Omit), Omit)

EmitCommands(s) ==
    LET items == IF IsStr(s) THEN <<s>> ELSE IF IsList(s) THEN s[2] ELSE <<>>
        written == Each(items, LAMBDA x : IF Filled(x) THEN x ELSE EmitItems(x))
        kept == SelectSeq(written, LAMBDA x : x # Omit)
    IN  IF HasSecret(List(kept)) THEN Refused ELSE ListOr(kept, Omit)
-----------------------------------------------------------------------------
(* Values shown as YAML, and mappings *)

Fits(f, v) == ~(f = "yaml_map" /\ v[1] # "map") /\ ~(f = "yaml_list" /\ v[1] # "list")
ViewYaml(f, v) == ShownIf(~IsEmpty(v) /\ Fits(f, v), v)
EmitYaml(f, s) ==
    IF IsEmpty(s) THEN Omit
    ELSE IF ~Fits(f, s) \/ Smuggled(s) THEN Refused ELSE s

\* The rows of a map field hold scalars, or only words.
MapItem(f, x) ==
    IF f = "words" THEN OneLine(x)
    ELSE x[1] \in {"str", "num", "bool", "null"} /\ x # Str("two lines")
ViewMap(f, v) ==
    ShownIf(IsMap(v) /\ \A pair \in v[2] : MapItem(f, pair[2]), v)
EmitMap(s) ==
    IF IsMap(s) /\ Smuggled(s) THEN Refused ELSE WrittenIf(IsMap(s), s)

(***************************************************************************)
(* _view_fields: what the form of an object cannot show goes to its Other  *)
(* keys, the third component; _merge_extra writes them back with the rest. *)
(***************************************************************************)
ObjectKeys == {"name", "a", "type", "password"}
Form(known, extra) == <<"form", known, extra>>
IsForm(s) == s[1] = "form"
Shown(map) == {pair \in map : pair[1] \in ObjectKeys /\ OneLine(pair[2])}
\* Mutated form: only what the form shows is kept.
ViewFieldsShown(map) == Form(Shown(map), {})
ViewFields(map) == Form(Shown(map), map \ Shown(map))
EmitFields(s) ==
    LET known == {pair \in s[2] : Filled(pair[2])}
    IN  IF Smuggled(Map(known \union s[3])) \/ Keys(known) \intersect Keys(s[3]) # {}
        THEN Refused ELSE Map(known \union s[3])

\* "user" may be a plain name; "layout" must have its sub-key.
ViewObject(f, v) ==
    IF f = "user" /\ Filled(v) THEN ViewFields({<<"name", v>>})
    ELSE IF IsMap(v) /\ (f = "layout" => "name" \in Keys(Shown(v[2])))
    THEN ViewFields(v[2]) ELSE Odd
EmitObject(f, s) ==
    LET value == IF IsForm(s) THEN EmitFields(s) ELSE Map({})
        lacks == f = "layout" /\ value # Refused /\ "name" \notin Keys(value[2])
    IN  WrittenIf(value # Map({}) /\ ~lacks, value)
-----------------------------------------------------------------------------
(* Rows *)

\* Rows that must all be fit to show, and at least one.
RowsOr(rows, other) ==
    IF \E k \in DOMAIN rows : rows[k] \in {Odd, Refused} THEN other
    ELSE ListOr(rows, other)

\* A row of users is a mapping that names its user, or a plain word.
ViewRow(f, x) ==
    IF f # "chpasswd" /\ OneLine(x) THEN x
    ELSE IF IsMap(x) /\ (f = "users" => "name" \in Keys(Shown(x[2])))
    THEN ViewFields(x[2]) ELSE Odd

\* In a mapping of users TRUE is a user with nothing else.
UserRow(name, v) ==
    IF v = Bool(TRUE) THEN Str(name)
    ELSE IF v[1] = "map" /\ "name" \notin Keys(v[2])
    THEN Map({<<"name", Str(name)>>} \union v[2]) ELSE Odd
ViewRows(f, v) ==
    LET Row(x) == ViewRow(f, x)
        User(name) == UserRow(name, At(v[2], name))
        items == IF IsList(v) THEN v[2]
                 ELSE IF f # "users" THEN <<>>
                 ELSE IF Filled(v) THEN <<v>>
                 ELSE IF IsMap(v) THEN Each(SortedKeys(v[2]), User) ELSE <<>>
    IN  RowsOr(Each(items, Row), Odd)

Column(r, key) == IF key \in Keys(r[2]) THEN At(r[2], key) ELSE Str("")
\* _coerce_rows
RowsOf(s) ==
    IF s[1] = "list" THEN s[2] ELSE IF s \in {Null, Str("")} THEN <<>> ELSE <<Refused>>
\* A user without a name is left out; a password row without one is refused.
EmitRows(f, s) ==
    LET rows == RowsOf(s)
        Kept(r) == ~IsForm(r) \/ f # "users" \/ Column(r, "name") # Str("")
        Written(r) == IF IsForm(r) THEN EmitFields(r) ELSE r
        written == Each(SelectSeq(rows, Kept), Written)
        lacks == \E r \in ToSet(rows) :
                     /\ f = "chpasswd" /\ IsForm(r)
                     /\ \/ Column(r, "name") = Str("")
                        \/ Column(r, "password") = Str("") /\ Column(r, "type") # Str("RANDOM")
    IN  IF lacks \/ Refused \in ToSet(written) THEN Refused
        ELSE ListOr(SelectSeq(written, LAMBDA x : x # Map({}) /\ x # Str("")), Omit)

\* _view_groups: one row for each name, with its members; text is split.
Parts == [t \in {"p, q"} |-> <<Str("p"), Str("q")>>]
GroupRow(name, members) ==
    IF members = Null THEN <<"group", name, <<>>>>
    ELSE IF Filled(members) THEN <<"group", name, <<members>>>>
    ELSE IF ViewItems(members, OneLine) # Odd THEN <<"group", name, members[2]>> ELSE Odd
GroupRows(x) ==
    IF OneLine(x) THEN <<<<"group", x[2], <<>>>>>>
    ELSE IF IsMap(x) THEN Each(SortedKeys(x[2]), LAMBDA key : GroupRow(key, At(x[2], key)))
    ELSE <<Odd>>
ViewGroups(v) ==
    LET items == IF IsList(v) THEN v[2]
                 ELSE IF IsStr(v) /\ v[2] \in DOMAIN Parts THEN Parts[v[2]]
                 ELSE IF IsMap(v) \/ Filled(v) THEN <<v>> ELSE <<>>
    IN  RowsOr(FlattenSeq(Each(items, GroupRows)), Odd)
EmitGroups(s) ==
    LET Group(r) ==
            LET members == EmitStringList(List(r[3]))
            IN  IF members[1] = "list" THEN Map({<<r[2], members>>}) ELSE Str(r[2])
    IN  IF IsList(s) THEN List(Each(s[2], Group)) ELSE Omit

\* A mount is a list of columns; blank ones at its end are not written.
Columns == 3
EmitMounts(s) ==
    LET Row(x) == LET filled == {k \in DOMAIN x[2] : x[2][k] # Str("")}
                  IN  List(SubSeq(x[2], 1, Max(filled \union {0})))
        rows == IF s[1] = "list" THEN Each(s[2], Row) ELSE <<>>
    IN  ListOr(SelectSeq(rows, LAMBDA r : r # List(<<>>)), Omit)
MountRow(x) ==
    /\ IsList(x) /\ Len(x[2]) =< Columns
    /\ Every(x[2], LAMBDA c : c = Null \/ c = Str("") \/ Scalar(c))
ViewMounts(v) == ShownIf(ViewItems(v, MountRow) # Odd /\ EmitMounts(v) = v, v)

\* Sources and disks: a mapping from a name to a row.
ViewNamed(v) ==
    IF IsMap(v) /\ \A pair \in v[2] : pair[2][1] = "map" /\ "name" \notin Keys(pair[2][2])
    THEN List(Each(SortedKeys(v[2]),
                   LAMBDA key : <<"row", key, ViewFields(At(v[2], key)[2])>>))
    ELSE Odd
EmitNamed(s) ==
    LET rows == IF s[1] = "list" THEN SelectSeq(s[2], LAMBDA r : r[2] # "") ELSE <<>>
        values == {<<r[2], EmitFields(r[3])>> : r \in ToSet(rows)}
    IN  IF \/ \E j, k \in DOMAIN rows : j # k /\ rows[j][2] = rows[k][2]
           \/ Refused \in {pair[2] : pair \in values}
        THEN Refused ELSE WrittenIf(rows # <<>>, Map(values))

\* Texts, all of them with a name or none.
ViewTexts(v) ==
    IF IsMap(v) /\ \A pair \in v[2] : Filled(pair[2])
    THEN List(Each(SortedKeys(v[2]), LAMBDA key : <<"row", key, At(v[2], key)>>))
    ELSE IF ViewItems(v, Filled) = Odd THEN Odd
    ELSE List(Each(v[2], LAMBDA x : <<"row", "", x>>))
EmitTexts(s) ==
    LET rows == IF s[1] = "list" THEN SelectSeq(s[2], LAMBDA r : Filled(r[3])) ELSE <<>>
        named == {k \in DOMAIN rows : rows[k][2] # ""}
        names == {rows[k][2] : k \in named}
    IN  IF named = {} THEN ListOr(Each(rows, LAMBDA r : r[3]), Omit)
        ELSE IF named # DOMAIN rows \/ Cardinality(names) # Len(rows) THEN Refused
        ELSE Map({<<r[2], r[3]>> : r \in ToSet(rows)})
-----------------------------------------------------------------------------
(* Packages and disk layouts *)

Managers == {"apt", "snap"}
Package(manager, x) ==
    IF OneLine(x) THEN <<"package", manager, x>>
    ELSE IF IsList(x) /\ Len(x[2]) = 2 /\ Every(x[2], OneLine) THEN <<"package", manager, x>>
    ELSE Odd
PackageRows(x) ==
    IF x[1] # "map" THEN <<Package("", x)>>
    ELSE IF \A pair \in x[2] : pair[1] \in Managers /\ IsList(pair[2])
    THEN FlattenSeq(Each(SortedKeys(x[2]),
             LAMBDA key : Each(At(x[2], key)[2], LAMBDA y : Package(key, y))))
    ELSE <<Odd>>
ViewPackages(v) ==
    IF v \in BlockTokens THEN v
    ELSE IF ~IsList(v) \/ Map({}) \in ToSet(v[2]) THEN Odd
    ELSE RowsOr(FlattenSeq(Each(v[2], PackageRows)), Odd)

\* One {manager: [...]} entry for each run of rows of a manager.
AddPackage(out, row) ==
    LET manager == row[2]
        end == IF out = <<>> THEN Null ELSE Last(out)
    IN  IF manager = "" THEN Append(out, row[3])
        ELSE IF end[1] = "map" /\ Keys(end[2]) = {manager}
        THEN Append(Front(out), Map({<<manager, List(Append(At(end[2], manager)[2], row[3]))>>}))
        ELSE Append(out, Map({<<manager, List(<<row[3]>>)>>}))
EmitPackages(s) ==
    IF s \in BlockTokens THEN s
    ELSE IF ~IsList(s) THEN Omit
    ELSE IF \E k \in DOMAIN s[2] : s[2][k][2] \notin Managers \union {""} THEN Refused
    ELSE ListOr(FoldLeft(AddPackage, <<>>, s[2]), Omit)

\* _emit_layout: a line of digits is a number, one with a comma a list.
ReadBack(x) ==
    LET Piece(y) == IF IsDigits(y) THEN Num(Digits[y[2]]) ELSE y
    IN  IF x[1] # "list" THEN Piece(x)
        ELSE IF Len(x[2]) = 1 THEN Piece(x[2][1]) ELSE List(Each(x[2], Piece))
EmitLayout(s) ==
    IF s \in {Bool(TRUE), Bool(FALSE), Str("remove")} THEN s
    ELSE IF s[1] = "list" THEN ListOr(Each(s[2], ReadBack), Omit) ELSE Omit
ViewLayout(v) ==
    IF v[1] # "list" THEN ShownIf(EmitLayout(v) = v, v)
    ELSE LET Line(x) == IsNum(x) \/ Filled(x) \/ (IsList(x) /\ Every(x[2], Scalar))
         IN  ShownIf(ViewItems(v, Line) # Odd /\ EmitLayout(v) = v, v)
-----------------------------------------------------------------------------
(* _VIEWERS and _EMITTERS *)

FieldTypes ==
    {"string", "octal", "password", "hashed_passwd", "text", "bool", "int", "uid",
     "enum", "switch", "flex", "string_list", "string_or_list", "sudo", "enum_list",
     "all_or_list", "command_list", "yaml_value", "yaml_map", "yaml_list", "map", "words",
     "object", "user", "layout", "users", "chpasswd", "groups", "mounts", "named",
     "texts", "package_list", "disk_layout", "lines"}

View(f, v) ==
    IF v = Null THEN Odd ELSE
    CASE f \in {"string", "octal", "password", "hashed_passwd"} -> ViewString(f, v)
      [] f = "text" -> ViewText(v)
      [] f = "bool" -> ViewBool(v)
      [] f \in {"int", "uid"} -> ViewInt(f, v)
      [] f \in {"enum", "switch"} -> ViewEnum(f, v)
      [] f = "flex" -> ViewFlex(v)
      [] f = "string_list" -> ViewStringList(v)
      [] f \in {"string_or_list", "sudo"} -> ViewStringOrList(f, v)
      [] f = "enum_list" -> ViewEnumList(v)
      [] f = "all_or_list" -> ViewAllOrList(v)
      [] f = "command_list" -> ViewCommands(v)
      [] f \in {"yaml_value", "yaml_map", "yaml_list"} -> ViewYaml(f, v)
      [] f \in {"map", "words"} -> ViewMap(f, v)
      [] f \in {"object", "user", "layout"} -> ViewObject(f, v)
      [] f \in {"users", "chpasswd"} -> ViewRows(f, v)
      [] f = "groups" -> ViewGroups(v)
      [] f = "mounts" -> ViewMounts(v)
      [] f = "named" -> ViewNamed(v)
      [] f = "texts" -> ViewTexts(v)
      [] f = "package_list" -> ViewPackages(v)
      [] f = "disk_layout" -> ViewLayout(v)
      [] f = "lines" -> ViewLines(v)
      [] OTHER -> Odd

Emit(f, s) ==
    CASE f \in {"string", "octal", "password", "hashed_passwd"} -> EmitString(f, s)
      [] f = "text" -> EmitText(s)
      [] f = "bool" -> EmitBool(s)
      [] f \in {"int", "uid"} -> EmitInt(s)
      [] f \in {"enum", "switch"} -> EmitEnum(f, s)
      [] f = "flex" -> EmitFlex(s)
      [] f = "string_list" -> EmitStringList(s)
      [] f \in {"string_or_list", "sudo"} -> EmitStringOrList(f, s)
      [] f = "enum_list" -> EmitEnumList(s)
      [] f = "all_or_list" -> EmitAllOrList(s)
      [] f = "command_list" -> EmitCommands(s)
      [] f \in {"yaml_value", "yaml_map", "yaml_list"} -> EmitYaml(f, s)
      [] f \in {"map", "words"} -> EmitMap(s)
      [] f \in {"object", "user", "layout"} -> EmitObject(f, s)
      [] f \in {"users", "chpasswd"} -> EmitRows(f, s)
      [] f = "groups" -> EmitGroups(s)
      [] f = "mounts" -> EmitMounts(s)
      [] f = "named" -> EmitNamed(s)
      [] f = "texts" -> EmitTexts(s)
      [] f = "package_list" -> EmitPackages(s)
      [] f = "disk_layout" -> EmitLayout(s)
      [] f = "lines" -> EmitLines(s)
      [] OTHER -> Omit

(***************************************************************************)
(* What opening the editor announces: a value that will be saved in        *)
(* another form, or a part of it that goes to Other keys or to Advanced    *)
(* YAML.                                                                   *)
(***************************************************************************)
Noted(f, v) ==
    \/ View(f, v) = Odd
    \/ f = "uid" /\ IsStr(v)
    \/ f = "string_list" /\ IsStr(v) /\ v \notin BlockTokens
    \/ f = "command_list" /\ IsMap(v)
    \/ f = "package_list" /\ Emit(f, View(f, v)) # v
    \/ f = "user" /\ IsStr(v)
    \/ f \in {"users", "groups"} /\ v[1] # "list"
    \/ /\ f \in {"object", "user", "layout"}
       /\ \E pair \in View(f, v)[3] : pair[1] \in ObjectKeys
    \/ /\ f \in {"users", "chpasswd"}
       /\ \E k \in DOMAIN View(f, v)[2] :
              LET r == View(f, v)[2][k]
              IN  IsForm(r) /\ \E pair \in r[3] : pair[1] \in ObjectKeys
=============================================================================
