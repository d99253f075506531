------------------------ MODULE MCCloudConfigEditor ------------------------
(***************************************************************************)
(* The values a field may hold in a seed: one for each shape of value the  *)
(* editor tells apart, and those its form cannot show.                     *)
(***************************************************************************)
EXTENDS CloudConfigEditor

Words == {Str("p"), Str(""), Str("two lines"), Str("12"), Str("true"), Null,
          Num(12), Bool(TRUE), Bool(FALSE), Str("{{password}}"), Str("{{packages}}")}
Lists == {List(<<>>), List(<<Str("p"), Num(12)>>), List(<<Str("p"), Str("p")>>),
          List(<<Str("p"), Null>>), List(<<Str("{{packages}}")>>), List(<<Bool(TRUE)>>),
          List(<<Str("p"), Str("two lines")>>), List(<<List(<<Str("p"), Num(12)>>)>>)}
Maps == {Map({}), Map({<<"a", Str("p")>>}), Map({<<"name", Str("p")>>, <<"b", Num(12)>>}),
         Map({<<"a", Null>>, <<"b", List(<<Str("p")>>)>>}),
         Map({<<"name", Num(12)>>, <<"password", Str("p")>>})}
Own ==
  [f \in FieldTypes |->
    CASE f = "octal" -> {Str("0o644"), Num(420)}
      [] f = "hashed_passwd" -> {Str("$6$hash")}
      [] f = "all_or_list" -> {Str("all")}
      [] f \in {"map", "words"} -> {Map({<<"a", Str("")>>, <<"b", Null>>})}
      [] f = "command_list" -> {Map({<<"b", Str("p")>>, <<"a", List(<<Str("q")>>)>>}),
                                List(<<SecretLine>>), List(<<Null, Str("two lines")>>)}
      [] f = "users" -> {List(<<Map({<<"name", Str("p")>>, <<"a", Num(12)>>}), Str("q")>>),
                         Map({<<"a", Bool(TRUE)>>, <<"b", Map({<<"a", Str("p")>>})>>})}
      [] f = "chpasswd" -> {List(<<Map({<<"name", Str("p")>>, <<"password", Str("{{password}}")>>})>>),
                            List(<<Map({<<"name", Str("p")>>, <<"type", Str("RANDOM")>>})>>),
                            List(<<Map({<<"password", Str("{{password}}")>>})>>)}
      [] f = "groups" -> {Str("p, q"), List(<<Map({<<"a", Str("p")>>, <<"b", Null>>}), Str("q")>>),
                          List(<<Map({<<"a", List(<<Str("p")>>)>>})>>),
                          List(<<Map({<<"a", List(<<Str("{{ssh_keys}}")>>)>>})>>)}
      [] f = "mounts" -> {List(<<List(<<Str("p"), Null>>), List(<<Num(12), Str(""), Str("q")>>)>>),
                          List(<<List(<<Str("p"), Str("")>>)>>),
                          List(<<List(<<Str("p"), Str("p"), Str("p"), Str("p")>>)>>)}
      [] f = "named" -> {Map({<<"a", Map({<<"a", Str("p")>>})>>, <<"b", Map({})>>}),
                         Map({<<"a", Map({<<"name", Str("p")>>})>>})}
      [] f = "texts" -> {Map({<<"a", Str("p")>>, <<"b", Str("two lines")>>})}
      [] f = "package_list" -> {List(<<Map({<<"apt", List(<<Str("p"), List(<<Str("q"), Str("12")>>)>>)>>}), Str("r")>>),
                                List(<<Map({<<"apt", List(<<Str("p")>>)>>, <<"snap", List(<<Str("q")>>)>>})>>),
                                List(<<Map({<<"apt", List(<<Str("p")>>)>>}), Map({<<"apt", List(<<Str("q")>>)>>})>>)}
      [] f = "disk_layout" -> {Str("remove"), List(<<Num(12), List(<<Num(12), Num(420)>>)>>),
                               List(<<List(<<Num(12)>>)>>), List(<<Str("12")>>)}
      [] OTHER -> {}]
ValuesOf(f) == Words \union Lists \union Maps \union Own[f]

FieldSeeds ==
    UNION {{Seed("cloud-config", {<<f, v>>, <<"other", Num(12)>>}, TRUE, TRUE, FALSE) :
               v \in ValuesOf(f)} : f \in FieldTypes}

\* Layouts and modes, with few values in them.
Contents == {{}, {<<"password", Null>>}, {<<"command_list", Str("p")>>}, {<<"command_list", List(<<Str("p"), Null>>)>>},
             {<<Alias, Map({<<"a", Str("p")>>})>>},
             {<<Alias, Map({<<"a", Str("p")>>})>>, <<Canonical, Map({<<"b", Num(12)>>})>>},
             {<<"string_list", Str("{{packages}}")>>, <<"other", Num(12)>>}}
UserDatas == {{}} \union {{<<UserData, Map(cc)>>} : cc \in Contents}
                \union {{<<UserData, <<"text", cc>>>>} : cc \in Contents \ {{}}}
Installers ==
    {{}, {<<"early", List(<<Str("reboot -f"), Str("curtin in-target -- p")>>)>>,
          <<"late", List(<<Str("q"), Null, Str("p")>>)>>},
     {<<"late", Str("q")>>, <<"storage", Map({<<"name", Str("p")>>, <<"b", Num(12)>>})>>,
      <<"other", Null>>}}
Layouts == {<<TRUE, TRUE, FALSE>>, <<FALSE, TRUE, FALSE>>, <<TRUE, FALSE, FALSE>>,
            <<TRUE, TRUE, TRUE>>}
LayoutSeeds ==
    {Seed("autoinstall", ud \union installer, l[1], l[2], l[3]) :
        ud \in UserDatas, installer \in Installers, l \in Layouts}
    \union {Seed("cloud-config", cc, l[1], l[2], l[3]) : cc \in Contents, l \in Layouts}
\* An autoinstall seed whose user-data is a mapping, or text
UserDataSeeds ==
    {Seed("autoinstall", {<<UserData, v>>} \union installer, TRUE, TRUE, FALSE) :
        v \in {Map({<<"other", Num(12)>>}), <<"text", {<<"other", Num(12)>>}>>},
        installer \in Installers}
MCSeeds == {s \in FieldSeeds \union LayoutSeeds : Savable(s.body, s.block)}

\* A string, a number as text, a literal and a placeholder where a password
\* belongs, a password among other keys, a field cleared by blanks.
MCEdits == {<<"string", Str("q")>>, <<"flex", Str("12")>>, <<"text", Str("")>>,
            <<"password", Str("p")>>, <<"password", Str("{{password}}")>>,
            <<"object", Form({<<"a", Str("q")>>}, {<<"password", Str("p")>>})>>,
            <<"map", Map({<<"a", Str("p")>>})>>,
            <<"command_list", List(<<Str("q"), SecretLine>>)>>, <<"users", Str("p")>>,
            <<Canonical, Form({}, {<<"b", Null>>})>>}
MCYamlEdits == {<<"other", Str("p")>>, <<"string", Str("q")>>, <<"command_list", List(<<Str("q")>>)>>,
                <<"users", List(<<Map({<<"password", Str("p")>>})>>)>>,
                <<Alias, Map({<<"a", Str("q")>>})>>, <<"secret", Str("p")>>}
MCInstallerEdits == {<<"late", List(<<Str("q")>>)>>, <<"early", List(<<SecretLine>>)>>,
                     <<"storage", Form({<<"name", Str("q")>>, <<"password", Str("{{password}}")>>}, {})>>,
                     <<"storage", Form({<<"name", Str("q")>>, <<"password", Str("p")>>}, {})>>}
MCInstallerYamlEdits == {<<"other", Num(12)>>, <<"late", List(<<Str("p")>>)>>,
                         <<"other", List(<<SecretLine>>)>>, <<UserData, Map({})>>}
=============================================================================
