----------------------------- MODULE MCKdefLsp ------------------------------
(***************************************************************************)
(* A small instance of KdefLsp for TLC: a root with a vars.kdef, an app    *)
(* directory whose vars.kdef and sites.kdef import each other, and a       *)
(* directory next to it whose URI begins with that of the first.           *)
(***************************************************************************)
EXTENDS KdefLsp

MCDoc == {"root", "rootvars", "vars", "sites", "web", "applevars", "apple"}
MCDir == {"top", "app", "apples"}

MCDirOf ==
    [d \in MCDoc |-> CASE d \in {"root", "rootvars"} -> "top"
                       [] d \in {"vars", "sites", "web"} -> "app"
                       [] OTHER -> "apples"]
MCAncestors == [top |-> <<"top">>, app |-> <<"app", "top">>, apples |-> <<"apples", "top">>]
MCRootFile == [dir \in MCDir |-> IF dir = "top" THEN "root" ELSE None]
MCVarsFile == [top |-> "rootvars", app |-> "vars", apples |-> "applevars"]
MCBeneath ==
    [top |-> MCDoc, app |-> {"vars", "sites", "web", "apple", "applevars"}, apples |-> {"apple", "applevars"}]

Line(type, braces) == [type |-> type, braces |-> braces]
Plain == Line(None, <<>>)
Opens(type) == Line(type, <<"open">>)
Whole(type) == Line(type, <<"open", "close">>)
Closes == Line(None, <<"close">>)

Nothing == [lines |-> <<Plain>>, declares |-> <<>>, uses |-> {}, imports |-> <<>>, names |-> {}]

RootVars == [Nothing EXCEPT !.declares = [host |-> "default", flag |-> "required"]]
Vars     == [Nothing EXCEPT !.declares = [flag |-> "default"], !.imports = <<"sites">>]
VarsNext == [Nothing EXCEPT !.declares = [flag |-> "required", extra |-> "default"]]
VarsOpen == [Vars EXCEPT !.lines = <<Opens(None), Plain>>]
Sites    == [Nothing EXCEPT !.declares = [sites |-> "default", flag |-> "required"], !.imports = <<"vars">>]

Web ==
    [Nothing EXCEPT
        !.lines = <<Opens("deployment"), Opens("container"), Whole("port"), Plain, Closes, Whole("service"),
                    Plain, Closes, Plain>>,
        !.uses = {"host", "extra"}]
WebNext ==
    [Nothing EXCEPT
        !.lines = <<Whole("secret"), Opens("statefulset"), Opens("init"), Opens("env"), Plain, Closes, Plain,
                    Closes, Plain, Closes>>,
        !.uses = {"flag"}, !.names = {<<"secret", "seal">>, <<"image", "api">>}]
WebOpen == [WebNext EXCEPT !.lines = <<Whole("secret"), Opens("deployment"), Plain>>]

MCText ==
    [d \in MCDoc |-> CASE d = "root" -> {Nothing}
                       [] d = "rootvars" -> {RootVars}
                       [] d = "vars" -> {Vars, VarsNext, VarsOpen}
                       [] d = "sites" -> {Sites}
                       [] d = "web" -> {Web, WebNext, WebOpen}
                       [] OTHER -> {Nothing}]
MCDisk ==
    [d \in MCDoc |-> CASE d = "root" -> Nothing
                       [] d = "rootvars" -> RootVars
                       [] d = "vars" -> Vars
                       [] d = "sites" -> Sites
                       [] d = "web" -> Web
                       [] d = "apple" -> Nothing
                       [] OTHER -> None]

MCCursor ==
    [line : {3, 4, 5, 7, 9}, before : {{}}]
    \cup [line : {1}, before : {{"var."}, {"secret("}, {"image(", "="}, {"="}}]
=============================================================================
