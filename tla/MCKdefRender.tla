---------------------------- MODULE MCKdefRender ----------------------------
(***************************************************************************)
(* Small instances of KdefRender for TLC: projects of at most two entries, *)
(* three directories and two files, in families that each vary one thing.  *)
(***************************************************************************)
EXTENDS KdefRender

MCDashed == [h \in {"h1", "h2"} |-> <<h>>]

MCAlphabet ==
    <<"2", "agent", "api", "cfg", "clusterrole", "clusterrolebinding", "configmap", "conf", "crd",
      "csidriver", "db", "disk", "extra", "files", "front", "h1", "h2", "ingress", "job", "live", "namespace",
      "one", "ops", "other", "persistentvolumeclaim", "pull", "pvc", "role", "run", "sa", "seal",
      "sealedsecret", "secret", "test", "tls", "two", "web">>

MCElements ==
    [v \in Value |-> CASE v = "pair" -> <<"one", "two">> [] v = "nobody" -> <<>> [] OTHER -> None]

Unset == [x \in Variable |-> None]
Flag(v) == [Unset EXCEPT !["flag"] = v]

(***************************************************************************)
(* Blocks.                                                                 *)
(***************************************************************************)
Volume(name, sources) == [BlankVolume EXCEPT !.name = name, !.path = "at", !.sources = sources]
Conf == Volume("conf", [configmap |-> <<"cfg">>])
Data == Volume("data", [persistentvolumeclaim |-> <<"disk">>, emptydir |-> <<"any">>])
Drive == [Volume("drive", [csi |-> <<"disk">>]) EXCEPT !.csiSecret = <<"files">>]

Sidecar == [BlankContainer EXCEPT !.volumes = <<Conf, Volume("own", [secret |-> <<"seal">>])>>]
Main == [BlankContainer EXCEPT !.volumes = <<Conf>>, !.ports = <<8080>>, !.probes = {{"http"}},
             !.env = {<<"secret", <<"seal">>>>}, !.hooks = {{"exec"}}, !.pullPolicy = "Always"]
Seed == [BlankInit EXCEPT !.mounts = <<"conf", "unknown">>, !.envFrom = {<<"configmap", <<"extra">>>>},
             !.args = "seed"]

On(host) == [BlankIngress EXCEPT !.host = host, !.tls = TRUE]

Api == [Blank EXCEPT !.kind = "deployment", !.name = <<"api">>, !.service = <<>>,
            !.containers = <<Sidecar, Main>>, !.inits = <<Seed>>, !.autoscale = TRUE,
            !.ingresses = <<On("h1"), [BlankIngress EXCEPT !.hosts = <<"h2">>]>>,
            !.histories = {"history_limit"}]
Db == [Blank EXCEPT !.kind = "statefulset", !.name = <<"db">>, !.service = <<>>,
           !.claims = [data |-> {"mount_path", "storage"}],
           !.containers = <<[Main EXCEPT !.volumes = <<Data>>]>>, !.servicePorts = <<[number |-> 5432]>>]
Agent == [Blank EXCEPT !.kind = "daemonset", !.name = <<"agent">>, !.sa = <<"ops">>,
              !.containers = <<BlankContainer>>, !.volumes = <<Drive>>]
Job == [Blank EXCEPT !.kind = "cronjob", !.name = <<"job">>,
            !.containers = <<[BlankContainer EXCEPT !.volumes = <<Data, Conf>>]>>]
Public == [Blank EXCEPT !.kind = "ingress", !.name = <<"front">>, !.perItem = TRUE,
              !.ingresses = <<[BlankIngress EXCEPT !.backend = <<"api">>, !.port = 80, !.hosts = <<"h2">>,
                                                   !.secret = <<"tls">>]>>]
Thing(kind, name) == [Blank EXCEPT !.kind = kind, !.name = <<name>>]
Cfg == Thing("configmap", "cfg")
Seal == Thing("sealedsecret", "seal")
Disk == Thing("persistentvolumeclaim", "disk")
DriverSecret == Thing("secret", "files")

Plain(b) == [form |-> "block", var |-> None, blocks |-> <<b>>]
If(b) == [form |-> "if", var |-> "flag", blocks |-> <<b>>]
For(b) == [form |-> "for", var |-> "tenants", blocks |-> <<b>>]

(***************************************************************************)
(* Directories and projects.                                               *)
(***************************************************************************)
NoEnv == [n \in Env |-> None]
Replicas(n, useVars) == [accepted |-> TRUE, replicas |-> [x \in {<<"api">>} |-> n], useVars |-> useVars]
Envs == [n \in Env |-> IF n = "prod" THEN Replicas(3, Flag("yes")) ELSE Replicas(5, Unset)]

Holding(files) == [declared |-> [Unset EXCEPT !["tenants"] = "pair"], files |-> files,
                   defaults |-> None, env |-> Envs]
Shared == Holding(<<<<Plain(Thing("clusterrole", "role")), Plain(Thing("clusterrolebinding", "role"))>>,
                    <<Plain(Thing("crd", "disk")), Plain(Thing("csidriver", "disk"))>>>>)
App == Holding(<<<<Plain(Api), Plain(Seal)>>, <<If(Cfg), For(Public)>>>>)
Tools == Holding(<<<<Plain(Db), Plain(Agent), Plain(Job)>>, <<Plain(Disk), Plain(DriverSecret)>>>>)

In(dir, ns) == [dir |-> dir, ns |-> ns, sa |-> None, env |-> None, set |-> Unset]
Root(entries) == [namespaces |-> {}, accounts |-> <<>>, defaults |-> None, env |-> None,
                  set |-> Unset, entries |-> entries]
Quiet == [env |-> None, set |-> Unset, values |-> Flag("yes")]

Dirs(root, app, tools) ==
    [d \in Dir |-> CASE d = "root" -> root [] d = "app" -> app [] d = "tools" -> tools [] OTHER -> None]

Rooting(root, dirs, cli) == [root |-> root, single |-> "app", dirs |-> dirs, cli |-> cli]
Alone(app, cli) == Rooting(None, Dirs(Shared, app, Tools), cli)

(***************************************************************************)
(* Where a setting may come from: one directory loaded twice, for two      *)
(* namespaces.                                                             *)
(***************************************************************************)
Settings ==
    {Rooting([Root(<<[In("app", <<"live">>) EXCEPT !.env = e1, !.set = Flag(s1)], In("app", <<"test">>)>>)
                 EXCEPT !.env = e0, !.set = Flag(s0)],
             Dirs(Shared, [App EXCEPT !.declared["flag"] = own], Tools),
             [env |-> e, set |-> Flag(s), values |-> Flag(v)]) :
        e \in {None, "stage"}, e0 \in {None, "stage"}, e1 \in {None, "prod"},
        s \in {None, "no"}, s0 \in {None, "yes"}, s1 \in {None, "yes", "no"},
        v \in {None, "yes"}, own \in {None, "no"}}

(***************************************************************************)
(* Namespaces and service accounts.                                        *)
(***************************************************************************)
Account(name, ns) == [name |-> name, ns |-> ns]
AccountLists ==
    {<<>>, <<Account(<<"ops">>, None), Account(<<"ops">>, <<"live">>)>>,
     <<Account(<<"ops">>, None), Account(<<"ops", "run">>, None)>>,
     <<Account(<<"ops">>, <<"test">>), Account(<<"ops">>, <<"test">>)>>}

Spaces ==
    {Rooting([Root(<<[In("app", n1) EXCEPT !.sa = sa], In("tools", n2)>>)
                 EXCEPT !.namespaces = names, !.accounts = list],
             Dirs(Shared, App, Tools), Quiet) :
        n1 \in {None, <<"live">>}, n2 \in {<<"live">>, <<"run", "live">>},
        sa \in {None, <<"ops">>, <<"ops", "run">>},
        names \in {{}, {<<"live">>}, {<<"live">>, <<"run", "live">>}},
        list \in AccountLists}

(***************************************************************************)
(* Ingress defaults.                                                       *)
(***************************************************************************)
Default(tls, secret, class, mode) == [tls |-> tls, secret |-> secret, class |-> class, mode |-> mode]
DefaultsOf ==
    {None, Default(TRUE, None, "haproxy", None), Default(TRUE, <<"web">>, None, "gateway"),
     Default(FALSE, None, "traefik", None)}

Defaulted ==
    {Rooting(IF alone THEN None
             ELSE [Root(<<In("app", <<"live">>), In("tools", <<"test">>)>>) EXCEPT !.defaults = far],
             Dirs(Shared, [App EXCEPT !.defaults = near], Tools), Quiet) :
        alone \in BOOLEAN, near \in DefaultsOf, far \in DefaultsOf}

(***************************************************************************)
(* Projects with one thing wrong, or nearly so, in the directory app.      *)
(***************************************************************************)
Odd(files) == [Holding(files) EXCEPT !.declared["flag"] = "yes"]

Oddities ==
    LET with(b) == Odd(<<<<Plain(Api), Plain(Cfg)>>, <<Plain(b)>>>>)
        other == [Api EXCEPT !.name = <<"web">>, !.ingresses = <<>>]
        fronting(i) == [Public EXCEPT !.perItem = FALSE, !.ingresses = <<i>>]
    IN  {with(Api), with([Api EXCEPT !.ns = <<"live">>, !.ingresses = <<>>]),
         with([Api EXCEPT !.ns = <<"other">>]),
         with([other EXCEPT !.service = <<"api">>]), with([other EXCEPT !.service = <<"pull">>]),
         with([other EXCEPT !.ingresses = <<On("h1")>>]),
         with([other EXCEPT !.ingresses = <<[On("h2") EXCEPT !.name = <<"api">>]>>]),
         with([other EXCEPT !.ingresses = <<[On("h1") EXCEPT !.secret = <<"tls">>], On(None)>>]),
         with([other EXCEPT !.histories = {"history_limit", "revision_history_limit"}]),
         with([other EXCEPT !.containers = <<[Main EXCEPT !.probes = {{}}]>>]),
         with([other EXCEPT !.containers = <<[Main EXCEPT !.pullPolicy = "Sometimes"]>>]),
         with([other EXCEPT !.containers = <<[Main EXCEPT !.hooks = {{"exec", "http_get"}}]>>]),
         with([Agent EXCEPT !.ingresses = <<On("h2")>>]), with([Cfg EXCEPT !.name = <<"two">>, !.sa = <<"ops">>]),
         with([Job EXCEPT !.containers = <<Main>>]), with([Job EXCEPT !.containers = <<>>]),
         with([other EXCEPT !.inits = <<[Seed EXCEPT !.pullPolicy = "Sometimes"]>>]),
         with([other EXCEPT !.volumes = <<[Conf EXCEPT !.csiAttributes = TRUE]>>]),
         with([other EXCEPT !.volumes = <<[Conf EXCEPT !.csiSecret = <<"files">>]>>]),
         with([other EXCEPT !.volumes = <<[Conf EXCEPT !.path = None]>>]),
         with([other EXCEPT !.volumes = <<Conf, Volume("bare", <<>>), Drive>>]),
         with([Db EXCEPT !.claims = [data |-> {"mount_path"}]]), with([other EXCEPT !.evaluates = FALSE]),
         with([Thing("crd", "disk") EXCEPT !.storageVersions = 2]),
         with(fronting(BlankIngress)),
         with(fronting([BlankIngress EXCEPT !.backend = <<"api">>, !.port = 0, !.hosts = <<"h2", None, "h2">>])),
         with(fronting([BlankIngress EXCEPT !.backend = <<"api">>, !.port = 80, !.host = "h1", !.tls = TRUE])),
         with([Job EXCEPT !.name = <<"clusterrole", "role">>]),
         Odd(<<<<If(Api), For(Cfg)>>>>), Odd(<<<<For(Seal)>>>>), Odd(<<<<For(other)>>>>),
         [Odd(<<<<For([other EXCEPT !.perItem = TRUE]), For(Public)>>>>) EXCEPT !.declared["tenants"] = "nobody"],
         [Odd(<<<<For(Public)>>>>) EXCEPT !.declared["tenants"] = "yes"],
         [Odd(<<<<For(Public)>>>>) EXCEPT !.declared["tenants"] = None],
         [App EXCEPT !.env = [n \in Env |-> [Replicas(1, Unset) EXCEPT !.accepted = FALSE]]],
         [App EXCEPT !.env = NoEnv], Odd(<<>>)}

Odds ==
    {Rooting(root, Dirs(Shared, app, Tools), [Quiet EXCEPT !.env = "prod"]) :
        root \in {None, Root(<<In("app", <<"live">>)>>), Root(<<In("app", <<"live">>), In("gone", None)>>), Root(<<>>)},
        app \in Oddities}

\* The files at the root themselves may be refused.
OddRoots ==
    {Rooting(Root(<<In("app", <<"live">>)>>), Dirs(Odd(files), App, Tools), Quiet) :
        files \in {<<<<Plain(Cfg), Plain(Cfg)>>>>, <<<<If(Cfg)>>>>, <<<<Plain(Public)>>>>}}

MCProject == Settings \cup Spaces \cup Defaulted \cup Odds \cup OddRoots
=============================================================================
