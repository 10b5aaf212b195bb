--------------------------- MODULE MCKdefImporter ---------------------------
(***************************************************************************)
(* Small instances of KdefImporter for TLC: one namespace of ten objects,  *)
(* and variants of it that each change one thing.                          *)
(***************************************************************************)
EXTENDS KdefImporter

MCDashed == [h \in {"h1", "h2"} |-> <<h>>]

MCAlphabet ==
    <<"2", "agent", "api", "ca.crt", "canary", "cert", "cfg", "db", "default", "disk", "front", "h1", "h2",
      "kube", "kubernetes", "late", "live", "nightly", "nodes", "other", "public", "pvcs", "role", "root",
      "runner", "seal", "shop", "test", "web">>

Live == <<"live">>

Workload(kind, name) ==
    [kind |-> kind, ns |-> Live, name |-> <<name>>, evaluates |-> TRUE, label |-> None, governing |-> <<>>, replicas |-> 1,
     sa |-> None, volumes |-> <<>>, containers |-> <<[mounts |-> <<>>, ports |-> <<>>, env |-> {}, envFrom |-> {}]>>,
     inits |-> <<>>, claims |-> <<>>, deadline |-> None]

Plainly(kind, name) == [kind |-> kind, ns |-> Live, name |-> name, evaluates |-> TRUE]

Svc(name, selects, ports) ==
    [kind |-> "Service", ns |-> Live, name |-> <<name>>, evaluates |-> TRUE, selects |-> selects, selectsApp |-> None, ports |-> ports]

Rule(host, service, port) == [host |-> host, backends |-> <<[service |-> <<service>>, port |-> port]>>]
Ing(name, rules, tls) ==
    [kind |-> "Ingress", ns |-> Live, name |-> name, evaluates |-> TRUE, rules |-> rules, tls |-> tls]

At(name, path) == [name |-> name, path |-> path]

(***************************************************************************)
(* The namespace.                                                          *)
(***************************************************************************)
PodOf(w) ==
    [w EXCEPT !.replicas = 3, !.sa = <<"runner">>,
        !.volumes = <<[name |-> "seed", source |-> <<"configmap", <<"cfg">>>>],
                      [name |-> "tmp", source |-> <<"emptydir", None>>],
                      [name |-> "disk", source |-> <<"persistentvolumeclaim", <<"disk">>>>],
                      [name |-> "token", source |-> <<"projected", <<"token">>>>]>>,
        !.containers = <<[mounts |-> <<At("disk", "/disk"), At("tmp", "/tmp")>>, ports |-> <<>>, env |-> {}, envFrom |-> {<<"configmap", <<"cfg">>>>}],
                         [mounts |-> <<At("token", "/token"), At("tmp", "/cache"), At("data", "/data")>>, ports |-> <<8080, 9090>>,
                          env |-> {<<"secret", <<"seal">>>>}, envFrom |-> {}]>>,
        !.inits = <<[mounts |-> <<At("seed", "/seed"), At("tmp", "/tmp")>>, env |-> {<<"secret", <<"seal">>>>},
                     envFrom |-> {<<"configmap", <<"cfg">>>>}, args |-> "seed"]>>]

Web == PodOf(Workload("Deployment", "web"))
Simple == [Web EXCEPT !.containers = <<Web.containers[2]>>]
Db == [PodOf(Workload("StatefulSet", "db")) EXCEPT !.governing = <<"nodes">>, !.claims = [data |-> {"storage"}]]
Agent == [Workload("DaemonSet", "agent") EXCEPT !.sa = DefaultAccount]
Nightly == [Workload("CronJob", "nightly") EXCEPT !.deadline = 5400]
WebService == Svc("web", <<"web">>, <<80>>)
DbService == Svc("nodes", None, <<5432>>)
Public == Ing(<<"web">>, <<Rule("h1", "web", 80)>>, <<>>)
Cfg == Plainly("ConfigMap", <<"cfg">>)
Disk == Plainly("PersistentVolumeClaim", <<"disk">>)

Namespace(web, services, ingresses) ==
    <<web, Db, Agent>> \o services \o <<DbService>> \o ingresses
    \o <<Nightly, Cfg, Plainly("ConfigMap", RootCA), Disk>>

Base == Namespace(Web, <<WebService>>, <<Public>>)

(***************************************************************************)
(* Variants.                                                               *)
(***************************************************************************)
Routed ==
    LET rules == {<<>>, <<Rule("h1", "web", 8080), Rule("h2", "web", 80)>>,
                  <<Rule("h2", "web", 9090), Rule("h1", "db", 80), Rule("h2", "web", 80)>>,
                  <<Rule("h1", "nodes", 8080)>>, <<Rule(None, "web", 80)>>,
                  <<[host |-> "h1", backends |-> <<>>], Rule("h1", "web", 80)>>}
        other == Ing(<<"public">>, <<Rule("h2", "web", 9090)>>, <<>>)
    IN  UNION {{Namespace(web, <<WebService>>, list) :
                  list \in {<<Ing(name, r, tls)>>, <<Ing(name, r, tls), other>>, <<other, Ing(name, r, tls)>>}} :
              web \in {Web, Simple}, name \in {<<"web">>, <<"front">>}, r \in rules,
              tls \in {<<>>, <<<<"cert">>>>, <<None>>}}

Called ==
    {Namespace([Web EXCEPT !.label = label], list, <<Public>>) :
        label \in {None, <<"shop">>},
        list \in {<<>>, <<Svc("web", <<"shop">>, <<80>>)>>, <<WebService, Svc("public", <<"web">>, <<443, 80>>)>>,
                  <<[Svc("public", None, <<80>>) EXCEPT !.selectsApp = <<"web">>]>>, <<Svc("web", None, <<>>)>>,
                  <<Svc("kubernetes", <<"web">>, <<443>>)>>, <<Svc("shop", <<"other">>, <<80>>), WebService>>}}

Others ==
    {Append(Base, o) :
        o \in {[Workload("CronJob", "late") EXCEPT !.deadline = d] : d \in {0, 30, 60, 90, 3600, 3660, 7200}}
              \cup {Workload("Deployment", "pvcs"), [Workload("StatefulSet", "web") EXCEPT !.label = <<"other">>],
                    [Workload("Deployment", "canary") EXCEPT !.label = <<"web">>],
                    [Db EXCEPT !.name = <<"web">>, !.containers = <<Web.containers[1]>>, !.inits[1].mounts = <<At("data", "/data")>>],
                    [Db EXCEPT !.name = <<"canary">>, !.claims = [data |-> {}]],
                    [Workload("DaemonSet", "canary") EXCEPT !.volumes = Web.volumes,
                        !.containers[1].mounts = <<At("tmp", "/tmp"), At("seed", "/seed"), At("tmp", "/cache")>>],
                    [Cfg EXCEPT !.name = <<"late">>, !.evaluates = FALSE],
                    Workload("DaemonSet", "web"), [Web EXCEPT !.ns = <<"test">>],
                    [Workload("Deployment", "api") EXCEPT !.ns = <<"test">>, !.label = <<"web">>],
                    [Plainly("ClusterRole", <<"role">>) EXCEPT !.ns = None],
                    [Plainly("ClusterRoleBinding", <<"role">>) EXCEPT !.ns = None],
                    Plainly("Secret", <<"seal">>)}}

MCContents == {<<>>, Base} \cup Routed \cup Called \cup Others

MCArrivals == {Workload("Deployment", "api"), Svc("api", <<"api">>, <<80>>),
               Ing(<<"api">>, <<Rule("h2", "api", 80)>>, <<>>)}
=============================================================================
