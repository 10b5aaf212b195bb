-------------------------- MODULE MCKdefController --------------------------
(***************************************************************************)
(* Small instances of KdefController for TLC.                              *)
(***************************************************************************)
EXTENDS KdefController

CONSTANTS r1, r2, v1, v2, bad, n1, n2, cm, web, job1, role

MCKind == [o \in Object |->
    CASE o = cm -> "ConfigMap" [] o = web -> "Deployment" [] o = job1 -> "CronJob"
      [] o = role -> "ClusterRole"]

At(objects) == {<<n1, o>> : o \in objects}

\* r1 loses its ConfigMap from v1 to v2.
MCRender ==
    [r \in Release |-> [v \in Revision |->
        IF v = bad THEN {}
        ELSE IF v = v1 THEN At({cm, web}) ELSE At({web})]]

\* One object for each release.
MCRenderOne == [r \in Release |-> [v \in Revision |->
    IF v = bad THEN {} ELSE At({IF r = r1 THEN web ELSE job1})]]

\* A Deployment, and a ClusterRole, which has no namespace.
MCRenderRole == [r \in Release |-> [v \in Revision |-> At({web}) \cup {<<None, role>>}]]

MCInterval == [r \in Release |-> 1]
=============================================================================
