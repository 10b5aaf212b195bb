------------------------------ MODULE KdefSync ------------------------------
(***************************************************************************)
(* What a declarative sync promises of a cluster, without saying how: a    *)
(* release either claims to be in sync with a revision or claims nothing.  *)
(* It changes the cluster only while it claims nothing, writes objects in  *)
(* rank order, removes an object only when everything that replaces it is  *)
(* in place, and claims a revision only when all of it is in the cluster.  *)
(***************************************************************************)
EXTENDS Naturals

CONSTANTS
    Release,
    Revision,
    Address,   \* what the API server can hold an object at
    Desired,   \* Desired[r][v]: the sets of addresses r may render from v
    Rank,      \* Rank[a]: objects of a lower rank are written first
    None

VARIABLES
    live,      \* live[a]: the release and revision last written at a, or None
    claim      \* claim[r]: the revision and addresses r claims in place, or None

vars == <<live, claim>>

Owned(r) == UNION UNION {Desired[r][v] : v \in Revision}

InPlace(r, v, objects) == \A a \in objects : live[a] = <<r, v>>

Init ==
    /\ live = [a \in Address |-> None]
    /\ claim = [r \in Release |-> None]

Retract(r) ==
    /\ claim[r] # None
    /\ claim' = [claim EXCEPT ![r] = None]
    /\ UNCHANGED live

Write(r, v) ==
    /\ claim[r] = None
    /\ \E objects \in Desired[r][v] : \E a \in objects :
          /\ InPlace(r, v, {b \in objects : Rank[b] < Rank[a]})
          /\ live' = [live EXCEPT ![a] = <<r, v>>]
    /\ UNCHANGED claim

Remove(r, v) ==
    /\ claim[r] = None
    /\ \E objects \in Desired[r][v] : \E a \in Owned(r) \ objects :
          /\ InPlace(r, v, objects)
          /\ live' = [live EXCEPT ![a] = None]
    /\ UNCHANGED claim

Claim(r, v) ==
    /\ claim[r] = None
    /\ \E objects \in Desired[r][v] :
          /\ InPlace(r, v, objects)
          /\ claim' = [claim EXCEPT ![r] = [revision |-> v, objects |-> objects]]
    /\ UNCHANGED live

Next ==
    \E r \in Release :
        \/ Retract(r)
        \/ \E v \in Revision : Write(r, v) \/ Remove(r, v) \/ Claim(r, v)

Spec == Init /\ [][Next]_vars
=============================================================================
