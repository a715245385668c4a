----------------------------- MODULE ClusterStore -----------------------------
(***************************************************************************)
(* What clusters promise their users, without sharing: every cluster owns  *)
(* its indices, a clone starts with the contents of its origin, a point in *)
(* time and a running search keep the contents they started with, and one  *)
(* step changes one index of one cluster.                                  *)
(***************************************************************************)
CONSTANTS Cluster, Name, Pit, Reader,
          Content,      \* contents an index can have
          None          \* "no such index"

VARIABLES view,         \* view[c][n]: contents of index n in cluster c
          snap,         \* snap[p][n]: contents captured by a point in time
          reading       \* reading[r][n]: contents a running search works on

vars == <<view, snap, reading>>

Nothing == [n \in Name |-> None]
Part(row, S) == [n \in Name |-> IF n \in S THEN row[n] ELSE None]

Init ==
    /\ view = [c \in Cluster |-> Nothing]
    /\ snap = [p \in Pit |-> Nothing]
    /\ reading = [r \in Reader |-> Nothing]

\* Writing, creating or deleting an index of c.
Update(c) ==
    /\ \E n \in Name, value \in Content \cup {None} :
           view' = [view EXCEPT ![c][n] = value]
    /\ UNCHANGED <<snap, reading>>

Clone(c, d) ==
    /\ view[d] = Nothing
    /\ view' = [view EXCEPT ![d] = view[c]]
    /\ UNCHANGED <<snap, reading>>

CreatePIT(p, c) ==
    /\ snap[p] = Nothing
    /\ \E S \in SUBSET Name : snap' = [snap EXCEPT ![p] = Part(view[c], S)]
    /\ UNCHANGED <<view, reading>>

DeletePIT(p) ==
    /\ snap' = [snap EXCEPT ![p] = Nothing]
    /\ UNCHANGED <<view, reading>>

StartSearch(r) ==
    /\ reading[r] = Nothing
    /\ \E row \in {view[c] : c \in Cluster} \cup {snap[p] : p \in Pit} :
           reading' = [reading EXCEPT ![r] = row]
    /\ UNCHANGED <<view, snap>>

EndSearch(r) ==
    /\ reading' = [reading EXCEPT ![r] = Nothing]
    /\ UNCHANGED <<view, snap>>

Next ==
    \/ \E c \in Cluster : Update(c)
    \/ \E c, d \in Cluster : Clone(c, d)
    \/ \E p \in Pit, c \in Cluster : CreatePIT(p, c)
    \/ \E p \in Pit : DeletePIT(p)
    \/ \E r \in Reader : StartSearch(r) \/ EndSearch(r)

Spec == Init /\ [][Next]_vars
=============================================================================
