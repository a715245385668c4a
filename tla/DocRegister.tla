----------------------------- MODULE DocRegister -----------------------------
(***************************************************************************)
(* What an index promises about the versions of its documents, request     *)
(* machinery aside: one register per id, which remembers the version of a  *)
(* deleted document for GcDeletes, and one counter of sequence numbers.    *)
(* Operations take effect one at a time, in bulk requests as well.         *)
(***************************************************************************)
EXTENDS Integers

CONSTANTS Id, Shard, GcDeletes, ExternalVersions

VARIABLES reg,      \* what is known of a document
          seqNo,    \* the last sequence number
          clock

vars == <<reg, seqNo, clock>>

Unknown == [state |-> "absent", version |-> -1]

Init == reg = [i \in Id |-> Unknown] /\ seqNo = 0 /\ clock = 0

Live(i) == reg[i].state = "live"
Version(i) ==
    IF Live(i) \/ (reg[i].state = "deleted" /\ clock - reg[i].at <= GcDeletes)
    THEN reg[i].version ELSE -1

\* Versions count writes, or come from outside and do not fall.
Successors(i) ==
    {IF Version(i) = -1 THEN 1 ELSE Version(i) + 1}
        \cup {v \in ExternalVersions : v >= Version(i)}

Index(i, s, v) ==
    /\ reg' = [reg EXCEPT ![i] =
                  [state |-> "live", version |-> v, seqNo |-> seqNo + 1, shard |-> s]]
    /\ seqNo' = seqNo + 1
    /\ UNCHANGED clock

\* Deleting what is not there leaves a trace as well.
Delete(i, s, v) ==
    /\ Live(i) => reg[i].shard = s
    /\ reg' = [reg EXCEPT ![i] =
                  [state |-> "deleted", version |-> v, seqNo |-> seqNo + 1, at |-> clock]]
    /\ seqNo' = seqNo + 1
    /\ UNCHANGED clock

\* A delete sent to another shard than the document's, or a document refused
\* after its number was drawn: nobody can tell but by the numbers.
DrawNumber == seqNo' = seqNo + 1 /\ UNCHANGED <<reg, clock>>

Tick == clock' \in Nat /\ clock' > clock /\ UNCHANGED <<reg, seqNo>>

Next ==
    \/ \E i \in Id, s \in Shard : \E v \in Successors(i) : Index(i, s, v) \/ Delete(i, s, v)
    \/ DrawNumber
    \/ Tick

Spec == Init /\ [][Next]_vars
=============================================================================
