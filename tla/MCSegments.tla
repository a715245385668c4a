------------------------------ MODULE MCSegments ------------------------------
(* Small instance of Segments: a bulk request fills more than two batches of
   a merge, another leaves less than half of it, single documents fill the
   small classes, and one request indexes a document twice. *)
EXTENDS Segments, Sequences, TLC

CONSTANTS d1, d2, d3, d4, d5

Put(d) == [id |-> d, deleted |-> FALSE]
Del(d) == [id |-> d, deleted |-> TRUE]

Again(d) == <<Put(d), Del(d), Put(d)>>

Requests ==
    {<<Put(d1)>>, <<Put(d2)>>, <<Put(d5)>>, <<Del(d5)>>,
     <<Put(d1), Put(d2), Put(d2)>>, <<Put(d3), Put(d4)>>, <<Del(d1), Put(d4)>>,
     Again(d1) \o Again(d2) \o Again(d3) \o Again(d4) \o Again(d5)}
=============================================================================
