----------------------------- MODULE MCRequests -----------------------------
(* Small instances of two kinds of requests that hold c.mu from their first  *)
(* check to their last assignment: by-query requests (ByQuery) and requests  *)
(* on templates and new indices (IndexTemplates).  They share no variable,   *)
(* and one run checks both: in each behaviour only one of them moves.        *)
EXTENDS ByQuery, IndexTemplates, TLC

CONSTANTS
    x, y,
    c1, c2, t1, t2, l1, l2, log26, own, shared, pipe, ownOfLog26, other, ownOfOther, logStar, star26, log, n26

\* one hash is negative
MCId == {-1, 2}
MCMaxDocs == {-1, 1, 3}

\* an index called log26 and one that no template is for, the patterns log* and *26, and their texts log and 26
MCMatching == (logStar :> {log26, log}) @@ (star26 :> {log26, n26})
MCStripped == (logStar :> log) @@ (star26 :> n26)

\* own stands for an alias "{index}-own", which a request keeps as it is; shared has a fixed name
MCResolve(a, n) == IF a # own THEN a ELSE IF n = log26 THEN ownOfLog26 ELSE ownOfOther
MCBucket == (t1 :> 0) @@ (t2 :> 1)

S(settings, aliases) == [settings |-> settings, aliases |-> aliases]
Empty == S(<<>>, <<>>)
Piped == S(FinalPipeline :> pipe, own :> FALSE)
Unpiped == S((FinalPipeline :> NoPipeline) @@ (DefaultPipeline :> pipe), shared :> TRUE)

MCComponentBodies == {Piped, Unpiped}
C(patterns, priority, composedOf, section) ==
    [patterns |-> patterns, priority |-> priority, composedOf |-> composedOf, section |-> section]
MCComposableBodies ==
    {C({logStar}, 0, <<c1, c2>>, Empty), C({logStar}, 0, <<c2, c1>>, S(<<>>, shared :> FALSE)),
     C({star26}, 0, <<>>, Unpiped), C({star26}, 1, <<c2>>, Empty), C({logStar, star26}, 1, <<>>, Piped)}
L(patterns, priority, section) == [patterns |-> patterns, priority |-> priority, section |-> section]
MCLegacyBodies == {L({logStar}, 0, Piped), L({star26}, 0, Unpiped), L({logStar}, 1, Unpiped)}
MCIndexBodies ==
    {Empty, S(FinalPipeline :> Unset, (shared :> TRUE) @@ (own :> TRUE)),
     S(DefaultPipeline :> NoPipeline, ownOfLog26 :> TRUE)}

RequestsInit == Init /\ ITInit

NoTemplates == itVars = <<<<>>, <<>>, <<>>, <<>>>>

RequestsNext ==
    \/ NoTemplates /\ Next /\ UNCHANGED itVars
    \/ requests = 0 /\ ITNext /\ UNCHANGED vars

RequestsSpec ==
    /\ RequestsInit /\ [][RequestsNext]_<<vars, itVars>>
    /\ WF_vars((StartBatch \/ EndWorker \/ Apply \/ Respond) /\ UNCHANGED itVars)
=============================================================================
