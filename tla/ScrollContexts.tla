---------------------------- MODULE ScrollContexts ----------------------------
(***************************************************************************)
(* Scroll contexts beside the copy-on-write clusters of CopyOnWrite.       *)
(*                                                                         *)
(* A scroll context keeps the hits of its search, each with a pointer to   *)
(* the Index it came from, and takes no reference.  Rendering a later page *)
(* reads those Index objects again (mapping, highlighting, named queries   *)
(* evaluated in bleve) under c.mu.RLock and scrollMu.  That keeps writers  *)
(* of c out, but not the clusters c shared the Index with.                 *)
(***************************************************************************)
EXTENDS CopyOnWrite

CONSTANT Scroll     \* scroll ids; a dropped one is reused

VARIABLES
    scrollOwner,    \* scrollOwner[s]: the cluster whose c.scrolls has s, or Nil
    scrollObj,      \* scrollObj[s][n]: the Index of the hits from n, or Nil
    scrollExpired,  \* scrollExpired[s]: the keep-alive has passed
    rScroll         \* rScroll[r]: the scroll whose page r renders, or Nil

scrollVars == <<scrollOwner, scrollObj, scrollExpired, rScroll>>
allVars == <<vars, scrollVars>>

ScrollInit ==
    /\ Init
    /\ scrollOwner = [s \in Scroll |-> Nil]
    /\ scrollObj = [s \in Scroll |-> NoRow]
    /\ scrollExpired = [s \in Scroll |-> FALSE]
    /\ rScroll = [r \in Reader |-> Nil]

\* A page of c is being rendered: scrollMu is held.
Paging(c) == \E r \in Reader : rScroll[r] # Nil /\ rCluster[r] = c

\* sweepScrolls: the contexts of c that have expired.
Swept(c) == {s \in Scroll : scrollOwner[s] = c /\ scrollExpired[s]}

\* The contexts in S are dropped: nothing is released.
Drop(S) ==
    /\ scrollOwner' = [s \in Scroll |-> IF s \in S THEN Nil ELSE scrollOwner[s]]
    /\ scrollObj' = [s \in Scroll |-> IF s \in S THEN NoRow ELSE scrollObj[s]]
    /\ scrollExpired' = [s \in Scroll |-> s \notin S /\ scrollExpired[s]]

-----------------------------------------------------------------------------

\* A step of CopyOnWrite.  Points in time are guarded by the scrollMu a page
\* holds, the page ends in EndPage, and hits keep their Index reachable.
StoreStep ==
    /\ Next
    /\ \A c \in Cluster : Paging(c) =>
        /\ \A p \in Pit : pitOwner'[p] = c <=> pitOwner[p] = c
        /\ \A r \in Reader : rHolds'[r] /\ ~rHolds[r] => rCluster'[r] # c
    /\ \A r \in Reader : rScroll[r] # Nil => rCluster'[r] # Nil
    /\ \A o \in Obj, s \in Scroll : closed[o] /\ ~closed'[o] => Row(scrollObj[s], o) = {}
    /\ UNCHANGED scrollVars

\* newScroll, at the end of a search without a point in time.
OpenScroll(r, s) ==
    /\ rCluster[r] # Nil /\ ~rHolds[r] /\ rScroll[r] = Nil
    /\ scrollOwner[s] = Nil /\ ~Paging(rCluster[r])
    /\ LET old == Swept(rCluster[r])
       IN /\ scrollOwner' = [x \in Scroll |-> CASE x = s -> rCluster[r]
                                                [] x \in old -> Nil
                                                [] OTHER -> scrollOwner[x]]
          /\ scrollObj' = [x \in Scroll |-> CASE x = s -> rObjs[r]
                                              [] x \in old -> NoRow
                                              [] OTHER -> scrollObj[x]]
          /\ scrollExpired' = [x \in Scroll |-> x \notin old \cup {s} /\ scrollExpired[x]]
    /\ rCluster' = [rCluster EXCEPT ![r] = Nil]
    /\ rObjs' = [rObjs EXCEPT ![r] = NoRow]
    /\ UNCHANGED <<clusterVars, objVars, pitVars, rHolds, opVars, rScroll>>

\* The clock passes the keep-alive of s.
ExpireScroll(s) ==
    /\ scrollOwner[s] # Nil /\ ~scrollExpired[s]
    /\ scrollExpired' = [scrollExpired EXCEPT ![s] = TRUE]
    /\ UNCHANGED <<vars, scrollOwner, scrollObj, rScroll>>

\* Scroll: the next page of a live context.
StartPage(r, s) ==
    /\ rCluster[r] = Nil /\ scrollOwner[s] # Nil /\ ~scrollExpired[s]
    /\ LET c == scrollOwner[s]
       IN /\ Unlocked(c) /\ ~Paging(c)
          /\ Drop(Swept(c))
          /\ rCluster' = [rCluster EXCEPT ![r] = c]
    /\ rObjs' = [rObjs EXCEPT ![r] = scrollObj[s]]
    /\ rScroll' = [rScroll EXCEPT ![r] = s]
    /\ UNCHANGED <<clusterVars, objVars, pitVars, rHolds, opVars>>

EndPage(r) ==
    /\ rScroll[r] # Nil
    /\ rCluster' = [rCluster EXCEPT ![r] = Nil]
    /\ rObjs' = [rObjs EXCEPT ![r] = NoRow]
    /\ rScroll' = [rScroll EXCEPT ![r] = Nil]
    /\ UNCHANGED <<clusterVars, objVars, pitVars, rHolds, opVars,
                   scrollOwner, scrollObj, scrollExpired>>

\* Scroll with an id that is expired or unknown only sweeps.
MissPage(c) ==
    /\ phase[c] # "unborn" /\ Unlocked(c) /\ ~Paging(c)
    /\ Drop(Swept(c))
    /\ UNCHANGED <<vars, rScroll>>

\* ClearScroll of some contexts of c, under scrollMu only.
ClearScroll(c, S) ==
    /\ ~Paging(c) /\ S # {} /\ \A s \in S : scrollOwner[s] = c
    /\ Drop(S)
    /\ UNCHANGED <<vars, rScroll>>

ScrollNext ==
    \/ StoreStep
    \/ \E r \in Reader, s \in Scroll : OpenScroll(r, s) \/ StartPage(r, s)
    \/ \E s \in Scroll : ExpireScroll(s)
    \/ \E r \in Reader : EndPage(r)
    \/ \E c \in Cluster : MissPage(c)
    \/ \E c \in Cluster, S \in SUBSET Scroll : ClearScroll(c, S)

ScrollSpec == ScrollInit /\ [][ScrollNext]_allVars

-----------------------------------------------------------------------------

\* Beside CountInv, what makes a page safe: contexts belong to clusters, and a
\* page is a search without references.
ScrollOK ==
    /\ scrollOwner \in [Scroll -> Cluster \cup {Nil}]
    /\ scrollObj \in [Scroll -> [Name -> Obj \cup {Nil}]]
    /\ rScroll \in [Reader -> Scroll \cup {Nil}]
    /\ \A s \in Scroll : scrollOwner[s] # Nil => phase[scrollOwner[s]] # "unborn"
    /\ \A r \in Reader : rScroll[r] # Nil => rCluster[r] # Nil /\ ~rHolds[r]

\* r renders a page with hits of o before and after the step.
Renders(r, o) ==
    /\ rScroll[r] # Nil /\ rScroll'[r] = rScroll[r]
    /\ Row(rObjs[r], o) # {}

\* The page's cluster still has o registered under the name of the hits.
Registered(r, o) == \E n \in Row(rObjs[r], o) : indices[rCluster[r]][n] = o

\* While a page is rendered, nobody writes to or closes an Index its cluster
\* still has: the cluster is locked, and the others copy before they write.
RegisteredPagesAreStable ==
    [][\A r \in Reader, o \in Obj :
          Renders(r, o) /\ Registered(r, o)
          => content'[o] = content[o] /\ closed'[o] = closed[o]]_allVars

\* "writes on either side are invisible to the other": no write of another
\* cluster reaches a page while it is rendered.
ForeignWritesAreInvisible ==
    [][\A r \in Reader, o \in Obj :
          Renders(r, o) /\ ~closed[o] /\ ~closed'[o] => content'[o] = content[o]]_allVars
=============================================================================
