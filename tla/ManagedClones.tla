----------------------------- MODULE ManagedClones -----------------------------
(***************************************************************************)
(* The management API of a base cluster (admin.go): clones that are served *)
(* on a port of their own, and the flag that freezes the base.             *)
(*                                                                         *)
(* Requests run concurrently, each on a goroutine.  The registry of clones *)
(* has a mutex, the flag is atomic, and nothing is locked across the       *)
(* creation or the closing of a clone.  A clone that is neither in the     *)
(* registry nor closed is in the hands of the request that created it or   *)
(* took it out.                                                            *)
(***************************************************************************)
EXTENDS Integers, FiniteSets, Sequences, Functions

CONSTANTS
    Request,    \* goroutines that serve requests or run calls of Go programs
    Clone,      \* clones, each created once
    Route,      \* requests for the OpenSearch API of the base: their path, the segment
                \* of it that names the API, and whether the handler of that API writes
    MaxManagedClones,
    MaxWrites   \* bound on changes of the base

ASSUME Limits ==
    /\ IsFiniteSet(Request) /\ Request # {}
    /\ MaxManagedClones \in Nat \ {0} /\ MaxWrites \in Nat

\* readOnlySegments, and those of them whose requests write.
MetadataSegments == {"_mapping", "_settings", "_alias", "_aliases", "_cluster"}
ReadingSegments ==
    {"_search", "_count", "_msearch", "_mget", "_analyze", "_explain", "_validate", "_field_caps",
     "_refresh", "_flush", "_forcemerge", "_cache", "_stats", "_cat", "_nodes"}
ReadingMethods == {"GET", "HEAD", "OPTIONS"}

\* Of the route table (buildRoutes): no handler that writes is registered for
\* a reading method or a reading API.  Names and ids may be anything.
ASSUME RouteTable ==
    \A q \in Route : q.writes =>
        /\ q.method \notin ReadingMethods
        /\ \A i \in DOMAIN q.path : q.path[i] \in ReadingSegments => i # q.api

VARIABLES
    registry,   \* admin.clones: a function from ids in use to clones
    seq,        \* admin.seq
    frozen,     \* admin.frozen
    base,       \* how often the indices, documents or metadata of the base have changed
    cluster,    \* cluster[k]: the engine of clone k is missing, open or closed
    server,     \* server[k]: its HTTP server is missing, open or closed
    issued,     \* pairs of an id and a clone given to clients (a history variable)
    stopped,    \* the HTTP server of the base accepts no request any more
    closer,     \* the call of Close of the base, if there is one
    ended,      \* that call has returned
    pc,         \* pc[r]: step of r
    hands,      \* hands[r]: clones r creates or closes
    route       \* route[r]: the request r handles, while it does

cloneVars == <<cluster, server>>
regVars == <<registry, seq, issued>>
baseVars == <<frozen, base>>
endVars == <<stopped, closer, ended>>
vars == <<cloneVars, regVars, baseVars, endVars, pc, hands, route>>

Step == {"idle", "freeze", "clone", "serve", "discard", "register",
         "takeAll", "stop", "handle"}
Phase == {"missing", "open", "closed"}
NoEntries == [id \in {} |-> id]                  \* an empty map
NoRoute == [method |-> "GET", path |-> <<>>, api |-> 0, writes |-> FALSE]

Init ==
    /\ registry = NoEntries /\ seq = 0 /\ issued = {}
    /\ frozen = FALSE /\ base = 0
    /\ cluster = [k \in Clone |-> "missing"]
    /\ server = [k \in Clone |-> "missing"]
    /\ stopped = FALSE /\ closer = {} /\ ended = FALSE
    /\ pc = [r \in Request |-> "idle"]
    /\ hands = [r \in Request |-> {}]
    /\ route = [r \in Request |-> NoRoute]

Goto(r, step) == pc' = [pc EXCEPT ![r] = step]

\* A request can begin while the server of the base runs.
Begins(r) == pc[r] = "idle" /\ ~stopped

-----------------------------------------------------------------------------
(* ManagedClone: POST /_osmem/clones. *)

\* The limit is checked; a request over the limit fails and changes nothing.
CheckLimit(r) ==
    /\ Begins(r) /\ Cardinality(DOMAIN registry) < MaxManagedClones
    /\ Goto(r, "freeze")
    /\ UNCHANGED <<cloneVars, regVars, baseVars, endVars, hands, route>>

FreezeBase(r) ==
    /\ pc[r] = "freeze"
    /\ frozen' = TRUE
    /\ Goto(r, "clone")
    /\ UNCHANGED <<cloneVars, regVars, base, endVars, hands, route>>

CloneBase(r, k) ==
    /\ pc[r] = "clone" /\ cluster[k] = "missing"
    /\ cluster' = [cluster EXCEPT ![k] = "open"]
    /\ hands' = [hands EXCEPT ![r] = {k}]
    /\ Goto(r, "serve")
    /\ UNCHANGED <<server, regVars, baseVars, endVars, route>>

Serve(r) ==
    /\ pc[r] = "serve"
    /\ server' = [k \in Clone |-> IF k \in hands[r] THEN "open" ELSE server[k]]
    /\ Goto(r, "register")
    /\ UNCHANGED <<cluster, regVars, baseVars, endVars, hands, route>>

\* No port to listen on.
FailServe(r) ==
    /\ pc[r] = "serve"
    /\ Goto(r, "discard")
    /\ UNCHANGED <<cloneVars, regVars, baseVars, endVars, hands, route>>

Discard(r) ==
    /\ pc[r] = "discard"
    /\ cluster' = [k \in Clone |-> IF k \in hands[r] THEN "closed" ELSE cluster[k]]
    /\ hands' = [hands EXCEPT ![r] = {}]
    /\ Goto(r, "idle")
    /\ UNCHANGED <<server, regVars, baseVars, endVars, route>>

\* The clone is entered under the next id, which the client is told.
RegisterAs(r, id, next) ==
    /\ pc[r] = "register"
    /\ \E k \in hands[r] :
        /\ registry' = [i \in DOMAIN registry \cup {id} |-> IF i = id THEN k ELSE registry[i]]
        /\ issued' = issued \cup {<<id, k>>}
    /\ seq' = next
    /\ hands' = [hands EXCEPT ![r] = {}]
    /\ Goto(r, "idle")
    /\ UNCHANGED <<cloneVars, baseVars, endVars, route>>
Register(r) == RegisterAs(r, seq + 1, seq + 1)

-----------------------------------------------------------------------------
(* Closing clones. *)

TakeOneKeeping(r, id) ==                        \* mutant: deleted when it is closed
    /\ Begins(r) /\ id \in DOMAIN registry
    /\ hands' = [hands EXCEPT ![r] = {registry[id]}]
    /\ Goto(r, "stop")
    /\ UNCHANGED <<cloneVars, regVars, baseVars, endVars, route>>

\* CloseManagedClone: DELETE /_osmem/clones/{id}; an unknown id is a 404.
TakeOne(r, id) ==
    /\ Begins(r) /\ id \in DOMAIN registry
    /\ hands' = [hands EXCEPT ![r] = {registry[id]}]
    /\ registry' = Restrict(registry, DOMAIN registry \ {id})
    /\ Goto(r, "stop")
    /\ UNCHANGED <<cloneVars, seq, issued, baseVars, endVars, route>>

\* DELETE /_osmem/clones has counted the clones for its response.
CountClones(r) ==
    /\ Begins(r)
    /\ Goto(r, "takeAll")
    /\ UNCHANGED <<cloneVars, regVars, baseVars, endVars, hands, route>>

\* closeManagedClones: the request, or Close of the base, empties the registry.
Entries == {registry[id] : id \in DOMAIN registry}
TakeEntries(r) ==
    /\ hands' = [hands EXCEPT ![r] = Entries]
    /\ registry' = NoEntries
    /\ Goto(r, IF Entries = {} THEN "idle" ELSE "stop")
    /\ UNCHANGED <<cloneVars, seq, issued, baseVars, route>>

TakeAll(r) ==
    /\ pc[r] = "takeAll"
    /\ TakeEntries(r)
    /\ UNCHANGED endVars

\* The clones in hand are closed one after the other: the server, ...
StopServer(r, k) ==
    /\ pc[r] = "stop" /\ k \in hands[r] /\ \A j \in hands[r] : server[j] = "open"
    /\ server' = [server EXCEPT ![k] = "closed"]
    /\ UNCHANGED <<cluster, regVars, baseVars, endVars, pc, hands, route>>

\* ... then the engine.
CloseFirstOnly(r, k) ==                         \* mutant: returns inside the loop
    /\ pc[r] = "stop" /\ k \in hands[r] /\ server[k] = "closed"
    /\ cluster' = [cluster EXCEPT ![k] = "closed"]
    /\ hands' = [hands EXCEPT ![r] = @ \ {k}]
    /\ Goto(r, "idle")
    /\ UNCHANGED <<server, regVars, baseVars, endVars, route>>
CloseClone(r, k) ==
    /\ pc[r] = "stop" /\ k \in hands[r] /\ server[k] = "closed"
    /\ cluster' = [cluster EXCEPT ![k] = "closed"]
    /\ hands' = [hands EXCEPT ![r] = @ \ {k}]
    /\ Goto(r, IF hands[r] = {k} THEN "idle" ELSE "stop")
    /\ UNCHANGED <<server, regVars, baseVars, endVars, route>>

-----------------------------------------------------------------------------
(* The end of the base: its server first, then Cluster.Close, as Run defers *)
(* them.  Closing a server does not wait for the requests it is handling.   *)

StopBase ==
    /\ ~stopped
    /\ stopped' = TRUE
    /\ UNCHANGED <<cloneVars, regVars, baseVars, closer, ended, pc, hands, route>>

CloseBase(r) ==
    /\ stopped /\ closer = {} /\ pc[r] = "idle"
    /\ closer' = {r}
    /\ TakeEntries(r)
    /\ UNCHANGED <<stopped, ended>>

EndClose(r) ==
    /\ r \in closer /\ pc[r] = "idle" /\ ~ended
    /\ ended' = TRUE
    /\ UNCHANGED <<cloneVars, regVars, baseVars, stopped, closer, pc, hands, route>>

-----------------------------------------------------------------------------
(* The frozen flag and requests for the OpenSearch API of the base. *)

Freeze ==
    /\ ~stopped /\ ~frozen
    /\ frozen' = TRUE
    /\ UNCHANGED <<cloneVars, regVars, base, endVars, pc, hands, route>>

Unfreeze ==
    /\ ~stopped /\ frozen
    /\ frozen' = FALSE
    /\ UNCHANGED <<cloneVars, regVars, base, endVars, pc, hands, route>>

\* isReadOnlyRequest: the first of these segments decides.
IsReadOnlyAnywhere(q) ==                        \* mutant: any segment decides
    \/ q.method \in ReadingMethods
    \/ \E i \in DOMAIN q.path : q.path[i] \in ReadingSegments
IsReadOnly(q) ==
    \/ q.method \in ReadingMethods
    \/ \E i \in DOMAIN q.path :
        /\ q.path[i] \in ReadingSegments
        /\ \A j \in 1..(i - 1) : q.path[j] \notin ReadingSegments \cup MetadataSegments

AdmitAll(r, q) ==                               \* mutant: does not look at the flag
    /\ Begins(r)
    /\ route' = [route EXCEPT ![r] = q]
    /\ Goto(r, "handle")
    /\ UNCHANGED <<cloneVars, regVars, baseVars, endVars, hands>>

\* The flag is read before the request is handled; a write to a frozen base
\* is rejected.
Admit(r, q) ==
    /\ Begins(r) /\ (frozen => IsReadOnly(q))
    /\ route' = [route EXCEPT ![r] = q]
    /\ Goto(r, "handle")
    /\ UNCHANGED <<cloneVars, regVars, baseVars, endVars, hands>>

\* The handler of the engine: a write may fail.
Handle(r) ==
    /\ pc[r] = "handle"
    /\ \/ UNCHANGED base
       \/ route[r].writes /\ base < MaxWrites /\ base' = base + 1
    /\ route' = [route EXCEPT ![r] = NoRoute]
    /\ Goto(r, "idle")
    /\ UNCHANGED <<cloneVars, regVars, frozen, endVars, hands>>

-----------------------------------------------------------------------------

\* A step of a request that has begun.
RequestStep(r) ==
    \/ FreezeBase(r) \/ Serve(r) \/ FailServe(r) \/ Discard(r) \/ Register(r)
    \/ TakeAll(r) \/ EndClose(r) \/ Handle(r)
    \/ \E k \in Clone : CloneBase(r, k) \/ StopServer(r, k) \/ CloseClone(r, k)

Next ==
    \/ \E r \in Request : CheckLimit(r) \/ CountClones(r) \/ CloseBase(r) \/ RequestStep(r)
    \/ \E r \in Request : \E id \in DOMAIN registry : TakeOne(r, id)
    \/ \E r \in Request, q \in Route : Admit(r, q)
    \/ StopBase \/ Freeze \/ Unfreeze

Spec == Init /\ [][Next]_vars

\* The Go scheduler runs every goroutine, and locks are held for bounded work.
FairSpec == Spec /\ \A r \in Request : WF_vars(RequestStep(r))

-----------------------------------------------------------------------------

\* The variables have their types.
TypeOK ==
    /\ DOMAIN registry \subseteq 1..seq /\ seq \in Nat
    /\ registry \in [DOMAIN registry -> Clone]
    /\ issued \subseteq Nat \X Clone
    /\ frozen \in BOOLEAN /\ base \in Nat
    /\ cluster \in [Clone -> Phase] /\ server \in [Clone -> Phase]
    /\ stopped \in BOOLEAN /\ ended \in BOOLEAN /\ closer \in SUBSET Request
    /\ pc \in [Request -> Step]
    /\ hands \in [Request -> SUBSET Clone]
    /\ route \in [Request -> Route \cup {NoRoute}]

\* Who can still close clone k: an entry of the registry, or a request.
Owners(k) ==
    {x \in {"entry"} \X DOMAIN registry : registry[x[2]] = k}
    \cup {x \in {"hands"} \X Request : k \in hands[x[2]]}

\* Every open clone has exactly one owner, so that none leaks and none is
\* closed twice, whatever requests create, delete and delete all at once.
OneOwner ==
    \A k \in Clone :
        IF cluster[k] = "open" THEN \E x \in Owners(k) : Owners(k) = {x} ELSE Owners(k) = {}

\* A listed clone answers at its URL: it leaves the registry before its server
\* stops, and its server stops before its engine is closed.
ListedClonesServe ==
    /\ \A id \in DOMAIN registry : server[registry[id]] = "open"
    /\ \A k \in Clone : server[k] = "open" => cluster[k] = "open"

\* An id that a client was told never names another clone, also after the
\* clone was deleted.
IdsNameOneClone ==
    /\ \A x, y \in issued : x[1] = y[1] => x = y
    /\ \A id \in DOMAIN registry : <<id, registry[id]>> \in issued

\* Requests that have passed the limit and not registered their clone yet.
Creating == {r \in Request : pc[r] \in {"freeze", "clone", "serve", "discard", "register"}}

\* Checked outside the mutex of the registration, the limit can be overrun when
\* requests pass it together: by fewer clones than there are requests.
OverrunIsBounded ==
    Cardinality(DOMAIN registry) + Cardinality(Creating)
        <= MaxManagedClones + Cardinality(Request) - 1

\* What makes these invariants inductive: owners are apart from each other and
\* hold the open clones only, ...
OwnersApart ==
    /\ \A i, j \in DOMAIN registry : registry[i] = registry[j] => i = j
    /\ \A r, t \in Request : hands[r] \cap hands[t] # {} => r = t
    /\ \A r \in Request : Entries \cap hands[r] = {}
    /\ \A k \in Clone :
        cluster[k] = "open" <=> k \in Entries \/ \E r \in Request : k \in hands[r]

\* ... a request has in hand what its step is about, ...
HandsOK ==
    /\ \A r \in Request :
        /\ pc[r] \in {"serve", "discard"} => \E k \in Clone : hands[r] = {k} /\ server[k] = "missing"
        /\ pc[r] = "register" => \E k \in Clone : hands[r] = {k} /\ server[k] = "open"
        /\ pc[r] \notin {"serve", "discard", "register", "stop"} => hands[r] = {}
    /\ \A k \in Clone : cluster[k] = "missing" => server[k] = "missing"

\* ... and no id beyond seq was issued.
IdsFollowSeq == \A x \in issued : x[1] \in 1..seq

CloneInv ==
    /\ TypeOK /\ OwnersApart /\ HandsOK /\ ListedClonesServe
    /\ IdsNameOneClone /\ IdsFollowSeq /\ OverrunIsBounded

\* A request isReadOnlyRequest reports as read-only does not change the base,
\* as its comment says.  It does when a name in the path is spelled like a
\* reading API.
ReadOnlyRequestsChangeNothing ==
    [][\A r \in Request : Handle(r) /\ IsReadOnly(route[r]) => base' = base]_vars

\* A name or an id in the path of q is spelled like a reading API, and no
\* metadata API comes before it.
Misread(q) ==
    \E i \in DOMAIN q.path \ {q.api} :
        /\ q.path[i] \in ReadingSegments
        /\ \A j \in 1..(i - 1) : q.path[j] \notin MetadataSegments

\* Writes that were admitted and not handled yet.
Admitted == {r \in Request : pc[r] = "handle" /\ route[r].writes}

\* A frozen base admits no write but those isReadOnlyRequest misreads, and each
\* change of it is one of the admitted writes: so apart from misread ones, only
\* writes admitted before Freeze change it, each once, because the flag is not
\* looked at again after admission.
FrozenBaseSettles ==
    [][frozen /\ frozen' =>
        /\ \A r \in Admitted' \ Admitted : Misread(route'[r])
        /\ base' # base => Admitted' # Admitted /\ Admitted' \subseteq Admitted]_vars

\* When Close of the base has returned and no request is under way any more,
\* every managed clone is closed (osmem.go: "clones created through the
\* management API are closed too").  It is not: a creation under way may
\* register its clone after Close has emptied the registry.
ManagedClonesClosedToo ==
    (ended /\ \A r \in Request : pc[r] = "idle") => \A k \in Clone : cluster[k] # "open"

\* A clone that is in the hands of a request is listed or closed in the end.
ClonesAreListedOrClosed ==
    \A k \in Clone :
        cluster[k] = "open" /\ k \notin Entries ~> k \in Entries \/ cluster[k] = "closed"
=============================================================================
