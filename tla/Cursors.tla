------------------------------- MODULE Cursors -------------------------------
(***************************************************************************)
(* The scroll contexts and points in time of one cluster, with a clock and *)
(* the hits a scroll hands out (searchexec.go).                            *)
(*                                                                         *)
(* A search that opens a scroll, a request for its next page and the       *)
(* creation of a point in time read the clock before they wait for         *)
(* scrollMu, so their readings reach the contexts in any order; every      *)
(* other request reads it under scrollMu.  Rendering a page may fail.      *)
(* Which Index a context reads, and when it is lost or released, is the    *)
(* subject of CopyOnWrite and ScrollContexts.                              *)
(***************************************************************************)
EXTENDS Integers, FiniteSets, Sequences, FiniteSetsExt, SequencesExt

CONSTANTS
    Request,        \* concurrent requests
    KeepAlives,     \* keep-alives a request may ask for (parseTimeValue allows -1)
    MaxKeepAlive,   \* search.max_keep_alive and point_in_time.max_keep_alive
    Sizes,          \* page sizes, none of them 0
    HitCounts,      \* how many hits a search may have
    MaxContexts,    \* bound on the context ids handed out
    MaxNow,         \* bound on the clock
    None            \* no request under way, no keep-alive given

ASSUME ConstantsAssumption ==
    /\ KeepAlives \subseteq Int /\ MaxKeepAlive \in Nat
    /\ Sizes \subseteq Nat \ {0}
    /\ HitCounts \subseteq Nat /\ MaxContexts \in Nat /\ MaxNow \in Nat

\* None is no request: in particular none that waits for its first page.
ASSUME NoneAssumption ==
    None \notin [op : {"first"}, at : Int, keep : Int, size : Int, hits : Seq(Int), id : Int]

VARIABLES
    now,            \* c.now()
    counter,        \* scrollCounter: the context id handed out last
    scrolls,        \* c.scrolls: the scroll contexts by id
    pits,           \* c.pits: the points in time by id
    pending,        \* pending[r]: what request r waits for scrollMu to do, or None
    told,           \* scroll ids a client has been told (history)
    toldPits,       \* point in time ids a client has been told (history)
    sent,           \* sent[id]: the hits of scroll id a client was sent (history)
    torn,           \* torn[id]: the hits of pages that failed to render (history)
    lease,          \* lease[id]: end of the keep-alive granted last (history)
    cleared         \* ids a client has cleared (history)

histories == <<told, toldPits, sent, torn, lease, cleared>>
vars == <<now, counter, scrolls, pits, pending, histories>>

Ids == 1..MaxContexts

\* encodeScrollID writes the context id once per shard: the scrolls of
\* searches that found no index share one id, whose node is refused later.
NoShards == 0

Init ==
    /\ now = 0 /\ counter = 0
    /\ scrolls = <<>> /\ pits = <<>>
    /\ pending = [r \in Request |-> None]
    /\ told = {} /\ toldPits = {} /\ cleared = {}
    /\ sent = [id \in Ids |-> <<>>] /\ torn = [id \in Ids |-> {}]
    /\ lease = [id \in Ids |-> 0]

-----------------------------------------------------------------------------
\* Helpers

\* The contexts in S (a subset of the ids of f).
Only(f, S) == [id \in S |-> f[id]]
Without(f, S) == Only(f, DOMAIN f \ S)
With(f, id, context) == [x \in DOMAIN f \cup {id} |-> IF x = id THEN context ELSE f[x]]

DeadAtDeadline(at, context) == at >= context.expires        \* mutant
\* A scroll context expires strictly after its deadline.
Dead(at, context) == at > context.expires

\* sweepScrolls by a request that read the clock at `at`.
Swept(at) == Without(scrolls, {id \in DOMAIN scrolls : Dead(at, scrolls[id])})

\* Page and rest of the hits of a scroll.
Page(hits, size) == SubSeq(hits, 1, Min({size, Len(hits)}))
RestAfterSize(hits, size) == SubSeq(hits, size + 2, Len(hits))   \* mutant
Rest(hits, size) == SubSeq(hits, Len(Page(hits, size)) + 1, Len(hits))

NextContextReusing == counter + 1 - Cardinality(cleared)         \* mutant
\* scrollCounter.Add
NextContext == counter + 1

TooLarge(keep) == keep > MaxKeepAlive

\* Request r waits with record p.
Waits(r, p) == pending' = [pending EXCEPT ![r] = p]
Done(r) == Waits(r, None)

-----------------------------------------------------------------------------
\* Scrolls

\* A search with a scroll, up to the lock of newScroll; empty: it has no
\* target, and no shard to refuse its keep-alive.
ReadOpen(r, n, size, keep, empty) ==
    /\ pending[r] = None /\ counter < MaxContexts
    /\ empty => n = 0
    /\ ~empty => ~TooLarge(keep)
    /\ counter' = NextContext
    /\ Waits(r, [op |-> "open", at |-> now, keep |-> keep, size |-> size, hits |-> [i \in 1..n |-> i],
                 id |-> IF empty THEN NoShards ELSE NextContext])
    /\ UNCHANGED <<now, scrolls, pits, histories>>

\* newScroll: the context keeps what the first page leaves.
NewScroll(r) ==
    /\ pending[r] # None
    /\ LET p == pending[r]
       IN /\ p.op = "open"
          /\ scrolls' = With(Swept(p.at), p.id,
                             [remaining |-> Rest(p.hits, p.size), total |-> Len(p.hits), size |-> p.size,
                              expires |-> p.at + p.keep, keepAlive |-> p.keep])
          /\ Waits(r, [p EXCEPT !.op = "first"])
    /\ UNCHANGED <<now, counter, pits, histories>>

\* What becomes of a page of scroll id: the client gets it or it is torn.
Deliver(id, page, rendered) ==
    IF rendered
    THEN /\ sent' = [sent EXCEPT ![id] = @ \o page]
         /\ UNCHANGED torn
    ELSE /\ torn' = [torn EXCEPT ![id] = @ \cup Range(page)]
         /\ UNCHANGED sent

\* The answer of the search: only then its client knows the id.
AnswerOpen(r, rendered) ==
    /\ pending[r] # None
    /\ LET p == pending[r]
       IN /\ p.op = "first"
          /\ IF p.id = NoShards
             THEN UNCHANGED <<sent, torn, told, lease>>
             ELSE /\ Deliver(p.id, Page(p.hits, p.size), rendered)
                  /\ told' = IF rendered THEN told \cup {p.id} ELSE told
                  /\ lease' = [lease EXCEPT ![p.id] = p.at + p.keep]
    /\ Done(r)
    /\ UNCHANGED <<now, counter, scrolls, pits, toldPits, cleared>>

\* Scroll up to the lock; an id without shards names no node and is refused.
ReadPage(r, id, keep) ==
    /\ pending[r] = None
    /\ Waits(r, [op |-> "page", at |-> now, keep |-> keep, id |-> id])
    /\ UNCHANGED <<now, counter, scrolls, pits, told, toldPits, sent, torn, lease, cleared>>

\* Scroll under scrollMu, of a context that is gone.
MissPage(r) ==
    /\ pending[r] # None
    /\ pending[r].op = "page" /\ pending[r].id \notin DOMAIN Swept(pending[r].at)
    /\ scrolls' = Swept(pending[r].at)
    /\ Done(r)
    /\ UNCHANGED <<now, counter, pits, histories>>

\* Scroll with a keep-alive beyond the limit.
RefusePage(r) ==
    /\ pending[r] # None
    /\ pending[r].op = "page" /\ pending[r].id \in DOMAIN Swept(pending[r].at)
    /\ pending[r].keep # None /\ TooLarge(pending[r].keep)
    /\ scrolls' = Swept(pending[r].at)
    /\ Done(r)
    /\ UNCHANGED <<now, counter, pits, histories>>

\* The context with its keep-alive set or kept, and its deadline renewed.
Renewed(context, at, keep) ==
    LET k == IF keep = None THEN context.keepAlive ELSE keep
    IN [context EXCEPT !.keepAlive = k, !.expires = at + k]

\* Scroll: the context is renewed and advanced before the page is rendered.
ServePage(r, rendered) ==
    /\ pending[r] # None
    /\ LET p == pending[r]
           live == Swept(p.at)
       IN /\ p.op = "page" /\ p.id \in DOMAIN live
          /\ p.keep # None => ~TooLarge(p.keep)
          /\ LET context == live[p.id]
             IN /\ scrolls' = With(live, p.id, [Renewed(context, p.at, p.keep) EXCEPT
                                                   !.remaining = Rest(@, context.size)])
                /\ Deliver(p.id, Page(context.remaining, context.size), rendered)
                /\ lease' = [lease EXCEPT ![p.id] =
                                p.at + (IF p.keep = None THEN context.keepAlive ELSE p.keep)]
    /\ Done(r)
    /\ UNCHANGED <<now, counter, pits, told, toldPits, cleared>>

\* ClearScroll of a list of ids or of _all, under scrollMu only.
ClearScroll(S) ==
    /\ S # {}
    /\ scrolls' = Without(scrolls, S)
    /\ cleared' = cleared \cup (S \cap Ids)
    /\ UNCHANGED <<now, counter, pits, pending, told, toldPits, sent, torn, lease>>

ClearAllScrolls == ClearScroll(DOMAIN scrolls)

-----------------------------------------------------------------------------
\* Points in time

ReadCreatePIT(r, keep) ==
    /\ pending[r] = None /\ counter < MaxContexts
    /\ ~TooLarge(keep)
    /\ counter' = NextContext
    /\ Waits(r, [op |-> "pit", at |-> now, keep |-> keep, id |-> NextContext])
    /\ UNCHANGED <<now, scrolls, pits, histories>>

\* CreatePIT under scrollMu.
CreatePIT(r) ==
    /\ pending[r] # None
    /\ LET p == pending[r]
       IN /\ p.op = "pit"
          /\ pits' = With(pits, p.id, [expires |-> p.at + p.keep, keepAlive |-> p.keep])
          /\ toldPits' = toldPits \cup {p.id}
          /\ lease' = [lease EXCEPT ![p.id] = p.at + p.keep]
    /\ Done(r)
    /\ UNCHANGED <<now, counter, scrolls, told, sent, torn, cleared>>

OverStrictly(context) == now > context.expires               \* mutant
\* A point in time expires at its deadline.
Over(context) == now >= context.expires

\* pitTargets: an expired point in time is reaped, a live one renewed when
\* asked, by as much as asked and whether or not the search will succeed.
SearchPIT(id, keep) ==
    /\ id \in DOMAIN pits
    /\ IF Over(pits[id])
       THEN pits' = Without(pits, {id}) /\ UNCHANGED lease
       ELSE /\ keep # None
            /\ pits' = [pits EXCEPT ![id] = Renewed(@, now, keep)]
            /\ lease' = [lease EXCEPT ![id] = now + keep]
    /\ UNCHANGED <<now, counter, scrolls, pending, told, toldPits, sent, torn, cleared>>

\* DeletePIT of a list of ids or of all, under scrollMu only.
DeletePIT(S) ==
    /\ S # {}
    /\ pits' = Without(pits, S)
    /\ cleared' = cleared \cup S
    /\ UNCHANGED <<now, counter, scrolls, pending, told, toldPits, sent, torn, lease>>

ListPITs ==
    /\ pits' = Without(pits, {id \in DOMAIN pits : Over(pits[id])})
    /\ UNCHANGED <<now, counter, scrolls, pending, histories>>

-----------------------------------------------------------------------------

Tick == now < MaxNow /\ now' = now + 1 /\ UNCHANGED <<counter, scrolls, pits, pending, histories>>

\* A client asks for the contexts it was told, whatever became of them.
Next ==
    \/ Tick
    \/ \E r \in Request, n \in HitCounts, size \in Sizes, keep \in KeepAlives, empty \in BOOLEAN :
          ReadOpen(r, n, size, keep, empty)
    \/ \E r \in Request : NewScroll(r) \/ MissPage(r) \/ RefusePage(r) \/ CreatePIT(r)
    \/ \E r \in Request, rendered \in BOOLEAN : AnswerOpen(r, rendered) \/ ServePage(r, rendered)
    \/ \E r \in Request, id \in told, keep \in KeepAlives \cup {None} : ReadPage(r, id, keep)
    \/ \E S \in SUBSET (told \cup {NoShards}) : ClearScroll(S)
    \/ ClearAllScrolls
    \/ \E r \in Request, keep \in KeepAlives : ReadCreatePIT(r, keep)
    \/ \E id \in toldPits, keep \in KeepAlives \cup {None} : SearchPIT(id, keep)
    \/ \E S \in SUBSET toldPits : DeletePIT(S)
    \/ ListPITs

Spec == Init /\ [][Next]_vars

-----------------------------------------------------------------------------
\* Properties

\* The first page of scroll id while its search is not answered yet.
InFlight(id) ==
    UNION {Range(Page(pending[r].hits, pending[r].size)) :
             r \in {r \in Request : pending[r] # None /\ pending[r].op = "first" /\ pending[r].id = id}}

\* The pages of a scroll hand out its hits in order and each once.  A hit that
\* is neither sent nor left in the context was on a page that failed to
\* render: the context had moved on before (Scroll, runSearch).
HitsInOrder ==
    \A id \in Ids :
       LET gone == Range(sent[id]) \cup torn[id] \cup InFlight(id)
       IN /\ \A i, j \in DOMAIN sent[id] : i < j => sent[id][i] < sent[id][j]
          /\ Range(sent[id]) \cap torn[id] = {}
          /\ gone = 1..Cardinality(gone)
          /\ id \in DOMAIN scrolls =>
               scrolls[id].remaining
                 = [i \in 1..(scrolls[id].total - Cardinality(gone)) |-> Cardinality(gone) + i]

\* What a client was granted is kept: until the keep-alive of the last request
\* that was served has passed on the clock, nothing but a request to clear it
\* takes a context away, whoever sweeps with however old a reading.  A scroll
\* lasts through its deadline, a point in time up to it.  (Of two requests for
\* one scroll at once, the one served last decides, also with the older reading.)
KeepAliveHonoured ==
    /\ \A id \in told \ cleared : now <= lease[id] => id \in DOMAIN scrolls
    /\ \A id \in toldPits \ cleared : now < lease[id] => id \in DOMAIN pits

\* After its keep-alive a context answers nobody: a page is served only to a
\* request that read the clock by the deadline, a point in time renewed only
\* before it.
NothingAnswersTooLate ==
    [][/\ \A id \in told : sent'[id] # sent[id] =>
             \E r \in Request : /\ pending[r] # None /\ pending'[r] = None
                               /\ pending[r].id = id /\ pending[r].at <= lease[id]
       /\ \A id \in toldPits : lease'[id] # lease[id] => now < lease[id]]_vars

\* A context that is gone never comes back under the id its client knows, for
\* the same client or another.
GoneForGood ==
    [][/\ \A id \in told : id \in DOMAIN scrolls' => id \in DOMAIN scrolls
       /\ \A id \in toldPits : id \in DOMAIN pits' => id \in DOMAIN pits]_vars
=============================================================================
