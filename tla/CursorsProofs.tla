----------------------------- MODULE CursorsProofs -----------------------------
(***************************************************************************)
(* Contexts and pages. Keep-alives are honoured, for any number of         *)
(* requests, contexts and keep-alives: requests bring readings of the      *)
(* clock in any order, and the deadline of a context is always the lease   *)
(* its client was granted last. Nothing is answered after it, and nothing  *)
(* that is gone comes back. The hits of a scroll are handed out in order,  *)
(* each once (HitsInv).                                                    *)
(*                                                                         *)
(* Then the pages of SearchPages, whichever way a client asks for them: it *)
(* reads every hit that stayed as it was exactly once, and in order        *)
(* (PagesInv). A heap keeps the first hits, so that a page by from and     *)
(* size is a part of the sorted hits; slices divide the hits; and          *)
(* search_after, scrolls and after keys go on where the client is.         *)
(***************************************************************************)
EXTENDS Cursors, SearchPages, FiniteSetTheorems, WellFoundedInduction, TLAPS

IsScroll(x) ==
    /\ x = [remaining |-> x.remaining, total |-> x.total, size |-> x.size,
            expires |-> x.expires, keepAlive |-> x.keepAlive]
    /\ x.expires \in Int /\ x.keepAlive \in Int
IsPIT(x) == x \in [expires : Int, keepAlive : Int]

\* a context that a search has reserved, from newScroll to its answer
IsOpening(p) ==
    /\ p = [op |-> p.op, at |-> p.at, keep |-> p.keep, size |-> p.size, hits |-> p.hits, id |-> p.id]
    /\ p.keep \in Int

Types ==
    /\ now \in Nat /\ counter \in 0..MaxContexts
    /\ DOMAIN scrolls \subseteq Ids \cup {NoShards} /\ \A id \in DOMAIN scrolls : IsScroll(scrolls[id])
    /\ scrolls = [id \in DOMAIN scrolls |-> scrolls[id]]
    /\ DOMAIN pits \subseteq toldPits /\ \A id \in DOMAIN pits : IsPIT(pits[id])
    /\ pits = [id \in DOMAIN pits |-> pits[id]]
    /\ pending = [r \in Request |-> pending[r]]
    /\ sent = [id \in Ids |-> sent[id]]
    /\ lease \in [Ids -> Int]
    /\ cleared \subseteq Ids

\* every context id was drawn from the counter, for a scroll or for a point in time
IdsDrawn == told \subseteq 1..counter /\ toldPits \subseteq 1..counter /\ told \cap toldPits = {}

Waiting(r, ops) == pending[r] # None /\ pending[r].op \in ops

\* ids that are not answered yet are known to nobody else
PendingOK ==
    /\ \A r \in Request : pending[r] # None => pending[r].at \in 0..now
    /\ \A r \in Request : Waiting(r, {"open", "first"}) =>
          /\ IsOpening(pending[r]) /\ pending[r].id \in 0..counter
          /\ pending[r].id \notin told /\ pending[r].id \notin toldPits
    /\ \A r \in Request : Waiting(r, {"pit"}) =>
          /\ pending[r].keep \in Int /\ pending[r].id \in 1..counter
          /\ pending[r].id \notin told /\ pending[r].id \notin toldPits
    /\ \A r \in Request : Waiting(r, {"page"}) =>
          pending[r].id \in told /\ pending[r].keep \in Int \cup {None}
    /\ \A r, q \in Request :
          Waiting(r, {"open", "first", "pit"}) /\ Waiting(q, {"open", "first", "pit"})
          /\ pending[r].id = pending[q].id /\ pending[r].id # NoShards => r = q

\* A deadline is the lease its client was granted, or will be when its search
\* is answered, and a context goes no earlier.
Kept(id, until) ==
    IF id \in DOMAIN scrolls THEN scrolls[id].expires = until ELSE id \in cleared \/ now > until
DeadlinesAreLeases ==
    /\ \A id \in told : Kept(id, lease[id])
    /\ \A r \in Request : Waiting(r, {"first"}) /\ pending[r].id # NoShards =>
          Kept(pending[r].id, pending[r].at + pending[r].keep)
    /\ \A id \in toldPits :
          IF id \in DOMAIN pits THEN pits[id].expires = lease[id] ELSE id \in cleared \/ now >= lease[id]

CursorInv == Types /\ IdsDrawn /\ PendingOK /\ DeadlinesAreLeases

\* Every id a client knows is one the counter can reach.
LEMMA KnownIds == Types /\ IdsDrawn => told \subseteq Ids /\ toldPits \subseteq Ids
<1> SUFFICES ASSUME Types, IdsDrawn, NEW id \in told \cup toldPits PROVE id \in Ids
  OBVIOUS
<1>1. id \in 1..counter /\ counter \in 0..MaxContexts /\ MaxContexts \in Nat
  BY ConstantsAssumption DEF Types, IdsDrawn
<1> QED BY <1>1 DEF Ids

-----------------------------------------------------------------------------
(* Sweeping with an old reading of the clock. *)

LEMMA Sweeping ==
    ASSUME Types, NEW t \in 0..now
    PROVE  /\ DOMAIN Swept(t) \subseteq DOMAIN scrolls
           /\ Swept(t) = [id \in DOMAIN Swept(t) |-> Swept(t)[id]]
           /\ \A id \in DOMAIN Swept(t) : Swept(t)[id] = scrolls[id] /\ t <= scrolls[id].expires
           /\ \A id \in DOMAIN scrolls \ DOMAIN Swept(t) : now > scrolls[id].expires
  BY DEF Types, Swept, Without, Only, Dead, IsScroll

\* Kept, after the step
KeptThen(id, until) ==
    IF id \in DOMAIN scrolls' THEN scrolls'[id].expires = until ELSE id \in cleared' \/ now' > until

\* What is kept stays kept when contexts are swept, whoever read the clock when.
LEMMA SweptStaysKept ==
    ASSUME Types, NEW t \in 0..now, scrolls' = Swept(t), UNCHANGED <<now, cleared>>,
           NEW id, NEW until, Kept(id, until)
    PROVE  KeptThen(id, until)
  BY Sweeping DEF Kept, KeptThen

\* ... and when another context is registered or renewed besides.
LEMMA OthersStayKept ==
    ASSUME Types, NEW t \in 0..now, NEW other, NEW context, scrolls' = With(Swept(t), other, context),
           UNCHANGED <<now, cleared>>, NEW id, id # other, NEW until, Kept(id, until)
    PROVE  KeptThen(id, until)
  BY Sweeping DEF Kept, KeptThen, With

\* Registering a context, or renewing it, keeps the types.
LEMMA WithTypes ==
    ASSUME Types, NEW t \in 0..now, NEW id, NEW context, id \in Ids \cup {NoShards}, IsScroll(context),
           scrolls' = With(Swept(t), id, context)
    PROVE  /\ DOMAIN scrolls' \subseteq Ids \cup {NoShards}
           /\ \A x \in DOMAIN scrolls' : IsScroll(scrolls'[x])
           /\ scrolls' = [x \in DOMAIN scrolls' |-> scrolls'[x]]
  BY Sweeping DEF Types, With

\* A request that is done leaves nothing behind.
LEMMA DoneKeeps ==
    ASSUME Types, PendingOK, NEW r \in Request, Done(r), UNCHANGED <<now, counter, told, toldPits>>
    PROVE  PendingOK'
<1>1. pending'[r] = None /\ \A q \in Request \ {r} : pending'[q] = pending[q]
  BY DEF Done, Waits, Types
<1> QED BY <1>1 DEF PendingOK, Waiting

-----------------------------------------------------------------------------
(* The invariant, action by action. *)

\* No context, no request: nothing is granted or reserved.
LEMMA CursorInit == Init => CursorInv
<1> SUFFICES ASSUME Init PROVE CursorInv
  OBVIOUS
<1>1. Types
  BY ConstantsAssumption DEF Init, Types
<1> QED BY <1>1 DEF Init, CursorInv, IdsDrawn, PendingOK, DeadlinesAreLeases, Waiting

\* A search or a creation reserves an id: nobody else has it.
LEMMA ReserveKeeps ==
    ASSUME CursorInv, NEW r \in Request, NEW p, pending[r] = None, Waits(r, p),
           counter < MaxContexts, counter' = counter + 1,
           p.at = now, p.op \in {"open", "pit"}, p.keep \in Int,
           p.id = counter + 1 \/ (p.op = "open" /\ p.id = NoShards), p.op = "open" => IsOpening(p),
           UNCHANGED <<now, scrolls, pits, histories>>
    PROVE  CursorInv'
<1> USE ConstantsAssumption DEF CursorInv, NoShards
<1>1. pending'[r] = p /\ \A q \in Request \ {r} : pending'[q] = pending[q]
  BY DEF Waits, Types
<1>2. Types'
  BY <1>1 DEF Types, Waits, histories, IsScroll
<1>3. IdsDrawn'
  BY DEF IdsDrawn, Types, histories
<1>4. PendingOK'
  <2>1. counter \in Nat /\ now \in Nat /\ UNCHANGED <<now, told, toldPits>>
    BY DEF Types, histories
  <2>2. p.id \in 0..counter' /\ (p.op = "pit" => p.id \in 1..counter')
    BY <2>1
  <2>3. p.id \notin told /\ p.id \notin toldPits
    BY <2>1 DEF IdsDrawn
  <2>4. \A q \in Request : Waiting(q, {"open", "first", "pit"}) => pending[q].id \in 0..counter
    BY <2>1 DEF PendingOK, Waiting
  <2> QED BY <1>1, <2>1, <2>2, <2>3, <2>4 DEF PendingOK, Waiting
<1>5. DeadlinesAreLeases'
  BY <1>1 DEF DeadlinesAreLeases, Kept, Waiting, histories
<1> QED BY <1>2, <1>3, <1>4, <1>5

\* A context is registered with the deadline its client will be told.
LEMMA NewScrollKeeps ==
    ASSUME CursorInv, NEW r \in Request, NewScroll(r)
    PROVE  CursorInv'
<1> USE ConstantsAssumption DEF CursorInv
<1> DEFINE p == pending[r]
           q == [p EXCEPT !.op = "first"]
           context == [remaining |-> Rest(p.hits, p.size), total |-> Len(p.hits), size |-> p.size,
                       expires |-> p.at + p.keep, keepAlive |-> p.keep]
<1>1. /\ p # None /\ p.op = "open" /\ scrolls' = With(Swept(p.at), p.id, context)
      /\ Waits(r, q) /\ UNCHANGED <<now, counter, pits, histories>>
  BY DEF NewScroll
<1>2. Waiting(r, {"open"}) /\ IsOpening(p) /\ p.at \in 0..now /\ p.id \in 0..counter
      /\ p.id \notin told /\ p.id \notin toldPits
  BY <1>1 DEF Waiting, PendingOK
<1>3. /\ q.op = "first" /\ q.at = p.at /\ q.keep = p.keep /\ q.id = p.id
      /\ q = [op |-> "first", at |-> p.at, keep |-> p.keep, size |-> p.size, hits |-> p.hits, id |-> p.id]
  BY <1>2 DEF IsOpening
<1>4. pending'[r] = q /\ \A k \in Request \ {r} : pending'[k] = pending[k]
  BY <1>1 DEF Waits, Types
<1>5. IsOpening(q)
  BY <1>2, <1>3 DEF IsOpening
<1>6. IsScroll(context) /\ context.expires = p.at + p.keep
  BY <1>2 DEF IsScroll, IsOpening
<1> HIDE DEF q, context
<1>7. p.id \in Ids \cup {NoShards}
  BY <1>2 DEF Types, Ids, NoShards
<1>8. p.id \in DOMAIN scrolls' /\ scrolls'[p.id] = context
  BY <1>1 DEF With
<1>9. Types'
  BY <1>1, <1>2, <1>6, <1>7, WithTypes DEF Types, Waits, histories
<1>10. IdsDrawn'
  BY <1>1 DEF IdsDrawn, histories
<1>11. PendingOK'
  BY <1>1, <1>2, <1>3, <1>4, <1>5 DEF PendingOK, Waiting, histories
<1>12. DeadlinesAreLeases'
  <2>1. \A id \in told : KeptThen(id, lease[id])
    BY <1>1, <1>2, OthersStayKept DEF DeadlinesAreLeases, histories
  <2>2. ASSUME NEW k \in Request, Waiting(k, {"first"})', pending'[k].id # NoShards
        PROVE  KeptThen(pending'[k].id, pending'[k].at + pending'[k].keep)
    <3>1. CASE k = r
      BY <1>3, <1>4, <1>6, <1>8, <3>1 DEF KeptThen
    <3>2. CASE k # r
      <4>1. Waiting(k, {"first"}) /\ pending'[k] = pending[k]
        BY <1>4, <2>2, <3>2 DEF Waiting
      <4>2. pending[k].id # p.id
        BY <1>2, <2>2, <3>2, <4>1 DEF PendingOK, Waiting
      <4> QED BY <1>1, <1>2, <2>2, <4>1, <4>2, OthersStayKept DEF DeadlinesAreLeases, histories
    <3> QED BY <3>1, <3>2
  <2> QED BY <1>1, <2>1, <2>2 DEF DeadlinesAreLeases, Kept, KeptThen, histories
<1> QED BY <1>9, <1>10, <1>11, <1>12

\* The answer makes the reserved id known, with the lease the context has.
LEMMA AnswerOpenKeeps ==
    ASSUME CursorInv, NEW r \in Request, NEW rendered \in BOOLEAN, AnswerOpen(r, rendered)
    PROVE  CursorInv'
<1> USE ConstantsAssumption DEF CursorInv
<1> DEFINE p == pending[r]
<1>1. /\ p # None /\ p.op = "first" /\ Done(r)
      /\ UNCHANGED <<now, counter, scrolls, pits, toldPits, cleared>>
  BY DEF AnswerOpen
<1>2. Waiting(r, {"first"}) /\ p.id \in 0..counter /\ p.id \notin told /\ p.id \notin toldPits
      /\ p.at \in 0..now /\ p.keep \in Int
  BY <1>1 DEF Waiting, PendingOK, IsOpening
<1>3. pending'[r] = None /\ \A k \in Request \ {r} : pending'[k] = pending[k]
  BY <1>1 DEF Done, Waits, Types
<1>4. CASE p.id = NoShards
  <2>1. UNCHANGED <<sent, torn, told, lease>>
    BY <1>4 DEF AnswerOpen
  <2>2. Types' /\ IdsDrawn'
    BY <1>1, <2>1 DEF Types, IdsDrawn, Done, Waits
  <2>3. PendingOK'
    BY <1>1, <2>1, DoneKeeps
  <2>4. DeadlinesAreLeases'
    BY <1>1, <1>3, <2>1 DEF DeadlinesAreLeases, Kept, Waiting
  <2> QED BY <2>2, <2>3, <2>4
<1>5. CASE p.id # NoShards
  <2>0. p.id \in Ids /\ p.id \in 1..counter
    BY <1>2, <1>5 DEF Ids, NoShards, Types
  <2>1. /\ told' \in {told, told \cup {p.id}} /\ lease' = [lease EXCEPT ![p.id] = p.at + p.keep]
        /\ sent' = [id \in Ids |-> sent'[id]]
    BY <1>5, <2>0 DEF AnswerOpen, Deliver, Types
  <2>2. Types' /\ IdsDrawn'
    <3>1. Types'
      <4>1. lease' \in [Ids -> Int] /\ p.at + p.keep \in Int
        BY <1>2, <2>0, <2>1 DEF Types
      <4>2. pending' = [k \in Request |-> pending'[k]]
        BY <1>1 DEF Done, Waits, Types
      <4> QED BY <1>1, <2>1, <4>1, <4>2 DEF Types
    <3>2. IdsDrawn'
      BY <1>1, <1>2, <2>0, <2>1 DEF IdsDrawn
    <3> QED BY <3>1, <3>2
  <2>3. \A k \in Request \ {r} : Waiting(k, {"open", "first", "pit"}) => pending[k].id # p.id
    BY <1>2, <1>5 DEF PendingOK, Waiting
  <2>4. PendingOK'
    BY <1>1, <1>3, <2>1, <2>3 DEF PendingOK, Waiting
  <2>5. Kept(p.id, lease'[p.id])
    BY <1>2, <1>5, <2>0, <2>1 DEF DeadlinesAreLeases, Types
  <2>6. \A id \in told : Kept(id, lease'[id])
    BY <1>2, <2>1 DEF DeadlinesAreLeases, Types, Ids, IdsDrawn
  <2>7. \A id \in toldPits : lease'[id] = lease[id]
    BY <1>2, <2>1 DEF Types
  <2>8. DeadlinesAreLeases'
    BY <1>1, <1>3, <2>1, <2>5, <2>6, <2>7 DEF DeadlinesAreLeases, Kept, Waiting
  <2> QED BY <2>2, <2>4, <2>8
<1> QED BY <1>4, <1>5

\* A request for a page names an id its client was told.
LEMMA ReadPageKeeps ==
    ASSUME CursorInv, NEW r \in Request, NEW id \in told, NEW keep \in KeepAlives \cup {None}, ReadPage(r, id, keep)
    PROVE  CursorInv'
<1> USE ConstantsAssumption DEF CursorInv
<1> DEFINE p == [op |-> "page", at |-> now, keep |-> keep, id |-> id]
<1>1. pending[r] = None /\ Waits(r, p) /\ UNCHANGED <<now, counter, scrolls, pits, told, toldPits, sent, torn, lease, cleared>>
  BY DEF ReadPage
<1>2. pending'[r] = p /\ \A k \in Request \ {r} : pending'[k] = pending[k]
  BY <1>1 DEF Waits, Types
<1>3. Types' /\ IdsDrawn'
  BY <1>1 DEF Types, IdsDrawn, Waits
<1>4. PendingOK'
  BY <1>1, <1>2 DEF PendingOK, Waiting, Types
<1>5. DeadlinesAreLeases'
  BY <1>1, <1>2 DEF DeadlinesAreLeases, Kept, Waiting
<1> QED BY <1>3, <1>4, <1>5

\* A page that is refused still sweeps.
LEMMA NoPageKeeps ==
    ASSUME CursorInv, NEW r \in Request, MissPage(r) \/ RefusePage(r)
    PROVE  CursorInv'
<1> USE ConstantsAssumption DEF CursorInv
<1> DEFINE t == pending[r].at
<1>1. /\ t \in 0..now /\ scrolls' = Swept(t) /\ Done(r)
      /\ UNCHANGED <<now, counter, pits, told, toldPits, sent, torn, lease, cleared>>
  BY DEF MissPage, RefusePage, PendingOK, histories
<1>2. pending'[r] = None /\ \A k \in Request \ {r} : pending'[k] = pending[k]
  BY <1>1 DEF Done, Waits, Types
<1> HIDE DEF t
<1>3. /\ DOMAIN scrolls' \subseteq Ids \cup {NoShards}
      /\ \A x \in DOMAIN scrolls' : IsScroll(scrolls'[x])
      /\ scrolls' = [x \in DOMAIN scrolls' |-> scrolls'[x]]
  BY <1>1, Sweeping DEF Types
<1>4. Types' /\ IdsDrawn'
  BY <1>1, <1>3 DEF Types, IdsDrawn, Done, Waits
<1>5. PendingOK'
  BY <1>1, DoneKeeps
<1>6. \A id, until : Kept(id, until) => KeptThen(id, until)
  BY <1>1, SweptStaysKept
<1>7. DeadlinesAreLeases'
  BY <1>1, <1>2, <1>6 DEF DeadlinesAreLeases, Kept, KeptThen, Waiting
<1> QED BY <1>4, <1>5, <1>7

\* What a request for the next page does to the context.
LEMMA Serving ==
    ASSUME CursorInv, NEW r \in Request, NEW rendered \in BOOLEAN, ServePage(r, rendered)
    PROVE  /\ pending[r] # None /\ pending[r].at \in 0..now /\ pending[r].id \in told /\ pending[r].id \in Ids
           /\ pending[r].id \in DOMAIN Swept(pending[r].at)
           /\ \E context :
                 /\ IsScroll(context)
                 /\ scrolls' = With(Swept(pending[r].at), pending[r].id, context)
                 /\ lease' = [lease EXCEPT ![pending[r].id] = context.expires]
           /\ sent' = [id \in Ids |-> sent'[id]]
           /\ \A id \in Ids \ {pending[r].id} : sent'[id] = sent[id]
           /\ Done(r) /\ UNCHANGED <<now, counter, pits, told, toldPits, cleared>>
<1> USE ConstantsAssumption DEF CursorInv
<1> DEFINE p == pending[r]
           old == scrolls[p.id]
           k == IF p.keep = None THEN old.keepAlive ELSE p.keep
           context == [remaining |-> Rest(old.remaining, old.size), total |-> old.total, size |-> old.size,
                       expires |-> p.at + k, keepAlive |-> k]
<1>1. /\ p # None /\ p.op = "page" /\ p.id \in DOMAIN Swept(p.at)
      /\ Done(r) /\ UNCHANGED <<now, counter, pits, told, toldPits, cleared>>
  BY DEF ServePage
<1>2. p.at \in 0..now /\ p.id \in told /\ p.keep \in Int \cup {None} /\ p.id \in Ids
  BY <1>1 DEF PendingOK, Waiting, IdsDrawn, Types, Ids
<1>3. Swept(p.at)[p.id] = old /\ IsScroll(old)
  BY <1>1, <1>2, Sweeping DEF Types
<1>4. k \in Int /\ p.at + k \in Int
  BY <1>2, <1>3 DEF IsScroll
<1>5. [Renewed(old, p.at, p.keep) EXCEPT !.remaining = Rest(@, old.size)] = context
  <2> DEFINE renewed == [remaining |-> old.remaining, total |-> old.total, size |-> old.size,
                         expires |-> p.at + k, keepAlive |-> k]
  <2>1. Renewed(old, p.at, p.keep) = [old EXCEPT !.keepAlive = k, !.expires = p.at + k]
    BY DEF Renewed
  <2>2. old = [remaining |-> old.remaining, total |-> old.total, size |-> old.size,
               expires |-> old.expires, keepAlive |-> old.keepAlive]
    BY <1>3 DEF IsScroll
  <2>3. Renewed(old, p.at, p.keep) = renewed
    <3> HIDE DEF k, old, p
    <3> QED BY <2>1, <2>2
  <2> HIDE DEF k
  <2> QED BY <2>3
<1>6. scrolls' = With(Swept(p.at), p.id, context) /\ lease' = [lease EXCEPT ![p.id] = p.at + k]
  BY <1>3, <1>5 DEF ServePage
<1>7. IsScroll(context) /\ context.expires = p.at + k
  BY <1>4 DEF IsScroll
<1>8. /\ sent' = [id \in Ids |-> sent'[id]]
      /\ \A id \in Ids \ {p.id} : sent'[id] = sent[id]
  BY DEF ServePage, Deliver, Types
<1> HIDE DEF context, k
<1> QED BY <1>1, <1>2, <1>4, <1>6, <1>7, <1>8

\* A page renews the lease and the deadline together; others are swept only when over.
LEMMA ServePageKeeps ==
    ASSUME CursorInv, NEW r \in Request, NEW rendered \in BOOLEAN, ServePage(r, rendered)
    PROVE  CursorInv'
<1> USE ConstantsAssumption DEF CursorInv
<1> DEFINE p == pending[r]
<1>1. /\ p # None /\ p.at \in 0..now /\ p.id \in told /\ p.id \in Ids
      /\ Done(r) /\ UNCHANGED <<now, counter, pits, told, toldPits, cleared>>
      /\ sent' = [id \in Ids |-> sent'[id]]
  BY Serving
<1>2. PICK context :
          /\ IsScroll(context) /\ scrolls' = With(Swept(p.at), p.id, context)
          /\ lease' = [lease EXCEPT ![p.id] = context.expires]
  BY Serving
<1>3. pending'[r] = None /\ \A k \in Request \ {r} : pending'[k] = pending[k]
  BY <1>1 DEF Done, Waits, Types
<1>4. /\ DOMAIN scrolls' \subseteq Ids \cup {NoShards}
      /\ \A x \in DOMAIN scrolls' : IsScroll(scrolls'[x])
      /\ scrolls' = [x \in DOMAIN scrolls' |-> scrolls'[x]]
  BY <1>1, <1>2, WithTypes
<1>5. Types' /\ IdsDrawn'
  BY <1>1, <1>2, <1>4 DEF Types, IdsDrawn, Done, Waits, IsScroll
<1>6. PendingOK'
  BY <1>1, DoneKeeps
<1>7. p.id \in DOMAIN scrolls' /\ scrolls'[p.id] = context /\ lease'[p.id] = context.expires
  BY <1>1, <1>2 DEF With, Types
<1>8. \A id, u : id # p.id /\ Kept(id, u) => KeptThen(id, u)
  BY <1>1, <1>2, OthersStayKept
<1>9. \A id \in told \cup toldPits : id # p.id => lease'[id] = lease[id]
  BY <1>2 DEF Types
<1>10. \A id \in told : KeptThen(id, lease'[id])
  BY <1>2, <1>7, <1>8, <1>9 DEF DeadlinesAreLeases, KeptThen
<1>11. ASSUME NEW k \in Request, Waiting(k, {"first"})', pending'[k].id # NoShards
       PROVE  KeptThen(pending'[k].id, pending'[k].at + pending'[k].keep)
  <2>1. k # r /\ pending'[k] = pending[k] /\ Waiting(k, {"first"})
    BY <1>3, <1>11 DEF Waiting
  <2>2. pending[k].id # p.id
    BY <1>1, <2>1 DEF PendingOK, Waiting
  <2> QED BY <1>8, <1>11, <2>1, <2>2 DEF DeadlinesAreLeases
<1>12. \A id \in toldPits : lease'[id] = lease[id]
  BY <1>1, <1>9 DEF IdsDrawn
<1>13. DeadlinesAreLeases'
  BY <1>1, <1>10, <1>11, <1>12 DEF DeadlinesAreLeases, Kept, KeptThen
<1> QED BY <1>5, <1>6, <1>13

\* Clearing takes contexts away and remembers which.
LEMMA ClearScrollKeeps ==
    ASSUME CursorInv, NEW S, S \subseteq Ids \cup {NoShards}, ClearScroll(S)
    PROVE  CursorInv'
<1> USE ConstantsAssumption DEF CursorInv
<1>1. /\ scrolls' = [id \in DOMAIN scrolls \ S |-> scrolls[id]] /\ cleared' = cleared \cup (S \cap Ids)
      /\ UNCHANGED <<now, counter, pits, pending, told, toldPits, sent, torn, lease>>
  BY DEF ClearScroll, Without, Only
<1>2. Types'
  BY <1>1 DEF Types
<1>3. IdsDrawn' /\ PendingOK'
  BY <1>1 DEF IdsDrawn, PendingOK, Waiting
<1>4. \A id \in Ids : \A until : Kept(id, until) => KeptThen(id, until)
  BY <1>1 DEF Kept, KeptThen
<1>5. told \subseteq Ids /\ \A k \in Request : Waiting(k, {"first"}) /\ pending[k].id # NoShards => pending[k].id \in Ids
  BY DEF IdsDrawn, PendingOK, Types, Ids, NoShards, Waiting
<1>6. DeadlinesAreLeases'
  BY <1>1, <1>4, <1>5 DEF DeadlinesAreLeases, Kept, KeptThen, Waiting
<1> QED BY <1>2, <1>3, <1>6

\* A point in time is created under an id drawn for it alone.
LEMMA CreatePITKeeps ==
    ASSUME CursorInv, NEW r \in Request, CreatePIT(r)
    PROVE  CursorInv'
<1> USE ConstantsAssumption DEF CursorInv
<1> DEFINE p == pending[r]
           context == [expires |-> p.at + p.keep, keepAlive |-> p.keep]
<1>1. /\ p # None /\ p.op = "pit" /\ Done(r) /\ pits' = With(pits, p.id, context)
      /\ toldPits' = toldPits \cup {p.id} /\ lease' = [lease EXCEPT ![p.id] = p.at + p.keep]
      /\ UNCHANGED <<now, counter, scrolls, told, sent, torn, cleared>>
  BY DEF CreatePIT
<1>2. Waiting(r, {"pit"}) /\ p.id \in 1..counter /\ p.id \notin told /\ p.id \notin toldPits
      /\ p.at \in 0..now /\ p.keep \in Int
  BY <1>1 DEF Waiting, PendingOK
<1>3. pending'[r] = None /\ \A k \in Request \ {r} : pending'[k] = pending[k]
  BY <1>1 DEF Done, Waits, Types
<1>4. IsPIT(context) /\ p.at + p.keep \in Int /\ p.id \in Ids
  BY <1>2 DEF IsPIT, Types, Ids
<1>5. pits' = [id \in DOMAIN pits \cup {p.id} |-> IF id = p.id THEN context ELSE pits[id]]
  BY <1>1 DEF With
<1>6. DOMAIN pits' \subseteq toldPits' /\ (\A id \in DOMAIN pits' : IsPIT(pits'[id]))
      /\ pits' = [id \in DOMAIN pits' |-> pits'[id]]
  BY <1>1, <1>4, <1>5 DEF Types
<1>7. Types' /\ IdsDrawn'
  BY <1>1, <1>2, <1>4, <1>6 DEF Types, IdsDrawn, Done, Waits
<1>8. PendingOK'
  BY <1>1, <1>2, <1>3 DEF PendingOK, Waiting, NoShards
<1>9. \A id \in told \cup toldPits : lease'[id] = lease[id]
  BY <1>1, <1>2 DEF Types
<1>10. lease'[p.id] = p.at + p.keep /\ pits'[p.id].expires = p.at + p.keep
  BY <1>1, <1>4, <1>5 DEF Types
<1>11. DeadlinesAreLeases'
  BY <1>1, <1>3, <1>5, <1>9, <1>10 DEF DeadlinesAreLeases, Kept, Waiting
<1> QED BY <1>7, <1>8, <1>11

\* A search renews a point in time and its lease together, or reaps one that is over.
LEMMA SearchPITKeeps ==
    ASSUME CursorInv, NEW id \in toldPits, NEW keep \in KeepAlives \cup {None}, SearchPIT(id, keep)
    PROVE  CursorInv'
<1> USE ConstantsAssumption DEF CursorInv
<1>1. id \in DOMAIN pits /\ UNCHANGED <<now, counter, scrolls, pending, told, toldPits, sent, torn, cleared>>
      /\ id \in Ids /\ id \notin told
  BY DEF SearchPIT, IdsDrawn, Types, Ids
<1>2. IdsDrawn' /\ PendingOK'
  BY <1>1 DEF IdsDrawn, PendingOK, Waiting
<1>3. CASE Over(pits[id])
  <2>1. pits' = [x \in DOMAIN pits \ {id} |-> pits[x]] /\ UNCHANGED lease /\ now >= pits[id].expires
    BY <1>3 DEF SearchPIT, Without, Only, Over
  <2>2. Types'
    BY <1>1, <2>1 DEF Types
  <2>3. DeadlinesAreLeases'
    BY <1>1, <2>1 DEF DeadlinesAreLeases, Kept, Waiting
  <2> QED BY <1>2, <2>2, <2>3
<1>4. CASE ~Over(pits[id])
  <2>1. keep # None /\ keep \in Int /\ lease' = [lease EXCEPT ![id] = now + keep]
        /\ pits' = [pits EXCEPT ![id] = Renewed(pits[id], now, keep)]
    BY <1>4 DEF SearchPIT
  <2>2. Renewed(pits[id], now, keep) = [expires |-> now + keep, keepAlive |-> keep]
    <3>1. pits[id] \in [expires : Int, keepAlive : Int]
      BY <1>1 DEF Types, IsPIT
    <3>2. Renewed(pits[id], now, keep) = [pits[id] EXCEPT !.keepAlive = keep, !.expires = now + keep]
      BY <2>1 DEF Renewed
    <3> QED BY <3>1, <3>2
  <2>3. Types'
    <3>1. IsPIT(pits'[id]) /\ \A x \in DOMAIN pits \ {id} : pits'[x] = pits[x]
      BY <1>1, <2>1, <2>2 DEF Types, IsPIT
    <3>2. DOMAIN pits' = DOMAIN pits /\ pits' = [x \in DOMAIN pits' |-> pits'[x]]
      BY <2>1
    <3>3. lease' \in [Ids -> Int]
      BY <1>1, <2>1 DEF Types
    <3>4. \A x \in DOMAIN pits' : IsPIT(pits'[x])
      BY <3>1, <3>2 DEF Types
    <3> QED BY <1>1, <3>2, <3>3, <3>4 DEF Types
  <2>4. \A x \in told : lease'[x] = lease[x]
    BY <1>1, <2>1 DEF Types
  <2>5. \A x \in toldPits \ {id} : lease'[x] = lease[x] /\ (x \in DOMAIN pits' <=> x \in DOMAIN pits)
                                   /\ (x \in DOMAIN pits => pits'[x] = pits[x])
    BY <1>1, <2>1 DEF Types
  <2>6. id \in DOMAIN pits' /\ pits'[id].expires = lease'[id]
    BY <1>1, <2>1, <2>2 DEF Types
  <2>7. DeadlinesAreLeases'
    BY <1>1, <2>4, <2>5, <2>6 DEF DeadlinesAreLeases, Kept, Waiting
  <2> QED BY <1>2, <2>3, <2>7
<1> QED BY <1>3, <1>4

\* Deleting and listing takes points in time away: those asked for, or over.
LEMMA DropPITsKeeps ==
    ASSUME CursorInv, (\E S \in SUBSET toldPits : DeletePIT(S)) \/ ListPITs
    PROVE  CursorInv'
<1> USE ConstantsAssumption DEF CursorInv
<1>1. UNCHANGED <<now, counter, scrolls, pending, told, toldPits, sent, torn, lease>>
  BY DEF DeletePIT, ListPITs, histories
<1>2. IdsDrawn' /\ PendingOK'
  BY <1>1 DEF IdsDrawn, PendingOK, Waiting
<1>3. PICK S \in SUBSET DOMAIN pits :
          /\ pits' = [x \in DOMAIN pits \ S |-> pits[x]]
          /\ cleared \subseteq cleared' /\ cleared' \subseteq cleared \cup toldPits
          /\ \A x \in S : x \in cleared' \/ now >= pits[x].expires
  <2>1. ASSUME NEW D \in SUBSET toldPits, DeletePIT(D)
        PROVE  \E S \in SUBSET DOMAIN pits :
                  /\ pits' = [x \in DOMAIN pits \ S |-> pits[x]]
                  /\ cleared \subseteq cleared' /\ cleared' \subseteq cleared \cup toldPits
                  /\ \A x \in S : x \in cleared' \/ now >= pits[x].expires
    <3>1. DOMAIN pits \ D = DOMAIN pits \ (D \cap DOMAIN pits)
      OBVIOUS
    <3>2. D \cap DOMAIN pits \in SUBSET DOMAIN pits
      OBVIOUS
    <3> QED BY <2>1, <3>1, <3>2 DEF DeletePIT, Without, Only
  <2>2. CASE ListPITs
    <3> DEFINE D == {x \in DOMAIN pits : Over(pits[x])}
    <3>1. pits' = [x \in DOMAIN pits \ D |-> pits[x]] /\ cleared' = cleared
      BY <2>2 DEF ListPITs, Without, Only, histories
    <3>2. D \in SUBSET DOMAIN pits /\ \A x \in D : now >= pits[x].expires
      BY DEF Over
    <3> QED BY <3>1, <3>2
  <2> QED BY <2>1, <2>2
<1>4. toldPits \subseteq Ids
  BY DEF IdsDrawn, Types, Ids
<1>5. Types'
  BY <1>1, <1>3, <1>4 DEF Types
<1>6. DeadlinesAreLeases'
  BY <1>1, <1>3 DEF DeadlinesAreLeases, Kept, Waiting
<1> QED BY <1>2, <1>5, <1>6

\* Every step keeps the invariant.
LEMMA CursorNext == CursorInv /\ [Next]_vars => CursorInv'
<1> SUFFICES ASSUME CursorInv, [Next]_vars PROVE CursorInv'
  OBVIOUS
<1>1. ASSUME NEW r \in Request, NEW n \in HitCounts, NEW size \in Sizes, NEW keep \in KeepAlives,
             NEW empty \in BOOLEAN, ReadOpen(r, n, size, keep, empty)
      PROVE  CursorInv'
  <2> DEFINE p == [op |-> "open", at |-> now, keep |-> keep, size |-> size, hits |-> [i \in 1..n |-> i],
                   id |-> IF empty THEN NoShards ELSE NextContext]
  <2>1. IsOpening(p) /\ p.keep \in Int
    BY ConstantsAssumption DEF IsOpening
  <2>2. p.id = counter + 1 \/ p.id = NoShards
    BY DEF NextContext
  <2>3. /\ pending[r] = None /\ Waits(r, p) /\ counter < MaxContexts /\ counter' = counter + 1
        /\ p.at = now /\ p.op = "open" /\ UNCHANGED <<now, scrolls, pits, histories>>
    BY <1>1 DEF ReadOpen, NextContext
  <2> HIDE DEF p
  <2> QED BY <2>1, <2>2, <2>3, ReserveKeeps
<1>2. ASSUME NEW r \in Request, NEW keep \in KeepAlives, ReadCreatePIT(r, keep)
      PROVE  CursorInv'
  <2> DEFINE p == [op |-> "pit", at |-> now, keep |-> keep, id |-> NextContext]
  <2>1. p.keep \in Int /\ p.id = counter + 1
    BY ConstantsAssumption DEF NextContext
  <2>2. /\ pending[r] = None /\ Waits(r, p) /\ counter < MaxContexts /\ counter' = counter + 1
        /\ p.at = now /\ p.op = "pit" /\ UNCHANGED <<now, scrolls, pits, histories>>
    BY <1>2 DEF ReadCreatePIT, NextContext
  <2> HIDE DEF p
  <2> QED BY <2>1, <2>2, ReserveKeeps
<1>3. ASSUME NEW r \in Request, NewScroll(r) \/ MissPage(r) \/ RefusePage(r) \/ CreatePIT(r)
      PROVE  CursorInv'
  BY <1>3, NewScrollKeeps, NoPageKeeps, CreatePITKeeps
<1>4. ASSUME NEW r \in Request, NEW rendered \in BOOLEAN, AnswerOpen(r, rendered) \/ ServePage(r, rendered)
      PROVE  CursorInv'
  BY <1>4, AnswerOpenKeeps, ServePageKeeps
<1>5. ASSUME NEW r \in Request, NEW id \in told, NEW keep \in KeepAlives \cup {None}, ReadPage(r, id, keep)
      PROVE  CursorInv'
  BY <1>5, ReadPageKeeps
<1>6. CASE (\E S \in SUBSET (told \cup {NoShards}) : ClearScroll(S)) \/ ClearAllScrolls
  <2>1. told \cup {NoShards} \subseteq Ids \cup {NoShards} /\ DOMAIN scrolls \subseteq Ids \cup {NoShards}
    BY KnownIds DEF CursorInv, Types
  <2> QED BY <1>6, <2>1, ClearScrollKeeps DEF ClearAllScrolls
<1>7. ASSUME NEW id \in toldPits, NEW keep \in KeepAlives \cup {None}, SearchPIT(id, keep)
      PROVE  CursorInv'
  BY <1>7, SearchPITKeeps
<1>8. CASE (\E S \in SUBSET toldPits : DeletePIT(S)) \/ ListPITs
  BY <1>8, DropPITsKeeps
<1>9. CASE Tick
  <2>1. now' = now + 1 /\ UNCHANGED <<counter, scrolls, pits, pending, histories>>
    BY <1>9 DEF Tick
  <2>2. now \in Nat /\ now' \in Nat /\ \A t \in 0..now : t \in 0..now'
    BY <2>1 DEF CursorInv, Types
  <2>3. Types' /\ IdsDrawn'
    BY <2>1, <2>2 DEF CursorInv, Types, IdsDrawn, histories
  <2>4. PendingOK'
    BY <2>1, <2>2 DEF CursorInv, PendingOK, Waiting, histories
  <2>5. \A id \in told \cup toldPits : lease[id] \in Int
    BY KnownIds DEF CursorInv, Types
  <2>6. \A k \in Request : Waiting(k, {"first"}) => pending[k].at + pending[k].keep \in Int
    <3> SUFFICES ASSUME NEW k \in Request, Waiting(k, {"first"})
                 PROVE  pending[k].at + pending[k].keep \in Int
      OBVIOUS
    <3>1. pending[k].at \in 0..now /\ pending[k].keep \in Int
      BY DEF CursorInv, PendingOK, Waiting, IsOpening
    <3> QED BY <3>1, <2>2
  <2>7. \A id : \A until \in Int : Kept(id, until) => KeptThen(id, until)
    BY <2>1, <2>2 DEF Kept, KeptThen, histories
  <2>8. \A id \in toldPits : now >= lease[id] => now' >= lease'[id]
    BY <2>1, <2>2, <2>5 DEF histories
  <2>9. \A id \in told : KeptThen(id, lease'[id])
    BY <2>1, <2>5, <2>7 DEF CursorInv, DeadlinesAreLeases, histories
  <2>10. \A k \in Request : Waiting(k, {"first"}) /\ pending[k].id # NoShards =>
            KeptThen(pending[k].id, pending[k].at + pending[k].keep)
    BY <2>6, <2>7 DEF CursorInv, DeadlinesAreLeases
  <2>11. DeadlinesAreLeases'
    BY <2>1, <2>8, <2>9, <2>10 DEF CursorInv, DeadlinesAreLeases, Kept, KeptThen, Waiting, histories
  <2> QED BY <2>3, <2>4, <2>11 DEF CursorInv
<1>10. CASE UNCHANGED vars
  BY <1>10 DEF vars, CursorInv, Types, IdsDrawn, PendingOK, DeadlinesAreLeases, Kept, Waiting, histories
<1> QED BY <1>1, <1>2, <1>3, <1>4, <1>5, <1>6, <1>7, <1>8, <1>9, <1>10 DEF Next

\* Deadlines are the leases clients were granted last, and ids are never shared.
THEOREM LeasesInOrder == Spec => []CursorInv
  BY CursorInit, CursorNext, PTL DEF Spec

-----------------------------------------------------------------------------
(* What clients may rely on. *)

\* Nothing but a request to clear it takes a context away before its lease has
\* passed, whoever sweeps with however old a reading of the clock.
THEOREM LeasesHonoured == Spec => []KeepAliveHonoured
<1>1. CursorInv => KeepAliveHonoured
  <2> SUFFICES ASSUME CursorInv PROVE KeepAliveHonoured
    OBVIOUS
  <2>1. \A id \in told \cup toldPits : lease[id] \in Int
    BY KnownIds DEF CursorInv, Types
  <2>2. now \in Int
    BY DEF CursorInv, Types
  <2> QED BY <2>1, <2>2 DEF CursorInv, DeadlinesAreLeases, Kept, KeepAliveHonoured
<1> QED BY <1>1, LeasesInOrder, PTL

\* What a step does to a context that its client knows.
InTime ==
    /\ \A id \in told : sent'[id] # sent[id] =>
          \E r \in Request : /\ pending[r] # None /\ pending'[r] = None
                            /\ pending[r].id = id /\ pending[r].at <= lease[id]
    /\ \A id \in toldPits : lease'[id] # lease[id] => now < lease[id]
NotRevived ==
    /\ \A id \in told : id \in DOMAIN scrolls' => id \in DOMAIN scrolls
    /\ \A id \in toldPits : id \in DOMAIN pits' => id \in DOMAIN pits

\* A page is served only of a context the client still knows, in its time.
LEMMA ServePageInTime ==
    ASSUME CursorInv, NEW r \in Request, NEW rendered \in BOOLEAN, ServePage(r, rendered)
    PROVE  InTime /\ NotRevived
<1> USE DEF CursorInv
<1> DEFINE p == pending[r]
<1>1. /\ p # None /\ p.at \in 0..now /\ p.id \in told /\ p.id \in DOMAIN Swept(p.at)
      /\ \A id \in Ids \ {p.id} : sent'[id] = sent[id]
      /\ UNCHANGED <<pits, toldPits>> /\ Done(r)
  BY Serving
<1>2. PICK context : /\ scrolls' = With(Swept(p.at), p.id, context)
                     /\ lease' = [lease EXCEPT ![p.id] = context.expires]
  BY Serving
<1>3. told \subseteq Ids /\ toldPits \subseteq Ids /\ p.id \notin toldPits
  BY <1>1, KnownIds DEF IdsDrawn
<1>4. p.at <= lease[p.id]
  <2>1. p.id \in DOMAIN scrolls /\ p.at <= scrolls[p.id].expires
    BY <1>1, Sweeping
  <2> QED BY <1>1, <2>1 DEF DeadlinesAreLeases, Kept
<1>5. pending'[r] = None
  BY <1>1 DEF Done, Waits, Types
<1>6. \A id \in toldPits : lease'[id] = lease[id]
  BY <1>2, <1>3 DEF Types
<1>7. InTime
  BY <1>1, <1>3, <1>4, <1>5, <1>6 DEF InTime
<1>8. DOMAIN Swept(p.at) \subseteq DOMAIN scrolls /\ DOMAIN scrolls' = DOMAIN Swept(p.at) \cup {p.id}
  BY <1>1, <1>2, Sweeping DEF With
<1>9. NotRevived
  BY <1>1, <1>8 DEF NotRevived
<1> QED BY <1>7, <1>9

\* What is opened bears an id that no client knows yet.
LEMMA OpeningInTime ==
    ASSUME CursorInv, NEW r \in Request, NEW rendered \in BOOLEAN,
           NewScroll(r) \/ AnswerOpen(r, rendered) \/ CreatePIT(r)
    PROVE  InTime /\ NotRevived
<1> USE DEF CursorInv
<1> DEFINE p == pending[r]
<1>1. p # None /\ p.at \in 0..now /\ p.id \notin told /\ p.id \notin toldPits
  BY DEF NewScroll, AnswerOpen, CreatePIT, PendingOK, Waiting
<1>2. told \subseteq Ids /\ toldPits \subseteq Ids
  BY KnownIds
<1>3. CASE NewScroll(r)
  <2>1. UNCHANGED <<sent, lease, pits>> /\ DOMAIN scrolls' = DOMAIN Swept(p.at) \cup {p.id}
    BY <1>3 DEF NewScroll, With, histories
  <2>2. DOMAIN Swept(p.at) \subseteq DOMAIN scrolls
    BY <1>1, Sweeping
  <2> QED BY <1>1, <2>1, <2>2 DEF InTime, NotRevived
<1>4. CASE AnswerOpen(r, rendered)
  <2>1. UNCHANGED <<scrolls, pits>>
    BY <1>4 DEF AnswerOpen
  <2>2. \A id \in Ids : id # p.id => sent'[id] = sent[id] /\ lease'[id] = lease[id]
    BY <1>4 DEF AnswerOpen, Deliver, Types
  <2> QED BY <1>1, <1>2, <2>1, <2>2 DEF InTime, NotRevived
<1>5. CASE CreatePIT(r)
  <2>1. UNCHANGED <<scrolls, sent>> /\ lease' = [lease EXCEPT ![p.id] = p.at + p.keep]
        /\ DOMAIN pits' = DOMAIN pits \cup {p.id}
    BY <1>5 DEF CreatePIT, With
  <2>2. \A id \in toldPits : lease'[id] = lease[id]
    BY <1>1, <2>1 DEF Types
  <2> QED BY <1>1, <2>1, <2>2 DEF InTime, NotRevived
<1> QED BY <1>3, <1>4, <1>5

\* A point in time is renewed before its lease is over, and only then.
LEMMA SearchPITInTime ==
    ASSUME CursorInv, NEW id \in toldPits, NEW keep \in KeepAlives \cup {None}, SearchPIT(id, keep)
    PROVE  InTime /\ NotRevived
<1> USE DEF CursorInv
<1>1. UNCHANGED <<scrolls, sent>> /\ DOMAIN pits' \subseteq DOMAIN pits
  BY DEF SearchPIT, Without, Only
<1>2. \A x \in toldPits : lease'[x] # lease[x] => x = id /\ now < lease[x]
  <2>1. toldPits \subseteq Ids /\ id \in DOMAIN pits
    BY KnownIds DEF SearchPIT
  <2>2. pits[id].expires = lease[id] /\ lease[id] \in Int /\ now \in Nat
    BY <2>1 DEF DeadlinesAreLeases, Types
  <2>3. lease' # lease => ~Over(pits[id]) /\ lease' = [lease EXCEPT ![id] = now + keep]
    BY DEF SearchPIT
  <2> QED BY <2>1, <2>2, <2>3 DEF Over, Types
<1> QED BY <1>1, <1>2 DEF InTime, NotRevived

\* No step answers too late or revives what is gone.
LEMMA StepsInTime == CursorInv /\ [Next]_vars => [InTime /\ NotRevived]_vars
<1> SUFFICES ASSUME CursorInv, Next PROVE InTime /\ NotRevived
  OBVIOUS
<1> DEFINE Quiet == /\ UNCHANGED <<sent, lease>>
                    /\ DOMAIN scrolls' \subseteq DOMAIN scrolls /\ DOMAIN pits' \subseteq DOMAIN pits
<1>1. Quiet => InTime /\ NotRevived
  BY DEF InTime, NotRevived
<1>2. CASE \E r \in Request : NewScroll(r) \/ CreatePIT(r) \/ \E rendered \in BOOLEAN : AnswerOpen(r, rendered)
  BY <1>2, OpeningInTime
<1>3. CASE \E r \in Request, rendered \in BOOLEAN : ServePage(r, rendered)
  BY <1>3, ServePageInTime
<1>4. CASE \E id \in toldPits, keep \in KeepAlives \cup {None} : SearchPIT(id, keep)
  BY <1>4, SearchPITInTime
<1>5. ASSUME NEW r \in Request, MissPage(r) \/ RefusePage(r)
      PROVE  Quiet
  <2>1. pending[r] # None /\ scrolls' = Swept(pending[r].at) /\ UNCHANGED <<sent, lease, pits>>
    BY <1>5 DEF MissPage, RefusePage, histories
  <2>2. DOMAIN Swept(pending[r].at) \subseteq DOMAIN scrolls
    BY <2>1, Sweeping DEF CursorInv, PendingOK
  <2> QED BY <2>1, <2>2
<1>6. ASSUME NEW S, ClearScroll(S) \/ DeletePIT(S)
      PROVE  Quiet
  BY <1>6 DEF ClearScroll, DeletePIT, Without, Only
<1>7. ListPITs \/ Tick => Quiet
  BY DEF ListPITs, Tick, Without, Only, histories
<1>8. ASSUME NEW r \in Request, NEW n, NEW size, NEW keep, NEW empty,
             ReadOpen(r, n, size, keep, empty) \/ ReadPage(r, n, keep) \/ ReadCreatePIT(r, keep)
      PROVE  Quiet
  BY <1>8 DEF ReadOpen, ReadPage, ReadCreatePIT, histories
<1> HIDE DEF Quiet
<1> QED BY <1>1, <1>2, <1>3, <1>4, <1>5, <1>6, <1>7, <1>8 DEF Next, ClearAllScrolls

\* After its keep-alive a context answers nobody: whoever is served a page read
\* the clock by the deadline, and a point in time is renewed only before its own.
THEOREM ServedInTime == Spec => NothingAnswersTooLate
<1>1. CursorInv /\ [Next]_vars => [InTime]_vars
  BY StepsInTime
<1> QED BY <1>1, LeasesInOrder, PTL DEF Spec, NothingAnswersTooLate, InTime

\* A context that is gone never comes back under the id its client knows.
THEOREM NothingRevived == Spec => GoneForGood
<1>1. CursorInv /\ [Next]_vars => [NotRevived]_vars
  BY StepsInTime
<1> QED BY <1>1, LeasesInOrder, PTL DEF Spec, GoneForGood, NotRevived

-----------------------------------------------------------------------------
(* The hits a scroll hands out. *)

\* m hits in a row, after the first g
Block(g, m) == [i \in 1..m |-> g + i]
Growing(s) == \A i, j \in DOMAIN s : i < j => s[i] < s[j]
Less(a, b) == IF a <= b THEN a ELSE b

\* A page of a block is its beginning, and the rest follows it.
LEMMA BlockPages ==
    ASSUME NEW g \in Nat, NEW k \in Nat, NEW size \in Nat
    PROVE  /\ Page(Block(g, k), size) = Block(g, Less(size, k))
           /\ Rest(Block(g, k), size) = Block(g + Less(size, k), k - Less(size, k))
<1> DEFINE m == Less(size, k)
           s == Block(g, k)
<1>1. m \in Nat /\ m <= k
  BY DEF Less
<1>2. Min({size, k}) = m
  BY DEF Min, Less
<1>3. Len(s) = k /\ s \in Seq(Int)
  BY DEF Block
<1>4. Page(s, size) = SubSeq(s, 1, m)
  <2> HIDE DEF m, s
  <2> QED BY <1>2, <1>3 DEF Page
<1>5. SubSeq(s, 1, m) = Block(g, m)
  <2>1. SubSeq(s, 1, m) = [i \in 1..m |-> s[i]]
    <3> HIDE DEF m, s
    <3> QED BY <1>1, <1>3
  <2>2. \A i \in 1..m : s[i] = g + i
    BY <1>1 DEF Block
  <2> HIDE DEF m, s
  <2> QED BY <2>1, <2>2 DEF Block
<1>6. Len(Block(g, m)) = m
  BY <1>1 DEF Block
<1>7. Rest(s, size) = SubSeq(s, m + 1, k)
  <2> HIDE DEF m, s
  <2> QED BY <1>3, <1>4, <1>5, <1>6 DEF Rest
<1>8. SubSeq(s, m + 1, k) = Block(g + m, k - m)
  <2>1. SubSeq(s, m + 1, k) = [i \in 1..(k - m) |-> s[i + m]]
    <3> HIDE DEF m, s
    <3> QED BY <1>1, <1>3
  <2>2. \A i \in 1..(k - m) : s[i + m] = (g + m) + i
    BY <1>1 DEF Block
  <2> HIDE DEF m, s
  <2> QED BY <2>1, <2>2 DEF Block
<1> QED BY <1>4, <1>5, <1>7, <1>8

\* The hits of a block.
LEMMA BlockRange ==
    ASSUME NEW g \in Nat, NEW m \in Nat
    PROVE  Range(Block(g, m)) = (g + 1)..(g + m)
<1>1. \A x \in (g + 1)..(g + m) : x - g \in 1..m /\ Block(g, m)[x - g] = x
  BY DEF Block
<1> QED BY <1>1 DEF Range, Block

\* Sending the next block keeps the order.
LEMMA BlockFollows ==
    ASSUME NEW g \in Nat, NEW m \in Nat, NEW s \in Seq(1..g), Growing(s)
    PROVE  /\ s \o Block(g, m) \in Seq(1..(g + m)) /\ Growing(s \o Block(g, m))
           /\ Range(s \o Block(g, m)) = Range(s) \cup (g + 1)..(g + m)
<1> DEFINE p == Block(g, m)
           n == Len(s)
           w == s \o p
<1>1. p \in Seq(1..(g + m)) /\ Len(p) = m
  BY DEF Block
<1>2. n \in Nat /\ DOMAIN s = 1..n /\ \A i \in 1..n : s[i] \in 1..g
  OBVIOUS
<1>3. s \in Seq(1..(g + m))
  BY <1>2
<1>4. w \in Seq(1..(g + m)) /\ Len(w) = n + m
  BY <1>1, <1>3
<1>5. \A i \in 1..n : w[i] = s[i]
  BY <1>1, <1>2
<1>6. \A i \in 1..m : w[n + i] = g + i
  <2>1. \A i \in 1..m : w[n + i] = p[i]
    <3> HIDE DEF p
    <3> QED BY <1>1, <1>2
  <2> QED BY <2>1 DEF Block
<1> HIDE DEF p, n, w
<1>7. \A i \in (n + 1)..(n + m) : w[i] = g + (i - n)
  <2> TAKE i \in (n + 1)..(n + m)
  <2>1. i - n \in 1..m /\ n + (i - n) = i
    BY <1>2
  <2> QED BY <1>6, <2>1
<1>8. Growing(w)
  <2> SUFFICES ASSUME NEW i \in 1..(n + m), NEW j \in 1..(n + m), i < j PROVE w[i] < w[j]
    BY <1>4 DEF Growing
  <2>1. CASE j <= n
    BY <1>2, <1>5, <2>1 DEF Growing
  <2>2. CASE i <= n /\ j > n
    <3>1. w[i] \in 1..g
      BY <1>2, <1>5, <2>2
    <3>2. w[j] = g + (j - n) /\ j - n \in Nat /\ j - n >= 1
      BY <1>2, <1>7, <2>2
    <3> QED BY <3>1, <3>2
  <2>3. CASE i > n
    BY <1>2, <1>7, <2>3
  <2> QED BY <1>2, <2>1, <2>2, <2>3
<1>9. Range(w) = Range(s) \cup (g + 1)..(g + m)
  <2>1. DOMAIN w = 1..(n + m) /\ DOMAIN s = 1..n
    BY <1>2, <1>4
  <2>2. ASSUME NEW x \in Range(s) PROVE x \in Range(w)
    <3>1. PICK i \in 1..n : s[i] = x
      BY <2>1 DEF Range
    <3>2. i \in DOMAIN w /\ w[i] = x
      BY <1>2, <1>5, <2>1, <3>1
    <3> QED BY <3>2 DEF Range
  <2>3. ASSUME NEW x \in (g + 1)..(g + m) PROVE x \in Range(w)
    <3>1. x - g \in 1..m
      OBVIOUS
    <3>2. w[n + (x - g)] = g + (x - g)
      BY <1>6, <3>1
    <3>3. n + (x - g) \in 1..(n + m) /\ g + (x - g) = x
      BY <1>2, <3>1
    <3> QED BY <2>1, <3>2, <3>3 DEF Range
  <2>4. ASSUME NEW i \in 1..(n + m) PROVE w[i] \in Range(s) \cup (g + 1)..(g + m)
    <3>1. CASE i <= n
      <4>1. i \in DOMAIN s /\ w[i] = s[i]
        BY <1>2, <1>5, <2>1, <3>1
      <4> QED BY <4>1 DEF Range
    <3>2. CASE i > n
      BY <1>2, <1>7, <3>2
    <3> QED BY <1>2, <3>1, <3>2
  <2>5. Range(w) \subseteq Range(s) \cup (g + 1)..(g + m)
    BY <2>1, <2>4 DEF Range
  <2> QED BY <2>2, <2>3, <2>5
<1> QED BY <1>4, <1>8, <1>9 DEF w, p

\* the first page of scroll id waits in request q
FirstOf(q, id) == pending[q] # None /\ pending[q].op = "first" /\ pending[q].id = id

\* nothing of scroll id was sent or lost
Fresh(id) == sent[id] = <<>> /\ torn[id] = {}
FreshThen(id) == sent'[id] = <<>> /\ torn'[id] = {}

\* The first g hits of scroll id are sent, lost or on their way; its context,
\* while there is one, holds the hits that follow.
Handed(id, g) ==
    /\ sent[id] \in Seq(1..g) /\ Growing(sent[id])
    /\ Range(sent[id]) \cap torn[id] = {}
    /\ Range(sent[id]) \cup torn[id] \cup InFlight(id) = 1..g
    /\ id \in DOMAIN scrolls =>
         /\ scrolls[id].size \in Nat /\ scrolls[id].total \in Nat /\ g <= scrolls[id].total
         /\ scrolls[id].remaining = Block(g, scrolls[id].total - g)

HitsInv ==
    /\ torn = [id \in Ids |-> torn[id]]
    /\ \A r \in Request : Waiting(r, {"open", "first"}) =>
          /\ pending[r].size \in Nat /\ \E n \in Nat : pending[r].hits = Block(0, n)
          /\ pending[r].id \in Ids => Fresh(pending[r].id)
    /\ \A id \in Ids : id > counter => Fresh(id)
    /\ \A id \in Ids : \E g \in Nat : Handed(id, g)

\* What is on its way depends on the first pages that wait.
LEMMA InFlightSame ==
    ASSUME NEW id,
           \A q \in Request : (FirstOf(q, id) <=> FirstOf(q, id)') /\ (FirstOf(q, id) => pending'[q] = pending[q])
    PROVE  InFlight(id)' = InFlight(id)
<1>1. {q \in Request : pending[q] # None /\ pending[q].op = "first" /\ pending[q].id = id}
        = {q \in Request : pending'[q] # None /\ pending'[q].op = "first" /\ pending'[q].id = id}
  BY DEF FirstOf
<1> DEFINE Of(q) == Range(Page(pending[q].hits, pending[q].size))
           R == {q \in Request : pending[q] # None /\ pending[q].op = "first" /\ pending[q].id = id}
<1>2. \A q \in R : pending'[q] = pending[q]
  BY DEF FirstOf
<1>3. {Range(Page(pending'[q].hits, pending'[q].size)) : q \in R} = {Of(q) : q \in R}
  BY <1>2
<1> QED BY <1>1, <1>3 DEF InFlight

LEMMA NothingInFlight ==
    ASSUME NEW id, \A q \in Request : ~FirstOf(q, id)
    PROVE  InFlight(id) = {}
<1>1. {q \in Request : pending[q] # None /\ pending[q].op = "first" /\ pending[q].id = id} = {}
  BY DEF FirstOf
<1> QED BY <1>1 DEF InFlight

LEMMA OneInFlight ==
    ASSUME NEW id, NEW r \in Request, FirstOf(r, id), \A q \in Request \ {r} : ~FirstOf(q, id)
    PROVE  InFlight(id) = Range(Page(pending[r].hits, pending[r].size))
<1>1. {q \in Request : pending[q] # None /\ pending[q].op = "first" /\ pending[q].id = id} = {r}
  BY DEF FirstOf
<1> QED BY <1>1 DEF InFlight

\* A scroll whose pages and context a step leaves alone, or whose context it drops.
LEMMA HandedStays ==
    ASSUME NEW id, NEW g, Handed(id, g), InFlight(id)' = InFlight(id),
           sent'[id] = sent[id], torn'[id] = torn[id],
           id \in DOMAIN scrolls' => id \in DOMAIN scrolls /\ scrolls'[id] = scrolls[id]
    PROVE  Handed(id, g)'
  BY DEF Handed

\* A step that hands out nothing and renews no scroll but the one without shards.
LEMMA QuietHits ==
    ASSUME HitsInv, UNCHANGED <<sent, torn>>, counter \in Int, counter' \in Int, counter <= counter',
           \A id \in Ids : id \in DOMAIN scrolls' => id \in DOMAIN scrolls /\ scrolls'[id] = scrolls[id],
           \A q \in Request :
              \/ pending'[q] = pending[q]
              \/ /\ \A id \in Ids : ~FirstOf(q, id) /\ ~FirstOf(q, id)'
                 /\ Waiting(q, {"open", "first"})' =>
                       /\ pending'[q].size \in Nat /\ \E n \in Nat : pending'[q].hits = Block(0, n)
                       /\ pending'[q].id \in Ids => Fresh(pending'[q].id)
    PROVE  HitsInv'
<1>1. \A id \in Ids : InFlight(id)' = InFlight(id)
  <2> TAKE id \in Ids
  <2>1. \A q \in Request : (FirstOf(q, id) <=> FirstOf(q, id)') /\ (FirstOf(q, id) => pending'[q] = pending[q])
    BY DEF FirstOf
  <2> QED BY <2>1, InFlightSame
<1>2. \A id \in Ids : \E g \in Nat : Handed(id, g)'
  <2> TAKE id \in Ids
  <2>1. PICK g \in Nat : Handed(id, g)
    BY DEF HitsInv
  <2>2. Handed(id, g)'
    BY <1>1, <2>1, HandedStays
  <2> QED BY <2>2
<1>3. \A r \in Request : Waiting(r, {"open", "first"})' =>
          /\ pending'[r].size \in Nat /\ \E n \in Nat : pending'[r].hits = Block(0, n)
          /\ pending'[r].id \in Ids => Fresh(pending'[r].id)
  BY DEF HitsInv, Waiting
<1>4. \A id \in Ids : id > counter' => Fresh(id)
  BY DEF HitsInv, Ids
<1>5. \A id : Fresh(id)' <=> Fresh(id)
  BY DEF Fresh
<1> QED BY <1>2, <1>3, <1>4, <1>5 DEF HitsInv

\* Every step but those that open a scroll or serve a page.
LEMMA OtherHits ==
    ASSUME CursorInv, HitsInv, Next,
           \A r \in Request, rendered \in BOOLEAN :
              ~NewScroll(r) /\ ~AnswerOpen(r, rendered) /\ ~ServePage(r, rendered)
    PROVE  HitsInv'
<1> USE ConstantsAssumption
<1>1. counter \in Nat /\ \A r \in Request : \A p : Waits(r, p) =>
         pending'[r] = p /\ \A q \in Request \ {r} : pending'[q] = pending[q]
  BY DEF CursorInv, Types, Waits
<1>2. \A t \in 0..now : \A id \in DOMAIN Swept(t) : id \in DOMAIN scrolls /\ Swept(t)[id] = scrolls[id]
  BY Sweeping DEF CursorInv
<1>3. CASE Tick
  BY <1>1, <1>3, QuietHits DEF Tick, histories
<1>4. ASSUME NEW r \in Request, NEW n \in HitCounts, NEW size \in Sizes, NEW keep \in KeepAlives,
             NEW empty \in BOOLEAN, ReadOpen(r, n, size, keep, empty)
      PROVE  HitsInv'
  <2> DEFINE p == [op |-> "open", at |-> now, keep |-> keep, size |-> size, hits |-> [i \in 1..n |-> i],
                   id |-> IF empty THEN NoShards ELSE NextContext]
  <2>1. Waits(r, p) /\ pending[r] = None /\ counter' = counter + 1
        /\ UNCHANGED <<scrolls, sent, torn>>
    BY <1>4 DEF ReadOpen, histories, NextContext
  <2>2. p.op = "open" /\ p.size \in Nat /\ p.id \in {NoShards, counter + 1}
    BY DEF NextContext
  <2>3. n \in Nat /\ p.hits = Block(0, n)
    BY DEF Block
  <2>4. p.id \in Ids => Fresh(p.id)
    BY <1>1, <2>2 DEF HitsInv, Ids, NoShards
  <2> HIDE DEF p
  <2>5. pending'[r] = p /\ \A q \in Request \ {r} : pending'[q] = pending[q]
    BY <1>1, <2>1
  <2>6. \A id \in Ids : ~FirstOf(r, id) /\ ~FirstOf(r, id)'
    BY <2>1, <2>2, <2>5 DEF FirstOf
  <2> QED BY <1>1, <2>1, <2>2, <2>3, <2>4, <2>5, <2>6, QuietHits
<1>5. ASSUME NEW r \in Request, MissPage(r) \/ RefusePage(r)
      PROVE  HitsInv'
  <2>1. /\ pending[r] # None /\ pending[r].op = "page" /\ pending[r].at \in 0..now
        /\ scrolls' = Swept(pending[r].at) /\ Waits(r, None) /\ UNCHANGED <<counter, sent, torn>>
    BY <1>5 DEF MissPage, RefusePage, Done, histories, CursorInv, PendingOK
  <2>2. pending'[r] = None /\ \A q \in Request \ {r} : pending'[q] = pending[q]
    BY <1>1, <2>1
  <2> QED BY <1>1, <1>2, <2>1, <2>2, QuietHits DEF FirstOf, Waiting
<1>6. ASSUME NEW r \in Request, CreatePIT(r)
      PROVE  HitsInv'
  <2>1. /\ pending[r] # None /\ pending[r].op = "pit" /\ Waits(r, None)
        /\ UNCHANGED <<scrolls, counter, sent, torn>>
    BY <1>6 DEF CreatePIT, Done
  <2>2. pending'[r] = None /\ \A q \in Request \ {r} : pending'[q] = pending[q]
    BY <1>1, <2>1
  <2> QED BY <1>1, <2>1, <2>2, QuietHits DEF FirstOf, Waiting
<1>7. ASSUME NEW r \in Request, NEW id \in told, NEW keep \in KeepAlives \cup {None}, ReadPage(r, id, keep)
      PROVE  HitsInv'
  <2> DEFINE p == [op |-> "page", at |-> now, keep |-> keep, id |-> id]
  <2>1. pending[r] = None /\ Waits(r, p) /\ p.op = "page" /\ UNCHANGED <<scrolls, counter, sent, torn>>
    BY <1>7 DEF ReadPage
  <2> HIDE DEF p
  <2>2. pending'[r] = p /\ \A q \in Request \ {r} : pending'[q] = pending[q]
    BY <1>1, <2>1
  <2> QED BY <1>1, <2>1, <2>2, QuietHits DEF FirstOf, Waiting
<1>8. ASSUME NEW r \in Request, NEW keep \in KeepAlives, ReadCreatePIT(r, keep)
      PROVE  HitsInv'
  <2> DEFINE p == [op |-> "pit", at |-> now, keep |-> keep, id |-> NextContext]
  <2>1. pending[r] = None /\ Waits(r, p) /\ p.op = "pit" /\ counter' = counter + 1
        /\ UNCHANGED <<scrolls, sent, torn>>
    BY <1>8 DEF ReadCreatePIT, histories, NextContext
  <2> HIDE DEF p
  <2>2. pending'[r] = p /\ \A q \in Request \ {r} : pending'[q] = pending[q]
    BY <1>1, <2>1
  <2> QED BY <1>1, <2>1, <2>2, QuietHits DEF FirstOf, Waiting
<1>9. ASSUME NEW S, ClearScroll(S) PROVE HitsInv'
  <2>1. UNCHANGED <<pending, counter, sent, torn>> /\ scrolls' = Without(scrolls, S)
    BY <1>9 DEF ClearScroll
  <2> QED BY <1>1, <2>1, QuietHits DEF Without, Only
<1>10. CASE ListPITs
  BY <1>1, <1>10, QuietHits DEF ListPITs, histories
<1>11. ASSUME NEW id \in toldPits, NEW keep \in KeepAlives \cup {None}, SearchPIT(id, keep) PROVE HitsInv'
  BY <1>1, <1>11, QuietHits DEF SearchPIT
<1>12. ASSUME NEW S, DeletePIT(S) PROVE HitsInv'
  BY <1>1, <1>12, QuietHits DEF DeletePIT
<1> QED BY <1>3, <1>4, <1>5, <1>6, <1>7, <1>8, <1>9, <1>10, <1>11, <1>12 DEF Next, ClearAllScrolls

\* A scroll is opened with what the first page leaves.
LEMMA NewScrollHits ==
    ASSUME CursorInv, HitsInv, NEW r \in Request, NewScroll(r)
    PROVE  HitsInv'
<1> USE ConstantsAssumption
<1> DEFINE p == pending[r]
           q == [p EXCEPT !.op = "first"]
           context == [remaining |-> Rest(p.hits, p.size), total |-> Len(p.hits), size |-> p.size,
                       expires |-> p.at + p.keep, keepAlive |-> p.keep]
<1>1. /\ p # None /\ p.op = "open" /\ scrolls' = With(Swept(p.at), p.id, context)
      /\ Waits(r, q) /\ UNCHANGED <<now, counter, pits, histories>>
  BY DEF NewScroll
<1>2. Waiting(r, {"open", "first"}) /\ IsOpening(p) /\ p.at \in 0..now /\ p.size \in Nat
      /\ (p.id \in Ids => Fresh(p.id))
  BY <1>1 DEF Waiting, CursorInv, PendingOK, HitsInv
<1>3. PICK n \in Nat : p.hits = Block(0, n)
  BY <1>2 DEF HitsInv
<1>4. /\ q.op = "first" /\ q.hits = p.hits /\ q.size = p.size /\ q.id = p.id
  BY <1>2 DEF IsOpening
<1>5. pending'[r] = q /\ \A k \in Request \ {r} : pending'[k] = pending[k]
  BY <1>1 DEF Waits, CursorInv, Types
<1>6. PICK m \in Nat : m = Less(p.size, n) /\ m <= n
  BY <1>2 DEF Less
<1>7. /\ context.remaining = Block(m, n - m) /\ context.total = n /\ context.size \in Nat
      /\ Page(p.hits, p.size) = Block(0, m)
  <2>1. Page(p.hits, p.size) = Block(0, m) /\ Rest(p.hits, p.size) = Block(0 + m, n - m)
    <3> DEFINE hits == p.hits
               size == p.size
    <3>1. size \in Nat /\ hits = Block(0, n) /\ m = Less(size, n)
      BY <1>2, <1>3, <1>6
    <3> HIDE DEF hits, size
    <3>2. Page(Block(0, n), size) = Block(0, Less(size, n))
          /\ Rest(Block(0, n), size) = Block(0 + Less(size, n), n - Less(size, n))
      BY <3>1, BlockPages
    <3> QED BY <3>1, <3>2 DEF hits, size
  <2>2. Len(p.hits) = n
    BY <1>3 DEF Block
  <2>3. 0 + m = m
    OBVIOUS
  <2> QED BY <1>2, <2>1, <2>2, <2>3
<1>17. q # None
  <2>1. q = [op |-> "first", at |-> p.at, keep |-> p.keep, size |-> p.size, hits |-> p.hits, id |-> p.id]
    BY <1>2 DEF IsOpening
  <2>2. p.at \in Int /\ p.keep \in Int /\ p.size \in Int /\ p.id \in Int
    BY <1>1, <1>2 DEF IsOpening, CursorInv, Types, PendingOK, Waiting
  <2>3. p.hits \in Seq(Int)
    BY <1>3 DEF Block
  <2> QED BY ONLY <2>1, <2>2, <2>3, NoneAssumption
<1> HIDE DEF q, context
<1>8. \A k \in Request \ {r} : p.id \in Ids => ~FirstOf(k, p.id)
  BY <1>1 DEF FirstOf, CursorInv, PendingOK, Waiting, Ids, NoShards
<1>9. \A id \in Ids \ {p.id} : InFlight(id)' = InFlight(id)
  <2> TAKE id \in Ids \ {p.id}
  <2>1. \A k \in Request : (FirstOf(k, id) <=> FirstOf(k, id)') /\ (FirstOf(k, id) => pending'[k] = pending[k])
    BY <1>1, <1>4, <1>5 DEF FirstOf
  <2> QED BY <2>1, InFlightSame
<1>10. sent' = sent /\ torn' = torn
  BY <1>1 DEF histories
<1>11. ASSUME NEW id \in Ids, id = p.id PROVE Handed(id, m)'
  <2>1. InFlight(id)' = Range(Page(pending'[r].hits, pending'[r].size))
    <3>1. \A k \in Request \ {r} : ~FirstOf(k, id)'
      BY <1>5, <1>8, <1>11 DEF FirstOf
    <3>2. pending'[r] # None /\ pending'[r].op = "first" /\ pending'[r].id = id
      BY <1>4, <1>5, <1>11, <1>17
    <3>3. {k \in Request : pending'[k] # None /\ pending'[k].op = "first" /\ pending'[k].id = id} = {r}
      BY <3>1, <3>2 DEF FirstOf
    <3> QED BY <3>3 DEF InFlight
  <2>2. InFlight(id)' = 1..m
    <3>1. Range(Block(0, m)) = (0 + 1)..(0 + m)
      BY BlockRange
    <3>2. (0 + 1)..(0 + m) = 1..m
      OBVIOUS
    <3> QED BY <1>4, <1>5, <1>7, <2>1, <3>1, <3>2
  <2>3. sent'[id] = <<>> /\ torn'[id] = {}
    BY <1>2, <1>10, <1>11 DEF Fresh
  <2>4. sent'[id] \in Seq(1..m) /\ Range(sent'[id]) = {} /\ Growing(sent'[id])
    BY <2>3 DEF Range, Growing
  <2>5. scrolls'[id] = context
    BY <1>1, <1>11 DEF With
  <2>6. Handed(id, m)'
    BY <1>6, <1>7, <2>2, <2>3, <2>4, <2>5 DEF Handed
  <2> QED BY <2>6
<1>12. ASSUME NEW id \in Ids, id # p.id PROVE \E g \in Nat : Handed(id, g)'
  <2>1. PICK g \in Nat : Handed(id, g)
    BY DEF HitsInv
  <2>2. id \in DOMAIN scrolls' => id \in DOMAIN scrolls /\ scrolls'[id] = scrolls[id]
    BY <1>1, <1>2, <1>12, Sweeping DEF With, CursorInv
  <2>3. Handed(id, g)'
    BY <1>9, <1>10, <1>12, <2>1, <2>2, HandedStays
  <2> QED BY <2>3
<1>13. \A id \in Ids : \E g \in Nat : Handed(id, g)'
  BY <1>6, <1>11, <1>12
<1>14. \A k \in Request : Waiting(k, {"open", "first"})' =>
          /\ pending'[k].size \in Nat /\ \E i \in Nat : pending'[k].hits = Block(0, i)
          /\ pending'[k].id \in Ids => Fresh(pending'[k].id)
  BY <1>2, <1>3, <1>4, <1>5 DEF HitsInv, Waiting
<1>15. \A id : Fresh(id)' <=> Fresh(id)
  BY <1>10 DEF Fresh
<1>16. counter' = counter
  BY <1>1
<1> QED BY <1>10, <1>13, <1>14, <1>15, <1>16 DEF HitsInv

\* The answer sends the first page, or loses it.
LEMMA AnswerOpenHits ==
    ASSUME CursorInv, HitsInv, NEW r \in Request, NEW rendered \in BOOLEAN, AnswerOpen(r, rendered)
    PROVE  HitsInv'
<1> USE ConstantsAssumption
<1> DEFINE p == pending[r]
<1>1. p # None /\ p.op = "first" /\ Done(r) /\ UNCHANGED <<counter, scrolls>>
  BY DEF AnswerOpen
<1>2. Waiting(r, {"open", "first"}) /\ p.size \in Nat /\ (p.id \in Ids => Fresh(p.id)) /\ p.id \in 0..counter
  BY <1>1 DEF Waiting, CursorInv, PendingOK, HitsInv
<1>3. PICK n \in Nat : p.hits = Block(0, n)
  BY <1>2 DEF HitsInv
<1>4. pending'[r] = None /\ \A k \in Request \ {r} : pending'[k] = pending[k]
  BY <1>1 DEF Done, Waits, CursorInv, Types
<1>5. counter \in 0..MaxContexts
  BY DEF CursorInv, Types
<1>6. CASE p.id = NoShards
  <2>1. UNCHANGED <<sent, torn>>
    BY <1>6 DEF AnswerOpen
  <2>2. \A id \in Ids : ~FirstOf(r, id) /\ ~FirstOf(r, id)'
    BY <1>4, <1>6 DEF FirstOf, Ids, NoShards
  <2> QED BY <1>1, <1>4, <1>5, <2>1, <2>2, QuietHits DEF Waiting
<1>7. CASE p.id # NoShards
  <2>1. p.id \in Ids /\ Fresh(p.id) /\ Deliver(p.id, Page(p.hits, p.size), rendered)
    BY <1>2, <1>5, <1>7 DEF AnswerOpen, Ids, NoShards
  <2>2. PICK m \in Nat : m = Less(p.size, n) /\ Page(p.hits, p.size) = Block(0, m)
    BY <1>2, <1>3, BlockPages DEF Less
  <2>3. \A k \in Request \ {r} : ~FirstOf(k, p.id)
    BY <1>1, <1>7 DEF FirstOf, CursorInv, PendingOK, Waiting
  <2>4. InFlight(p.id) = 1..m /\ Range(Block(0, m)) = 1..m
    <3>1. Range(Block(0, m)) = (0 + 1)..(0 + m)
      BY BlockRange
    <3>2. (0 + 1)..(0 + m) = 1..m
      OBVIOUS
    <3>3. InFlight(p.id) = Range(Page(p.hits, p.size))
      BY <1>1, <2>3, OneInFlight DEF FirstOf
    <3> QED BY <2>2, <3>1, <3>2, <3>3
  <2>5. PICK g \in Nat : Handed(p.id, g)
    BY <2>1 DEF HitsInv
  <2>6. g = m
    <3>1. Range(<<>>) = {}
      BY DEF Range
    <3>2. Range(sent[p.id]) \cup torn[p.id] \cup InFlight(p.id) = 1..g
      BY <2>5 DEF Handed
    <3>3. 1..g = 1..m
      BY <2>1, <2>4, <3>1, <3>2 DEF Fresh
    <3> QED BY <3>3
  <2>7. sent = [id \in Ids |-> sent[id]] /\ torn = [id \in Ids |-> torn[id]]
    BY DEF CursorInv, Types, HitsInv
  <2>8. /\ \A id \in Ids \ {p.id} : sent'[id] = sent[id] /\ torn'[id] = torn[id]
        /\ torn' = [id \in Ids |-> torn'[id]]
        /\ \/ sent'[p.id] = <<>> \o Block(0, m) /\ torn'[p.id] = {}
           \/ sent'[p.id] = <<>> /\ torn'[p.id] = 1..m
    <3>1. CASE rendered
      BY <2>1, <2>2, <2>7, <3>1 DEF Deliver, Fresh
    <3>2. CASE ~rendered
      BY <2>1, <2>2, <2>4, <2>7, <3>2 DEF Deliver, Fresh
    <3> QED BY <3>1, <3>2
  <2>9. ASSUME NEW id \in Ids, id = p.id PROVE Handed(id, m)'
    <3>1. InFlight(id)' = {}
      <4>1. \A k \in Request : ~FirstOf(k, id)'
        BY <1>4, <2>3, <2>9 DEF FirstOf
      <4>2. {k \in Request : pending'[k] # None /\ pending'[k].op = "first" /\ pending'[k].id = id} = {}
        BY <4>1 DEF FirstOf
      <4> QED BY <4>2 DEF InFlight
    <3>2. Growing(<<>>) /\ <<>> \in Seq(1..0) /\ Range(<<>>) = {} /\ <<>> \in Seq(1..m)
      BY DEF Growing, Range
    <3>3. /\ <<>> \o Block(0, m) \in Seq(1..m) /\ Growing(<<>> \o Block(0, m))
          /\ Range(<<>> \o Block(0, m)) = 1..m
      <4>1. /\ <<>> \o Block(0, m) \in Seq(1..(0 + m)) /\ Growing(<<>> \o Block(0, m))
            /\ Range(<<>> \o Block(0, m)) = Range(<<>>) \cup (0 + 1)..(0 + m)
        BY <3>2, BlockFollows
      <4>2. 0 + m = m /\ 0 + 1 = 1
        OBVIOUS
      <4> QED BY <3>2, <4>1, <4>2
    <3>4. /\ sent'[id] \in Seq(1..m) /\ Growing(sent'[id])
          /\ Range(sent'[id]) \cap torn'[id] = {} /\ Range(sent'[id]) \cup torn'[id] = 1..m
      BY <2>8, <2>9, <3>2, <3>3
    <3>5. scrolls' = scrolls /\ Handed(id, m)
      BY <1>1, <2>5, <2>6, <2>9
    <3> QED BY <3>1, <3>4, <3>5 DEF Handed
  <2>10. ASSUME NEW id \in Ids, id # p.id PROVE \E x \in Nat : Handed(id, x)'
    <3>1. PICK x \in Nat : Handed(id, x)
      BY DEF HitsInv
    <3>2. \A k \in Request : (FirstOf(k, id) <=> FirstOf(k, id)') /\ (FirstOf(k, id) => pending'[k] = pending[k])
      BY <1>4, <2>10 DEF FirstOf
    <3>3. Handed(id, x)'
      BY <1>1, <2>8, <2>10, <3>1, <3>2, InFlightSame, HandedStays
    <3> QED BY <3>3
  <2>11. \A id \in Ids : \E x \in Nat : Handed(id, x)'
    BY <2>9, <2>10
  <2>12. \A k \in Request : Waiting(k, {"open", "first"})' =>
            /\ pending'[k].size \in Nat /\ \E i \in Nat : pending'[k].hits = Block(0, i)
            /\ pending'[k].id \in Ids => FreshThen(pending'[k].id)
    <3> SUFFICES ASSUME NEW k \in Request, Waiting(k, {"open", "first"})'
                 PROVE  /\ pending'[k].size \in Nat /\ \E i \in Nat : pending'[k].hits = Block(0, i)
                        /\ pending'[k].id \in Ids => FreshThen(pending'[k].id)
      OBVIOUS
    <3>1. k # r /\ pending'[k] = pending[k] /\ Waiting(k, {"open", "first"})
      BY <1>4 DEF Waiting
    <3>2. pending[k].id # p.id
      BY <1>2, <1>7, <3>1 DEF CursorInv, PendingOK, Waiting
    <3>3. /\ pending[k].size \in Nat /\ \E i \in Nat : pending[k].hits = Block(0, i)
          /\ pending[k].id \in Ids => Fresh(pending[k].id)
      BY <3>1 DEF HitsInv
    <3>4. pending[k].id \in Ids => FreshThen(pending[k].id)
      BY <2>8, <3>2, <3>3 DEF Fresh, FreshThen
    <3> QED BY <3>1, <3>3, <3>4
  <2>13. \A id \in Ids : id > counter' => Fresh(id)'
    BY <1>1, <1>2, <1>5, <2>8 DEF HitsInv, Fresh, FreshThen
  <2>14. \A id : FreshThen(id) <=> Fresh(id)'
    BY DEF Fresh, FreshThen
  <2> QED BY <2>8, <2>11, <2>12, <2>13, <2>14 DEF HitsInv
<1> QED BY <1>6, <1>7

\* The next page is sent or lost, and the context advances by it.
LEMMA ServePageHits ==
    ASSUME CursorInv, HitsInv, NEW r \in Request, NEW rendered \in BOOLEAN, ServePage(r, rendered)
    PROVE  HitsInv'
<1> USE ConstantsAssumption
<1> DEFINE p == pending[r]
           old == scrolls[p.id]
           page == Page(old.remaining, old.size)
<1>1. /\ p # None /\ p.op = "page" /\ p.id \in told /\ p.id \in Ids /\ p.at \in 0..now
      /\ p.id \in DOMAIN Swept(p.at) /\ Done(r) /\ UNCHANGED <<now, counter, told>>
  BY Serving DEF ServePage
<1>2. p.id \in DOMAIN scrolls /\ Swept(p.at)[p.id] = old /\ IsScroll(old)
  BY <1>1, Sweeping DEF CursorInv, Types
<1>3. pending'[r] = None /\ \A k \in Request \ {r} : pending'[k] = pending[k]
  BY <1>1 DEF Done, Waits, CursorInv, Types
<1>4. counter \in 0..MaxContexts /\ p.id <= counter
  BY <1>1 DEF CursorInv, Types, IdsDrawn
<1>5. Deliver(p.id, page, rendered)
  BY <1>1, <1>2 DEF ServePage
<1>6. /\ scrolls'[p.id].size = old.size /\ scrolls'[p.id].total = old.total
      /\ scrolls'[p.id].remaining = Rest(old.remaining, old.size)
  <2> DEFINE new == [Renewed(old, p.at, p.keep) EXCEPT !.remaining = Rest(@, old.size)]
  <2>1. scrolls'[p.id] = new
    BY <1>1, <1>2 DEF ServePage, With
  <2>2. /\ new.size = old.size /\ new.total = old.total
        /\ new.remaining = Rest(old.remaining, old.size)
    <3> HIDE DEF old
    <3> QED BY <1>2 DEF Renewed, IsScroll
  <2> QED BY <2>1, <2>2
<1>7. \A id \in Ids \ {p.id} : id \in DOMAIN scrolls' => id \in DOMAIN scrolls /\ scrolls'[id] = scrolls[id]
  <2>1. \E context : scrolls' = With(Swept(p.at), p.id, context)
    BY Serving
  <2> QED BY <1>1, <2>1, Sweeping DEF With, CursorInv
<1>8. \A k \in Request : ~FirstOf(k, p.id)
  BY <1>1 DEF FirstOf, CursorInv, PendingOK, Waiting
<1>9. PICK g \in Nat : Handed(p.id, g)
  BY <1>1 DEF HitsInv
<1>10. /\ old.size \in Nat /\ old.total \in Nat /\ g <= old.total
       /\ old.remaining = Block(g, old.total - g)
       /\ sent[p.id] \in Seq(1..g) /\ Growing(sent[p.id])
       /\ Range(sent[p.id]) \cap torn[p.id] = {} /\ Range(sent[p.id]) \cup torn[p.id] = 1..g
  BY <1>2, <1>8, <1>9, NothingInFlight DEF Handed
<1>11. PICK k \in Nat : k = old.total - g
  BY <1>10
<1>12. PICK m \in Nat : m = Less(old.size, k) /\ m <= k
  BY <1>10, <1>11 DEF Less
<1>13. page = Block(g, m) /\ Rest(old.remaining, old.size) = Block(g + m, k - m)
  <2>1. old.remaining = Block(g, k) /\ old.size \in Nat
    BY <1>10, <1>11
  <2> HIDE DEF old
  <2>2. /\ Page(Block(g, k), old.size) = Block(g, Less(old.size, k))
        /\ Rest(Block(g, k), old.size) = Block(g + Less(old.size, k), k - Less(old.size, k))
    BY <2>1, BlockPages
  <2> QED BY <1>12, <2>1, <2>2
<1>14. Range(Block(g, m)) = (g + 1)..(g + m)
  BY BlockRange
<1>15. sent = [id \in Ids |-> sent[id]] /\ torn = [id \in Ids |-> torn[id]]
  BY DEF CursorInv, Types, HitsInv
<1> HIDE DEF old, page
<1>16. /\ \A id \in Ids \ {p.id} : sent'[id] = sent[id] /\ torn'[id] = torn[id]
       /\ torn' = [id \in Ids |-> torn'[id]]
       /\ \/ sent'[p.id] = sent[p.id] \o Block(g, m) /\ torn'[p.id] = torn[p.id]
          \/ sent'[p.id] = sent[p.id] /\ torn'[p.id] = torn[p.id] \cup (g + 1)..(g + m)
  <2>1. CASE rendered
    BY <1>1, <1>5, <1>13, <1>15, <2>1 DEF Deliver
  <2>2. CASE ~rendered
    BY <1>1, <1>5, <1>13, <1>14, <1>15, <2>2 DEF Deliver
  <2> QED BY <2>1, <2>2
<1>17. ASSUME NEW id \in Ids, id = p.id PROVE Handed(id, g + m)'
  <2>1. InFlight(id)' = {}
    <3>1. \A q \in Request : ~FirstOf(q, id)'
      BY <1>3, <1>8, <1>17 DEF FirstOf
    <3>2. {q \in Request : pending'[q] # None /\ pending'[q].op = "first" /\ pending'[q].id = id} = {}
      BY <3>1 DEF FirstOf
    <3> QED BY <3>2 DEF InFlight
  <2>2. /\ sent[id] \o Block(g, m) \in Seq(1..(g + m)) /\ Growing(sent[id] \o Block(g, m))
        /\ Range(sent[id] \o Block(g, m)) = Range(sent[id]) \cup (g + 1)..(g + m)
    BY <1>10, <1>17, BlockFollows
  <2>3. 1..(g + m) = (1..g) \cup (g + 1)..(g + m) /\ (1..g) \cap ((g + 1)..(g + m)) = {}
    OBVIOUS
  <2>4. sent[id] \in Seq(1..(g + m))
    BY <1>10, <1>17, <2>3
  <2>5. /\ sent'[id] \in Seq(1..(g + m)) /\ Growing(sent'[id])
        /\ Range(sent'[id]) \cap torn'[id] = {} /\ Range(sent'[id]) \cup torn'[id] = 1..(g + m)
    <3>1. CASE sent'[id] = sent[id] \o Block(g, m) /\ torn'[id] = torn[id]
      BY <1>10, <1>17, <2>2, <2>3, <3>1
    <3>2. CASE sent'[id] = sent[id] /\ torn'[id] = torn[id] \cup (g + 1)..(g + m)
      BY <1>10, <1>17, <2>3, <2>4, <3>2
    <3> QED BY <1>16, <1>17, <3>1, <3>2
  <2>6. /\ scrolls'[id].size \in Nat /\ scrolls'[id].total \in Nat /\ g + m <= scrolls'[id].total
        /\ scrolls'[id].remaining = Block(g + m, scrolls'[id].total - (g + m))
    <3>1. k - m = old.total - (g + m) /\ g + m <= old.total
      BY <1>10, <1>11, <1>12
    <3> QED BY <1>6, <1>10, <1>13, <1>17, <3>1
  <2> QED BY <2>1, <2>5, <2>6 DEF Handed
<1>18. ASSUME NEW id \in Ids, id # p.id PROVE \E x \in Nat : Handed(id, x)'
  <2>1. PICK x \in Nat : Handed(id, x)
    BY DEF HitsInv
  <2>2. \A q \in Request : (FirstOf(q, id) <=> FirstOf(q, id)') /\ (FirstOf(q, id) => pending'[q] = pending[q])
    BY <1>1, <1>3 DEF FirstOf
  <2>3. Handed(id, x)'
    BY <1>7, <1>16, <1>18, <2>1, <2>2, InFlightSame, HandedStays
  <2> QED BY <2>3
<1>19. \A id \in Ids : \E x \in Nat : Handed(id, x)'
  BY <1>17, <1>18
<1>20. \A q \in Request : Waiting(q, {"open", "first"})' =>
          /\ pending'[q].size \in Nat /\ \E i \in Nat : pending'[q].hits = Block(0, i)
          /\ pending'[q].id \in Ids => FreshThen(pending'[q].id)
  <2> SUFFICES ASSUME NEW q \in Request, Waiting(q, {"open", "first"})'
               PROVE  /\ pending'[q].size \in Nat /\ \E i \in Nat : pending'[q].hits = Block(0, i)
                      /\ pending'[q].id \in Ids => FreshThen(pending'[q].id)
    OBVIOUS
  <2>1. q # r /\ pending'[q] = pending[q] /\ Waiting(q, {"open", "first"})
    BY <1>3 DEF Waiting
  <2>2. pending[q].id # p.id
    BY <1>1, <2>1 DEF CursorInv, PendingOK, Waiting
  <2>3. /\ pending[q].size \in Nat /\ \E i \in Nat : pending[q].hits = Block(0, i)
        /\ pending[q].id \in Ids => Fresh(pending[q].id)
    BY <2>1 DEF HitsInv
  <2>4. pending[q].id \in Ids => FreshThen(pending[q].id)
    BY <1>16, <2>2, <2>3 DEF Fresh, FreshThen
  <2> QED BY <2>1, <2>3, <2>4
<1>21. \A id \in Ids : id > counter' => Fresh(id)'
  <2> SUFFICES ASSUME NEW id \in Ids, id > counter PROVE Fresh(id)'
    BY <1>1
  <2>1. id # p.id /\ Fresh(id)
    BY <1>1, <1>4 DEF HitsInv, Ids
  <2> QED BY <1>16, <2>1 DEF Fresh
<1>22. \A id : FreshThen(id) <=> Fresh(id)'
  BY DEF Fresh, FreshThen
<1> QED BY <1>16, <1>19, <1>20, <1>21, <1>22 DEF HitsInv

LEMMA HitsNext == CursorInv /\ HitsInv /\ [Next]_vars => HitsInv'
<1> SUFFICES ASSUME CursorInv, HitsInv, [Next]_vars PROVE HitsInv'
  OBVIOUS
<1>1. CASE UNCHANGED vars
  BY <1>1, QuietHits, ConstantsAssumption DEF vars, histories, CursorInv, Types
<1>2. CASE Next
  BY <1>2, NewScrollHits, AnswerOpenHits, ServePageHits, OtherHits
<1> QED BY <1>1, <1>2

LEMMA HitsInit == Init => HitsInv
<1> SUFFICES ASSUME Init PROVE HitsInv
  OBVIOUS
<1>1. ASSUME NEW id \in Ids PROVE Handed(id, 0)
  <2>1. InFlight(id) = {}
    BY NothingInFlight DEF Init, FirstOf
  <2>2. sent[id] = <<>> /\ torn[id] = {} /\ id \notin DOMAIN scrolls
    BY DEF Init
  <2>3. Growing(<<>>) /\ <<>> \in Seq(1..0) /\ Range(<<>>) = {} /\ 1..0 = {}
    BY DEF Growing, Range
  <2> QED BY <2>1, <2>2, <2>3 DEF Handed
<1>2. \A id \in Ids : Fresh(id)
  BY DEF Init, Fresh
<1>3. torn = [id \in Ids |-> torn[id]]
  BY DEF Init
<1>4. \A r \in Request : ~Waiting(r, {"open", "first"})
  BY DEF Init, Waiting
<1> QED BY <1>1, <1>2, <1>3, <1>4 DEF HitsInv

LEMMA HandedInOrder == HitsInv => HitsInOrder
<1> SUFFICES ASSUME HitsInv, NEW id \in Ids
             PROVE  LET gone == Range(sent[id]) \cup torn[id] \cup InFlight(id)
                    IN /\ \A i, j \in DOMAIN sent[id] : i < j => sent[id][i] < sent[id][j]
                       /\ Range(sent[id]) \cap torn[id] = {}
                       /\ gone = 1..Cardinality(gone)
                       /\ id \in DOMAIN scrolls =>
                            scrolls[id].remaining
                              = [i \in 1..(scrolls[id].total - Cardinality(gone)) |-> Cardinality(gone) + i]
  BY DEF HitsInOrder
<1>1. PICK g \in Nat : Handed(id, g)
  BY DEF HitsInv
<1>2. Cardinality(1..g) = g
  BY FS_Interval
<1> QED BY <1>1, <1>2 DEF Handed, Growing, Block

\* The pages of a scroll hand out its hits in order and each once, for any
\* number of clients, pages of any size and however many of them fail to render
\* (Scroll, newScroll).
THEOREM HitsHandedOut == Spec => []HitsInOrder
<1>1. Init => CursorInv /\ HitsInv
  BY CursorInit, HitsInit
<1>2. CursorInv /\ HitsInv /\ [Next]_vars => CursorInv' /\ HitsInv'
  BY CursorNext, HitsNext
<1> QED BY <1>1, <1>2, HandedInOrder, PTL DEF Spec

-----------------------------------------------------------------------------
(* Pages: orders and what they arrange. *)

(* Induction for sets of numbers.                                          *)
LEMMA Induct ==
    ASSUME NEW S, 0 \in S, \A n \in Nat : n \in S => n + 1 \in S
    PROVE  \A n \in Nat : n \in S
  <1> DEFINE T == Nat \ S
  <1> SUFFICES ASSUME T # {} PROVE FALSE
    OBVIOUS
  <1>1. PICK m \in T : \A x \in T : <<x, m>> \notin OpToRel(<, Nat)
    BY NatLessThanWellFounded, WFMin
  <1>2. \A x \in T : ~(x < m) BY <1>1 DEF OpToRel
  <1>3. m # 0 BY <1>1
  <1>4. m - 1 \in Nat /\ m - 1 < m /\ (m - 1) + 1 = m BY <1>3
  <1>5. m - 1 \in S BY <1>2, <1>4
  <1>6. m \in S BY <1>4, <1>5
  <1> QED BY <1>1, <1>6

\* R orders the members of S strictly and completely
Orders(R, S) ==
    /\ \A x \in S : <<x, x>> \notin R
    /\ \A x, y, z \in S : <<x, y>> \in R /\ <<y, z>> \in R => <<x, z>> \in R
    /\ \A x, y \in S : x = y \/ <<x, y>> \in R \/ <<y, x>> \in R

\* s has the members of S in the order of R
Arranges(s, S, R) ==
    /\ s \in [1..Cardinality(S) -> S]
    /\ \A x \in S : \E n \in 1..Cardinality(S) : s[n] = x
    /\ \A m, n \in 1..Cardinality(S) : m < n => <<s[m], s[n]>> \in R

(* A part with as many members is the whole.                               *)
LEMMA Smaller ==
    ASSUME NEW S, IsFiniteSet(S), NEW T \in SUBSET S, NEW x \in S, x \notin T
    PROVE  IsFiniteSet(T) /\ Cardinality(T) \in Nat /\ Cardinality(S) \in Nat /\ Cardinality(T) < Cardinality(S)
  <1>1. IsFiniteSet(T) /\ Cardinality(T) <= Cardinality(S) /\ (Cardinality(T) = Cardinality(S) => S = T)
    BY FS_Subset
  <1>2. Cardinality(T) \in Nat /\ Cardinality(S) \in Nat BY <1>1, FS_CardinalityType
  <1> QED BY <1>1, <1>2

(* The members of a finite set that an order arranges.                     *)
LEMMA InOrderArranges ==
    ASSUME NEW S, IsFiniteSet(S), NEW R, Orders(R, S)
    PROVE  Arranges(InOrder(S, R), S, R)
  <1> DEFINE c == Cardinality(S)
             Below(x) == {y \in S : <<y, x>> \in R}
             rank == [x \in S |-> Cardinality(Below(x)) + 1]
  <1>0. c \in Nat BY FS_CardinalityType
  <1>1. \A x \in S : Cardinality(Below(x)) \in Nat /\ Cardinality(Below(x)) < c
    <2> SUFFICES ASSUME NEW x \in S PROVE Cardinality(Below(x)) \in Nat /\ Cardinality(Below(x)) < c
      OBVIOUS
    <2>1. Below(x) \in SUBSET S /\ x \notin Below(x) BY DEF Orders
    <2> HIDE DEF Below
    <2> QED BY <2>1, Smaller
  <1>2. rank \in [S -> 1..c]
    <2> HIDE DEF Below, c
    <2> QED BY <1>0, <1>1
  <1>3. \A x, y \in S : <<x, y>> \in R => rank[x] < rank[y]
    <2> SUFFICES ASSUME NEW x \in S, NEW y \in S, <<x, y>> \in R PROVE rank[x] < rank[y]
      OBVIOUS
    <2>1. Below(x) \in SUBSET Below(y) /\ x \in Below(y) /\ x \notin Below(x) BY DEF Orders
    <2>2. IsFiniteSet(Below(y)) BY FS_Subset
    <2> HIDE DEF Below
    <2>3. Cardinality(Below(x)) < Cardinality(Below(y)) BY <2>1, <2>2, Smaller
    <2> QED BY <1>1, <2>3
  <1> HIDE DEF rank
  <1>4. \A x, y \in S : rank[x] = rank[y] => x = y
    <2> SUFFICES ASSUME NEW x \in S, NEW y \in S, rank[x] = rank[y] PROVE x = y
      OBVIOUS
    <2>1. rank[x] \in Nat /\ rank[y] \in Nat BY <1>2
    <2>2. <<x, y>> \notin R /\ <<y, x>> \notin R BY <1>3, <2>1
    <2> QED BY <2>2 DEF Orders
  <1>5. rank \in Injection(S, 1..c) BY <1>2, <1>4 DEF Injection, IsInjective
  <1>6. IsFiniteSet(1..c) /\ Cardinality(1..c) = c BY <1>0, FS_Interval
  <1>7. rank \in Surjection(S, 1..c)
    <2> HIDE DEF c
    <2> QED BY <1>5, <1>6, FS_Injection DEF c
  <1>8. \A n \in 1..c : \E x \in S : rank[x] = n
    <2> HIDE DEF c, Below
    <2> QED BY <1>7 DEF Surjection
  <1> DEFINE s == InOrder(S, R)
             nth(n) == CHOOSE x \in S : Cardinality(Below(x)) = n - 1
  <1>a. s = [n \in 1..c |-> nth(n)] BY DEF InOrder
  <1> HIDE DEF s, nth, c
  <1>9. DOMAIN s = 1..c /\ s = [n \in 1..c |-> s[n]] /\ \A n \in 1..c : s[n] = nth(n) BY <1>a
  <1>10. \A n \in 1..c : s[n] \in S /\ rank[s[n]] = n
    <2> SUFFICES ASSUME NEW n \in 1..c PROVE s[n] \in S /\ rank[s[n]] = n
      OBVIOUS
    <2>1. s[n] = CHOOSE x \in S : Cardinality(Below(x)) = n - 1 BY <1>9 DEF nth
    <2>2. \A x \in S : rank[x] = n <=> Cardinality(Below(x)) = n - 1
      BY <1>0, <1>1 DEF rank
    <2>3. \E x \in S : Cardinality(Below(x)) = n - 1 BY <1>8, <2>2
    <2> HIDE DEF s, Below
    <2> QED BY <2>1, <2>2, <2>3
  <1> HIDE DEF Below
  <1>11. s \in [1..c -> S] BY <1>9, <1>10
  <1>12. \A x \in S : \E n \in 1..c : s[n] = x
    <2> SUFFICES ASSUME NEW x \in S PROVE \E n \in 1..c : s[n] = x
      OBVIOUS
    <2>1. rank[x] \in 1..c BY <1>2
    <2>2. s[rank[x]] = x BY <1>4, <1>10, <2>1
    <2> QED BY <2>1, <2>2
  <1>13. \A m, n \in 1..c : m < n => <<s[m], s[n]>> \in R
    <2> SUFFICES ASSUME NEW m \in 1..c, NEW n \in 1..c, m < n PROVE <<s[m], s[n]>> \in R
      OBVIOUS
    <2>1. s[m] \in S /\ s[n] \in S /\ rank[s[m]] = m /\ rank[s[n]] = n BY <1>10
    <2>2. s[m] # s[n] BY <2>1
    <2>3. <<s[n], s[m]>> \notin R BY <1>3, <2>1
    <2> QED BY <2>1, <2>2, <2>3 DEF Orders
  <1> QED BY <1>11, <1>12, <1>13 DEF Arranges, s, c

(* Nothing is arranged twice.                                              *)
LEMMA ArrangedOnce ==
    ASSUME NEW S, IsFiniteSet(S), NEW R, Orders(R, S), NEW s, Arranges(s, S, R)
    PROVE  \A m, n \in 1..Cardinality(S) : s[m] = s[n] => m = n
  <1> SUFFICES ASSUME NEW m \in 1..Cardinality(S), NEW n \in 1..Cardinality(S), s[m] = s[n]
               PROVE  m = n
    OBVIOUS
  <1>1. s[m] \in S BY DEF Arranges
  <1>2. ~(m < n) /\ ~(n < m) BY <1>1 DEF Arranges, Orders
  <1>3. Cardinality(S) \in Nat BY FS_CardinalityType
  <1>4. m \in Nat /\ n \in Nat BY <1>3
  <1> QED BY <1>2, <1>4

(* The entries of T that are picked from an arrangement of S.              *)
LEMMA PickedArranges ==
    ASSUME NEW S, IsFiniteSet(S), NEW R, Orders(R, S), NEW s, Arranges(s, S, R),
           NEW T \in SUBSET S, NEW I, I = {n \in DOMAIN s : s[n] \in T}
    PROVE  Arranges(Picked(s, I), T, R) /\ IsFiniteSet(T)
  <1> DEFINE c == Cardinality(S)
             less == {x \in I \X I : x[1] < x[2]}
             at == InOrder(I, less)
             p == Picked(s, I)
  <1>1. c \in Nat BY FS_CardinalityType
  <1>2. DOMAIN s = 1..c /\ s \in [1..c -> S] BY DEF Arranges
  <1>3. I \in SUBSET (1..c) /\ I \in SUBSET Nat /\ (\A n \in I : s[n] \in T) BY <1>1, <1>2
  <1>4. IsFiniteSet(I)
    <2>1. IsFiniteSet(1..c) BY <1>1, FS_Interval
    <2> HIDE DEF c
    <2> QED BY <1>3, <2>1, FS_Subset
  <1>5. \A x, y : <<x, y>> \in less <=> x \in I /\ y \in I /\ x < y OBVIOUS
  <1> HIDE DEF less
  <1>6. Orders(less, I)
    <2>1. \A x \in I : <<x, x>> \notin less BY <1>3, <1>5
    <2>2. \A x, y, z \in I : <<x, y>> \in less /\ <<y, z>> \in less => <<x, z>> \in less BY <1>3, <1>5
    <2>3. \A x, y \in I : x = y \/ <<x, y>> \in less \/ <<y, x>> \in less
      <3> SUFFICES ASSUME NEW x \in I, NEW y \in I PROVE x = y \/ <<x, y>> \in less \/ <<y, x>> \in less
        OBVIOUS
      <3>1. x \in Nat /\ y \in Nat BY <1>3
      <3>2. x = y \/ x < y \/ y < x BY <3>1
      <3> QED BY <1>5, <3>2
    <2> QED BY <2>1, <2>2, <2>3 DEF Orders
  <1>7. Arranges(at, I, less) BY <1>4, <1>6, InOrderArranges
  <1>8. p = [n \in DOMAIN at |-> s[at[n]]] BY DEF Picked, less
  <1>9. \A m, n \in 1..c : s[m] = s[n] => m = n BY ArrangedOnce
  <1>10. Cardinality(T) = Cardinality(I) /\ IsFiniteSet(T)
    <2> DEFINE f == [n \in I |-> s[n]]
    <2>1. f \in Injection(I, T)
      <3>1. f \in [I -> T] BY <1>3
      <3>2. \A m, n \in I : f[m] = f[n] => m = n BY <1>3, <1>9
      <3> HIDE DEF f
      <3> QED BY <3>1, <3>2 DEF Injection, IsInjective
    <2>2. f \in Surjection(I, T)
      <3>1. \A x \in T : \E n \in I : f[n] = x
        <4> SUFFICES ASSUME NEW x \in T PROVE \E n \in I : f[n] = x
          OBVIOUS
        <4>1. PICK n \in 1..c : s[n] = x BY DEF Arranges
        <4>2. n \in I BY <1>2, <4>1
        <4> QED BY <4>1, <4>2
      <3>2. f \in [I -> T] BY <1>3
      <3> HIDE DEF f
      <3> QED BY <3>1, <3>2 DEF Surjection
    <2>3. f \in Bijection(I, T) BY <2>1, <2>2 DEF Bijection
    <2>4. ExistsBijection(I, T) BY <2>3 DEF ExistsBijection
    <2>5. IsFiniteSet(T) BY FS_Subset
    <2> HIDE DEF f
    <2> QED BY <1>4, <2>4, <2>5, FS_Bijection
  <1> DEFINE k == Cardinality(T)
  <1>11. /\ at \in [1..k -> I]
         /\ \A x \in I : \E n \in 1..k : at[n] = x
         /\ \A m, n \in 1..k : m < n => at[m] < at[n]
    BY <1>5, <1>7, <1>10 DEF Arranges
  <1> HIDE DEF at, k, c, p
  <1>12. p = [n \in 1..k |-> s[at[n]]] BY <1>8, <1>11
  <1>13. p \in [1..k -> T] BY <1>3, <1>11, <1>12
  <1>14. \A x \in T : \E n \in 1..k : p[n] = x
    <2> SUFFICES ASSUME NEW x \in T PROVE \E n \in 1..k : p[n] = x
      OBVIOUS
    <2>1. PICK j \in 1..c : s[j] = x BY DEF Arranges, c
    <2>2. j \in I BY <1>2, <2>1
    <2>3. PICK n \in 1..k : at[n] = j BY <1>11, <2>2
    <2> QED BY <1>12, <2>1, <2>3
  <1>15. \A m, n \in 1..k : m < n => <<p[m], p[n]>> \in R
    <2> SUFFICES ASSUME NEW m \in 1..k, NEW n \in 1..k, m < n PROVE <<p[m], p[n]>> \in R
      OBVIOUS
    <2>1. at[m] \in 1..c /\ at[n] \in 1..c /\ at[m] < at[n] BY <1>3, <1>11
    <2>2. <<s[at[m]], s[at[n]]>> \in R BY <2>1 DEF Arranges, c
    <2> QED BY <1>12, <2>2
  <1> QED BY <1>10, <1>13, <1>14, <1>15 DEF Arranges, k, p

-----------------------------------------------------------------------------
(* The orders of keys, tuples and hits. *)

\* a field of a sort
SortField == [field : {"value", "_shard_doc", "_id"}, desc : BOOLEAN, missing : {"_first", "_last", "default"}]

\* hits of finitely many documents, each with a sequence number of its own
Tidy(all) ==
    /\ all \subseteq Hit /\ IsFiniteSet(all)
    /\ \A g, h \in all : g.index = h.index /\ g.seqNo = h.seqNo => g = h

(* Keys are ordered completely, a missing one first or last.               *)
LEMMA SortKeysOrdered ==
    ASSUME NEW s \in SortField
    PROVE  /\ \A a \in Key : ~compareKeysLess(a, a, s)
           /\ \A a, b, c \in Key : compareKeysLess(a, b, s) /\ compareKeysLess(b, c, s) => compareKeysLess(a, c, s)
           /\ \A a, b \in Key : a = b \/ compareKeysLess(a, b, s) \/ compareKeysLess(b, a, s)
  <1>0. Missing \notin Int /\ s.desc \in BOOLEAN BY SearchAssumption DEF SortField
  <1>1. \A a \in Key : ~compareKeysLess(a, a, s) BY <1>0 DEF keyLess, compareKeysLess, Key
  <1>2. \A a, b, c \in Key : compareKeysLess(a, b, s) /\ compareKeysLess(b, c, s) => compareKeysLess(a, c, s)
    BY <1>0 DEF keyLess, compareKeysLess, Key
  <1>3. \A a, b \in Key : a = b \/ compareKeysLess(a, b, s) \/ compareKeysLess(b, a, s)
    BY <1>0 DEF keyLess, compareKeysLess, Key
  <1> QED BY <1>1, <1>2, <1>3

(* So are the values of buckets.                                           *)
LEMMA BucketsOrdered ==
    ASSUME NEW s \in SortField
    PROVE  /\ \A a \in Key : ~compositeLess(a, a, s)
           /\ \A a, b, c \in Key : compositeLess(a, b, s) /\ compositeLess(b, c, s) => compositeLess(a, c, s)
           /\ \A a, b \in Key : a = b \/ compositeLess(a, b, s) \/ compositeLess(b, a, s)
  <1>0. Missing \notin Int /\ s.desc \in BOOLEAN BY SearchAssumption DEF SortField
  <1>1. \A a \in Key : ~compositeLess(a, a, s) BY <1>0 DEF keyLess, compositeLess, Key
  <1>2. \A a, b, c \in Key : compositeLess(a, b, s) /\ compositeLess(b, c, s) => compositeLess(a, c, s)
    BY <1>0 DEF keyLess, compositeLess, Key
  <1>3. \A a, b \in Key : a = b \/ compositeLess(a, b, s) \/ compositeLess(b, a, s)
    BY <1>0 DEF keyLess, compositeLess, Key
  <1> QED BY <1>1, <1>2, <1>3

(* Two tuples that differ have a first key in which they do.               *)
LEMMA FirstDifference ==
    ASSUME NEW m \in Nat, NEW t, NEW u, \E k \in 1..m : t[k] # u[k]
    PROVE  \E k \in 1..m : t[k] # u[k] /\ \A j \in 1..(k - 1) : t[j] = u[j]
  <1> DEFINE S == {n \in Nat : \A k \in 1..n : k <= m => t[k] = u[k]}
  <1> SUFFICES ASSUME ~\E k \in 1..m : t[k] # u[k] /\ \A j \in 1..(k - 1) : t[j] = u[j]
               PROVE  FALSE
    OBVIOUS
  <1>1. 0 \in S OBVIOUS
  <1>2. \A n \in Nat : n \in S => n + 1 \in S
    <2> SUFFICES ASSUME NEW n \in Nat, n \in S, NEW k \in 1..(n + 1), k <= m PROVE t[k] = u[k]
      OBVIOUS
    <2>1. CASE k \in 1..n BY <2>1
    <2>2. CASE k = n + 1
      <3>1. \A j \in 1..(k - 1) : t[j] = u[j] BY <2>2
      <3>2. k \in 1..m OBVIOUS
      <3> QED BY <3>1, <3>2
    <2> QED BY <2>1, <2>2
  <1> HIDE DEF S
  <1>3. m \in S BY <1>1, <1>2, Induct
  <1> QED BY <1>3 DEF S

(* The tuples of a sort are ordered strictly and completely                *)
(* (compareTuples).                                                        *)
LEMMA TuplesOrdered ==
    ASSUME NEW sort \in Seq(SortField)
    PROVE  /\ \A t \in [DOMAIN sort -> Key] : ~TupleLess(t, t, sort)
           /\ \A t, u, w \in [DOMAIN sort -> Key] :
                TupleLess(t, u, sort) /\ TupleLess(u, w, sort) => TupleLess(t, w, sort)
           /\ \A t, u \in [DOMAIN sort -> Key] : t = u \/ TupleLess(t, u, sort) \/ TupleLess(u, t, sort)
  <1> DEFINE m == Len(sort)
             D == DOMAIN sort
  <1>1. m \in Nat /\ D = 1..m /\ \A k \in D : sort[k] \in SortField OBVIOUS
  <1> HIDE DEF m
  <1>2. \A t \in [D -> Key] : ~TupleLess(t, t, sort)
    <2> SUFFICES ASSUME NEW t \in [D -> Key], NEW k \in D PROVE ~compareKeysLess(t[k], t[k], sort[k])
      BY DEF TupleLess
    <2>1. t[k] \in Key OBVIOUS
    <2> QED BY <1>1, <2>1, SortKeysOrdered
  <1>3. \A t, u, w \in [D -> Key] : TupleLess(t, u, sort) /\ TupleLess(u, w, sort) => TupleLess(t, w, sort)
    <2> SUFFICES ASSUME NEW t \in [D -> Key], NEW u \in [D -> Key], NEW w \in [D -> Key],
                        TupleLess(t, u, sort), TupleLess(u, w, sort)
                 PROVE  TupleLess(t, w, sort)
      OBVIOUS
    <2>1. PICK k \in D : compareKeysLess(t[k], u[k], sort[k]) /\ \A j \in 1..(k - 1) : t[j] = u[j] BY DEF TupleLess
    <2>2. PICK l \in D : compareKeysLess(u[l], w[l], sort[l]) /\ \A j \in 1..(l - 1) : u[j] = w[j] BY DEF TupleLess
    <2>3. k \in Nat /\ l \in Nat BY <1>1
    <2>4. CASE k < l
      <3>1. k \in 1..(l - 1) BY <1>1, <2>3, <2>4
      <3>2. compareKeysLess(t[k], w[k], sort[k]) BY <2>1, <2>2, <3>1
      <3>3. \A j \in 1..(k - 1) : t[j] = w[j] BY <2>1, <2>2, <2>3, <2>4
      <3> QED BY <3>2, <3>3 DEF TupleLess
    <2>5. CASE l < k
      <3>1. l \in 1..(k - 1) BY <1>1, <2>3, <2>5
      <3>2. compareKeysLess(t[l], w[l], sort[l]) BY <2>1, <2>2, <3>1
      <3>3. \A j \in 1..(l - 1) : t[j] = w[j] BY <2>1, <2>2, <2>3, <2>5
      <3> QED BY <3>2, <3>3 DEF TupleLess
    <2>6. CASE k = l
      <3>1. t[k] \in Key /\ u[k] \in Key /\ w[k] \in Key OBVIOUS
      <3>2. compareKeysLess(t[k], w[k], sort[k]) BY <1>1, <2>1, <2>2, <2>6, <3>1, SortKeysOrdered
      <3>3. \A j \in 1..(k - 1) : t[j] = w[j] BY <2>1, <2>2, <2>6
      <3> QED BY <3>2, <3>3 DEF TupleLess
    <2> QED BY <2>3, <2>4, <2>5, <2>6
  <1>4. \A t, u \in [D -> Key] : t = u \/ TupleLess(t, u, sort) \/ TupleLess(u, t, sort)
    <2> SUFFICES ASSUME NEW t \in [D -> Key], NEW u \in [D -> Key], t # u
                 PROVE  TupleLess(t, u, sort) \/ TupleLess(u, t, sort)
      OBVIOUS
    <2>1. \E k \in 1..m : t[k] # u[k]
      <3>1. t = [k \in D |-> t[k]] /\ u = [k \in D |-> u[k]] OBVIOUS
      <3> QED BY <1>1, <3>1
    <2>2. PICK k \in 1..m : t[k] # u[k] /\ \A j \in 1..(k - 1) : t[j] = u[j] 
      <3>1. m \in Nat BY <1>1
      <3>2. \A x, y : (\E k \in 1..m : x[k] # y[k]) => \E k \in 1..m : x[k] # y[k] /\ \A j \in 1..(k - 1) : x[j] = y[j]
        BY <3>1, FirstDifference
      <3> QED BY <2>1, <3>2
    <2>3. t[k] \in Key /\ u[k] \in Key /\ sort[k] \in SortField BY <1>1
    <2>4. compareKeysLess(t[k], u[k], sort[k]) \/ compareKeysLess(u[k], t[k], sort[k]) BY <2>2, <2>3, SortKeysOrdered
    <2> QED BY <1>1, <2>2, <2>4 DEF TupleLess
  <1> QED BY <1>2, <1>3, <1>4

(* A hit's tuple has a key for every field of the sort.                    *)
LEMMA TupleKeys ==
    ASSUME NEW all, IsFiniteSet(all), NEW sort \in Seq(SortField), NEW h \in Hit
    PROVE  Tuple(h, sort, all) \in [DOMAIN sort -> Key]
  <1> SUFFICES ASSUME NEW k \in DOMAIN sort PROVE SortKey(h, sort[k], all) \in Key
    BY DEF Tuple
  <1>1. sort[k] \in SortField OBVIOUS
  <1>2. h.value \in Key /\ h.id \in Key /\ h.shard \in Nat 
    <2>1. Id \subseteq Nat /\ Value \subseteq Nat BY SearchAssumption
    <2>2. h.value \in Value \union {Missing} /\ h.id \in Id /\ h.shard \in Nat BY DEF Hit
    <2>3. h.id \in Nat /\ (h.value \in Nat \/ h.value = Missing) BY <2>1, <2>2
    <2> QED BY <2>2, <2>3 DEF Key
  <1>3. shardDocOrdinal(h, all) \in Nat
    <2> DEFINE before == {o \in all : o.index = h.index /\ o.shard = h.shard /\ o.seqNo < h.seqNo}
    <2>1. IsFiniteSet(before) BY FS_Subset
    <2> HIDE DEF before
    <2>2. Cardinality(before) \in Nat BY <2>1, FS_CardinalityType
    <2>3. Cardinality(Id) \in Nat BY SearchAssumption, FS_CardinalityType
    <2>4. h.shard * (Cardinality(Id) + 1) \in Nat BY <1>2, <2>3
    <2>5. h.shard * (Cardinality(Id) + 1) + Cardinality(before) \in Nat BY <2>2, <2>4
    <2> QED BY <2>5 DEF shardDocOrdinal, before
  <1>4. sort[k].field \in {"value", "_shard_doc", "_id"} BY <1>1 DEF SortField
  <1> QED BY <1>2, <1>3, <1>4 DEF SortKey, Key

(* Index and sequence number order the hits strictly and completely: ties  *)
(* are always broken.                                                      *)
LEMMA CollectedOrdered ==
    ASSUME NEW all, Tidy(all)
    PROVE  /\ \A h \in Hit : ~CollectedLess(h, h)
           /\ \A g, h, o \in Hit : CollectedLess(g, h) /\ CollectedLess(h, o) => CollectedLess(g, o)
           /\ \A g, h \in all : g = h \/ CollectedLess(g, h) \/ CollectedLess(h, g)
  <1>1. \A h \in Hit : h.index \in Index /\ h.seqNo \in Nat /\ IndexOrder[h.index] \in Nat
    BY SearchAssumption DEF Hit
  <1>2. \A h \in Hit : ~CollectedLess(h, h) BY <1>1 DEF CollectedLess
  <1>3. \A g, h, o \in Hit : CollectedLess(g, h) /\ CollectedLess(h, o) => CollectedLess(g, o)
    <2> SUFFICES ASSUME NEW g \in Hit, NEW h \in Hit, NEW o \in Hit, CollectedLess(g, h), CollectedLess(h, o)
                 PROVE  CollectedLess(g, o)
      OBVIOUS
    <2>1. /\ IndexOrder[g.index] \in Nat /\ IndexOrder[h.index] \in Nat /\ IndexOrder[o.index] \in Nat
          /\ g.seqNo \in Nat /\ h.seqNo \in Nat /\ o.seqNo \in Nat
      BY <1>1
    <2> QED BY <2>1 DEF CollectedLess
  <1>4. \A g, h \in all : g = h \/ CollectedLess(g, h) \/ CollectedLess(h, g)
    <2> SUFFICES ASSUME NEW g \in all, NEW h \in all, g # h PROVE CollectedLess(g, h) \/ CollectedLess(h, g)
      OBVIOUS
    <2>1. g \in Hit /\ h \in Hit BY DEF Tidy
    <2>2. CASE g.index = h.index
      <3>1. g.seqNo # h.seqNo BY <2>2 DEF Tidy
      <3> QED BY <1>1, <2>1, <2>2, <3>1 DEF CollectedLess
    <2>3. CASE g.index # h.index
      <3>1. IndexOrder[g.index] # IndexOrder[h.index] BY <1>1, <2>1, <2>3, SearchAssumption DEF IsInjective
      <3>2. IndexOrder[g.index] \in Nat /\ IndexOrder[h.index] \in Nat BY <1>1, <2>1
      <3> QED BY <3>1, <3>2 DEF CollectedLess
    <2> QED BY <2>2, <2>3
  <1> QED BY <1>2, <1>3, <1>4

\* the order of the hits of a search as a relation
Before(S, sort, all) == {x \in S \X S : compareHitsLess(x[1], x[2], sort, all)}

(* So compareHitsLess orders the hits of a search strictly and completely. *)
LEMMA HitsOrdered ==
    ASSUME NEW all, Tidy(all), NEW sort \in Seq(SortField), NEW S \in SUBSET all
    PROVE  /\ \A g, h : <<g, h>> \in Before(S, sort, all) <=> g \in S /\ h \in S /\ compareHitsLess(g, h, sort, all)
           /\ Orders(Before(S, sort, all), S)
           /\ IsFiniteSet(S)
  <1> DEFINE t(h) == Tuple(h, sort, all)
             less(g, h) == compareHitsLess(g, h, sort, all)
  <1>1. \A g, h : <<g, h>> \in Before(S, sort, all) <=> g \in S /\ h \in S /\ less(g, h) BY DEF Before
  <1>2. IsFiniteSet(all) /\ IsFiniteSet(S) /\ \A h \in S : h \in Hit /\ h \in all BY FS_Subset DEF Tidy
  <1>3. \A h \in S : t(h) \in [DOMAIN sort -> Key] BY <1>2, TupleKeys
  <1> HIDE DEF t
  <1>4. \A g, h : less(g, h) <=> TupleLess(t(g), t(h), sort) \/ (t(g) = t(h) /\ CollectedLess(g, h))
    BY DEF compareHitsLess, t
  <1> HIDE DEF less
  <1>5. \A h \in S : ~less(h, h) BY <1>2, <1>3, <1>4, TuplesOrdered, CollectedOrdered
  <1>6. \A g, h, o \in S : less(g, h) /\ less(h, o) => less(g, o)
    <2> SUFFICES ASSUME NEW g \in S, NEW h \in S, NEW o \in S, less(g, h), less(h, o) PROVE less(g, o)
      OBVIOUS
    <2>1. t(g) \in [DOMAIN sort -> Key] /\ t(h) \in [DOMAIN sort -> Key] /\ t(o) \in [DOMAIN sort -> Key] BY <1>3
    <2>2. TupleLess(t(g), t(h), sort) /\ TupleLess(t(h), t(o), sort) => TupleLess(t(g), t(o), sort)
      BY <2>1, TuplesOrdered
    <2>3. CollectedLess(g, h) /\ CollectedLess(h, o) => CollectedLess(g, o) BY <1>2, CollectedOrdered
    <2>4. TupleLess(t(g), t(h), sort) \/ (t(g) = t(h) /\ CollectedLess(g, h)) BY <1>4
    <2>5. TupleLess(t(h), t(o), sort) \/ (t(h) = t(o) /\ CollectedLess(h, o)) BY <1>4
    <2>6. TupleLess(t(g), t(o), sort) \/ (t(g) = t(o) /\ CollectedLess(g, o)) BY <2>2, <2>3, <2>4, <2>5
    <2> QED BY <1>4, <2>6
  <1>7. \A g, h \in S : g = h \/ less(g, h) \/ less(h, g)
    <2> SUFFICES ASSUME NEW g \in S, NEW h \in S, g # h PROVE less(g, h) \/ less(h, g)
      OBVIOUS
    <2>1. t(g) \in [DOMAIN sort -> Key] /\ t(h) \in [DOMAIN sort -> Key] BY <1>3
    <2>2. t(g) = t(h) \/ TupleLess(t(g), t(h), sort) \/ TupleLess(t(h), t(g), sort) BY <2>1, TuplesOrdered
    <2>3. CollectedLess(g, h) \/ CollectedLess(h, g) BY <1>2, CollectedOrdered
    <2> QED BY <1>4, <2>2, <2>3
  <1>8. Orders(Before(S, sort, all), S)
    <2>1. \A x \in S : <<x, x>> \notin Before(S, sort, all) BY <1>1, <1>5
    <2>2. \A x, y, z \in S : <<x, y>> \in Before(S, sort, all) /\ <<y, z>> \in Before(S, sort, all)
                               => <<x, z>> \in Before(S, sort, all)
      BY <1>1, <1>6
    <2>3. \A x, y \in S : x = y \/ <<x, y>> \in Before(S, sort, all) \/ <<y, x>> \in Before(S, sort, all)
      BY <1>1, <1>7
    <2> QED BY <2>1, <2>2, <2>3 DEF Orders
  <1> QED BY <1>1, <1>2, <1>8 DEF less

-----------------------------------------------------------------------------
(* Loops and heaps. *)

(* Sorted hits are all there, each before the worse ones.                  *)
LEMMA SortedArranges ==
    ASSUME NEW all, Tidy(all), NEW sort \in Seq(SortField), NEW S \in SUBSET all
    PROVE  Arranges(Sorted(S, sort, all), S, Before(S, sort, all))
  <1>1. Sorted(S, sort, all) = InOrder(S, Before(S, sort, all)) BY DEF Sorted, Before
  <1> QED BY <1>1, HitsOrdered, InOrderArranges

(* The same for two hits at a time.                                        *)
LEMMA LessIsAnOrder ==
    ASSUME NEW all, Tidy(all), NEW sort \in Seq(SortField)
    PROVE  /\ \A h \in all : ~compareHitsLess(h, h, sort, all)
           /\ \A g, h, o \in all : compareHitsLess(g, h, sort, all) /\ compareHitsLess(h, o, sort, all)
                                     => compareHitsLess(g, o, sort, all)
           /\ \A g, h \in all : g = h \/ compareHitsLess(g, h, sort, all) \/ compareHitsLess(h, g, sort, all)
  <1>1. /\ \A g, h : <<g, h>> \in Before(all, sort, all) <=> g \in all /\ h \in all /\ compareHitsLess(g, h, sort, all)
        /\ Orders(Before(all, sort, all), all)
    BY HitsOrdered
  <1> QED BY <1>1 DEF Orders

\* the steps of a loop lead from the states in S[n - 1] to those in S[n]
Leads(step, m, S) == \A n \in 1..m : \A s \in S[n - 1] : step[n][s] \in S[n]

\* f has what the loop computes after every step
Computes(f, m, S, a, step) ==
    /\ f = [n \in 0..m |-> f[n]]
    /\ f[0] = a
    /\ \A n \in 1..m : f[n] = step[n][f[n - 1]]
    /\ \A n \in 0..m : f[n] \in S[n]

(* What a loop computes exists.                                            *)
LEMMA Iteration ==
    ASSUME NEW m \in Nat, NEW S, NEW a, a \in S[0], NEW step, Leads(step, m, S)
    PROVE  \E f : Computes(f, m, S, a, step)
  <1> DEFINE Runs(k, f) == /\ f = [n \in 0..k |-> f[n]] /\ f[0] = a
                           /\ \A n \in 1..k : f[n] = step[n][f[n - 1]]
                           /\ \A n \in 0..k : f[n] \in S[n]
             Q == {k \in Nat : k <= m => \E f : Runs(k, f)}
  <1>1. 0 \in Q
    <2>1. Runs(0, [n \in 0..0 |-> a]) OBVIOUS
    <2> QED BY <2>1
  <1>2. \A k \in Nat : k \in Q => k + 1 \in Q
    <2> HIDE DEF Runs
    <2> SUFFICES ASSUME NEW k \in Nat, k \in Q, k + 1 <= m PROVE \E f : Runs(k + 1, f)
      OBVIOUS
    <2>a. k <= m OBVIOUS
    <2>1. PICK f : Runs(k, f) BY <2>a
    <2> USE DEF Runs
    <2> DEFINE g == [n \in 0..(k + 1) |-> IF n = k + 1 THEN step[k + 1][f[k]] ELSE f[n]]
    <2>2. g = [n \in 0..(k + 1) |-> g[n]] /\ g[0] = a BY <2>1
    <2>3. \A n \in 0..k : g[n] = f[n] OBVIOUS
    <2>4. g[k + 1] = step[k + 1][f[k]] OBVIOUS
    <2> HIDE DEF g
    <2>5. f[k] \in S[k] BY <2>1
    <2>6. g[k + 1] \in S[k + 1]
      <3>1. k + 1 \in 1..m /\ (k + 1) - 1 = k OBVIOUS
      <3>2. \A x \in S[(k + 1) - 1] : step[k + 1][x] \in S[k + 1] BY <3>1 DEF Leads
      <3> QED BY <2>4, <2>5, <3>1, <3>2
    <2>7. \A n \in 0..(k + 1) : g[n] \in S[n]
      <3> SUFFICES ASSUME NEW n \in 0..(k + 1) PROVE g[n] \in S[n]
        OBVIOUS
      <3>1. n \in 0..k \/ n = k + 1 OBVIOUS
      <3> QED BY <2>1, <2>3, <2>6, <3>1
    <2>8. \A n \in 1..(k + 1) : g[n] = step[n][g[n - 1]]
      <3> SUFFICES ASSUME NEW n \in 1..(k + 1) PROVE g[n] = step[n][g[n - 1]]
        OBVIOUS
      <3>1. CASE n \in 1..k
        <4>1. n \in 0..k /\ n - 1 \in 0..k BY <3>1
        <4> QED BY <2>1, <2>3, <3>1, <4>1
      <3>2. CASE n = k + 1
        <4>1. n - 1 = k /\ k \in 0..k BY <3>2
        <4> QED BY <2>3, <2>4, <3>2, <4>1
      <3> QED BY <3>1, <3>2
    <2> QED BY <2>2, <2>7, <2>8
  <1> HIDE DEF Q
  <1>3. m \in Q BY <1>1, <1>2, Induct
  <1> QED BY <1>3 DEF Q, Computes

\* the heap has the hits in T, each once, in n places
IsOf(heap, n, T) ==
    /\ heap \in [1..n -> T]
    /\ \A x \in T : \E i \in 1..n : heap[i] = x
    /\ \A i, j \in 1..n : heap[i] = heap[j] => i = j

\* no hit is worse than its parent
IsHeap(heap, n, sort, all) ==
    \A i \in 2..n : ~compareHitsLess(heap[i \div 2], heap[i], sort, all)

(* Where two hits change places.                                           *)
LEMMA Swapped ==
    ASSUME NEW n \in Nat, NEW T, NEW heap, IsOf(heap, n, T), NEW i \in 1..n, NEW j \in 1..n
    PROVE  /\ IsOf(Swap(heap, i, j), n, T)
           /\ Swap(heap, i, j)[i] = heap[j] /\ Swap(heap, i, j)[j] = heap[i]
           /\ \A k \in 1..n \ {i, j} : Swap(heap, i, j)[k] = heap[k]
           /\ i = j => Swap(heap, i, j) = heap
  <1> DEFINE w == Swap(heap, i, j)
  <1>1. heap \in [1..n -> T] BY DEF IsOf
  <1>2. /\ w \in [1..n -> T] /\ w[i] = heap[j] /\ w[j] = heap[i]
        /\ \A k \in 1..n \ {i, j} : w[k] = heap[k]
    BY <1>1 DEF Swap
  <1>3. i = j => w = heap BY <1>1 DEF Swap
  <1> HIDE DEF w
  <1>4. \A x \in T : \E k \in 1..n : w[k] = x
    <2> SUFFICES ASSUME NEW x \in T PROVE \E k \in 1..n : w[k] = x
      OBVIOUS
    <2>1. PICK k \in 1..n : heap[k] = x BY DEF IsOf
    <2>2. CASE k = i BY <1>2, <2>1, <2>2
    <2>3. CASE k = j BY <1>2, <2>1, <2>3
    <2>4. CASE k \in 1..n \ {i, j} BY <1>2, <2>1, <2>4
    <2> QED BY <2>2, <2>3, <2>4
  <1>5. \A k, l \in 1..n : w[k] = w[l] => k = l
    <2> DEFINE from(k) == IF k = i THEN j ELSE IF k = j THEN i ELSE k
    <2>1. \A k \in 1..n : from(k) \in 1..n /\ w[k] = heap[from(k)] BY <1>2
    <2>2. \A k, l \in 1..n : from(k) = from(l) => k = l OBVIOUS
    <2> HIDE DEF from
    <2>3. \A k, l \in 1..n : heap[k] = heap[l] => k = l BY DEF IsOf
    <2> QED BY <2>1, <2>2, <2>3
  <1> QED BY <1>2, <1>3, <1>4, <1>5 DEF IsOf, w

(* The root of a heap is the worst of its hits.                            *)
LEMMA RootIsWorst ==
    ASSUME NEW all, Tidy(all), NEW sort \in Seq(SortField), NEW T \in SUBSET all,
           NEW n \in Nat, NEW heap, IsOf(heap, n, T), IsHeap(heap, n, sort, all), NEW i \in 1..n
    PROVE  heap[i] = heap[1] \/ compareHitsLess(heap[i], heap[1], sort, all)
  <1> DEFINE less(g, h) == compareHitsLess(g, h, sort, all)
             Worst(k) == heap[k] = heap[1] \/ less(heap[k], heap[1])
             Q == {m \in Nat : \A k \in 1..m : k <= n => Worst(k)}
  <1>1. \A k \in 1..n : heap[k] \in all BY DEF IsOf
  <1>2. 0 \in Q OBVIOUS
  <1>3. \A m \in Nat : m \in Q => m + 1 \in Q
    <2> HIDE DEF Worst
    <2> SUFFICES ASSUME NEW m \in Nat, m \in Q, NEW k \in 1..(m + 1), k <= n PROVE Worst(k)
      OBVIOUS
    <2>1. CASE k <= m BY <2>1
    <2>a. \A l \in 1..m : l <= n => Worst(l) OBVIOUS
    <2> USE DEF Worst
    <2> HIDE DEF Q
    <2>2. CASE k = 1 BY <2>2
    <2>3. CASE k = m + 1 /\ k # 1
      <3>1. k \in 2..n /\ k \div 2 \in 1..m /\ k \div 2 <= n BY <2>3
      <3>2. ~less(heap[k \div 2], heap[k]) BY <3>1 DEF IsHeap
      <3>3. heap[k \div 2] = heap[1] \/ less(heap[k \div 2], heap[1]) BY <2>a, <3>1
      <3>4. heap[k] \in all /\ heap[k \div 2] \in all /\ heap[1] \in all BY <1>1, <3>1
      <3> HIDE DEF less
      <3>5. heap[k] = heap[k \div 2] \/ less(heap[k], heap[k \div 2]) BY <3>2, <3>4, LessIsAnOrder DEF less
      <3> QED BY <3>3, <3>4, <3>5, LessIsAnOrder DEF less
    <2> QED BY <2>1, <2>2, <2>3
  <1> HIDE DEF Q
  <1>4. n \in Q BY <1>2, <1>3, Induct
  <1> QED BY <1>4 DEF Q

(* Of three hits, and of a hit and itself, what is not less.               *)
LEMMA NotLess ==
    ASSUME NEW all, Tidy(all), NEW sort \in Seq(SortField)
    PROVE  /\ \A g, h \in all : compareHitsLess(g, h, sort, all) => ~compareHitsLess(h, g, sort, all)
           /\ \A g, h, o \in all : ~compareHitsLess(g, h, sort, all) /\ ~compareHitsLess(h, o, sort, all)
                                     => ~compareHitsLess(g, o, sort, all)
  <1> DEFINE less(g, h) == compareHitsLess(g, h, sort, all)
  <1>1. /\ \A h \in all : ~less(h, h)
        /\ \A g, h, o \in all : less(g, h) /\ less(h, o) => less(g, o)
        /\ \A g, h \in all : g = h \/ less(g, h) \/ less(h, g)
    BY LessIsAnOrder
  <1> HIDE DEF less
  <1>2. \A g, h \in all : less(g, h) => ~less(h, g) BY <1>1
  <1>3. \A g, h, o \in all : ~less(g, h) /\ ~less(h, o) => ~less(g, o) BY <1>1
  <1> QED BY <1>2, <1>3 DEF less

(* A loop stays where its steps go.                                        *)
LEMMA Iterated ==
    ASSUME NEW m \in Nat, NEW S, NEW f, f[0] \in S[0],
           \A n \in 1..m : f[n - 1] \in S[n - 1] => f[n] \in S[n]
    PROVE  \A n \in 0..m : f[n] \in S[n]
  <1> DEFINE Q == {n \in Nat : n <= m => f[n] \in S[n]}
  <1>1. 0 \in Q OBVIOUS
  <1>2. \A n \in Nat : n \in Q => n + 1 \in Q
    <2> SUFFICES ASSUME NEW n \in Nat, n \in Q, n + 1 <= m PROVE f[n + 1] \in S[n + 1]
      OBVIOUS
    <2>1. f[n] \in S[n] OBVIOUS
    <2>2. n + 1 \in 1..m /\ (n + 1) - 1 = n OBVIOUS
    <2> QED BY <2>1, <2>2
  <1> HIDE DEF Q
  <1>3. \A n \in Nat : n \in Q BY <1>1, <1>2, Induct
  <1> QED BY <1>3 DEF Q

\* what a place of n hits is
Spot(n, T) == [heap : [1..n -> T], at : 1..n]

\* a heap but for the hit that goes up
Rising(s, n, T, sort, all) ==
    /\ s \in Spot(n, T) /\ IsOf(s.heap, n, T)
    /\ \A i \in 2..n : i # s.at => ~compareHitsLess(s.heap[i \div 2], s.heap[i], sort, all)
    /\ \A i \in 2..n : i \div 2 = s.at /\ s.at > 1 => ~compareHitsLess(s.heap[s.at \div 2], s.heap[i], sort, all)

(* A step of SiftUp: a heap but for the hit that goes up stays one         *)
(* (hitHeap.up).                                                           *)
LEMMA RaisedStep ==
    ASSUME NEW all, Tidy(all), NEW sort \in Seq(SortField), NEW T \in SUBSET all, NEW n \in Nat,
           NEW s, Rising(s, n, T, sort, all), NEW r, r = Raised(s, sort, all)
    PROVE  /\ Rising(r, n, T, sort, all)
           /\ (r = s /\ IsHeap(s.heap, n, sort, all)) \/ r.at < s.at
  <1> DEFINE less(g, h) == compareHitsLess(g, h, sort, all)
             a == s.at
             p == a \div 2
             heap == s.heap
             w == Swap(heap, a, p)
  <1>1. a \in 1..n /\ heap \in [1..n -> T] /\ IsOf(heap, n, T) /\ \A i \in 1..n : heap[i] \in all
    BY DEF Rising, Spot
  <1>2. /\ \A i \in 2..n : i # a => ~less(heap[i \div 2], heap[i])
        /\ \A i \in 2..n : i \div 2 = a /\ a > 1 => ~less(heap[p], heap[i])
    BY DEF Rising
  <1>3. /\ \A g, h \in all : less(g, h) => ~less(h, g)
        /\ \A g, h, o \in all : ~less(g, h) /\ ~less(h, o) => ~less(g, o)
    BY NotLess
  <1>4. CASE a = 1 \/ ~less(heap[p], heap[a])
    <2>1. r = s BY <1>4 DEF Raised
    <2>2. \A i \in 2..n : ~less(heap[i \div 2], heap[i]) BY <1>2, <1>4
    <2> QED BY <2>1, <2>2 DEF IsHeap
  <1>5. CASE a # 1 /\ less(heap[p], heap[a])
    <2>1. r = [heap |-> w, at |-> p] BY <1>5 DEF Raised
    <2>2. p \in 1..n /\ p < a /\ a \in 2..n BY <1>1, <1>5
    <2> HIDE DEF w, p, a, heap, less
    <2>3. /\ IsOf(w, n, T) /\ w[a] = heap[p] /\ w[p] = heap[a]
          /\ \A k \in 1..n \ {a, p} : w[k] = heap[k]
      <3>1. IsOf(heap, n, T) /\ a \in 1..n /\ p \in 1..n BY <1>1, <2>2
      <3> QED BY <3>1, Swapped DEF w
    <2>4. heap[a] \in all /\ heap[p] \in all /\ p = a \div 2 BY <1>1, <2>2 DEF p
    <2>5. \A i \in 2..n : i # p => ~less(w[i \div 2], w[i])
      <3> SUFFICES ASSUME NEW i \in 2..n, i # p PROVE ~less(w[i \div 2], w[i])
        OBVIOUS
      <3>0. i \in 1..n /\ i \div 2 \in 1..n /\ i \div 2 < i /\ heap[i] \in all /\ heap[i \div 2] \in all BY <1>1
      <3>1. CASE i = a BY <1>3, <1>5, <2>3, <2>4, <3>1
      <3>2. CASE i # a /\ i \div 2 = a
        <4>1. ~less(heap[p], heap[i]) BY <1>2, <2>2, <3>2 DEF p, a
        <4> QED BY <2>3, <3>0, <3>2, <4>1
      <3>3. CASE i # a /\ i \div 2 = p
        <4>1. ~less(heap[p], heap[i]) BY <1>2, <3>3
        <4>2. ~less(heap[a], heap[p]) BY <1>3, <1>5, <2>4
        <4>3. ~less(heap[a], heap[i]) BY <1>3, <2>4, <3>0, <4>1, <4>2
        <4> QED BY <2>3, <3>0, <3>3, <4>3
      <3>4. CASE i # a /\ i \div 2 # a /\ i \div 2 # p BY <1>2, <2>3, <3>0, <3>4
      <3> QED BY <3>1, <3>2, <3>3, <3>4
    <2>6. \A i \in 2..n : i \div 2 = p /\ p > 1 => ~less(w[p \div 2], w[i])
      <3> SUFFICES ASSUME NEW i \in 2..n, i \div 2 = p, p > 1 PROVE ~less(w[p \div 2], w[i])
        OBVIOUS
      <3>0. i \in 1..n /\ p \in 2..n /\ p \div 2 \in 1..n /\ p \div 2 < p /\ heap[i] \in all /\ heap[p \div 2] \in all
        BY <1>1, <2>2
      <3>1. w[p \div 2] = heap[p \div 2] BY <2>2, <2>3, <3>0
      <3>2. ~less(heap[p \div 2], heap[p]) BY <1>2, <2>2, <3>0
      <3>3. CASE i = a BY <2>3, <3>1, <3>2, <3>3
      <3>4. CASE i # a
        <4>1. ~less(heap[p], heap[i]) BY <1>2, <3>4
        <4>2. i # p BY <3>0
        <4> QED BY <1>3, <2>3, <2>4, <3>0, <3>1, <3>2, <3>4, <4>1, <4>2
      <3> QED BY <3>3, <3>4
    <2>7. w \in [1..n -> T] BY <2>3 DEF IsOf
    <2> QED BY <2>1, <2>2, <2>3, <2>5, <2>6, <2>7 DEF Rising, Spot, a, less
  <1> QED BY <1>4, <1>5

(* A heap but for its last hit becomes one.                                *)
LEMMA SiftUpMakesAHeap ==
    ASSUME NEW all, Tidy(all), NEW sort \in Seq(SortField), NEW T \in SUBSET all, NEW n \in Nat,
           NEW heap, Rising([heap |-> heap, at |-> n], n, T, sort, all)
    PROVE  IsOf(SiftUp(heap, n, sort, all), n, T) /\ IsHeap(SiftUp(heap, n, sort, all), n, sort, all)
  <1> DEFINE start == [heap |-> heap, at |-> n]
             U == {s \in Spot(n, T) : Rising(s, n, T, sort, all)}
             S == [j \in 0..n |-> {s \in U : IsHeap(s.heap, n, sort, all) \/ s.at <= n - j}]
             step == [j \in 1..n |-> [s \in U |-> Raised(s, sort, all)]]
  <1>0. n \in 1..n BY DEF Rising, Spot
  <1>1. start \in S[0] BY DEF Rising
  <1>2. \A j \in 1..n : \A s \in S[j - 1] : s \in U /\ Raised(s, sort, all) \in S[j]
    <2> SUFFICES ASSUME NEW j \in 1..n, NEW s \in S[j - 1] PROVE s \in U /\ Raised(s, sort, all) \in S[j]
      OBVIOUS
    <2>0. j - 1 \in 0..n /\ j \in 0..n OBVIOUS
    <2>1. Rising(s, n, T, sort, all) /\ s \in U /\ (IsHeap(s.heap, n, sort, all) \/ s.at <= n - (j - 1)) BY <2>0
    <2> DEFINE r == Raised(s, sort, all)
    <2>2. Rising(r, n, T, sort, all) /\ ((r = s /\ IsHeap(s.heap, n, sort, all)) \/ r.at < s.at)
      BY <2>1, RaisedStep
    <2>3. IsHeap(s.heap, n, sort, all) => r = s
      <3> SUFFICES ASSUME IsHeap(s.heap, n, sort, all) PROVE r = s
        OBVIOUS
      <3>1. s.at \in 1..n BY <2>1 DEF Rising, Spot
      <3>2. s.at = 1 \/ ~compareHitsLess(s.heap[s.at \div 2], s.heap[s.at], sort, all) BY <3>1 DEF IsHeap
      <3> QED BY <3>2 DEF Raised
    <2>4. r.at \in 1..n /\ s.at \in 1..n /\ r \in Spot(n, T) BY <2>1, <2>2 DEF Rising, Spot
    <2> HIDE DEF r
    <2>5. IsHeap(r.heap, n, sort, all) \/ r.at <= n - j BY <2>1, <2>2, <2>3, <2>4
    <2> QED BY <2>0, <2>1, <2>2, <2>4, <2>5 DEF r
  <1> DEFINE F(f) == f = [j \in 0..n |-> IF j = 0 THEN start ELSE Raised(f[j - 1], sort, all)]
             sifted == CHOOSE f : F(f)
  <1> HIDE DEF start, U, S
  <1>3. Leads(step, n, S) BY <1>2 DEF Leads
  <1>4. \E f : F(f)
    <2> HIDE DEF step
    <2>0. PICK f : Computes(f, n, S, start, step) BY <1>1, <1>3, Iteration
    <2>1. /\ f = [j \in 0..n |-> f[j]]
          /\ f[0] = start
          /\ \A j \in 1..n : f[j] = step[j][f[j - 1]]
          /\ \A j \in 0..n : f[j] \in S[j]
      BY <2>0 DEF Computes
    <2> USE DEF step
    <2>2. \A j \in 1..n : f[j] = Raised(f[j - 1], sort, all)
      <3> SUFFICES ASSUME NEW j \in 1..n PROVE f[j] = Raised(f[j - 1], sort, all)
        OBVIOUS
      <3>1. f[j - 1] \in S[j - 1]
        <4>1. j - 1 \in 0..n OBVIOUS
        <4> QED BY <2>1, <4>1
      <3>2. f[j - 1] \in U BY <1>2, <3>1
      <3> QED BY <2>1, <3>2
    <2>3. ASSUME NEW j \in 0..n PROVE f[j] = IF j = 0 THEN start ELSE Raised(f[j - 1], sort, all)
      <3>1. CASE j = 0 BY <2>1, <3>1
      <3>2. CASE j # 0
        <4>1. j \in 1..n BY <1>1, <3>2
        <4> QED BY <2>2, <3>2, <4>1
      <3> QED BY <3>1, <3>2
    <2>4. f = [j \in 0..n |-> IF j = 0 THEN start ELSE Raised(f[j - 1], sort, all)] BY <2>1, <2>3
    <2> QED BY <2>4
  <1>5. F(sifted)
    <2> HIDE DEF F
    <2> QED BY <1>4
  <1>6. sifted[0] = start /\ \A j \in 1..n : sifted[j] = Raised(sifted[j - 1], sort, all)
    <2> HIDE DEF sifted
    <2> QED BY <1>5
  <1>7. SiftUp(heap, n, sort, all) = sifted[n].heap BY DEF SiftUp, start
  <1> HIDE DEF sifted, F
  <1>8. \A j \in 0..n : sifted[j] \in S[j]
    <2>1. sifted[0] \in S[0] BY <1>1, <1>6
    <2>2. \A j \in 1..n : sifted[j - 1] \in S[j - 1] => sifted[j] \in S[j] BY <1>2, <1>6
    <2> QED BY <2>1, <2>2, Iterated
  <1>9. sifted[n] \in S[n] BY <1>8
  <1>10. Rising(sifted[n], n, T, sort, all) /\ IsHeap(sifted[n].heap, n, sort, all)
    BY <1>0, <1>9 DEF S, U, Spot
  <1> QED BY <1>7, <1>10 DEF Rising

\* a heap but for the hit that goes down
Sinking(s, n, T, sort, all) ==
    /\ s \in Spot(n, T) /\ IsOf(s.heap, n, T)
    /\ \A i \in 2..n : i \div 2 # s.at => ~compareHitsLess(s.heap[i \div 2], s.heap[i], sort, all)
    /\ \A i \in 2..n : i \div 2 = s.at /\ s.at > 1 => ~compareHitsLess(s.heap[s.at \div 2], s.heap[i], sort, all)

(* A step of SiftDown: a heap but for the hit that goes down stays one     *)
(* (hitHeap.down).                                                         *)
LEMMA LoweredStep ==
    ASSUME NEW all, Tidy(all), NEW sort \in Seq(SortField), NEW T \in SUBSET all, NEW n \in Nat,
           NEW s, Sinking(s, n, T, sort, all), NEW r, r = Lowered(s, sort, all)
    PROVE  /\ Sinking(r, n, T, sort, all)
           /\ (r = s /\ IsHeap(s.heap, n, sort, all)) \/ r.at > s.at
           /\ IsHeap(s.heap, n, sort, all) => r = s
  <1> DEFINE less(g, h) == compareHitsLess(g, h, sort, all)
             a == s.at
             heap == s.heap
             here == {a, 2 * a, 2 * a + 1} \intersect DOMAIN heap
             Is(m) == \A i \in here : i = m \/ less(heap[i], heap[m])
             c == CHOOSE m \in here : Is(m)
             w == Swap(heap, a, c)
  <1>1. a \in 1..n /\ heap \in [1..n -> T] /\ IsOf(heap, n, T) /\ \A i \in 1..n : heap[i] \in all
    BY DEF Sinking, Spot
  <1>2. /\ \A i \in 2..n : i \div 2 # a => ~less(heap[i \div 2], heap[i])
        /\ \A i \in 2..n : i \div 2 = a /\ a > 1 => ~less(heap[a \div 2], heap[i])
    BY DEF Sinking
  <1>3. /\ \A g, h \in all : less(g, h) => ~less(h, g)
        /\ \A g, h, o \in all : ~less(g, h) /\ ~less(h, o) => ~less(g, o)
    BY NotLess
  <1>a. \A g, h \in all : g = h \/ less(g, h) \/ less(h, g) BY LessIsAnOrder
  <1>b. \A i, j \in 1..n : i # j => heap[i] # heap[j] BY <1>1 DEF IsOf
  <1>c. \A g, h, o \in all : less(g, h) /\ less(h, o) => less(g, o) BY LessIsAnOrder
  <1>d. s = [heap |-> heap, at |-> a] BY DEF Sinking, Spot
  <1>4. r = [heap |-> w, at |-> c] BY DEF Lowered
  <1>5. \A i : i \in here <=> i \in 1..n /\ (i = a \/ i = 2 * a \/ i = 2 * a + 1) BY <1>1
  <1> HIDE DEF here, less
  <1>6. \E m \in here : Is(m)
    <2> DEFINE b == IF 2 * a \in here /\ less(heap[a], heap[2 * a]) THEN 2 * a ELSE a
               d == IF 2 * a + 1 \in here /\ less(heap[b], heap[2 * a + 1]) THEN 2 * a + 1 ELSE b
    <2>1. \A i \in here : i \in 1..n /\ heap[i] \in all BY <1>1, <1>5
    <2>2. a \in here /\ b \in here /\ d \in here BY <1>1, <1>5
    <2>3. a = b \/ less(heap[a], heap[b]) OBVIOUS
    <2>4. 2 * a \in here => 2 * a = b \/ less(heap[2 * a], heap[b])
      <3> SUFFICES ASSUME 2 * a \in here PROVE 2 * a = b \/ less(heap[2 * a], heap[b])
        OBVIOUS
      <3>1. a # 2 * a /\ heap[a] # heap[2 * a] BY <1>1, <1>b, <2>1
      <3>2. less(heap[a], heap[2 * a]) \/ less(heap[2 * a], heap[a]) BY <1>a, <2>1, <2>2, <3>1
      <3> QED BY <3>2
    <2>5. 2 * a + 1 \in here => 2 * a + 1 = d \/ less(heap[2 * a + 1], heap[d])
      <3> SUFFICES ASSUME 2 * a + 1 \in here PROVE 2 * a + 1 = d \/ less(heap[2 * a + 1], heap[d])
        OBVIOUS
      <3>1. 2 * a + 1 # b BY <1>1
      <3>2. heap[b] # heap[2 * a + 1] BY <1>b, <2>1, <2>2, <3>1
      <3> HIDE DEF b
      <3>3. less(heap[b], heap[2 * a + 1]) \/ less(heap[2 * a + 1], heap[b]) BY <1>a, <2>1, <2>2, <3>2
      <3> QED BY <3>3
    <2>6. b = d \/ less(heap[b], heap[d])
      <3> HIDE DEF b
      <3> QED OBVIOUS
    <2>7. heap[a] \in all /\ heap[b] \in all /\ heap[d] \in all /\ (2 * a \in here => heap[2 * a] \in all)
      <3> HIDE DEF b, d
      <3> QED BY <2>1, <2>2
    <2> HIDE DEF b, d
    <2>8. a = d \/ less(heap[a], heap[d]) BY <1>c, <2>3, <2>6, <2>7
    <2>9. 2 * a \in here => 2 * a = d \/ less(heap[2 * a], heap[d]) BY <1>c, <2>4, <2>6, <2>7
    <2>10. \A i \in here : i = d \/ less(heap[i], heap[d]) BY <1>5, <2>5, <2>8, <2>9
    <2> QED BY <2>2, <2>10
  <1>7. c \in here /\ Is(c)
    <2> HIDE DEF Is
    <2> QED BY <1>6
  <1> HIDE DEF c, w, a, heap
  <1>8. c \in 1..n /\ (c = a \/ c = 2 * a \/ c = 2 * a + 1) BY <1>5, <1>7
  <1>9. /\ IsOf(w, n, T) /\ w[a] = heap[c] /\ w[c] = heap[a]
        /\ \A k \in 1..n \ {a, c} : w[k] = heap[k]
        /\ a = c => w = heap
    <2>1. IsOf(heap, n, T) /\ a \in 1..n /\ c \in 1..n BY <1>1, <1>8
    <2> QED BY <2>1, Swapped DEF w
  <1>10. \A i \in 1..n : i \div 2 = a /\ i # c => ~less(heap[c], heap[i])
    <2> SUFFICES ASSUME NEW i \in 1..n, i \div 2 = a, i # c PROVE ~less(heap[c], heap[i])
      OBVIOUS
    <2>1. i \in here BY <1>1, <1>5
    <2>2. less(heap[i], heap[c]) BY <1>7, <2>1
    <2> QED BY <1>1, <1>3, <1>8, <2>2
  <1>11. CASE c = a
    <2>1. w = heap /\ r = s BY <1>4, <1>9, <1>11, <1>d
    <2>2. \A i \in 2..n : ~less(heap[i \div 2], heap[i])
      <3> SUFFICES ASSUME NEW i \in 2..n PROVE ~less(heap[i \div 2], heap[i])
        OBVIOUS
      <3>1. CASE i \div 2 = a
        <4>1. i \in 1..n /\ i # a BY <1>1, <3>1
        <4> QED BY <1>10, <1>11, <3>1, <4>1
      <3> QED BY <1>2, <3>1
    <2>3. IsHeap(s.heap, n, sort, all) BY <2>2 DEF IsHeap, heap, less
    <2> QED BY <2>1, <2>3
  <1>12. CASE c # a
    <2>1. c > a /\ c \div 2 = a /\ c \in 2..n BY <1>1, <1>8, <1>12
    <2>2. heap[a] \in all /\ heap[c] \in all BY <1>1, <1>8
    <2>3. ~less(heap[c], heap[a])
      <3>1. a \in here BY <1>1, <1>5
      <3>2. less(heap[a], heap[c]) BY <1>7, <1>12, <3>1
      <3> QED BY <1>3, <2>2, <3>2
    <2>4. \A i \in 2..n : i \div 2 # c => ~less(w[i \div 2], w[i])
      <3> SUFFICES ASSUME NEW i \in 2..n, i \div 2 # c PROVE ~less(w[i \div 2], w[i])
        OBVIOUS
      <3>0. i \in 1..n /\ i \div 2 \in 1..n /\ i \div 2 < i BY <1>1
      <3>1. CASE i = c BY <1>9, <2>1, <2>3, <3>1
      <3>2. CASE i # c /\ i \div 2 = a
        <4>1. i # a BY <3>0, <3>2
        <4>2. w[i] = heap[i] BY <1>9, <3>0, <3>2, <4>1
        <4> QED BY <1>9, <1>10, <3>0, <3>2, <4>2
      <3>3. CASE i # c /\ i = a
        <4>1. c \in 2..n /\ a > 1 /\ c \div 2 = a BY <2>1, <3>3
        <4>2. ~less(heap[a \div 2], heap[c]) BY <1>2, <4>1
        <4>3. w[i \div 2] = heap[a \div 2] BY <1>9, <3>0, <3>3
        <4> QED BY <1>9, <3>3, <4>2, <4>3
      <3>4. CASE i # c /\ i # a /\ i \div 2 # a
        <4>1. w[i] = heap[i] /\ w[i \div 2] = heap[i \div 2] BY <1>9, <3>0, <3>4
        <4> QED BY <1>2, <3>4, <4>1
      <3> QED BY <3>1, <3>2, <3>3, <3>4
    <2>5. \A i \in 2..n : i \div 2 = c => ~less(w[c \div 2], w[i])
      <3> SUFFICES ASSUME NEW i \in 2..n, i \div 2 = c PROVE ~less(w[a], w[i])
        BY <2>1
      <3>1. ~less(heap[c], heap[i]) BY <1>2, <1>12
      <3>2. i \in 1..n \ {a, c} BY <1>1, <2>1
      <3> QED BY <1>9, <3>1, <3>2
    <2>6. w \in [1..n -> T] BY <1>9 DEF IsOf
    <2>7. r \in Spot(n, T) /\ r.heap = w /\ r.at = c BY <1>4, <1>8, <2>6 DEF Spot
    <2>8. Sinking(r, n, T, sort, all) BY <1>9, <2>4, <2>5, <2>7 DEF Sinking, less
    <2>9. ~IsHeap(s.heap, n, sort, all)
      <3>1. a \in here BY <1>1, <1>5
      <3>2. less(heap[c \div 2], heap[c]) BY <1>7, <1>12, <2>1, <3>1
      <3> QED BY <2>1, <3>2 DEF IsHeap, heap, less
    <2> QED BY <2>1, <2>7, <2>8, <2>9 DEF a
  <1> QED BY <1>11, <1>12

(* A heap but for its root becomes one.                                    *)
LEMMA SiftDownMakesAHeap ==
    ASSUME NEW all, Tidy(all), NEW sort \in Seq(SortField), NEW T \in SUBSET all, NEW n \in Nat,
           NEW heap, Sinking([heap |-> heap, at |-> 1], n, T, sort, all)
    PROVE  IsOf(SiftDown(heap, sort, all), n, T) /\ IsHeap(SiftDown(heap, sort, all), n, sort, all)
  <1> DEFINE start == [heap |-> heap, at |-> 1]
             U == {s \in Spot(n, T) : Sinking(s, n, T, sort, all)}
             S == [j \in 0..n |-> {s \in U : IsHeap(s.heap, n, sort, all) \/ s.at >= j + 1}]
             step == [j \in 1..n |-> [s \in U |-> Lowered(s, sort, all)]]
  <1>0. n \in 1..n /\ heap \in [1..n -> T] /\ Len(heap) = n
    <2>1. heap \in [1..n -> T] /\ 1 \in 1..n BY DEF Sinking, Spot
    <2> QED BY <2>1
  <1>1. start \in S[0] BY <1>0 DEF Sinking
  <1>2. \A j \in 1..n : \A s \in S[j - 1] : s \in U /\ Lowered(s, sort, all) \in S[j]
    <2> SUFFICES ASSUME NEW j \in 1..n, NEW s \in S[j - 1] PROVE s \in U /\ Lowered(s, sort, all) \in S[j]
      OBVIOUS
    <2>0. j - 1 \in 0..n /\ j \in 0..n OBVIOUS
    <2>1. Sinking(s, n, T, sort, all) /\ s \in U /\ (IsHeap(s.heap, n, sort, all) \/ s.at >= (j - 1) + 1) BY <2>0
    <2> DEFINE r == Lowered(s, sort, all)
    <2>2. Sinking(r, n, T, sort, all) /\ ((r = s /\ IsHeap(s.heap, n, sort, all)) \/ r.at > s.at)
      BY <2>1, LoweredStep
    <2>3. IsHeap(s.heap, n, sort, all) => r = s BY <2>1, LoweredStep
    <2>4. r.at \in 1..n /\ s.at \in 1..n /\ r \in Spot(n, T) BY <2>1, <2>2 DEF Sinking, Spot
    <2> HIDE DEF r
    <2>5. IsHeap(r.heap, n, sort, all) \/ r.at >= j + 1 BY <2>1, <2>2, <2>3, <2>4
    <2> QED BY <2>0, <2>1, <2>2, <2>4, <2>5 DEF r
  <1> DEFINE F(f) == f = [j \in 0..n |-> IF j = 0 THEN start ELSE Lowered(f[j - 1], sort, all)]
             sifted == CHOOSE f : F(f)
  <1> HIDE DEF start, U, S
  <1>3. Leads(step, n, S) BY <1>2 DEF Leads
  <1>4. \E f : F(f)
    <2> HIDE DEF step
    <2>0. PICK f : Computes(f, n, S, start, step) BY <1>1, <1>3, Iteration
    <2>1. /\ f = [j \in 0..n |-> f[j]]
          /\ f[0] = start
          /\ \A j \in 1..n : f[j] = step[j][f[j - 1]]
          /\ \A j \in 0..n : f[j] \in S[j]
      BY <2>0 DEF Computes
    <2> USE DEF step
    <2>2. \A j \in 1..n : f[j] = Lowered(f[j - 1], sort, all)
      <3> SUFFICES ASSUME NEW j \in 1..n PROVE f[j] = Lowered(f[j - 1], sort, all)
        OBVIOUS
      <3>1. f[j - 1] \in S[j - 1]
        <4>1. j - 1 \in 0..n OBVIOUS
        <4> QED BY <2>1, <4>1
      <3>2. f[j - 1] \in U BY <1>2, <3>1
      <3> QED BY <2>1, <3>2
    <2>3. \A j \in 0..n : f[j] = IF j = 0 THEN start ELSE Lowered(f[j - 1], sort, all)
      <3> SUFFICES ASSUME NEW j \in 0..n PROVE f[j] = IF j = 0 THEN start ELSE Lowered(f[j - 1], sort, all)
        OBVIOUS
      <3> HIDE DEF step
      <3>1. j = 0 \/ j \in 1..n OBVIOUS
      <3> QED BY <2>1, <2>2, <3>1
    <2>4. f = [j \in 0..n |-> IF j = 0 THEN start ELSE Lowered(f[j - 1], sort, all)] BY <2>1, <2>3
    <2> QED BY <2>4
  <1>5. F(sifted)
    <2> HIDE DEF F
    <2> QED BY <1>4
  <1>6. sifted[0] = start /\ \A j \in 1..n : sifted[j] = Lowered(sifted[j - 1], sort, all)
    <2> HIDE DEF sifted
    <2> QED BY <1>5
  <1>7. SiftDown(heap, sort, all) = sifted[n].heap BY <1>0 DEF SiftDown, start
  <1> HIDE DEF sifted, F
  <1>8. \A j \in 0..n : sifted[j] \in S[j]
    <2>1. sifted[0] \in S[0] BY <1>1, <1>6
    <2>2. \A j \in 1..n : sifted[j - 1] \in S[j - 1] => sifted[j] \in S[j] BY <1>2, <1>6
    <2> QED BY <2>1, <2>2, Iterated
  <1>9. sifted[n] \in S[n] BY <1>8
  <1>10. Sinking(sifted[n], n, T, sort, all) /\ IsHeap(sifted[n].heap, n, sort, all)
    BY <1>0, <1>9 DEF S, U, Spot
  <1> QED BY <1>7, <1>10 DEF Sinking

\* the best k of the hits in S, the worst of them at the root
Keeping(heap, k, S, sort, all) ==
    \E T \in SUBSET S :
        /\ IsOf(heap, Len(heap), T) /\ IsHeap(heap, Len(heap), sort, all)
        /\ Len(heap) \in Nat /\ Len(heap) <= k
        /\ Len(heap) < k => T = S
        /\ \A t \in T, x \in S \ T : compareHitsLess(t, x, sort, all)

(* What a hit does to the hits that are kept.                              *)
LEMMA HeapPutKeeps ==
    ASSUME NEW all, Tidy(all), NEW sort \in Seq(SortField), NEW S \in SUBSET all, NEW k \in Nat \ {0},
           NEW heap, Keeping(heap, k, S, sort, all), NEW h \in all \ S, NEW g, g = HeapPut(heap, h, k, sort, all)
    PROVE  Keeping(g, k, S \union {h}, sort, all)
  <1> DEFINE less(x, y) == compareHitsLess(x, y, sort, all)
             n == Len(heap)
  <1>1. PICK T \in SUBSET S :
        /\ IsOf(heap, n, T) /\ IsHeap(heap, n, sort, all)
        /\ n \in Nat /\ n <= k
        /\ n < k => T = S
        /\ \A t \in T, x \in S \ T : less(t, x)
    BY DEF Keeping
  <1> HIDE DEF less, n
  <1>2. /\ heap \in [1..n -> T]
        /\ \A x \in T : \E i \in 1..n : heap[i] = x
        /\ \A i, j \in 1..n : heap[i] = heap[j] => i = j
    BY <1>1 DEF IsOf
  <1>3. T \in SUBSET all /\ T \in SUBSET S /\ h \notin T /\ h \in all BY <1>1
  <1>4. CASE n < k
    <2> DEFINE a == Append(heap, h)
               U == S \union {h}
    <2>1. T = S BY <1>1, <1>4
    <2>2. a = [i \in 1..(n + 1) |-> IF i = n + 1 THEN h ELSE heap[i]]
      <3>1. heap \in Seq(all) /\ h \in all /\ Len(heap) = n BY <1>1, <1>2, <1>3 DEF n
      <3>2. /\ a \in Seq(all) /\ Len(a) = n + 1 /\ a[n + 1] = h
            /\ \A i \in 1..n : a[i] = heap[i]
        BY <3>1
      <3>3. a = [i \in 1..(n + 1) |-> a[i]]
        <4> HIDE DEF a
        <4> QED BY <3>2
      <3>4. \A i \in 1..(n + 1) : a[i] = IF i = n + 1 THEN h ELSE heap[i]
        <4> HIDE DEF a
        <4> QED BY <1>1, <3>2
      <3> HIDE DEF a
      <3> QED BY <3>3, <3>4
    <2> HIDE DEF a
    <2>3. /\ a \in [1..(n + 1) -> U] /\ a[n + 1] = h
          /\ \A i \in 1..n : a[i] = heap[i] /\ a[i] # h
      BY <1>1, <1>2, <1>3, <2>1, <2>2
    <2>4. \A x \in U : \E i \in 1..(n + 1) : a[i] = x
      <3> SUFFICES ASSUME NEW x \in U PROVE \E i \in 1..(n + 1) : a[i] = x
        OBVIOUS
      <3>1. CASE x = h BY <1>1, <2>3, <3>1
      <3>2. CASE x \in T
        <4>1. PICK i \in 1..n : heap[i] = x BY <1>2, <3>2
        <4>2. i \in 1..(n + 1) BY <1>1
        <4> QED BY <2>3, <4>1, <4>2
      <3> QED BY <2>1, <3>1, <3>2
    <2>5. \A i, j \in 1..(n + 1) : a[i] = a[j] => i = j
      <3> SUFFICES ASSUME NEW i \in 1..(n + 1), NEW j \in 1..(n + 1), a[i] = a[j] PROVE i = j
        OBVIOUS
      <3>1. (i \in 1..n \/ i = n + 1) /\ (j \in 1..n \/ j = n + 1) BY <1>1
      <3> QED BY <1>2, <2>3, <3>1
    <2>6. IsOf(a, n + 1, U) BY <2>3, <2>4, <2>5 DEF IsOf
    <2>7. \A i \in 2..(n + 1) : i # n + 1 => ~less(a[i \div 2], a[i])
      <3> SUFFICES ASSUME NEW i \in 2..(n + 1), i # n + 1 PROVE ~less(a[i \div 2], a[i])
        OBVIOUS
      <3>1. i \in 2..n /\ i \in 1..n /\ i \div 2 \in 1..n BY <1>1
      <3>2. ~less(heap[i \div 2], heap[i]) BY <1>1, <3>1 DEF IsHeap, less
      <3> QED BY <2>3, <3>1, <3>2
    <2>8. \A i \in 2..(n + 1) : i \div 2 # n + 1 BY <1>1
    <2>9. Rising([heap |-> a, at |-> n + 1], n + 1, U, sort, all)
      BY <1>1, <2>3, <2>6, <2>7, <2>8 DEF Rising, Spot, less
    <2>10. g = SiftUp(a, n + 1, sort, all) BY <1>4 DEF HeapPut, n, a
    <2>11. IsOf(g, n + 1, U) /\ IsHeap(g, n + 1, sort, all)
      <3>1. U \in SUBSET all /\ n + 1 \in Nat BY <1>1
      <3> HIDE DEF U
      <3> QED BY <2>9, <2>10, <3>1, SiftUpMakesAHeap
    <2>12. Len(g) = n + 1 BY <1>1, <2>11 DEF IsOf
    <2>13. n + 1 \in Nat /\ n + 1 <= k BY <1>1, <1>4
    <2>14. U \in SUBSET U /\ \A t \in U, x \in U \ U : less(t, x) OBVIOUS
    <2> HIDE DEF U
    <2>15. \E V \in SUBSET U :
            /\ IsOf(g, Len(g), V) /\ IsHeap(g, Len(g), sort, all)
            /\ Len(g) \in Nat /\ Len(g) <= k
            /\ Len(g) < k => V = U
            /\ \A t \in V, x \in U \ V : less(t, x)
      BY <2>11, <2>12, <2>13, <2>14
    <2> QED BY <2>15 DEF Keeping, U, less
  <1>5. CASE n = k
    <2>0. n \in 1..n /\ 1 \in 1..n /\ n \in Nat BY <1>1, <1>5
    <2> DEFINE root == heap[1]
    <2>1. root \in T /\ root \in all /\ root # h BY <1>2, <1>3, <2>0
    <2>2. \A t \in T : t = root \/ less(t, root)
      <3> SUFFICES ASSUME NEW t \in T PROVE t = root \/ less(t, root)
        OBVIOUS
      <3>1. PICK i \in 1..n : heap[i] = t BY <1>2
      <3>2. heap[i] = heap[1] \/ less(heap[i], heap[1]) BY <1>1, <1>3, RootIsWorst DEF less
      <3> QED BY <3>1, <3>2
    <2>3. /\ \A x, y, z \in all : less(x, y) /\ less(y, z) => less(x, z)
          /\ \A x, y \in all : x = y \/ less(x, y) \/ less(y, x)
      BY LessIsAnOrder DEF less
    <2> HIDE DEF root
    <2>4. CASE ~less(h, root)
      <3>1. g = heap BY <1>5, <2>4 DEF HeapPut, n, root, less
      <3>2. less(root, h) BY <1>3, <2>1, <2>3, <2>4
      <3>3. \A t \in T : less(t, h) BY <1>3, <2>1, <2>2, <2>3, <3>2
      <3>4. \A t \in T, x \in (S \union {h}) \ T : less(t, x) BY <1>1, <3>3
      <3>5. T \in SUBSET (S \union {h}) BY <1>3
      <3>6. n < k => T = S \union {h} BY <1>5, <2>0
      <3> QED BY <1>1, <3>1, <3>4, <3>5, <3>6 DEF Keeping, n, less
    <2>5. CASE less(h, root)
      <3> DEFINE a == [heap EXCEPT ![1] = h]
                 V == (T \ {root}) \union {h}
                 U == S \union {h}
      <3>1. g = SiftDown(a, sort, all) BY <1>5, <2>0, <2>5 DEF HeapPut, n, root, less
      <3>2. a[1] = h /\ DOMAIN a = 1..n /\ a = [i \in 1..n |-> a[i]] /\ \A i \in 1..n : i # 1 => a[i] = heap[i]
        BY <1>2, <2>0
      <3> HIDE DEF a
      <3>3. \A i \in 1..n : i # 1 => heap[i] \in T /\ heap[i] # root /\ heap[i] # h BY <1>2, <1>3, <2>0 DEF root
      <3>4. a \in [1..n -> V]
        <4>1. \A i \in 1..n : a[i] \in V BY <3>2, <3>3
        <4> HIDE DEF V
        <4> QED BY <3>2, <4>1
      <3>5. \A x \in V : \E i \in 1..n : a[i] = x
        <4> SUFFICES ASSUME NEW x \in V PROVE \E i \in 1..n : a[i] = x
          OBVIOUS
        <4>1. CASE x = h BY <2>0, <3>2, <4>1
        <4>2. CASE x \in T /\ x # root
          <5>1. PICK i \in 1..n : heap[i] = x BY <1>2, <4>2
          <5>2. i # 1 BY <4>2, <5>1 DEF root
          <5> QED BY <3>2, <5>1, <5>2
        <4> QED BY <4>1, <4>2
      <3>6. \A i, j \in 1..n : a[i] = a[j] => i = j BY <1>2, <3>2, <3>3
      <3>7. IsOf(a, n, V) BY <3>4, <3>5, <3>6 DEF IsOf
      <3>8. \A i \in 2..n : i \div 2 # 1 => ~less(a[i \div 2], a[i])
        <4> SUFFICES ASSUME NEW i \in 2..n, i \div 2 # 1 PROVE ~less(a[i \div 2], a[i])
          OBVIOUS
        <4>1. i \in 1..n /\ i \div 2 \in 1..n /\ i # 1 BY <2>0
        <4>2. ~less(heap[i \div 2], heap[i]) BY <1>1 DEF IsHeap, less
        <4> QED BY <3>2, <4>1, <4>2
      <3>9. Sinking([heap |-> a, at |-> 1], n, V, sort, all)
        <4> HIDE DEF V
        <4> QED BY <2>0, <3>4, <3>7, <3>8 DEF Sinking, Spot, less
      <3>10. IsOf(g, n, V) /\ IsHeap(g, n, sort, all)
        <4>1. V \in SUBSET all BY <1>3
        <4> HIDE DEF V
        <4> QED BY <2>0, <3>1, <3>9, <4>1, SiftDownMakesAHeap
      <3>11. Len(g) = n BY <2>0, <3>10 DEF IsOf
      <3>12. V \in SUBSET U BY <1>3
      <3>13. \A t \in V, x \in U \ V : less(t, x)
        <4> SUFFICES ASSUME NEW t \in V, NEW x \in U \ V PROVE less(t, x)
          OBVIOUS
        <4>1. x = root \/ (x \in S /\ x \notin T) OBVIOUS
        <4>2. t \in all /\ x \in all BY <1>3
        <4>3. CASE t = h
          <5>1. x # root => less(root, x) BY <1>1, <2>1, <4>1
          <5> QED BY <2>1, <2>3, <2>5, <4>2, <4>3, <5>1
        <4>4. CASE t # h
          <5>1. t \in T /\ t # root BY <4>4
          <5>2. less(t, root) BY <2>2, <5>1
          <5>3. x # root => less(t, x) BY <1>1, <4>1, <5>1
          <5> QED BY <5>2, <5>3
        <4> QED BY <4>3, <4>4
      <3> HIDE DEF V, U
      <3>14. \E W \in SUBSET U :
            /\ IsOf(g, Len(g), W) /\ IsHeap(g, Len(g), sort, all)
            /\ Len(g) \in Nat /\ Len(g) <= k
            /\ Len(g) < k => W = U
            /\ \A t \in W, x \in U \ W : less(t, x)
        BY <1>5, <2>0, <3>10, <3>11, <3>12, <3>13
      <3> QED BY <3>14 DEF Keeping, U, less
    <2> QED BY <2>4, <2>5
  <1> QED BY <1>1, <1>4, <1>5

-----------------------------------------------------------------------------
(* The first hits of a search. *)

(* A part of the hits is ordered as all are.                               *)
LEMMA PartOrdered ==
    ASSUME NEW all, Tidy(all), NEW sort \in Seq(SortField), NEW S \in SUBSET all
    PROVE  /\ Orders(Before(all, sort, all), S) /\ IsFiniteSet(S)
           /\ Arranges(Sorted(S, sort, all), S, Before(all, sort, all))
  <1>1. /\ \A g, h : <<g, h>> \in Before(all, sort, all) <=> g \in all /\ h \in all /\ compareHitsLess(g, h, sort, all)
        /\ Orders(Before(all, sort, all), all)
    BY HitsOrdered
  <1>2. \A g, h : <<g, h>> \in Before(S, sort, all) <=> g \in S /\ h \in S /\ compareHitsLess(g, h, sort, all)
    BY HitsOrdered
  <1>3. Orders(Before(all, sort, all), S) BY <1>1 DEF Orders
  <1>4. Arranges(Sorted(S, sort, all), S, Before(S, sort, all)) BY SortedArranges
  <1>5. IsFiniteSet(S) BY HitsOrdered
  <1>6. \A m, n \in 1..Cardinality(S) : Sorted(S, sort, all)[m] \in S /\ Sorted(S, sort, all)[n] \in S BY <1>4 DEF Arranges
  <1>7. Arranges(Sorted(S, sort, all), S, Before(all, sort, all)) BY <1>1, <1>2, <1>4, <1>6 DEF Arranges
  <1> QED BY <1>3, <1>5, <1>7

(* The n-th entry of an arrangement comes after n - 1 others.              *)
LEMMA Rank ==
    ASSUME NEW S, IsFiniteSet(S), NEW R, Orders(R, S), NEW s, Arranges(s, S, R), NEW n \in 1..Cardinality(S)
    PROVE  Cardinality({y \in S : <<y, s[n]>> \in R}) = n - 1
  <1> DEFINE B == {y \in S : <<y, s[n]>> \in R}
             f == [m \in 1..(n - 1) |-> s[m]]
  <1>0. Cardinality(S) \in Nat /\ n \in Nat /\ 1..(n - 1) \subseteq 1..Cardinality(S)
    <2>1. Cardinality(S) \in Nat BY FS_CardinalityType
    <2> QED BY <2>1
  <1>1. \A m \in 1..Cardinality(S) : s[m] \in S BY DEF Arranges
  <1>2. \A m \in 1..Cardinality(S) : <<s[m], s[n]>> \in R => m < n
    <2> SUFFICES ASSUME NEW m \in 1..Cardinality(S), <<s[m], s[n]>> \in R, ~(m < n) PROVE FALSE
      OBVIOUS
    <2>1. m = n \/ n < m BY <1>0
    <2>2. m = n \/ <<s[n], s[m]>> \in R BY <2>1 DEF Arranges
    <2> QED BY <1>1, <2>2 DEF Orders
  <1>3. \A x, y \in 1..(n - 1) : f[x] = f[y] => x = y
    <2>1. \A x, y \in 1..Cardinality(S) : s[x] = s[y] => x = y BY ArrangedOnce
    <2> QED BY <1>0, <2>1
  <1>4. f \in [1..(n - 1) -> B]
    <2>1. \A m \in 1..(n - 1) : s[m] \in S /\ <<s[m], s[n]>> \in R BY <1>0, <1>1 DEF Arranges
    <2> QED BY <2>1
  <1>5. \A y \in B : \E m \in 1..(n - 1) : f[m] = y
    <2> SUFFICES ASSUME NEW y \in B PROVE \E m \in 1..(n - 1) : f[m] = y
      OBVIOUS
    <2>1. PICK m \in 1..Cardinality(S) : s[m] = y BY DEF Arranges
    <2>2. m < n BY <1>2, <2>1
    <2>3. m \in 1..(n - 1) BY <1>0, <2>2
    <2> QED BY <2>1, <2>3
  <1> HIDE DEF B, f
  <1>6. f \in Bijection(1..(n - 1), B)
    <2>1. f \in Injection(1..(n - 1), B) BY <1>3, <1>4 DEF Injection, IsInjective
    <2>2. f \in Surjection(1..(n - 1), B) BY <1>4, <1>5 DEF Surjection
    <2> QED BY <2>1, <2>2 DEF Bijection
  <1>7. ExistsBijection(1..(n - 1), B) BY <1>6 DEF ExistsBijection
  <1>8. n - 1 \in Nat BY <1>0
  <1>9. Cardinality(B) = n - 1 BY <1>7, <1>8, FS_CountingElements
  <1> QED BY <1>9 DEF B

(* The first part of an arrangement.                                       *)
LEMMA Prefix ==
    ASSUME NEW S, IsFiniteSet(S), NEW R, Orders(R, S), NEW s, Arranges(s, S, R),
           NEW T \in SUBSET S, NEW p, Arranges(p, T, R),
           \A t \in T, x \in S \ T : <<t, x>> \in R
    PROVE  /\ Cardinality(T) \in Nat /\ Cardinality(T) <= Cardinality(S)
           /\ \A n \in 1..Cardinality(T) : p[n] = s[n]
  <1>1. IsFiniteSet(T) /\ Cardinality(T) \in Nat /\ Cardinality(S) \in Nat /\ Cardinality(T) <= Cardinality(S)
    BY FS_Subset, FS_CardinalityType
  <1>2. Orders(R, T) BY DEF Orders
  <1>3. ASSUME NEW n \in 1..Cardinality(T) PROVE p[n] = s[n]
    <2>1. p[n] \in T BY DEF Arranges
    <2>2. PICK m \in 1..Cardinality(S) : s[m] = p[n] BY <2>1 DEF Arranges
    <2>3. {y \in S : <<y, s[m]>> \in R} = {y \in T : <<y, p[n]>> \in R} BY <2>1, <2>2 DEF Orders
    <2>4. Cardinality({y \in T : <<y, p[n]>> \in R}) = n - 1 BY <1>1, <1>2, Rank
    <2>5. Cardinality({y \in S : <<y, s[m]>> \in R}) = m - 1 BY Rank
    <2>a. n - 1 = m - 1 BY <2>3, <2>4, <2>5
    <2>b. m \in Nat /\ n \in Nat BY <1>1
    <2>6. m = n BY <2>a, <2>b
    <2> QED BY <2>2, <2>6
  <1> QED BY <1>1, <1>3

(* Matches are collected once each.                                        *)
LEMMA CollectedArranges ==
    ASSUME NEW all, Tidy(all)
    PROVE  \E R : Orders(R, all) /\ Arranges(Collected(all), all, R)
  <1> DEFINE R == {x \in all \X all : CollectedLess(x[1], x[2])}
  <1>1. \A g, h : <<g, h>> \in R <=> g \in all /\ h \in all /\ CollectedLess(g, h) OBVIOUS
  <1>2. all \subseteq Hit /\ IsFiniteSet(all) BY DEF Tidy
  <1>3. Collected(all) = InOrder(all, R) BY DEF Collected
  <1> HIDE DEF R
  <1>4. Orders(R, all)
    <2>1. \A x \in all : <<x, x>> \notin R BY <1>1, <1>2, CollectedOrdered
    <2>2. \A x, y, z \in all : <<x, y>> \in R /\ <<y, z>> \in R => <<x, z>> \in R
      <3> SUFFICES ASSUME NEW x \in all, NEW y \in all, NEW z \in all, <<x, y>> \in R, <<y, z>> \in R
                   PROVE  <<x, z>> \in R
        OBVIOUS
      <3>1. x \in Hit /\ y \in Hit /\ z \in Hit BY <1>2
      <3>2. CollectedLess(x, y) /\ CollectedLess(y, z) BY <1>1
      <3>3. CollectedLess(x, z) BY <3>1, <3>2, CollectedOrdered
      <3> QED BY <1>1, <3>3
    <2>3. \A x, y \in all : x = y \/ <<x, y>> \in R \/ <<y, x>> \in R BY <1>1, CollectedOrdered
    <2> QED BY <2>1, <2>2, <2>3 DEF Orders
  <1>5. Arranges(Collected(all), all, R) BY <1>2, <1>3, <1>4, InOrderArranges
  <1> QED BY <1>4, <1>5

(* The first k hits of a search.                                           *)
LEMMA TopHits ==
    ASSUME NEW all, Tidy(all), NEW sort \in Seq(SortField), NEW k \in Nat \ {0}, k < Cardinality(all)
    PROVE  \E T \in SUBSET all :
             /\ Cardinality(T) = k
             /\ topHits(Collected(all), k, sort, all) = Sorted(T, sort, all)
             /\ \A t \in T, x \in all \ T : compareHitsLess(t, x, sort, all)
  <1> DEFINE hits == Collected(all)
             c == Cardinality(all)
  <1>1. PICK R : Orders(R, all) /\ Arranges(hits, all, R) BY CollectedArranges
  <1>2. IsFiniteSet(all) /\ c \in Nat
    <2>1. IsFiniteSet(all) BY DEF Tidy
    <2> QED BY <2>1, FS_CardinalityType
  <1> HIDE DEF hits
  <1>3. \A m, n \in 1..c : hits[m] = hits[n] => m = n BY <1>1, <1>2, ArrangedOnce
  <1>4. hits \in [1..c -> all] /\ \A x \in all : \E n \in 1..c : hits[n] = x BY <1>1 DEF Arranges
  <1> HIDE DEF c
  <1>5. Len(hits) = c BY <1>2, <1>4
  <1> DEFINE seen(j) == {hits[m] : m \in 1..j}
             S == [j \in 0..c |-> {g \in Seq(all) : Keeping(g, k, seen(j), sort, all)}]
             step == [j \in 1..c |-> [g \in Seq(all) |-> HeapPut(g, hits[j], k, sort, all)]]
             start == <<>>
  <1>6. start \in S[0]
    <2>1. seen(0) = {} OBVIOUS
    <2>2. IsOf(<<>>, 0, {}) BY DEF IsOf
    <2>3. IsHeap(<<>>, 0, sort, all) BY DEF IsHeap
    <2>4. Keeping(<<>>, k, {}, sort, all)
      <3>1. Len(<<>>) = 0 /\ 0 \in Nat /\ 0 <= k OBVIOUS
      <3> QED BY <2>2, <2>3, <3>1 DEF Keeping
    <2>5. 0 \in 0..c /\ <<>> \in Seq(all) BY <1>2
    <2> HIDE DEF seen
    <2> QED BY <2>1, <2>4, <2>5
  <1>7. \A j \in 1..c : \A g \in S[j - 1] : g \in Seq(all) /\ HeapPut(g, hits[j], k, sort, all) \in S[j]
    <2> SUFFICES ASSUME NEW j \in 1..c, NEW g \in S[j - 1]
                 PROVE  g \in Seq(all) /\ HeapPut(g, hits[j], k, sort, all) \in S[j]
      OBVIOUS
    <2> DEFINE p == HeapPut(g, hits[j], k, sort, all)
    <2>0. j - 1 \in 0..c /\ j \in 0..c BY <1>2
    <2>1. g \in Seq(all) /\ Keeping(g, k, seen(j - 1), sort, all)
      <3> HIDE DEF seen
      <3> QED BY <2>0
    <2>2. hits[j] \in all \ seen(j - 1)
      <3>1. \A m \in 1..(j - 1) : m \in 1..c /\ m # j BY <1>2
      <3> QED BY <1>3, <1>4, <3>1
    <2>3. seen(j) = seen(j - 1) \union {hits[j]}
      <3>1. \A m : m \in 1..j <=> m \in 1..(j - 1) \/ m = j BY <1>2
      <3> QED BY <3>1
    <2>4. seen(j) \in SUBSET all /\ seen(j - 1) \in SUBSET all
      <3>1. \A m : m \in 1..j \/ m \in 1..(j - 1) => m \in 1..c BY <1>2
      <3> QED BY <1>4, <3>1
    <2> HIDE DEF seen
    <2>5. Keeping(p, k, seen(j), sort, all) BY <2>1, <2>2, <2>3, <2>4, HeapPutKeeps
    <2> HIDE DEF p
    <2>6. p \in Seq(all)
      <3>1. PICK T \in SUBSET seen(j) : IsOf(p, Len(p), T) /\ Len(p) \in Nat BY <2>5 DEF Keeping
      <3>2. p \in [1..Len(p) -> T] BY <3>1 DEF IsOf
      <3>3. p \in Seq(T) BY <3>1, <3>2
      <3>4. T \subseteq all BY <2>4
      <3> QED BY <3>3, <3>4
    <2> QED BY <2>0, <2>1, <2>5, <2>6 DEF p
  <1> DEFINE F(f) == f = [n \in 0..Len(hits) |-> IF n = 0 THEN <<>> ELSE HeapPut(f[n - 1], hits[n], k, sort, all)]
             heap == CHOOSE f : F(f)
  <1> HIDE DEF S, seen
  <1>8. Leads(step, c, S) BY <1>7 DEF Leads
  <1>9. \E f : F(f)
    <2> HIDE DEF step
    <2>0. PICK f : Computes(f, c, S, start, step)
      <3> HIDE DEF start
      <3> QED BY <1>2, <1>6, <1>8, Iteration
    <2>1. /\ f = [j \in 0..c |-> f[j]]
          /\ f[0] = start
          /\ \A j \in 1..c : f[j] = step[j][f[j - 1]]
          /\ \A j \in 0..c : f[j] \in S[j]
      BY <2>0 DEF Computes
    <2>2. \A j \in 1..c : f[j] = HeapPut(f[j - 1], hits[j], k, sort, all)
      <3> SUFFICES ASSUME NEW j \in 1..c PROVE f[j] = HeapPut(f[j - 1], hits[j], k, sort, all)
        OBVIOUS
      <3>1. f[j - 1] \in S[j - 1]
        <4>1. j - 1 \in 0..c BY <1>2
        <4> QED BY <2>1, <4>1
      <3>2. f[j - 1] \in Seq(all) BY <1>7, <3>1
      <3> QED BY <2>1, <3>2 DEF step
    <2>3. \A j \in 0..c : f[j] = IF j = 0 THEN <<>> ELSE HeapPut(f[j - 1], hits[j], k, sort, all)
      <3> SUFFICES ASSUME NEW j \in 0..c PROVE f[j] = IF j = 0 THEN <<>> ELSE HeapPut(f[j - 1], hits[j], k, sort, all)
        OBVIOUS
      <3>1. j = 0 \/ j \in 1..c BY <1>2
      <3> QED BY <2>1, <2>2, <3>1
    <2>4. f = [j \in 0..c |-> IF j = 0 THEN <<>> ELSE HeapPut(f[j - 1], hits[j], k, sort, all)] BY <2>1, <2>3
    <2> QED BY <1>5, <2>4
  <1>10. F(heap)
    <2> HIDE DEF F
    <2> QED BY <1>9
  <1>11. heap[0] = start /\ \A j \in 1..c : heap[j] = HeapPut(heap[j - 1], hits[j], k, sort, all)
    <2> HIDE DEF heap
    <2> QED BY <1>2, <1>5, <1>10
  <1>12. topHits(hits, k, sort, all) = Sorted(Range(heap[c]), sort, all) BY <1>5 DEF topHits
  <1> HIDE DEF heap, F
  <1>13. heap[c] \in S[c]
    <2>1. heap[0] \in S[0] BY <1>6, <1>11
    <2>2. \A j \in 1..c : heap[j - 1] \in S[j - 1] => heap[j] \in S[j] BY <1>7, <1>11
    <2>3. \A j \in 0..c : heap[j] \in S[j] BY <1>2, <2>1, <2>2, Iterated
    <2> QED BY <1>2, <2>3
  <1> DEFINE g == heap[c]
  <1>14. Keeping(g, k, all, sort, all)
    <2>1. seen(c) = all BY <1>4 DEF seen
    <2>2. c \in 0..c BY <1>2
    <2> QED BY <1>13, <2>1, <2>2 DEF S
  <1> HIDE DEF g
  <1>15. PICK T \in SUBSET all :
        /\ IsOf(g, Len(g), T) /\ IsHeap(g, Len(g), sort, all)
        /\ Len(g) \in Nat /\ Len(g) <= k
        /\ Len(g) < k => T = all
        /\ \A t \in T, x \in all \ T : compareHitsLess(t, x, sort, all)
    BY <1>14 DEF Keeping
  <1>16. /\ g \in [1..Len(g) -> T]
         /\ \A x \in T : \E i \in 1..Len(g) : g[i] = x
         /\ \A i, j \in 1..Len(g) : g[i] = g[j] => i = j
    BY <1>15 DEF IsOf
  <1>17. Cardinality(T) = Len(g)
    <2>1. g \in Injection(1..Len(g), T) BY <1>16 DEF Injection, IsInjective
    <2>2. g \in Surjection(1..Len(g), T) BY <1>16 DEF Surjection
    <2>3. ExistsBijection(1..Len(g), T) BY <2>1, <2>2 DEF Bijection, ExistsBijection
    <2>4. Len(g) \in Nat BY <1>15
    <2> QED BY <2>3, <2>4, FS_CountingElements
  <1>18. Cardinality(T) = k BY <1>2, <1>15, <1>17 DEF c
  <1>19. Range(g) = T BY <1>16 DEF Range
  <1>20. topHits(hits, k, sort, all) = Sorted(T, sort, all) BY <1>12, <1>19 DEF g
  <1> QED BY <1>15, <1>18, <1>20 DEF hits

(* The hits that no page needs, in any order.                              *)
LEMMA SomeSequence ==
    ASSUME NEW S, IsFiniteSet(S)
    PROVE  SetToSeq(S) \in [1..Cardinality(S) -> S]
  <1> DEFINE c == Cardinality(S)
  <1>1. ExistsBijection(1..c, S) BY FS_CardinalityType
  <1> HIDE DEF c
  <1>2. \E f \in [1..c -> S] : IsInjective(f)
    BY <1>1 DEF ExistsBijection, Bijection, Injection, IsInjective
  <1>3. SetToSeq(S) = CHOOSE f \in [1..c -> S] : IsInjective(f) BY DEF SetToSeq, c
  <1> QED BY <1>2, <1>3 DEF c

(* All hits are in a sequence of which the first part is sorted.           *)
LEMMA Bounded ==
    ASSUME NEW all, Tidy(all), NEW sort \in Seq(SortField),
           NEW limit \in Nat, limit # 0 \/ limit >= Cardinality(all),
           NEW p, p = sortHitsBounded(all, sort, limit)
    PROVE  /\ p \in [1..Cardinality(all) -> all]
           /\ \A n \in 1..Cardinality(all) : n <= limit => p[n] = Sorted(all, sort, all)[n]
  <1> DEFINE c == Cardinality(all)
             R == Before(all, sort, all)
             s == Sorted(all, sort, all)
  <1>1. Orders(R, all) /\ IsFiniteSet(all) /\ Arranges(s, all, R) BY PartOrdered
  <1>2. c \in Nat BY <1>1, FS_CardinalityType
  <1>3. s \in [1..c -> all] BY <1>1 DEF Arranges
  <1>4. CASE limit >= c
    <2>1. p = s BY <1>4 DEF sortHitsBounded
    <2> HIDE DEF c, s
    <2>2. p \in [1..c -> all] /\ \A n \in 1..c : n <= limit => p[n] = s[n] BY <1>3, <2>1
    <2> QED BY <2>2 DEF c, s
  <1>5. CASE limit < c
    <2> DEFINE top == topHits(Collected(all), limit, sort, all)
    <2>1. limit \in Nat \ {0} BY <1>2, <1>5
    <2>2. PICK T \in SUBSET all :
             /\ Cardinality(T) = limit
             /\ top = Sorted(T, sort, all)
             /\ \A t \in T, x \in all \ T : compareHitsLess(t, x, sort, all)
      BY <1>5, <2>1, TopHits
    <2> HIDE DEF top
    <2>3. Arranges(top, T, R) BY <2>2, PartOrdered
    <2>4. \A t \in T, x \in all \ T : <<t, x>> \in R BY <2>2, HitsOrdered
    <2>5. \A n \in 1..limit : top[n] = s[n]
      <3> HIDE DEF R, s
      <3> QED BY <1>1, <2>2, <2>3, <2>4, Prefix
    <2>6. top \in [1..limit -> T] /\ \A x \in T : \E n \in 1..limit : top[n] = x BY <2>2, <2>3 DEF Arranges
    <2>7. Range(top) = T BY <2>6 DEF Range
    <2> DEFINE rest == SetToSeq(all \ T)
    <2>8. IsFiniteSet(all \ T) /\ Cardinality(all \ T) = c - limit
      <3>1. all \intersect T = T OBVIOUS
      <3> QED BY <1>1, <2>2, <3>1, FS_Difference
    <2>9. rest \in [1..(c - limit) -> all \ T] BY <2>8, SomeSequence
    <2>10. p = top \o rest BY <1>2, <1>5, <2>7 DEF sortHitsBounded, top
    <2> HIDE DEF rest, c, s
    <2>11. top \in Seq(all) /\ Len(top) = limit /\ rest \in Seq(all) /\ Len(rest) = c - limit
      <3>1. c - limit \in Nat /\ limit \in Nat BY <1>2, <1>5
      <3>2. top \in [1..limit -> all] BY <2>6
      <3>3. rest \in [1..(c - limit) -> all] BY <2>9
      <3>4. top \in Seq(all) /\ Len(top) = limit BY <3>1, <3>2
      <3>5. rest \in Seq(all) /\ Len(rest) = c - limit BY <3>1, <3>3
      <3> QED BY <3>4, <3>5
    <2>12. p \in Seq(all) /\ Len(p) = c /\ \A n \in 1..limit : p[n] = top[n]
      <3>1. p \in Seq(all) /\ Len(p) = Len(top) + Len(rest) /\ \A n \in 1..Len(top) : p[n] = top[n]
        <4>1. top \in Seq(all) /\ rest \in Seq(all) BY <2>11
        <4>2. p \in Seq(all) BY <2>10, <4>1
        <4>3. Len(p) = Len(top) + Len(rest) BY <2>10, <4>1
        <4>4. \A n \in 1..Len(top) : p[n] = top[n] BY <2>10, <4>1
        <4> QED BY <4>2, <4>3, <4>4
      <3>2. limit + (c - limit) = c BY <1>2
      <3> QED BY <2>11, <3>1, <3>2
    <2>13. p \in [1..c -> all] BY <2>12
    <2>14. \A n \in 1..c : n <= limit => p[n] = s[n] BY <1>2, <2>5, <2>12
    <2> QED BY <2>13, <2>14 DEF c, s
  <1> QED BY <1>2, <1>4, <1>5

\* whether a hit is in the slice that is read
InSlice(h, r, id, shards) == r.max = 0 \/ sliceContains(h, id, r.max, shards)

\* the hits that a slice has to return
Eligible(r, id, shards, all) == Heads({h \in all : InSlice(h, r, id, shards)}, r, all)

(* Collapsed hits are the first ones of their values.                      *)
LEMMA CollapsedArranges ==
    ASSUME NEW all, Tidy(all), NEW r \in SearchRequest, r.collapse, NEW X \in SUBSET all,
           NEW s, Arranges(s, X, Before(all, r.sort, all))
    PROVE  Arranges(collapseHits(s), Heads(X, r, all), Before(all, r.sort, all))
  <1> DEFINE R == Before(all, r.sort, all)
             T == Heads(X, r, all)
             c == Cardinality(X)
             I == {n \in DOMAIN s : \A m \in 1..(n - 1) : s[m].value # s[n].value}
  <1>0. r.sort \in Seq(SortField) BY DEF SearchRequest, SortField
  <1>1. Orders(R, X) /\ IsFiniteSet(X) BY <1>0, PartOrdered
  <1>2. \A g, h : <<g, h>> \in R <=> g \in all /\ h \in all /\ compareHitsLess(g, h, r.sort, all) BY <1>0, HitsOrdered
  <1> HIDE DEF R
  <1>3. c \in Nat BY <1>1, FS_CardinalityType
  <1>4. /\ DOMAIN s = 1..c /\ \A n \in 1..c : s[n] \in X
        /\ \A x \in X : \E n \in 1..c : s[n] = x
        /\ \A m, n \in 1..c : m < n => <<s[m], s[n]>> \in R
    BY DEF Arranges, R
  <1> HIDE DEF c
  <1>5. T = {h \in X : \A g \in X : g.value = h.value => g = h \/ <<h, g>> \in R} BY <1>2 DEF Heads
  <1> HIDE DEF T
  <1>6. \A n \in 1..c : n \in I => s[n] \in T
    <2> SUFFICES ASSUME NEW n \in 1..c, n \in I, NEW g \in X, g.value = s[n].value
                 PROVE  g = s[n] \/ <<s[n], g>> \in R
      BY <1>4, <1>5
    <2>1. PICK m \in 1..c : s[m] = g BY <1>4
    <2>2. ~(m < n)
      <3> SUFFICES ASSUME m < n PROVE FALSE
        OBVIOUS
      <3>1. m \in 1..(n - 1) BY <1>3
      <3> QED BY <2>1, <3>1
    <2>3. m = n \/ n < m BY <1>3, <2>2
    <2> QED BY <1>4, <2>1, <2>3
  <1>7. \A n \in 1..c : s[n] \in T => n \in I
    <2> SUFFICES ASSUME NEW n \in 1..c, s[n] \in T, NEW m \in 1..(n - 1), s[m].value = s[n].value PROVE FALSE
      BY <1>4
    <2>1. m \in 1..c /\ m < n BY <1>3
    <2>2. <<s[m], s[n]>> \in R /\ s[m] \in X /\ s[n] \in X BY <1>4, <2>1
    <2>3. s[m] = s[n] \/ <<s[n], s[m]>> \in R BY <1>5, <2>2
    <2> QED BY <1>1, <2>2, <2>3 DEF Orders
  <1>8. I = {n \in DOMAIN s : s[n] \in T} BY <1>4, <1>6, <1>7
  <1>9. T \in SUBSET X BY <1>5
  <1>10. collapseHits(s) = Picked(s, I) BY DEF collapseHits
  <1> HIDE DEF I
  <1>11. Arranges(s, X, R) BY DEF R
  <1>12. Arranges(Picked(s, I), T, R) BY <1>1, <1>8, <1>9, <1>11, PickedArranges
  <1> QED BY <1>10, <1>12 DEF T, R

(* A search returns the hits of its slice, the first of them in order.     *)
LEMMA FoundAgrees ==
    ASSUME NEW all, Tidy(all), NEW r \in SearchRequest, NEW id, NEW shards,
           NEW limit \in Nat, limit # 0 \/ limit >= Cardinality(all),
           NEW E, E = Eligible(r, id, shards, all), NEW p, p = Found(r, id, shards, all, limit)
    PROVE  /\ E \in SUBSET all /\ Cardinality(E) \in Nat /\ Cardinality(E) <= Cardinality(all)
           /\ Orders(Before(all, r.sort, all), E) /\ IsFiniteSet(E)
           /\ Arranges(Sorted(E, r.sort, all), E, Before(all, r.sort, all))
           /\ p \in [1..Cardinality(E) -> E]
           /\ \A n \in 1..Cardinality(E) : n <= limit => p[n] = Sorted(E, r.sort, all)[n]
  <1> DEFINE R == Before(all, r.sort, all)
             X == {h \in all : InSlice(h, r, id, shards)}
             s == Sorted(all, r.sort, all)
             t == Sorted(E, r.sort, all)
             c == Cardinality(E)
  <1>0. r.sort \in Seq(SortField) /\ r.max \in Nat /\ r.collapse \in BOOLEAN BY DEF SearchRequest, SortField
  <1>1. E \in SUBSET X /\ X \in SUBSET all /\ E \in SUBSET all BY DEF Eligible, Heads
  <1>2. Orders(R, E) /\ IsFiniteSet(E) /\ Arranges(t, E, R) BY <1>0, <1>1, PartOrdered
  <1>3. Orders(R, all) /\ IsFiniteSet(all) /\ Arranges(s, all, R) BY <1>0, PartOrdered
  <1>4. c \in Nat /\ c <= Cardinality(all) /\ Cardinality(all) \in Nat BY <1>1, <1>2, <1>3, FS_Subset, FS_CardinalityType
  <1>5. CASE r.max = 0 /\ ~r.collapse
    <2>1. p = sortHitsBounded(all, r.sort, limit) BY <1>5 DEF Found
    <2>2. E = all BY <1>5 DEF Eligible, Heads, InSlice
    <2>3. /\ p \in [1..Cardinality(all) -> all]
          /\ \A n \in 1..Cardinality(all) : n <= limit => p[n] = s[n]
      BY <1>0, <2>1, Bounded
    <2> QED BY <1>1, <1>2, <1>4, <2>2, <2>3
  <1>6. ASSUME r.max # 0 \/ r.collapse PROVE Arranges(p, E, R)
    <2> DEFINE I == {n \in DOMAIN s : sliceContains(s[n], id, r.max, shards)}
               q == IF r.max = 0 THEN s ELSE Picked(s, I)
    <2>1. p = IF r.collapse THEN collapseHits(q) ELSE q BY <1>6 DEF Found, Sliced
    <2>2. Arranges(q, X, R)
      <3>1. CASE r.max = 0
        <4>1. X = all BY <3>1 DEF InSlice
        <4> QED BY <1>3, <3>1, <4>1
      <3>2. CASE r.max # 0
        <4>1. DOMAIN s = 1..Cardinality(all) /\ \A n \in 1..Cardinality(all) : s[n] \in all BY <1>3 DEF Arranges
        <4> HIDE DEF s
        <4>2. I = {n \in DOMAIN s : s[n] \in X} BY <3>2, <4>1 DEF InSlice
        <4> HIDE DEF I, X, R
        <4>3. Arranges(Picked(s, I), X, R) BY <1>1, <1>3, <4>2, PickedArranges
        <4> QED BY <3>2, <4>3
      <3> QED BY <3>1, <3>2
    <2> HIDE DEF q, R, X
    <2>3. CASE r.collapse
      <3>1. Arranges(collapseHits(q), Heads(X, r, all), R) BY <1>1, <2>2, <2>3, CollapsedArranges DEF R
      <3> QED BY <2>1, <2>3, <3>1 DEF Eligible, X
    <2>4. CASE ~r.collapse
      <3>1. E = X BY <2>4 DEF Eligible, X, Heads
      <3> QED BY <2>1, <2>2, <2>4, <3>1
    <2> QED BY <1>0, <2>3, <2>4
  <1>7. CASE r.max # 0 \/ r.collapse
    <2>1. Arranges(p, E, R) BY <1>6, <1>7
    <2>2. p \in [1..c -> E] BY <2>1 DEF Arranges
    <2>3. \A n \in 1..c : p[n] = t[n]
      <3>1. E \in SUBSET E /\ \A x \in E, y \in E \ E : <<x, y>> \in R OBVIOUS
      <3> HIDE DEF R, t
      <3> QED BY <1>2, <2>1, <3>1, Prefix
    <2> QED BY <1>1, <1>2, <1>4, <2>2, <2>3
  <1> QED BY <1>0, <1>5, <1>7

-----------------------------------------------------------------------------
(* Every hit is in one slice. *)

(* Quotients and remainders.                                               *)
LEMMA DivMod ==
    ASSUME NEW a \in Nat, NEW b \in Nat \ {0}
    PROVE  a \div b \in Nat /\ a % b \in 0..(b - 1)
  <1>1. a % b \in 0..(b - 1) OBVIOUS
  <1>2. a \div b \in Nat OBVIOUS
  <1> QED BY <1>1, <1>2

(* They are the only ones.                                                 *)
LEMMA DivModUnique ==
    ASSUME NEW b \in Nat \ {0}, NEW q \in Nat, NEW m \in 0..(b - 1)
    PROVE  (b * q + m) \div b = q /\ (b * q + m) % b = m
  <1> DEFINE a == b * q + m
  <1>1. a \in Nat OBVIOUS
  <1> DEFINE d == a \div b
             e == a % b
  <1>2. d \in Nat /\ e \in 0..(b - 1) /\ a = b * d + e
    <2> HIDE DEF a
    <2>1. d = a \div b /\ e = a % b OBVIOUS
    <2> HIDE DEF d, e
    <2>2. a = b * d + e BY <1>1, <2>1
    <2> QED BY <1>1, <2>1, <2>2, DivMod
  <1> HIDE DEF d, e
  <1>3. b * q + m = b * d + e BY <1>2
  <1>4. b * (q - d) = e - m BY <1>2, <1>3
  <1>5. e - m < b /\ m - e < b BY <1>2
  <1>6. ~(q - d >= 1)
    <2> SUFFICES ASSUME q - d >= 1 PROVE FALSE
      OBVIOUS
    <2>1. b * (q - d) >= b BY <1>2
    <2> QED BY <1>2, <1>4, <1>5, <2>1
  <1>7. ~(d - q >= 1)
    <2> SUFFICES ASSUME d - q >= 1 PROVE FALSE
      OBVIOUS
    <2>1. b * (d - q) >= b BY <1>2
    <2>2. b * (d - q) = m - e BY <1>2, <1>4
    <2> QED BY <1>2, <1>5, <2>1, <2>2
  <1>8. q = d BY <1>2, <1>6, <1>7
  <1>9. m = e BY <1>2, <1>3, <1>8
  <1> QED BY <1>8, <1>9 DEF d, e

(* A hit's shard is one of the shards.                                     *)
LEMMA ShardType ==
    ASSUME NEW id \in Id, NEW shards \in Nat \ {0}
    PROVE  shardOf(id, shards) \in 0..(shards - 1)
  <1> DEFINE a == ShardHash[id]
             f == RoutingFactor
             b == shards * f
             e == a % b
             d == e \div f
  <1>1. a \in Nat /\ f \in Nat \ {0} BY SearchAssumption
  <1> HIDE DEF a, f
  <1>2. b \in Nat \ {0} BY <1>1
  <1> HIDE DEF b
  <1>3. e \in 0..(b - 1) BY <1>1, <1>2, DivMod
  <1> HIDE DEF e
  <1>4. e \in Nat /\ e < b BY <1>2, <1>3
  <1> DEFINE m == e % f
  <1>b. d = e \div f /\ m = e % f OBVIOUS
  <1> HIDE DEF d, m
  <1>5. d \in Nat /\ m \in 0..(f - 1) /\ e = f * d + m
    <2>1. e = f * d + m BY <1>1, <1>4, <1>b
    <2> QED BY <1>1, <1>4, <1>b, <2>1, DivMod
  <1>6. f * d < shards * f
    <2> DEFINE p == f * d
    <2>1. p \in Nat /\ m \in 0..(f - 1) BY <1>1, <1>5
    <2>2. e < shards * f /\ shards * f \in Nat BY <1>2, <1>4 DEF b
    <2>3. e = p + m BY <1>5
    <2> HIDE DEF p
    <2>4. p <= e BY <1>1, <2>1, <2>3
    <2> QED BY <1>4, <2>1, <2>2, <2>4 DEF p
  <1>7. ~(d >= shards)
    <2> SUFFICES ASSUME d >= shards PROVE FALSE
      OBVIOUS
    <2>1. f * d >= f * shards BY <1>1, <1>5
    <2> QED BY <1>1, <1>5, <1>6, <2>1
  <1>8. d \in 0..(shards - 1) BY <1>5, <1>7
  <1> QED BY <1>8 DEF shardOf, a, b, d, e, f

(* Every hit is in one slice.                                              *)
LEMMA OneSlice ==
    ASSUME NEW shards \in Nat \ {0}, NEW max \in Nat \ {0}, NEW h, h.shard \in 0..(shards - 1),
           SliceHash[h.id] \in Nat
    PROVE  /\ \E id \in 0..(max - 1) : sliceContains(h, id, max, shards)
           /\ \A i, j \in 0..(max - 1) : sliceContains(h, i, max, shards) /\ sliceContains(h, j, max, shards) => i = j
  <1> DEFINE s == h.shard
             x == SliceHash[h.id]
             in(id) == sliceContains(h, id, max, shards)
  <1>0. s \in Nat /\ s < shards /\ x \in Nat OBVIOUS
  <1>a. ASSUME \E c \in 0..(max - 1) : \A id \in 0..(max - 1) : in(id) <=> id = c
        PROVE  /\ \E id \in 0..(max - 1) : in(id)
               /\ \A i, j \in 0..(max - 1) : in(i) /\ in(j) => i = j
    <2> HIDE DEF in
    <2> QED BY <1>a
  <1>1. SUFFICES \E c \in 0..(max - 1) : \A id \in 0..(max - 1) : in(id) <=> id = c
    BY <1>a
  <1>2. CASE shards = 1
    <2>1. \A id \in 0..(max - 1) : in(id) <=> x % max = id BY <1>2 DEF sliceContains, sliceSelection
    <2>2. x % max \in 0..(max - 1) BY <1>0, DivMod
    <2> HIDE DEF in, x
    <2> QED BY <2>1, <2>2
  <1>3. CASE shards # 1 /\ max < shards
    <2>0. ~(max >= shards) BY <1>3
    <2>1. \A id \in 0..(max - 1) : in(id) <=> s % max = id
      <3> SUFFICES ASSUME NEW id \in 0..(max - 1) PROVE in(id) <=> s % max = id
        OBVIOUS
      <3>1. s % max = id => sliceSelection(id, max, shards, s) = [in |-> TRUE, id |-> 0, max |-> 0]
        BY <1>3, <2>0 DEF sliceSelection
      <3>2. s % max # id => ~sliceSelection(id, max, shards, s).in BY <1>3, <2>0 DEF sliceSelection
      <3> QED BY <3>1, <3>2 DEF sliceContains
    <2>2. s % max \in 0..(max - 1) BY <1>0, DivMod
    <2> HIDE DEF in, s
    <2> QED BY <2>1, <2>2
  <1>4. CASE shards # 1 /\ max >= shards
    <2> DEFINE q == max \div shards
               rest == max % shards
               many(t) == q + (IF rest > t THEN 1 ELSE 0)
               n == many(s)
               k == x % n
               c == shards * k + s
    <2>1. q \in Nat /\ rest \in 0..(shards - 1) /\ max = shards * q + rest
      <3>1. q = max \div shards /\ rest = max % shards OBVIOUS
      <3> HIDE DEF q, rest
      <3>2. max = shards * q + rest BY <3>1
      <3> QED BY <3>1, <3>2, DivMod
    <2>a. n # 0
      <3> HIDE DEF q
      <3>1. rest \in Nat /\ q \in Nat /\ q # 0 BY <1>4, <2>1
      <3> QED BY <3>1
    <2>2. \A id \in 0..(max - 1) : in(id) <=> id % shards = s /\ (n = 1 \/ x % n = id \div shards)
      <3> SUFFICES ASSUME NEW id \in 0..(max - 1)
                   PROVE  in(id) <=> id % shards = s /\ (n = 1 \/ x % n = id \div shards)
        OBVIOUS
      <3>1. id % shards = s =>
              sliceSelection(id, max, shards, s)
                = [in |-> TRUE, id |-> id \div shards, max |-> IF n = 1 THEN 0 ELSE n]
        BY <1>4 DEF sliceSelection
      <3>2. id % shards # s => ~sliceSelection(id, max, shards, s).in BY <1>4 DEF sliceSelection
      <3> HIDE DEF n
      <3>3. CASE id % shards # s BY <3>2, <3>3 DEF sliceContains
      <3>4. CASE id % shards = s BY <2>a, <3>1, <3>4 DEF sliceContains
      <3> QED BY <3>3, <3>4
    <2> HIDE DEF q, rest, in, s, x
    <2>3. q >= 1
      <3>1. q # 0 BY <1>4, <2>1
      <3> QED BY <2>1, <3>1
    <2>4. n \in Nat \ {0} BY <1>0, <2>1, <2>3
    <2> HIDE DEF many
    <2>5. k \in 0..(n - 1) BY <1>0, <2>4, DivMod
    <2> HIDE DEF k
    <2>6. k \in Nat /\ k < n BY <2>4, <2>5
    <2>7. c \in Nat /\ c < max
      <3>1. shards * k \in Nat BY <2>6
      <3>2. CASE k < q
        <4>1. shards * (k + 1) <= shards * q BY <2>1, <2>6, <3>2
        <4>2. shards * (k + 1) = shards * k + shards BY <2>6
        <4>3. shards * q \in Nat BY <2>1
        <4> HIDE DEF c
        <4>4. c < shards * k + shards BY <1>0, <3>1 DEF c
        <4> QED BY <1>0, <2>1, <3>1, <4>1, <4>2, <4>3, <4>4 DEF c
      <3>3. CASE ~(k < q)
        <4>1. k = q /\ rest > s BY <1>0, <2>1, <2>4, <2>6, <3>3 DEF many
        <4> QED BY <1>0, <2>1, <3>1, <4>1
      <3> QED BY <3>2, <3>3
    <2>8. c % shards = s /\ c \div shards = k
      <3>1. s \in 0..(shards - 1) BY <1>0
      <3> QED BY <2>6, <3>1, DivModUnique
    <2>9. ASSUME NEW id \in 0..(max - 1), id % shards = s, n = 1 \/ k = id \div shards PROVE id = c
      <3> DEFINE d == id \div shards
      <3>1. d \in Nat /\ id = shards * d + s
        <4>1. id \in Nat OBVIOUS
        <4>2. d = id \div shards OBVIOUS
        <4> HIDE DEF d
        <4>3. s = id % shards BY <2>9
        <4>4. id = shards * d + s BY <4>1, <4>2, <4>3
        <4> QED BY <4>1, <4>2, <4>4, DivMod
      <3> HIDE DEF d
      <3>2. d < n
        <4> SUFFICES ASSUME d >= n PROVE FALSE
          BY <2>4, <3>1
        <4>1. d >= q BY <2>1, <2>4, <3>1 DEF many
        <4>2. shards * d >= shards * q /\ shards * d \in Nat /\ shards * q \in Nat BY <2>1, <3>1, <4>1
        <4>3. CASE rest > s
          <5>1. d >= q + 1 BY <2>1, <4>3 DEF many
          <5>2. shards * d >= shards * (q + 1) BY <2>1, <3>1, <5>1
          <5>3. shards * (q + 1) = shards * q + shards BY <2>1
          <5> QED BY <1>0, <2>1, <3>1, <4>2, <5>2, <5>3
        <4>4. CASE ~(rest > s)
          <5>1. shards * d + s >= shards * q + rest BY <1>0, <2>1, <4>2, <4>4
          <5> QED BY <2>1, <3>1, <5>1
        <4> QED BY <4>3, <4>4
      <3>3. d = k
        <4>1. CASE n = 1 BY <2>4, <2>6, <3>1, <3>2, <4>1
        <4>2. CASE k = id \div shards BY <4>2 DEF d
        <4> QED BY <2>9, <4>1, <4>2
      <3> QED BY <3>1, <3>3
    <2>10. c \in 0..(max - 1) BY <2>7
    <2>11. \A id \in 0..(max - 1) : in(id) <=> id = c
      <3> HIDE DEF c, n
      <3> QED BY <2>2, <2>8, <2>9, <2>10 DEF k
    <2> HIDE DEF c
    <2> QED BY <2>10, <2>11
  <1> QED BY <1>2, <1>3, <1>4

-----------------------------------------------------------------------------
(* Values that went through a float64. *)

\* tuples of a sort
Tuples(sort) == [DOMAIN sort -> Key]

(* Rounding keeps the order of keys, up to equality.                       *)
LEMMA RoundedKeys ==
    ASSUME NEW sort \in Seq(SortField), NEW all, IsFiniteSet(all), NEW h \in Hit
    PROVE  /\ Tuple(h, sort, all) \in Tuples(sort)
           /\ Rounded(Tuple(h, sort, all), sort) \in Tuples(sort)
  <1> DEFINE t == Tuple(h, sort, all)
  <1>1. t \in Tuples(sort) BY TupleKeys DEF Tuples
  <1>2. \A k \in DOMAIN sort : Rounded(t, sort)[k] \in Key
    <2> SUFFICES ASSUME NEW k \in DOMAIN sort PROVE Rounded(t, sort)[k] \in Key
      OBVIOUS
    <2>1. t[k] \in Key BY <1>1 DEF Tuples
    <2>2. CASE sort[k].field = "value" /\ t[k] # Missing
      <3>1. t[k] = h.value BY <2>2 DEF Tuple, SortKey
      <3>2. t[k] \in Value BY <2>2, <3>1 DEF Hit
      <3>3. Coarse(t[k]) \in Int BY <3>2, SearchAssumption
      <3> HIDE DEF t
      <3> QED BY <2>2, <3>3 DEF Rounded, Key
    <2>3. CASE ~(sort[k].field = "value" /\ t[k] # Missing)
      <3> HIDE DEF t
      <3> QED BY <2>1, <2>3 DEF Rounded
    <2> QED BY <2>2, <2>3
  <1>3. Rounded(t, sort) = [k \in DOMAIN sort |-> Rounded(t, sort)[k]] BY DEF Rounded
  <1> HIDE DEF t
  <1>4. Rounded(t, sort) \in Tuples(sort) BY <1>2, <1>3 DEF Tuples
  <1> QED BY <1>1, <1>4 DEF t

(* Of two keys in order, the rounded ones are in the same order or equal.  *)
LEMMA RoundedLess ==
    ASSUME NEW sort \in Seq(SortField), NEW all, IsFiniteSet(all), NEW g \in Hit, NEW h \in Hit, NEW k \in DOMAIN sort,
           NEW t, t = Tuple(g, sort, all), NEW u, u = Tuple(h, sort, all),
           compareKeysLess(t[k], u[k], sort[k])
    PROVE  /\ Rounded(t, sort)[k] = Rounded(u, sort)[k] \/ compareKeysLess(Rounded(t, sort)[k], Rounded(u, sort)[k], sort[k])
           /\ t[k] # u[k]
  <1>1. t[k] \in Key /\ u[k] \in Key /\ sort[k] \in SortField BY TupleKeys
  <1>2. t[k] # u[k] BY <1>1, SortKeysOrdered
  <1>3. CASE sort[k].field # "value"
    <2>1. Rounded(t, sort)[k] = t[k] /\ Rounded(u, sort)[k] = u[k] BY <1>3 DEF Rounded
    <2> QED BY <1>2, <2>1
  <1>4. CASE sort[k].field = "value"
    <2>1. t[k] = g.value /\ u[k] = h.value BY <1>4 DEF Tuple, SortKey
    <2>2. t[k] \in Value \union {Missing} /\ u[k] \in Value \union {Missing} BY <2>1 DEF Hit
    <2>3. /\ Rounded(t, sort)[k] = IF t[k] # Missing THEN Coarse(t[k]) ELSE t[k]
          /\ Rounded(u, sort)[k] = IF u[k] # Missing THEN Coarse(u[k]) ELSE u[k]
      BY <1>4 DEF Rounded
    <2>4. /\ Missing \notin Int /\ Value \subseteq Nat
          /\ \A v \in Value : Coarse(v) \in Int
          /\ \A v, w \in Value : v <= w => Coarse(v) <= Coarse(w)
      BY SearchAssumption
    <2> DEFINE a == t[k]
               b == u[k]
               s == sort[k]
    <2>5. s.desc \in BOOLEAN BY <1>1 DEF SortField
    <2>6. compareKeysLess(a, b, s) OBVIOUS
    <2> HIDE DEF a, b, s
    <2>7. CASE a = Missing \/ b = Missing
      <3>1. a # b /\ (a = Missing <=> s.missing = "_first") BY <2>6, <2>7 DEF compareKeysLess, keyLess
      <3>2. a = Missing => b \in Value BY <2>2, <3>1 DEF a, b
      <3>3. b = Missing => a \in Value BY <2>2, <3>1 DEF a, b
      <3>4. /\ a = Missing => compareKeysLess(a, Coarse(b), s)
            /\ b = Missing => compareKeysLess(Coarse(a), b, s)
        BY <2>4, <3>1, <3>2, <3>3 DEF compareKeysLess, keyLess
      <3> QED BY <1>2, <2>3, <2>7, <3>1, <3>4 DEF a, b, s
    <2>8. CASE a # Missing /\ b # Missing
      <3>1. a \in Value /\ b \in Value BY <2>2, <2>8 DEF a, b
      <3>2. a \in Int /\ b \in Int /\ Coarse(a) \in Int /\ Coarse(b) \in Int BY <2>4, <3>1
      <3>3. IF s.desc THEN b < a ELSE a < b BY <2>6, <2>8 DEF compareKeysLess, keyLess
      <3>4. IF s.desc THEN Coarse(b) <= Coarse(a) ELSE Coarse(a) <= Coarse(b) BY <2>4, <3>1, <3>2, <3>3
      <3>5. Coarse(a) = Coarse(b) \/ compareKeysLess(Coarse(a), Coarse(b), s)
        BY <2>4, <3>2, <3>4 DEF compareKeysLess, keyLess
      <3> QED BY <1>2, <2>3, <2>8, <3>5 DEF a, b, s
    <2> QED BY <2>7, <2>8
  <1> QED BY <1>3, <1>4, <1>2

(* Where a float64 tells values apart, hits are in the order of their      *)
(* rounded tuples.                                                         *)
LEMMA RoundedOrder ==
    ASSUME NEW sort \in Seq(SortField), NEW all, IsFiniteSet(all), NEW g \in Hit, NEW h \in Hit,
           FloatsDiffer(g, h, sort, all),
           TupleLess(Tuple(g, sort, all), Tuple(h, sort, all), sort)
    PROVE  TupleLess(Rounded(Tuple(g, sort, all), sort), Rounded(Tuple(h, sort, all), sort), sort)
  <1> DEFINE t == Tuple(g, sort, all)
             u == Tuple(h, sort, all)
  <1>1. PICK k \in DOMAIN sort : compareKeysLess(t[k], u[k], sort[k]) /\ \A j \in 1..(k - 1) : t[j] = u[j] BY DEF TupleLess
  <1>2. /\ Rounded(t, sort)[k] = Rounded(u, sort)[k] \/ compareKeysLess(Rounded(t, sort)[k], Rounded(u, sort)[k], sort[k])
        /\ t[k] # u[k]
    <2>1. t = Tuple(g, sort, all) /\ u = Tuple(h, sort, all) OBVIOUS
    <2> HIDE DEF t, u
    <2> QED BY <1>1, <2>1, RoundedLess
  <1>3. Rounded(t, sort)[k] = Rounded(u, sort)[k] => t[k] = u[k] BY DEF FloatsDiffer
  <1> HIDE DEF t, u
  <1>4. \A j \in 1..(k - 1) : Rounded(t, sort)[j] = Rounded(u, sort)[j]
    <2> SUFFICES ASSUME NEW j \in 1..(k - 1) PROVE Rounded(t, sort)[j] = Rounded(u, sort)[j]
      OBVIOUS
    <2>1. j \in DOMAIN sort OBVIOUS
    <2> QED BY <1>1, <2>1 DEF Rounded
  <1> QED BY <1>1, <1>2, <1>3, <1>4 DEF TupleLess, t, u

(* Over the live indices tuples do not depend on the other hits.           *)
LEMMA TuplesStay ==
    ASSUME NEW r \in Requests, ~r.pit, NEW all, NEW other
    PROVE  /\ \A h : Tuple(h, r.sort, all) = Tuple(h, r.sort, other)
           /\ \A g, h : FloatsDiffer(g, h, r.sort, all) <=> FloatsDiffer(g, h, r.sort, other)
           /\ \A h, returned : Exact(h, r, all, returned) <=> Exact(h, r, other, returned)
           /\ \A h, returned : ToldApart(h, r, all, returned) <=> ToldApart(h, r, other, returned)
  <1>1. \A k \in DOMAIN r.sort : r.sort[k].field # "_shard_doc" BY SearchAssumption DEF Valid
  <1>2. \A h : Tuple(h, r.sort, all) = Tuple(h, r.sort, other)
    <2> SUFFICES ASSUME NEW h, NEW k \in DOMAIN r.sort
                 PROVE  SortKey(h, r.sort[k], all) = SortKey(h, r.sort[k], other)
      BY DEF Tuple
    <2>1. r.sort[k].field # "_shard_doc" BY <1>1
    <2> QED BY <2>1 DEF SortKey
  <1>3. \A g, h : FloatsDiffer(g, h, r.sort, all) <=> FloatsDiffer(g, h, r.sort, other) BY <1>2 DEF FloatsDiffer
  <1>4. \A h, returned : Exact(h, r, all, returned) <=> Exact(h, r, other, returned) BY <1>3 DEF Exact
  <1>5. \A h, returned : ToldApart(h, r, all, returned) <=> ToldApart(h, r, other, returned) BY <1>2, <1>4 DEF ToldApart
  <1> QED BY <1>2, <1>3, <1>4, <1>5

-----------------------------------------------------------------------------
(* Pages: cutting sequences, and adding to what was read. *)

\* p has the first n of the c entries of s
IsTake(p, s, c, n, T) ==
    /\ n < c => p \in [1..n -> T]
    /\ ~(n < c) => p \in [1..c -> T]
    /\ \A i \in 1..c : i <= n => p[i] = s[i]

\* and this the others
IsDrop(d, s, c, n, T) ==
    /\ n < c => d \in [1..(c - n) -> T]
    /\ ~(n < c) => d = <<>>
    /\ \A i \in 1..(c - n) : d[i] = s[n + i]

(* The entries that Take takes.                                            *)
LEMMA TakeEntries ==
    ASSUME NEW T, NEW c \in Nat, NEW s \in [1..c -> T], NEW n \in Nat
    PROVE  IsTake(Take(s, n), s, c, n, T)
  <1>1. s \in Seq(T) /\ Len(s) = c OBVIOUS
  <1>2. CASE n < c
    <2>1. Take(s, n) = SubSeq(s, 1, n) BY <1>1, <1>2 DEF Take
    <2> DEFINE u == SubSeq(s, 1, n)
    <2>a. Len(u) = n BY <1>1, <1>2
    <2>b. u \in Seq(T) BY <1>1, <1>2
    <2>c. \A i \in 1..n : u[i] = s[i] BY <1>1, <1>2
    <2>2. u = Take(s, n) BY <2>1
    <2> HIDE DEF u
    <2>3. u \in [1..n -> T] BY <2>a, <2>b
    <2> QED BY <1>2, <2>c, <2>2, <2>3 DEF IsTake
  <1>3. CASE ~(n < c)
    <2>1. Take(s, n) = SubSeq(s, 1, c) BY <1>1, <1>3 DEF Take
    <2> DEFINE u == SubSeq(s, 1, c)
    <2>a. Len(u) = c BY <1>1
    <2>b. u \in Seq(T) BY <1>1
    <2>c. \A i \in 1..c : u[i] = s[i] BY <1>1
    <2>2. u = Take(s, n) BY <2>1
    <2> HIDE DEF u
    <2>3. u \in [1..c -> T] BY <2>a, <2>b
    <2> QED BY <1>3, <2>c, <2>2, <2>3 DEF IsTake
  <1> QED BY <1>2, <1>3

(* And those that Drop leaves.                                             *)
LEMMA DropEntries ==
    ASSUME NEW T, NEW c \in Nat, NEW s \in [1..c -> T], NEW n \in Nat
    PROVE  IsDrop(Drop(s, n), s, c, n, T)
  <1>1. s \in Seq(T) /\ Len(s) = c OBVIOUS
  <1>2. Drop(s, n) = SubSeq(s, n + 1, c) BY <1>1 DEF Drop
  <1>3. CASE n < c
    <2> DEFINE u == SubSeq(s, n + 1, c)
    <2>1. Len(u) = c - n BY <1>1, <1>3
    <2>2. u \in Seq(T) BY <1>1, <1>3
    <2>3. \A i \in 1..(c - n) : u[i] = s[n + i] BY <1>1, <1>3
    <2>4. u = Drop(s, n) BY <1>2
    <2> HIDE DEF u
    <2>5. u \in [1..(c - n) -> T] BY <2>1, <2>2
    <2> QED BY <1>3, <2>3, <2>4, <2>5 DEF IsDrop
  <1>4. CASE ~(n < c)
    <2>1. SubSeq(s, n + 1, c) = <<>> BY <1>1, <1>4
    <2>2. \A i \in 1..(c - n) : FALSE BY <1>4
    <2> QED BY <1>2, <1>4, <2>1, <2>2 DEF IsDrop
  <1> QED BY <1>3, <1>4

\* the page has the first members of X in the order of R
Opens(page, X, R) ==
    /\ Len(page) \in Nat /\ page \in [1..Len(page) -> X]
    /\ \A m, n \in 1..Len(page) : m < n => <<page[m], page[n]>> \in R
    /\ Len(page) = 0 => X = {}
    /\ \A x \in X : \/ \E n \in 1..Len(page) : page[n] = x
                    \/ \A n \in 1..Len(page) : <<page[n], x>> \in R

(* Where the first entries of a sequence are in order, so is the page, and *)
(* the members that it lacks come after it.                                *)
LEMMA TakeOpens ==
    ASSUME NEW X, IsFiniteSet(X), NEW R, NEW s, Arranges(s, X, R), NEW size \in Nat \ {0},
           NEW q, q \in [1..Cardinality(X) -> X], \A n \in 1..Cardinality(X) : n <= size => q[n] = s[n]
    PROVE  Opens(Take(q, size), X, R)
  <1> DEFINE c == Cardinality(X)
             p == Take(q, size)
             k == IF size < c THEN size ELSE c
  <1>1. c \in Nat /\ (c = 0 => X = {}) BY FS_CardinalityType, FS_EmptySet
  <1>2. /\ \A x \in X : \E n \in 1..c : s[n] = x
        /\ \A m, n \in 1..c : m < n => <<s[m], s[n]>> \in R
    BY DEF Arranges
  <1> HIDE DEF c
  <1>3. /\ size < c => p \in [1..size -> X]
        /\ ~(size < c) => p \in [1..c -> X]
        /\ \A i \in 1..c : i <= size => p[i] = q[i]
    <2>1. IsTake(p, q, c, size, X) BY <1>1, TakeEntries DEF c
    <2> HIDE DEF p
    <2> QED BY <2>1 DEF IsTake
  <1> HIDE DEF p
  <1>4. k \in Nat /\ k <= c /\ k <= size /\ (k = 0 => c = 0) /\ (k < c => k = size) BY <1>1
  <1>5. p \in [1..k -> X] BY <1>3
  <1> HIDE DEF k
  <1>6. Len(p) = k BY <1>4, <1>5
  <1>7. \A i \in 1..k : i \in 1..c /\ p[i] = s[i]
    <2> SUFFICES ASSUME NEW i \in 1..k PROVE i \in 1..c /\ p[i] = s[i]
      OBVIOUS
    <2>1. i \in 1..c /\ i <= size BY <1>1, <1>4
    <2>2. q[i] = s[i] BY <2>1 DEF c
    <2> QED BY <1>3, <2>1, <2>2
  <1>8. \A m, n \in 1..k : m < n => <<p[m], p[n]>> \in R BY <1>2, <1>7
  <1>9. \A x \in X : (\E n \in 1..k : p[n] = x) \/ \A n \in 1..k : <<p[n], x>> \in R
    <2> SUFFICES ASSUME NEW x \in X PROVE (\E n \in 1..k : p[n] = x) \/ \A n \in 1..k : <<p[n], x>> \in R
      OBVIOUS
    <2>1. PICK m \in 1..c : s[m] = x BY <1>2
    <2>2. CASE m <= k
      <3>1. m \in 1..k BY <1>1, <1>4, <2>2
      <3> QED BY <1>7, <2>1, <3>1
    <2>3. CASE ~(m <= k)
      <3>1. \A n \in 1..k : n < m BY <1>1, <1>4, <2>3
      <3> QED BY <1>2, <1>7, <2>1, <3>1
    <2> QED BY <2>2, <2>3
  <1>10. k = 0 => X = {} BY <1>1, <1>4
  <1> QED BY <1>4, <1>5, <1>6, <1>8, <1>9, <1>10 DEF Opens, p

\* the client has a hit, or its bucket, once
Once(r, h, g) ==
    \E n \in 1..Len(g) : Holds(r, h, g[n]) /\ \A m \in 1..Len(g) : Holds(r, h, g[m]) => m = n

\* and it does not have it
Never(r, h, g) == \A n \in 1..Len(g) : ~Holds(r, h, g[n])

(* A page adds what was not there.                                         *)
LEMMA JoinedOnce ==
    ASSUME NEW T, NEW g \in Seq(T), NEW page \in Seq(T), NEW r, NEW h, NEW P, NEW Q,
           IF h \in P THEN Once(r, h, g) ELSE Never(r, h, g),
           h \in Q <=> h \in P \/ ~Never(r, h, page),
           h \in P => Never(r, h, page),
           \A m, n \in 1..Len(page) : Holds(r, h, page[m]) /\ Holds(r, h, page[n]) => m = n
    PROVE  IF h \in Q THEN Once(r, h, g \o page) ELSE Never(r, h, g \o page)
  <1> DEFINE j == g \o page
             a == Len(g)
             b == Len(page)
             holds(x) == Holds(r, h, x)
  <1>1. a \in Nat /\ b \in Nat OBVIOUS
  <1>2. Len(j) = a + b OBVIOUS
  <1>3. \A n \in 1..a : j[n] = g[n] OBVIOUS
  <1>4. \A n \in 1..b : j[a + n] = page[n] OBVIOUS
  <1>5. \A n \in 1..(a + b) : n \in 1..a \/ \E m \in 1..b : n = a + m
    <2> SUFFICES ASSUME NEW n \in 1..(a + b), n \notin 1..a PROVE \E m \in 1..b : n = a + m
      OBVIOUS
    <2>1. n - a \in 1..b /\ n = a + (n - a) BY <1>1
    <2> QED BY <2>1
  <1>a. /\ Once(r, h, g) <=> \E n \in 1..a : holds(g[n]) /\ \A m \in 1..a : holds(g[m]) => m = n
        /\ Never(r, h, g) <=> \A n \in 1..a : ~holds(g[n])
        /\ Never(r, h, page) <=> \A n \in 1..b : ~holds(page[n])
        /\ \A m, n \in 1..b : holds(page[m]) /\ holds(page[n]) => m = n
    BY DEF Once, Never
  <1>b. /\ Once(r, h, j) <=> \E n \in 1..(a + b) : holds(j[n]) /\ \A m \in 1..(a + b) : holds(j[m]) => m = n
        /\ Never(r, h, j) <=> \A n \in 1..(a + b) : ~holds(j[n])
    BY <1>2 DEF Once, Never
  <1> HIDE DEF j, a, b, holds
  <1>6. CASE h \in P
    <2>1. h \in Q /\ Never(r, h, page) BY <1>6
    <2>2. PICK n \in 1..a : holds(g[n]) /\ \A m \in 1..a : holds(g[m]) => m = n BY <1>6, <1>a
    <2>3. n \in 1..(a + b) /\ holds(j[n]) BY <1>1, <1>3, <2>2
    <2>4. \A m \in 1..(a + b) : holds(j[m]) => m = n BY <1>3, <1>4, <1>5, <1>a, <2>1, <2>2
    <2> QED BY <1>b, <2>1, <2>3, <2>4 DEF j
  <1>7. CASE h \notin P /\ ~Never(r, h, page)
    <2>1. h \in Q /\ Never(r, h, g) BY <1>7
    <2>2. PICK n \in 1..b : holds(page[n]) BY <1>7, <1>a
    <2>3. a + n \in 1..(a + b) /\ holds(j[a + n]) BY <1>1, <1>4, <2>2
    <2>4. \A m \in 1..(a + b) : holds(j[m]) => m = a + n BY <1>3, <1>4, <1>5, <1>a, <2>1, <2>2
    <2> QED BY <1>b, <2>1, <2>3, <2>4 DEF j
  <1>8. CASE h \notin P /\ Never(r, h, page)
    <2>1. h \notin Q /\ Never(r, h, g) BY <1>8
    <2>2. \A n \in 1..(a + b) : ~holds(j[n]) BY <1>3, <1>4, <1>5, <1>8, <1>a, <2>1
    <2> QED BY <1>b, <2>1, <2>2 DEF j
  <1> QED BY <1>6, <1>7, <1>8

-----------------------------------------------------------------------------
(* Where the client is, and a page by offset. *)

\* what a composite aggregation returns
Bucket == [value : Key, count : Nat]

\* what a page has
Entries(r) == IF r.how = "composite" THEN Bucket ELSE Hit

\* the hits of a slice that a scroll has kept, each once and in order
Queued(hits, r, id, shards, all) ==
    /\ Len(hits) \in Nat /\ hits \in [1..Len(hits) -> Hit]
    /\ \A n \in 1..Len(hits) : InSlice(hits[n], r, id, shards)
    /\ \A m, n \in 1..Len(hits) : m < n =>
         /\ hits[m] # hits[n]
         /\ ~TupleLess(Tuple(hits[n], r.sort, all), Tuple(hits[m], r.sort, all), r.sort)

\* where the client is allowed to be
PlaceOK(r, id, shards, all, at) ==
    \/ at = NoTuple
    \/ r.how = "from" /\ at \in Nat
    \/ r.how = "after" /\ at \in Tuples(r.sort)
    \/ r.how = "scroll" /\ Queued(at, r, id, shards, all)
    \/ r.how = "composite" /\ at \in [{1} -> Key]

\* what is behind the client's place, which is not at the start of a slice
Reached(h, r, id, shards, all, at) ==
    /\ at # NoTuple
    /\ r.how = "from" => \E n \in 1..Cardinality(Eligible(r, id, shards, all)) :
                            n <= at /\ Sorted(Eligible(r, id, shards, all), r.sort, all)[n] = h
    /\ r.how = "after" => ~TupleLess(at, Rounded(Tuple(h, r.sort, all), r.sort), r.sort)
    /\ r.how = "scroll" => \A n \in 1..Len(at) : at[n] # h
    /\ r.how = "composite" => ~compositeLess(at[1], h.value, r.sort[1])

\* the next page has what is not behind, and then it is
Advances(page, next, h, r, id, shards, all, at) ==
    /\ \A n \in 1..Len(page) : Holds(r, h, page[n]) => InSlice(h, r, id, shards) /\ ~Reached(h, r, id, shards, all, at)
    /\ \A m, n \in 1..Len(page) : Holds(r, h, page[m]) /\ Holds(r, h, page[n]) => m = n
    /\ Len(page) = 0 /\ InSlice(h, r, id, shards) => Reached(h, r, id, shards, all, at)
    /\ Len(page) # 0 /\ InSlice(h, r, id, shards) =>
            (Reached(h, r, id, shards, all, next) <=> Reached(h, r, id, shards, all, at) \/ ~Never(r, h, page))

\* x is before the client's place in the order of the sort
Precedes(x, r, id, shards, all, at, returned) ==
    /\ at # NoTuple
    /\ r.how = "from" => Reached(x, r, id, shards, all, at)
    /\ r.how = "after" => (Exact(x, r, all, returned) => Reached(x, r, id, shards, all, at))
    /\ r.how = "scroll" => \A n \in 1..Len(at) : ~TupleLess(Tuple(at[n], r.sort, all), Tuple(x, r.sort, all), r.sort)
    /\ r.how = "composite" => Reached(x, r, id, shards, all, at)

\* the next page follows what is before it
Follows(page, next, r, id, shards, all, at, returned) ==
    /\ \A x \in Entries(r) : \A n \in 1..Len(page) :
         x \in Range(returned) /\ Precedes(x, r, id, shards, all, at, returned)
            => InSequence(x, page[n], r, all, returned \o page)
    /\ \A m, n \in 1..Len(page) : m < n => InSequence(page[m], page[n], r, all, returned \o page)
    /\ Len(page) # 0 => \A x \in Entries(r) :
         (x \in Range(returned) /\ Precedes(x, r, id, shards, all, at, returned)) \/ (\E n \in 1..Len(page) : page[n] = x)
            => Precedes(x, r, id, shards, all, next, returned \o page)

\* the page has size of the c entries of s, after from others
IsPart(page, s, c, from, size, E) ==
    /\ Len(page) \in Nat /\ page \in [1..Len(page) -> E]
    /\ \A n \in 1..Len(page) : from + n \in 1..c /\ n <= size /\ page[n] = s[from + n]
    /\ \A m \in 1..c : from < m /\ m <= from + size => m - from \in 1..Len(page)
    /\ Len(page) = 0 => c <= from

(* A page by offset.                                                       *)
LEMMA FromPage ==
    ASSUME NEW all, Tidy(all), NEW r \in SearchRequest, NEW id, NEW shards, NEW from \in Nat,
           NEW E, E = Eligible(r, id, shards, all),
           NEW page, page = Take(Drop(Found(r, id, shards, all, from + r.size), from), r.size)
    PROVE  IsPart(page, Sorted(E, r.sort, all), Cardinality(E), from, r.size, E)
  <1> DEFINE c == Cardinality(E)
             F == Sorted(E, r.sort, all)
             f == Found(r, id, shards, all, from + r.size)
             d == Drop(f, from)
             k == IF from < c THEN c - from ELSE 0
             l == IF r.size < k THEN r.size ELSE k
  <1>1. r.size \in Nat /\ r.size # 0 BY DEF SearchRequest
  <1>2. c \in Nat /\ f \in [1..c -> E] /\ \A n \in 1..c : n <= from + r.size => f[n] = F[n]
    <2>1. from + r.size \in Nat /\ from + r.size # 0 BY <1>1
    <2> HIDE DEF f, F
    <2>2. f = Found(r, id, shards, all, from + r.size) BY DEF f
    <2> QED BY <2>1, <2>2, FoundAgrees DEF F
  <1> HIDE DEF c, f, F
  <1>3. /\ from < c => d \in [1..(c - from) -> E]
        /\ ~(from < c) => d = <<>>
        /\ \A i \in 1..(c - from) : d[i] = f[from + i]
    <2>1. from \in Nat /\ c \in Nat /\ f \in [1..c -> E] BY <1>2
    <2>2. IsDrop(Drop(f, from), f, c, from, E) BY <2>1, DropEntries
    <2> QED BY <2>2 DEF IsDrop
  <1> HIDE DEF d
  <1>4. k \in Nat /\ d \in [1..k -> E]
    <2>1. CASE from < c BY <1>2, <1>3, <2>1
    <2>2. CASE ~(from < c)
      <3>1. <<>> \in [1..0 -> E] OBVIOUS
      <3> QED BY <1>3, <2>2, <3>1
    <2> QED BY <2>1, <2>2
  <1>5. \A i \in 1..k : from + i \in 1..c /\ d[i] = f[from + i] BY <1>2, <1>3
  <1>6. page = Take(d, r.size) BY DEF d, f
  <1>7. /\ r.size < k => page \in [1..r.size -> E]
        /\ ~(r.size < k) => page \in [1..k -> E]
        /\ \A i \in 1..k : i <= r.size => page[i] = d[i]
    <2> HIDE DEF k
    <2>1. r.size \in Nat BY <1>1
    <2>2. IsTake(page, d, k, r.size, E) BY <1>4, <1>6, <2>1, TakeEntries
    <2> QED BY <2>2 DEF IsTake
  <1>8. l \in Nat /\ page \in [1..l -> E] /\ Len(page) = l
    <2> HIDE DEF k
    <2>1. l \in Nat /\ page \in [1..l -> E] BY <1>1, <1>4, <1>7
    <2> HIDE DEF l
    <2> QED BY <2>1
  <1>9. \A n \in 1..l : from + n \in 1..c /\ n <= r.size /\ page[n] = F[from + n]
    <2> SUFFICES ASSUME NEW n \in 1..l PROVE from + n \in 1..c /\ n <= r.size /\ page[n] = F[from + n]
      OBVIOUS
    <2>1. n \in 1..k /\ n <= r.size /\ n \in Nat
      <3> HIDE DEF k
      <3> QED BY <1>1, <1>4
    <2>2. page[n] = f[from + n] /\ from + n \in 1..c BY <1>5, <1>7, <2>1
    <2>3. from + n <= from + r.size BY <1>1, <2>1
    <2> QED BY <1>2, <2>1, <2>2, <2>3
  <1>10. \A m \in 1..c : from < m /\ m <= from + r.size => m - from \in 1..l BY <1>1, <1>2
  <1>11. l = 0 => c <= from BY <1>1, <1>2
  <1> HIDE DEF l
  <1>12. IsPart(page, F, c, from, r.size, E) BY <1>8, <1>9, <1>10, <1>11 DEF IsPart
  <1> QED BY <1>12 DEF c, F

(* A page by offset has what the client has not passed, and then it has.   *)
LEMMA FromAdvances ==
    ASSUME NEW all, Tidy(all), NEW r \in SearchRequest, r.how = "from", NEW id, NEW shards,
           NEW at, at = NoTuple \/ at \in Nat, NEW from, from = IF at = NoTuple THEN 0 ELSE at,
           NEW page, page = Take(Drop(Found(r, id, shards, all, from + r.size), from), r.size),
           NEW h, InSlice(h, r, id, shards) <=> h \in Eligible(r, id, shards, all)
    PROVE  Advances(page, from + r.size, h, r, id, shards, all, at)
  <1> DEFINE E == Eligible(r, id, shards, all)
             c == Cardinality(E)
             F == Sorted(E, r.sort, all)
             k == Len(page)
             in == InSlice(h, r, id, shards)
             Before0(x) == x # NoTuple /\ \E n \in 1..c : n <= x /\ F[n] = h
             next == from + r.size
  <1>1. from \in Nat /\ r.size \in Nat /\ r.size # 0 /\ next # NoTuple /\ next \in Nat
    BY SearchAssumption DEF SearchRequest
  <1>2. /\ k \in Nat
        /\ \A n \in 1..k : from + n \in 1..c /\ n <= r.size /\ page[n] = F[from + n]
        /\ \A m \in 1..c : from < m /\ m <= from + r.size => m - from \in 1..k
        /\ k = 0 => c <= from
    <2>1. from \in Nat /\ E = Eligible(r, id, shards, all) BY <1>1
    <2> HIDE DEF E
    <2>2. IsPart(page, F, c, from, r.size, E) BY <2>1, FromPage
    <2> QED BY <2>2 DEF IsPart
  <1>3. /\ c \in Nat
        /\ \A x \in E : \E n \in 1..c : F[n] = x
        /\ \A n \in 1..c : F[n] \in E
        /\ \A m, n \in 1..c : F[m] = F[n] => m = n
    <2>1. r.sort \in Seq(SortField) BY DEF SearchRequest, SortField
    <2>2. E \in SUBSET all BY DEF Eligible, Heads
    <2>3. Orders(Before(all, r.sort, all), E) /\ IsFiniteSet(E) /\ Arranges(F, E, Before(all, r.sort, all))
      BY <2>1, <2>2, PartOrdered
    <2>4. c \in Nat BY <2>3, FS_CardinalityType
    <2>5. \A m, n \in 1..c : F[m] = F[n] => m = n BY <2>3, ArrangedOnce
    <2> QED BY <2>3, <2>4, <2>5 DEF Arranges
  <1>4. \A x : Reached(h, r, id, shards, all, x) <=> Before0(x) BY DEF Reached
  <1>5. \A n : Holds(r, h, page[n]) <=> page[n] = h BY DEF Holds
  <1>6. ~Never(r, h, page) <=> \E n \in 1..k : page[n] = h BY <1>5 DEF Never
  <1>7. h \in E <=> in OBVIOUS
  <1>8. \A n : Before0(at) /\ n \in 1..c /\ F[n] = h => n <= from BY <1>3
  <1>9. \A n \in 1..c : n <= from => (F[n] = h => Before0(at))
    <2> SUFFICES ASSUME NEW n \in 1..c, n <= from, F[n] = h PROVE Before0(at)
      OBVIOUS
    <2>1. at # NoTuple BY <1>1
    <2> QED BY <2>1
  <1> HIDE DEF E, c, F, k, in
  <1>10. \A n \in 1..k : page[n] = h => in /\ ~Before0(at)
    <2> SUFFICES ASSUME NEW n \in 1..k, page[n] = h PROVE in /\ ~Before0(at)
      OBVIOUS
    <2>1. from + n \in 1..c /\ F[from + n] = h /\ n \in Nat /\ n >= 1 BY <1>2
    <2>2. ~(from + n <= from) BY <1>1, <2>1
    <2> QED BY <1>3, <1>7, <1>8, <2>1, <2>2
  <1>11. \A m, n \in 1..k : page[m] = h /\ page[n] = h => m = n
    <2> SUFFICES ASSUME NEW m \in 1..k, NEW n \in 1..k, page[m] = h, page[n] = h PROVE m = n
      OBVIOUS
    <2>1. from + m = from + n BY <1>2, <1>3
    <2>2. m \in Nat /\ n \in Nat BY <1>2
    <2> QED BY <1>1, <2>1, <2>2
  <1>12. k = 0 /\ in => Before0(at)
    <2> SUFFICES ASSUME k = 0, in PROVE Before0(at)
      OBVIOUS
    <2>1. PICK n \in 1..c : F[n] = h BY <1>3, <1>7
    <2>2. n <= from BY <1>1, <1>2, <1>3
    <2> QED BY <1>9, <2>1, <2>2
  <1>13. in => (Before0(next) <=> Before0(at) \/ \E n \in 1..k : page[n] = h)
    <2> SUFFICES ASSUME in PROVE Before0(next) <=> Before0(at) \/ \E n \in 1..k : page[n] = h
      OBVIOUS
    <2>1. PICK n \in 1..c : F[n] = h BY <1>3, <1>7
    <2>2. Before0(next) <=> n <= next BY <1>1, <1>3, <2>1
    <2>3. Before0(at) <=> n <= from BY <1>8, <1>9, <2>1
    <2>4. (\E m \in 1..k : page[m] = h) <=> from < n /\ n <= next
      <3>1. ASSUME NEW m \in 1..k, page[m] = h PROVE from < n /\ n <= next
        <4>1. from + m = n /\ m <= r.size /\ m \in Nat /\ m >= 1 BY <1>2, <1>3, <2>1, <3>1
        <4> QED BY <1>1, <4>1
      <3>2. ASSUME from < n, n <= next PROVE \E m \in 1..k : page[m] = h
        <4>1. n - from \in 1..k BY <1>2, <3>2
        <4>2. from + (n - from) = n BY <1>1, <1>3
        <4> QED BY <1>2, <2>1, <4>1, <4>2
      <3> QED BY <3>1, <3>2
    <2>5. n \in Nat BY <1>3
    <2> QED BY <1>1, <2>2, <2>3, <2>4, <2>5
  <1> HIDE DEF Before0, next
  <1>14. Advances(page, next, h, r, id, shards, all, at)
    BY <1>4, <1>5, <1>6, <1>10, <1>11, <1>12, <1>13 DEF Advances, k, in
  <1> QED BY <1>14 DEF next

-----------------------------------------------------------------------------
(* A page of search_after. *)

\* the hits of a slice that come after a tuple
After(r, id, shards, all, at) ==
    {h \in Eligible(r, id, shards, all) :
        at = NoTuple \/ TupleLess(at, Rounded(Tuple(h, r.sort, all), r.sort), r.sort)}

(* A page of search_after.                                                 *)
LEMMA AfterPage ==
    ASSUME NEW all, Tidy(all), NEW r \in SearchRequest, NEW id, NEW shards, NEW at,
           NEW page, page = Take(FoundAfter(r, id, shards, all, at), r.size)
    PROVE  Opens(page, After(r, id, shards, all, at), Before(all, r.sort, all))
  <1> DEFINE E == Eligible(r, id, shards, all)
             X == After(r, id, shards, all, at)
             R == Before(all, r.sort, all)
             F == Sorted(E, r.sort, all)
             c == Cardinality(E)
             found(n) == Found(r, id, shards, all, n)
             after(h) == TupleLess(at, Rounded(Tuple(h, r.sort, all), r.sort), r.sort)
  <1>1. r.size \in Nat \ {0} /\ r.sort \in Seq(SortField) BY DEF SearchRequest, SortField
  <1>2. E \in SUBSET all BY DEF Eligible, Heads
  <1>3. Orders(R, E) /\ IsFiniteSet(E) /\ Arranges(F, E, R) BY <1>1, <1>2, PartOrdered
  <1>4. c \in Nat BY <1>3, FS_CardinalityType
  <1>5. CASE at = NoTuple
    <2>1. page = Take(found(r.size), r.size) BY <1>5 DEF FoundAfter
    <2>2. X = E BY <1>5 DEF After
    <2> DEFINE q == found(r.size)
    <2>3. q \in [1..c -> E] /\ \A n \in 1..c : n <= r.size => q[n] = F[n]
      <3>1. r.size \in Nat /\ r.size # 0 BY <1>1
      <3>2. E = Eligible(r, id, shards, all) /\ q = Found(r, id, shards, all, r.size) OBVIOUS
      <3> HIDE DEF E, q
      <3> QED BY <3>1, <3>2, FoundAgrees
    <2> HIDE DEF q, E, X, R, F
    <2>4. Opens(Take(q, r.size), E, R) BY <1>1, <1>3, <2>3, TakeOpens
    <2> QED BY <2>1, <2>2, <2>4 DEF q, X, R
  <1>6. CASE at # NoTuple
    <2> DEFINE f == found(Cardinality(all))
               I == {n \in DOMAIN f : after(f[n])}
    <2>1. page = Take(Picked(f, I), r.size) BY <1>6 DEF FoundAfter
    <2>2. X = {h \in E : after(h)} BY <1>6 DEF After
    <2>3. f \in [1..c -> E] /\ \A n \in 1..c : f[n] = F[n]
      <3>0. IsFiniteSet(all) BY DEF Tidy
      <3>1. Cardinality(all) \in Nat /\ Cardinality(all) >= Cardinality(all) BY <3>0, FS_CardinalityType
      <3>2. E = Eligible(r, id, shards, all) /\ f = Found(r, id, shards, all, Cardinality(all)) OBVIOUS
      <3> HIDE DEF E, f, F
      <3>3. /\ c <= Cardinality(all)
            /\ f \in [1..c -> E]
            /\ \A n \in 1..c : n <= Cardinality(all) => f[n] = F[n]
        BY <3>1, <3>2, FoundAgrees DEF F
      <3>4. \A n \in 1..c : n <= Cardinality(all) BY <1>4, <3>1, <3>3
      <3> QED BY <3>3, <3>4
    <2>4. Arranges(f, E, R)
      <3> HIDE DEF f, E, R, F
      <3> QED BY <1>3, <2>3 DEF Arranges
    <2>5. I = {n \in DOMAIN f : f[n] \in X}
      <3> HIDE DEF f, E, X, after
      <3> QED BY <2>2, <2>3
    <2>6. X \in SUBSET E BY <2>2
    <2> HIDE DEF f, I, E, X, R, F
    <2>7. Arranges(Picked(f, I), X, R) /\ IsFiniteSet(X) BY <1>3, <2>4, <2>5, <2>6, PickedArranges
    <2>8. Picked(f, I) \in [1..Cardinality(X) -> X] BY <2>7 DEF Arranges
    <2>9. Opens(Take(Picked(f, I), r.size), X, R) BY <1>1, <2>7, <2>8, TakeOpens
    <2> QED BY <2>1, <2>9 DEF X, R
  <1> QED BY <1>5, <1>6

(* What the order of hits says of their tuples.                            *)
LEMMA LessTuples ==
    ASSUME NEW all, Tidy(all), NEW sort \in Seq(SortField), NEW g, NEW h, <<g, h>> \in Before(all, sort, all)
    PROVE  /\ g \in all /\ h \in all /\ g \in Hit /\ h \in Hit /\ g # h
           /\ Tuple(g, sort, all) = Tuple(h, sort, all) \/ TupleLess(Tuple(g, sort, all), Tuple(h, sort, all), sort)
           /\ ~TupleLess(Tuple(h, sort, all), Tuple(g, sort, all), sort)
  <1> DEFINE t == Tuple(g, sort, all)
             u == Tuple(h, sort, all)
  <1>1. g \in all /\ h \in all /\ compareHitsLess(g, h, sort, all) BY HitsOrdered
  <1>2. g \in Hit /\ h \in Hit /\ IsFiniteSet(all) BY <1>1 DEF Tidy
  <1>3. g # h BY <1>1, LessIsAnOrder
  <1>4. t = u \/ TupleLess(t, u, sort) BY <1>1 DEF compareHitsLess
  <1>5. t \in Tuples(sort) /\ u \in Tuples(sort) BY <1>2, RoundedKeys
  <1> HIDE DEF t, u
  <1>6. ~TupleLess(u, t, sort) BY <1>4, <1>5, TuplesOrdered DEF Tuples
  <1> QED BY <1>1, <1>2, <1>3, <1>4, <1>6 DEF t, u

(* A page of search_after has what the client has not passed, and then it  *)
(* has: for the hits whose sort values, also as float64, differ from those *)
(* of the others.                                                          *)
LEMMA AfterAdvances ==
    ASSUME NEW all, Tidy(all), NEW r \in SearchRequest, r.how = "after", NEW id, NEW shards,
           NEW at, at = NoTuple \/ at \in Tuples(r.sort),
           NEW page, page = Take(FoundAfter(r, id, shards, all, at), r.size),
           NEW h \in Hit, InSlice(h, r, id, shards) <=> h \in Eligible(r, id, shards, all),
           NEW returned, \A n \in 1..Len(page) : page[n] \in Range(returned), ToldApart(h, r, all, returned),
           NEW next, next = Rounded(Tuple(page[Len(page)], r.sort, all), r.sort)
    PROVE  Advances(page, next, h, r, id, shards, all, at)
  <1> DEFINE E == Eligible(r, id, shards, all)
             X == After(r, id, shards, all, at)
             R == Before(all, r.sort, all)
             k == Len(page)
             in == InSlice(h, r, id, shards)
             T(x) == Tuple(x, r.sort, all)
             RT(x) == Rounded(T(x), r.sort)
             less(t, u) == TupleLess(t, u, r.sort)
             behind == at # NoTuple /\ ~less(at, RT(h))
             last == page[k]
  <1>1. r.sort \in Seq(SortField) BY DEF SearchRequest, SortField
  <1>2. Opens(page, X, R) BY AfterPage
  <1> HIDE DEF X
  <1>3. /\ k \in Nat /\ \A n \in 1..k : page[n] \in X
        /\ \A m, n \in 1..k : m < n => <<page[m], page[n]>> \in R
        /\ k = 0 => X = {}
        /\ \A x \in X : (\E n \in 1..k : page[n] = x) \/ \A n \in 1..k : <<page[n], x>> \in R
    BY <1>2 DEF Opens
  <1>4. \A x : x \in X <=> x \in E /\ (at = NoTuple \/ less(at, RT(x))) BY DEF X, After
  <1>5. E \in SUBSET all /\ all \subseteq Hit /\ IsFiniteSet(all) BY DEF Eligible, Heads, Tidy
  <1>6. \A x \in Hit : T(x) \in Tuples(r.sort) /\ RT(x) \in Tuples(r.sort) BY <1>1, <1>5, RoundedKeys
  <1>7. /\ \A t \in Tuples(r.sort) : ~less(t, t)
        /\ \A t, u, w \in Tuples(r.sort) : less(t, u) /\ less(u, w) => less(t, w)
        /\ \A t, u \in Tuples(r.sort) : t = u \/ less(t, u) \/ less(u, t)
    BY <1>1, TuplesOrdered DEF Tuples
  <1>8. \A x, y : <<x, y>> \in R => x \in Hit /\ y \in Hit /\ x # y /\ (T(x) = T(y) \/ less(T(x), T(y)))
    BY <1>1, LessTuples
  <1>9. \A n \in 1..k : page[n] # h => T(page[n]) # T(h) /\ FloatsDiffer(page[n], h, r.sort, all)
    BY DEF ToldApart, Exact
  <1>10. \A n \in 1..k : page[n] \in Hit BY <1>3, <1>4, <1>5
  <1>11. \A n \in 1..k : page[n] # h => (less(T(page[n]), T(h)) => less(RT(page[n]), RT(h)))
    BY <1>1, <1>5, <1>9, <1>10, RoundedOrder
  <1>12. \A g \in Hit : FloatsDiffer(g, h, r.sort, all) <=> FloatsDiffer(h, g, r.sort, all) BY DEF FloatsDiffer
  <1>13. \A n \in 1..k : page[n] # h => (less(T(h), T(page[n])) => less(RT(h), RT(page[n])))
    <2> SUFFICES ASSUME NEW n \in 1..k, page[n] # h, less(T(h), T(page[n])) PROVE less(RT(h), RT(page[n]))
      OBVIOUS
    <2>1. FloatsDiffer(h, page[n], r.sort, all) BY <1>9, <1>10, <1>12
    <2> QED BY <1>1, <1>5, <1>10, <2>1, RoundedOrder
  <1>14. \A x : Reached(h, r, id, shards, all, x) <=> x # NoTuple /\ ~less(x, RT(h)) BY DEF Reached
  <1>15. \A x : Holds(r, h, x) <=> x = h BY DEF Holds
  <1>16. ~Never(r, h, page) <=> \E n \in 1..k : page[n] = h BY <1>15 DEF Never
  <1>17. k # 0 => last \in Hit /\ k \in 1..k BY <1>3, <1>10
  <1>18. k # 0 => next = RT(last) /\ next # NoTuple /\ next \in Tuples(r.sort)
    <2> SUFFICES ASSUME k # 0 PROVE next = RT(last) /\ next # NoTuple /\ next \in Tuples(r.sort)
      OBVIOUS
    <2>1. next = RT(last) OBVIOUS
    <2>2. next \in Tuples(r.sort) BY <1>6, <1>17, <2>1
    <2>3. next \in Seq(Key)
      <3>1. Len(r.sort) \in Nat /\ DOMAIN r.sort = 1..Len(r.sort) BY <1>1
      <3>2. next \in [1..Len(r.sort) -> Key] BY <2>2, <3>1 DEF Tuples
      <3> QED BY <3>1, <3>2
    <2> QED BY <2>1, <2>2, <2>3, SearchAssumption
  <1>19. h \in E <=> in OBVIOUS
  <1> HIDE DEF E, R, k, in, T, RT, less, last
  <1>20. \A n \in 1..k : page[n] = h => in /\ ~behind BY <1>3, <1>4, <1>19
  <1>21. \A m, n \in 1..k : page[m] = h /\ page[n] = h => m = n
    <2> SUFFICES ASSUME NEW m \in 1..k, NEW n \in 1..k, page[m] = h, page[n] = h PROVE m = n
      OBVIOUS
    <2>1. ~(m < n) /\ ~(n < m) BY <1>3, <1>8
    <2>2. m \in Nat /\ n \in Nat BY <1>3
    <2> QED BY <2>1, <2>2
  <1>22. k = 0 /\ in => behind BY <1>3, <1>4, <1>19
  <1>23. k # 0 /\ in => (~less(next, RT(h)) <=> behind \/ \E n \in 1..k : page[n] = h)
    <2> SUFFICES ASSUME k # 0, in PROVE ~less(next, RT(h)) <=> behind \/ \E n \in 1..k : page[n] = h
      OBVIOUS
    <2>0. k \in 1..k /\ last = page[k] /\ last \in X BY <1>3, <1>17 DEF last
    <2>1. CASE behind
      <3>1. at \in Tuples(r.sort) /\ less(at, RT(last)) /\ ~less(at, RT(h)) BY <1>4, <2>0, <2>1
      <3>2. RT(last) \in Tuples(r.sort) /\ RT(h) \in Tuples(r.sort) BY <1>6, <1>17
      <3>3. ~less(RT(last), RT(h)) BY <1>7, <3>1, <3>2
      <3> QED BY <1>18, <2>1, <3>3
    <2>2. CASE \E n \in 1..k : page[n] = h
      <3>1. PICK n \in 1..k : page[n] = h BY <2>2
      <3>2. RT(last) \in Tuples(r.sort) /\ RT(h) \in Tuples(r.sort) BY <1>6, <1>17
      <3>3. CASE last = h BY <1>7, <1>18, <2>2, <3>2, <3>3
      <3>4. CASE last # h
        <4>1. n < k
          <5>1. n # k BY <2>0, <3>1, <3>4
          <5> QED BY <1>3, <5>1
        <4>2. <<h, last>> \in R BY <1>3, <2>0, <3>1, <4>1
        <4>3. less(T(h), T(last)) BY <1>8, <1>9, <2>0, <3>4, <4>2
        <4>4. less(RT(h), RT(last)) BY <1>13, <2>0, <3>4, <4>3
        <4>5. ~less(RT(last), RT(h)) BY <1>7, <3>2, <4>4
        <4> QED BY <1>18, <2>2, <4>5
      <3> QED BY <3>3, <3>4
    <2>3. CASE ~behind /\ ~\E n \in 1..k : page[n] = h
      <3>1. h \in X BY <1>4, <1>19, <2>3
      <3>2. <<last, h>> \in R /\ last # h BY <1>3, <2>0, <2>3, <3>1
      <3>3. less(T(last), T(h)) BY <1>8, <1>9, <2>0, <3>2
      <3>4. less(RT(last), RT(h)) BY <1>11, <2>0, <3>2, <3>3
      <3> QED BY <1>18, <2>3, <3>4
    <2> QED BY <2>1, <2>2, <2>3
  <1>24. Reached(h, r, id, shards, all, at) <=> behind BY <1>14
  <1> HIDE DEF behind
  <1> QED BY <1>14, <1>15, <1>16, <1>18, <1>20, <1>21, <1>22, <1>23, <1>24 DEF Advances, k, in

-----------------------------------------------------------------------------
(* A page of a scroll. *)

(* A scroll keeps the hits of its slice.                                   *)
LEMMA FoundQueued ==
    ASSUME NEW all, Tidy(all), NEW r \in SearchRequest, NEW id, NEW shards,
           NEW hits, hits = Found(r, id, shards, all, Cardinality(all))
    PROVE  Queued(hits, r, id, shards, all) /\ \A x \in Eligible(r, id, shards, all) : \E n \in 1..Len(hits) : hits[n] = x
  <1> DEFINE E == Eligible(r, id, shards, all)
             F == Sorted(E, r.sort, all)
             R == Before(all, r.sort, all)
             c == Cardinality(E)
             T(x) == Tuple(x, r.sort, all)
  <1>0. IsFiniteSet(all) /\ r.sort \in Seq(SortField) BY DEF Tidy, SearchRequest, SortField
  <1>1. Cardinality(all) \in Nat /\ Cardinality(all) >= Cardinality(all) BY <1>0, FS_CardinalityType
  <1>2. E = Eligible(r, id, shards, all) OBVIOUS
  <1> HIDE DEF E, F
  <1>3. /\ c \in Nat /\ c <= Cardinality(all)
        /\ Arranges(F, E, R) /\ hits \in [1..c -> E]
        /\ \A n \in 1..c : n <= Cardinality(all) => hits[n] = F[n]
    BY <1>1, <1>2, FoundAgrees DEF F
  <1> HIDE DEF R
  <1>4. \A n \in 1..c : hits[n] = F[n] BY <1>1, <1>3
  <1>5. (\A x \in E : \E n \in 1..c : F[n] = x) /\ \A m, n \in 1..c : m < n => <<F[m], F[n]>> \in R
    BY <1>3 DEF Arranges, c
  <1>6. \A x \in E : x \in all /\ InSlice(x, r, id, shards) BY <1>2 DEF Eligible, Heads
  <1> HIDE DEF c
  <1>7. Len(hits) = c BY <1>3
  <1>8. all \subseteq Hit BY DEF Tidy
  <1>9. hits \in [1..c -> Hit] /\ \A n \in 1..c : InSlice(hits[n], r, id, shards) BY <1>3, <1>6, <1>8
  <1>10. \A m, n \in 1..c : m < n => hits[m] # hits[n] /\ ~TupleLess(T(hits[n]), T(hits[m]), r.sort)
    <2> SUFFICES ASSUME NEW m \in 1..c, NEW n \in 1..c, m < n
                 PROVE  hits[m] # hits[n] /\ ~TupleLess(T(hits[n]), T(hits[m]), r.sort)
      OBVIOUS
    <2>1. <<hits[m], hits[n]>> \in R BY <1>4, <1>5
    <2> QED BY <1>0, <2>1, LessTuples DEF R
  <1>11. \A x \in E : \E n \in 1..c : hits[n] = x BY <1>4, <1>5
  <1> QED BY <1>2, <1>3, <1>7, <1>9, <1>10, <1>11 DEF Queued

\* the page has the first of the hits, the next pages have the others
Serves(page, next, hits, r, id, shards, all) ==
    /\ Queued(hits, r, id, shards, all) /\ Queued(next, r, id, shards, all)
    /\ Len(page) \in Nat /\ page \in [1..Len(page) -> Hit]
    /\ \A n \in 1..Len(page) : n \in 1..Len(hits) /\ page[n] = hits[n]
    /\ \A n \in 1..Len(next) : Len(page) + n \in 1..Len(hits) /\ next[n] = hits[Len(page) + n]

(* A page of a scroll.                                                     *)
LEMMA ScrollAdvances ==
    ASSUME NEW all, Tidy(all), NEW r \in SearchRequest, r.how = "scroll", NEW id, NEW shards,
           NEW at, at = NoTuple \/ Queued(at, r, id, shards, all),
           NEW hits, hits = IF at = NoTuple THEN Found(r, id, shards, all, Cardinality(all)) ELSE at,
           NEW page, page = Take(hits, r.size), NEW next, next = Drop(hits, r.size),
           NEW h
    PROVE  /\ (InSlice(h, r, id, shards) <=> h \in Eligible(r, id, shards, all)) => Advances(page, next, h, r, id, shards, all, at)
           /\ Serves(page, next, hits, r, id, shards, all)
  <1> DEFINE c == Len(hits)
             k == Len(page)
             d == Len(next)
             in == InSlice(h, r, id, shards)
             meant == h \in Eligible(r, id, shards, all)
             T(x) == Tuple(x, r.sort, all)
             ok(x, y) == x # y /\ ~TupleLess(T(y), T(x), r.sort)
             behind == at # NoTuple /\ \A n \in 1..Len(at) : at[n] # h
  <1>1. Queued(hits, r, id, shards, all) /\ (at = NoTuple /\ meant => \E n \in 1..c : hits[n] = h)
    <2>1. CASE at = NoTuple
      <3>1. hits = Found(r, id, shards, all, Cardinality(all)) BY <2>1
      <3> QED BY <3>1, FoundQueued
    <2>2. CASE at # NoTuple BY <2>2
    <2> QED BY <2>1, <2>2
  <1>2. at # NoTuple => hits = at OBVIOUS
  <1>3. /\ c \in Nat /\ hits \in [1..c -> Hit]
        /\ \A n \in 1..c : InSlice(hits[n], r, id, shards)
        /\ \A m, n \in 1..c : m < n => ok(hits[m], hits[n])
    BY <1>1 DEF Queued
  <1>4. r.size \in Nat /\ r.size # 0 BY DEF SearchRequest
  <1> HIDE DEF c
  <1>5. /\ r.size < c => page \in [1..r.size -> Hit]
        /\ ~(r.size < c) => page \in [1..c -> Hit]
        /\ \A i \in 1..c : i <= r.size => page[i] = hits[i]
    <2>1. IsTake(page, hits, c, r.size, Hit) BY <1>3, <1>4, TakeEntries
    <2> QED BY <2>1 DEF IsTake
  <1>6. /\ r.size < c => next \in [1..(c - r.size) -> Hit]
        /\ ~(r.size < c) => next = <<>>
        /\ \A i \in 1..(c - r.size) : next[i] = hits[r.size + i]
    <2>1. IsDrop(next, hits, c, r.size, Hit) BY <1>3, <1>4, DropEntries
    <2> QED BY <2>1 DEF IsDrop
  <1>7. k \in Nat /\ d \in Nat /\ k + d = c /\ page \in [1..k -> Hit] /\ next \in [1..d -> Hit] /\ (d # 0 => k = r.size)
        /\ (k = 0 => c = 0) /\ k <= r.size
    <2>1. CASE r.size < c
      <3>1. page \in [1..r.size -> Hit] BY <1>5, <2>1
      <3>2. k = r.size BY <1>4, <3>1
      <3>3. c - r.size \in Nat BY <1>3, <1>4, <2>1
      <3>4. next \in [1..(c - r.size) -> Hit] BY <1>6, <2>1
      <3>5. d = c - r.size BY <3>3, <3>4
      <3> HIDE DEF k, d
      <3>6. k \in Nat /\ d \in Nat /\ k + d = c /\ k <= r.size /\ k # 0 BY <1>3, <1>4, <3>2, <3>3, <3>5
      <3> QED BY <3>1, <3>2, <3>4, <3>5, <3>6
    <2>2. CASE ~(r.size < c)
      <3>1. page \in [1..c -> Hit] BY <1>5, <2>2
      <3>2. k = c BY <1>3, <3>1
      <3>3. next \in [1..0 -> Hit] /\ d = 0
        <4>1. <<>> \in [1..0 -> Hit] /\ Len(<<>>) = 0 OBVIOUS
        <4>2. next = <<>> BY <1>6, <2>2
        <4> QED BY <4>1, <4>2
      <3> HIDE DEF k, d
      <3>4. k \in Nat /\ d \in Nat /\ k + d = c /\ k <= r.size BY <1>3, <1>4, <2>2, <3>2, <3>3
      <3> QED BY <3>1, <3>2, <3>3, <3>4
    <2> QED BY <2>1, <2>2
  <1> HIDE DEF k, d
  <1>8. \A n \in 1..k : n \in 1..c /\ page[n] = hits[n]
    <2> SUFFICES ASSUME NEW n \in 1..k PROVE n \in 1..c /\ page[n] = hits[n]
      OBVIOUS
    <2>1. n \in 1..c /\ n <= r.size BY <1>3, <1>4, <1>7
    <2> QED BY <1>5, <2>1
  <1>9. \A n \in 1..d : k + n \in 1..c /\ next[n] = hits[k + n]
    <2> SUFFICES ASSUME NEW n \in 1..d PROVE k + n \in 1..c /\ next[n] = hits[k + n]
      OBVIOUS
    <2>1. k = r.size /\ k + n \in 1..c BY <1>3, <1>7
    <2>2. n \in 1..(c - r.size) BY <1>3, <1>4, <1>7, <2>1
    <2> QED BY <1>6, <2>1, <2>2
  <1>10. \A n \in 1..c : n \in 1..k \/ n - k \in 1..d BY <1>3, <1>7
  <1>11. \A n \in 1..d : InSlice(next[n], r, id, shards) BY <1>3, <1>9
  <1>12. \A m, n \in 1..d : m < n => ok(next[m], next[n])
    <2> SUFFICES ASSUME NEW m \in 1..d, NEW n \in 1..d, m < n PROVE ok(next[m], next[n])
      OBVIOUS
    <2> HIDE DEF ok
    <2>1. k + m \in 1..c /\ k + n \in 1..c /\ k + m < k + n BY <1>7, <1>9
    <2> QED BY <1>3, <1>9, <2>1
  <1>13. Queued(next, r, id, shards, all) BY <1>7, <1>11, <1>12 DEF Queued, d
  <1>14. next # NoTuple
    <2>1. next \in Seq(Hit) BY <1>7
    <2> QED BY <2>1, SearchAssumption
  <1>15. \A m, n \in 1..c : hits[m] = hits[n] => m = n
    <2> SUFFICES ASSUME NEW m \in 1..c, NEW n \in 1..c, hits[m] = hits[n] PROVE m = n
      OBVIOUS
    <2>1. ~(m < n) /\ ~(n < m) BY <1>3
    <2> QED BY <1>3, <2>1
  <1>16. \A x : Holds(r, h, x) <=> x = h BY DEF Holds
  <1>17. ~Never(r, h, page) <=> \E n \in 1..k : page[n] = h BY <1>16 DEF Never, k
  <1>18. Reached(h, r, id, shards, all, at) <=> behind BY DEF Reached
  <1>19. Reached(h, r, id, shards, all, next) <=> \A n \in 1..d : next[n] # h BY <1>14 DEF Reached, d
  <1>20. at # NoTuple => (behind <=> \A n \in 1..c : hits[n] # h) BY DEF c
  <1>21. at = NoTuple => ~behind OBVIOUS
  <1> HIDE DEF in, meant, ok, behind
  <1>22. \A n \in 1..k : page[n] = h => in /\ ~behind
    <2> SUFFICES ASSUME NEW n \in 1..k, page[n] = h PROVE in /\ ~behind
      OBVIOUS
    <2>1. n \in 1..c /\ hits[n] = h BY <1>8
    <2>2. in BY <1>3, <2>1 DEF in
    <2> QED BY <1>20, <1>21, <2>1, <2>2
  <1>23. \A m, n \in 1..k : page[m] = h /\ page[n] = h => m = n BY <1>8, <1>15
  <1>24. k = 0 /\ meant => behind
    <2> SUFFICES ASSUME k = 0, meant PROVE behind
      OBVIOUS
    <2>1. c = 0 BY <1>7
    <2>2. \A n \in 1..c : FALSE BY <2>1
    <2> QED BY <1>1, <1>20, <2>2 DEF c, meant
  <1>25. meant => ((\A n \in 1..d : next[n] # h) <=> behind \/ \E n \in 1..k : page[n] = h)
    <2> SUFFICES ASSUME meant PROVE (\A n \in 1..d : next[n] # h) <=> behind \/ \E n \in 1..k : page[n] = h
      OBVIOUS
    <2>1. CASE \A n \in 1..c : hits[n] # h
      <3>1. behind BY <1>1, <1>20, <2>1 DEF c, meant
      <3>2. \A n \in 1..d : next[n] # h BY <1>9, <2>1
      <3> QED BY <3>1, <3>2
    <2>2. ASSUME NEW m \in 1..c, hits[m] = h
          PROVE  (\A n \in 1..d : next[n] # h) <=> behind \/ \E n \in 1..k : page[n] = h
      <3>1. ~behind BY <1>20, <1>21, <2>2
      <3>2. CASE m \in 1..k
        <4>1. page[m] = h BY <1>8, <2>2, <3>2
        <4>2. \A n \in 1..d : next[n] # h
          <5> SUFFICES ASSUME NEW n \in 1..d, next[n] = h PROVE FALSE
            OBVIOUS
          <5>1. k + n = m BY <1>9, <1>15, <2>2
          <5> QED BY <1>7, <3>2, <5>1
        <4> QED BY <3>2, <4>1, <4>2
      <3>3. CASE m \notin 1..k
        <4>1. m - k \in 1..d BY <1>10, <3>3
        <4>2. k + (m - k) = m BY <1>3, <1>7
        <4>3. next[m - k] = h BY <1>9, <2>2, <4>1, <4>2
        <4>4. \A n \in 1..k : page[n] # h BY <1>8, <1>15, <2>2, <3>3
        <4> QED BY <3>1, <4>1, <4>3, <4>4
      <3> QED BY <3>2, <3>3
    <2> QED BY <2>1, <2>2
  <1>26. (in <=> meant) => Advances(page, next, h, r, id, shards, all, at)
    BY <1>16, <1>17, <1>18, <1>19, <1>22, <1>23, <1>24, <1>25 DEF Advances, k, in
  <1>27. Serves(page, next, hits, r, id, shards, all) BY <1>1, <1>7, <1>8, <1>9, <1>13 DEF Serves, k, c, d
  <1> QED BY <1>26, <1>27 DEF in, meant

-----------------------------------------------------------------------------
(* A page of buckets. *)

\* the values of the buckets after a key
ValuesAfter(s, all, at) == {v \in {h.value : h \in all} : at = NoTuple \/ compositeLess(at[1], v, s)}

\* and their order
KeyOrder(s, V) == {x \in V \X V : compositeLess(x[1], x[2], s)}

(* A value, or Missing, is a key.                                          *)
LEMMA HitKeys ==
    ASSUME NEW h \in Hit
    PROVE  h.value \in Key
  <1>1. Value \subseteq Nat BY SearchAssumption
  <1>2. h.value \in Value \union {Missing} BY DEF Hit
  <1>3. h.value \in Nat \/ h.value = Missing BY <1>1, <1>2
  <1> QED BY <1>3 DEF Key

\* the page has buckets of the first members of V
BucketsOpen(page, V, s) ==
    /\ Len(page) \in Nat /\ page \in [1..Len(page) -> Bucket]
    /\ V \subseteq Key
    /\ \A n \in 1..Len(page) : page[n].value \in V
    /\ \A m, n \in 1..Len(page) : m < n => compositeLess(page[m].value, page[n].value, s)
    /\ Len(page) = 0 => V = {}
    /\ \A v \in V : \/ \E n \in 1..Len(page) : page[n].value = v
                    \/ \A n \in 1..Len(page) : compositeLess(page[n].value, v, s)

(* A page of buckets.                                                      *)
LEMMA BucketPage ==
    ASSUME NEW all, Tidy(all), NEW s \in SortField, NEW at, NEW size \in Nat \ {0},
           NEW V, V = ValuesAfter(s, all, at), NEW page, page = Take(BucketsAfter(s, all, at), size)
    PROVE  BucketsOpen(page, V, s)
  <1> DEFINE W == {h.value : h \in all}
             R == KeyOrder(s, V)
             A == InOrder(V, R)
             c == Cardinality(V)
             b == BucketsAfter(s, all, at)
             count(v) == Cardinality({h \in all : h.value = v})
             p == Take(A, size)
  <1>1. all \subseteq Hit /\ IsFiniteSet(all) BY DEF Tidy
  <1>2. W \subseteq Key
    <2> SUFFICES ASSUME NEW h \in all PROVE h.value \in Key
      OBVIOUS
    <2> QED BY <1>1, HitKeys
  <1>3. IsFiniteSet(W)
    <2> DEFINE f == [h \in all |-> h.value]
    <2>1. f \in Surjection(all, W) BY DEF Surjection
    <2> HIDE DEF f, W
    <2> QED BY <1>1, <2>1, FS_Surjection
  <1>4. V \in SUBSET W BY DEF ValuesAfter
  <1>5. V \subseteq Key /\ IsFiniteSet(V) BY <1>2, <1>3, <1>4, FS_Subset
  <1>6. \A x, y : <<x, y>> \in R <=> x \in V /\ y \in V /\ compositeLess(x, y, s) BY DEF KeyOrder
  <1>7. Orders(R, V) BY <1>5, <1>6, BucketsOrdered DEF Orders
  <1>8. Arranges(A, V, R) BY <1>5, <1>7, InOrderArranges
  <1>9. c \in Nat BY <1>5, FS_CardinalityType
  <1>10. A \in [1..c -> V] BY <1>8 DEF Arranges
  <1>11. b = [n \in DOMAIN A |-> [value |-> A[n], count |-> count(A[n])]] BY DEF BucketsAfter, ValuesAfter, KeyOrder
  <1> HIDE DEF A, c, R, b
  <1>12. \A v \in V : [value |-> v, count |-> count(v)] \in Bucket
    <2> SUFFICES ASSUME NEW v \in V PROVE [value |-> v, count |-> count(v)] \in Bucket
      OBVIOUS
    <2>1. {h \in all : h.value = v} \subseteq all OBVIOUS
    <2>2. count(v) \in Nat BY <1>1, <2>1, FS_Subset, FS_CardinalityType
    <2> QED BY <1>5, <2>2 DEF Bucket
  <1> HIDE DEF count
  <1>13. b \in [1..c -> Bucket] /\ \A n \in 1..c : b[n].value = A[n] BY <1>10, <1>11, <1>12
  <1>14. /\ size < c => page \in [1..size -> Bucket]
         /\ ~(size < c) => page \in [1..c -> Bucket]
         /\ \A i \in 1..c : i <= size => page[i] = b[i]
    <2>1. IsTake(page, b, c, size, Bucket) BY <1>9, <1>13, TakeEntries DEF b
    <2> QED BY <2>1 DEF IsTake
  <1>15. /\ size < c => p \in [1..size -> V]
         /\ ~(size < c) => p \in [1..c -> V]
         /\ \A i \in 1..c : i <= size => p[i] = A[i]
    <2>1. IsTake(p, A, c, size, V) BY <1>9, <1>10, TakeEntries
    <2> HIDE DEF p
    <2> QED BY <2>1 DEF IsTake
  <1>16. Opens(p, V, R)
    <2>1. \A n \in 1..Cardinality(V) : n <= size => A[n] = A[n] OBVIOUS
    <2> HIDE DEF p
    <2>2. Opens(Take(A, size), V, R) BY <1>5, <1>8, <1>10, <2>1, TakeOpens DEF c
    <2> QED BY <2>2 DEF p
  <1> HIDE DEF p
  <1> DEFINE k == IF size < c THEN size ELSE c
  <1>17. k \in Nat /\ page \in [1..k -> Bucket] /\ p \in [1..k -> V] BY <1>9, <1>14, <1>15
  <1>18. \A n \in 1..k : n \in 1..c /\ n <= size BY <1>9
  <1> HIDE DEF k
  <1>19. Len(page) = k /\ Len(p) = k BY <1>17
  <1>20. \A n \in 1..k : page[n].value = p[n] BY <1>13, <1>14, <1>15, <1>18
  <1>21. /\ \A m, n \in 1..k : m < n => <<p[m], p[n]>> \in R
         /\ k = 0 => V = {}
         /\ \A x \in V : (\E n \in 1..k : p[n] = x) \/ \A n \in 1..k : <<p[n], x>> \in R
    BY <1>16, <1>19 DEF Opens
  <1>22. \A n \in 1..k : page[n].value \in V BY <1>17, <1>20
  <1>23. \A m, n \in 1..k : m < n => compositeLess(page[m].value, page[n].value, s)
    <2> SUFFICES ASSUME NEW m \in 1..k, NEW n \in 1..k, m < n PROVE compositeLess(page[m].value, page[n].value, s)
      OBVIOUS
    <2>1. compositeLess(p[m], p[n], s) BY <1>6, <1>21
    <2> QED BY <1>20, <2>1
  <1>24. ASSUME NEW v \in V
         PROVE  (\E n \in 1..k : page[n].value = v) \/ \A n \in 1..k : compositeLess(page[n].value, v, s)
    <2>1. CASE \E n \in 1..k : p[n] = v BY <1>20, <2>1
    <2>2. CASE \A n \in 1..k : <<p[n], v>> \in R
      <3> SUFFICES ASSUME NEW n \in 1..k PROVE compositeLess(page[n].value, v, s)
        OBVIOUS
      <3>1. compositeLess(p[n], v, s) BY <1>6, <2>2
      <3> QED BY <1>20, <3>1
    <2> QED BY <1>21, <2>1, <2>2
  <1>25. k = 0 => V = {} BY <1>21
  <1>26. page \in [1..k -> Bucket] /\ k \in Nat BY <1>17
  <1>27. Len(page) = k BY <1>19
  <1> HIDE DEF W
  <1> QED BY <1>5, <1>22, <1>23, <1>24, <1>25, <1>26, <1>27 DEF BucketsOpen

(* A page of buckets has the values that the client has not passed, and    *)
(* then it has.                                                            *)
LEMMA CompositeAdvances ==
    ASSUME NEW all, Tidy(all), NEW r \in SearchRequest, Valid(r), r.how = "composite", NEW id, NEW shards,
           NEW at, at = NoTuple \/ at \in [{1} -> Key],
           NEW page, page = Take(BucketsAfter(r.sort[1], all, at), r.size),
           NEW h, InSlice(h, r, id, shards) <=> h \in Eligible(r, id, shards, all),
           NEW next, next = <<page[Len(page)].value>>
    PROVE  Advances(page, next, h, r, id, shards, all, at)
  <1> DEFINE s == r.sort[1]
             V == ValuesAfter(s, all, at)
             k == Len(page)
             in == InSlice(h, r, id, shards)
             less(v, w) == compositeLess(v, w, s)
             behind == at # NoTuple /\ ~less(at[1], h.value)
             last == page[k].value
  <1>1. r.max = 0 /\ ~r.collapse /\ s \in SortField /\ r.size \in Nat \ {0}
    <2>1. r.max = 0 /\ ~r.collapse /\ Len(r.sort) = 1 BY DEF Valid
    <2>2. r.sort \in Seq(SortField) /\ r.size \in Nat \ {0} BY DEF SearchRequest, SortField
    <2>3. s \in SortField BY <2>1, <2>2
    <2> QED BY <2>1, <2>2, <2>3
  <1>2. in /\ h \in all BY <1>1 DEF InSlice, Eligible, Heads
  <1>3. V = ValuesAfter(s, all, at) OBVIOUS
  <1> HIDE DEF V
  <1>4. /\ k \in Nat /\ V \subseteq Key
        /\ \A n \in 1..k : page[n].value \in V
        /\ \A m, n \in 1..k : m < n => less(page[m].value, page[n].value)
        /\ k = 0 => V = {}
        /\ \A v \in V : (\E n \in 1..k : page[n].value = v) \/ \A n \in 1..k : less(page[n].value, v)
    <2>1. page = Take(BucketsAfter(s, all, at), r.size) OBVIOUS
    <2> HIDE DEF s
    <2> HIDE DEF k, less
    <2>2. BucketsOpen(page, V, s) BY <1>1, <1>3, <2>1, BucketPage
    <2> QED BY <2>2 DEF BucketsOpen, k, less
  <1>5. h.value \in Key
    <2>1. all \subseteq Hit BY DEF Tidy
    <2> QED BY <1>2, <2>1, HitKeys
  <1>6. h.value \in V <=> at = NoTuple \/ less(at[1], h.value) BY <1>2, <1>3 DEF ValuesAfter
  <1>7. \A v \in V : at = NoTuple \/ less(at[1], v) BY <1>3 DEF ValuesAfter
  <1>8. /\ \A a \in Key : ~less(a, a)
        /\ \A a, b, c \in Key : less(a, b) /\ less(b, c) => less(a, c)
        /\ \A a, b \in Key : a = b \/ less(a, b) \/ less(b, a)
    BY <1>1, BucketsOrdered
  <1>9. at # NoTuple => at[1] \in Key OBVIOUS
  <1>10. k # 0 => k \in 1..k /\ last \in V /\ next # NoTuple /\ next[1] = last
    <2> SUFFICES ASSUME k # 0 PROVE k \in 1..k /\ last \in V /\ next # NoTuple /\ next[1] = last
      OBVIOUS
    <2>1. k \in 1..k BY <1>4
    <2>2. last \in V BY <1>4, <2>1
    <2>3. next = <<last>> OBVIOUS
    <2> HIDE DEF last
    <2>4. next \in Seq(Key) /\ next[1] = last BY <1>4, <2>2, <2>3
    <2> QED BY <2>1, <2>2, <2>4, SearchAssumption
  <1>11. \A x : Holds(r, h, x) <=> x.value = h.value BY DEF Holds
  <1>12. ~Never(r, h, page) <=> \E n \in 1..k : page[n].value = h.value BY <1>11 DEF Never
  <1>13. \A x : Reached(h, r, id, shards, all, x) <=> x # NoTuple /\ ~less(x[1], h.value) BY DEF Reached
  <1> HIDE DEF s, k, in, less, last
  <1>14. \A n \in 1..k : page[n].value = h.value => ~behind BY <1>4, <1>7
  <1>15. \A m, n \in 1..k : page[m].value = h.value /\ page[n].value = h.value => m = n
    <2> SUFFICES ASSUME NEW m \in 1..k, NEW n \in 1..k, page[m].value = h.value, page[n].value = h.value PROVE m = n
      OBVIOUS
    <2>1. ~(m < n) /\ ~(n < m) BY <1>4, <1>5, <1>8
    <2> QED BY <1>4, <2>1
  <1>16. k = 0 => behind BY <1>4, <1>6
  <1>17. k # 0 => (~less(next[1], h.value) <=> behind \/ \E n \in 1..k : page[n].value = h.value)
    <2> SUFFICES ASSUME k # 0 PROVE ~less(last, h.value) <=> behind \/ \E n \in 1..k : page[n].value = h.value
      BY <1>10
    <2>0. k \in 1..k /\ last \in V /\ last \in Key /\ last = page[k].value BY <1>4, <1>10 DEF last
    <2>1. CASE behind
      <3>1. less(at[1], last) /\ ~less(at[1], h.value) /\ at[1] \in Key BY <1>7, <1>9, <2>0, <2>1
      <3> QED BY <1>5, <1>8, <2>0, <2>1, <3>1
    <2>2. CASE \E n \in 1..k : page[n].value = h.value
      <3>1. PICK n \in 1..k : page[n].value = h.value BY <2>2
      <3>2. n = k \/ n < k BY <1>4
      <3>3. h.value = last \/ less(h.value, last) BY <1>4, <2>0, <3>1, <3>2
      <3> QED BY <1>5, <1>8, <2>0, <2>2, <3>3
    <2>3. CASE ~behind /\ ~\E n \in 1..k : page[n].value = h.value
      <3>1. h.value \in V BY <1>6, <2>3
      <3>2. less(last, h.value) BY <1>4, <2>0, <2>3, <3>1
      <3> QED BY <2>3, <3>2
    <2> QED BY <2>1, <2>2, <2>3
  <1>18. Reached(h, r, id, shards, all, at) <=> behind BY <1>13
  <1>19. k # 0 => (Reached(h, r, id, shards, all, next) <=> ~less(next[1], h.value)) BY <1>10, <1>13
  <1> HIDE DEF behind
  <1> QED BY <1>2, <1>11, <1>12, <1>14, <1>15, <1>16, <1>17, <1>18, <1>19 DEF Advances, k, in

-----------------------------------------------------------------------------
(* Pages follow one another. *)

(* What is exact among more is exact among less.                           *)
LEMMA JoinedRange ==
    ASSUME NEW T, NEW g \in Seq(T), NEW page \in Seq(T)
    PROVE  /\ \A x : x \in Range(g \o page) <=> x \in Range(g) \/ \E n \in 1..Len(page) : page[n] = x
           /\ \A x, r, all : Exact(x, r, all, g \o page) => Exact(x, r, all, g)
  <1> DEFINE j == g \o page
             a == Len(g)
             b == Len(page)
  <1>1. a \in Nat /\ b \in Nat OBVIOUS
  <1>2. Len(j) = a + b OBVIOUS
  <1>3. \A n \in 1..a : j[n] = g[n] OBVIOUS
  <1>4. \A n \in 1..b : j[a + n] = page[n] OBVIOUS
  <1>5. j \in Seq(T) OBVIOUS
  <1>6. DOMAIN j = 1..(a + b) BY <1>2, <1>5
  <1>7. DOMAIN g = 1..a OBVIOUS
  <1> HIDE DEF j, a, b
  <1>8. \A x : x \in Range(j) <=> \E n \in 1..(a + b) : j[n] = x BY <1>6 DEF Range
  <1>9. \A x : x \in Range(g) <=> \E n \in 1..a : g[n] = x BY <1>7 DEF Range
  <1>10. \A n \in 1..(a + b) : n \in 1..a \/ (n - a \in 1..b /\ n = a + (n - a)) BY <1>1
  <1>11. \A x : x \in Range(j) => x \in Range(g) \/ \E n \in 1..b : page[n] = x
    <2> SUFFICES ASSUME NEW x, x \in Range(j) PROVE x \in Range(g) \/ \E n \in 1..b : page[n] = x
      OBVIOUS
    <2>1. PICK n \in 1..(a + b) : j[n] = x BY <1>8
    <2>2. CASE n \in 1..a BY <1>3, <1>9, <2>1, <2>2
    <2>3. CASE n - a \in 1..b /\ n = a + (n - a)
      <3>1. page[n - a] = j[n] BY <1>4, <2>3
      <3> QED BY <2>1, <2>3, <3>1
    <2> QED BY <1>10, <2>2, <2>3
  <1>12. \A x : x \in Range(g) => x \in Range(j)
    <2> SUFFICES ASSUME NEW x, x \in Range(g) PROVE x \in Range(j)
      OBVIOUS
    <2>1. PICK n \in 1..a : g[n] = x BY <1>9
    <2>2. n \in 1..(a + b) BY <1>1
    <2> QED BY <1>3, <1>8, <2>1, <2>2
  <1>13. \A n \in 1..b : page[n] \in Range(j)
    <2> SUFFICES ASSUME NEW n \in 1..b PROVE page[n] \in Range(j)
      OBVIOUS
    <2>1. a + n \in 1..(a + b) BY <1>1
    <2> QED BY <1>4, <1>8, <2>1
  <1>14. \A x, r, all : Exact(x, r, all, j) => Exact(x, r, all, g) BY <1>12 DEF Exact
  <1> QED BY <1>11, <1>12, <1>13, <1>14 DEF j, b

(* A page by offset is in order and follows what came before.              *)
LEMMA FromFollows ==
    ASSUME NEW all, Tidy(all), NEW r \in SearchRequest, r.how = "from", NEW id, NEW shards,
           NEW at, at = NoTuple \/ at \in Nat, NEW from, from = IF at = NoTuple THEN 0 ELSE at,
           NEW page, page = Take(Drop(Found(r, id, shards, all, from + r.size), from), r.size), NEW returned
    PROVE  Follows(page, from + r.size, r, id, shards, all, at, returned)
  <1> DEFINE E == Eligible(r, id, shards, all)
             c == Cardinality(E)
             F == Sorted(E, r.sort, all)
             R == Before(all, r.sort, all)
             k == Len(page)
             next == from + r.size
             T(x) == Tuple(x, r.sort, all)
             less(t, u) == TupleLess(t, u, r.sort)
             behind(x, p) == p # NoTuple /\ \E n \in 1..c : n <= p /\ F[n] = x
  <1>1. /\ from \in Nat /\ r.size \in Nat /\ r.size # 0 /\ next # NoTuple /\ next \in Nat
        /\ at # NoTuple => at = from
    BY SearchAssumption DEF SearchRequest
  <1>2. /\ k \in Nat
        /\ \A n \in 1..k : from + n \in 1..c /\ n <= r.size /\ page[n] = F[from + n]
    <2>1. from \in Nat /\ E = Eligible(r, id, shards, all) BY <1>1
    <2> HIDE DEF E
    <2>2. IsPart(page, F, c, from, r.size, E) BY <2>1, FromPage
    <2> QED BY <2>2 DEF IsPart
  <1>3. c \in Nat /\ \A m, n \in 1..c : m < n => <<F[m], F[n]>> \in R
    <2>1. r.sort \in Seq(SortField) BY DEF SearchRequest, SortField
    <2>2. E \in SUBSET all BY DEF Eligible, Heads
    <2>3. IsFiniteSet(E) /\ Arranges(F, E, R) BY <2>1, <2>2, PartOrdered
    <2>4. c \in Nat BY <2>3, FS_CardinalityType
    <2> QED BY <2>3, <2>4 DEF Arranges
  <1>4. \A x, y : <<x, y>> \in R => ~less(T(y), T(x))
    <2>1. r.sort \in Seq(SortField) BY DEF SearchRequest, SortField
    <2> QED BY <2>1, LessTuples
  <1>5. \A x, y, g : ~less(T(y), T(x)) => InSequence(x, y, r, all, g) BY DEF InSequence
  <1>6. \A x, p, g : Precedes(x, r, id, shards, all, p, g) <=> behind(x, p) BY DEF Precedes, Reached
  <1> HIDE DEF E, c, F, R, k, T, less
  <1>7. ASSUME NEW x, NEW n \in 1..k, behind(x, at) PROVE ~less(T(page[n]), T(x))
    <2>1. PICK m \in 1..c : m <= at /\ F[m] = x BY <1>7
    <2>2. from + n \in 1..c /\ m < from + n BY <1>1, <1>2, <1>3, <1>7, <2>1
    <2>3. <<x, page[n]>> \in R BY <1>2, <1>3, <2>1, <2>2
    <2> QED BY <1>4, <2>3
  <1>8. ASSUME NEW m \in 1..k, NEW n \in 1..k, m < n PROVE ~less(T(page[n]), T(page[m]))
    <2>1. from + m \in 1..c /\ from + n \in 1..c /\ from + m < from + n BY <1>1, <1>2, <1>8
    <2>2. <<page[m], page[n]>> \in R BY <1>2, <1>3, <2>1
    <2> QED BY <1>4, <2>2
  <1>9. ASSUME NEW x, behind(x, at) PROVE behind(x, next)
    <2>1. PICK m \in 1..c : m <= at /\ F[m] = x BY <1>9
    <2>2. m <= next BY <1>1, <1>3, <1>9, <2>1
    <2> QED BY <1>1, <2>1, <2>2
  <1>10. ASSUME NEW n \in 1..k PROVE behind(page[n], next)
    <2>1. from + n \in 1..c /\ from + n <= next /\ page[n] = F[from + n] BY <1>1, <1>2
    <2> QED BY <1>1, <2>1
  <1> HIDE DEF behind, next
  <1>11. Follows(page, next, r, id, shards, all, at, returned)
    BY <1>5, <1>6, <1>7, <1>8, <1>9, <1>10 DEF Follows, k
  <1> QED BY <1>11 DEF next

(* So does a page of search_after, up to the hits that a float64 does not  *)
(* tell apart.                                                             *)
LEMMA AfterFollows ==
    ASSUME NEW all, Tidy(all), NEW r \in SearchRequest, r.how = "after", NEW id, NEW shards,
           NEW at, at = NoTuple \/ at \in Tuples(r.sort),
           NEW page, page = Take(FoundAfter(r, id, shards, all, at), r.size),
           NEW returned \in Seq(Hit), NEW next, next = Rounded(Tuple(page[Len(page)], r.sort, all), r.sort)
    PROVE  /\ page \in Seq(Hit)
           /\ Len(page) # 0 => next # NoTuple /\ next \in Tuples(r.sort)
           /\ Follows(page, next, r, id, shards, all, at, returned)
  <1> DEFINE X == After(r, id, shards, all, at)
             R == Before(all, r.sort, all)
             k == Len(page)
             j == returned \o page
             T(x) == Tuple(x, r.sort, all)
             RT(x) == Rounded(T(x), r.sort)
             less(t, u) == TupleLess(t, u, r.sort)
             differ(x, y) == FloatsDiffer(x, y, r.sort, all)
             exact(x, g) == Exact(x, r, all, g)
             last == page[k]
  <1>1. r.sort \in Seq(SortField) BY DEF SearchRequest, SortField
  <1>2. Opens(page, X, R) BY AfterPage
  <1> HIDE DEF X
  <1>3. /\ k \in Nat /\ \A n \in 1..k : page[n] \in X
        /\ \A m, n \in 1..k : m < n => <<page[m], page[n]>> \in R
    BY <1>2 DEF Opens
  <1>4. \A x : x \in X => x \in all /\ (at = NoTuple \/ less(at, RT(x))) BY DEF X, After, Eligible, Heads
  <1>5. all \subseteq Hit /\ IsFiniteSet(all) BY DEF Tidy
  <1>6. \A x \in Hit : T(x) \in Tuples(r.sort) /\ RT(x) \in Tuples(r.sort) BY <1>1, <1>5, RoundedKeys
  <1>7. /\ \A t \in Tuples(r.sort) : ~less(t, t)
        /\ \A t, u, w \in Tuples(r.sort) : less(t, u) /\ less(u, w) => less(t, w)
        /\ \A t, u \in Tuples(r.sort) : t = u \/ less(t, u) \/ less(u, t)
    BY <1>1, TuplesOrdered DEF Tuples
  <1>8. \A x, y : <<x, y>> \in R => (T(x) = T(y) \/ less(T(x), T(y))) /\ ~less(T(y), T(x))
    BY <1>1, LessTuples
  <1>9. \A n \in 1..k : page[n] \in Hit BY <1>3, <1>4, <1>5
  <1>10. page \in Seq(Hit)
    <2>1. page \in [1..k -> X] BY <1>2 DEF Opens
    <2>2. X \subseteq Hit BY <1>4, <1>5
    <2>3. page \in [1..k -> Hit] BY <2>1, <2>2
    <2> HIDE DEF k
    <2> QED BY <1>3, <2>3
  <1>11. k # 0 => k \in 1..k /\ last \in Hit /\ last \in X BY <1>3, <1>9
  <1>12. k # 0 => next = RT(last) /\ next # NoTuple /\ next \in Tuples(r.sort)
    <2> SUFFICES ASSUME k # 0 PROVE next = RT(last) /\ next # NoTuple /\ next \in Tuples(r.sort)
      OBVIOUS
    <2>1. next = RT(last) OBVIOUS
    <2>2. next \in Tuples(r.sort) BY <1>6, <1>11, <2>1
    <2>3. next \in Seq(Key)
      <3>1. Len(r.sort) \in Nat /\ DOMAIN r.sort = 1..Len(r.sort) BY <1>1
      <3>2. next \in [1..Len(r.sort) -> Key] BY <2>2, <3>1 DEF Tuples
      <3> QED BY <3>1, <3>2
    <2> QED BY <2>1, <2>2, <2>3, SearchAssumption
  <1>13. /\ \A x : x \in Range(j) <=> x \in Range(returned) \/ \E n \in 1..k : page[n] = x
         /\ \A x : exact(x, j) => exact(x, returned)
    BY <1>10, JoinedRange
  <1>14. \A x, g : exact(x, g) <=> \A y \in Range(g) : differ(y, x) BY DEF Exact
  <1>15. \A x, y : differ(x, y) <=> differ(y, x) BY DEF FloatsDiffer
  <1>16. \A x, y \in Hit : differ(x, y) /\ less(T(x), T(y)) => less(RT(x), RT(y)) BY <1>1, <1>5, RoundedOrder
  <1>17. Range(returned) \subseteq Hit BY DEF Range
  <1>18. \A x, y : InSequence(x, y, r, all, j) <=> (exact(x, j) => ~less(T(y), T(x))) BY DEF InSequence
  <1>19. \A x, p, g : Precedes(x, r, id, shards, all, p, g) <=> p # NoTuple /\ (exact(x, g) => ~less(p, RT(x)))
    BY DEF Precedes, Reached
  <1>20. T(last) = T(last) /\ \A x : T(x) = T(last) => RT(x) = RT(last) OBVIOUS
  <1>21. \A x : x \in Entries(r) => x \in Hit BY DEF Entries
  <1> HIDE DEF R, k, j, T, RT, less, differ, exact, last
  <1>22. ASSUME NEW x \in Hit, NEW n \in 1..k, at # NoTuple, exact(x, returned) => ~less(at, RT(x)), exact(x, j)
         PROVE  ~less(T(page[n]), T(x))
    <2> SUFFICES ASSUME less(T(page[n]), T(x)) PROVE FALSE
      OBVIOUS
    <2>1. ~less(at, RT(x)) BY <1>13, <1>22
    <2>2. page[n] \in Hit /\ page[n] \in Range(j) BY <1>9, <1>13
    <2>3. differ(page[n], x) BY <1>14, <1>22, <2>2
    <2>4. less(RT(page[n]), RT(x)) BY <1>16, <2>2, <2>3
    <2>5. less(at, RT(page[n])) BY <1>3, <1>4, <1>22
    <2>6. at \in Tuples(r.sort) /\ RT(page[n]) \in Tuples(r.sort) /\ RT(x) \in Tuples(r.sort) BY <1>6, <1>22, <2>2
    <2> QED BY <1>7, <2>1, <2>4, <2>5, <2>6
  <1>23. \A m, n \in 1..k : m < n => ~less(T(page[n]), T(page[m])) BY <1>3, <1>8
  <1>24. ASSUME k # 0, NEW x \in Hit, at # NoTuple, exact(x, returned) => ~less(at, RT(x)), exact(x, j)
         PROVE  ~less(next, RT(x))
    <2>1. ~less(at, RT(x)) BY <1>13, <1>24
    <2>2. less(at, RT(last)) BY <1>4, <1>11, <1>24
    <2>3. at \in Tuples(r.sort) /\ RT(last) \in Tuples(r.sort) /\ RT(x) \in Tuples(r.sort) BY <1>6, <1>11, <1>24
    <2> QED BY <1>7, <1>12, <1>24, <2>1, <2>2, <2>3
  <1>25. ASSUME k # 0, NEW n \in 1..k, exact(page[n], j) PROVE ~less(next, RT(page[n]))
    <2>1. RT(last) \in Tuples(r.sort) /\ RT(page[n]) \in Tuples(r.sort) /\ page[n] \in Hit /\ last \in Hit /\ k \in 1..k
      BY <1>6, <1>9, <1>11, <1>25
    <2>2. CASE n = k
      <3>1. next = RT(page[n]) BY <1>12, <1>25, <2>2 DEF last
      <3> QED BY <1>7, <2>1, <3>1
    <2>3. CASE n # k
      <3>1. n < k BY <1>3, <2>3
      <3>2. <<page[n], last>> \in R BY <1>3, <2>1, <3>1 DEF last
      <3>3. T(page[n]) = T(last) \/ less(T(page[n]), T(last)) BY <1>8, <3>2
      <3>4. last \in Range(j) BY <1>13, <2>1 DEF last
      <3>5. differ(page[n], last) BY <1>14, <1>15, <1>25, <3>4
      <3>6. RT(page[n]) = RT(last) \/ less(RT(page[n]), RT(last)) BY <1>16, <1>20, <2>1, <3>3, <3>5
      <3>7. ~less(RT(last), RT(page[n])) BY <1>7, <2>1, <3>6
      <3> QED BY <1>12, <1>25, <3>7
    <2> QED BY <2>2, <2>3
  <1>26. Follows(page, next, r, id, shards, all, at, returned)
    <2>1. ASSUME NEW x \in Entries(r), NEW n \in 1..k, Precedes(x, r, id, shards, all, at, returned)
          PROVE  InSequence(x, page[n], r, all, j)
      BY <1>18, <1>19, <1>21, <1>22, <2>1
    <2>2. \A m, n \in 1..k : m < n => InSequence(page[m], page[n], r, all, j) BY <1>18, <1>23
    <2>3. ASSUME k # 0, NEW x \in Entries(r), Precedes(x, r, id, shards, all, at, returned)
          PROVE  Precedes(x, r, id, shards, all, next, j)
      BY <1>12, <1>19, <1>21, <1>24, <2>3
    <2>4. ASSUME k # 0, NEW n \in 1..k PROVE Precedes(page[n], r, id, shards, all, next, j)
      BY <1>12, <1>19, <1>25, <2>4
    <2> QED BY <2>1, <2>2, <2>3, <2>4 DEF Follows, k, j
  <1> QED BY <1>10, <1>12, <1>26 DEF k

(* So does a page of a scroll.                                             *)
LEMMA ScrollFollows ==
    ASSUME NEW all, NEW r, r.how = "scroll", NEW id, NEW shards, NEW at,
           NEW hits, at # NoTuple => hits = at, NEW page, NEW next, next # NoTuple,
           Serves(page, next, hits, r, id, shards, all), NEW returned
    PROVE  Follows(page, next, r, id, shards, all, at, returned)
  <1> DEFINE c == Len(hits)
             k == Len(page)
             d == Len(next)
             T(x) == Tuple(x, r.sort, all)
             less(t, u) == TupleLess(t, u, r.sort)
             behind(x, p) == p # NoTuple /\ \A n \in 1..Len(p) : ~less(T(p[n]), T(x))
  <1>1. c \in Nat /\ \A m, n \in 1..c : m < n => ~less(T(hits[n]), T(hits[m])) BY DEF Serves, Queued
  <1>2. k \in Nat /\ \A n \in 1..k : n \in 1..c /\ page[n] = hits[n] BY DEF Serves
  <1>3. d \in Nat /\ \A n \in 1..d : k + n \in 1..c /\ next[n] = hits[k + n] BY DEF Serves, Queued
  <1>4. \A x, y, g : ~less(T(y), T(x)) => InSequence(x, y, r, all, g) BY DEF InSequence
  <1>5. \A x, p, g : Precedes(x, r, id, shards, all, p, g) <=> behind(x, p) BY DEF Precedes
  <1>6. \A x : behind(x, at) => \A n \in 1..c : ~less(T(hits[n]), T(x)) OBVIOUS
  <1>7. \A x : behind(x, next) <=> \A n \in 1..d : ~less(T(next[n]), T(x)) OBVIOUS
  <1> HIDE DEF c, k, d, T, less, behind
  <1>8. \A x : \A n \in 1..k : behind(x, at) => ~less(T(page[n]), T(x)) BY <1>2, <1>6
  <1>9. \A m, n \in 1..k : m < n => ~less(T(page[n]), T(page[m])) BY <1>1, <1>2
  <1>10. \A x : behind(x, at) => behind(x, next) BY <1>3, <1>6, <1>7
  <1>11. ASSUME NEW n \in 1..k PROVE behind(page[n], next)
    <2>1. ASSUME NEW m \in 1..d PROVE ~less(T(next[m]), T(page[n]))
      <3>1. n \in 1..c /\ k + m \in 1..c /\ n < k + m BY <1>2, <1>3
      <3> QED BY <1>1, <1>2, <1>3, <3>1
    <2> QED BY <1>7, <2>1
  <1> QED BY <1>4, <1>5, <1>8, <1>9, <1>10, <1>11 DEF Follows, k

(* So does a page of buckets.                                              *)
LEMMA CompositeFollows ==
    ASSUME NEW all, Tidy(all), NEW r \in SearchRequest, Valid(r), r.how = "composite", NEW id, NEW shards,
           NEW at, at = NoTuple \/ at \in [{1} -> Key],
           NEW page, page = Take(BucketsAfter(r.sort[1], all, at), r.size),
           NEW next, next = <<page[Len(page)].value>>, NEW returned
    PROVE  /\ page \in Seq(Bucket)
           /\ Len(page) # 0 => next # NoTuple /\ next \in [{1} -> Key]
           /\ Follows(page, next, r, id, shards, all, at, returned)
  <1> DEFINE s == r.sort[1]
             V == ValuesAfter(s, all, at)
             k == Len(page)
             less(v, w) == compositeLess(v, w, s)
             behind(x, p) == p # NoTuple /\ ~less(p[1], x.value)
             last == page[k].value
  <1>1. s \in SortField /\ r.size \in Nat \ {0}
    <2>1. Len(r.sort) = 1 BY DEF Valid
    <2>2. r.sort \in Seq(SortField) /\ r.size \in Nat \ {0} BY DEF SearchRequest, SortField
    <2> QED BY <2>1, <2>2
  <1>2. V = ValuesAfter(s, all, at) OBVIOUS
  <1> HIDE DEF V
  <1>3. /\ k \in Nat /\ page \in [1..k -> Bucket] /\ V \subseteq Key
        /\ \A n \in 1..k : page[n].value \in V
        /\ \A m, n \in 1..k : m < n => less(page[m].value, page[n].value)
    <2>1. page = Take(BucketsAfter(s, all, at), r.size) OBVIOUS
    <2> HIDE DEF s, k, less
    <2>2. BucketsOpen(page, V, s) BY <1>1, <1>2, <2>1, BucketPage
    <2> QED BY <2>2 DEF BucketsOpen, k, less
  <1>4. \A v \in V : at = NoTuple \/ less(at[1], v) BY <1>2 DEF ValuesAfter
  <1>5. /\ \A a \in Key : ~less(a, a)
        /\ \A a, b, c \in Key : less(a, b) /\ less(b, c) => less(a, c)
        /\ \A a, b \in Key : a = b \/ less(a, b) \/ less(b, a)
    BY <1>1, BucketsOrdered
  <1>6. at # NoTuple => at[1] \in Key OBVIOUS
  <1>7. k # 0 => k \in 1..k /\ last \in V /\ next # NoTuple /\ next[1] = last /\ next \in [{1} -> Key]
    <2> SUFFICES ASSUME k # 0 PROVE k \in 1..k /\ last \in V /\ next # NoTuple /\ next[1] = last /\ next \in [{1} -> Key]
      OBVIOUS
    <2>1. k \in 1..k BY <1>3
    <2>2. last \in V /\ last \in Key BY <1>3, <2>1
    <2>3. next = <<last>> OBVIOUS
    <2> HIDE DEF last
    <2>4. next \in Seq(Key) /\ next[1] = last BY <2>2, <2>3
    <2>5. next \in [1..1 -> Key] /\ 1..1 = {1} BY <2>2, <2>3
    <2> QED BY <2>1, <2>2, <2>4, <2>5, SearchAssumption
  <1>8. page \in Seq(Bucket)
    <2> HIDE DEF k
    <2> QED BY <1>3
  <1>9. \A x, y, g : InSequence(x, y, r, all, g) <=> less(x.value, y.value) BY DEF InSequence
  <1>10. \A x, p, g : Precedes(x, r, id, shards, all, p, g) <=> behind(x, p) BY DEF Precedes, Reached
  <1>11. \A x : x \in Entries(r) => x.value \in Key BY DEF Entries, Bucket
  <1>12. \A n \in 1..k : page[n].value \in Key BY <1>3
  <1>13. \A x : behind(x, at) <=> at # NoTuple /\ ~less(at[1], x.value) OBVIOUS
  <1>14. k # 0 => \A x : behind(x, next) <=> ~less(last, x.value) BY <1>7
  <1> HIDE DEF s, k, less, behind
  <1>15. ASSUME NEW x \in Entries(r), NEW n \in 1..k, behind(x, at) PROVE less(x.value, page[n].value)
    <2>1. less(at[1], page[n].value) /\ ~less(at[1], x.value) /\ at[1] \in Key BY <1>3, <1>4, <1>6, <1>13, <1>15
    <2>2. x.value = at[1] \/ less(x.value, at[1]) BY <1>5, <1>11, <2>1
    <2> QED BY <1>5, <1>11, <1>12, <2>1, <2>2
  <1>16. ASSUME k # 0, NEW x \in Entries(r), behind(x, at) PROVE behind(x, next)
    <2>1. k \in 1..k /\ last = page[k].value BY <1>7, <1>16
    <2>2. less(x.value, last) BY <1>15, <1>16, <2>1
    <2>3. last \in Key /\ x.value \in Key BY <1>11, <1>12, <2>1
    <2>4. ~less(last, x.value) BY <1>5, <2>2, <2>3
    <2> QED BY <1>14, <1>16, <2>4
  <1>17. ASSUME k # 0, NEW n \in 1..k PROVE behind(page[n], next)
    <2>1. k \in 1..k /\ last = page[k].value BY <1>7, <1>17
    <2>2. n = k \/ n < k BY <1>3
    <2>3. page[n].value = last \/ less(page[n].value, last) BY <1>3, <2>1, <2>2
    <2>4. last \in Key /\ page[n].value \in Key BY <1>12, <2>1
    <2>5. ~less(last, page[n].value) BY <1>5, <2>3, <2>4
    <2> QED BY <1>14, <1>17, <2>5
  <1> HIDE DEF last
  <1>18. Follows(page, next, r, id, shards, all, at, returned)
    BY <1>3, <1>9, <1>10, <1>15, <1>16, <1>17 DEF Follows, k
  <1> QED BY <1>7, <1>8, <1>18 DEF k

\* what a page and the client's next place have to be
GoodPage(page, next, r, id, shards, all, at, returned) ==
    /\ page \in Seq(Entries(r))
    /\ Len(page) # 0 => next # NoTuple /\ PlaceOK(r, id, shards, all, next)
    /\ \A h \in Hit : (InSlice(h, r, id, shards) <=> h \in Eligible(r, id, shards, all)) /\ ToldApart(h, r, all, returned \o page)
                        => Advances(page, next, h, r, id, shards, all, at)
    /\ Follows(page, next, r, id, shards, all, at, returned)

(* PageFrom returns such a page.                                           *)
LEMMA GoodFrom ==
    ASSUME NEW all, Tidy(all), NEW r \in SearchRequest, r.how = "from", NEW id, NEW shards,
           NEW at, PlaceOK(r, id, shards, all, at), NEW from, from = IF at = NoTuple THEN 0 ELSE at,
           NEW page, page = Take(Drop(Found(r, id, shards, all, from + r.size), from), r.size), NEW returned
    PROVE  GoodPage(page, from + r.size, r, id, shards, all, at, returned)
  <1>1. at = NoTuple \/ at \in Nat BY DEF PlaceOK
  <1>2. from \in Nat /\ r.size \in Nat BY <1>1 DEF SearchRequest
  <1> DEFINE E == Eligible(r, id, shards, all)
             next == from + r.size
  <1>3. page \in Seq(Entries(r))
    <2>1. E = Eligible(r, id, shards, all) OBVIOUS
    <2>2. E \subseteq Hit BY DEF Eligible, Heads, Tidy
    <2> HIDE DEF E
    <2>3. IsPart(page, Sorted(E, r.sort, all), Cardinality(E), from, r.size, E) BY <1>2, <2>1, FromPage
    <2>4. Len(page) \in Nat /\ page \in [1..Len(page) -> E] BY <2>3 DEF IsPart
    <2>5. page \in [1..Len(page) -> Hit] BY <2>2, <2>4
    <2>6. page \in Seq(Hit) BY <2>4, <2>5
    <2> QED BY <2>6 DEF Entries
  <1>4. next \in Nat /\ next # NoTuple BY <1>2, SearchAssumption
  <1>5. ASSUME NEW h \in Hit, InSlice(h, r, id, shards) <=> h \in Eligible(r, id, shards, all)
        PROVE  Advances(page, next, h, r, id, shards, all, at)
    BY <1>1, <1>5, FromAdvances
  <1>6. Follows(page, next, r, id, shards, all, at, returned) BY <1>1, FromFollows
  <1>7. PlaceOK(r, id, shards, all, next) BY <1>4 DEF PlaceOK
  <1> HIDE DEF next
  <1>8. GoodPage(page, next, r, id, shards, all, at, returned) BY <1>3, <1>4, <1>5, <1>6, <1>7 DEF GoodPage
  <1> QED BY <1>8 DEF next

(* PageAfter does.                                                         *)
LEMMA GoodAfter ==
    ASSUME NEW all, Tidy(all), NEW r \in SearchRequest, r.how = "after", NEW id, NEW shards,
           NEW at, PlaceOK(r, id, shards, all, at),
           NEW page, page = Take(FoundAfter(r, id, shards, all, at), r.size),
           NEW returned \in Seq(Entries(r)), NEW next, next = Rounded(Tuple(page[Len(page)], r.sort, all), r.sort)
    PROVE  GoodPage(page, next, r, id, shards, all, at, returned)
  <1>1. at = NoTuple \/ at \in Tuples(r.sort) BY DEF PlaceOK
  <1>2. Entries(r) = Hit BY DEF Entries
  <1>3. /\ page \in Seq(Hit)
        /\ Len(page) # 0 => next # NoTuple /\ next \in Tuples(r.sort)
        /\ Follows(page, next, r, id, shards, all, at, returned)
    BY <1>1, <1>2, AfterFollows
  <1>4. \A n \in 1..Len(page) : page[n] \in Range(returned \o page) BY <1>2, <1>3, JoinedRange
  <1>5. ASSUME NEW h \in Hit, InSlice(h, r, id, shards) <=> h \in Eligible(r, id, shards, all),
               ToldApart(h, r, all, returned \o page)
        PROVE  Advances(page, next, h, r, id, shards, all, at)
    <2> DEFINE j == returned \o page
    <2>1. (\A n \in 1..Len(page) : page[n] \in Range(j)) /\ ToldApart(h, r, all, j) BY <1>4, <1>5
    <2> HIDE DEF j
    <2> QED BY <1>1, <1>5, <2>1, AfterAdvances
  <1>6. Len(page) # 0 => PlaceOK(r, id, shards, all, next) BY <1>3 DEF PlaceOK
  <1> QED BY <1>2, <1>3, <1>5, <1>6 DEF GoodPage

(* ScrollPage does.                                                        *)
LEMMA GoodScroll ==
    ASSUME NEW all, Tidy(all), NEW r \in SearchRequest, r.how = "scroll", NEW id, NEW shards,
           NEW at, PlaceOK(r, id, shards, all, at),
           NEW hits, hits = IF at = NoTuple THEN Found(r, id, shards, all, Cardinality(all)) ELSE at,
           NEW page, page = Take(hits, r.size), NEW next, next = Drop(hits, r.size), NEW returned
    PROVE  GoodPage(page, next, r, id, shards, all, at, returned)
  <1>1. at = NoTuple \/ Queued(at, r, id, shards, all) BY DEF PlaceOK
  <1>2. \A h : (InSlice(h, r, id, shards) <=> h \in Eligible(r, id, shards, all)) => Advances(page, next, h, r, id, shards, all, at)
    BY <1>1, ScrollAdvances
  <1>3. Serves(page, next, hits, r, id, shards, all) BY <1>1, ScrollAdvances
  <1>4. next # NoTuple
    <2>1. Len(next) \in Nat /\ next \in [1..Len(next) -> Hit] BY <1>3 DEF Serves, Queued
    <2>2. next \in Seq(Hit) BY <2>1
    <2> QED BY <2>1, <2>2, SearchAssumption
  <1>5. page \in Seq(Entries(r))
    <2>1. page \in Seq(Hit) BY <1>3 DEF Serves
    <2> QED BY <2>1 DEF Entries
  <1>6. Follows(page, next, r, id, shards, all, at, returned)
    <2>1. at # NoTuple => hits = at OBVIOUS
    <2> QED BY <1>3, <1>4, <2>1, ScrollFollows
  <1>7. PlaceOK(r, id, shards, all, next) BY <1>3 DEF PlaceOK, Serves
  <1> QED BY <1>2, <1>4, <1>5, <1>6, <1>7 DEF GoodPage

(* CompositePage does.                                                     *)
LEMMA GoodComposite ==
    ASSUME NEW all, Tidy(all), NEW r \in SearchRequest, Valid(r), r.how = "composite", NEW id, NEW shards,
           NEW at, PlaceOK(r, id, shards, all, at),
           NEW page, page = Take(BucketsAfter(r.sort[1], all, at), r.size),
           NEW next, next = <<page[Len(page)].value>>, NEW returned
    PROVE  GoodPage(page, next, r, id, shards, all, at, returned)
  <1>1. at = NoTuple \/ at \in [{1} -> Key] BY DEF PlaceOK
  <1>2. /\ page \in Seq(Bucket)
        /\ Len(page) # 0 => next # NoTuple /\ next \in [{1} -> Key]
        /\ Follows(page, next, r, id, shards, all, at, returned)
    BY <1>1, CompositeFollows
  <1>3. ASSUME NEW h, InSlice(h, r, id, shards) <=> h \in Eligible(r, id, shards, all)
        PROVE  Advances(page, next, h, r, id, shards, all, at)
    BY <1>1, <1>3, CompositeAdvances
  <1>4. Len(page) # 0 => PlaceOK(r, id, shards, all, next) BY <1>2 DEF PlaceOK
  <1>5. page \in Seq(Entries(r)) BY <1>2 DEF Entries
  <1> QED BY <1>2, <1>3, <1>4, <1>5 DEF GoodPage

-----------------------------------------------------------------------------
(* The documents and their hits. *)

\* the documents of the indices, each with a sequence number of its own
GoodDocs(d) ==
    /\ DOMAIN d = Index
    /\ \A x \in Index :
         /\ DOMAIN d[x] \subseteq Id
         /\ \A a \in DOMAIN d[x] : d[x][a].value \in Value \union {Missing} /\ d[x][a].seqNo \in Nat
         /\ \A a, b \in DOMAIN d[x] : d[x][a].seqNo = d[x][b].seqNo => a = b

\* the hit of a document
HitOf(d, x, a, shards) ==
    [index |-> x, id |-> a, value |-> d[x][a].value, seqNo |-> d[x][a].seqNo, shard |-> shardOf(a, shards)]

\* every hit is on a shard
Sharded(all, shards) == \A h \in all : h.shard \in 0..(shards - 1) /\ SliceHash[h.id] \in Nat

(* The hits are those of the documents.                                    *)
LEMMA HitsMember ==
    ASSUME NEW d, NEW shards
    PROVE  \A h : h \in Hits(d, shards) <=> \E x \in Index : \E a \in DOMAIN d[x] : h = HitOf(d, x, a, shards)
  BY DEF Hits, HitOf

(* Hits are finitely many, each on a shard, and index and sequence number  *)
(* tell them apart.                                                        *)
LEMMA HitsTidy ==
    ASSUME NEW d, GoodDocs(d), NEW shards \in Nat \ {0}
    PROVE  Tidy(Hits(d, shards)) /\ Sharded(Hits(d, shards), shards)
  <1> DEFINE H == Hits(d, shards)
             P == {p \in Index \X Id : p[2] \in DOMAIN d[p[1]]}
             f == [p \in P |-> HitOf(d, p[1], p[2], shards)]
  <1>1. \A h : h \in H <=> \E x \in Index : \E a \in DOMAIN d[x] : h = HitOf(d, x, a, shards) BY HitsMember
  <1>2. ASSUME NEW x \in Index, NEW a \in DOMAIN d[x]
        PROVE  HitOf(d, x, a, shards) \in Hit /\ a \in Id /\ shardOf(a, shards) \in 0..(shards - 1)
    <2>1. a \in Id /\ d[x][a].value \in Value \union {Missing} /\ d[x][a].seqNo \in Nat BY DEF GoodDocs
    <2>2. shardOf(a, shards) \in 0..(shards - 1) BY <2>1, ShardType
    <2>3. shardOf(a, shards) \in Nat BY <2>2
    <2> QED BY <2>1, <2>2, <2>3 DEF HitOf, Hit
  <1>3. H \subseteq Hit BY <1>1, <1>2
  <1>4. IsFiniteSet(P)
    <2>1. IsFiniteSet(Index) /\ IsFiniteSet(Id) BY SearchAssumption
    <2>2. IsFiniteSet(Index \X Id) BY <2>1, FS_Product
    <2> QED BY <2>2, FS_Subset
  <1>5. f \in Surjection(P, H)
    <2>1. \A p \in P : f[p] \in H
      <3> SUFFICES ASSUME NEW p \in P PROVE HitOf(d, p[1], p[2], shards) \in H
        OBVIOUS
      <3>1. p[1] \in Index /\ p[2] \in DOMAIN d[p[1]] OBVIOUS
      <3> QED BY <1>1, <3>1
    <2>2. \A h \in H : \E p \in P : f[p] = h
      <3> SUFFICES ASSUME NEW h \in H PROVE \E p \in P : HitOf(d, p[1], p[2], shards) = h
        OBVIOUS
      <3>1. PICK x \in Index : \E a \in DOMAIN d[x] : h = HitOf(d, x, a, shards) BY <1>1
      <3>2. PICK a \in DOMAIN d[x] : h = HitOf(d, x, a, shards) BY <3>1
      <3>3. a \in Id BY <1>2
      <3>4. <<x, a>> \in P BY <3>3
      <3> QED BY <3>2, <3>4
    <2>3. f \in [P -> H] BY <2>1
    <2> HIDE DEF f, P, H
    <2> QED BY <2>2, <2>3 DEF Surjection
  <1>6. IsFiniteSet(H)
    <2> HIDE DEF f, P, H
    <2> QED BY <1>4, <1>5, FS_Surjection
  <1>7. ASSUME NEW g \in H, NEW h \in H, g.index = h.index, g.seqNo = h.seqNo PROVE g = h
    <2>1. PICK x \in Index : \E a \in DOMAIN d[x] : g = HitOf(d, x, a, shards) BY <1>1
    <2>2. PICK a \in DOMAIN d[x] : g = HitOf(d, x, a, shards) BY <2>1
    <2>3. PICK y \in Index : \E b \in DOMAIN d[y] : h = HitOf(d, y, b, shards) BY <1>1
    <2>4. PICK b \in DOMAIN d[y] : h = HitOf(d, y, b, shards) BY <2>3
    <2>5. x = y /\ d[x][a].seqNo = d[y][b].seqNo BY <1>7, <2>2, <2>4 DEF HitOf
    <2>6. a = b BY <2>5 DEF GoodDocs
    <2> QED BY <2>2, <2>4, <2>5, <2>6
  <1>8. Sharded(H, shards)
    <2> SUFFICES ASSUME NEW h \in H PROVE h.shard \in 0..(shards - 1) /\ SliceHash[h.id] \in Nat
      BY DEF Sharded
    <2>1. PICK x \in Index : \E a \in DOMAIN d[x] : h = HitOf(d, x, a, shards) BY <1>1
    <2>2. PICK a \in DOMAIN d[x] : h = HitOf(d, x, a, shards) BY <2>1
    <2>3. h.shard = shardOf(a, shards) /\ h.id = a BY <2>2 DEF HitOf
    <2>4. SliceHash[a] \in Nat BY <1>2, SearchAssumption
    <2> QED BY <1>2, <2>3, <2>4
  <1> HIDE DEF H
  <1> QED BY <1>3, <1>6, <1>7, <1>8 DEF Tidy, H

\* and the index's next sequence number is greater
Numbered(d, next) ==
    /\ next \in [Index -> Nat]
    /\ \A x \in Index : \A a \in DOMAIN d[x] : d[x][a].seqNo < next[x]

(* The documents an index starts with.                                     *)
LEMMA LoadedGood ==
    ASSUME NEW load \in [Index -> Loads], NEW d, d = [x \in Index |-> Loaded(load[x]).docs],
           NEW next, next = [x \in Index |-> Loaded(load[x]).seqNo]
    PROVE  GoodDocs(d) /\ Numbered(d, next)
  <1>1. ASSUME NEW x \in Index
        PROVE  /\ next[x] \in Nat /\ DOMAIN d[x] \subseteq Id
               /\ \A a \in DOMAIN d[x] : d[x][a].value \in Value \union {Missing} /\ d[x][a].seqNo \in Nat /\ d[x][a].seqNo < next[x]
               /\ \A a, b \in DOMAIN d[x] : d[x][a].seqNo = d[x][b].seqNo => a = b
    <2> DEFINE l == load[x]
               ids == {l[n].id : n \in DOMAIN l}
               nth(a) == CHOOSE m \in DOMAIN l : l[m].id = a
    <2>1. l \in Seq([id : Id, value : Value \union {Missing}])
      <3>1. Loads \subseteq Seq([id : Id, value : Value \union {Missing}]) BY SearchAssumption
      <3> QED BY <3>1
    <2>2. d[x] = [a \in ids |-> [value |-> l[nth(a)].value, seqNo |-> nth(a) - 1]] /\ next[x] = Len(l) BY DEF Loaded
    <2> HIDE DEF l
    <2>3. Len(l) \in Nat /\ DOMAIN l = 1..Len(l) /\ \A n \in 1..Len(l) : l[n].id \in Id /\ l[n].value \in Value \union {Missing}
      <3> DEFINE S == [id : Id, value : Value \union {Missing}]
      <3>1. \A e \in S : e.id \in Id /\ e.value \in Value \union {Missing} OBVIOUS
      <3>2. l \in Seq(S) BY <2>1
      <3> HIDE DEF S
      <3>3. Len(l) \in Nat /\ DOMAIN l = 1..Len(l) /\ \A n \in 1..Len(l) : l[n] \in S BY <3>2
      <3> QED BY <3>1, <3>3
    <2>4. \A a \in ids : nth(a) \in DOMAIN l /\ l[nth(a)].id = a OBVIOUS
    <2>5. ids \subseteq Id BY <2>3
    <2> HIDE DEF ids, nth
    <2>6. DOMAIN d[x] = ids /\ \A a \in ids : d[x][a].value = l[nth(a)].value /\ d[x][a].seqNo = nth(a) - 1 BY <2>2
    <2>7. \A a \in ids : nth(a) \in 1..Len(l) /\ nth(a) - 1 \in Nat /\ nth(a) - 1 < Len(l) BY <2>3, <2>4
    <2>8. ASSUME NEW a \in ids, NEW b \in ids, nth(a) - 1 = nth(b) - 1 PROVE a = b
      <3>1. nth(a) = nth(b) BY <2>3, <2>7, <2>8
      <3> QED BY <2>4, <3>1
    <2> QED BY <2>2, <2>3, <2>5, <2>6, <2>7, <2>8
  <1>2. DOMAIN d = Index OBVIOUS
  <1>3. next \in [Index -> Nat] BY <1>1
  <1> QED BY <1>1, <1>2, <1>3 DEF GoodDocs, Numbered

\* the documents after a write or a delete
Rewritten(d, next, i, id, value) ==
    [d EXCEPT ![i] = [x \in IF value = NoTuple THEN DOMAIN d[i] \ {id} ELSE DOMAIN d[i] \union {id} |->
                       IF x = id THEN [value |-> value, seqNo |-> next[i]] ELSE d[i][x]]]

(* A write keeps sequence numbers apart, and changes the hit of its        *)
(* document only.                                                          *)
LEMMA WriteGood ==
    ASSUME NEW d, GoodDocs(d), NEW next, Numbered(d, next), NEW i \in Index, NEW id \in Id,
           NEW value \in Value \union {Missing, NoTuple}, NEW e, e = Rewritten(d, next, i, id, value)
    PROVE  /\ GoodDocs(e) /\ Numbered(e, [next EXCEPT ![i] = @ + 1])
           /\ \A shards : \A h \in Hits(e, shards) : <<h.index, h.id>> # <<i, id>> => h \in Hits(d, shards)
  <1> DEFINE D == IF value = NoTuple THEN DOMAIN d[i] \ {id} ELSE DOMAIN d[i] \union {id}
             at(x) == IF x = id THEN [value |-> value, seqNo |-> next[i]] ELSE d[i][x]
             later == [next EXCEPT ![i] = @ + 1]
  <1>1. DOMAIN d = Index /\ next \in [Index -> Nat] BY DEF GoodDocs, Numbered
  <1>2. /\ DOMAIN e = Index /\ e[i] = [x \in D |-> at(x)]
        /\ \A x \in Index : x # i => e[x] = d[x]
    BY <1>1 DEF Rewritten
  <1>3. /\ later \in [Index -> Nat] /\ later[i] = next[i] + 1 /\ next[i] \in Nat
        /\ \A x \in Index : x # i => later[x] = next[x]
    BY <1>1
  <1>4. id \in D => value \in Value \union {Missing} OBVIOUS
  <1>5. D \subseteq DOMAIN d[i] \union {id} OBVIOUS
  <1> HIDE DEF D, later
  <1>6. DOMAIN e[i] = D /\ \A x \in D : e[i][x] = at(x) BY <1>2
  <1>7. /\ DOMAIN d[i] \subseteq Id
        /\ \A a \in DOMAIN d[i] : d[i][a].value \in Value \union {Missing} /\ d[i][a].seqNo \in Nat /\ d[i][a].seqNo < next[i]
        /\ \A a, b \in DOMAIN d[i] : d[i][a].seqNo = d[i][b].seqNo => a = b
    BY DEF GoodDocs, Numbered
  <1>8. ASSUME NEW a \in D
        PROVE  a \in Id /\ e[i][a].value \in Value \union {Missing} /\ e[i][a].seqNo \in Nat /\ e[i][a].seqNo < later[i]
    <2>1. CASE a = id
      <3>1. e[i][a].value = value /\ e[i][a].seqNo = next[i] BY <1>6, <2>1
      <3>2. next[i] \in Nat /\ next[i] < later[i] BY <1>3
      <3> QED BY <1>4, <2>1, <3>1, <3>2
    <2>2. CASE a # id
      <3>1. a \in DOMAIN d[i] /\ e[i][a] = d[i][a] BY <1>5, <1>6, <2>2
      <3>2. d[i][a].seqNo < later[i] BY <1>3, <1>7, <3>1
      <3> QED BY <1>7, <3>1, <3>2
    <2> QED BY <2>1, <2>2
  <1>9. ASSUME NEW a \in D, NEW b \in D, e[i][a].seqNo = e[i][b].seqNo PROVE a = b
    <2>1. \A x \in D : x # id => x \in DOMAIN d[i] /\ e[i][x].seqNo = d[i][x].seqNo /\ d[i][x].seqNo < next[i] /\ d[i][x].seqNo \in Nat
      BY <1>5, <1>6, <1>7
    <2>2. \A x \in D : x = id => e[i][x].seqNo = next[i] BY <1>6
    <2>3. CASE a = id /\ b = id BY <2>3
    <2>4. CASE a # id /\ b # id BY <1>7, <1>9, <2>1, <2>4
    <2>5. CASE (a = id /\ b # id) \/ (a # id /\ b = id)
      <3>1. next[i] < next[i] BY <1>9, <2>1, <2>2, <2>5
      <3> QED BY <1>3, <3>1
    <2> QED BY <2>3, <2>4, <2>5
  <1>10. GoodDocs(e)
    <2>1. ASSUME NEW x \in Index
          PROVE  /\ DOMAIN e[x] \subseteq Id
                 /\ \A a \in DOMAIN e[x] : e[x][a].value \in Value \union {Missing} /\ e[x][a].seqNo \in Nat
                 /\ \A a, b \in DOMAIN e[x] : e[x][a].seqNo = e[x][b].seqNo => a = b
      <3>1. CASE x = i BY <1>6, <1>8, <1>9, <3>1
      <3>2. CASE x # i BY <1>2, <3>2 DEF GoodDocs
      <3> QED BY <3>1, <3>2
    <2> QED BY <1>2, <2>1 DEF GoodDocs
  <1>11. Numbered(e, later)
    <2>1. ASSUME NEW x \in Index PROVE \A a \in DOMAIN e[x] : e[x][a].seqNo < later[x]
      <3>1. CASE x = i BY <1>6, <1>8, <3>1
      <3>2. CASE x # i BY <1>2, <1>3, <3>2 DEF Numbered
      <3> QED BY <3>1, <3>2
    <2> QED BY <1>3, <2>1 DEF Numbered
  <1>12. ASSUME NEW shards, NEW h \in Hits(e, shards), <<h.index, h.id>> # <<i, id>>
         PROVE  h \in Hits(d, shards)
    <2>1. PICK x \in Index : \E a \in DOMAIN e[x] : h = HitOf(e, x, a, shards) BY HitsMember
    <2>2. PICK a \in DOMAIN e[x] : h = HitOf(e, x, a, shards) BY <2>1
    <2>3. h.index = x /\ h.id = a BY <2>2 DEF HitOf
    <2>4. x # i \/ a # id BY <1>12, <2>3
    <2>5. a \in DOMAIN d[x] /\ e[x][a] = d[x][a] BY <1>2, <1>5, <1>6, <2>4
    <2>6. h = HitOf(d, x, a, shards) BY <2>2, <2>5 DEF HitOf
    <2> QED BY <2>5, <2>6, HitsMember
  <1> QED BY <1>10, <1>11, <1>12 DEF later

-----------------------------------------------------------------------------
(* What a page does to what was read. *)

\* Slices, of any request
SlicesOf(r) == IF r.max = 0 THEN 1 ELSE r.max

\* Covered, of any request
CoveredBy(r) == r.how = "from" \/ r.collapse => r.pit

\* the hits that the client is past
Passed(r, sl, shards, all, at) ==
    {h \in Hit : \/ \E id \in 0..(sl - 1) : InSlice(h, r, id, shards)
                 \/ InSlice(h, r, sl, shards) /\ Reached(h, r, sl, shards, all, at)}

\* the client has what it is past, once, and nothing else of what stayed
ReadOK(r, sl, shards, all, steady, at, g) ==
    CoveredBy(r) /\ (r.max = 0 \/ ~r.collapse) =>
        \A h \in Heads(steady, r, all) :
            ToldApart(h, r, all, g) =>
                IF h \in Passed(r, sl, shards, all, at) THEN Once(r, h, g) ELSE Never(r, h, g)

\* in order, and what comes next follows it
OrderOK(r, sl, shards, all, at, g) ==
    CoveredBy(r) /\ r.max = 0 =>
        /\ \A m, n \in 1..Len(g) : m < n => InSequence(g[m], g[n], r, all, g)
        /\ sl = 0 => \A m \in 1..Len(g) : Precedes(g[m], r, 0, shards, all, at, g)

(* Slices divide the hits.                                                 *)
LEMMA SliceOnce ==
    ASSUME NEW r \in SearchRequest, NEW shards \in Nat \ {0}, NEW h, h.shard \in 0..(shards - 1), SliceHash[h.id] \in Nat
    PROVE  /\ \E id \in 0..(SlicesOf(r) - 1) : InSlice(h, r, id, shards)
           /\ \A a, b \in 0..(SlicesOf(r) - 1) : InSlice(h, r, a, shards) /\ InSlice(h, r, b, shards) => a = b
  <1>1. r.max \in Nat BY DEF SearchRequest
  <1>2. CASE r.max = 0
    <2>1. SlicesOf(r) = 1 /\ \A id : InSlice(h, r, id, shards) BY <1>2 DEF SlicesOf, InSlice
    <2> QED BY <2>1
  <1>3. CASE r.max # 0
    <2>1. SlicesOf(r) = r.max /\ \A id : InSlice(h, r, id, shards) <=> sliceContains(h, id, r.max, shards)
      BY <1>3 DEF SlicesOf, InSlice
    <2>2. r.max \in Nat \ {0} BY <1>1, <1>3
    <2>3. /\ \E id \in 0..(r.max - 1) : sliceContains(h, id, r.max, shards)
          /\ \A a, b \in 0..(r.max - 1) : sliceContains(h, a, r.max, shards) /\ sliceContains(h, b, r.max, shards) => a = b
      BY <2>2, OneSlice
    <2> QED BY <2>1, <2>3
  <1> QED BY <1>2, <1>3

(* What is to be read of a slice.                                          *)
LEMMA HeadsEligible ==
    ASSUME NEW r, NEW shards, NEW id, NEW all, NEW steady \in SUBSET all, r.pit => steady = all,
           CoveredBy(r), r.max = 0 \/ ~r.collapse, NEW h \in Heads(steady, r, all)
    PROVE  h \in all /\ (InSlice(h, r, id, shards) <=> h \in Eligible(r, id, shards, all))
  <1>1. CASE r.collapse
    <2>1. steady = all /\ r.max = 0 BY <1>1 DEF CoveredBy
    <2>2. {x \in all : InSlice(x, r, id, shards)} = all /\ InSlice(h, r, id, shards) BY <2>1 DEF InSlice
    <2>3. h \in all BY <2>1 DEF Heads
    <2> QED BY <2>1, <2>2, <2>3 DEF Eligible
  <1>2. CASE ~r.collapse BY <1>2 DEF Heads, Eligible
  <1> QED BY <1>1, <1>2

(* A page, or the end of a slice, keeps what the client has and what it    *)
(* has passed the same.                                                    *)
LEMMA ReadStep ==
    ASSUME NEW r \in SearchRequest, NEW shards \in Nat \ {0}, NEW all, Tidy(all), Sharded(all, shards),
           NEW steady \in SUBSET all, r.pit => steady = all,
           NEW sl \in 0..(SlicesOf(r) - 1), NEW at, NEW page, NEW next, NEW g \in Seq(Entries(r)),
           GoodPage(page, next, r, sl, shards, all, at, g), ReadOK(r, sl, shards, all, steady, at, g)
    PROVE  ReadOK(r, IF page = <<>> THEN sl + 1 ELSE sl, shards, all, steady, IF page = <<>> THEN NoTuple ELSE next, g \o page)
  <1> DEFINE j == g \o page
             sl2 == IF page = <<>> THEN sl + 1 ELSE sl
             at2 == IF page = <<>> THEN NoTuple ELSE next
             P == Passed(r, sl, shards, all, at)
             Q == Passed(r, sl2, shards, all, at2)
  <1>1. SUFFICES ASSUME CoveredBy(r), r.max = 0 \/ ~r.collapse, NEW h \in Heads(steady, r, all), ToldApart(h, r, all, j)
                 PROVE  IF h \in Q THEN Once(r, h, j) ELSE Never(r, h, j)
    BY DEF ReadOK
  <1>2. h \in all /\ (InSlice(h, r, sl, shards) <=> h \in Eligible(r, sl, shards, all)) BY <1>1, HeadsEligible
  <1>3. h \in Hit /\ h.shard \in 0..(shards - 1) /\ SliceHash[h.id] \in Nat BY <1>2 DEF Tidy, Sharded
  <1>4. page \in Seq(Entries(r)) BY DEF GoodPage
  <1>5. Advances(page, next, h, r, sl, shards, all, at) BY <1>1, <1>2, <1>3 DEF GoodPage
  <1>6. ToldApart(h, r, all, g)
    <2>1. \A x : x \in Range(g) => x \in Range(j) BY <1>4, JoinedRange
    <2>2. Exact(h, r, all, j) => Exact(h, r, all, g) BY <1>4, JoinedRange
    <2> HIDE DEF j
    <2> QED BY <1>1, <2>1, <2>2 DEF ToldApart
  <1>7. IF h \in P THEN Once(r, h, g) ELSE Never(r, h, g) BY <1>1, <1>6 DEF ReadOK
  <1> DEFINE in(id) == InSlice(h, r, id, shards)
             S == SlicesOf(r)
             k == Len(page)
             reached(x) == Reached(h, r, sl, shards, all, x)
  <1>8. /\ \A a, b \in 0..(S - 1) : in(a) /\ in(b) => a = b
        /\ S \in Nat /\ sl \in Nat /\ sl \in 0..(S - 1)
    <2>1. r.max \in Nat BY DEF SearchRequest
    <2>2. S \in Nat BY <2>1 DEF SlicesOf
    <2> QED BY <1>3, <2>2, SliceOnce
  <1>9. /\ \A n \in 1..k : Holds(r, h, page[n]) => in(sl) /\ ~reached(at)
        /\ \A m, n \in 1..k : Holds(r, h, page[m]) /\ Holds(r, h, page[n]) => m = n
        /\ k = 0 /\ in(sl) => reached(at)
        /\ k # 0 /\ in(sl) => (reached(next) <=> reached(at) \/ ~Never(r, h, page))
    BY <1>5 DEF Advances
  <1>10. (page = <<>> <=> k = 0) /\ k \in Nat BY <1>4
  <1>11. h \in P <=> (\E id \in 0..(sl - 1) : in(id)) \/ (in(sl) /\ reached(at)) BY <1>3 DEF Passed
  <1>12. Never(r, h, page) <=> \A n \in 1..k : ~Holds(r, h, page[n]) BY DEF Never
  <1>13. page = <<>> => (h \in Q <=> \E id \in 0..sl : in(id))
    <2> SUFFICES ASSUME page = <<>> PROVE h \in Q <=> \E id \in 0..sl : in(id)
      OBVIOUS
    <2>1. Q = Passed(r, sl + 1, shards, all, NoTuple) OBVIOUS
    <2>2. ~Reached(h, r, sl + 1, shards, all, NoTuple) BY DEF Reached
    <2>3. (sl + 1) - 1 = sl BY <1>8
    <2> HIDE DEF Q
    <2> QED BY <1>3, <2>1, <2>2, <2>3 DEF Passed
  <1>14. page # <<>> => (h \in Q <=> (\E id \in 0..(sl - 1) : in(id)) \/ (in(sl) /\ reached(next)))
    <2> SUFFICES ASSUME page # <<>> PROVE h \in Q <=> (\E id \in 0..(sl - 1) : in(id)) \/ (in(sl) /\ reached(next))
      OBVIOUS
    <2>1. Q = Passed(r, sl, shards, all, next) OBVIOUS
    <2> HIDE DEF Q
    <2> QED BY <1>3, <2>1 DEF Passed
  <1> HIDE DEF P, Q, in, S, k, reached, j
  <1>15. in(sl) => ~\E id \in 0..(sl - 1) : in(id)
    <2> SUFFICES ASSUME in(sl), NEW id \in 0..(sl - 1), in(id) PROVE FALSE
      OBVIOUS
    <2>1. id \in 0..(S - 1) /\ id # sl BY <1>8
    <2> QED BY <1>8, <2>1
  <1>16. (\E id \in 0..sl : in(id)) <=> (\E id \in 0..(sl - 1) : in(id)) \/ in(sl)
    <2>1. \A id : id \in 0..sl <=> id \in 0..(sl - 1) \/ id = sl BY <1>8
    <2> QED BY <2>1
  <1>17. h \in P => Never(r, h, page) BY <1>9, <1>11, <1>12, <1>15
  <1>18. h \in Q <=> h \in P \/ ~Never(r, h, page)
    <2>1. CASE page = <<>>
      <3>1. k = 0 BY <1>10, <2>1
      <3>2. \A n \in 1..k : FALSE BY <3>1
      <3>3. Never(r, h, page) BY <1>12, <3>2
      <3> QED BY <1>9, <1>11, <1>13, <1>16, <2>1, <3>1, <3>3
    <2>2. CASE page # <<>>
      <3>1. k # 0 BY <1>10, <2>2
      <3>2. ~Never(r, h, page) => in(sl) BY <1>9, <1>12
      <3> QED BY <1>9, <1>11, <1>14, <2>2, <3>1, <3>2
    <2> QED BY <2>1, <2>2
  <1>19. \A m, n \in 1..Len(page) : Holds(r, h, page[m]) /\ Holds(r, h, page[n]) => m = n BY <1>9 DEF k
  <1> QED BY <1>4, <1>7, <1>17, <1>18, <1>19, JoinedOnce DEF j

(* And it keeps the order.                                                 *)
LEMMA OrderStep ==
    ASSUME NEW r \in SearchRequest, NEW shards, NEW all,
           NEW sl \in 0..(SlicesOf(r) - 1), NEW at, NEW page, NEW next, NEW g \in Seq(Entries(r)),
           GoodPage(page, next, r, sl, shards, all, at, g), OrderOK(r, sl, shards, all, at, g)
    PROVE  OrderOK(r, IF page = <<>> THEN sl + 1 ELSE sl, shards, all, IF page = <<>> THEN NoTuple ELSE next, g \o page)
  <1> DEFINE j == g \o page
             sl2 == IF page = <<>> THEN sl + 1 ELSE sl
             at2 == IF page = <<>> THEN NoTuple ELSE next
             a == Len(g)
             b == Len(page)
             seq(x, y, s) == InSequence(x, y, r, all, s)
             prec(x, p, s) == Precedes(x, r, 0, shards, all, p, s)
  <1>1. SUFFICES ASSUME CoveredBy(r), r.max = 0
                 PROVE  /\ \A m, n \in 1..Len(j) : m < n => seq(j[m], j[n], j)
                        /\ sl2 = 0 => \A m \in 1..Len(j) : prec(j[m], at2, j)
    BY DEF OrderOK
  <1>2. sl = 0
    <2>1. SlicesOf(r) = 1 BY <1>1 DEF SlicesOf
    <2> QED BY <2>1
  <1>3. /\ \A m, n \in 1..a : m < n => seq(g[m], g[n], g)
        /\ \A m \in 1..a : prec(g[m], at, g)
    BY <1>1, <1>2 DEF OrderOK
  <1>4. page \in Seq(Entries(r)) /\ Follows(page, next, r, 0, shards, all, at, g) BY <1>2 DEF GoodPage
  <1>5. /\ \A x \in Entries(r) : \A n \in 1..b : x \in Range(g) /\ prec(x, at, g) => seq(x, page[n], j)
        /\ \A m, n \in 1..b : m < n => seq(page[m], page[n], j)
        /\ b # 0 => \A x \in Entries(r) :
                        (x \in Range(g) /\ prec(x, at, g)) \/ (\E n \in 1..b : page[n] = x) => prec(x, next, j)
    BY <1>4 DEF Follows
  <1>6. a \in Nat /\ b \in Nat /\ (page = <<>> <=> b = 0) BY <1>4
  <1>7. /\ Len(j) = a + b /\ \A n \in 1..a : j[n] = g[n]
        /\ \A n \in 1..b : j[a + n] = page[n]
    <2>1. Len(j) = a + b BY <1>4
    <2>2. \A n \in 1..a : j[n] = g[n] BY <1>4
    <2>3. \A n \in 1..b : j[a + n] = page[n] BY <1>4
    <2> QED BY <2>1, <2>2, <2>3
  <1>8. \A n \in 1..a : g[n] \in Entries(r) /\ g[n] \in Range(g)
    <2>1. DOMAIN g = 1..a OBVIOUS
    <2> QED BY <2>1 DEF Range
  <1>9. \A n \in 1..b : page[n] \in Entries(r) BY <1>4
  <1>10. \A x, y : seq(x, y, g) => seq(x, y, j)
    <2>1. \A x : Exact(x, r, all, j) => Exact(x, r, all, g) BY <1>4, JoinedRange
    <2> HIDE DEF j
    <2> QED BY <2>1 DEF InSequence
  <1>11. sl2 = 0 => b # 0 /\ at2 = next BY <1>2, <1>6
  <1> HIDE DEF j, sl2, at2, a, b, seq, prec
  <1>12. \A n \in 1..(a + b) : n \in 1..a \/ (n - a \in 1..b /\ n = a + (n - a)) BY <1>6
  <1>13. ASSUME NEW m \in 1..(a + b), NEW n \in 1..(a + b), m < n PROVE seq(j[m], j[n], j)
    <2>1. CASE m \in 1..a /\ n \in 1..a
      <3>1. seq(g[m], g[n], g) BY <1>3, <1>13, <2>1
      <3> QED BY <1>7, <1>10, <2>1, <3>1
    <2>2. CASE m \in 1..a /\ n - a \in 1..b /\ n = a + (n - a)
      <3>1. j[n] = page[n - a] BY <1>7, <2>2
      <3>2. seq(g[m], page[n - a], j) BY <1>3, <1>5, <1>8, <2>2
      <3> QED BY <1>7, <2>2, <3>1, <3>2
    <2>3. CASE m - a \in 1..b /\ m = a + (m - a) /\ n - a \in 1..b /\ n = a + (n - a)
      <3>1. j[n] = page[n - a] /\ j[m] = page[m - a] BY <1>7, <2>3
      <3>2. m - a < n - a BY <1>6, <1>13
      <3> QED BY <1>5, <2>3, <3>1, <3>2
    <2>4. ~(n \in 1..a /\ m \notin 1..a) BY <1>6, <1>13
    <2> QED BY <1>12, <2>1, <2>2, <2>3, <2>4
  <1>14. ASSUME sl2 = 0, NEW m \in 1..(a + b) PROVE prec(j[m], at2, j)
    <2>1. CASE m \in 1..a BY <1>3, <1>5, <1>7, <1>8, <1>11, <1>14, <2>1
    <2>2. CASE m - a \in 1..b /\ m = a + (m - a)
      <3>1. j[m] = page[m - a] BY <1>7, <2>2
      <3>2. prec(page[m - a], next, j) BY <1>5, <1>9, <1>11, <1>14, <2>2
      <3> QED BY <1>11, <1>14, <3>1, <3>2
    <2> QED BY <1>12, <2>1, <2>2
  <1> QED BY <1>7, <1>13, <1>14

-----------------------------------------------------------------------------
(* The client, step by step. *)

\* All and Steady, of any request and documents
AllOf(r, vw, d, shards) == Hits(IF r.pit THEN vw ELSE d, shards)

SteadyOf(r, all, w) == IF r.pit THEN all ELSE {h \in all : <<h.index, h.id>> \notin w}

\* the client in the middle of its reading
ReaderOK(r, sl, shards, all, steady, at, g) ==
    /\ sl \in 0..SlicesOf(r)
    /\ sl = SlicesOf(r) => at = NoTuple
    /\ PlaceOK(r, sl, shards, all, at)
    /\ g \in Seq(Entries(r))
    /\ ReadOK(r, sl, shards, all, steady, at, g)
    /\ OrderOK(r, sl, shards, all, at, g)

\* the inductive invariant: documents are numbered once each, and the client
\* is where it should be
PagesInv ==
    /\ numShards \in ShardCounts
    /\ GoodDocs(docs) /\ Numbered(docs, seqNo) /\ GoodDocs(view)
    /\ request \in Requests \union {NoTuple}
    /\ request = NoTuple => slice = 0 /\ place = NoTuple /\ got = <<>>
    /\ request # NoTuple =>
         ReaderOK(request, slice, numShards, AllOf(request, view, docs, numShards),
                  SteadyOf(request, AllOf(request, view, docs, numShards), written), place, got)

(* A client that starts has nothing.                                       *)
LEMMA ReaderStarts ==
    ASSUME NEW r \in SearchRequest, NEW shards, NEW all, NEW steady
    PROVE  ReaderOK(r, 0, shards, all, steady, NoTuple, <<>>)
  <1>1. r.max \in Nat BY DEF SearchRequest
  <1>2. SlicesOf(r) \in Nat /\ SlicesOf(r) # 0 BY <1>1 DEF SlicesOf
  <1>3. 0 \in 0..SlicesOf(r) BY <1>2
  <1>4. PlaceOK(r, 0, shards, all, NoTuple) BY DEF PlaceOK
  <1>5. <<>> \in Seq(Entries(r)) /\ Len(<<>>) = 0 OBVIOUS
  <1>6. \A n \in 1..Len(<<>>) : FALSE BY <1>5
  <1>7. \A h : h \notin Passed(r, 0, shards, all, NoTuple)
    <2>1. \A id \in 0..(0 - 1) : FALSE OBVIOUS
    <2>2. \A h : ~Reached(h, r, 0, shards, all, NoTuple) BY DEF Reached
    <2> QED BY <2>1, <2>2 DEF Passed
  <1>8. \A h : Never(r, h, <<>>) BY <1>6 DEF Never
  <1>9. ReadOK(r, 0, shards, all, steady, NoTuple, <<>>) BY <1>7, <1>8 DEF ReadOK
  <1>10. OrderOK(r, 0, shards, all, NoTuple, <<>>) BY <1>6 DEF OrderOK
  <1> QED BY <1>2, <1>3, <1>4, <1>5, <1>9, <1>10 DEF ReaderOK

(* A page keeps the client where it should be.                             *)
LEMMA ReaderAdvances ==
    ASSUME NEW r \in SearchRequest, NEW shards \in Nat \ {0}, NEW all, Tidy(all), Sharded(all, shards),
           NEW steady \in SUBSET all, r.pit => steady = all, NEW sl, sl < SlicesOf(r),
           NEW at, NEW page, NEW next, NEW g, ReaderOK(r, sl, shards, all, steady, at, g),
           GoodPage(page, next, r, sl, shards, all, at, g)
    PROVE  ReaderOK(r, IF page = <<>> THEN sl + 1 ELSE sl, shards, all, steady, IF page = <<>> THEN NoTuple ELSE next, g \o page)
  <1>1. r.max \in Nat BY DEF SearchRequest
  <1>2. SlicesOf(r) \in Nat /\ sl \in 0..SlicesOf(r) BY <1>1 DEF SlicesOf, ReaderOK
  <1>3. sl \in 0..(SlicesOf(r) - 1) /\ sl + 1 \in 0..SlicesOf(r) BY <1>2
  <1>4. g \in Seq(Entries(r)) /\ page \in Seq(Entries(r)) BY DEF ReaderOK, GoodPage
  <1>5. g \o page \in Seq(Entries(r)) BY <1>4
  <1>6. page = <<>> <=> Len(page) = 0 BY <1>4
  <1>7. PlaceOK(r, IF page = <<>> THEN sl + 1 ELSE sl, shards, all, IF page = <<>> THEN NoTuple ELSE next)
    <2>1. CASE page = <<>> BY <2>1 DEF PlaceOK
    <2>2. CASE page # <<>> BY <1>6, <2>2 DEF GoodPage
    <2> QED BY <2>1, <2>2
  <1>8. ReadOK(r, IF page = <<>> THEN sl + 1 ELSE sl, shards, all, steady, IF page = <<>> THEN NoTuple ELSE next, g \o page)
    BY <1>3, <1>4, ReadStep DEF ReaderOK
  <1>9. OrderOK(r, IF page = <<>> THEN sl + 1 ELSE sl, shards, all, IF page = <<>> THEN NoTuple ELSE next, g \o page)
    BY <1>3, <1>4, OrderStep DEF ReaderOK
  <1> DEFINE sl2 == IF page = <<>> THEN sl + 1 ELSE sl
             at2 == IF page = <<>> THEN NoTuple ELSE next
  <1>10. sl2 \in 0..SlicesOf(r) /\ (sl2 = SlicesOf(r) => at2 = NoTuple)
    <2>1. sl # SlicesOf(r) /\ sl \in 0..SlicesOf(r) BY <1>2
    <2> QED BY <1>3, <2>1
  <1>11. PlaceOK(r, sl2, shards, all, at2) /\ ReadOK(r, sl2, shards, all, steady, at2, g \o page) /\ OrderOK(r, sl2, shards, all, at2, g \o page)
    BY <1>7, <1>8, <1>9
  <1> HIDE DEF sl2, at2
  <1>12. ReaderOK(r, sl2, shards, all, steady, at2, g \o page) BY <1>5, <1>10, <1>11 DEF ReaderOK
  <1> QED BY <1>12 DEF sl2, at2

(* Writes behind the client's back do not matter to what it has read, nor  *)
(* to what it will of the hits that stay.                                  *)
LEMMA ReaderUnmoved ==
    ASSUME NEW r \in Requests, ~r.pit, NEW sl, NEW shards, NEW all, NEW other, NEW steady, NEW rest \in SUBSET steady,
           NEW at, NEW g, ReaderOK(r, sl, shards, all, steady, at, g)
    PROVE  ReaderOK(r, sl, shards, other, rest, at, g)
  <1>1. /\ \A h : Tuple(h, r.sort, all) = Tuple(h, r.sort, other)
        /\ \A h, s : Exact(h, r, all, s) <=> Exact(h, r, other, s)
        /\ \A h, s : ToldApart(h, r, all, s) <=> ToldApart(h, r, other, s)
    BY TuplesStay
  <1>2. PlaceOK(r, sl, shards, other, at)
    <2>1. PlaceOK(r, sl, shards, all, at) BY DEF ReaderOK
    <2>2. Queued(at, r, sl, shards, all) => Queued(at, r, sl, shards, other) BY <1>1 DEF Queued
    <2> QED BY <2>1, <2>2 DEF PlaceOK
  <1>3. CoveredBy(r) => r.how # "from" /\ ~r.collapse BY DEF CoveredBy
  <1>4. ASSUME r.how # "from", NEW h, NEW id PROVE Reached(h, r, id, shards, all, at) <=> Reached(h, r, id, shards, other, at)
    BY <1>1, <1>4 DEF Reached
  <1>5. ReadOK(r, sl, shards, other, rest, at, g)
    <2> SUFFICES ASSUME CoveredBy(r), r.max = 0 \/ ~r.collapse, NEW h \in Heads(rest, r, other), ToldApart(h, r, other, g)
                 PROVE  IF h \in Passed(r, sl, shards, other, at) THEN Once(r, h, g) ELSE Never(r, h, g)
      BY DEF ReadOK
    <2>1. h \in Heads(steady, r, all) BY <1>3 DEF Heads
    <2>2. ToldApart(h, r, all, g) BY <1>1
    <2>3. IF h \in Passed(r, sl, shards, all, at) THEN Once(r, h, g) ELSE Never(r, h, g) BY <2>1, <2>2 DEF ReaderOK, ReadOK
    <2>4. h \in Passed(r, sl, shards, all, at) <=> h \in Passed(r, sl, shards, other, at) BY <1>3, <1>4 DEF Passed
    <2> QED BY <2>3, <2>4
  <1>6. OrderOK(r, sl, shards, other, at, g)
    <2> SUFFICES ASSUME CoveredBy(r), r.max = 0
                 PROVE  /\ \A m, n \in 1..Len(g) : m < n => InSequence(g[m], g[n], r, other, g)
                        /\ sl = 0 => \A m \in 1..Len(g) : Precedes(g[m], r, 0, shards, other, at, g)
      BY DEF OrderOK
    <2>1. /\ \A m, n \in 1..Len(g) : m < n => InSequence(g[m], g[n], r, all, g)
          /\ sl = 0 => \A m \in 1..Len(g) : Precedes(g[m], r, 0, shards, all, at, g)
      BY DEF ReaderOK, OrderOK
    <2>2. \A x, y : InSequence(x, y, r, all, g) <=> InSequence(x, y, r, other, g) BY <1>1 DEF InSequence
    <2>3. \A x : Precedes(x, r, 0, shards, all, at, g) <=> Precedes(x, r, 0, shards, other, at, g)
      BY <1>1, <1>3, <1>4 DEF Precedes
    <2> QED BY <2>1, <2>2, <2>3
  <1> QED BY <1>2, <1>5, <1>6 DEF ReaderOK

-----------------------------------------------------------------------------
(* What clients may rely on when they page. *)

(* What a client in the middle of its reading sees.                        *)
LEMMA Seen ==
    ASSUME PagesInv, request # NoTuple
    PROVE  /\ request \in Requests /\ request \in SearchRequest /\ Valid(request)
           /\ numShards \in Nat \ {0}
           /\ All = AllOf(request, view, docs, numShards) /\ Tidy(All) /\ Sharded(All, numShards)
           /\ Steady = SteadyOf(request, All, written) /\ Steady \in SUBSET All /\ (request.pit => Steady = All)
           /\ Slices = SlicesOf(request)
           /\ ReaderOK(request, slice, numShards, All, Steady, place, got)
  <1>1. request \in Requests /\ numShards \in ShardCounts BY DEF PagesInv
  <1>2. request \in SearchRequest /\ Valid(request) /\ numShards \in Nat \ {0} BY <1>1, SearchAssumption
  <1>3. All = AllOf(request, view, docs, numShards) BY DEF All, Searched, AllOf
  <1>4. GoodDocs(Searched) BY DEF PagesInv, Searched
  <1>5. Tidy(All) /\ Sharded(All, numShards) BY <1>2, <1>4, HitsTidy DEF All
  <1>6. Steady = SteadyOf(request, All, written) BY DEF Steady, SteadyOf
  <1>7. Steady \in SUBSET All /\ (request.pit => Steady = All) BY DEF Steady
  <1>8. Slices = SlicesOf(request) BY DEF Slices, SlicesOf
  <1>9. ReaderOK(request, slice, numShards, All, Steady, place, got) BY <1>3, <1>6 DEF PagesInv
  <1> QED BY <1>1, <1>2, <1>3, <1>5, <1>6, <1>7, <1>8, <1>9

(* The client and the documents start as they should.                      *)
LEMMA PagesStart == PagesInit => PagesInv
  <1> SUFFICES ASSUME PagesInit PROVE PagesInv
    OBVIOUS
  <1>1. PICK load \in [Index -> Loads] : /\ docs = [i \in Index |-> Loaded(load[i]).docs]
                                         /\ seqNo = [i \in Index |-> Loaded(load[i]).seqNo]
    BY DEF PagesInit
  <1>2. GoodDocs(docs) /\ Numbered(docs, seqNo) BY <1>1, LoadedGood
  <1>3. GoodDocs(view)
    <2>1. view = [i \in Index |-> <<>>] BY DEF PagesInit
    <2>2. DOMAIN view = Index /\ \A i \in Index : DOMAIN view[i] = {} BY <2>1
    <2> QED BY <2>2 DEF GoodDocs
  <1> QED BY <1>2, <1>3 DEF PagesInit, PagesInv

(* A page of any kind keeps the invariant.                                 *)
LEMMA GotKeeps ==
    ASSUME PagesInv, request # NoTuple, slice < Slices, NEW page, NEW next,
           GoodPage(page, next, request, slice, numShards, All, place, got), Got(page, next)
    PROVE  PagesInv'
  <1>1. /\ request \in SearchRequest /\ numShards \in Nat \ {0}
        /\ All = AllOf(request, view, docs, numShards) /\ Tidy(All) /\ Sharded(All, numShards)
        /\ Steady = SteadyOf(request, All, written) /\ Steady \in SUBSET All /\ (request.pit => Steady = All)
        /\ slice < SlicesOf(request)
        /\ ReaderOK(request, slice, numShards, All, Steady, place, got)
    BY Seen
  <1>2. /\ got' = got \o page
        /\ slice' = IF page = <<>> THEN slice + 1 ELSE slice
        /\ place' = IF page = <<>> THEN NoTuple ELSE next
        /\ numShards' = numShards /\ docs' = docs /\ seqNo' = seqNo /\ request' = request /\ view' = view /\ written' = written
    BY DEF Got
  <1>3. ReaderOK(request, slice', numShards, All, Steady, place', got') BY <1>1, <1>2, ReaderAdvances
  <1>4. ReaderOK(request', slice', numShards', AllOf(request', view', docs', numShards'),
                 SteadyOf(request', AllOf(request', view', docs', numShards'), written'), place', got')
    BY <1>1, <1>2, <1>3
  <1> QED BY <1>2, <1>4 DEF PagesInv

(* A write does: over the live indices fewer hits have stayed, and a point *)
(* in time does not see it.                                                *)
LEMMA WriteKeeps ==
    ASSUME PagesInv, NEW i \in Index, NEW id \in Id, NEW value \in Value \union {Missing, NoTuple}, Write(i, id, value)
    PROVE  PagesInv'
  <1>1. /\ request # NoTuple /\ docs' = Rewritten(docs, seqNo, i, id, value)
        /\ seqNo' = [seqNo EXCEPT ![i] = @ + 1]
        /\ written' = written \union {<<i, id>>}
        /\ numShards' = numShards /\ request' = request /\ view' = view /\ slice' = slice /\ place' = place /\ got' = got
    BY DEF Write, Rewritten
  <1>2. GoodDocs(docs) /\ Numbered(docs, seqNo) /\ GoodDocs(view) /\ numShards \in ShardCounts BY DEF PagesInv
  <1>3. /\ GoodDocs(docs') /\ Numbered(docs', seqNo')
        /\ \A shards : \A h \in Hits(docs', shards) : <<h.index, h.id>> # <<i, id>> => h \in Hits(docs, shards)
    <2>1. PICK e : e = Rewritten(docs, seqNo, i, id, value) OBVIOUS
    <2>2. /\ GoodDocs(e) /\ Numbered(e, [seqNo EXCEPT ![i] = @ + 1])
          /\ \A shards : \A h \in Hits(e, shards) : <<h.index, h.id>> # <<i, id>> => h \in Hits(docs, shards)
      BY <1>2, <2>1, WriteGood
    <2>3. docs' = e /\ seqNo' = [seqNo EXCEPT ![i] = @ + 1] BY <1>1, <2>1
    <2> QED BY <2>2, <2>3
  <1>4. /\ request \in Requests
        /\ All = AllOf(request, view, docs, numShards)
        /\ Steady = SteadyOf(request, All, written)
        /\ ReaderOK(request, slice, numShards, All, Steady, place, got)
    BY <1>1, Seen
  <1> DEFINE later == AllOf(request, view, docs', numShards)
             rest == SteadyOf(request, later, written')
  <1>5. ReaderOK(request, slice, numShards, later, rest, place, got)
    <2>1. CASE request.pit
      <3>1. later = All /\ rest = Steady BY <1>4, <2>1 DEF AllOf, SteadyOf
      <3> QED BY <1>4, <3>1
    <2>2. CASE ~request.pit
      <3>1. later = Hits(docs', numShards) /\ All = Hits(docs, numShards) BY <1>4, <2>2 DEF AllOf
      <3>2. rest = {h \in later : <<h.index, h.id>> \notin written'} /\ Steady = {h \in All : <<h.index, h.id>> \notin written}
        BY <1>4, <2>2 DEF SteadyOf
      <3> HIDE DEF later, rest
      <3>3. rest \in SUBSET Steady
        <4> SUFFICES ASSUME NEW h \in rest PROVE h \in Steady
          OBVIOUS
        <4>1. h \in Hits(docs', numShards) /\ <<h.index, h.id>> \notin written /\ <<h.index, h.id>> # <<i, id>>
          BY <1>1, <3>1, <3>2
        <4>2. h \in Hits(docs, numShards) BY <1>3, <4>1
        <4> QED BY <3>1, <3>2, <4>1, <4>2
      <3> QED BY <1>4, <2>2, <3>3, ReaderUnmoved
    <2> QED BY <2>1, <2>2
  <1>6. ReaderOK(request', slice', numShards', AllOf(request', view', docs', numShards'),
                 SteadyOf(request', AllOf(request', view', docs', numShards'), written'), place', got')
    BY <1>1, <1>5
  <1> QED BY <1>1, <1>2, <1>3, <1>4, <1>6 DEF PagesInv

(* The first request does.                                                 *)
LEMMA StartKeeps ==
    ASSUME PagesInv, NEW r \in Requests, Start(r)
    PROVE  PagesInv'
  <1>1. /\ request = NoTuple /\ request' = r /\ view' = IF r.pit THEN docs ELSE view
        /\ numShards' = numShards /\ docs' = docs /\ seqNo' = seqNo
        /\ slice' = slice /\ place' = place /\ got' = got
    BY DEF Start
  <1>2. slice' = 0 /\ place' = NoTuple /\ got' = <<>> BY <1>1 DEF PagesInv
  <1>3. r \in SearchRequest /\ r # NoTuple BY SearchAssumption
  <1>4. GoodDocs(view') /\ GoodDocs(docs') /\ Numbered(docs', seqNo') /\ numShards' \in ShardCounts BY <1>1 DEF PagesInv
  <1>5. \A shards, all, steady : ReaderOK(r, 0, shards, all, steady, NoTuple, <<>>) BY <1>3, ReaderStarts
  <1>6. ReaderOK(request', slice', numShards', AllOf(request', view', docs', numShards'),
                 SteadyOf(request', AllOf(request', view', docs', numShards'), written'), place', got')
    BY <1>1, <1>2, <1>5
  <1> QED BY <1>1, <1>2, <1>3, <1>4, <1>6 DEF PagesInv

(* A page by offset does.                                                  *)
LEMMA PageFromKeeps == ASSUME PagesInv, PageFrom PROVE PagesInv'
  <1>1. request # NoTuple /\ request.how = "from" /\ slice < Slices BY DEF PageFrom, Reading
  <1>2. PICK from : from = IF place = NoTuple THEN 0 ELSE place OBVIOUS
  <1>3. PICK page : page = Take(Drop(Found(request, slice, numShards, All, from + request.size), from), request.size) OBVIOUS
  <1>4. Got(page, from + request.size) BY <1>2, <1>3 DEF PageFrom
  <1>5. /\ request \in SearchRequest /\ Tidy(All) /\ PlaceOK(request, slice, numShards, All, place)
    BY <1>1, Seen DEF ReaderOK
  <1>6. GoodPage(page, from + request.size, request, slice, numShards, All, place, got) BY <1>1, <1>2, <1>3, <1>5, GoodFrom
  <1> QED BY <1>1, <1>4, <1>6, GotKeeps

(* A page of search_after does.                                            *)
LEMMA PageAfterKeeps == ASSUME PagesInv, PageAfter PROVE PagesInv'
  <1>1. request # NoTuple /\ request.how = "after" /\ slice < Slices BY DEF PageAfter, Reading
  <1>2. PICK page : page = Take(FoundAfter(request, slice, numShards, All, place), request.size) OBVIOUS
  <1>3. PICK next : next = Rounded(Tuple(page[Len(page)], request.sort, All), request.sort) OBVIOUS
  <1>4. Got(page, next) BY <1>2, <1>3 DEF PageAfter
  <1>5. /\ request \in SearchRequest /\ Tidy(All) /\ PlaceOK(request, slice, numShards, All, place)
        /\ got \in Seq(Entries(request))
    BY <1>1, Seen DEF ReaderOK
  <1>6. GoodPage(page, next, request, slice, numShards, All, place, got) BY <1>1, <1>2, <1>3, <1>5, GoodAfter
  <1> QED BY <1>1, <1>4, <1>6, GotKeeps

(* A page of a scroll does.                                                *)
LEMMA ScrollPageKeeps == ASSUME PagesInv, ScrollPage PROVE PagesInv'
  <1>1. request # NoTuple /\ request.how = "scroll" /\ slice < Slices BY DEF ScrollPage, Reading
  <1>2. PICK hits : hits = IF place = NoTuple THEN Found(request, slice, numShards, All, Cardinality(All)) ELSE place OBVIOUS
  <1>3. PICK page : page = Take(hits, request.size) OBVIOUS
  <1>4. PICK next : next = Drop(hits, request.size) OBVIOUS
  <1>5. Got(page, next) BY <1>2, <1>3, <1>4 DEF ScrollPage
  <1>6. /\ request \in SearchRequest /\ Tidy(All) /\ PlaceOK(request, slice, numShards, All, place)
    BY <1>1, Seen DEF ReaderOK
  <1>7. GoodPage(page, next, request, slice, numShards, All, place, got) BY <1>1, <1>2, <1>3, <1>4, <1>6, GoodScroll
  <1> QED BY <1>1, <1>5, <1>7, GotKeeps

(* A page of buckets does.                                                 *)
LEMMA CompositePageKeeps == ASSUME PagesInv, CompositePage PROVE PagesInv'
  <1>1. request # NoTuple /\ request.how = "composite" /\ slice < Slices BY DEF CompositePage, Reading
  <1>2. PICK page : page = Take(BucketsAfter(request.sort[1], All, place), request.size) OBVIOUS
  <1>3. PICK next : next = <<page[Len(page)].value>> OBVIOUS
  <1>4. Got(page, next) BY <1>2, <1>3 DEF CompositePage
  <1>5. /\ request \in SearchRequest /\ Valid(request) /\ Tidy(All) /\ PlaceOK(request, slice, numShards, All, place)
    BY <1>1, Seen DEF ReaderOK
  <1>6. GoodPage(page, next, request, slice, numShards, All, place, got) BY <1>1, <1>2, <1>3, <1>5, GoodComposite
  <1> QED BY <1>1, <1>4, <1>6, GotKeeps

(* The end of a reading does.                                              *)
LEMMA FinishKeeps == ASSUME PagesInv, Finish PROVE PagesInv'
  <1>1. /\ request # NoTuple /\ slice = Slices /\ request' = NoTuple /\ view' = [i \in Index |-> <<>>]
        /\ slice' = 0 /\ got' = <<>> /\ numShards' = numShards /\ docs' = docs /\ seqNo' = seqNo /\ place' = place
    BY DEF Finish
  <1>2. place = NoTuple BY <1>1, Seen DEF ReaderOK
  <1>3. GoodDocs(view')
    <2>1. DOMAIN view' = Index /\ \A i \in Index : DOMAIN view'[i] = {} BY <1>1
    <2> QED BY <2>1 DEF GoodDocs
  <1>4. numShards' \in ShardCounts /\ GoodDocs(docs') /\ Numbered(docs', seqNo') BY <1>1 DEF PagesInv
  <1> QED BY <1>1, <1>2, <1>3, <1>4 DEF PagesInv

(* The invariant holds for any documents, requests, hashes and number of   *)
(* shards, and any float64 rounding that keeps the order.                  *)
THEOREM PagesInvariant == PagesSpec => []PagesInv
  <1>1. PagesInv /\ [PagesNext]_pageVars => PagesInv'
    <2> SUFFICES ASSUME PagesInv, [PagesNext]_pageVars PROVE PagesInv'
      OBVIOUS
    <2>1. ASSUME NEW i \in Index, NEW id \in Id, NEW value \in Value \union {Missing, NoTuple}, Write(i, id, value)
          PROVE  PagesInv'
      BY <2>1, WriteKeeps
    <2>2. ASSUME NEW r \in Requests, Start(r) PROVE PagesInv' BY <2>2, StartKeeps
    <2>3. CASE PageFrom BY <2>3, PageFromKeeps
    <2>4. CASE PageAfter BY <2>4, PageAfterKeeps
    <2>5. CASE ScrollPage BY <2>5, ScrollPageKeeps
    <2>6. CASE CompositePage BY <2>6, CompositePageKeeps
    <2>7. CASE Finish BY <2>7, FinishKeeps
    <2>8. CASE UNCHANGED pageVars BY <2>8 DEF pageVars, PagesInv
    <2> QED BY <2>1, <2>2, <2>3, <2>4, <2>5, <2>6, <2>7, <2>8 DEF PagesNext
  <1> QED BY <1>1, PagesStart, PTL DEF PagesSpec

(* A client that reads until the pages end has every hit that stayed       *)
(* exactly once, by offsets, search_after, scrolls, slices and after keys, *)
(* for any documents and writes (runSearch, sortHitsBounded,               *)
(* sliceSelection, normalizeSearchAfter, collectComposite).                *)
THEOREM EveryHitOnce == PagesSpec => []ReadExactlyOnce
  <1>1. PagesInv => ReadExactlyOnce
    <2> SUFFICES ASSUME PagesInv, Finished, Covered, request.max = 0 \/ ~request.collapse,
                        NEW h \in Heads(Steady, request, All), ToldApart(h, request, All, got)
                 PROVE  Cardinality({n \in DOMAIN got : Holds(request, h, got[n])}) = 1
      BY DEF ReadExactlyOnce
    <2>1. request # NoTuple /\ slice = Slices /\ CoveredBy(request) BY DEF Finished, Covered, CoveredBy
    <2>2. /\ request \in SearchRequest /\ numShards \in Nat \ {0}
          /\ Tidy(All) /\ Sharded(All, numShards) /\ Steady \in SUBSET All /\ slice = SlicesOf(request)
          /\ ReaderOK(request, slice, numShards, All, Steady, place, got)
      BY <2>1, Seen
    <2>3. h \in All BY <2>2 DEF Heads
    <2>4. h \in Hit /\ h.shard \in 0..(numShards - 1) /\ SliceHash[h.id] \in Nat BY <2>2, <2>3 DEF Tidy, Sharded
    <2>5. \E id \in 0..(slice - 1) : InSlice(h, request, id, numShards) BY <2>2, <2>4, SliceOnce
    <2>6. h \in Passed(request, slice, numShards, All, place) BY <2>4, <2>5 DEF Passed
    <2>7. Once(request, h, got) BY <2>1, <2>2, <2>6 DEF ReaderOK, ReadOK
    <2>8. DOMAIN got = 1..Len(got) BY <2>2 DEF ReaderOK
    <2>9. PICK n \in 1..Len(got) : Holds(request, h, got[n]) /\ \A m \in 1..Len(got) : Holds(request, h, got[m]) => m = n
      BY <2>7 DEF Once
    <2>10. {m \in DOMAIN got : Holds(request, h, got[m])} = {n} BY <2>8, <2>9
    <2> QED BY <2>10, FS_Singleton
  <1> QED BY <1>1, PagesInvariant, PTL

(* What the client got is in the order of the sort from the first page to  *)
(* the last, for any documents and writes (sortHitsBounded,                *)
(* compareHitsLess, compositeLess).                                        *)
THEOREM OrderedPages == PagesSpec => []PagesInOrder
  <1>1. PagesInv => PagesInOrder
    <2> SUFFICES ASSUME PagesInv, request # NoTuple, request.max = 0, Covered,
                        NEW m \in DOMAIN got, NEW n \in DOMAIN got, m < n
                 PROVE  InSequence(got[m], got[n], request, All, got)
      BY DEF PagesInOrder
    <2>1. CoveredBy(request) BY DEF Covered, CoveredBy
    <2>2. ReaderOK(request, slice, numShards, All, Steady, place, got) BY Seen
    <2>3. DOMAIN got = 1..Len(got) BY <2>2 DEF ReaderOK
    <2> QED BY <2>1, <2>2, <2>3 DEF ReaderOK, OrderOK
  <1> QED BY <1>1, PagesInvariant, PTL
=============================================================================
