--------------------------- MODULE RequestProofs ---------------------------
(***************************************************************************)
(* Proofs about two components of one kind: requests that hold c.mu from   *)
(* their first check to their last assignment.                             *)
(*                                                                         *)
(* ByQuery: for any documents, searches, slices, batch sizes and limits, a *)
(* request tries every hit once, nothing is passed over but what max_docs  *)
(* or a failure cuts off, and max_docs bounds its successes.  The          *)
(* invariant says where the worker is (Place): how many hits of its slice  *)
(* are behind it, and that batches end at multiples of their size.         *)
(*                                                                         *)
(* IndexTemplates, below: stored templates are consistent, for every set   *)
(* of names, patterns and bodies; and a new index is made of its sections  *)
(* as CreatedAsLayered says, where folding the sections over one another   *)
(* is shown to leave the last (Topmost) or the first (Bottommost) that has *)
(* an entry; so that the write that creates an index sees its pipelines.   *)
(***************************************************************************)
EXTENDS ByQuery, IndexTemplates, FiniteSetTheorems, WellFoundedInduction, TLAPS

\* the number of slices a request is worked on in
NumWorkers(r) == IF r.slice # None THEN 1 ELSE Workers(r)

Counters == [done : Nat, noops : Nat, conflicts : Nat]

Types ==
    /\ request \in Accepted \union {None} /\ found \subseteq Hits
    /\ worker \in Nat \ {0} /\ start \in Nat \ {0}
    /\ batch \in Seq(Hits) /\ applied \in Seq(Hits)
    /\ request = None => /\ parts = <<>> /\ status = <<>> /\ failures = <<>> /\ applied = <<>>
                         /\ batch = <<>> /\ worker = 1 /\ start = 1
    /\ request # None => /\ worker <= NumWorkers(request) + 1
                         /\ parts \in [1..NumWorkers(request) -> Seq(Hits)]
                         /\ status \in [1..NumWorkers(request) -> Counters]
                         /\ failures \in [1..NumWorkers(request) -> Seq(Hits)]
                         /\ worker = NumWorkers(request) + 1 => batch = <<>> /\ start = 1

\* each slice has its hits, each once
PartsOK ==
    request # None => \A w \in DOMAIN parts :
        IsInjective(parts[w]) /\ ToSet(parts[w]) = Sliced(request, found)[w]

\* no slice passes its limit, not even if all that is left of the batch succeeds
WithinLimit ==
    request # None /\ WorkerMax(request) >= 0 =>
        /\ \A w \in DOMAIN parts : status[w].done <= WorkerMax(request)
        /\ worker \in DOMAIN parts => status[worker].done + Len(batch) <= WorkerMax(request)

\* nothing was done for the slices to come
Untouched(w) ==
    /\ status[w] = NoCounters /\ failures[w] = <<>>
    /\ \A k \in DOMAIN parts[w] : parts[w][k] \notin ToSet(applied)

\* The first a hits of the slice are behind it, then comes what is left of the
\* batch.  Without max_docs nothing is passed over, batches end at multiples of
\* their size, and a failure is in the last one.
Place(a) ==
    /\ a + Len(batch) <= Len(parts[worker]) /\ a + Len(batch) < start
    /\ \A k \in 1..Len(batch) : batch[k] = parts[worker][a + k]
    /\ \A k \in DOMAIN parts[worker] : k > a => parts[worker][k] \notin ToSet(applied)
    /\ request.maxDocs = -1 =>
         /\ a + Len(batch) < Len(parts[worker]) => a + Len(batch) = start - 1
         /\ \A k \in 1..a : parts[worker][k] \in ToSet(applied)
         /\ \E n \in Nat :
               /\ start = n * BatchSize(request) + 1 /\ (n - 1) * BatchSize(request) <= a
               /\ \A h \in ToSet(failures[worker]) :
                     \E k \in 1..a : k > (n - 1) * BatchSize(request) /\ h = parts[worker][k]

\* slices that are done with
Worked(w) ==
    /\ Reach(w) \in 0..Len(parts[w])
    /\ \A p \in DOMAIN parts[w] : parts[w][p] \in ToSet(applied) <=> p <= Reach(w)

ProgressOK ==
    /\ IsInjective(applied)
    /\ request # None =>
         /\ \A w \in DOMAIN parts : w > worker => Untouched(w)
         /\ \A h \in ToSet(applied) : \E w \in DOMAIN parts : h \in ToSet(parts[w])
         /\ worker \in DOMAIN parts => \E a \in Nat : Place(a)
         /\ request.maxDocs = -1 => \A w \in DOMAIN parts : w < worker => Worked(w)

ByQueryInv == Types /\ PartsOK /\ WithinLimit /\ ProgressOK

-----------------------------------------------------------------------------
(* Requests, slices and orders. *)

LEMMA RequestFacts ==
    ASSUME NEW r \in Accepted
    PROVE  /\ Workers(r) \in Nat \ {0} /\ NumWorkers(r) \in Nat \ {0} /\ BatchSize(r) \in Nat \ {0}
           /\ r.maxDocs \in Nat \union {-1} /\ WorkerMax(r) \in Int
           /\ WorkerMax(r) >= 0 <=> r.maxDocs # -1
           /\ r.maxDocs # -1 => NumWorkers(r) * WorkerMax(r) <= r.maxDocs
           /\ r # None
<1>1. /\ r \in Requests /\ (r.slice # None => r.slices = 1) /\ r # None
      /\ r.maxDocs \in Nat \union {-1} /\ r.slices \in Nat /\ r.batchSize \in Nat
  BY ByQueryAssumption, NoneAssumption DEF Accepted, Requests
<1>2. Workers(r) \in Nat \ {0} /\ NumWorkers(r) \in Nat \ {0} /\ BatchSize(r) \in Nat \ {0}
  BY <1>1, ByQueryAssumption DEF Workers, NumWorkers, BatchSize
<1>3. ASSUME NEW m \in Nat, NEW n \in Nat \ {0} PROVE m \div n \in Nat /\ n * (m \div n) <= m
  OBVIOUS
<1>4. NumWorkers(r) # Workers(r) => NumWorkers(r) = 1 /\ Workers(r) = 1
  BY <1>1 DEF NumWorkers, Workers
<1>5. NumWorkers(r) = Workers(r)
  BY <1>4
<1>6. CASE r.maxDocs = -1
  BY <1>1, <1>2, <1>6 DEF WorkerMax
<1>7. CASE r.maxDocs # -1 /\ Workers(r) = 1
  BY <1>1, <1>2, <1>5, <1>7 DEF WorkerMax
<1>8. CASE r.maxDocs # -1 /\ Workers(r) # 1
  <2>1. r.maxDocs \in Nat /\ WorkerMax(r) = r.maxDocs \div Workers(r)
    BY <1>1, <1>2, <1>8 DEF WorkerMax
  <2>2. r.maxDocs \div Workers(r) \in Nat /\ Workers(r) * (r.maxDocs \div Workers(r)) <= r.maxDocs
    BY <1>2, <1>3, <2>1
  <2> QED BY <1>1, <1>2, <1>5, <1>8, <2>1, <2>2
<1> QED BY <1>6, <1>7, <1>8

\* Every hit has a slice, also with a negative hash.
LEMMA SliceExists ==
    ASSUME NEW h \in Hits, NEW max \in Nat \ {0}
    PROVE  SliceOf(h, max) \in 0..(max - 1)
<1>1. h.id \in Int
  BY ByQueryAssumption DEF Hits
<1>2. \A n \in Nat : n % max \in 0..(max - 1)
  OBVIOUS
<1>3. Remainder(h.id, max) \in Int /\ Remainder(h.id, max) > -max /\ Remainder(h.id, max) < max
  <2>1. CASE h.id >= 0
    BY <1>1, <1>2, <2>1 DEF Remainder
  <2>2. CASE ~(h.id >= 0)
    <3>1. -h.id \in Nat
      BY <1>1, <2>2
    <3>2. (-h.id) % max \in 0..(max - 1)
      BY <1>2, <3>1
    <3> QED BY <2>2, <3>2 DEF Remainder
  <2> QED BY <2>1, <2>2
<1> QED BY <1>3 DEF SliceOf

LEMMA HitsFinite == IsFiniteSet(Hits)
<1>1. IsFiniteSet(Source \X Id)
  BY ByQueryAssumption, FS_Product
<1> DEFINE f == [p \in Source \X Id |-> [index |-> p[1], id |-> p[2]]]
<1>2. f \in Surjection(Source \X Id, Hits)
  <2>1. f \in [Source \X Id -> Hits]
    BY DEF Hits
  <2>2. \A h \in Hits : <<h.index, h.id>> \in Source \X Id /\ f[<<h.index, h.id>>] = h
    BY DEF Hits
  <2> QED BY <2>1, <2>2 DEF Surjection
<1> QED BY <1>1, <1>2, FS_Surjection

\* A set in some order.
LEMMA Ordered ==
    ASSUME NEW S, IsFiniteSet(S), NEW p \in SetToSeqs(S)
    PROVE  p \in Seq(S) /\ IsInjective(p) /\ ToSet(p) = S
<1>1. Cardinality(S) \in Nat
  BY FS_CardinalityType
<1>2. p \in [1..Cardinality(S) -> S] /\ \A i, j \in 1..Cardinality(S) : i # j => p[i] # p[j]
  BY DEF SetToSeqs
<1>3. p \in Seq(S) /\ IsInjective(p)
  BY <1>1, <1>2 DEF IsInjective
<1>4. p \in Injection(1..Cardinality(S), S)
  BY <1>2 DEF Injection, IsInjective
<1>5. IsFiniteSet(1..Cardinality(S)) /\ Cardinality(1..Cardinality(S)) = Cardinality(S)
  BY <1>1, FS_Interval
<1>6. p \in Surjection(1..Cardinality(S), S)
  BY <1>4, <1>5, FS_Injection
<1> QED BY <1>2, <1>3, <1>6 DEF Surjection, ToSet

LEMMA PartsFacts ==
    ASSUME NEW r \in Accepted, NEW hits \in SUBSET Hits, NEW p \in Parts(r, hits)
    PROVE  /\ p \in [1..NumWorkers(r) -> Seq(Hits)]
           /\ \A w \in 1..NumWorkers(r) : IsInjective(p[w]) /\ ToSet(p[w]) = Sliced(r, hits)[w]
<1> DEFINE s == Sliced(r, hits)
<1>1. DOMAIN s = 1..NumWorkers(r) /\ \A w \in 1..NumWorkers(r) : s[w] \subseteq hits
  <2>1. CASE r.slice # None
    BY <2>1 DEF Sliced, NumWorkers
  <2>2. CASE r.slice = None
    BY <2>2 DEF Sliced, NumWorkers
  <2> QED BY <2>1, <2>2
<1>2. DOMAIN p = 1..NumWorkers(r) /\ p = [w \in 1..NumWorkers(r) |-> p[w]]
      /\ \A w \in 1..NumWorkers(r) : p[w] \in SetToSeqs(s[w])
  BY <1>1 DEF Parts
<1>3. \A w \in 1..NumWorkers(r) : IsFiniteSet(s[w])
  BY <1>1, HitsFinite, FS_Subset
<1>4. \A w \in 1..NumWorkers(r) : p[w] \in Seq(s[w]) /\ IsInjective(p[w]) /\ ToSet(p[w]) = s[w]
  BY <1>2, <1>3, Ordered
<1>5. \A w \in 1..NumWorkers(r) : p[w] \in Seq(Hits)
  BY <1>1, <1>4
<1> QED BY <1>2, <1>4, <1>5

\* Slices have nothing in common, and together they have every hit.
LEMMA SlicesApart ==
    ASSUME NEW r \in Accepted, NEW hits \in SUBSET Hits
    PROVE  /\ \A v, w \in 1..NumWorkers(r) : v # w => Sliced(r, hits)[v] \intersect Sliced(r, hits)[w] = {}
           /\ UNION {Sliced(r, hits)[w] : w \in 1..NumWorkers(r)}
                = IF r.slice = None THEN hits ELSE {h \in hits : SliceOf(h, r.slice[2]) = r.slice[1]}
<1>1. CASE r.slice # None
  <2>1. NumWorkers(r) = 1 /\ Sliced(r, hits)[1] = {h \in hits : SliceOf(h, r.slice[2]) = r.slice[1]}
    BY <1>1 DEF NumWorkers, Sliced
  <2> QED BY <1>1, <2>1
<1>2. CASE r.slice = None
  <2>1. NumWorkers(r) = Workers(r) /\ Workers(r) \in Nat \ {0}
    BY <1>2, RequestFacts DEF NumWorkers
  <2>2. \A w \in 1..Workers(r) : Sliced(r, hits)[w] = {h \in hits : SliceOf(h, Workers(r)) = w - 1}
    BY <1>2 DEF Sliced
  <2>3. \A h \in hits : SliceOf(h, Workers(r)) + 1 \in 1..Workers(r) /\ h \in Sliced(r, hits)[SliceOf(h, Workers(r)) + 1]
    <3> TAKE h \in hits
    <3>1. SliceOf(h, Workers(r)) \in 0..(Workers(r) - 1)
      BY <2>1, SliceExists
    <3> QED BY <2>1, <2>2, <3>1
  <2>4. UNION {Sliced(r, hits)[w] : w \in 1..Workers(r)} = hits
    BY <2>2, <2>3
  <2>5. \A v, w \in 1..Workers(r) : v # w => Sliced(r, hits)[v] \intersect Sliced(r, hits)[w] = {}
    BY <2>2
  <2> QED BY <1>2, <2>1, <2>4, <2>5
<1> QED BY <1>1, <1>2

-----------------------------------------------------------------------------
(* The invariant, action by action. *)

LEMMA ByQueryInit == Init => ByQueryInv
<1> SUFFICES ASSUME Init PROVE ByQueryInv
  OBVIOUS
<1>1. request = None /\ IsInjective(<<>>)
  BY DEF Init, IsInjective
<1>2. Types
  BY DEF Init, Types
<1> QED BY <1>1, <1>2 DEF ByQueryInv, PartsOK, WithinLimit, ProgressOK, Init

LEMMA StartKeeps ==
    ASSUME ByQueryInv, Start
    PROVE  ByQueryInv'
<1> USE DEF ByQueryInv
<1>1. PICK r \in Accepted, hits \in SUBSET Hits :
         /\ request' = r /\ found' = hits /\ parts' \in Parts(r, hits)
         /\ status' = [w \in DOMAIN parts' |-> NoCounters]
         /\ failures' = [w \in DOMAIN parts' |-> <<>>]
         /\ UNCHANGED <<worker, start, batch, applied>>
  BY DEF Start
<1> DEFINE n == NumWorkers(r)
<1>2. /\ request = None /\ worker = 1 /\ start = 1 /\ batch = <<>> /\ applied = <<>>
  BY DEF Start, Types
<1>3. n \in Nat \ {0} /\ r # None
  BY RequestFacts
<1>4. /\ parts' \in [1..n -> Seq(Hits)]
      /\ \A w \in 1..n : IsInjective(parts'[w]) /\ ToSet(parts'[w]) = Sliced(r, hits)[w]
  BY <1>1, PartsFacts
<1>5. NoCounters \in Counters /\ NoCounters.done = 0
  BY DEF NoCounters, Counters
<1> HIDE DEF n
<1>6. DOMAIN parts' = 1..n /\ DOMAIN status' = 1..n
      /\ \A w \in 1..n : status'[w] = NoCounters /\ failures'[w] = <<>>
  BY <1>1, <1>4
<1>7. Types'
  <2>1. status' \in [1..n -> Counters] /\ failures' \in [1..n -> Seq(Hits)]
    BY <1>1, <1>5, <1>6
  <2> QED BY <1>1, <1>2, <1>3, <1>4, <2>1 DEF Types, n
<1>8. PartsOK'
  BY <1>1, <1>4 DEF PartsOK
<1>9. WithinLimit'
  <2>1. Len(<<>>) = 0
    OBVIOUS
  <2>2. WorkerMax(r) \in Int
    BY RequestFacts
  <2> QED BY <1>1, <1>2, <1>5, <1>6, <2>1, <2>2 DEF WithinLimit
<1>10. ProgressOK'
  <2>1. IsInjective(applied') /\ ToSet(applied') = {}
    BY <1>1, <1>2 DEF IsInjective, ToSet
  <2>2. \A w \in DOMAIN parts' : Untouched(w)'
    BY <1>6, <2>1 DEF Untouched
  <2>3. Place(0)'
    <3>1. BatchSize(r) \in Nat
      BY RequestFacts
    <3>2. Len(batch') = 0 /\ start' = 1 /\ worker' = 1 /\ Len(parts'[1]) \in Nat
      BY <1>1, <1>2, <1>3, <1>4
    <3>3. ToSet(failures'[1]) = {}
      BY <1>3, <1>6 DEF ToSet
    <3>4. /\ 0 + Len(batch') <= Len(parts'[1]) /\ 0 + Len(batch') < start'
          /\ 0 + Len(batch') = start' - 1
      BY <3>2
    <3>5. \E k \in Nat : start' = k * BatchSize(r) + 1 /\ (k - 1) * BatchSize(r) <= 0
      <4>1. start' = 0 * BatchSize(r) + 1 /\ (0 - 1) * BatchSize(r) <= 0
        BY <3>1, <3>2
      <4> QED BY <4>1
    <3>6. /\ \A k \in 1..Len(batch') : batch'[k] = parts'[worker'][0 + k]
          /\ \A k \in 1..0 : parts'[worker'][k] \in ToSet(applied')
      BY <3>2
    <3> QED BY <1>1, <2>1, <3>2, <3>3, <3>4, <3>5, <3>6 DEF Place
  <2>4. \A w \in DOMAIN parts' : ~(w < worker')
    BY <1>1, <1>2, <1>6
  <2> QED BY <2>1, <2>2, <2>3, <2>4 DEF ProgressOK
<1> QED BY <1>7, <1>8, <1>9, <1>10

\* What all steps of the worker rely on.
LEMMA WorkerFacts ==
    ASSUME ByQueryInv, Working
    PROVE  /\ request \in Accepted /\ request # None /\ worker \in 1..NumWorkers(request)
           /\ DOMAIN parts = 1..NumWorkers(request) /\ NumWorkers(request) \in Nat
           /\ parts[worker] \in Seq(Hits) /\ Len(parts[worker]) \in Nat
           /\ DOMAIN parts[worker] = 1..Len(parts[worker])
           /\ BatchSize(request) \in Nat \ {0} /\ WorkerMax(request) \in Int
           /\ status \in [1..NumWorkers(request) -> Counters] /\ status[worker].done \in Nat
           /\ failures \in [1..NumWorkers(request) -> Seq(Hits)]
           /\ batch \in Seq(Hits) /\ Len(batch) \in Nat /\ start \in Nat \ {0}
           /\ \E a \in Nat : Place(a)
<1>1. request \in Accepted /\ request # None /\ worker \in DOMAIN parts
  BY DEF ByQueryInv, Types, Working
<1>2. /\ parts \in [1..NumWorkers(request) -> Seq(Hits)] /\ NumWorkers(request) \in Nat
      /\ status \in [1..NumWorkers(request) -> Counters]
      /\ failures \in [1..NumWorkers(request) -> Seq(Hits)]
  BY <1>1, RequestFacts DEF ByQueryInv, Types
<1>3. status[worker].done \in Nat
  BY <1>1, <1>2 DEF Counters
<1>4. \E a \in Nat : Place(a)
  BY <1>1 DEF ByQueryInv, ProgressOK
<1>5. batch \in Seq(Hits) /\ start \in Nat \ {0}
  BY DEF ByQueryInv, Types
<1>6. DOMAIN parts = 1..NumWorkers(request) /\ parts[worker] \in Seq(Hits)
  BY <1>1, <1>2
<1>7. Len(parts[worker]) \in Nat /\ DOMAIN parts[worker] = 1..Len(parts[worker]) /\ Len(batch) \in Nat
  BY <1>5, <1>6
<1>8. BatchSize(request) \in Nat \ {0} /\ WorkerMax(request) \in Int
  BY <1>1, RequestFacts
<1> QED BY <1>1, <1>2, <1>3, <1>4, <1>5, <1>6, <1>7, <1>8

LEMMA StartBatchKeeps ==
    ASSUME ByQueryInv, StartBatch
    PROVE  ByQueryInv'
<1> USE DEF ByQueryInv
<1> DEFINE size == BatchSize(request)
           len == Len(parts[worker])
           max == WorkerMax(request)
           last == Min({start + size - 1, len})
           window == SubSeq(parts[worker], start, last)
<1>1. /\ Working /\ batch = <<>> /\ GoesOn /\ batch' = Window(window) /\ start' = start + size
      /\ UNCHANGED <<request, parts, worker, status, failures, applied, found>>
  BY DEF StartBatch, NextStart
<1>2. /\ request \in Accepted /\ request # None /\ worker \in 1..NumWorkers(request)
      /\ DOMAIN parts = 1..NumWorkers(request) /\ parts[worker] \in Seq(Hits) /\ len \in Nat
      /\ DOMAIN parts[worker] = 1..len
      /\ size \in Nat \ {0} /\ max \in Int /\ status[worker].done \in Nat /\ start \in Nat \ {0}
      /\ NumWorkers(request) \in Nat
  BY <1>1, WorkerFacts
<1>3. PICK a \in Nat : Place(a)
  BY <1>1, WorkerFacts
<1>4. /\ start <= len /\ failures[worker] = <<>> /\ (max >= 0 => status[worker].done < max)
  BY <1>1 DEF GoesOn
<1>5. last \in start..len /\ last <= start + size - 1 /\ (last < len => last = start + size - 1)
  BY <1>2, <1>4 DEF Min
<1> HIDE DEF last, size, len, max
<1>6. /\ window \in Seq(Hits) /\ Len(window) = last - start + 1
      /\ \A k \in 1..Len(window) : window[k] = parts[worker][start + k - 1]
  <2>1. \A k \in start..last : parts[worker][k] \in Hits
    BY <1>2, <1>5
  <2>2. window = [k \in 1..(last - start + 1) |-> parts[worker][start + k - 1]]
    BY <1>2, <1>5 DEF len
  <2>3. last - start + 1 \in Nat
    BY <1>2, <1>5
  <2>4. \A k \in 1..(last - start + 1) : start + k - 1 \in start..last
    BY <1>2, <1>5
  <2> HIDE DEF window
  <2> QED BY <2>1, <2>2, <2>3, <2>4
<1> HIDE DEF window
<1>7. /\ batch' \in Seq(Hits) /\ Len(batch') <= Len(window) /\ Len(batch') \in Nat
      /\ \A k \in 1..Len(batch') : batch'[k] = window[k]
      /\ max >= 0 => status[worker].done + Len(batch') <= max
      /\ max < 0 => batch' = window
  <2> DEFINE left == max - status[worker].done
  <2>1. CASE max >= 0 /\ left < Len(window)
    <3>1. left \in Nat /\ left <= Len(window) /\ status[worker].done + left = max
      BY <1>2, <1>4, <1>6, <2>1
    <3>2. batch' = SubSeq(window, 1, left)
      BY <1>1, <2>1 DEF Window, max
    <3> HIDE DEF left
    <3>3. batch' \in Seq(Hits) /\ Len(batch') = left /\ \A k \in 1..left : batch'[k] = window[k]
      BY <1>6, <3>1, <3>2
    <3> QED BY <1>2, <1>6, <2>1, <3>1, <3>3
  <2>2. CASE ~(max >= 0 /\ left < Len(window))
    <3>1. batch' = window
      BY <1>1, <2>2 DEF Window, max
    <3>2. Len(window) \in Nat
      BY <1>6
    <3> QED BY <1>2, <1>6, <2>2, <3>1, <3>2
  <2> QED BY <2>1, <2>2
<1>8. Types'
  <2>1. start' \in Nat \ {0} /\ worker # NumWorkers(request) + 1
    BY <1>1, <1>2
  <2> QED BY <1>1, <1>2, <1>7, <2>1 DEF Types
<1>9. PartsOK'
  BY <1>1 DEF PartsOK
<1>10. WithinLimit'
  BY <1>1, <1>2, <1>7 DEF WithinLimit, max
<1>b. PICK b \in Nat : b = start - 1
  BY <1>2
<1>11. Place(b)'
  <2>0. start = b + 1
    BY <1>2, <1>b
  <2>1. a < start
    BY <1>1, <1>2, <1>3 DEF Place
  <2>2. b + Len(batch') <= last
    BY <1>2, <1>5, <1>6, <1>7, <2>0
  <2>3. b + Len(batch') <= len /\ b + Len(batch') < start'
    BY <1>1, <1>2, <1>5, <1>7, <2>0, <2>2
  <2>4. \A k \in 1..Len(batch') : batch'[k] = parts[worker][b + k]
    <3> TAKE k \in 1..Len(batch')
    <3>1. k \in 1..Len(window) /\ start + k - 1 = b + k
      BY <1>2, <1>6, <1>7, <2>0
    <3> QED BY <1>6, <1>7, <3>1
  <2>5. \A k \in DOMAIN parts[worker] : k > b => parts[worker][k] \notin ToSet(applied)
    BY <1>2, <1>3, <2>0, <2>1 DEF Place
  <2>6. ASSUME request.maxDocs = -1
        PROVE  /\ b + Len(batch') < len => b + Len(batch') = start' - 1
               /\ \A k \in 1..b : parts[worker][k] \in ToSet(applied)
               /\ \E n \in Nat :
                     /\ start' = n * size + 1 /\ (n - 1) * size <= b
                     /\ \A h \in ToSet(failures[worker]) :
                           \E k \in 1..b : k > (n - 1) * size /\ h = parts[worker][k]
    <3>1. max < 0
      BY <1>2, <2>6, RequestFacts DEF max
    <3>2. Len(batch') = last - start + 1
      BY <1>6, <1>7, <3>1
    <3>3. b + Len(batch') = last
      BY <1>2, <1>5, <2>0, <3>2
    <3>4. b + Len(batch') < len => b + Len(batch') = start' - 1
      BY <1>1, <1>2, <1>5, <2>0, <3>3
    <3>5. a = b
      BY <1>1, <1>2, <1>3, <1>4, <2>0, <2>6 DEF Place, len
    <3>6. \A k \in 1..b : parts[worker][k] \in ToSet(applied)
      BY <1>3, <2>6, <3>5 DEF Place
    <3>7. PICK n \in Nat : start = n * size + 1
      BY <1>3, <2>6 DEF Place, size
    <3>8. start' = (n + 1) * size + 1 /\ n + 1 \in Nat /\ ((n + 1) - 1) * size <= b
      BY <1>1, <1>2, <2>0, <3>7
    <3>9. ToSet(failures[worker]) = {}
      BY <1>4 DEF ToSet
    <3> QED BY <3>4, <3>6, <3>8, <3>9
  <2> QED BY <1>1, <1>2, <2>3, <2>4, <2>5, <2>6 DEF Place, len, size
<1>12. ProgressOK'
  <2>2. \A w \in DOMAIN parts : (Untouched(w)' <=> Untouched(w)) /\ (Worked(w)' <=> Worked(w))
    BY <1>1 DEF Untouched, Worked, Reach
  <2> QED BY <1>1, <1>11, <2>2 DEF ProgressOK
<1> QED BY <1>8, <1>9, <1>10, <1>12

LEMMA Counting ==
    ASSUME NEW N \in Nat, status \in [1..N -> Counters], worker \in 1..N,
           NEW field \in {"done", "noops", "conflicts"}, Count(field)
    PROVE  /\ status' \in [1..N -> Counters]
           /\ \A w \in 1..N : w # worker => status'[w] = status[w]
           /\ status'[worker].done <= status[worker].done + 1
<1> DEFINE old == status[worker]
           new == [old EXCEPT ![field] = @ + 1]
<1>1. old \in Counters /\ old.done \in Nat
  BY DEF Counters
<1>2. status' = [status EXCEPT ![worker] = new]
  BY DEF Count
<1>3. new \in Counters /\ new.done <= old.done + 1
  <2>1. PICK d, n, c \in Nat : old = [done |-> d, noops |-> n, conflicts |-> c]
    BY <1>1 DEF Counters
  <2>2. CASE field = "done"
    <3>1. new = [done |-> d + 1, noops |-> n, conflicts |-> c]
      BY <2>1, <2>2
    <3> QED BY <2>1, <3>1 DEF Counters
  <2>3. CASE field = "noops"
    <3>1. new = [done |-> d, noops |-> n + 1, conflicts |-> c]
      BY <2>1, <2>3
    <3> QED BY <2>1, <3>1 DEF Counters
  <2>4. CASE field = "conflicts"
    <3>1. new = [done |-> d, noops |-> n, conflicts |-> c + 1]
      BY <2>1, <2>4
    <3> QED BY <2>1, <3>1 DEF Counters
  <2> QED BY <2>2, <2>3, <2>4
<1> HIDE DEF new
<1> QED BY <1>2, <1>3

\* What may become of a hit.
LEMMA Outcome ==
    ASSUME NEW N \in Nat, status \in [1..N -> Counters], worker \in 1..N,
           NEW h, Delete(h) \/ Update(h) \/ Create(h) \/ Reindex(h) \/ Fail(h)
    PROVE  /\ status' \in [1..N -> Counters]
           /\ \A w \in 1..N : w # worker => status'[w] = status[w]
           /\ status'[worker].done <= status[worker].done + 1
           /\ failures' \in {failures, [failures EXCEPT ![worker] = Append(@, h)]}
<1>1. (\E field \in {"done", "noops", "conflicts"} : Count(field)) \/ UNCHANGED status
  BY DEF Delete, Update, Create, Reindex, Fail, Copy, Conflict
<1>2. failures' \in {failures, [failures EXCEPT ![worker] = Append(@, h)]}
  BY DEF Delete, Update, Create, Reindex, Fail, Copy, Conflict
<1>3. status[worker].done \in Nat
  BY DEF Counters
<1> QED BY <1>1, <1>2, <1>3, Counting

LEMMA ApplyKeeps ==
    ASSUME ByQueryInv, Apply
    PROVE  ByQueryInv'
<1> USE DEF ByQueryInv
<1> DEFINE N == NumWorkers(request)
           part == parts[worker]
<1>1. PICK h : /\ h = Head(batch)
               /\ Delete(h) \/ Update(h) \/ Create(h) \/ Reindex(h) \/ Fail(h)
               /\ batch' = Tail(batch) /\ applied' = Append(applied, h)
               /\ UNCHANGED <<request, parts, worker, start, found>>
  BY DEF Apply, Tried
<1>2. Working /\ batch # <<>>
  BY DEF Apply
<1>3. /\ request \in Accepted /\ request # None /\ worker \in 1..N /\ DOMAIN parts = 1..N /\ N \in Nat
      /\ part \in Seq(Hits) /\ Len(part) \in Nat /\ DOMAIN part = 1..Len(part)
      /\ BatchSize(request) \in Nat \ {0} /\ WorkerMax(request) \in Int
      /\ status \in [1..N -> Counters] /\ status[worker].done \in Nat
      /\ failures \in [1..N -> Seq(Hits)]
      /\ batch \in Seq(Hits) /\ Len(batch) \in Nat /\ start \in Nat \ {0}
  BY <1>2, WorkerFacts
<1>4. PICK a \in Nat : Place(a)
  BY <1>2, WorkerFacts
<1> HIDE DEF N, part
<1>5. /\ Len(batch) >= 1 /\ h = batch[1] /\ h \in Hits
      /\ batch' \in Seq(Hits) /\ Len(batch') = Len(batch) - 1
      /\ \A k \in 1..Len(batch') : batch'[k] = batch[k + 1]
  BY <1>1, <1>2, <1>3
<1>6. h = part[a + 1] /\ a + 1 \in DOMAIN part /\ a + 1 <= start - 1
  <2>1. a + Len(batch) <= Len(part) /\ a + Len(batch) < start
    BY <1>4 DEF Place, part
  <2>2. a + 1 <= Len(part) /\ a + 1 <= start - 1
    BY <1>3, <1>5, <2>1
  <2>3. batch[1] = part[a + 1]
    BY <1>3, <1>4, <1>5 DEF Place, part
  <2> QED BY <1>3, <1>5, <2>2, <2>3
<1>7. /\ applied \in Seq(Hits) /\ applied' \in Seq(Hits) /\ ToSet(applied') = ToSet(applied) \union {h}
      /\ h \notin ToSet(applied) => IsInjective(applied')
  <2>1. applied \in Seq(Hits) /\ IsInjective(applied)
    BY DEF Types, ProgressOK
  <2>2. /\ applied' \in Seq(Hits) /\ Len(applied') = Len(applied) + 1 /\ applied'[Len(applied) + 1] = h
        /\ \A k \in 1..Len(applied) : applied'[k] = applied[k]
    BY <1>1, <1>5, <2>1
  <2>3. DOMAIN applied = 1..Len(applied) /\ DOMAIN applied' = 1..(Len(applied) + 1) /\ Len(applied) \in Nat
    BY <2>1, <2>2
  <2>4. ToSet(applied') = ToSet(applied) \union {h}
    BY <2>2, <2>3 DEF ToSet
  <2>5. ASSUME h \notin ToSet(applied) PROVE IsInjective(applied')
    <3>1. \A k \in 1..Len(applied) : applied'[k] # h
      BY <2>2, <2>3, <2>5 DEF ToSet
    <3>2. \A j, k \in 1..Len(applied) : applied'[j] = applied'[k] => j = k
      BY <2>1, <2>2, <2>3 DEF IsInjective
    <3> QED BY <2>2, <2>3, <3>1, <3>2 DEF IsInjective
  <2> QED BY <2>1, <2>2, <2>4, <2>5
<1>8. h \notin ToSet(applied)
  <2>1. \A k \in DOMAIN part : k > a => part[k] \notin ToSet(applied)
    BY <1>4 DEF Place, part
  <2>2. a + 1 > a
    OBVIOUS
  <2> QED BY <1>6, <2>1, <2>2
<1>9. \A w \in DOMAIN parts : w # worker => h \notin ToSet(parts[w])
  <2>1. h \in ToSet(parts[worker])
    BY <1>6 DEF ToSet, part
  <2>2. \A w \in 1..N : ToSet(parts[w]) = Sliced(request, found)[w]
    BY <1>3 DEF PartsOK
  <2>3. found \in SUBSET Hits
    BY DEF Types
  <2>4. \A w \in 1..N : w # worker => Sliced(request, found)[w] \intersect Sliced(request, found)[worker] = {}
    BY <1>3, <2>3, SlicesApart DEF N
  <2>5. h \in Sliced(request, found)[worker]
    BY <1>3, <2>1, <2>2
  <2> QED BY <1>3, <2>2, <2>4, <2>5
<1>10. /\ status' \in [1..N -> Counters]
       /\ \A w \in 1..N : w # worker => status'[w] = status[w]
       /\ status'[worker].done <= status[worker].done + 1
       /\ failures' \in {failures, [failures EXCEPT ![worker] = Append(@, h)]}
  BY <1>1, <1>3, Outcome
<1>11. /\ failures' \in [1..N -> Seq(Hits)] /\ \A w \in 1..N : w # worker => failures'[w] = failures[w]
       /\ ToSet(failures'[worker]) \subseteq ToSet(failures[worker]) \union {h}
  <2>1. failures[worker] \in Seq(Hits)
    BY <1>3
  <2>2. Append(failures[worker], h) \in Seq(Hits)
        /\ ToSet(Append(failures[worker], h)) \subseteq ToSet(failures[worker]) \union {h}
    BY <1>5, <2>1 DEF ToSet
  <2> QED BY <1>3, <1>10, <2>2
<1>12. Types'
  <2>1. worker # N + 1
    BY <1>3
  <2> QED BY <1>1, <1>3, <1>5, <1>7, <1>10, <1>11, <2>1 DEF Types, N
<1>13. PartsOK'
  BY <1>1 DEF PartsOK
<1>14. WithinLimit'
  <2>1. status'[worker].done \in Nat
    BY <1>3, <1>10 DEF Counters
  <2>2. status'[worker].done + Len(batch') <= status[worker].done + Len(batch)
    <3>1. status'[worker].done <= status[worker].done + 1 /\ status[worker].done \in Nat
      BY <1>3, <1>10
    <3>2. Len(batch') = Len(batch) - 1 /\ Len(batch) \in Nat
      BY <1>3, <1>5
    <3> QED BY ONLY <2>1, <3>1, <3>2
  <2>3. Len(batch') \in Nat
    BY <1>3, <1>5
  <2>4. ASSUME WorkerMax(request) >= 0
        PROVE  /\ status'[worker].done + Len(batch') <= WorkerMax(request)
               /\ \A w \in 1..N : status'[w].done <= WorkerMax(request)
    <3>1. /\ status[worker].done + Len(batch) <= WorkerMax(request)
          /\ \A w \in 1..N : status[w].done <= WorkerMax(request)
      BY <1>3, <2>4 DEF WithinLimit
    <3>2. status'[worker].done + Len(batch') <= WorkerMax(request)
      BY <1>3, <2>1, <2>2, <2>3, <3>1
    <3>3. status'[worker].done <= WorkerMax(request)
      BY <1>3, <2>1, <2>3, <3>2
    <3> QED BY <1>10, <3>1, <3>2, <3>3
  <2> QED BY <1>1, <1>3, <2>4 DEF WithinLimit
<1>15. PICK b \in Nat : b = a + 1
  OBVIOUS
<1>16. Place(b)'
  <2>1. b + Len(batch') = a + Len(batch)
    BY <1>3, <1>5, <1>15
  <2>2. \A k \in 1..Len(batch') : batch'[k] = part[b + k]
    <3> TAKE k \in 1..Len(batch')
    <3>1. k + 1 \in 1..Len(batch) /\ a + (k + 1) = b + k
      BY <1>3, <1>5, <1>15
    <3>2. batch[k + 1] = part[a + (k + 1)]
      BY <1>4, <3>1 DEF Place, part
    <3> QED BY <1>5, <3>1, <3>2
  <2>3. IsInjective(part)
    BY <1>3 DEF PartsOK, part
  <2>4. \A k \in DOMAIN part : k > b => part[k] \notin ToSet(applied')
    <3> SUFFICES ASSUME NEW k \in DOMAIN part, k > b PROVE part[k] \notin ToSet(applied')
      OBVIOUS
    <3>1. part[k] \notin ToSet(applied)
      BY <1>3, <1>4, <1>15 DEF Place, part
    <3>2. part[k] # h
      <4>1. k # a + 1
        BY <1>3, <1>15
      <4> QED BY <1>6, <2>3, <4>1 DEF IsInjective
    <3> QED BY <1>7, <3>1, <3>2
  <2>5. ASSUME request.maxDocs = -1
        PROVE  /\ b + Len(batch') < Len(part) => b + Len(batch') = start - 1
               /\ \A k \in 1..b : part[k] \in ToSet(applied')
               /\ \E n \in Nat :
                     /\ start = n * BatchSize(request) + 1 /\ (n - 1) * BatchSize(request) <= b
                     /\ \A x \in ToSet(failures'[worker]) :
                           \E k \in 1..b : k > (n - 1) * BatchSize(request) /\ x = part[k]
    <3>1. b + Len(batch') < Len(part) => b + Len(batch') = start - 1
      BY <1>4, <2>1, <2>5 DEF Place, part
    <3>2. \A k \in 1..b : part[k] \in ToSet(applied')
      <4>1. \A k \in 1..a : part[k] \in ToSet(applied)
        BY <1>4, <2>5 DEF Place, part
      <4>2. \A k \in 1..b : k \in 1..a \/ k = a + 1
        BY <1>15
      <4> QED BY <1>6, <1>7, <4>1, <4>2
    <3>3. PICK n \in Nat :
             /\ start = n * BatchSize(request) + 1 /\ (n - 1) * BatchSize(request) <= a
             /\ \A x \in ToSet(failures[worker]) :
                   \E k \in 1..a : k > (n - 1) * BatchSize(request) /\ x = part[k]
      BY <1>4, <2>5 DEF Place, part
    <3>4. b > (n - 1) * BatchSize(request)
      <4>1. (n - 1) * BatchSize(request) \in Int
        BY <1>3
      <4> QED BY <1>15, <3>3, <4>1
    <3>5. \A x \in ToSet(failures'[worker]) :
             \E k \in 1..b : k > (n - 1) * BatchSize(request) /\ x = part[k]
      BY <1>6, <1>11, <1>15, <3>3, <3>4
    <3>6. start = n * BatchSize(request) + 1 /\ (n - 1) * BatchSize(request) <= b
      <4>1. (n - 1) * BatchSize(request) \in Int
        BY <1>3
      <4> QED BY <1>15, <3>3, <4>1
    <3> QED BY <3>1, <3>2, <3>5, <3>6
  <2>6. b + Len(batch') <= Len(part) /\ b + Len(batch') < start
    BY <1>4, <2>1 DEF Place, part
  <2> QED BY <1>1, <2>2, <2>4, <2>5, <2>6 DEF Place, part
<1>17. \A w \in DOMAIN parts : w > worker => Untouched(w)'
  <2> SUFFICES ASSUME NEW w \in DOMAIN parts, w > worker PROVE Untouched(w)'
    OBVIOUS
  <2>1. Untouched(w) /\ w \in 1..N /\ w # worker
    BY <1>3 DEF ProgressOK
  <2>2. \A k \in DOMAIN parts[w] : parts[w][k] # h
    BY <1>9, <2>1 DEF ToSet
  <2> QED BY <1>1, <1>7, <1>10, <1>11, <2>1, <2>2 DEF Untouched
<1>18. \A w \in DOMAIN parts : w < worker /\ Worked(w) => Worked(w)'
  <2> SUFFICES ASSUME NEW w \in DOMAIN parts, w < worker, Worked(w) PROVE Worked(w)'
    OBVIOUS
  <2>1. w \in 1..N /\ w # worker
    BY <1>3
  <2>2. \A k \in DOMAIN parts[w] : parts[w][k] # h
    BY <1>9, <2>1 DEF ToSet
  <2>3. Reach(w)' = Reach(w)
    BY <1>1, <1>11, <2>1 DEF Reach
  <2> QED BY <1>1, <1>7, <2>2, <2>3 DEF Worked
<1>19. \A x \in ToSet(applied') : \E w \in DOMAIN parts : x \in ToSet(parts[w])
  BY <1>3, <1>6, <1>7 DEF ProgressOK, ToSet, part
<1>20. ProgressOK'
  BY <1>1, <1>3, <1>7, <1>8, <1>16, <1>17, <1>18, <1>19 DEF ProgressOK
<1> QED BY <1>12, <1>13, <1>14, <1>20

(* Arithmetic. *)

LEMMA MinIsThere ==
    ASSUME NEW S \in SUBSET Nat, S # {}
    PROVE  Min(S) \in S /\ \A x \in S : Min(S) <= x
<1>1. PICK m \in S : \A x \in S : <<x, m>> \notin OpToRel(<, Nat)
  BY NatLessThanWellFounded, WFMin
<1>a. \A x \in S : ~(x < m)
  BY <1>1 DEF OpToRel
<1>2. \A x \in S : m <= x
  BY <1>a
<1> QED BY <1>2 DEF Min

LEMMA MinOfTwo ==
    ASSUME NEW x \in Nat, NEW y \in Nat, NEW a \in Nat, (a = x /\ a <= y) \/ (a < x /\ a = y)
    PROVE  Min({x, y}) = a
BY DEF Min

LEMMA Division ==
    ASSUME NEW n \in Nat, NEW size \in Nat \ {0}, NEW m \in Nat \ {0}, m > (n - 1) * size, m <= n * size
    PROVE  (m - 1) \div size = n - 1
<1>1. n >= 1
  <2>1. ASSUME n = 0 PROVE FALSE
    <3>1. n * size = 0
      BY <2>1
    <3> QED BY <3>1
  <2> QED BY <2>1
<1>2. PICK q \in Nat : q = n - 1
  BY <1>1
<1>3. PICK r \in Nat : m - 1 = q * size + r /\ r < size
  <2>1. q * size \in Nat /\ m - 1 - q * size \in Nat /\ n * size = q * size + size
    BY <1>1, <1>2
  <2> QED BY <1>2, <2>1
<1>4. (q * size + r) \div size = q
  BY <1>3
<1> QED BY <1>2, <1>3, <1>4

LEMMA EndWorkerKeeps ==
    ASSUME ByQueryInv, EndWorker
    PROVE  ByQueryInv'
<1> USE DEF ByQueryInv
<1> DEFINE N == NumWorkers(request)
           part == parts[worker]
           size == BatchSize(request)
<1>1. /\ Working /\ batch = <<>> /\ ~GoesOn /\ worker' = worker + 1 /\ start' = 1
      /\ UNCHANGED <<request, parts, batch, status, failures, applied, found>>
  BY DEF EndWorker
<1>2. /\ request \in Accepted /\ request # None /\ worker \in 1..N /\ DOMAIN parts = 1..N /\ N \in Nat
      /\ part \in Seq(Hits) /\ Len(part) \in Nat /\ DOMAIN part = 1..Len(part)
      /\ size \in Nat \ {0} /\ WorkerMax(request) \in Int
      /\ status \in [1..N -> Counters] /\ failures \in [1..N -> Seq(Hits)]
      /\ start \in Nat \ {0}
  BY <1>1, WorkerFacts
<1>3. PICK a \in Nat : Place(a)
  BY <1>1, WorkerFacts
<1>4. Len(batch) = 0
  BY <1>1
<1> HIDE DEF N, part, size
<1>5. Types'
  BY <1>1, <1>2 DEF Types, N
<1>6. PartsOK'
  BY <1>1 DEF PartsOK
<1>v. PICK v \in Nat : v = worker + 1 /\ v > worker
  BY <1>2
<1>7. WithinLimit'
  <2>1. ASSUME WorkerMax(request) >= 0, v \in DOMAIN parts
        PROVE  status[v].done + Len(batch) <= WorkerMax(request)
    <3>1. Untouched(v)
      BY <1>2, <1>v, <2>1 DEF ProgressOK
    <3>2. status[v].done = 0
      BY <3>1 DEF Untouched, NoCounters
    <3> QED BY <1>4, <2>1, <3>2
  <2> QED BY <1>1, <1>v, <2>1 DEF WithinLimit
<1>8. v \in DOMAIN parts => Place(0)'
  <2> SUFFICES ASSUME v \in DOMAIN parts PROVE Place(0)'
    OBVIOUS
  <2>1. Untouched(v)
    BY <1>2, <1>v DEF ProgressOK
  <2>a. parts[v] \in Seq(Hits)
    BY <1>2 DEF Types, N
  <2>b. Len(parts[v]) \in Nat /\ worker' = v
    BY <1>1, <1>v, <2>a
  <2>2. ToSet(failures[v]) = {}
    BY <2>1 DEF Untouched, ToSet
  <2>3. start' = 0 * size + 1 /\ (0 - 1) * size <= 0 /\ 0 < start' /\ 0 = start' - 1
    BY <1>1, <1>2
  <2> QED BY <1>1, <1>4, <2>1, <2>b, <2>2, <2>3 DEF Untouched, Place, size
<1>9. request.maxDocs = -1 => Worked(worker)
  <2> SUFFICES ASSUME request.maxDocs = -1 PROVE Worked(worker)
    OBVIOUS
  <2> DEFINE failed == {p \in DOMAIN part : part[p] \in ToSet(failures[worker])}
  <2>1. /\ a <= Len(part) /\ a < start /\ (a < Len(part) => a = start - 1)
        /\ \A k \in DOMAIN part : k > a => part[k] \notin ToSet(applied)
        /\ \A k \in 1..a : part[k] \in ToSet(applied)
    BY <1>2, <1>3, <1>4 DEF Place, part
  <2>c. /\ a <= Len(part) /\ a < start /\ (a < Len(part) => a = start - 1)
        /\ Len(part) \in Nat /\ start \in Nat
    BY <1>2, <2>1
  <2>2. PICK n \in Nat :
           /\ start = n * size + 1 /\ (n - 1) * size <= a
           /\ \A h \in ToSet(failures[worker]) : \E k \in 1..a : k > (n - 1) * size /\ h = part[k]
    BY <1>3 DEF Place, part, size
  <2>d. n * size \in Nat /\ a <= n * size /\ start - 1 = n * size
    <3>1. start = n * size + 1
      BY <2>2
    <3>2. n * size \in Nat
      BY <1>2
    <3> QED BY <2>c, <3>1, <3>2
  <2>3. WorkerMax(request) < 0
    BY <1>2, RequestFacts
  <2>4. Reach(worker) = a
    <3>1. CASE failures[worker] = <<>>
      <4>1. start > Len(part)
        <5>1. ~(start <= Len(parts[worker]))
          BY <1>1, <1>2, <2>3, <3>1 DEF GoesOn
        <5> QED BY <1>2, <5>1 DEF part
      <4>2. a = Len(part)
        BY ONLY <2>c, <4>1, a \in Nat
      <4>3. failed = {}
        BY <3>1 DEF ToSet
      <4> QED BY <4>2, <4>3 DEF Reach, part
    <3>2. CASE failures[worker] # <<>>
      <4>1. failures[worker] \in Seq(Hits)
        BY <1>2
      <4>2. failures[worker][1] \in ToSet(failures[worker])
        BY <3>2, <4>1 DEF ToSet
      <4>3. failed # {}
        <5>1. PICK k \in 1..a : failures[worker][1] = part[k]
          BY <2>2, <4>2
        <5>2. k \in DOMAIN part
          BY <1>2, <2>1
        <5> QED BY <4>2, <5>1, <5>2
      <4>4. \A p \in failed : p \in 1..a /\ p > (n - 1) * size
        <5> TAKE p \in failed
        <5>1. PICK k \in 1..a : k > (n - 1) * size /\ part[p] = part[k]
          BY <2>2
        <5>2. p = k
          <6>1. IsInjective(part)
            BY <1>2 DEF PartsOK, part
          <6>2. k \in DOMAIN part
            BY <1>2, <2>1
          <6> QED BY <5>1, <6>1, <6>2 DEF IsInjective
        <5> QED BY <5>1, <5>2
      <4>5. Min(failed) \in failed
        <5>1. \A p \in failed : p \in Nat
          BY <4>4
        <5> QED BY <4>3, <5>1, MinIsThere
      <4>6. PICK m \in 1..a : m = Min(failed) /\ m > (n - 1) * size
        BY <4>4, <4>5
      <4>7. (m - 1) \div size = n - 1
        <5>1. m \in Nat \ {0} /\ m <= a
          OBVIOUS
        <5>2. m <= n * size
          BY ONLY <2>d, <5>1, a \in Nat
        <5> QED BY <1>2, <4>6, <5>1, <5>2, Division
      <4>8. Min({Len(part), n * size}) = a
        <5>1. (a = Len(part) /\ a <= n * size) \/ (a < Len(part) /\ a = n * size)
          <6>1. CASE a < Len(part)
            BY <2>c, <2>d, <6>1
          <6>2. CASE ~(a < Len(part))
            BY <2>c, <2>d, <6>2
          <6> QED BY <6>1, <6>2
        <5> QED BY <2>c, <2>d, <5>1, MinOfTwo
      <4>9. Reach(worker) = Min({Len(part), ((m - 1) \div size + 1) * size})
        BY <4>3, <4>6 DEF Reach, part, size
      <4>10. ((m - 1) \div size + 1) * size = n * size
        <5>1. (n - 1) + 1 = n
          OBVIOUS
        <5> QED BY <4>7, <5>1
      <4> QED BY <4>8, <4>9, <4>10
    <3> QED BY <3>1, <3>2
  <2> QED BY <1>2, <2>1, <2>4 DEF Worked, part
<1>10. \A w \in DOMAIN parts : (Untouched(w)' <=> Untouched(w)) /\ (Worked(w)' <=> Worked(w))
  BY <1>1 DEF Untouched, Worked, Reach
<1>11. \A w \in DOMAIN parts : (w > worker' => w > worker) /\ (w < worker' => w < worker \/ w = worker)
  BY <1>1, <1>2
<1>12. ProgressOK'
  BY <1>1, <1>2, <1>v, <1>8, <1>9, <1>10, <1>11 DEF ProgressOK
<1> QED BY <1>5, <1>6, <1>7, <1>12

LEMMA RespondKeeps ==
    ASSUME ByQueryInv, Respond
    PROVE  ByQueryInv'
<1> USE DEF ByQueryInv
<1>1. /\ request # None /\ worker \notin DOMAIN parts
      /\ request' = None /\ parts' = <<>> /\ status' = <<>> /\ failures' = <<>> /\ applied' = <<>>
      /\ worker' = 1 /\ start' = 1 /\ found' = {} /\ batch' = batch
  BY DEF Respond
<1>2. request \in Accepted /\ DOMAIN parts = 1..NumWorkers(request) /\ NumWorkers(request) \in Nat
  BY <1>1, RequestFacts DEF Types
<1>3. batch = <<>>
  <2>1. worker = NumWorkers(request) + 1
    BY <1>1, <1>2 DEF Types
  <2> QED BY <1>1, <2>1 DEF Types
<1>4. Types'
  BY <1>1, <1>3 DEF Types
<1>5. IsInjective(<<>>)
  BY DEF IsInjective
<1> QED BY <1>1, <1>4, <1>5 DEF PartsOK, WithinLimit, ProgressOK

LEMMA ByQueryNext ==
    ASSUME ByQueryInv, [Next]_vars
    PROVE  ByQueryInv'
<1>1. CASE Next
  BY <1>1, StartKeeps, StartBatchKeeps, EndWorkerKeeps, ApplyKeeps, RespondKeeps DEF Next
<1>2. CASE UNCHANGED vars
  <2>1. UNCHANGED <<parts, worker, start, batch, status, failures, applied>>
        /\ request' = request /\ found' = found
    BY <1>2 DEF vars, progress
  <2>2. Types' /\ PartsOK' /\ WithinLimit'
    BY <2>1 DEF ByQueryInv, Types, PartsOK, WithinLimit
  <2>3. \A w : (Untouched(w)' <=> Untouched(w)) /\ (Worked(w)' <=> Worked(w))
    BY <2>1 DEF Untouched, Worked, Reach
  <2>4. \A a \in Nat : Place(a)' <=> Place(a)
    BY <2>1 DEF Place
  <2>5. ProgressOK'
    BY <2>1, <2>3, <2>4 DEF ByQueryInv, ProgressOK
  <2> QED BY <2>2, <2>5 DEF ByQueryInv
<1> QED BY <1>1, <1>2

THEOREM ByQueryInvariant == Spec => []ByQueryInv
<1>1. Init => ByQueryInv
  BY ByQueryInit
<1>2. ByQueryInv /\ [Next]_vars => ByQueryInv'
  BY ByQueryNext
<1> QED BY <1>1, <1>2, PTL DEF Spec

-----------------------------------------------------------------------------
(* max_docs bounds the successes of a request over all its slices: each    *)
(* slice has its part of the limit, and what is left of a batch still fits *)
(* (bulkByScroll).                                                         *)
THEOREM LimitHolds == Spec => []MaxDocsRespected
<1>1. ByQueryInv => MaxDocsRespected
  <2> SUFFICES ASSUME ByQueryInv, request # None, request.maxDocs # -1
               PROVE  Successes <= request.maxDocs
    BY DEF MaxDocsRespected
  <2> DEFINE N == NumWorkers(request)
             max == WorkerMax(request)
             done == UNION {{w} \X (1..status[w].done) : w \in DOMAIN status}
  <2>1. /\ request \in Accepted /\ N \in Nat /\ max \in Nat /\ N * max <= request.maxDocs
        /\ request.maxDocs \in Nat
    <3>1. request \in Accepted
      BY DEF ByQueryInv, Types
    <3> QED BY <3>1, RequestFacts
  <2>2. status \in [1..N -> Counters] /\ DOMAIN parts = 1..N
    BY DEF ByQueryInv, Types
  <2>3. \A w \in 1..N : status[w].done \in Nat /\ status[w].done <= max
    BY <2>1, <2>2 DEF ByQueryInv, WithinLimit, Counters
  <2> HIDE DEF N, max
  <2>4. done \subseteq (1..N) \X (1..max)
    <3> SUFFICES ASSUME NEW w \in 1..N, NEW k \in 1..status[w].done PROVE <<w, k>> \in (1..N) \X (1..max)
      BY <2>2
    <3> QED BY <2>1, <2>3
  <2>5. IsFiniteSet(1..N) /\ Cardinality(1..N) = N /\ IsFiniteSet(1..max) /\ Cardinality(1..max) = max
    <3>1. 1 \in Int /\ N \in Int /\ max \in Int /\ N - 1 + 1 = N /\ max - 1 + 1 = max
      BY <2>1
    <3>2. ASSUME NEW n \in Nat PROVE IsFiniteSet(1..n) /\ Cardinality(1..n) = n
      <4>1. IsFiniteSet(1..n) /\ Cardinality(1..n) = IF 1 > n THEN 0 ELSE n - 1 + 1
        BY FS_Interval
      <4> QED BY <4>1
    <3> QED BY <2>1, <3>2
  <2>6. IsFiniteSet((1..N) \X (1..max)) /\ Cardinality((1..N) \X (1..max)) = N * max
    <3> DEFINE S == 1..N
               T == 1..max
    <3>1. IsFiniteSet(S \X T) /\ Cardinality(S \X T) = Cardinality(S) * Cardinality(T)
      <4>1. IsFiniteSet(S) /\ IsFiniteSet(T)
        BY <2>5
      <4> HIDE DEF S, T
      <4> QED BY <4>1, FS_Product
    <3> QED BY <2>5, <3>1
  <2> HIDE DEF done
  <2>7. Cardinality(done) <= N * max /\ Cardinality(done) \in Nat
    BY <2>4, <2>6, FS_Subset, FS_CardinalityType
  <2>8. Successes = Cardinality(done)
    BY DEF Successes, done
  <2>9. N * max \in Nat
    BY <2>1
  <2> QED BY <2>1, <2>7, <2>8, <2>9
<1> QED BY <1>1, ByQueryInvariant, PTL

(* No hit is tried twice: slices are disjoint, and the window of a batch   *)
(* begins behind all that was tried, cut or not (bulkByScroll).            *)
THEOREM TriedOnce == Spec => []EachHitOnce
<1>1. ByQueryInv => EachHitOnce
  BY DEF ByQueryInv, ProgressOK, EachHitOnce
<1> QED BY <1>1, ByQueryInvariant, PTL

(* A request without max_docs has tried all hits when it responds but      *)
(* those behind the batch of a failure in their slice (bulkByScroll).      *)
THEOREM AllTried == Spec => []NothingMissed
<1>1. ByQueryInv => NothingMissed
  <2> SUFFICES ASSUME ByQueryInv, request # None, worker \notin DOMAIN parts, request.maxDocs = -1
               PROVE  /\ UNION {ToSet(parts[w]) : w \in DOMAIN parts}
                            = IF request.slice = None THEN found
                              ELSE {h \in found : SliceOf(h, request.slice[2]) = request.slice[1]}
                      /\ ToSet(applied) = UNION {{parts[w][p] : p \in 1..Reach(w)} : w \in DOMAIN parts}
    BY DEF NothingMissed
  <2> DEFINE N == NumWorkers(request)
  <2>1. request \in Accepted /\ found \in SUBSET Hits /\ DOMAIN parts = 1..N /\ parts \in [1..N -> Seq(Hits)]
    BY DEF ByQueryInv, Types
  <2>2. N \in Nat
    BY <2>1, RequestFacts
  <2>3. \A w \in 1..N : ToSet(parts[w]) = Sliced(request, found)[w]
    BY <2>1 DEF ByQueryInv, PartsOK
  <2>4. UNION {ToSet(parts[w]) : w \in 1..N} = UNION {Sliced(request, found)[w] : w \in 1..N}
    BY <2>3
  <2>5. UNION {Sliced(request, found)[w] : w \in 1..N}
            = IF request.slice = None THEN found
              ELSE {h \in found : SliceOf(h, request.slice[2]) = request.slice[1]}
    BY <2>1, SlicesApart
  <2> HIDE DEF N
  <2>6. \A w \in 1..N : w < worker
    BY <2>1, <2>2 DEF ByQueryInv, Types, N
  <2>7. \A w \in 1..N : Worked(w)
    BY <2>1, <2>6 DEF ByQueryInv, ProgressOK
  <2>8. \A w \in 1..N : DOMAIN parts[w] = 1..Len(parts[w]) /\ Len(parts[w]) \in Nat
    BY <2>1
  <2>9. ASSUME NEW h \in ToSet(applied)
        PROVE  \E w \in 1..N : \E p \in 1..Reach(w) : h = parts[w][p]
    <3>1. PICK w \in 1..N : h \in ToSet(parts[w])
      BY <2>1 DEF ByQueryInv, ProgressOK
    <3>2. PICK p \in DOMAIN parts[w] : h = parts[w][p]
      BY <3>1 DEF ToSet
    <3>3. p \in 1..Reach(w)
      BY <2>7, <2>8, <3>2 DEF Worked
    <3> QED BY <3>2, <3>3
  <2>10. ASSUME NEW w \in 1..N, NEW p \in 1..Reach(w)
         PROVE  parts[w][p] \in ToSet(applied)
    <3>1. p \in DOMAIN parts[w]
      BY <2>7, <2>8 DEF Worked
    <3> QED BY <2>7, <3>1 DEF Worked
  <2>11. ToSet(applied) = UNION {{parts[w][p] : p \in 1..Reach(w)} : w \in 1..N}
    BY <2>9, <2>10
  <2> QED BY <2>1, <2>4, <2>5, <2>11
<1> QED BY <1>1, ByQueryInvariant, PTL

-----------------------------------------------------------------------------
(* Templates: both parts of the invariant are inductive, each by the       *)
(* checks of one pair of requests.  Putting a template asks for its        *)
(* components and its rivals, deleting a component asks for its users.     *)

(* Two patterns overlap whichever comes first. *)
LEMMA OverlapIsSymmetric ==
    ASSUME NEW P, NEW Q, patternsOverlap(P, Q)
    PROVE  patternsOverlap(Q, P)
  BY DEF patternsOverlap, templatePatternsOverlap

(* Deleting entries leaves the others alone. *)
LEMMA WithoutEntries ==
    ASSUME NEW store, NEW names
    PROVE  /\ DOMAIN Without(store, names) = DOMAIN store \ names
           /\ \A n \in DOMAIN store \ names : Without(store, names)[n] = store[n]
  BY DEF Without

LEMMA InitConsistent == ITInit => TemplatesConsistent
  <1>1. DOMAIN <<>> = {} OBVIOUS
  <1> QED BY <1>1 DEF ITInit, TemplatesConsistent, ComponentsExist, NoRivals

(* A template is stored when its components exist and no other one is its rival. *)
LEMMA PutConsistent ==
    ASSUME TemplatesConsistent, NEW name, NEW t, NEW create \in BOOLEAN, PutIndexTemplate(name, t, create)
    PROVE  TemplatesConsistent'
  <1>1. templates' = Stored(templates, name, t) /\ componentTemplates' = componentTemplates
    BY DEF PutIndexTemplate
  <1>2. /\ DOMAIN templates' = DOMAIN templates \union {name}
        /\ templates'[name] = t
        /\ \A n \in DOMAIN templates \ {name} : templates'[n] = templates[n]
    <2>1. /\ DOMAIN Stored(templates, name, t) = DOMAIN templates \union {name}
          /\ Stored(templates, name, t)[name] = t
          /\ \A n \in DOMAIN templates \ {name} : Stored(templates, name, t)[n] = templates[n]
      BY DEF Stored, Over
    <2> QED BY <1>1, <2>1
  <1>3. Range(t.composedOf) \subseteq DOMAIN componentTemplates
    BY DEF PutIndexTemplate, validateComposableTemplate, Range
  <1>4. ComponentsExist'
    <2> SUFFICES ASSUME NEW n \in DOMAIN templates'
                 PROVE  Range(templates'[n].composedOf) \subseteq DOMAIN componentTemplates
      BY <1>1 DEF ComponentsExist
    <2>1. CASE n = name BY <2>1, <1>2, <1>3
    <2>2. CASE n # name BY <2>2, <1>2 DEF TemplatesConsistent, ComponentsExist
    <2> QED BY <2>1, <2>2
  <1>5. ASSUME NEW o \in DOMAIN templates \ {name}, templates[o].priority = t.priority
        PROVE  ~patternsOverlap(t.patterns, templates[o].patterns)
    <2>1. conflictingV2Templates(name, t) = {} BY DEF PutIndexTemplate, validateComposableTemplate
    <2> QED BY <1>5, <2>1 DEF conflictingV2Templates
  <1>6. NoRivals'
    <2> SUFFICES ASSUME NEW n \in DOMAIN templates', NEW o \in DOMAIN templates', n # o,
                        templates'[n].priority = templates'[o].priority
                 PROVE  ~patternsOverlap(templates'[n].patterns, templates'[o].patterns)
      BY DEF NoRivals
    <2>1. CASE n = name BY <2>1, <1>2, <1>5
    <2>2. CASE o = name
      <3>1. ~patternsOverlap(templates'[o].patterns, templates'[n].patterns) BY <2>2, <1>2, <1>5
      <3> QED BY <3>1, OverlapIsSymmetric
    <2>3. CASE n # name /\ o # name BY <2>3, <1>2 DEF TemplatesConsistent, NoRivals
    <2> QED BY <2>1, <2>2, <2>3
  <1> QED BY <1>4, <1>6 DEF TemplatesConsistent

LEMMA DeleteConsistent ==
    ASSUME TemplatesConsistent, NEW names, DeleteIndexTemplate(names)
    PROVE  TemplatesConsistent'
  <1>1. templates' = Without(templates, names) /\ componentTemplates' = componentTemplates
    BY DEF DeleteIndexTemplate
  <1>2. /\ DOMAIN templates' \subseteq DOMAIN templates
        /\ \A n \in DOMAIN templates' : templates'[n] = templates[n]
    <2>1. /\ DOMAIN Without(templates, names) = DOMAIN templates \ names
          /\ \A n \in DOMAIN templates \ names : Without(templates, names)[n] = templates[n]
      BY WithoutEntries, Zenon
    <2> QED BY <1>1, <2>1
  <1> QED BY <1>1, <1>2 DEF TemplatesConsistent, ComponentsExist, NoRivals

(* A component may change under the templates composed of it, but not go. *)
LEMMA PutComponentConsistent ==
    ASSUME TemplatesConsistent, NEW name, NEW section, NEW create \in BOOLEAN,
           PutComponentTemplate(name, section, create)
    PROVE  TemplatesConsistent'
  <1>1. templates' = templates BY DEF PutComponentTemplate
  <1>2. DOMAIN componentTemplates \subseteq DOMAIN componentTemplates'
    <2>1. componentTemplates' = Stored(componentTemplates, name, section) BY DEF PutComponentTemplate
    <2>2. DOMAIN Stored(componentTemplates, name, section) = DOMAIN componentTemplates \union {name}
      BY DEF Stored, Over
    <2> QED BY <2>1, <2>2
  <1> QED BY <1>1, <1>2 DEF TemplatesConsistent, ComponentsExist, NoRivals

LEMMA DeleteComponentConsistent ==
    ASSUME TemplatesConsistent, NEW names, DeleteComponentTemplate(names)
    PROVE  TemplatesConsistent'
  <1>1. templates' = templates BY DEF DeleteComponentTemplate
  <1>2. DOMAIN componentTemplates' = DOMAIN componentTemplates \ names
    BY WithoutEntries DEF DeleteComponentTemplate
  <1>3. \A t \in DOMAIN templates : Range(templates[t].composedOf) \intersect names = {}
    BY DEF DeleteComponentTemplate, Users
  <1> QED BY <1>1, <1>2, <1>3 DEF TemplatesConsistent, ComponentsExist, NoRivals

LEMMA NextConsistent == TemplatesConsistent /\ [ITNext]_itVars => TemplatesConsistent'
  <1> SUFFICES ASSUME TemplatesConsistent, [ITNext]_itVars PROVE TemplatesConsistent'
    OBVIOUS
  <1>1. ASSUME UNCHANGED <<componentTemplates, templates>> PROVE TemplatesConsistent'
    BY <1>1 DEF TemplatesConsistent, ComponentsExist, NoRivals
  <1>2. CASE \E name \in TemplateName, t \in ComposableBodies, create \in BOOLEAN : PutIndexTemplate(name, t, create)
    BY <1>2, PutConsistent
  <1>3. CASE \E names \in SUBSET TemplateName : DeleteIndexTemplate(names)
    BY <1>3, DeleteConsistent
  <1>4. CASE \E name \in ComponentName, section \in ComponentBodies, create \in BOOLEAN :
               PutComponentTemplate(name, section, create)
    BY <1>4, PutComponentConsistent
  <1>5. CASE \E names \in SUBSET ComponentName : DeleteComponentTemplate(names)
    BY <1>5, DeleteComponentConsistent
  <1>6. CASE \E name \in LegacyName, t \in LegacyBodies, create \in BOOLEAN : PutLegacyTemplate(name, t, create)
    BY <1>6, <1>1 DEF PutLegacyTemplate
  <1>7. CASE \E names \in SUBSET LegacyName : DeleteLegacyTemplate(names)
    BY <1>7, <1>1 DEF DeleteLegacyTemplate
  <1>8. CASE \E n \in IndexName, body \in IndexBodies : CreateIndex(n, body)
    BY <1>8, <1>1 DEF CreateIndex, buildIndex
  <1>9. CASE \E n \in IndexName, requested \in {Unset, NoPipeline} : IndexDoc(n, requested)
    BY <1>9, <1>1 DEF IndexDoc, buildIndex
  <1>10. CASE \E n \in IndexName : DeleteIndex(n)
    BY <1>10, <1>1 DEF DeleteIndex
  <1>11. CASE UNCHANGED itVars BY <1>11, <1>1 DEF itVars
  <1> QED BY <1>2, <1>3, <1>4, <1>5, <1>6, <1>7, <1>8, <1>9, <1>10, <1>11 DEF ITNext

(* Stored templates are complete and have no rivals, in every reachable    *)
(* state, whatever the patterns match.                                     *)
THEOREM StoredTemplatesConsistent == ITSpec => []TemplatesConsistent
  BY InitConsistent, NextConsistent, PTL DEF ITSpec

(* Bounded numbers have a greatest.                                        *)
LEMMA MaxIsThere ==
    ASSUME NEW m \in Nat, NEW S \in SUBSET (0..m), S # {}
    PROVE  Max(S) \in S /\ \A x \in S : Max(S) >= x
  <1> DEFINE T == {k \in 0..m : m - k \in S}
  <1>1. PICK x \in S : TRUE OBVIOUS
  <1>2. m - x \in T OBVIOUS
  <1>3. Min(T) \in T /\ \A k \in T : Min(T) <= k
    <2>1. T # {} BY <1>2
    <2>2. T \in SUBSET Nat OBVIOUS
    <2> HIDE DEF T
    <2> QED BY <2>1, <2>2, MinIsThere
  <1>4. PICK k \in T : \A j \in T : k <= j BY <1>3
  <1>5. m - k \in S BY <1>4
  <1>6. \A y \in S : m - k >= y
    <2> SUFFICES ASSUME NEW y \in S PROVE m - k >= y
      OBVIOUS
    <2>1. m - y \in T OBVIOUS
    <2> QED BY <1>4, <2>1
  <1> QED BY <1>5, <1>6 DEF Max

\* the first k layers, each entry from the last of them that has it
Topmost(L, k) ==
    [x \in UNION {DOMAIN L[i] : i \in 1..k} |-> L[Max({i \in 1..k : x \in DOMAIN L[i]})][x]]

(* A greatest member is Max.                                               *)
LEMMA MaxIs ==
    ASSUME NEW S \in SUBSET Nat, NEW m \in S, \A x \in S : m >= x
    PROVE  Max(S) = m
  <1>1. Max(S) \in S /\ \A y \in S : Max(S) >= y BY DEF Max
  <1>2. Max(S) \in Nat /\ m \in Nat /\ Max(S) >= m /\ m >= Max(S) BY <1>1
  <1> QED BY <1>2

(* Layers up to k are those before and k. *)
LEMMA UnionUpTo ==
    ASSUME NEW L, NEW k \in Nat \ {0}, NEW x
    PROVE  x \in UNION {DOMAIN L[i] : i \in 1..k}
              <=> x \in UNION {DOMAIN L[i] : i \in 1..(k - 1)} \/ x \in DOMAIN L[k]
  <1> DEFINE all == 1..k
             before == 1..(k - 1)
  <1>1. all = before \union {k} OBVIOUS
  <1> HIDE DEF all, before
  <1>2. x \in UNION {DOMAIN L[i] : i \in all} <=> \E i \in all : x \in DOMAIN L[i] OBVIOUS
  <1>3. x \in UNION {DOMAIN L[i] : i \in before} <=> \E i \in before : x \in DOMAIN L[i] OBVIOUS
  <1>4. (\E i \in all : x \in DOMAIN L[i]) <=> (\E i \in before : x \in DOMAIN L[i]) \/ x \in DOMAIN L[k]
    BY <1>1
  <1> QED BY <1>2, <1>3, <1>4 DEF all, before

(* Laying one more layer over the topmost entries.                         *)
LEMMA TopmostOver ==
    ASSUME NEW L, NEW k \in Nat \ {0}
    PROVE  Topmost(L, k) = Over(Topmost(L, k - 1), L[k])
  <1>1. 1..k = (1..(k - 1)) \union {k} OBVIOUS
  <1>3. ASSUME NEW x \in DOMAIN L[k]
        PROVE  Max({i \in 1..k : x \in DOMAIN L[i]}) = k
    <2>1. k \in {i \in 1..k : x \in DOMAIN L[i]} BY <1>3
    <2> QED BY <2>1, MaxIs
  <1>4. ASSUME NEW x, x \notin DOMAIN L[k]
        PROVE  {i \in 1..k : x \in DOMAIN L[i]} = {i \in 1..(k - 1) : x \in DOMAIN L[i]}
    BY <1>1, <1>4
  <1> DEFINE D == UNION {DOMAIN L[i] : i \in 1..k}
             E == UNION {DOMAIN L[i] : i \in 1..(k - 1)}
             m(x) == Max({i \in 1..k : x \in DOMAIN L[i]})
             l(x) == Max({i \in 1..(k - 1) : x \in DOMAIN L[i]})
  <1>5. Topmost(L, k) = [x \in D |-> L[m(x)][x]] BY DEF Topmost
  <1>6. Topmost(L, k - 1) = [x \in E |-> L[l(x)][x]] BY DEF Topmost
  <1>7. \A x \in DOMAIN L[k] : m(x) = k BY <1>3
  <1>8. \A x : x \notin DOMAIN L[k] => m(x) = l(x) BY <1>4
  <1>9. \A x : x \in D <=> x \in E \/ x \in DOMAIN L[k] BY UnionUpTo
  <1> HIDE DEF D, E, m, l
  <1>10. D = E \union DOMAIN L[k] BY <1>9
  <1> QED BY <1>5, <1>6, <1>7, <1>8, <1>10 DEF Over

(* The layers laid one by one leave the topmost entries: the function that *)
(* does it exists, and two of them would differ first at some layer.       *)
LEMMA OverAllIsTopmost ==
    ASSUME NEW L, Len(L) \in Nat
    PROVE  OverAll(L) = Topmost(L, Len(L))
  <1> DEFINE n == Len(L)
             eq(f) == f = [k \in 0..n |-> IF k = 0 THEN <<>> ELSE Over(f[k - 1], L[k])]
             laid == CHOOSE f : eq(f)
             g == [k \in 0..n |-> Topmost(L, k)]
  <1>1. OverAll(L) = laid[n] BY DEF OverAll
  <1>2. Topmost(L, 0) = <<>>
    <2>1. UNION {DOMAIN L[i] : i \in 1..0} = {} OBVIOUS
    <2> QED BY <2>1 DEF Topmost
  <1>3. eq(g)
    <2>1. \A k \in 0..n : k # 0 => k \in Nat \ {0} /\ k - 1 \in 0..n OBVIOUS
    <2>2. \A k \in 0..n : g[k] = IF k = 0 THEN <<>> ELSE Over(g[k - 1], L[k])
      BY <1>2, <2>1, TopmostOver
    <2> QED BY <2>2
  <1>4. eq(laid) BY <1>3
  <1> HIDE DEF laid
  <1>5. \A k \in 0..n : laid[k] = g[k]
    <2> DEFINE bad == {k \in 0..n : laid[k] # g[k]}
    <2> SUFFICES ASSUME bad # {} PROVE FALSE
      OBVIOUS
    <2>1. PICK k \in bad : \A j \in bad : k <= j
      <3>1. bad \in SUBSET Nat /\ bad # {} OBVIOUS
      <3> HIDE DEF bad
      <3> QED BY <3>1, MinIsThere
    <2>2. laid[k] = IF k = 0 THEN <<>> ELSE Over(laid[k - 1], L[k]) BY <1>4, <2>1
    <2>3. g[k] = IF k = 0 THEN <<>> ELSE Over(g[k - 1], L[k])
      <3>1. k \in 0..n BY <2>1
      <3> QED BY <1>3, <3>1
    <2>4. k # 0 => k - 1 \in 0..n /\ k - 1 \notin bad BY <2>1
    <2> QED BY <2>1, <2>2, <2>3, <2>4
  <1> QED BY <1>1, <1>5

(* Of the layers laid over one another the last speaks.                    *)
LEMMA OverAllSaysLast ==
    ASSUME NEW L, Len(L) \in Nat, DOMAIN L = 1..Len(L), NEW x
    PROVE  LastSays(OverAll(L), x, L)
  <1>1. OverAll(L) = Topmost(L, Len(L)) BY OverAllIsTopmost
  <1> DEFINE givers == {i \in DOMAIN L : x \in DOMAIN L[i]}
  <1>2. givers = {i \in 1..Len(L) : x \in DOMAIN L[i]} OBVIOUS
  <1>3. x \in DOMAIN Topmost(L, Len(L)) <=> givers # {} BY DEF Topmost
  <1>4. givers # {} => Topmost(L, Len(L))[x] = L[Max(givers)][x] BY <1>2, <1>3 DEF Topmost
  <1> QED BY <1>1, <1>3, <1>4 DEF LastSays

\* the first k layers over which r is laid, each entry from the first that has it
Bottommost(r, L, k) ==
    [x \in DOMAIN r \union UNION {DOMAIN L[i] : i \in 1..k} |->
        IF x \in DOMAIN r THEN r[x] ELSE L[Min({i \in 1..k : x \in DOMAIN L[i]})][x]]

(* A least member is Min.                                                  *)
LEMMA MinIs ==
    ASSUME NEW S \in SUBSET Nat, NEW m \in S, \A x \in S : m <= x
    PROVE  Min(S) = m
  <1>1. Min(S) \in S /\ \A y \in S : Min(S) <= y BY DEF Min
  <1>2. Min(S) \in Nat /\ m \in Nat /\ Min(S) <= m /\ m <= Min(S) BY <1>1
  <1> QED BY <1>2

(* Laying what was laid so far over one more list.                         *)
LEMMA BottommostUnder ==
    ASSUME NEW r, NEW L, NEW k \in Nat \ {0}
    PROVE  Bottommost(r, L, k) = Over(L[k], Bottommost(r, L, k - 1))
  <1> DEFINE D == DOMAIN r \union UNION {DOMAIN L[i] : i \in 1..k}
             E == DOMAIN r \union UNION {DOMAIN L[i] : i \in 1..(k - 1)}
             m(x) == Min({i \in 1..k : x \in DOMAIN L[i]})
             l(x) == Min({i \in 1..(k - 1) : x \in DOMAIN L[i]})
  <1>1. Bottommost(r, L, k) = [x \in D |-> IF x \in DOMAIN r THEN r[x] ELSE L[m(x)][x]]
    BY DEF Bottommost
  <1>2. Bottommost(r, L, k - 1) = [x \in E |-> IF x \in DOMAIN r THEN r[x] ELSE L[l(x)][x]]
    BY DEF Bottommost
  <1>3. \A x : x \in D <=> x \in E \/ x \in DOMAIN L[k] BY UnionUpTo
  <1>4. ASSUME NEW x, x \in E, x \notin DOMAIN r PROVE m(x) = l(x)
    <2> DEFINE before == {i \in 1..(k - 1) : x \in DOMAIN L[i]}
               all == {i \in 1..k : x \in DOMAIN L[i]}
    <2>1. before # {} BY <1>4
    <2>2. before \in SUBSET Nat OBVIOUS
    <2>3. \A i : i \in all <=> i \in before \/ (i = k /\ x \in DOMAIN L[k]) OBVIOUS
    <2>4. all \in SUBSET Nat OBVIOUS
    <2>5. \A i \in before : i <= k OBVIOUS
    <2> HIDE DEF before, all
    <2>6. Min(before) \in before /\ \A i \in before : Min(before) <= i BY <2>1, <2>2, MinIsThere
    <2>7. \A i \in all : Min(before) <= i BY <2>3, <2>5, <2>6
    <2>8. Min(all) = Min(before) BY <2>3, <2>4, <2>6, <2>7, MinIs
    <2> QED BY <2>8 DEF before, all
  <1>5. ASSUME NEW x, x \in DOMAIN L[k], x \notin E PROVE m(x) = k
    <2>1. \A i \in 1..(k - 1) : x \notin DOMAIN L[i] BY <1>5
    <2>2. {i \in 1..k : x \in DOMAIN L[i]} = {k}
      <3>1. \A i : i \in 1..k <=> i \in 1..(k - 1) \/ i = k OBVIOUS
      <3> QED BY <1>5, <2>1, <3>1
    <2>3. Min({k}) = k BY MinIs
    <2> QED BY <2>2, <2>3
  <1>6. DOMAIN r \subseteq E OBVIOUS
  <1> HIDE DEF D, E, m, l
  <1>7. D = E \union DOMAIN L[k] BY <1>3
  <1> QED BY <1>1, <1>2, <1>4, <1>5, <1>6, <1>7 DEF Over

(* The aliases of an index: the request's, else the first list's.          *)
LEMMA AliasesAreBottommost ==
    ASSUME NEW n, NEW r, NEW lists, Len(lists) \in Nat, r = [x \in DOMAIN r |-> r[x]]
    PROVE  resolveIndexAliases(n, r, lists)
              = Bottommost(r, [i \in 1..Len(lists) |-> Resolved(Unnamed(lists[i], DOMAIN r), n)], Len(lists))
  <1> DEFINE m == Len(lists)
             L == [i \in 1..m |-> Resolved(Unnamed(lists[i], DOMAIN r), n)]
             eq(f) == f = [k \in 0..m |-> IF k = 0 THEN r ELSE Over(Resolved(Unnamed(lists[k], DOMAIN r), n), f[k - 1])]
             out == CHOOSE f : eq(f)
             g == [k \in 0..m |-> Bottommost(r, L, k)]
  <1>1. resolveIndexAliases(n, r, lists) = out[m] BY DEF resolveIndexAliases
  <1>2. Bottommost(r, L, 0) = r
    <2>1. \A x \in UNION {DOMAIN L[i] : i \in 1..0} : FALSE OBVIOUS
    <2>2. Bottommost(r, L, 0) = [x \in DOMAIN r |-> r[x]] BY <2>1 DEF Bottommost
    <2> QED BY <2>2
  <1>3. eq(g)
    <2>1. \A k \in 0..m : k # 0 => k \in Nat \ {0} /\ k - 1 \in 0..m OBVIOUS
    <2>2. \A k \in 0..m : k # 0 => L[k] = Resolved(Unnamed(lists[k], DOMAIN r), n) OBVIOUS
    <2> HIDE DEF L, m
    <2>3. \A k \in 0..m : g[k] = IF k = 0 THEN r ELSE Over(Resolved(Unnamed(lists[k], DOMAIN r), n), g[k - 1])
      BY <1>2, <2>1, <2>2, BottommostUnder
    <2> QED BY <2>3
  <1>4. eq(out) BY <1>3
  <1> HIDE DEF out
  <1>5. \A k \in 0..m : out[k] = g[k]
    <2> DEFINE bad == {k \in 0..m : out[k] # g[k]}
    <2> SUFFICES ASSUME bad # {} PROVE FALSE
      OBVIOUS
    <2>1. PICK k \in bad : \A j \in bad : k <= j
      <3>1. bad \in SUBSET Nat /\ bad # {} OBVIOUS
      <3> HIDE DEF bad
      <3> QED BY <3>1, MinIsThere
    <2>2. out[k] = IF k = 0 THEN r ELSE Over(Resolved(Unnamed(lists[k], DOMAIN r), n), out[k - 1]) BY <1>4, <2>1
    <2>3. g[k] = IF k = 0 THEN r ELSE Over(Resolved(Unnamed(lists[k], DOMAIN r), n), g[k - 1])
      <3>1. k \in 0..m BY <2>1
      <3> QED BY <1>3, <3>1
    <2>4. k # 0 => k - 1 \in 0..m /\ k - 1 \notin bad BY <2>1
    <2> QED BY <2>1, <2>2, <2>3, <2>4
  <1> QED BY <1>1, <1>5

(* A function on 1..m is a sequence of length m.                           *)
LEMMA FunctionIsSequence ==
    ASSUME NEW m \in Nat, NEW M, DOMAIN M = 1..m, M = [i \in 1..m |-> M[i]]
    PROVE  /\ M \in Seq({M[i] : i \in 1..m})
           /\ Len(M) = m
  <1> DEFINE S == {M[i] : i \in 1..m}
  <1>1. M \in [1..m -> S] OBVIOUS
  <1> HIDE DEF S
  <1>2. M \in Seq(S) BY <1>1
  <1>3. Len(M) \in Nat /\ DOMAIN M = 1..Len(M) BY <1>2
  <1>4. Len(M) = m BY <1>3
  <1> QED BY <1>2, <1>4 DEF S

(* The entries of a sequence to which one is appended.                     *)
LEMMA Appended ==
    ASSUME NEW m \in Nat, NEW M, DOMAIN M = 1..m, M = [i \in 1..m |-> M[i]], NEW r
    PROVE  /\ DOMAIN Append(M, r) = 1..(m + 1)
           /\ \A i \in 1..m : Append(M, r)[i] = M[i]
           /\ Append(M, r)[m + 1] = r
           /\ Len(Append(M, r)) = m + 1
           /\ Append(M, r) = [i \in 1..(m + 1) |-> Append(M, r)[i]]
  <1> DEFINE S == {M[i] : i \in 1..m} \union {r}
  <1>1. M \in [1..m -> S] OBVIOUS
  <1>2. r \in S OBVIOUS
  <1> HIDE DEF S
  <1>3. M \in Seq(S) BY <1>1
  <1>4. Len(M) = m BY FunctionIsSequence
  <1>5. Append(M, r) \in Seq(S) /\ Len(Append(M, r)) = m + 1 BY <1>2, <1>3, <1>4
  <1>6. DOMAIN Append(M, r) = 1..(m + 1) BY <1>5
  <1>7. Append(M, r) = [i \in 1..(m + 1) |-> Append(M, r)[i]] BY <1>5, <1>6
  <1> QED BY <1>2, <1>3, <1>4, <1>5, <1>6, <1>7

(* What is appended says it last, and lets the others speak of the rest.   *)
LEMMA LastOfAppend ==
    ASSUME NEW m \in Nat, NEW M, DOMAIN M = 1..m, M = [i \in 1..m |-> M[i]], NEW r, NEW f, NEW x,
           IF x \in DOMAIN r THEN x \in DOMAIN f /\ f[x] = r[x] ELSE LastSays(f, x, M)
    PROVE  LastSays(f, x, Append(M, r))
  <1> DEFINE N == Append(M, r)
             givers == {i \in DOMAIN N : x \in DOMAIN N[i]}
  <1>1. /\ DOMAIN N = 1..(m + 1) /\ N[m + 1] = r
        /\ \A i \in 1..m : N[i] = M[i]
    BY Appended
  <1> HIDE DEF N
  <1>2. CASE x \in DOMAIN r
    <2>1. m + 1 \in givers BY <1>1, <1>2
    <2>2. \A i \in givers : m + 1 >= i BY <1>1
    <2>3. givers \in SUBSET Nat BY <1>1
    <2>4. Max(givers) = m + 1
      <3> HIDE DEF givers
      <3> QED BY <2>1, <2>2, <2>3, MaxIs
    <2> QED BY <1>1, <1>2, <2>1, <2>4 DEF LastSays, N
  <1>3. CASE x \notin DOMAIN r
    <2> DEFINE old == {i \in DOMAIN M : x \in DOMAIN M[i]}
    <2>1. \A i : i \in 1..(m + 1) <=> i \in 1..m \/ i = m + 1 OBVIOUS
    <2>2. \A i : i \in givers <=> i \in old BY <1>1, <1>3, <2>1
    <2>3. givers = old
      <3> HIDE DEF givers, old
      <3> QED BY <2>2
    <2>4. old # {} => Max(old) \in old
      <3>1. old \in SUBSET (0..m) OBVIOUS
      <3> HIDE DEF old
      <3> QED BY <3>1, MaxIsThere
    <2>5. old # {} => N[Max(old)] = M[Max(old)] BY <1>1, <2>4
    <2>6. IF old = {} THEN x \notin DOMAIN f ELSE x \in DOMAIN f /\ f[x] = M[Max(old)][x]
      BY <1>3 DEF LastSays
    <2>7. IF givers = {} THEN x \notin DOMAIN f ELSE x \in DOMAIN f /\ f[x] = N[Max(givers)][x]
      BY <2>3, <2>5, <2>6
    <2> QED BY <2>7 DEF LastSays, N
  <1> QED BY <1>2, <1>3

(* Only the names count for whether anything is said at all.               *)
LEMMA SaysOfNames ==
    ASSUME NEW m \in Nat, NEW M, DOMAIN M = 1..m, NEW f, NEW x,
           x \in DOMAIN f <=> \E i \in 1..m : x \in DOMAIN M[i]
    PROVE  LastSays([y \in DOMAIN f |-> TRUE], x, [i \in DOMAIN M |-> [y \in DOMAIN M[i] |-> TRUE]])
  <1> DEFINE N == [i \in DOMAIN M |-> [y \in DOMAIN M[i] |-> TRUE]]
             givers == {i \in DOMAIN N : x \in DOMAIN N[i]}
  <1>1. givers # {} <=> x \in DOMAIN f OBVIOUS
  <1>2. givers # {} => Max(givers) \in givers
    <2>1. givers \in SUBSET (0..m) OBVIOUS
    <2> HIDE DEF givers
    <2> QED BY <2>1, MaxIsThere
  <1>3. \A i \in givers : N[i][x] = TRUE OBVIOUS
  <1> QED BY <1>1, <1>2, <1>3 DEF LastSays

(* The first of the lists is the last of the layers they were read from.   *)
LEMMA AliasesSayLast ==
    ASSUME NEW lists, Len(lists) \in Nat, NEW n, NEW r, r = [y \in DOMAIN r |-> r[y]], NEW x,
           NEW R, DOMAIN R = 1..Len(lists), R = [i \in 1..Len(lists) |-> R[i]],
           \A i \in 1..Len(lists) : R[i] = Resolved(Unnamed(lists[Len(lists) + 1 - i], DOMAIN r), n)
    PROVE  LastSays(resolveIndexAliases(n, r, lists), x, Append(R, r))
  <1> DEFINE m == Len(lists)
             L == [i \in 1..m |-> Resolved(Unnamed(lists[i], DOMAIN r), n)]
             f == resolveIndexAliases(n, r, lists)
  <1>1. f = Bottommost(r, L, m) BY AliasesAreBottommost
  <1>2. \A i \in 1..m : m + 1 - i \in 1..m /\ L[i] = R[m + 1 - i]
    <2>1. \A i \in 1..m : m + 1 - i \in 1..m /\ m + 1 - (m + 1 - i) = i OBVIOUS
    <2> QED BY <2>1
  <1>3. R = [i \in 1..m |-> R[i]] /\ DOMAIN R = 1..m /\ m \in Nat OBVIOUS
  <1> HIDE DEF L, f, m
  <1>4. CASE x \in DOMAIN r
    <2>1. x \in DOMAIN f /\ f[x] = r[x] BY <1>1, <1>4 DEF Bottommost
    <2> QED BY <1>3, <1>4, <2>1, LastOfAppend DEF f
  <1>5. CASE x \notin DOMAIN r
    <2> DEFINE first == {i \in 1..m : x \in DOMAIN L[i]}
               givers == {i \in DOMAIN R : x \in DOMAIN R[i]}
    <2>1. x \in DOMAIN f <=> first # {} BY <1>1, <1>5 DEF Bottommost
    <2>2. x \in DOMAIN f => f[x] = L[Min(first)][x] BY <1>1, <1>5 DEF Bottommost
    <2>3. \A i \in first : m + 1 - i \in givers BY <1>2, <1>3
    <2>4. \A i \in givers : m + 1 - i \in first
      <3> SUFFICES ASSUME NEW i \in givers PROVE m + 1 - i \in first
        OBVIOUS
      <3>1. i \in 1..m /\ x \in DOMAIN R[i] BY <1>3
      <3>2. m + 1 - i \in 1..m /\ m + 1 - (m + 1 - i) = i BY <1>3, <3>1
      <3>3. L[m + 1 - i] = R[i] BY <1>2, <3>2
      <3> QED BY <3>1, <3>2, <3>3
    <2>5. CASE first = {}
      <3>1. givers = {} BY <2>4, <2>5
      <3>2. LastSays(f, x, R) BY <2>1, <2>5, <3>1 DEF LastSays
      <3> QED BY <1>3, <1>5, <3>2, LastOfAppend DEF f
    <2>6. CASE first # {}
      <3>1. first \in SUBSET Nat /\ first \subseteq 1..m /\ givers \in SUBSET Nat BY <1>3
      <3> HIDE DEF first, givers
      <3>2. PICK k \in first : k = Min(first) /\ \A i \in first : k <= i BY <2>6, <3>1, MinIsThere
      <3>3. m + 1 - k \in givers BY <2>3
      <3>4. \A i \in givers : m + 1 - k >= i
        <4> SUFFICES ASSUME NEW i \in givers PROVE m + 1 - k >= i
          OBVIOUS
        <4>1. k <= m + 1 - i BY <2>4, <3>2
        <4>2. k \in Nat /\ i \in Nat BY <3>1
        <4> QED BY <1>3, <4>1, <4>2
      <3>5. Max(givers) = m + 1 - k BY <1>3, <3>1, <3>3, <3>4, MaxIs
      <3>6. f[x] = R[Max(givers)][x] /\ x \in DOMAIN f
        <4>1. k \in 1..m BY <3>1, <3>2
        <4>2. L[k] = R[m + 1 - k] BY <1>2, <4>1
        <4>3. x \in DOMAIN f BY <2>1, <2>6
        <4>4. f[x] = L[k][x] BY <2>2, <3>2, <4>3
        <4> QED BY <3>5, <4>2, <4>3, <4>4
      <3>7. LastSays(f, x, R) BY <3>3, <3>6 DEF LastSays, givers
      <3> QED BY <1>3, <1>5, <3>7, LastOfAppend DEF f
    <2> QED BY <2>5, <2>6
  <1> QED BY <1>4, <1>5

(* Stored templates are what requests gave, and legacy templates finitely  *)
(* many, so that those of an index can be put in order.                    *)
TemplatesTyped ==
    /\ \A t \in DOMAIN templates : templates[t] \in ComposableTemplate
    /\ \A t \in DOMAIN legacyTemplates : legacyTemplates[t] \in LegacyTemplate
    /\ IsFiniteSet(DOMAIN templates) /\ IsFiniteSet(DOMAIN legacyTemplates)

(* Storing an entry leaves the others alone.                               *)
LEMMA StoredEntries ==
    ASSUME NEW store, NEW name, NEW x
    PROVE  /\ DOMAIN Stored(store, name, x) = DOMAIN store \union {name}
           /\ Stored(store, name, x)[name] = x
           /\ \A n \in DOMAIN store \ {name} : Stored(store, name, x)[n] = store[n]
  BY DEF Stored, Over

(* Stores that take entries of a set hold such entries only.               *)
LEMMA EntriesStay ==
    ASSUME NEW S, NEW store, \A n \in DOMAIN store : store[n] \in S
    PROVE  /\ \A name, x : x \in S => \A n \in DOMAIN Stored(store, name, x) : Stored(store, name, x)[n] \in S
           /\ \A names : \A n \in DOMAIN Without(store, names) : Without(store, names)[n] \in S
  <1>1. ASSUME NEW name, NEW x \in S, NEW n \in DOMAIN Stored(store, name, x)
        PROVE  Stored(store, name, x)[n] \in S
    <2>1. CASE n = name BY <2>1 DEF Stored, Over
    <2>2. CASE n # name
      <3>1. n \in DOMAIN store \ {name} BY <2>2 DEF Stored, Over
      <3>2. Stored(store, name, x)[n] = store[n] BY <3>1 DEF Stored, Over
      <3> QED BY <3>1, <3>2
    <2> QED BY <2>1, <2>2
  <1>2. ASSUME NEW names, NEW n \in DOMAIN Without(store, names)
        PROVE  Without(store, names)[n] \in S
    <2>1. n \in DOMAIN store \ names BY WithoutEntries
    <2>2. Without(store, names)[n] = store[n] BY <2>1, WithoutEntries
    <2> QED BY <2>1, <2>2
  <1> QED BY <1>1, <1>2

(* There are no templates at first.                                        *)
LEMMA TemplatesInit == ITInit => TemplatesTyped
  <1>1. DOMAIN <<>> = {} OBVIOUS
  <1> QED BY <1>1, FS_EmptySet DEF ITInit, TemplatesTyped

(* Every request keeps the stored templates well-formed.                   *)
LEMMA TemplatesNext == TemplatesTyped /\ [ITNext]_itVars => TemplatesTyped'
  <1> SUFFICES ASSUME TemplatesTyped, [ITNext]_itVars PROVE TemplatesTyped'
    OBVIOUS
  <1>1. ASSUME UNCHANGED <<templates, legacyTemplates>> PROVE TemplatesTyped'
    BY <1>1 DEF TemplatesTyped
  <1>2. CASE \E name \in TemplateName, t \in ComposableBodies, create \in BOOLEAN : PutIndexTemplate(name, t, create)
    <2>1. PICK name \in TemplateName, t \in ComposableBodies :
             templates' = Stored(templates, name, t) /\ legacyTemplates' = legacyTemplates
      BY <1>2 DEF PutIndexTemplate
    <2>2. t \in ComposableTemplate BY TemplateAssumption
    <2>3. \A n \in DOMAIN templates' : templates'[n] \in ComposableTemplate
      BY <2>1, <2>2, EntriesStay DEF TemplatesTyped
    <2>4. IsFiniteSet(DOMAIN templates \union {name}) BY FS_AddElement DEF TemplatesTyped
    <2>5. IsFiniteSet(DOMAIN templates') BY <2>1, <2>4, StoredEntries
    <2> QED BY <2>1, <2>3, <2>5 DEF TemplatesTyped
  <1>3. CASE \E names \in SUBSET TemplateName : DeleteIndexTemplate(names)
    <2>1. PICK names : templates' = Without(templates, names) /\ legacyTemplates' = legacyTemplates
      BY <1>3 DEF DeleteIndexTemplate
    <2>2. \A n \in DOMAIN templates' : templates'[n] \in ComposableTemplate
      BY <2>1, EntriesStay DEF TemplatesTyped
    <2>3. IsFiniteSet(DOMAIN templates \ names) BY FS_Subset DEF TemplatesTyped
    <2>4. IsFiniteSet(DOMAIN templates') BY <2>1, <2>3, WithoutEntries
    <2> QED BY <2>1, <2>2, <2>4 DEF TemplatesTyped
  <1>4. CASE \E name \in ComponentName, section \in ComponentBodies, create \in BOOLEAN :
               PutComponentTemplate(name, section, create)
    BY <1>4, <1>1 DEF PutComponentTemplate
  <1>5. CASE \E names \in SUBSET ComponentName : DeleteComponentTemplate(names)
    BY <1>5, <1>1 DEF DeleteComponentTemplate
  <1>6. CASE \E name \in LegacyName, t \in LegacyBodies, create \in BOOLEAN : PutLegacyTemplate(name, t, create)
    <2>1. PICK name \in LegacyName, t \in LegacyBodies :
             legacyTemplates' = Stored(legacyTemplates, name, t) /\ templates' = templates
      BY <1>6 DEF PutLegacyTemplate
    <2>2. t \in LegacyTemplate BY TemplateAssumption
    <2>3. \A n \in DOMAIN legacyTemplates' : legacyTemplates'[n] \in LegacyTemplate
      BY <2>1, <2>2, EntriesStay DEF TemplatesTyped
    <2>4. IsFiniteSet(DOMAIN legacyTemplates \union {name}) BY FS_AddElement DEF TemplatesTyped
    <2>5. IsFiniteSet(DOMAIN legacyTemplates') BY <2>1, <2>4, StoredEntries
    <2> QED BY <2>1, <2>3, <2>5 DEF TemplatesTyped
  <1>7. CASE \E names \in SUBSET LegacyName : DeleteLegacyTemplate(names)
    <2>1. PICK names : legacyTemplates' = Without(legacyTemplates, names) /\ templates' = templates
      BY <1>7 DEF DeleteLegacyTemplate
    <2>2. \A n \in DOMAIN legacyTemplates' : legacyTemplates'[n] \in LegacyTemplate
      BY <2>1, EntriesStay DEF TemplatesTyped
    <2>3. IsFiniteSet(DOMAIN legacyTemplates \ names) BY FS_Subset DEF TemplatesTyped
    <2>4. IsFiniteSet(DOMAIN legacyTemplates') BY <2>1, <2>3, WithoutEntries
    <2> QED BY <2>1, <2>2, <2>4 DEF TemplatesTyped
  <1>8. CASE \E n \in IndexName, body \in IndexBodies : CreateIndex(n, body)
    BY <1>8, <1>1 DEF CreateIndex, buildIndex
  <1>9. CASE \E n \in IndexName, requested \in {Unset, NoPipeline} : IndexDoc(n, requested)
    BY <1>9, <1>1 DEF IndexDoc, buildIndex
  <1>10. CASE \E n \in IndexName : DeleteIndex(n)
    BY <1>10, <1>1 DEF DeleteIndex
  <1>11. CASE UNCHANGED itVars BY <1>11, <1>1 DEF itVars
  <1> QED BY <1>2, <1>3, <1>4, <1>5, <1>6, <1>7, <1>8, <1>9, <1>10, <1>11 DEF ITNext

\* a sequence of some length
Finite(s) == Len(s) \in Nat /\ DOMAIN s = 1..Len(s) /\ s = [i \in 1..Len(s) |-> s[i]]

(* The sections of a composable template are a sequence.                   *)
LEMMA LayersAreFinite ==
    ASSUME NEW t \in ComposableTemplate
    PROVE  Finite(Layers(t))
  <1> DEFINE front == [i \in DOMAIN t.composedOf |-> IF t.composedOf[i] \in DOMAIN componentTemplates
                                          THEN componentTemplates[t.composedOf[i]]
                                          ELSE EmptyBody]
  <1>1. t.composedOf \in Seq(ComponentName) BY DEF ComposableTemplate
  <1>2. PICK m \in Nat : DOMAIN t.composedOf = 1..m BY <1>1
  <1>3. DOMAIN front = 1..m /\ front = [i \in 1..m |-> front[i]] BY <1>2
  <1>4. Layers(t) = Append(front, t.section) BY DEF Layers
  <1> HIDE DEF front
  <1> QED BY <1>3, <1>4, Appended DEF Finite

(* So are those of the legacy templates, all of which a chain names.       *)
LEMMA ChainsAreFinite ==
    ASSUME TemplatesTyped, NEW n, NEW chain \in LegacyChains(n)
    PROVE  /\ Finite(LegacyLayers(chain))
           /\ Finite(chain) /\ DOMAIN LegacyLayers(chain) = DOMAIN chain
           /\ \A i \in DOMAIN chain : chain[i] \in MatchingLegacy(n)
           /\ \A t \in MatchingLegacy(n) : \E i \in DOMAIN chain : chain[i] = t
  <1>1. IsFiniteSet(MatchingLegacy(n)) BY FS_Subset DEF MatchingLegacy, TemplatesTyped
  <1>2. PICK m \in Nat : m = Cardinality(MatchingLegacy(n)) BY <1>1, FS_CardinalityType
  <1>3. chain \in [1..m -> MatchingLegacy(n)] BY <1>2 DEF LegacyChains, SetToSeqs
  <1>4. DOMAIN chain = 1..m /\ chain = [i \in 1..m |-> chain[i]] BY <1>3
  <1>5. Len(chain) = m BY <1>4, FunctionIsSequence
  <1> DEFINE N == LegacyLayers(chain)
  <1>6. DOMAIN N = 1..m /\ N = [i \in 1..m |-> N[i]] BY <1>4 DEF LegacyLayers
  <1> HIDE DEF N
  <1>7. Len(N) = m BY <1>6, FunctionIsSequence
  <1>8. \A t \in MatchingLegacy(n) : \E i \in DOMAIN chain : chain[i] = t
    <2>1. chain \in Injection(1..m, MatchingLegacy(n))
      BY <1>2, <1>3 DEF LegacyChains, SetToSeqs, Injection, IsInjective
    <2>2. Cardinality(1..m) = m BY FS_Interval
    <2>3. chain \in Surjection(1..m, MatchingLegacy(n)) BY <1>1, <1>2, <2>1, <2>2, FS_Injection
    <2> QED BY <1>4, <2>3 DEF Surjection
  <1> QED BY <1>3, <1>4, <1>5, <1>6, <1>7, <1>8 DEF Finite, N

(* What the templates give: the settings of the sections of the index, and *)
(* their aliases in the opposite order.                                    *)
LEMMA GivenBySections ==
    ASSUME TemplatesTyped, NEW n, NEW given \in FromTemplates(n)
    PROVE  \E sections \in SectionsFor(n) :
              /\ Finite(sections)
              /\ given.settings = ComposedSettings(sections)
              /\ Len(given.lists) = Len(sections)
              /\ \A i \in 1..Len(sections) :
                    given.lists[i] = IF MatchingTemplates(n) # {} THEN sections[Len(sections) + 1 - i].aliases
                                     ELSE WithoutFlags(sections[Len(sections) + 1 - i].aliases)
  <1>0. ASSUME NEW N, Finite(N)
        PROVE  /\ DOMAIN AliasLists(N) = 1..Len(N)
               /\ AliasLists(N) = [i \in 1..Len(N) |-> AliasLists(N)[i]]
               /\ \A i \in 1..Len(N) : AliasLists(N)[i] = N[Len(N) + 1 - i].aliases
    <2> DEFINE B == [i \in DOMAIN N |-> N[i].aliases]
    <2>1. DOMAIN B = 1..Len(N) /\ B = [i \in 1..Len(N) |-> B[i]] /\ Len(N) \in Nat BY <1>0 DEF Finite
    <2>2. \A i \in 1..Len(N) : B[i] = N[i].aliases BY <1>0 DEF Finite
    <2>3. AliasLists(N) = Reverse(B) BY DEF AliasLists
    <2> HIDE DEF B
    <2>4. Len(B) = Len(N) BY <2>1, FunctionIsSequence
    <2>5. AliasLists(N) = [i \in 1..Len(N) |-> B[(Len(N) - i) + 1]] BY <2>3, <2>4 DEF Reverse
    <2>6. \A i \in 1..Len(N) : (Len(N) - i) + 1 = Len(N) + 1 - i /\ Len(N) + 1 - i \in 1..Len(N) BY <2>1
    <2> QED BY <2>2, <2>5, <2>6
  <1>1. CASE MatchingTemplates(n) # {}
    <2>1. PICK t \in matchingComposableTemplate(n) :
             given = [settings |-> ComposedSettings(Layers(templates[t])), lists |-> AliasLists(Layers(templates[t]))]
      BY <1>1 DEF FromTemplates
    <2>2. templates[t] \in ComposableTemplate
      BY DEF matchingComposableTemplate, Highest, MatchingTemplates, TemplatesTyped
    <2> DEFINE N == Layers(templates[t])
    <2>3. Finite(N) BY <2>2, LayersAreFinite
    <2>4. N \in SectionsFor(n) BY <1>1 DEF SectionsFor
    <2>5. given.settings = ComposedSettings(N) /\ given.lists = AliasLists(N) BY <2>1
    <2> HIDE DEF N
    <2>6. Len(given.lists) = Len(N) BY <1>0, <2>3, <2>5, FunctionIsSequence DEF Finite
    <2> QED BY <1>0, <1>1, <2>3, <2>4, <2>5, <2>6
  <1>2. CASE MatchingTemplates(n) = {}
    <2>1. PICK chain \in LegacyChains(n) :
             given = [settings |-> ComposedSettings(LegacyLayers(chain)),
                      lists |-> [i \in DOMAIN chain |-> WithoutFlags(AliasLists(LegacyLayers(chain))[i])]]
      BY <1>2 DEF FromTemplates
    <2> DEFINE N == LegacyLayers(chain)
    <2>2. Finite(N) /\ DOMAIN chain = DOMAIN N BY ChainsAreFinite
    <2>3. N \in SectionsFor(n) BY <1>2 DEF SectionsFor
    <2>4. /\ given.settings = ComposedSettings(N)
          /\ given.lists = [i \in DOMAIN N |-> WithoutFlags(AliasLists(N)[i])]
      BY <2>1, <2>2
    <2> HIDE DEF N
    <2>5. DOMAIN N = 1..Len(N) /\ Len(N) \in Nat BY <2>2 DEF Finite
    <2>6. Len(given.lists) = Len(N)
      <3>1. /\ DOMAIN given.lists = 1..Len(N)
            /\ given.lists = [i \in 1..Len(N) |-> given.lists[i]]
        BY <2>4, <2>5
      <3> QED BY <2>5, <3>1, FunctionIsSequence
    <2>7. \A i \in 1..Len(N) : given.lists[i] = WithoutFlags(N[Len(N) + 1 - i].aliases)
      BY <1>0, <2>2, <2>4, <2>5
    <2> QED BY <1>2, <2>2, <2>3, <2>4, <2>6, <2>7
  <1> QED BY <1>1, <1>2

(* The settings of sections in which each is as the last one says.         *)
LEMMA ComposedSayLast ==
    ASSUME NEW sections, Finite(sections), NEW x
    PROVE  LastSays(ComposedSettings(sections), x, [i \in DOMAIN sections |-> sections[i].settings])
  <1> DEFINE M == [i \in DOMAIN sections |-> sections[i].settings]
  <1>1. DOMAIN M = 1..Len(sections) /\ M = [i \in 1..Len(sections) |-> M[i]] /\ Len(sections) \in Nat
    BY DEF Finite
  <1>2. ComposedSettings(sections) = OverAll(M) BY DEF ComposedSettings
  <1> HIDE DEF M
  <1>3. Len(M) = Len(sections) BY <1>1, FunctionIsSequence
  <1>4. LastSays(OverAll(M), x, M) BY <1>1, <1>3, OverAllSaysLast
  <1> QED BY <1>2, <1>4 DEF M

(* A request's settings lie on top, and a null takes one away.             *)
LEMMA RequestedSayLast ==
    ASSUME NEW m \in Nat, NEW M, DOMAIN M = 1..m, M = [i \in 1..m |-> M[i]],
           NEW settings, NEW asked, NEW k, LastSays(settings, k, M)
    PROVE  IF k \in DOMAIN asked /\ asked[k] = Unset
           THEN k \notin DOMAIN Requested(settings, asked)
           ELSE LastSays(Requested(settings, asked), k, Append(M, asked))
  <1> DEFINE f == Requested(settings, asked)
             over == Over(settings, asked)
             nulls == {j \in DOMAIN asked : asked[j] = Unset}
  <1>1. /\ DOMAIN f = DOMAIN over \ nulls
        /\ \A j \in DOMAIN over \ nulls : f[j] = over[j]
    BY DEF Requested
  <1>2. /\ DOMAIN over = DOMAIN settings \union DOMAIN asked
        /\ \A j \in DOMAIN over : over[j] = IF j \in DOMAIN asked THEN asked[j] ELSE settings[j]
    BY DEF Over
  <1>3. CASE k \in nulls BY <1>1, <1>3
  <1>4. CASE k \notin nulls
    <2> HIDE DEF f, over
    <2>1. CASE k \in DOMAIN asked
      <3>1. k \in DOMAIN f /\ f[k] = asked[k] BY <1>1, <1>2, <1>4, <2>1
      <3>2. LastSays(f, k, Append(M, asked)) BY <2>1, <3>1, LastOfAppend
      <3> QED BY <1>4, <3>2 DEF f
    <2>2. CASE k \notin DOMAIN asked
      <3>1. k \in DOMAIN f <=> k \in DOMAIN settings BY <1>1, <1>2, <1>4, <2>2
      <3>2. k \in DOMAIN f => f[k] = settings[k] BY <1>1, <1>2, <1>4, <2>2
      <3>3. LastSays(f, k, M) BY <3>1, <3>2 DEF LastSays
      <3>4. LastSays(f, k, Append(M, asked)) BY <2>2, <3>3, LastOfAppend
      <3> QED BY <2>2, <3>4 DEF f
    <2> QED BY <2>1, <2>2
  <1> QED BY <1>3, <1>4

(* The aliases of a new index are layered as its sections are, although    *)
(* the lists they come from are in the opposite order.                     *)
LEMMA CreatedAliases ==
    ASSUME NEW n, NEW sections, Finite(sections), NEW body \in IndexBodies, NEW lists,
           Len(lists) = Len(sections),
           \A i \in 1..Len(sections) :
              lists[i] = IF MatchingTemplates(n) # {} THEN sections[Len(sections) + 1 - i].aliases
                         ELSE WithoutFlags(sections[Len(sections) + 1 - i].aliases),
           NEW built, built.aliases = resolveIndexAliases(n, body.aliases, lists)
    PROVE  AliasesLayered(n, built, body, sections)
  <1> DEFINE m == Len(sections)
             A == [i \in 1..m |-> IF MatchingTemplates(n) # {} THEN sections[i].aliases
                                  ELSE WithoutFlags(sections[i].aliases)]
             R == [i \in 1..m |-> Resolved(Unnamed(A[i], DOMAIN body.aliases), n)]
             left(i) == Restrict(sections[i].aliases, DOMAIN sections[i].aliases \ DOMAIN body.aliases)
             layers == Append([i \in DOMAIN sections |-> Resolved(left(i), n)], body.aliases)
             f == built.aliases
  <1>1. m \in Nat /\ DOMAIN sections = 1..m BY DEF Finite
  <1>2. body.aliases = [y \in DOMAIN body.aliases |-> body.aliases[y]]
    <2>1. body.aliases \in Partial(AliasName, BOOLEAN) BY TemplateAssumption
    <2> QED BY <2>1 DEF Partial
  <1>3. \A i \in 1..m : m + 1 - i \in 1..m /\ lists[i] = A[m + 1 - i] BY <1>1
  <1>4. \A x : LastSays(f, x, Append(R, body.aliases))
    <2> DEFINE r == body.aliases
    <2>1. r = [y \in DOMAIN r |-> r[y]] BY <1>2
    <2>2. DOMAIN R = 1..m /\ R = [i \in 1..m |-> R[i]] /\ Len(lists) = m OBVIOUS
    <2>3. \A i \in 1..m : R[i] = Resolved(Unnamed(A[i], DOMAIN r), n) OBVIOUS
    <2> HIDE DEF A, m, r, R
    <2>4. \A i \in 1..m : m + 1 - i \in 1..m /\ m + 1 - (m + 1 - i) = i BY <1>1
    <2>5. \A i \in 1..m : R[i] = Resolved(Unnamed(lists[m + 1 - i], DOMAIN r), n) BY <1>3, <2>3, <2>4
    <2>6. ASSUME NEW x PROVE LastSays(resolveIndexAliases(n, r, lists), x, Append(R, r))
      BY <1>1, <2>1, <2>2, <2>5, AliasesSayLast
    <2> QED BY <2>6 DEF r
  <1>5. \A i \in 1..m : DOMAIN R[i] = DOMAIN Resolved(Unnamed(sections[i].aliases, DOMAIN body.aliases), n)
    <2>1. \A i \in 1..m : DOMAIN A[i] = DOMAIN sections[i].aliases BY DEF WithoutFlags
    <2>2. \A aliases : DOMAIN Resolved(Unnamed(aliases, DOMAIN body.aliases), n)
                          = {Resolve(b, n) : b \in DOMAIN aliases \ DOMAIN body.aliases}
      BY DEF Resolved, Unnamed
    <2>3. \A i \in 1..m : R[i] = Resolved(Unnamed(A[i], DOMAIN body.aliases), n) OBVIOUS
    <2> HIDE DEF A, R
    <2> QED BY <2>1, <2>2, <2>3
  <1> DEFINE S == [i \in DOMAIN sections |-> Resolved(Unnamed(sections[i].aliases, DOMAIN body.aliases), n)]
  <1>6. /\ DOMAIN S = 1..m /\ S = [i \in 1..m |-> S[i]]
        /\ \A i \in 1..m : S[i] = Resolved(Unnamed(sections[i].aliases, DOMAIN body.aliases), n)
    BY <1>1
  <1>7. DOMAIN R = 1..m /\ R = [i \in 1..m |-> R[i]] OBVIOUS
  <1>8. MatchingTemplates(n) # {} => R = S
    <2>1. MatchingTemplates(n) # {} => \A i \in 1..m : R[i] = S[i] BY <1>6
    <2> HIDE DEF R, S
    <2> QED BY <1>6, <1>7, <2>1
  <1>9. layers = Append(S, body.aliases)
    <2>1. \A aliases : Restrict(aliases, DOMAIN aliases \ DOMAIN body.aliases) = Unnamed(aliases, DOMAIN body.aliases)
      BY DEF Restrict, Unnamed
    <2>2. \A i \in DOMAIN sections : Resolved(left(i), n) = S[i] BY <2>1
    <2> QED BY <2>2
  <1> HIDE DEF R, S, A, layers, f
  <1>10. /\ DOMAIN layers = 1..(m + 1) /\ layers[m + 1] = body.aliases /\ \A i \in 1..m : layers[i] = S[i]
    BY <1>1, <1>6, <1>9, Appended
  <1>11. LET N == Append(R, body.aliases)
         IN DOMAIN N = 1..(m + 1) /\ N[m + 1] = body.aliases /\ \A i \in 1..m : N[i] = R[i]
    BY <1>1, <1>7, Appended
  <1>12. ASSUME NEW x PROVE x \in DOMAIN f <=> \E i \in 1..(m + 1) : x \in DOMAIN layers[i]
    <2>1. x \in DOMAIN f <=> \E i \in 1..(m + 1) : x \in DOMAIN Append(R, body.aliases)[i]
      BY <1>4, <1>11 DEF LastSays
    <2>2. \A i \in 1..(m + 1) : i \in 1..m \/ i = m + 1 BY <1>1
    <2>3. \A i \in 1..(m + 1) : DOMAIN Append(R, body.aliases)[i] = DOMAIN layers[i]
      BY <1>5, <1>6, <1>10, <1>11, <2>2
    <2> QED BY <2>1, <2>3
  <1>13. \A x : LastSays([y \in DOMAIN f |-> TRUE], x, [i \in DOMAIN layers |-> [y \in DOMAIN layers[i] |-> TRUE]])
    <2>1. m + 1 \in Nat BY <1>1
    <2> QED BY <1>10, <1>12, <2>1, SaysOfNames
  <1>14. MatchingTemplates(n) # {} => \A x : LastSays(f, x, layers) BY <1>4, <1>8, <1>9
  <1> QED BY <1>13, <1>14 DEF AliasesLayered, layers, f

(* An index that is built has the settings and aliases of its sections.    *)
LEMMA BuiltAsLayered ==
    ASSUME TemplatesTyped, NEW n, NEW body \in IndexBodies, buildIndex(n, body)
    PROVE  \E sections \in SectionsFor(n) :
              SettingsLayered(indices'[n], body, sections) /\ AliasesLayered(n, indices'[n], body, sections)
  <1>1. PICK given \in FromTemplates(n) :
           indices' = Over(indices, [x \in {n} |->
              [settings |-> Requested(given.settings, body.settings),
               aliases |-> resolveIndexAliases(n, body.aliases, given.lists)]])
    BY DEF buildIndex
  <1>2. indices'[n] = [settings |-> Requested(given.settings, body.settings),
                       aliases |-> resolveIndexAliases(n, body.aliases, given.lists)]
    BY <1>1 DEF Over
  <1>3. PICK sections \in SectionsFor(n) :
              /\ Finite(sections)
              /\ given.settings = ComposedSettings(sections)
              /\ Len(given.lists) = Len(sections)
              /\ \A i \in 1..Len(sections) :
                    given.lists[i] = IF MatchingTemplates(n) # {} THEN sections[Len(sections) + 1 - i].aliases
                                     ELSE WithoutFlags(sections[Len(sections) + 1 - i].aliases)
    BY GivenBySections
  <1>4. AliasesLayered(n, indices'[n], body, sections)
    <2>1. indices'[n].aliases = resolveIndexAliases(n, body.aliases, given.lists) BY <1>2
    <2> QED BY <1>3, <2>1, CreatedAliases
  <1>5. SettingsLayered(indices'[n], body, sections)
    <2>1. indices'[n].settings = Requested(given.settings, body.settings) BY <1>2
    <2> DEFINE M == [i \in DOMAIN sections |-> sections[i].settings]
    <2>2. DOMAIN M = 1..Len(sections) /\ M = [i \in 1..Len(sections) |-> M[i]] /\ Len(sections) \in Nat
      BY <1>3 DEF Finite
    <2>3. \A k : LastSays(given.settings, k, M) BY <1>3, ComposedSayLast
    <2> HIDE DEF M
    <2>4. \A k : IF k \in DOMAIN body.settings /\ body.settings[k] = Unset
                 THEN k \notin DOMAIN indices'[n].settings
                 ELSE LastSays(indices'[n].settings, k, Append(M, body.settings))
      BY <2>1, <2>2, <2>3, RequestedSayLast
    <2> QED BY <2>4 DEF SettingsLayered, M
  <1> QED BY <1>4, <1>5

(* A new index has the settings of the last section that mentions each, and*)
(* the aliases likewise, whatever templates there are.                     *)
THEOREM NewIndicesLayered == ITSpec => CreatedAsLayered
  <1>1. TemplatesTyped /\ [ITNext]_itVars =>
           [\A n \in DOMAIN indices' \ DOMAIN indices, body \in IndexBodies : CreateIndex(n, body) =>
              \E sections \in SectionsFor(n) : /\ SettingsLayered(indices'[n], body, sections)
                                               /\ AliasesLayered(n, indices'[n], body, sections)]_itVars
    BY BuiltAsLayered DEF CreateIndex
  <1> QED BY <1>1, TemplatesInit, TemplatesNext, PTL DEF ITSpec, CreatedAsLayered

(* A setting from legacy templates is that of a template of the highest    *)
(* order among those that have it.                                         *)
LEMMA HighestOrderSays ==
    ASSUME TemplatesTyped, NEW n, NEW chain \in LegacyChains(n), NEW k,
           NEW giver \in MatchingLegacy(n), k \in DOMAIN legacyTemplates[giver].section.settings
    PROVE  \E t \in MatchingLegacy(n) :
              /\ k \in DOMAIN legacyTemplates[t].section.settings
              /\ \A o \in MatchingLegacy(n) : k \in DOMAIN legacyTemplates[o].section.settings
                    => legacyTemplates[o].priority <= legacyTemplates[t].priority
              /\ k \in DOMAIN ComposedSettings(LegacyLayers(chain))
              /\ ComposedSettings(LegacyLayers(chain))[k] = legacyTemplates[t].section.settings[k]
  <1> DEFINE N == LegacyLayers(chain)
             M == [i \in DOMAIN N |-> N[i].settings]
             givers == {i \in DOMAIN M : k \in DOMAIN M[i]}
             f == ComposedSettings(N)
  <1>1. /\ Finite(N) /\ Finite(chain) /\ DOMAIN N = DOMAIN chain
        /\ \A i \in DOMAIN chain : chain[i] \in MatchingLegacy(n)
        /\ \A t \in MatchingLegacy(n) : \E i \in DOMAIN chain : chain[i] = t
    BY ChainsAreFinite
  <1>2. LastSays(f, k, M) BY <1>1, ComposedSayLast
  <1>3. \A i \in DOMAIN chain : M[i] = legacyTemplates[chain[i]].section.settings
    BY <1>1 DEF LegacyLayers
  <1>4. DOMAIN M = DOMAIN chain BY <1>1
  <1> HIDE DEF N, M, f
  <1>5. \A i : i \in givers <=> i \in DOMAIN chain /\ k \in DOMAIN legacyTemplates[chain[i]].section.settings
    BY <1>3, <1>4
  <1>6. givers # {} BY <1>1, <1>5
  <1>7. PICK m \in Nat : DOMAIN chain = 1..m BY <1>1 DEF Finite
  <1>8. Max(givers) \in givers /\ \A i \in givers : Max(givers) >= i
    <2>1. givers \in SUBSET (0..m) BY <1>4, <1>7
    <2> HIDE DEF givers
    <2> QED BY <1>6, <2>1, MaxIsThere
  <1>9. k \in DOMAIN f /\ f[k] = M[Max(givers)][k] BY <1>2, <1>6 DEF LastSays
  <1> HIDE DEF givers
  <1>10. PICK top \in givers : top = Max(givers) BY <1>8
  <1>11. top \in DOMAIN chain /\ chain[top] \in MatchingLegacy(n) BY <1>1, <1>5
  <1>12. ASSUME NEW o \in MatchingLegacy(n), k \in DOMAIN legacyTemplates[o].section.settings
         PROVE  legacyTemplates[o].priority <= legacyTemplates[chain[top]].priority
    <2>1. PICK i \in DOMAIN chain : chain[i] = o BY <1>1
    <2>2. i \in givers BY <1>5, <1>12, <2>1
    <2>3. i <= top BY <1>8, <1>10, <2>2
    <2>4. CASE i < top BY <1>11, <2>1, <2>4 DEF LegacyChains
    <2>5. CASE i = top
      <3>1. legacyTemplates[o].priority \in Nat
        BY TemplateAssumption DEF MatchingLegacy, TemplatesTyped, LegacyTemplate
      <3> QED BY <2>1, <2>5, <3>1
    <2> QED BY <1>7, <1>11, <2>3, <2>4, <2>5
  <1> QED BY <1>3, <1>5, <1>9, <1>10, <1>11, <1>12 DEF f, N

(* Without rivals of one order every chain gives the same value.           *)
LEMMA ChainsAgree ==
    ASSUME TemplatesTyped, NEW n, NEW one \in LegacyChains(n), NEW other \in LegacyChains(n), NEW k,
           \A t, o \in MatchingLegacy(n) : t # o => legacyTemplates[t].priority # legacyTemplates[o].priority,
           Names(ComposedSettings(LegacyLayers(one)), k)
    PROVE  Names(ComposedSettings(LegacyLayers(other)), k)
  <1>1. \E t \in MatchingLegacy(n) : k \in DOMAIN legacyTemplates[t].section.settings
    <2> DEFINE N == LegacyLayers(one)
               M == [i \in DOMAIN N |-> N[i].settings]
    <2>1. /\ Finite(N) /\ DOMAIN N = DOMAIN one
          /\ \A i \in DOMAIN one : one[i] \in MatchingLegacy(n)
      BY ChainsAreFinite
    <2>2. LastSays(ComposedSettings(N), k, M) BY <2>1, ComposedSayLast
    <2>3. \A i \in DOMAIN one : M[i] = legacyTemplates[one[i]].section.settings
      BY <2>1 DEF LegacyLayers
    <2>4. k \in DOMAIN ComposedSettings(N) BY DEF Names
    <2>5. DOMAIN M = DOMAIN one BY <2>1
    <2> HIDE DEF N, M
    <2>6. {i \in DOMAIN M : k \in DOMAIN M[i]} # {} BY <2>2, <2>4 DEF LastSays
    <2> QED BY <2>1, <2>3, <2>5, <2>6
  <1>2. \A t \in MatchingLegacy(n) : legacyTemplates[t].priority \in Nat
    BY TemplateAssumption DEF MatchingLegacy, TemplatesTyped, LegacyTemplate
  <1> DEFINE Top(t) == /\ k \in DOMAIN legacyTemplates[t].section.settings
                       /\ \A o \in MatchingLegacy(n) : k \in DOMAIN legacyTemplates[o].section.settings
                             => legacyTemplates[o].priority <= legacyTemplates[t].priority
  <1>3. PICK t \in MatchingLegacy(n) :
           Top(t) /\ ComposedSettings(LegacyLayers(one))[k] = legacyTemplates[t].section.settings[k]
    BY <1>1, HighestOrderSays
  <1>4. PICK o \in MatchingLegacy(n) :
           /\ Top(o) /\ k \in DOMAIN ComposedSettings(LegacyLayers(other))
           /\ ComposedSettings(LegacyLayers(other))[k] = legacyTemplates[o].section.settings[k]
    BY <1>1, HighestOrderSays
  <1>5. t = o
    <2>1. legacyTemplates[t].priority <= legacyTemplates[o].priority BY <1>3, <1>4
    <2>2. legacyTemplates[o].priority <= legacyTemplates[t].priority BY <1>3, <1>4
    <2>3. legacyTemplates[o].priority = legacyTemplates[t].priority BY <1>2, <2>1, <2>2
    <2> QED BY <2>3
  <1> QED BY <1>3, <1>4, <1>5 DEF Names

(* A component that names no pipeline leaves it to its template.           *)
LEMMA OwnSectionNames ==
    ASSUME TemplatesTyped, NEW t \in DOMAIN templates, NEW k,
           \A c \in Range(templates[t].composedOf) \intersect DOMAIN componentTemplates :
              ~Names(componentTemplates[c].settings, k),
           Names(ComposedSettings(Layers(templates[t])), k)
    PROVE  Names(templates[t].section.settings, k)
  <1> DEFINE T == templates[t]
             front == [i \in DOMAIN T.composedOf |-> IF T.composedOf[i] \in DOMAIN componentTemplates
                                                     THEN componentTemplates[T.composedOf[i]]
                                                     ELSE EmptyBody]
             N == Layers(T)
             M == [i \in DOMAIN N |-> N[i].settings]
             givers == {i \in DOMAIN M : k \in DOMAIN M[i]}
             f == ComposedSettings(N)
  <1>1. T \in ComposableTemplate BY DEF TemplatesTyped
  <1>2. T.composedOf \in Seq(ComponentName) BY <1>1 DEF ComposableTemplate
  <1>3. PICK m \in Nat : DOMAIN T.composedOf = 1..m BY <1>2
  <1>4. DOMAIN front = 1..m /\ front = [i \in 1..m |-> front[i]] BY <1>3
  <1>5. N = Append(front, T.section) BY DEF Layers
  <1>6. LastSays(f, k, M) BY <1>1, LayersAreFinite, ComposedSayLast
  <1>7. \A i \in 1..m : k \in DOMAIN front[i].settings => front[i].settings[k] = NoPipeline
    <2> SUFFICES ASSUME NEW i \in 1..m, k \in DOMAIN front[i].settings
                 PROVE  front[i].settings[k] = NoPipeline
      OBVIOUS
    <2>1. T.composedOf[i] \in Range(T.composedOf) BY <1>3 DEF Range
    <2>2. CASE T.composedOf[i] \in DOMAIN componentTemplates
      <3>1. front[i] = componentTemplates[T.composedOf[i]] BY <1>3, <2>2
      <3> QED BY <2>1, <2>2, <3>1 DEF Names
    <2>3. CASE T.composedOf[i] \notin DOMAIN componentTemplates
      <3>1. front[i] = EmptyBody BY <1>3, <2>3
      <3>2. DOMAIN <<>> = {} OBVIOUS
      <3> QED BY <3>1, <3>2 DEF EmptyBody
    <2> QED BY <2>2, <2>3
  <1> HIDE DEF front
  <1>8. DOMAIN N = 1..(m + 1) /\ N[m + 1] = T.section /\ \A i \in 1..m : N[i] = front[i]
    BY <1>4, <1>5, Appended
  <1> HIDE DEF N
  <1>9. DOMAIN M = 1..(m + 1) /\ M[m + 1] = T.section.settings /\ \A i \in 1..m : M[i] = front[i].settings
    BY <1>8
  <1> HIDE DEF M, f
  <1>10. k \in DOMAIN f /\ f[k] # NoPipeline BY DEF f, N, Names
  <1>11. givers # {} /\ f[k] = M[Max(givers)][k] BY <1>6, <1>10 DEF LastSays
  <1>12. Max(givers) \in givers
    <2>1. givers \in SUBSET (0..(m + 1)) BY <1>9
    <2>2. givers # {} BY <1>11
    <2>3. m + 1 \in Nat BY <1>3
    <2> HIDE DEF givers
    <2> QED BY <2>1, <2>2, <2>3, MaxIsThere
  <1>13. Max(givers) = m + 1
    <2>1. Max(givers) \in 1..(m + 1) /\ k \in DOMAIN M[Max(givers)] BY <1>9, <1>12
    <2>2. Max(givers) \notin 1..m BY <1>7, <1>9, <1>10, <1>11, <2>1
    <2> QED BY <2>1, <2>2
  <1> QED BY <1>9, <1>10, <1>11, <1>12, <1>13 DEF Names

(* The write that creates an index saw the pipelines the index got.        *)
LEMMA Foreseen ==
    ASSUME TemplatesTyped, NEW n, NEW requested, IndexDoc(n, requested), PlainTemplates(n)
    PROVE  ~pipelineFailure(indices'[n].settings, requested)
  <1>1. PICK settings \in writeIndexSettings(n) : ~pipelineFailure(settings, requested) BY DEF IndexDoc
  <1>2. n \notin DOMAIN indices /\ buildIndex(n, EmptyBody) BY DEF IndexDoc
  <1>3. PICK given \in FromTemplates(n) :
           indices' = Over(indices, [x \in {n} |->
              [settings |-> Requested(given.settings, EmptyBody.settings),
               aliases |-> resolveIndexAliases(n, EmptyBody.aliases, given.lists)]])
    BY <1>2 DEF buildIndex
  <1>4. indices'[n].settings = Requested(given.settings, <<>>)
    <2>1. indices'[n] = [settings |-> Requested(given.settings, EmptyBody.settings),
                         aliases |-> resolveIndexAliases(n, EmptyBody.aliases, given.lists)]
      BY <1>3 DEF Over
    <2> QED BY <2>1 DEF EmptyBody
  <1>5. \A k : Names(Requested(given.settings, <<>>), k) => Names(given.settings, k)
    <2>1. DOMAIN <<>> = {} OBVIOUS
    <2> QED BY <2>1 DEF Names, Requested, Over
  <1>6. ASSUME NEW k \in {DefaultPipeline, FinalPipeline}, Names(given.settings, k)
        PROVE  Names(settings, k)
    <2>1. CASE MatchingTemplates(n) # {}
      <3>1. PICK t \in matchingComposableTemplate(n) : given.settings = ComposedSettings(Layers(templates[t]))
        BY <2>1 DEF FromTemplates
      <3>2. PICK u \in Highest(MatchingTemplates(n)) : settings = templates[u].section.settings
        BY <1>2, <2>1 DEF writeIndexSettings
      <3>3. t \in Highest(MatchingTemplates(n)) BY DEF matchingComposableTemplate
      <3>4. t = u
        <4>1. Highest(MatchingTemplates(n)) \in SUBSET DOMAIN templates BY DEF Highest, MatchingTemplates
        <4>2. IsFiniteSet(Highest(MatchingTemplates(n))) BY <4>1, FS_Subset DEF TemplatesTyped
        <4>3. Cardinality(Highest(MatchingTemplates(n))) \in Nat BY <4>2, FS_CardinalityType
        <4>4. Cardinality(Highest(MatchingTemplates(n))) # 0 BY <3>3, <4>2, FS_EmptySet
        <4>5. Cardinality(Highest(MatchingTemplates(n))) = 1 BY <4>3, <4>4 DEF PlainTemplates
        <4>6. \E x : Highest(MatchingTemplates(n)) = {x} BY <4>2, <4>5, FS_Singleton
        <4> QED BY <3>3, <4>6
      <3>5. t \in DOMAIN templates BY DEF matchingComposableTemplate, Highest, MatchingTemplates
      <3>6. \A c \in Range(templates[t].composedOf) \intersect DOMAIN componentTemplates :
               ~Names(componentTemplates[c].settings, k)
        BY <3>3 DEF PlainTemplates
      <3>7. Names(ComposedSettings(Layers(templates[t])), k) BY <1>6, <3>1
      <3> QED BY <3>2, <3>4, <3>5, <3>6, <3>7, OwnSectionNames
    <2>2. CASE MatchingTemplates(n) = {}
      <3>1. PICK one \in LegacyChains(n) : given.settings = ComposedSettings(LegacyLayers(one))
        BY <2>2 DEF FromTemplates
      <3>2. PICK other \in LegacyChains(n) : settings = ComposedSettings(LegacyLayers(other))
        BY <1>2, <2>2 DEF writeIndexSettings
      <3>3. \A t, o \in MatchingLegacy(n) : t # o => legacyTemplates[t].priority # legacyTemplates[o].priority
        BY DEF PlainTemplates
      <3> QED BY <1>6, <3>1, <3>2, <3>3, ChainsAgree
    <2> QED BY <2>1, <2>2
  <1> QED BY <1>1, <1>4, <1>5, <1>6 DEF pipelineFailure

(* The write that creates an index runs through no pipeline that the next  *)
(* one is refused for.                                                     *)
THEOREM WritesForesee == ITSpec => PipelinesForeseen
  <1>1. TemplatesTyped /\ [ITNext]_itVars =>
           [\A n \in DOMAIN indices' \ DOMAIN indices, requested \in {Unset, NoPipeline} :
              (IndexDoc(n, requested) /\ PlainTemplates(n))
                 => ~pipelineFailure(indices'[n].settings, requested)]_itVars
    BY Foreseen
  <1> QED BY <1>1, TemplatesInit, TemplatesNext, PTL DEF ITSpec, PipelinesForeseen

=============================================================================
