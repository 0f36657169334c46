------------------------- MODULE CommandQueueProofs -------------------------
(***************************************************************************)
(* Proofs about CommandQueue, for every set of lanes and waiters and every *)
(* bound.                                                                  *)
(***************************************************************************)
EXTENDS CommandQueue, FiniteSetTheorems, SequenceTheorems,
        WellFoundedInduction, TLAPS

----------------------------------------------------------------------------
(* One lane's queue                                                        *)

\* The queue q of one lane, in the order QueueSorted asks of every lane.
SortedSeq(e, q) == \A m, n \in 1..Len(q) : m < n => Behind(e, q[n], q[m])

\* Every id of q has an entry.
HasEntries(e, q) == \A k \in 1..Len(q) : q[k] \in 1..Len(e)

\* A nonempty set of naturals has a least member.
LEMMA LeastNatural ==
    ASSUME NEW S \in SUBSET Nat, S # {}
    PROVE  \E n \in S : \A m \in S : n <= m
<1>1. PICK n \in S : \A m \in S : ~(<<m, n>> \in OpToRel(<, Nat))
  BY NatLessThanWellFounded, WFMin
<1>2. \A m \in S : ~(m < n)
  BY <1>1 DEF OpToRel
<1> QED BY <1>2

\* findIndex always has an answer: the first entry the new one goes before,
\* or the end of the queue.
LEMMA InsertIndexFacts ==
    ASSUME NEW e, NEW q, Len(q) \in Nat, NEW i
    PROVE  LET x == InsertIndex(e, q, i)
           IN  /\ x \in 1..(Len(q) + 1)
               /\ x = Len(q) + 1 \/ Behind(e, q[x], i)
               /\ \A n \in 1..(x - 1) : ~Behind(e, q[n], i)
<1> DEFINE S == {k \in 1..(Len(q) + 1) : k = Len(q) + 1 \/ Behind(e, q[k], i)}
<1>1. Len(q) + 1 \in S /\ S \in SUBSET Nat
  OBVIOUS
<1>2. PICK k \in S : \A m \in S : k <= m
  BY <1>1, LeastNatural
<1>3. \A n \in 1..(k - 1) : ~Behind(e, q[n], i)
  BY <1>2
<1>4. /\ k \in 1..(Len(q) + 1)
      /\ k = Len(q) + 1 \/ Behind(e, q[k], i)
      /\ \A n \in 1..(k - 1) : ~Behind(e, q[n], i)
  BY <1>2, <1>3
<1> QED BY <1>4 DEF InsertIndex

\* What enqueueLaneEntry leaves: the old queue with the new id spliced in.
LEMMA InsertEntryFacts ==
    ASSUME NEW e, NEW q \in Seq(Ids), NEW i \in Ids
    PROVE  LET x == InsertIndex(e, q, i)
               r == InsertEntry(e, q, i)
           IN  /\ x \in 1..(Len(q) + 1)
               /\ r \in Seq(Ids)
               /\ Len(r) = Len(q) + 1
               /\ \A k \in 1..Len(r) : r[k] = IF k < x THEN q[k]
                                              ELSE IF k = x THEN i ELSE q[k - 1]
<1> DEFINE x == InsertIndex(e, q, i)
           front == SubSeq(q, 1, x - 1)
           back == SubSeq(q, x, Len(q))
           r == InsertEntry(e, q, i)
<1>1. Len(q) \in Nat /\ \A k \in 1..Len(q) : q[k] \in Ids
  BY LenProperties, ElementOfSeq
<1>2. x \in 1..(Len(q) + 1)
  BY <1>1, InsertIndexFacts
<1> HIDE DEF x
<1>3. /\ front \in Seq(Ids)
      /\ Len(front) = x - 1
      /\ \A k \in 1..(x - 1) : front[k] = q[k]
  BY <1>1, <1>2, SubSeqProperties
<1>4. /\ back \in Seq(Ids)
      /\ Len(back) = Len(q) - x + 1
      /\ \A k \in 1..(Len(q) - x + 1) : back[k] = q[x + k - 1]
  BY <1>1, <1>2, SubSeqProperties
<1>5. <<i>> \in Seq(Ids) /\ Len(<<i>>) = 1 /\ <<i>>[1] = i
  OBVIOUS
<1> HIDE DEF front, back
<1> DEFINE f == front \o <<i>>
<1>6. /\ f \in Seq(Ids)
      /\ Len(f) = x
      /\ \A k \in 1..x : f[k] = IF k < x THEN q[k] ELSE i
  BY <1>2, <1>3, <1>5, ConcatProperties
<1>7. r = f \o back
  BY DEF InsertEntry, InsertAt, front, back, x
<1> HIDE DEF r, f
<1>8. /\ r \in Seq(Ids)
      /\ Len(r) = Len(f) + Len(back)
      /\ \A k \in 1..(Len(f) + Len(back)) :
            r[k] = IF k <= Len(f) THEN f[k] ELSE back[k - Len(f)]
  BY <1>4, <1>6, <1>7, ConcatProperties
<1>9. Len(r) = Len(q) + 1
  BY <1>1, <1>2, <1>4, <1>6, <1>8
<1>10. ASSUME NEW k \in 1..Len(r)
       PROVE  r[k] = IF k < x THEN q[k] ELSE IF k = x THEN i ELSE q[k - 1]
  <2>1. CASE k <= x
    <3>1. r[k] = f[k]
      BY <2>1, <1>1, <1>2, <1>4, <1>6, <1>8
    <3> QED BY <3>1, <2>1, <1>2, <1>6
  <2>2. CASE k > x
    <3>1. k - x \in 1..(Len(q) - x + 1)
      BY <2>2, <1>1, <1>2, <1>9
    <3>2. r[k] = back[k - x]
      BY <2>2, <1>1, <1>2, <1>4, <1>6, <1>8
    <3>3. back[k - x] = q[x + (k - x) - 1]
      BY <3>1, <1>4
    <3> QED BY <3>2, <3>3, <2>2, <1>2
  <2> QED BY <2>1, <2>2, <1>1, <1>2, <1>9
<1> QED BY <1>2, <1>8, <1>9, <1>10 DEF x, r


(* The entries waiting in a sequence are the values it takes. *)
LEMMA MembersOfSeq ==
    ASSUME NEW S, NEW q \in Seq(S)
    PROVE  \A x : x \in ToSet(q) <=> \E k \in 1..Len(q) : q[k] = x
BY LenProperties DEF ToSet

(* Insertion adds the new entry to the waiting ones and drops none. *)
LEMMA InsertEntryMembers ==
    ASSUME NEW e, NEW q \in Seq(Ids), NEW i \in Ids
    PROVE  \A y : y \in ToSet(InsertEntry(e, q, i)) <=> y = i \/ y \in ToSet(q)
<1> DEFINE r == InsertEntry(e, q, i)
           x == InsertIndex(e, q, i)
<1>1. /\ x \in 1..(Len(q) + 1) /\ r \in Seq(Ids) /\ Len(r) = Len(q) + 1
      /\ \A k \in 1..Len(r) : r[k] = IF k < x THEN q[k]
                                     ELSE IF k = x THEN i ELSE q[k - 1]
  BY InsertEntryFacts
<1>2. Len(q) \in Nat
  BY LenProperties
<1> HIDE DEF r, x
<1>3. ASSUME NEW k \in 1..Len(q)
      PROVE  \E j \in 1..Len(r) : r[j] = q[k]
  <2>1. CASE k < x
    BY <2>1, <1>1, <1>2
  <2>2. CASE k >= x
    <3>1. k + 1 \in 1..Len(r) /\ r[k + 1] = q[(k + 1) - 1] /\ (k + 1) - 1 = k
      BY <2>2, <1>1, <1>2
    <3> QED BY <3>1
  <2> QED BY <2>1, <2>2, <1>1, <1>2
<1>4. ASSUME NEW j \in 1..Len(r)
      PROVE  r[j] = i \/ \E k \in 1..Len(q) : r[j] = q[k]
  <2>0. j \in Nat /\ x \in Nat
    BY <1>1, <1>2
  <2>1. CASE j < x
    <3>1. j \in 1..Len(q) /\ r[j] = q[j]
      BY <2>1, <1>1, <1>2
    <3> QED BY <3>1
  <2>2. CASE j > x
    <3>1. j - 1 \in 1..Len(q) /\ r[j] = q[j - 1]
      BY <2>2, <1>1, <1>2
    <3> QED BY <3>1
  <2>3. CASE j = x
    BY <2>3, <1>1
  <2> QED BY <2>0, <2>1, <2>2, <2>3
<1>5. r[x] = i /\ x \in 1..Len(r)
  BY <1>1, <1>2
<1>6. \A y : y \in ToSet(r) <=> \E k \in 1..Len(r) : r[k] = y
  BY <1>1, MembersOfSeq
<1>7. \A y : y \in ToSet(q) <=> \E k \in 1..Len(q) : q[k] = y
  BY MembersOfSeq
<1> QED BY <1>3, <1>4, <1>5, <1>6, <1>7 DEF r

(* Priorities are integers, so they can be compared. *)
LEMMA PriorityIsInt ==
    ASSUME NEW e \in Seq(EntryType), NEW j \in 1..Len(e)
    PROVE  e[j].priority \in Int
<1>1. e[j] \in EntryType
  BY ElementOfSeq
<1> QED BY <1>1, ConstantsAssumption DEF EntryType

(* The waiting order is transitive on entries of the model. *)
LEMMA BehindTransitive ==
    ASSUME NEW e, NEW i \in Int, NEW j \in Int, NEW k \in Int,
           e[i].priority \in Int, e[j].priority \in Int, e[k].priority \in Int,
           Behind(e, k, j), Behind(e, j, i)
    PROVE  Behind(e, k, i)
<1>1. \A x, y, z \in Int : (x < y \/ (x = y /\ k > j)) /\ (y < z \/ (y = z /\ j > i))
                              => (x < z \/ (x = z /\ k > i))
  OBVIOUS
<1> QED BY <1>1 DEF Behind

\* Splicing in an id newer than every queued one keeps the queue sorted.
LEMMA InsertKeepsSorted ==
    ASSUME NEW e \in Seq(EntryType), NEW q \in Seq(Ids), NEW i \in Ids,
           i <= Len(e), HasEntries(e, q), SortedSeq(e, q),
           \A k \in 1..Len(q) : q[k] < i
    PROVE  SortedSeq(e, InsertEntry(e, q, i))
<1> DEFINE x == InsertIndex(e, q, i)
           r == InsertEntry(e, q, i)
<1>0. Len(q) \in Nat /\ Len(e) \in Nat
  BY LenProperties
<1>1. /\ x \in 1..(Len(q) + 1)
      /\ x = Len(q) + 1 \/ Behind(e, q[x], i)
      /\ \A n \in 1..(x - 1) : ~Behind(e, q[n], i)
  BY <1>0, InsertIndexFacts
<1>2. /\ Len(r) = Len(q) + 1
      /\ \A k \in 1..Len(r) : r[k] = IF k < x THEN q[k]
                                     ELSE IF k = x THEN i ELSE q[k - 1]
  BY InsertEntryFacts
<1>3. \A j \in 1..Len(e) : e[j].priority \in Int
  BY PriorityIsInt
<1>4. \A k \in 1..Len(q) : q[k] \in Nat /\ e[q[k]].priority \in Int
  BY <1>3, <1>0 DEF HasEntries
<1>5. i \in Nat /\ e[i].priority \in Int
  BY <1>3, <1>0 DEF Ids
<1> HIDE DEF x, r
<1>6. ASSUME NEW m \in 1..Len(r), NEW n \in 1..Len(r), m < n
      PROVE  Behind(e, r[n], r[m])
  <2>0. m \in Nat /\ n \in Nat /\ x \in Nat
    BY <1>0, <1>1, <1>2
  <2>1. CASE n < x
    <3>1. r[m] = q[m] /\ r[n] = q[n] /\ m \in 1..Len(q) /\ n \in 1..Len(q)
      BY <2>1, <1>0, <1>1, <1>2, <1>6
    <3> QED BY <3>1, <1>6 DEF SortedSeq
  <2>2. CASE n = x
    <3>1. r[m] = q[m] /\ r[n] = i /\ m \in 1..(x - 1) /\ m \in 1..Len(q)
      BY <2>2, <1>0, <1>1, <1>2, <1>6
    <3>2. ~Behind(e, q[m], i) /\ q[m] < i
      BY <3>1, <1>1
    <3> QED BY <3>1, <3>2, <1>4, <1>5 DEF Behind
  <2>3. CASE n > x /\ m = x
    <3>1. r[m] = i /\ r[n] = q[n - 1] /\ n - 1 \in 1..Len(q) /\ x \in 1..Len(q) /\ x <= n - 1
      BY <2>3, <1>0, <1>1, <1>2
    <3>2. Behind(e, q[x], i)
      BY <3>1, <1>0, <1>1
    <3>3. n - 1 = x \/ Behind(e, q[n - 1], q[x])
      BY <3>1, <1>0 DEF SortedSeq
    <3>4. CASE n - 1 = x
      BY <3>1, <3>2, <3>4
    <3>5. CASE Behind(e, q[n - 1], q[x])
      <4>1. /\ q[x] \in Nat /\ e[q[x]].priority \in Int
            /\ q[n - 1] \in Nat /\ e[q[n - 1]].priority \in Int
        BY <3>1, <1>4
      <4>2. Behind(e, q[n - 1], i)
        <5> DEFINE y == q[x]
                   z == q[n - 1]
        <5>1. /\ y \in Int /\ z \in Int /\ i \in Int
              /\ e[y].priority \in Int /\ e[z].priority \in Int /\ e[i].priority \in Int
          BY <4>1, <1>5
        <5>2. Behind(e, z, y) /\ Behind(e, y, i)
          BY <3>2, <3>5
        <5> HIDE DEF y, z
        <5>3. Behind(e, z, i)
          BY <5>1, <5>2, BehindTransitive
        <5> QED BY <5>3 DEF z
      <4> QED BY <3>1, <4>2
    <3> QED BY <3>3, <3>4, <3>5
  <2>4. CASE n > x /\ m < x
    <3>1. r[m] = q[m] /\ r[n] = q[n - 1] /\ n - 1 \in 1..Len(q) /\ m \in 1..Len(q) /\ m < n - 1
      BY <2>4, <1>0, <1>1, <1>2
    <3> QED BY <3>1 DEF SortedSeq
  <2>5. CASE n > x /\ m > x
    <3>1. r[m] = q[m - 1] /\ r[n] = q[n - 1] /\ n - 1 \in 1..Len(q) /\ m - 1 \in 1..Len(q)
      BY <2>5, <1>0, <1>1, <1>2
    <3> QED BY <3>1, <1>6, SMTT(20) DEF SortedSeq
  <2> QED BY <2>0, <2>1, <2>2, <2>3, <2>4, <2>5
<1> QED BY <1>6 DEF SortedSeq, r

----------------------------------------------------------------------------
(* The pump on one lane                                                    *)

(* A set of entry identifiers is finite and counted by a natural. *)
LEMMA SlotsFinite ==
    ASSUME NEW a \in SUBSET Ids
    PROVE  IsFiniteSet(a) /\ Cardinality(a) \in Nat
<1>1. IsFiniteSet(Ids)
  BY FS_Interval, ConstantsAssumption DEF Ids
<1>2. IsFiniteSet(a)
  BY <1>1, FS_Subset
<1> QED BY <1>2, FS_CardinalityType

\* The pump takes a prefix and leaves the rest; when it leaves anything, it
\* has used all the room there was.
LEMMA PumpFacts ==
    ASSUME NEW q \in Seq(Ids), NEW a \in SUBSET Ids, NEW m \in Nat
    PROVE  LET t == Taken(q, a, m)
               r == Remaining(q, a, m)
           IN  /\ Len(q) \in Nat
               /\ t \in 0..Len(q)
               /\ t <= Room(a, m)
               /\ t < Len(q) => t = Room(a, m)
               /\ Room(a, m) \in Nat
               /\ Started(q, a, m) \in SUBSET Ids
               /\ r \in Seq(Ids)
               /\ Len(r) = Len(q) - t
               /\ \A k \in 1..Len(r) : r[k] = q[k + t] /\ k + t \in 1..Len(q)
<1> DEFINE t == Taken(q, a, m)
           r == Remaining(q, a, m)
<1>1. Len(q) \in Nat /\ \A k \in 1..Len(q) : q[k] \in Ids
  BY LenProperties, ElementOfSeq
<1>2. Cardinality(a) \in Nat
  BY SlotsFinite
<1>3. Room(a, m) \in Nat
  BY <1>2 DEF Room
<1>4. t \in 0..Len(q) /\ t <= Room(a, m) /\ (t < Len(q) => t = Room(a, m))
  BY <1>1, <1>3 DEF Taken
<1>5. Started(q, a, m) \in SUBSET Ids
  BY <1>1, <1>4 DEF Started
<1> HIDE DEF t
<1>6. /\ SubSeq(q, t + 1, Len(q)) \in Seq(Ids)
      /\ Len(SubSeq(q, t + 1, Len(q))) = IF t + 1 <= Len(q) THEN Len(q) - (t + 1) + 1 ELSE 0
      /\ \A k \in 1..(Len(q) - (t + 1) + 1) :
            SubSeq(q, t + 1, Len(q))[k] = q[(t + 1) + k - 1]
  <2>1. \A k \in (t + 1)..Len(q) : q[k] \in Ids
    BY <1>1, <1>4
  <2> QED BY <2>1, <1>1, <1>4, SubSeqProperties
<1>7. r = SubSeq(q, t + 1, Len(q))
  BY DEF Remaining, t
<1> HIDE DEF r
<1>8. Len(r) = Len(q) - t
  BY <1>1, <1>4, <1>6, <1>7
<1>9. \A k \in 1..Len(r) : r[k] = q[k + t] /\ k + t \in 1..Len(q)
  BY <1>1, <1>4, <1>6, <1>7, <1>8, SMTT(20)
<1>10. r \in Seq(Ids)
  BY <1>6, <1>7
<1> QED BY <1>1, <1>3, <1>4, <1>5, <1>8, <1>9, <1>10 DEF t, r

\* A sorted queue never holds an id twice.
LEMMA SortedIsInjective ==
    ASSUME NEW e \in Seq(EntryType), NEW q \in Seq(Ids), HasEntries(e, q), SortedSeq(e, q),
           NEW m \in 1..Len(q), NEW n \in 1..Len(q), q[m] = q[n]
    PROVE  m = n
<1>1. Len(q) \in Nat /\ Len(e) \in Nat
  BY LenProperties
<1>2. q[m] \in Nat /\ e[q[m]].priority \in Int
  BY <1>1, PriorityIsInt DEF HasEntries
<1>3. ~Behind(e, q[m], q[m])
  BY <1>2 DEF Behind
<1> QED BY <1>1, <1>3 DEF SortedSeq

\* The pump fills exactly the slots it hands out.
LEMMA PumpCardinality ==
    ASSUME NEW e \in Seq(EntryType), NEW q \in Seq(Ids), NEW a \in SUBSET Ids, NEW m \in Nat,
           HasEntries(e, q), SortedSeq(e, q),
           \A k \in 1..Len(q) : q[k] \notin a
    PROVE  Cardinality(a \cup Started(q, a, m)) = Cardinality(a) + Taken(q, a, m)
<1> DEFINE t == Taken(q, a, m)
           S == Started(q, a, m)
           f == [k \in 1..t |-> q[k]]
<1>1. t \in 0..Len(q) /\ Len(q) \in Nat /\ S \in SUBSET Ids
  BY PumpFacts
<1>2. f \in Bijection(1..t, S)
  <2>1. f \in [1..t -> S] /\ \A y \in S : \E k \in 1..t : f[k] = y
    BY DEF Started
  <2>2. \A j, k \in 1..t : f[j] = f[k] => j = k
    BY <1>1, SortedIsInjective
  <2> QED BY <2>1, <2>2 DEF Bijection, Injection, Surjection, IsInjective
<1>3. Cardinality(S) = t
  <2>1. ExistsBijection(1..t, S)
    BY <1>2 DEF ExistsBijection
  <2>2. IsFiniteSet(1..t) /\ Cardinality(1..t) = t
    BY <1>1, FS_Interval, SMTT(20)
  <2> QED BY <2>1, <2>2, FS_Bijection
<1>4. a \cap S = {}
  BY <1>1 DEF Started
<1>5. /\ IsFiniteSet(a) /\ Cardinality(a) \in Nat
      /\ IsFiniteSet(S) /\ Cardinality(S) \in Nat
  BY <1>1, SlotsFinite
<1> HIDE DEF S, t
<1>6. Cardinality(a \cup S) = Cardinality(a) + Cardinality(S) - Cardinality({})
  BY <1>4, <1>5, FS_Union
<1>7. Cardinality({}) = 0
  BY FS_EmptySet
<1> QED BY <1>3, <1>5, <1>6, <1>7 DEF S, t

----------------------------------------------------------------------------
(* The inductive invariant.  Its parts are stated of explicit lane and task *)
(* contents, so that they can be asserted of the values an action hands to  *)
(* drainLane as well as of the state itself.                                *)

Typed(q, a, m, g, n, e, b, tg, p) ==
    /\ q \in [Lanes -> Seq(Ids)]
    /\ a \in [Lanes -> SUBSET Ids]
    /\ m \in [Lanes -> Nat]
    /\ g \in [Lanes -> Nat]
    /\ n \in 1..(MaxEntries + 1)
    /\ e \in Seq(EntryType)
    /\ Len(e) = n - 1
    /\ b \in [Ids -> BodyStates]
    /\ tg \in [Ids -> Nat]
    /\ p \in [Ids -> PromiseStates]

\* Sequence numbers not handed out yet are untouched.
Fresh(n, b, tg, p) ==
    \A i \in Ids : i >= n => b[i] = "none" /\ tg[i] = 0 /\ p[i] = "none"

\* No task was started under a generation its lane has yet to reach, so a
\* reset leaves no task under the new generation.
GenerationBound(g, n, e, tg) == \A i \in Ids : i < n => tg[i] <= g[e[i].lane]

Slots(a, g, n, e, b, tg) ==
    \A l \in Lanes : \A i \in Ids :
        i \in a[l] <=> i < n /\ e[i].lane = l /\ b[i] = "running" /\ tg[i] = g[l]

Queued(q, n, e, b) ==
    \A l \in Lanes : \A i \in ToSet(q[l]) : i < n /\ e[i].lane = l /\ b[i] = "none"

Held(q, b, p) ==
    \A i \in Ids : p[i] = "pending" <=> b[i] = "running" \/ \E l \in Lanes : i \in ToSet(q[l])

Sorted(q, e) == \A l \in Lanes : SortedSeq(e, q[l])

Busy(L, q, a, m) == \A l \in L : q[l] # <<>> => Cardinality(a[l]) >= m[l]

Core(q, a, m, g, n, e, b, tg, p) ==
    /\ Typed(q, a, m, g, n, e, b, tg, p)
    /\ Fresh(n, b, tg, p)
    /\ GenerationBound(g, n, e, tg)
    /\ Slots(a, g, n, e, b, tg)
    /\ Queued(q, n, e, b)
    /\ Held(q, b, p)
    /\ Sorted(q, e)

\* Queued ids have entries, run nowhere and hold no slot.
LEMMA QueuedIds ==
    ASSUME NEW q, NEW a, NEW m, NEW g, NEW n, NEW e, NEW b, NEW tg, NEW p,
           Core(q, a, m, g, n, e, b, tg, p), NEW l \in Lanes
    PROVE  /\ q[l] \in Seq(Ids) /\ a[l] \in SUBSET Ids /\ m[l] \in Nat /\ g[l] \in Nat
           /\ HasEntries(e, q[l])
           /\ SortedSeq(e, q[l])
           /\ \A k \in 1..Len(q[l]) : /\ q[l][k] \in Ids
                                      /\ q[l][k] < n
                                      /\ e[q[l][k]].lane = l
                                      /\ b[q[l][k]] = "none"
                                      /\ q[l][k] \in ToSet(q[l])
                                      /\ q[l][k] \notin a[l]
<1>1. q[l] \in Seq(Ids) /\ a[l] \in SUBSET Ids /\ m[l] \in Nat /\ g[l] \in Nat
  BY DEF Core, Typed
<1>2. ASSUME NEW k \in 1..Len(q[l])
      PROVE  /\ q[l][k] \in Ids
             /\ q[l][k] \in ToSet(q[l])
  BY <1>1, ElementOfSeq, MembersOfSeq
<1>3. ASSUME NEW k \in 1..Len(q[l])
      PROVE  /\ q[l][k] < n
             /\ e[q[l][k]].lane = l
             /\ b[q[l][k]] = "none"
  BY <1>2 DEF Core, Queued
<1>4. ASSUME NEW k \in 1..Len(q[l])
      PROVE  q[l][k] \notin a[l]
  BY <1>2, <1>3 DEF Core, Slots
<1>5. n \in Nat /\ Len(e) = n - 1
  BY ConstantsAssumption DEF Core, Typed
<1>6. HasEntries(e, q[l])
  BY <1>2, <1>3, <1>5 DEF HasEntries, Ids
<1>7. SortedSeq(e, q[l])
  BY DEF Core, Sorted
<1> QED BY <1>1, <1>2, <1>3, <1>4, <1>6, <1>7

\* drainLane keeps the core invariant and leaves no pumped lane with both a
\* backlog and a free slot; it exceeds no limit by what it starts.
LEMMA DrainKeepsCore ==
    ASSUME NEW L \in SUBSET Lanes,
           NEW q, NEW a, NEW m, NEW g, NEW n, NEW e, NEW b, NEW p,
           Core(q, a, m, g, n, e, b, taskGeneration, p),
           Busy(Lanes \ L, q, a, m),
           DrainLanes(L, q, a, m, g, e, b)
    PROVE  /\ Core(queue', active', m, g, n, e, body', taskGeneration', p)
           /\ Busy(Lanes, queue', active', m)
           /\ \A l \in Lanes : a[l] \subseteq active'[l]
           /\ \A l \in Lanes : active'[l] # a[l] => Cardinality(active'[l]) <= m[l]
<1> DEFINE t(l) == Taken(q[l], a[l], m[l])
           st(l) == IF l \in L THEN Started(q[l], a[l], m[l]) ELSE {}
<1>1. /\ queue' = [l \in Lanes |-> IF l \in L THEN Remaining(q[l], a[l], m[l]) ELSE q[l]]
      /\ active' = [l \in Lanes |-> a[l] \cup st(l)]
      /\ body' = [i \in Ids |-> IF \E l \in L : i \in st(l) THEN "running" ELSE b[i]]
      /\ taskGeneration' = [i \in Ids |-> IF \E l \in L : i \in st(l) THEN g[e[i].lane]
                                          ELSE taskGeneration[i]]
  BY DEF DrainLanes
<1>2. Typed(q, a, m, g, n, e, b, taskGeneration, p)
  BY DEF Core
<1>3. ASSUME NEW l \in Lanes
      PROVE  /\ q[l] \in Seq(Ids) /\ a[l] \in SUBSET Ids /\ m[l] \in Nat /\ g[l] \in Nat
             /\ HasEntries(e, q[l])
             /\ SortedSeq(e, q[l])
             /\ \A k \in 1..Len(q[l]) : /\ q[l][k] \in Ids
                                        /\ q[l][k] < n
                                        /\ e[q[l][k]].lane = l
                                        /\ b[q[l][k]] = "none"
                                        /\ q[l][k] \in ToSet(q[l])
                                        /\ q[l][k] \notin a[l]
  BY QueuedIds
<1>4. ASSUME NEW l \in Lanes
      PROVE  /\ Len(q[l]) \in Nat
             /\ t(l) \in 0..Len(q[l])
             /\ t(l) <= Room(a[l], m[l])
             /\ t(l) < Len(q[l]) => t(l) = Room(a[l], m[l])
             /\ Remaining(q[l], a[l], m[l]) \in Seq(Ids)
             /\ Len(Remaining(q[l], a[l], m[l])) = Len(q[l]) - t(l)
             /\ \A k \in 1..Len(Remaining(q[l], a[l], m[l])) :
                    /\ Remaining(q[l], a[l], m[l])[k] = q[l][k + t(l)]
                    /\ k + t(l) \in 1..Len(q[l])
  <2>1. q[l] \in Seq(Ids) /\ a[l] \in SUBSET Ids /\ m[l] \in Nat
    BY <1>3
  <2> QED BY <2>1, PumpFacts
<1>5. ASSUME NEW l \in L, NEW i \in st(l)
      PROVE  \E k \in 1..Len(q[l]) : k <= t(l) /\ i = q[l][k]
  BY <1>4 DEF Started
<1>6. ASSUME NEW l \in L, NEW i \in st(l)
      PROVE  /\ i \in Ids /\ i < n /\ e[i].lane = l /\ b[i] = "none"
             /\ i \in ToSet(q[l]) /\ i \notin a[l]
  <2>1. PICK k \in 1..Len(q[l]) : i = q[l][k]
    BY <1>5
  <2> QED BY <2>1, <1>3
<1>7. ASSUME NEW l \in Lanes
      PROVE  st(l) \in SUBSET Ids
  BY <1>6
<1> HIDE DEF t
<1>8. \A i \in Ids : (\E l \in L : i \in st(l)) => e[i].lane \in Lanes /\ g[e[i].lane] \in Nat
  BY <1>3, <1>6
<1>9. e \in Seq(EntryType) /\ Len(e) = n - 1 /\ n \in Nat
  BY <1>2, ConstantsAssumption DEF Typed
<1> HIDE DEF st
<1>10. Typed(queue', active', m, g, n, e, body', taskGeneration', p)
  <2>1. queue' \in [Lanes -> Seq(Ids)]
    BY <1>1, <1>3, <1>4
  <2>2. active' \in [Lanes -> SUBSET Ids]
    BY <1>1, <1>3, <1>7
  <2>3. body' \in [Ids -> BodyStates]
    BY <1>1, <1>2 DEF Typed, BodyStates
  <2>4. taskGeneration' \in [Ids -> Nat]
    BY <1>1, <1>2, <1>8 DEF Typed
  <2> QED BY <2>1, <2>2, <2>3, <2>4, <1>2 DEF Typed
<1>11. Fresh(n, body', taskGeneration', p)
  <2> SUFFICES ASSUME NEW i \in Ids, i >= n
               PROVE  body'[i] = "none" /\ taskGeneration'[i] = 0 /\ p[i] = "none"
    BY DEF Fresh
  <2>1. ~ \E l \in L : i \in st(l)
    BY <1>6, <1>9 DEF Ids
  <2>2. b[i] = "none" /\ taskGeneration[i] = 0 /\ p[i] = "none"
    BY DEF Core, Fresh
  <2> QED BY <2>1, <2>2, <1>1
<1>12. GenerationBound(g, n, e, taskGeneration')
  <2> SUFFICES ASSUME NEW i \in Ids, i < n
               PROVE  taskGeneration'[i] <= g[e[i].lane]
    BY DEF GenerationBound
  <2>1. CASE \E l \in L : i \in st(l)
    BY <2>1, <1>1, <1>8
  <2>2. CASE ~ \E l \in L : i \in st(l)
    BY <2>2, <1>1 DEF Core, GenerationBound
  <2> QED BY <2>1, <2>2
<1>13. Slots(active', g, n, e, body', taskGeneration')
  <2> SUFFICES ASSUME NEW l \in Lanes, NEW i \in Ids
               PROVE  i \in active'[l] <=> /\ i < n /\ e[i].lane = l
                                           /\ body'[i] = "running"
                                           /\ taskGeneration'[i] = g[l]
    BY DEF Slots
  <2>1. i \in active'[l] <=> i \in a[l] \/ i \in st(l)
    BY <1>1
  <2>2. i \in a[l] <=> i < n /\ e[i].lane = l /\ b[i] = "running" /\ taskGeneration[i] = g[l]
    BY DEF Core, Slots
  <2>3. i \in st(l) => l \in L
    BY DEF st
  <2>4. CASE \E k \in L : i \in st(k)
    <3>1. PICK k \in L : i \in st(k)
      BY <2>4
    <3>2. i < n /\ e[i].lane = k /\ b[i] = "none"
      BY <3>1, <1>6
    <3>3. body'[i] = "running" /\ taskGeneration'[i] = g[k]
      BY <2>4, <3>2, <1>1
    <3>4. i \in active'[l] <=> l = k
      BY <2>1, <2>2, <2>3, <3>1, <3>2, <1>6
    <3> QED BY <3>2, <3>3, <3>4
  <2>5. CASE ~ \E k \in L : i \in st(k)
    <3>1. body'[i] = b[i] /\ taskGeneration'[i] = taskGeneration[i]
      BY <2>5, <1>1
    <3> QED BY <3>1, <2>1, <2>2, <2>3, <2>5
  <2> QED BY <2>4, <2>5
<1>14. ASSUME NEW l \in Lanes
       PROVE  /\ queue'[l] \in Seq(Ids)
              /\ \A i : i \in ToSet(queue'[l]) <=>
                     \E k \in 1..Len(q[l]) : i = q[l][k] /\ (l \in L => k > t(l))
              /\ SortedSeq(e, queue'[l])
  <2>1. CASE l \notin L
    <3>1. queue'[l] = q[l]
      BY <2>1, <1>1
    <3> QED BY <3>1, <2>1, <1>3, MembersOfSeq, SMTT(20)
  <2>2. CASE l \in L
    <3> DEFINE r == queue'[l]
    <3>1. r = Remaining(q[l], a[l], m[l])
      BY <2>2, <1>1
    <3>2. /\ r \in Seq(Ids)
          /\ Len(r) = Len(q[l]) - t(l)
          /\ \A k \in 1..Len(r) : r[k] = q[l][k + t(l)] /\ k + t(l) \in 1..Len(q[l])
      BY <3>1, <1>4
    <3>3. t(l) \in Nat /\ Len(q[l]) \in Nat /\ Len(r) \in Nat
      BY <3>2, <1>4, LenProperties
    <3> HIDE DEF r
    <3>4. ASSUME NEW k \in 1..Len(q[l]), k > t(l)
          PROVE  q[l][k] \in ToSet(r)
      <4>1. k - t(l) \in 1..Len(r)
        BY <3>2, <3>3, <3>4
      <4>2. r[k - t(l)] = q[l][(k - t(l)) + t(l)] /\ (k - t(l)) + t(l) = k
        BY <4>1, <3>2, <3>3, SMTT(20)
      <4> QED BY <4>1, <4>2, <3>2, MembersOfSeq
    <3>5. ASSUME NEW i \in ToSet(r)
          PROVE  \E k \in 1..Len(q[l]) : i = q[l][k] /\ k > t(l)
      <4>1. PICK k \in 1..Len(r) : r[k] = i
        BY <3>2, MembersOfSeq
      <4>2. k + t(l) \in 1..Len(q[l]) /\ i = q[l][k + t(l)] /\ k + t(l) > t(l)
        BY <4>1, <3>2, <3>3
      <4> QED BY <4>2
    <3>6. SortedSeq(e, r)
      <4> SUFFICES ASSUME NEW j \in 1..Len(r), NEW k \in 1..Len(r), j < k
                   PROVE  Behind(e, r[k], r[j])
        BY DEF SortedSeq
      <4>1. j + t(l) \in 1..Len(q[l]) /\ k + t(l) \in 1..Len(q[l]) /\ j + t(l) < k + t(l)
        BY <3>2, <3>3
      <4>2. Behind(e, q[l][k + t(l)], q[l][j + t(l)])
        BY <4>1, <1>3 DEF SortedSeq
      <4> QED BY <4>2, <3>2
    <3> QED BY <3>2, <3>4, <3>5, <3>6, <2>2 DEF r
  <2> QED BY <2>1, <2>2
<1>15. ASSUME NEW l \in Lanes, NEW i \in ToSet(queue'[l])
       PROVE  /\ i \in Ids /\ i < n /\ e[i].lane = l /\ b[i] = "none" /\ i \in ToSet(q[l])
              /\ ~ \E k \in L : i \in st(k)
  <2>1. PICK k \in 1..Len(q[l]) : i = q[l][k] /\ (l \in L => k > t(l))
    BY <1>14
  <2>2. i \in Ids /\ i < n /\ e[i].lane = l /\ b[i] = "none" /\ i \in ToSet(q[l])
    BY <2>1, <1>3
  <2>3. ASSUME NEW o \in L, i \in st(o)
        PROVE  FALSE
    <3>1. o = l
      BY <2>2, <2>3, <1>6
    <3>2. PICK j \in 1..Len(q[l]) : j <= t(l) /\ i = q[l][j]
      BY <3>1, <2>3, <1>5
    <3>3. j = k
      <4>1. q[l] \in Seq(Ids) /\ HasEntries(e, q[l]) /\ SortedSeq(e, q[l])
        BY <1>3
      <4>2. q[l][j] = q[l][k]
        BY <3>2, <2>1
      <4> QED BY <4>1, <4>2, <1>9, SortedIsInjective
    <3> QED BY <3>1, <3>2, <3>3, <2>1, <1>4
  <2> QED BY <2>2, <2>3
<1>16. Queued(queue', n, e, body')
  BY <1>1, <1>15 DEF Queued
<1>17. Held(queue', body', p)
  <2> SUFFICES ASSUME NEW i \in Ids
               PROVE  p[i] = "pending" <=>
                         body'[i] = "running" \/ \E l \in Lanes : i \in ToSet(queue'[l])
    BY DEF Held
  <2>1. p[i] = "pending" <=> b[i] = "running" \/ \E l \in Lanes : i \in ToSet(q[l])
    BY DEF Core, Held
  <2>2. CASE \E l \in L : i \in st(l)
    BY <2>2, <2>1, <1>1, <1>6
  <2>3. CASE ~ \E l \in L : i \in st(l)
    <3>1. body'[i] = b[i]
      BY <2>3, <1>1
    <3>2. ASSUME NEW l \in Lanes, i \in ToSet(q[l])
          PROVE  i \in ToSet(queue'[l])
      <4>1. PICK k \in 1..Len(q[l]) : q[l][k] = i
        BY <3>2, <1>3, MembersOfSeq
      <4>2. ASSUME l \in L
            PROVE  k > t(l)
        <5>1. i \notin Started(q[l], a[l], m[l])
          BY <4>2, <2>3 DEF st
        <5> QED BY <5>1, <4>1, <1>4 DEF Started, t
      <4> QED BY <4>1, <4>2, <1>14
    <3> QED BY <3>1, <3>2, <2>1, <1>15
  <2> QED BY <2>2, <2>3
<1>18. Sorted(queue', e)
  BY <1>14 DEF Sorted
<1>19. ASSUME NEW l \in L
       PROVE  /\ Cardinality(active'[l]) = Cardinality(a[l]) + t(l)
              /\ Cardinality(a[l]) \in Nat
  <2>1. active'[l] = a[l] \cup Started(q[l], a[l], m[l])
    BY <1>1 DEF st
  <2> QED BY <2>1, <1>3, <1>9, PumpCardinality, SlotsFinite DEF t
<1>20. Busy(Lanes, queue', active', m)
  <2> SUFFICES ASSUME NEW l \in Lanes, queue'[l] # <<>>
               PROVE  Cardinality(active'[l]) >= m[l]
    BY DEF Busy
  <2>1. CASE l \notin L
    <3>1. queue'[l] = q[l] /\ active'[l] = a[l]
      BY <2>1, <1>1 DEF st
    <3> QED BY <3>1, <2>1 DEF Busy
  <2>2. CASE l \in L
    <3>1. queue'[l] = Remaining(q[l], a[l], m[l])
      BY <2>2, <1>1
    <3>2. Len(queue'[l]) > 0
      BY <3>1, <1>4, <1>14, EmptySeq
    <3>3. t(l) = Room(a[l], m[l])
      BY <3>1, <3>2, <1>4
    <3> QED BY <3>3, <2>2, <1>3, <1>4, <1>19 DEF Room
  <2> QED BY <2>1, <2>2
<1>21. ASSUME NEW l \in Lanes
       PROVE  a[l] \subseteq active'[l]
  BY <1>1
<1>22. ASSUME NEW l \in Lanes, active'[l] # a[l]
       PROVE  Cardinality(active'[l]) <= m[l]
  <2>1. l \in L
    BY <1>22, <1>1 DEF st
  <2>2. t(l) > 0
    BY <2>1, <1>22, <1>1, <1>4 DEF st, Started, t
  <2> QED BY <2>1, <2>2, <1>3, <1>4, <1>19 DEF Room
<1>23. Core(queue', active', m, g, n, e, body', taskGeneration', p)
  BY <1>10, <1>11, <1>12, <1>13, <1>16, <1>17, <1>18 DEF Core
<1> QED BY <1>20, <1>21, <1>22, <1>23

StartsInOrder(q, a, m, g, n, e, b, p) ==
    /\ \A i \in Ids : \/ body'[i] = b[i] /\ taskGeneration'[i] = taskGeneration[i]
                      \/ b[i] = "none" /\ p[i] = "pending"
    /\ \A l \in Lanes : \A i \in Ids :
          b[i] = "none" /\ body'[i] = "running" /\ e[i].lane = l =>
              \A j \in ToSet(queue'[l]) : ~Behind(e, i, j)

\* What drainLane starts was waiting, with a pending promise, and nothing that
\* is left waiting in its lane was ahead of it; every other task is untouched.
LEMMA DrainStarts ==
    ASSUME NEW L \in SUBSET Lanes,
           NEW q, NEW a, NEW m, NEW g, NEW n, NEW e, NEW b, NEW p,
           Core(q, a, m, g, n, e, b, taskGeneration, p),
           DrainLanes(L, q, a, m, g, e, b)
    PROVE  StartsInOrder(q, a, m, g, n, e, b, p)
<1> DEFINE st(l) == IF l \in L THEN Started(q[l], a[l], m[l]) ELSE {}
<1>1. /\ queue' = [l \in Lanes |-> IF l \in L THEN Remaining(q[l], a[l], m[l]) ELSE q[l]]
      /\ body' = [i \in Ids |-> IF \E l \in L : i \in st(l) THEN "running" ELSE b[i]]
      /\ taskGeneration' = [i \in Ids |-> IF \E l \in L : i \in st(l) THEN g[e[i].lane]
                                          ELSE taskGeneration[i]]
  BY DEF DrainLanes
<1>2. ASSUME NEW l \in L
      PROVE  /\ q[l] \in Seq(Ids) /\ a[l] \in SUBSET Ids /\ m[l] \in Nat
             /\ SortedSeq(e, q[l])
             /\ \A k \in 1..Len(q[l]) : /\ q[l][k] \in Ids /\ q[l][k] \in ToSet(q[l])
                                        /\ e[q[l][k]].lane = l
                                        /\ b[q[l][k]] = "none"
                                        /\ e[q[l][k]].priority \in Int
  <2>1. e \in Seq(EntryType)
    BY DEF Core, Typed
  <2>2. HasEntries(e, q[l])
    BY QueuedIds
  <2>3. \A k \in 1..Len(q[l]) : e[q[l][k]].priority \in Int
    BY <2>1, <2>2, PriorityIsInt DEF HasEntries
  <2> QED BY <2>3, QueuedIds
<1>3. ASSUME NEW l \in L
      PROVE  LET t == Taken(q[l], a[l], m[l])
                 r == Remaining(q[l], a[l], m[l])
             IN  /\ Len(q[l]) \in Nat /\ t \in 0..Len(q[l])
                 /\ r \in Seq(Ids)
                 /\ \A k \in 1..Len(r) : r[k] = q[l][k + t] /\ k + t \in 1..Len(q[l])
                 /\ \A i \in st(l) : \E k \in 1..Len(q[l]) : k <= t /\ i = q[l][k]
  <2>1. q[l] \in Seq(Ids) /\ a[l] \in SUBSET Ids /\ m[l] \in Nat
    BY <1>2
  <2> DEFINE t == Taken(q[l], a[l], m[l])
             r == Remaining(q[l], a[l], m[l])
  <2>2. /\ Len(q[l]) \in Nat /\ t \in 0..Len(q[l])
        /\ r \in Seq(Ids)
        /\ \A k \in 1..Len(r) : r[k] = q[l][k + t] /\ k + t \in 1..Len(q[l])
    BY <2>1, PumpFacts
  <2>3. st(l) = {q[l][k] : k \in 1..t}
    BY DEF Started
  <2>4. \A i \in st(l) : \E k \in 1..Len(q[l]) : k <= t /\ i = q[l][k]
    BY <2>2, <2>3
  <2> QED BY <2>2, <2>4
<1>4. ASSUME NEW l \in L, NEW i \in st(l)
      PROVE  b[i] = "none" /\ p[i] = "pending" /\ e[i].lane = l
  <2>0. PICK k \in 1..Len(q[l]) : i = q[l][k]
    BY <1>3
  <2>1. i \in Ids /\ i \in ToSet(q[l]) /\ b[i] = "none" /\ e[i].lane = l
    BY <1>2, <2>0
  <2> QED BY <2>1 DEF Core, Held
<1> HIDE DEF st
<1>5. ASSUME NEW l \in Lanes, NEW i \in Ids,
             b[i] = "none", body'[i] = "running", e[i].lane = l,
             NEW j \in ToSet(queue'[l])
      PROVE  ~Behind(e, i, j)
  <2>1. l \in L /\ i \in st(l)
    BY <1>1, <1>4, <1>5
  <2> DEFINE t == Taken(q[l], a[l], m[l])
             r == Remaining(q[l], a[l], m[l])
  <2>2. PICK k \in 1..Len(q[l]) : k <= t /\ i = q[l][k]
    BY <2>1, <1>3
  <2>3. queue'[l] = r /\ r \in Seq(Ids)
    BY <2>1, <1>1, <1>3
  <2>4. PICK o \in 1..Len(r) : r[o] = j
    BY <2>3, MembersOfSeq
  <2>5. j = q[l][o + t] /\ o + t \in 1..Len(q[l])
    BY <2>1, <2>4, <1>3
  <2>6. k < o + t
    BY <2>1, <2>2, <2>3, <2>4, <1>3, LenProperties
  <2>7. Behind(e, j, i)
    BY <2>1, <2>2, <2>5, <2>6, <1>2 DEF SortedSeq
  <2>8. i \in Int /\ j \in Int /\ e[i].priority \in Int /\ e[j].priority \in Int
    BY <2>1, <2>2, <2>5, <1>2 DEF Ids
  <2> QED BY <2>7, <2>8 DEF Behind
<1> QED BY <1>1, <1>4, <1>5 DEF StartsInOrder

----------------------------------------------------------------------------
(* The pump as a dispatch of the lane scheduler                            *)

JobsOf(a, e, b, p) ==
    [i \in Ids |->
        IF p[i] \in {"none", "resolved", "rejected"}
        THEN IF p[i] = "none" THEN "new" ELSE p[i]
        ELSE IF b[i] # "running" THEN "waiting"
        ELSE IF i \in a[e[i].lane] THEN "holding"
        ELSE "retired"]

jobs == [i \in Ids |-> JobState(i)]

\* The holders of a lane's slots are its active set and the waiting jobs are
\* the ids of its queue.
LEMMA JobsInLanes ==
    ASSUME NEW q, NEW a, NEW m, NEW g, NEW n, NEW e, NEW b, NEW tg, NEW p,
           Core(q, a, m, g, n, e, b, tg, p), NEW l \in Lanes
    PROVE  /\ Scheduler!In(l, "holding", e, JobsOf(a, e, b, p)) = a[l]
           /\ Scheduler!In(l, "waiting", e, JobsOf(a, e, b, p)) = ToSet(q[l])
<1> DEFINE jb == JobsOf(a, e, b, p)
<1>1. q[l] \in Seq(Ids) /\ a[l] \in SUBSET Ids /\ p \in [Ids -> PromiseStates]
  BY DEF Core, Typed
<1>2. \A i \in Ids : p[i] = "pending" <=> b[i] = "running" \/ \E k \in Lanes : i \in ToSet(q[k])
  BY DEF Core, Held
<1>3. \A k \in Lanes : \A i \in ToSet(q[k]) : e[i].lane = k /\ b[i] = "none"
  BY DEF Core, Queued
<1>4. \A i \in a[l] : e[i].lane = l /\ b[i] = "running"
  BY <1>1 DEF Core, Slots
<1>5. \A i \in ToSet(q[l]) : i \in Ids
  BY <1>1, MembersOfSeq, ElementOfSeq
<1>6. ASSUME NEW i \in Ids
      PROVE  /\ jb[i] = "waiting" <=> p[i] = "pending" /\ b[i] # "running"
             /\ jb[i] = "holding" <=> /\ p[i] = "pending" /\ b[i] = "running"
                                      /\ i \in a[e[i].lane]
  BY <1>1 DEF JobsOf, PromiseStates
<1> HIDE DEF jb
<1>7. \A i : i \in Scheduler!In(l, "holding", e, jb) <=> i \in a[l]
  BY <1>1, <1>2, <1>4, <1>6 DEF Scheduler!In
<1>8. \A i : i \in Scheduler!In(l, "waiting", e, jb) <=> i \in ToSet(q[l])
  BY <1>2, <1>3, <1>5, <1>6 DEF Scheduler!In
<1> QED BY <1>7, <1>8 DEF jb

\* The scheduler counts as the queue does.
LEMMA SameCount == \A S : Scheduler!Cardinality(S) = Cardinality(S)
BY DEF Scheduler!Cardinality, Cardinality

\* drainLane on the lanes of L is a dispatch of any lanes that include them.
LEMMA DrainDispatches ==
    ASSUME NEW L \in SUBSET Lanes, NEW M \in SUBSET Lanes, L \subseteq M,
           NEW q, NEW a, NEW m, NEW g, NEW n, NEW e, NEW b, NEW p,
           Core(q, a, m, g, n, e, b, taskGeneration, p),
           Busy(Lanes \ L, q, a, m),
           DrainLanes(L, q, a, m, g, e, b),
           entry' = e, promise' = p
    PROVE  Scheduler!Dispatch(M, e, JobsOf(a, e, b, p), m)
<1> DEFINE before == JobsOf(a, e, b, p)
           after == JobsOf(active', e, body', p)
<1>1. /\ Core(queue', active', m, g, n, e, body', taskGeneration', p)
      /\ Busy(Lanes, queue', active', m)
      /\ \A l \in Lanes : a[l] \subseteq active'[l]
      /\ \A l \in Lanes : active'[l] # a[l] => Cardinality(active'[l]) <= m[l]
  BY DrainKeepsCore
<1>2. StartsInOrder(q, a, m, g, n, e, b, p)
  BY DrainStarts
<1>3. ASSUME NEW l \in Lanes
      PROVE  /\ Scheduler!In(l, "holding", e, before) = a[l]
             /\ Scheduler!In(l, "holding", e, after) = active'[l]
             /\ Scheduler!In(l, "waiting", e, after) = ToSet(queue'[l])
  <2>1. Scheduler!In(l, "holding", e, before) = a[l]
    BY JobsInLanes
  <2>2. /\ Scheduler!In(l, "holding", e, after) = active'[l]
        /\ Scheduler!In(l, "waiting", e, after) = ToSet(queue'[l])
    BY <1>1, JobsInLanes
  <2> QED BY <2>1, <2>2
<1>4. ASSUME NEW l \in L, NEW i \in Started(q[l], a[l], m[l])
      PROVE  /\ i \in Ids /\ e[i].lane = l /\ b[i] = "none" /\ p[i] = "pending"
             /\ i \in active'[l] /\ body'[i] = "running"
  <2>1. PICK k \in 1..Taken(q[l], a[l], m[l]) : i = q[l][k]
    BY DEF Started
  <2>2. q[l] \in Seq(Ids) /\ a[l] \in SUBSET Ids /\ m[l] \in Nat
    BY QueuedIds
  <2>3. k \in 1..Len(q[l])
    <3>1. Len(q[l]) \in Nat /\ Taken(q[l], a[l], m[l]) \in 0..Len(q[l])
      BY <2>2, PumpFacts
    <3> QED BY <3>1
  <2>4. i \in Ids /\ e[i].lane = l /\ b[i] = "none" /\ i \in ToSet(q[l])
    BY <2>1, <2>3, QueuedIds
  <2>5. p[i] = "pending"
    BY <2>4 DEF Core, Held
  <2>6. i \in active'[l] /\ body'[i] = "running"
    BY <2>4 DEF DrainLanes
  <2> QED BY <2>4, <2>5, <2>6
<1>5. ASSUME NEW i \in Ids
      PROVE  \/ \E l \in L : i \in Started(q[l], a[l], m[l])
             \/ body'[i] = b[i] /\ taskGeneration'[i] = taskGeneration[i]
  BY DEF DrainLanes
<1>6. jobs' = after
  BY DEF jobs, JobState, JobsOf
<1>7. ASSUME NEW i \in Ids
      PROVE  \/ after[i] = before[i]
             \/ before[i] = "waiting" /\ after[i] = "holding" /\ e[i].lane \in M
  <2>1. CASE \E l \in L : i \in Started(q[l], a[l], m[l])
    <3>1. PICK l \in L : i \in Started(q[l], a[l], m[l])
      BY <2>1
    <3>2. /\ e[i].lane = l /\ b[i] = "none" /\ p[i] = "pending"
          /\ i \in active'[l] /\ body'[i] = "running"
      BY <3>1, <1>4
    <3> QED BY <3>2 DEF JobsOf
  <2>2. CASE body'[i] = b[i] /\ taskGeneration'[i] = taskGeneration[i]
    <3>1. CASE b[i] # "running"
      BY <2>2, <3>1 DEF JobsOf
    <3>2. CASE b[i] = "running"
      <4>1. i < n /\ n \in Nat /\ e \in Seq(EntryType) /\ Len(e) = n - 1
        BY <3>2, ConstantsAssumption DEF Core, Typed, Fresh, Ids
      <4>2. e[i] \in EntryType
        BY <4>1, ElementOfSeq DEF Ids
      <4>3. e[i].lane \in Lanes
        BY <4>2 DEF EntryType
      <4>4. i \in active'[e[i].lane] <=> i \in a[e[i].lane]
        BY <4>1, <4>3, <2>2, <1>1 DEF Core, Slots
      <4> QED BY <2>2, <4>4 DEF JobsOf
    <3> QED BY <3>1, <3>2
  <2> QED BY <2>1, <2>2, <1>5
<1>8. ASSUME NEW i \in Ids, before[i] = "waiting"
      PROVE  before[i] # "holding" /\ b[i] # "running"
  BY <1>8 DEF JobsOf
<1> HIDE DEF before, after
<1>9. ASSUME NEW l \in M
      PROVE  Scheduler!Served(l, e, before, m)
  <2> DEFINE started == {i \in active'[l] : before[i] = "waiting"}
  <2>1. l \in Lanes /\ active'[l] \in SUBSET Ids /\ queue'[l] \in Seq(Ids)
    BY <1>1 DEF Core, Typed
  <2>2. started # {} => Cardinality(active'[l]) <= m[l]
    BY <2>1, <1>1, <1>3, <1>8 DEF Scheduler!In
  <2>3. ToSet(queue'[l]) # {} => Cardinality(active'[l]) >= m[l]
    <3>1. queue'[l] = <<>> => ToSet(queue'[l]) = {}
      BY EmptySeq DEF ToSet
    <3> QED BY <3>1, <2>1, <1>1 DEF Busy
  <2>4. ASSUME NEW i \in started, NEW j \in ToSet(queue'[l])
        PROVE  ~Scheduler!Ahead(e, j, i)
    <3>1. i \in Ids /\ b[i] # "running" /\ e[i].lane = l /\ body'[i] = "running" /\ i < n
      BY <2>1, <1>1, <1>8 DEF Core, Slots
    <3>2. ~Behind(e, i, j)
      BY <3>1, <2>1, <1>2 DEF StartsInOrder
    <3>3. j \in Ids /\ j < n
      BY <2>1, <1>1, MembersOfSeq, ElementOfSeq DEF Core, Queued
    <3>4. e[i].priority \in Int /\ e[j].priority \in Int
      <4>1. e \in Seq(EntryType) /\ Len(e) = n - 1 /\ n \in Nat
        BY ConstantsAssumption DEF Core, Typed
      <4>2. i \in 1..Len(e) /\ j \in 1..Len(e)
        BY <4>1, <3>1, <3>3 DEF Ids
      <4> QED BY <4>1, <4>2, PriorityIsInt
    <3> QED BY <3>1, <3>2, <3>3, <3>4 DEF Behind, Scheduler!Ahead, Ids
  <2>5. /\ Scheduler!In(l, "holding", e, jobs') = active'[l]
        /\ Scheduler!In(l, "waiting", e, jobs') = ToSet(queue'[l])
    BY <2>1, <1>3, <1>6
  <2> QED BY <2>2, <2>3, <2>4, <2>5, SameCount DEF Scheduler!Served, jobs
<1> QED BY <1>6, <1>7, <1>9 DEF Scheduler!Dispatch, jobs, before

----------------------------------------------------------------------------
(* The invariant of the specification                                      *)

CoreInv == Core(queue, active, maxConcurrent, generation, nextSequence,
                entry, body, taskGeneration, promise)

WaiterTyped == waiter \in [Waiters -> [state : WaiterStates, ids : SUBSET Ids, timed : BOOLEAN]]

IInv ==
    /\ CoreInv
    /\ Busy(Lanes, queue, active, maxConcurrent)
    /\ admissionClosed \in BOOLEAN
    /\ WaiterTyped
    /\ WaiterHasReason

\* Each property the runs check is a part of the inductive invariant.
LEMMA IInvParts ==
    ASSUME IInv
    PROVE  TypeOK /\ SlotAccounting /\ NoIdleSlot /\ QueueSorted /\ PendingIsHeld /\ WaiterHasReason
<1>1. TypeOK
  BY DEF IInv, CoreInv, Core, Typed, WaiterTyped, TypeOK
<1>2. SlotAccounting
  BY DEF IInv, CoreInv, Core, Slots, SlotAccounting
<1>3. NoIdleSlot
  BY DEF IInv, Busy, NoIdleSlot
<1>4. QueueSorted
  BY DEF IInv, CoreInv, Core, Sorted, SortedSeq, QueueSorted
<1>5. PendingIsHeld
  BY DEF IInv, CoreInv, Core, Queued, Held, PendingIsHeld
<1> QED BY <1>1, <1>2, <1>3, <1>4, <1>5 DEF IInv

(* The initial state, with every lane empty, satisfies the invariant. *)
LEMMA InitIInv == Init => IInv
<1> SUFFICES ASSUME Init
             PROVE  IInv
  OBVIOUS
<1> USE ConstantsAssumption
<1>0. Len(<<>>) = 0 /\ \A S : <<>> \in Seq(S)
  BY EmptySeq
<1>1. Typed(queue, active, maxConcurrent, generation, nextSequence,
            entry, body, taskGeneration, promise)
  BY <1>0 DEF Init, Typed, BodyStates, PromiseStates
<1>2. \A l \in Lanes : ToSet(queue[l]) = {} /\ SortedSeq(entry, queue[l])
  BY <1>0 DEF Init, ToSet, SortedSeq
<1>3. CoreInv
  BY <1>1, <1>2 DEF Init, CoreInv, Core, Fresh, GenerationBound, Slots, Queued, Held,
                    Sorted, Ids
<1>4. Busy(Lanes, queue, active, maxConcurrent)
  BY DEF Init, Busy
<1>5. WaiterTyped /\ WaiterHasReason /\ admissionClosed \in BOOLEAN
  BY DEF Init, WaiterTyped, WaiterStates, WaiterHasReason
<1> QED BY <1>3, <1>4, <1>5 DEF IInv

\* notifyActiveTaskWaiters leaves waiting only those with a task in a.
LEMMA NotifiedFacts ==
    ASSUME WaiterTyped, NEW a
    PROVE  /\ Notified(a) \in [Waiters -> [state : WaiterStates, ids : SUBSET Ids, timed : BOOLEAN]]
           /\ \A w \in Waiters : Notified(a)[w].state = "waiting" =>
                 \E l \in Lanes : Notified(a)[w].ids \cap a[l] # {}
<1>1. ASSUME NEW w \in Waiters
      PROVE  /\ Notified(a)[w] \in [state : WaiterStates, ids : SUBSET Ids, timed : BOOLEAN]
             /\ Notified(a)[w].state = "waiting" =>
                   \E l \in Lanes : Notified(a)[w].ids \cap a[l] # {}
  <2>1. waiter[w] \in [state : WaiterStates, ids : SUBSET Ids, timed : BOOLEAN]
    BY DEF WaiterTyped
  <2>2. Notified(a)[w] = IF waiter[w].state = "waiting" /\ \A l \in Lanes : waiter[w].ids \cap a[l] = {}
                         THEN [waiter[w] EXCEPT !.state = "drained"] ELSE waiter[w]
    BY DEF Notified
  <2> QED BY <2>1, <2>2 DEF WaiterStates
<1>2. Notified(a) = [w \in Waiters |-> Notified(a)[w]]
  BY DEF Notified
<1> QED BY <1>1, <1>2

\* A waiter keeps its reason while no task loses its slot.
LEMMA ReasonKept ==
    ASSUME WaiterHasReason, waiter' = waiter,
           \A l \in Lanes : active[l] \subseteq active'[l]
    PROVE  WaiterHasReason'
BY DEF WaiterHasReason

----------------------------------------------------------------------------
(* Every step keeps the invariant and starts nothing beyond the limits     *)

StepWithinLimit ==
    \A l \in Lanes : ~(active'[l] \subseteq active[l]) =>
        Cardinality(active'[l]) <= maxConcurrent'[l]

OrderKept ==
    \A l \in Lanes : \A i \in Ids : Starts(i) /\ entry'[i].lane = l =>
        \A j \in ToSet(queue'[l]) : ~Behind(entry', i, j)

\* How the tasks and generations a step hands to drainLane relate to the state.
Evolves(g, e, b, p) ==
    /\ \A l \in Lanes : generation[l] <= g[l]
    /\ \A i \in Ids : i < nextSequence => e[i] = entry[i]
    /\ \A i \in Ids : /\ b[i] = "none" <=> body[i] = "none"
                      /\ b[i] = "running" => body[i] = "running"
    /\ \A i \in Ids : promise[i] \in {"resolved", "rejected"} => p[i] = promise[i]

\* A started task keeps its generation and never runs again once it ended; a
\* settled promise is never touched.
TasksKept ==
    /\ \A l \in Lanes : generation[l] <= generation'[l]
    /\ \A i \in Ids : i < nextSequence => entry'[i] = entry[i]
    /\ \A i \in Ids : body[i] # "none" => /\ taskGeneration'[i] = taskGeneration[i]
                                          /\ body'[i] = "running" => body[i] = "running"
    /\ \A i \in Ids : promise[i] \in {"resolved", "rejected"} =>
                          promise'[i] = promise[i] /\ ~Starts(i)

StepSafe == StepWithinLimit /\ OrderKept /\ TasksKept

\* A step as the lane scheduler sees it.
LaneStep == Scheduler!Next \/ UNCHANGED <<entry, jobs, maxConcurrent>>

\* A step that starts nothing.
LEMMA NothingStarts ==
    ASSUME NEW g, NEW e, NEW b, NEW p, Evolves(g, e, b, p),
           generation' = g, entry' = e, body' = b, promise' = p,
           taskGeneration' = taskGeneration, active' = active
    PROVE  StepSafe
<1>1. \A i \in Ids : ~Starts(i)
  BY DEF Evolves, Starts
<1> QED BY <1>1 DEF StepSafe, StepWithinLimit, OrderKept, TasksKept, Evolves

\* A step that gives out no slot leaves every lane dispatched too.
LEMMA NothingDispatched ==
    ASSUME CoreInv', Busy(Lanes, queue, active, maxConcurrent)',
           NEW M \in SUBSET Lanes, NEW m, NEW before,
           maxConcurrent' = m, jobs' = before
    PROVE  Scheduler!Dispatch(M, entry', before, m)
<1>1. Core(queue', active', maxConcurrent', generation', nextSequence',
           entry', body', taskGeneration', promise')
  BY DEF CoreInv
<1>2. jobs' = JobsOf(active', entry', body', promise')
  BY DEF jobs, JobState, JobsOf
<1>3. ASSUME NEW l \in M
      PROVE  Scheduler!Served(l, entry', before, m)
  <2>1. /\ Scheduler!In(l, "holding", entry', before) = active'[l]
        /\ Scheduler!In(l, "waiting", entry', before) = ToSet(queue'[l])
    BY <1>1, <1>2, JobsInLanes
  <2>2. ToSet(queue'[l]) # {} => Cardinality(active'[l]) >= m[l]
    <3>1. queue'[l] = <<>> => ToSet(queue'[l]) = {}
      BY EmptySeq DEF ToSet
    <3> QED BY <3>1 DEF Busy
  <2>3. {i \in Scheduler!In(l, "holding", entry', before) : before[i] = "waiting"} = {}
    BY DEF Scheduler!In
  <2> QED BY <2>1, <2>2, <2>3, SameCount DEF Scheduler!Served, jobs
<1> QED BY <1>3 DEF Scheduler!Dispatch, jobs

\* What remains to show of a step that ends in drainLane, once the values it
\* hands over are known to satisfy the core invariant.
LEMMA DrainStep ==
    ASSUME NEW L \in SUBSET Lanes,
           NEW q, NEW a, NEW m, NEW g, NEW n, NEW e, NEW b, NEW p,
           Core(q, a, m, g, n, e, b, taskGeneration, p),
           Busy(Lanes \ L, q, a, m),
           Evolves(g, e, b, p),
           DrainLanes(L, q, a, m, g, e, b),
           maxConcurrent' = m, generation' = g, nextSequence' = n, entry' = e, promise' = p,
           \A l \in Lanes : a[l] \subseteq active[l]
    PROVE  /\ CoreInv'
           /\ Busy(Lanes, queue, active, maxConcurrent)'
           /\ StepSafe
           /\ \A l \in Lanes : a[l] \subseteq active'[l]
           /\ \A M \in SUBSET Lanes : L \subseteq M =>
                 Scheduler!Dispatch(M, e, JobsOf(a, e, b, p), m)
<1>1. /\ Core(queue', active', m, g, n, e, body', taskGeneration', p)
      /\ Busy(Lanes, queue', active', m)
      /\ \A l \in Lanes : a[l] \subseteq active'[l]
      /\ \A l \in Lanes : active'[l] # a[l] => Cardinality(active'[l]) <= m[l]
  BY DrainKeepsCore
<1>2. StartsInOrder(q, a, m, g, n, e, b, p)
  BY DrainStarts
<1>3. CoreInv'
  BY <1>1 DEF CoreInv
<1>4. Busy(Lanes, queue, active, maxConcurrent)'
  BY <1>1 DEF Busy
<1>5. StepWithinLimit
  BY <1>1 DEF StepWithinLimit
<1>6. OrderKept
  BY <1>2 DEF StartsInOrder, OrderKept, Starts, Evolves
<1>7. TasksKept
  BY <1>2 DEF StartsInOrder, TasksKept, Starts, Evolves
<1>8. ASSUME NEW M \in SUBSET Lanes, L \subseteq M
      PROVE  Scheduler!Dispatch(M, e, JobsOf(a, e, b, p), m)
  BY <1>8, DrainDispatches
<1> QED BY <1>1, <1>3, <1>4, <1>5, <1>6, <1>7, <1>8 DEF StepSafe

(* Enqueue preserves the invariant and every step property. *)
LEMMA EnqueueStep ==
    ASSUME IInv, NEW l \in Lanes, NEW p \in Priorities, NEW t \in TimedChoices, Enqueue(l, p, t)
    PROVE  IInv' /\ StepSafe /\ LaneStep
<1> DEFINE i == nextSequence
           e == Append(entry, [lane |-> l, priority |-> p, timed |-> t])
           q == [queue EXCEPT ![l] = InsertEntry(e, @, i)]
           pr == [promise EXCEPT ![i] = "pending"]
           n == i + 1
<1>1. /\ i <= MaxEntries /\ nextSequence' = n /\ entry' = e /\ promise' = pr
      /\ DrainLanes({l}, q, active, maxConcurrent, generation, e, body)
      /\ UNCHANGED <<maxConcurrent, generation, admissionClosed, waiter>>
  BY DEF Enqueue
<1>2. Core(queue, active, maxConcurrent, generation, i, entry, body, taskGeneration, promise)
  BY DEF IInv, CoreInv
<1>3. /\ queue \in [Lanes -> Seq(Ids)] /\ active \in [Lanes -> SUBSET Ids]
      /\ maxConcurrent \in [Lanes -> Nat] /\ generation \in [Lanes -> Nat]
      /\ i \in 1..(MaxEntries + 1) /\ entry \in Seq(EntryType) /\ Len(entry) = i - 1
      /\ body \in [Ids -> BodyStates] /\ taskGeneration \in [Ids -> Nat]
      /\ promise \in [Ids -> PromiseStates]
  BY <1>2 DEF Core, Typed
<1>4. i \in Ids /\ i \in Nat /\ n \in 1..(MaxEntries + 1)
  BY <1>1, <1>3, ConstantsAssumption DEF Ids
<1>5. [lane |-> l, priority |-> p, timed |-> t] \in EntryType
  BY ConstantsAssumption DEF EntryType
<1>6. /\ e \in Seq(EntryType) /\ Len(e) = i
      /\ \A k \in 1..(i - 1) : e[k] = entry[k]
      /\ e[i].lane = l
  BY <1>3, <1>4, <1>5, AppendProperties
<1> HIDE DEF i, e
<1>7. ASSUME NEW k \in Lanes
      PROVE  /\ queue[k] \in Seq(Ids)
             /\ HasEntries(entry, queue[k])
             /\ SortedSeq(entry, queue[k])
             /\ Len(queue[k]) \in Nat
             /\ \A j \in 1..Len(queue[k]) : queue[k][j] < i /\ queue[k][j] \in 1..(i - 1)
  BY <1>2, <1>3, QueuedIds, LenProperties, SMTT(20) DEF HasEntries
<1>8. ASSUME NEW k \in Lanes
      PROVE  SortedSeq(e, queue[k]) /\ HasEntries(e, queue[k])
  <2>1. \A j \in 1..Len(queue[k]) : queue[k][j] \in 1..(i - 1) /\ e[queue[k][j]] = entry[queue[k][j]]
    BY <1>6, <1>7
  <2>2. SortedSeq(e, queue[k])
    <3> SUFFICES ASSUME NEW m \in 1..Len(queue[k]), NEW o \in 1..Len(queue[k]), m < o
                 PROVE  Behind(e, queue[k][o], queue[k][m])
      BY DEF SortedSeq
    <3>1. Behind(entry, queue[k][o], queue[k][m])
      BY <1>7 DEF SortedSeq
    <3> QED BY <3>1, <2>1 DEF Behind
  <2>3. HasEntries(e, queue[k])
    BY <2>1, <1>4, <1>6 DEF HasEntries
  <2> QED BY <2>2, <2>3
<1>9. /\ InsertEntry(e, queue[l], i) \in Seq(Ids)
      /\ SortedSeq(e, InsertEntry(e, queue[l], i))
      /\ \A x : x \in ToSet(InsertEntry(e, queue[l], i)) <=> x = i \/ x \in ToSet(queue[l])
  <2>0. i <= Len(e) /\ \A k \in 1..Len(queue[l]) : queue[l][k] < i
    BY <1>4, <1>6, <1>7
  <2>1. SortedSeq(e, InsertEntry(e, queue[l], i))
    BY <2>0, <1>4, <1>6, <1>7, <1>8, InsertKeepsSorted
  <2>2. InsertEntry(e, queue[l], i) \in Seq(Ids)
    BY <1>4, <1>7, InsertEntryFacts
  <2>3. queue[l] \in Seq(Ids)
    BY <1>7
  <2> QED BY <2>1, <2>2, <2>3, <1>4, InsertEntryMembers
<1>10. /\ q \in [Lanes -> Seq(Ids)]
       /\ \A k \in Lanes : q[k] = IF k = l THEN InsertEntry(e, queue[l], i) ELSE queue[k]
  BY <1>3, <1>9
<1> HIDE DEF q
<1>11. ASSUME NEW k \in Ids, k < i
       PROVE  e[k] = entry[k]
  BY <1>11, <1>4, <1>6 DEF Ids
<1>12. /\ body[i] = "none" /\ taskGeneration[i] = 0 /\ promise[i] = "none"
       /\ \A k \in Lanes : i \notin ToSet(queue[k])
  <2>1. body[i] = "none" /\ taskGeneration[i] = 0 /\ promise[i] = "none"
    BY <1>2, <1>4 DEF Core, Fresh
  <2>2. \A k \in Lanes : i \notin ToSet(queue[k])
    BY <1>2, <1>4 DEF Core, Queued
  <2> QED BY <2>1, <2>2
<1>13. Typed(q, active, maxConcurrent, generation, n, e, body, taskGeneration, pr)
  BY <1>3, <1>4, <1>6, <1>10, SMTT(20) DEF Typed, PromiseStates
<1>14. Fresh(n, body, taskGeneration, pr)
  BY <1>2, <1>3, <1>4 DEF Core, Fresh, Ids
<1>15. GenerationBound(generation, n, e, taskGeneration)
  <2> SUFFICES ASSUME NEW k \in Ids, k < n
               PROVE  taskGeneration[k] <= generation[e[k].lane]
    BY DEF GenerationBound
  <2>1. CASE k = i
    BY <2>1, <1>3, <1>6, <1>12
  <2>2. CASE k < i
    BY <2>2, <1>2, <1>11 DEF Core, GenerationBound
  <2> QED BY <2>1, <2>2, <1>4 DEF Ids
<1>16. Slots(active, generation, n, e, body, taskGeneration)
  <2> SUFFICES ASSUME NEW o \in Lanes, NEW k \in Ids
               PROVE  k \in active[o] <=> /\ k < n /\ e[k].lane = o /\ body[k] = "running"
                                          /\ taskGeneration[k] = generation[o]
    BY DEF Slots
  <2>1. k \in active[o] <=> /\ k < i /\ entry[k].lane = o /\ body[k] = "running"
                            /\ taskGeneration[k] = generation[o]
    BY <1>2 DEF Core, Slots
  <2>2. CASE k < i
    BY <2>1, <2>2, <1>4, <1>11 DEF Ids
  <2>3. CASE k = i
    BY <2>1, <2>3, <1>4, <1>12
  <2>4. CASE k > i
    BY <2>1, <2>4, <1>4 DEF Ids
  <2> QED BY <2>2, <2>3, <2>4, <1>4 DEF Ids
<1>17. Queued(q, n, e, body)
  <2> SUFFICES ASSUME NEW o \in Lanes, NEW k \in ToSet(q[o])
               PROVE  k < n /\ e[k].lane = o /\ body[k] = "none"
    BY DEF Queued
  <2>1. CASE k = i /\ o = l
    BY <2>1, <1>4, <1>6, <1>12
  <2>2. CASE k \in ToSet(queue[o])
    <3>1. k < i /\ entry[k].lane = o /\ body[k] = "none"
      BY <2>2, <1>2 DEF Core, Queued
    <3>2. k \in Ids
      BY <2>2, <1>7, MembersOfSeq, ElementOfSeq
    <3> QED BY <3>1, <3>2, <1>4, <1>11 DEF Ids
  <2> QED BY <2>1, <2>2, <1>9, <1>10
<1>18. Held(q, body, pr)
  <2> SUFFICES ASSUME NEW k \in Ids
               PROVE  pr[k] = "pending" <=>
                         body[k] = "running" \/ \E o \in Lanes : k \in ToSet(q[o])
    BY DEF Held
  <2>1. promise[k] = "pending" <=> body[k] = "running" \/ \E o \in Lanes : k \in ToSet(queue[o])
    BY <1>2 DEF Core, Held
  <2>2. CASE k = i
    BY <2>2, <1>3, <1>9, <1>10
  <2>3. CASE k # i
    BY <2>1, <2>3, <1>3, <1>9, <1>10
  <2> QED BY <2>2, <2>3
<1>19. Sorted(q, e)
  BY <1>8, <1>9, <1>10 DEF Sorted
<1>20. Core(q, active, maxConcurrent, generation, n, e, body, taskGeneration, pr)
  BY <1>13, <1>14, <1>15, <1>16, <1>17, <1>18, <1>19 DEF Core
<1>21. Busy(Lanes \ {l}, q, active, maxConcurrent)
  BY <1>10 DEF IInv, Busy
<1>22. Evolves(generation, e, body, pr)
  BY <1>3, <1>4, <1>11, <1>12 DEF Evolves, i
<1>23. /\ CoreInv' /\ Busy(Lanes, queue, active, maxConcurrent)' /\ StepSafe
       /\ \A o \in Lanes : active[o] \subseteq active'[o]
       /\ Scheduler!Dispatch({l}, e, JobsOf(active, e, body, pr), maxConcurrent)
  BY <1>1, <1>20, <1>21, <1>22, DrainStep
<1>24. WaiterHasReason'
  BY <1>1, <1>23, ReasonKept DEF IInv
<1>25. LaneStep
  <2> DEFINE r == [lane |-> l, priority |-> p, timed |-> t]
  <2>1. JobsOf(active, e, body, pr) = [jobs EXCEPT ![i] = "waiting"]
    <3> SUFFICES ASSUME NEW k \in Ids
                 PROVE  JobsOf(active, e, body, pr)[k] = [jobs EXCEPT ![i] = "waiting"][k]
      BY DEF JobsOf, jobs
    <3>1. CASE k = i
      BY <3>1, <1>3, <1>12 DEF JobsOf, jobs
    <3>2. CASE k < i
      <4>1. pr[k] = promise[k] /\ e[k] = entry[k] /\ k # i
        BY <3>2, <1>3, <1>4, <1>11 DEF Ids
      <4> HIDE DEF pr
      <4> QED BY <4>1 DEF JobsOf, jobs, JobState
    <3>3. CASE k > i
      <4>1. pr[k] = "none" /\ promise[k] = "none"
        BY <3>3, <1>2, <1>3, <1>4 DEF Core, Fresh, Ids
      <4>2. k # i
        BY <3>3, <1>4 DEF Ids
      <4> HIDE DEF pr
      <4> QED BY <4>1, <4>2 DEF JobsOf, jobs, JobState
    <3> QED BY <3>1, <3>2, <3>3, <1>4 DEF Ids
  <2>2. /\ Len(entry) + 1 = i /\ i \in Ids
        /\ r \in EntryType /\ r.lane = l
        /\ entry' = Append(entry, r)
    BY <1>1, <1>3, <1>4, <1>5 DEF e
  <2>3. Scheduler!Dispatch({l}, entry', [jobs EXCEPT ![i] = "waiting"], maxConcurrent)
    BY <2>1, <1>1, <1>23
  <2> HIDE DEF r
  <2>4. Scheduler!Accept(r)
    BY <2>2, <2>3, <1>1 DEF Scheduler!Accept, jobs
  <2> QED BY <2>2, <2>4 DEF LaneStep, Scheduler!Next
<1> QED BY <1>1, <1>23, <1>24, <1>25 DEF IInv, WaiterTyped

\* The core invariant spelled out for the state itself.
LEMMA CoreFacts ==
    ASSUME IInv
    PROVE  /\ Core(queue, active, maxConcurrent, generation, nextSequence,
                   entry, body, taskGeneration, promise)
           /\ queue \in [Lanes -> Seq(Ids)] /\ active \in [Lanes -> SUBSET Ids]
           /\ maxConcurrent \in [Lanes -> Nat] /\ generation \in [Lanes -> Nat]
           /\ nextSequence \in 1..(MaxEntries + 1) /\ nextSequence \in Nat
           /\ entry \in Seq(EntryType) /\ Len(entry) = nextSequence - 1
           /\ body \in [Ids -> BodyStates] /\ taskGeneration \in [Ids -> Nat]
           /\ promise \in [Ids -> PromiseStates]
           /\ \A i \in Ids : body[i] # "none" => i < nextSequence
           /\ \A i \in Ids : i < nextSequence => entry[i].lane \in Lanes
<1>1. Core(queue, active, maxConcurrent, generation, nextSequence,
           entry, body, taskGeneration, promise)
  BY DEF IInv, CoreInv
<1>2. /\ nextSequence \in 1..(MaxEntries + 1) /\ nextSequence \in Nat
      /\ entry \in Seq(EntryType) /\ Len(entry) = nextSequence - 1
  BY <1>1, ConstantsAssumption DEF Core, Typed
<1>3. ASSUME NEW i \in Ids, body[i] # "none"
      PROVE  i < nextSequence
  BY <1>1, <1>2, <1>3 DEF Core, Fresh, Ids
<1>4. ASSUME NEW i \in Ids, i < nextSequence
      PROVE  entry[i].lane \in Lanes
  <2>1. entry[i] \in EntryType
    BY <1>2, <1>4, ElementOfSeq DEF Ids
  <2> QED BY <2>1 DEF EntryType
<1> QED BY <1>1, <1>2, <1>3, <1>4 DEF Core, Typed

(* Completion and time out preserve the invariant and every step property. *)
LEMMA SettleStep ==
    ASSUME IInv, NEW i \in Ids, NEW s \in {"ended", "late"}, NEW o \in {"resolved", "rejected"},
           SettleTask(i, s, o)
    PROVE  IInv' /\ StepSafe /\ LaneStep
<1> DEFINE l == entry[i].lane
           freed == [active EXCEPT ![l] = @ \ {i}]
           ended == [body EXCEPT ![i] = s]
           pr == [promise EXCEPT ![i] = o]
<1>1. /\ body[i] = "running" /\ promise' = pr
      /\ UNCHANGED <<maxConcurrent, generation, nextSequence, entry, admissionClosed>>
  BY DEF SettleTask
<1>2. /\ Core(queue, active, maxConcurrent, generation, nextSequence,
              entry, body, taskGeneration, promise)
      /\ active \in [Lanes -> SUBSET Ids] /\ body \in [Ids -> BodyStates]
      /\ promise \in [Ids -> PromiseStates] /\ nextSequence \in Nat
      /\ i < nextSequence /\ l \in Lanes
  BY <1>1, CoreFacts
<1>3. /\ freed \in [Lanes -> SUBSET Ids]
      /\ \A k \in Lanes : freed[k] \subseteq active[k]
      /\ \A k \in Lanes : \A j \in Ids : j \in freed[k] <=> j \in active[k] /\ ~(k = l /\ j = i)
  BY <1>2
<1>4. /\ ended \in [Ids -> BodyStates] /\ pr \in [Ids -> PromiseStates]
      /\ \A j \in Ids : /\ ended[j] = IF j = i THEN s ELSE body[j]
                        /\ pr[j] = IF j = i THEN o ELSE promise[j]
  BY <1>2 DEF BodyStates, PromiseStates
<1> HIDE DEF l, freed, ended, pr
<1>5. Fresh(nextSequence, ended, taskGeneration, pr)
  BY <1>2, <1>4 DEF Core, Fresh, Ids
<1>6. Queued(queue, nextSequence, entry, ended)
  <2>1. ASSUME NEW k \in Lanes, NEW j \in ToSet(queue[k])
        PROVE  j \in Ids /\ j # i /\ j < nextSequence /\ entry[j].lane = k /\ body[j] = "none"
    <3>1. queue[k] \in Seq(Ids)
      BY CoreFacts
    <3>2. j \in Ids
      BY <3>1, MembersOfSeq, ElementOfSeq
    <3> QED BY <3>2, <1>1, <1>2 DEF Core, Queued
  <2> QED BY <2>1, <1>4 DEF Queued
<1>7. Held(queue, ended, pr)
  <2> SUFFICES ASSUME NEW j \in Ids
               PROVE  pr[j] = "pending" <=>
                         ended[j] = "running" \/ \E k \in Lanes : j \in ToSet(queue[k])
    BY DEF Held
  <2>1. promise[j] = "pending" <=> body[j] = "running" \/ \E k \in Lanes : j \in ToSet(queue[k])
    BY <1>2 DEF Core, Held
  <2>2. \A k \in Lanes : i \notin ToSet(queue[k])
    BY <1>1, <1>2 DEF Core, Queued
  <2>3. CASE j = i
    BY <2>2, <2>3, <1>4
  <2>4. CASE j # i
    BY <2>1, <2>4, <1>4
  <2> QED BY <2>3, <2>4
<1>8. Sorted(queue, entry) /\ GenerationBound(generation, nextSequence, entry, taskGeneration)
  BY <1>2 DEF Core
<1>9. Evolves(generation, entry, ended, pr)
  <2>1. promise[i] = "pending"
    BY <1>1, <1>2 DEF Core, Held
  <2>2. generation \in [Lanes -> Nat]
    BY CoreFacts
  <2> QED BY <2>1, <2>2, <1>1, <1>4 DEF Evolves
<1>12. JobsOf(freed, entry, ended, pr) = [jobs EXCEPT ![i] = o]
  <2> SUFFICES ASSUME NEW j \in Ids
               PROVE  JobsOf(freed, entry, ended, pr)[j] = [jobs EXCEPT ![i] = o][j]
    BY DEF JobsOf, jobs
  <2>1. CASE j = i
    BY <2>1, <1>4 DEF JobsOf, jobs
  <2>2. CASE j # i
    <3>1. /\ ended[j] = body[j] /\ pr[j] = promise[j]
          /\ promise[j] = "pending" => promise[j] \notin {"none", "resolved", "rejected"}
      BY <2>2, <1>4
    <3>2. entry[j].lane \in Lanes => (j \in freed[entry[j].lane] <=> j \in active[entry[j].lane])
      BY <2>2, <1>3
    <3>3. body[j] = "running" => entry[j].lane \in Lanes
      BY CoreFacts
    <3> QED BY <2>2, <3>1, <3>2, <3>3 DEF JobsOf, jobs, JobState
  <2> QED BY <2>1, <2>2
<1>13. jobs[i] \in {"holding", "retired"}
  <2>1. promise[i] = "pending"
    BY <1>1, <1>2 DEF Core, Held
  <2> QED BY <2>1, <1>1 DEF jobs, JobState
<1>14. ASSUME Scheduler!Dispatch({l}, entry, [jobs EXCEPT ![i] = o], maxConcurrent)
       PROVE  LaneStep
  <2>1. Scheduler!Finish(i, o)
    BY <1>1, <1>13, <1>14 DEF Scheduler!Finish, jobs, l
  <2> QED BY <2>1 DEF LaneStep, Scheduler!Next
<1>10. CASE taskGeneration[i] = generation[l]
  <2>1. /\ waiter' = Notified(freed)
        /\ DrainLanes({l}, queue, freed, maxConcurrent, generation, entry, ended)
    BY <1>10 DEF SettleTask, l, freed, ended
  <2>2. Slots(freed, generation, nextSequence, entry, ended, taskGeneration)
    <3> SUFFICES ASSUME NEW k \in Lanes, NEW j \in Ids
                 PROVE  j \in freed[k] <=> /\ j < nextSequence /\ entry[j].lane = k
                                           /\ ended[j] = "running"
                                           /\ taskGeneration[j] = generation[k]
      BY DEF Slots
    <3>1. j \in active[k] <=> /\ j < nextSequence /\ entry[j].lane = k /\ body[j] = "running"
                              /\ taskGeneration[j] = generation[k]
      BY <1>2 DEF Core, Slots
    <3>2. CASE j = i
      BY <3>1, <3>2, <1>3, <1>4 DEF l
    <3>3. CASE j # i
      BY <3>1, <3>3, <1>3, <1>4
    <3> QED BY <3>2, <3>3
  <2>3. Core(queue, freed, maxConcurrent, generation, nextSequence, entry, ended, taskGeneration, pr)
    BY <2>2, <1>2, <1>3, <1>4, <1>5, <1>6, <1>7, <1>8 DEF Core, Typed
  <2>4. Busy(Lanes \ {l}, queue, freed, maxConcurrent)
    BY <1>2 DEF IInv, Busy, freed
  <2>5. /\ CoreInv' /\ Busy(Lanes, queue, active, maxConcurrent)' /\ StepSafe
        /\ \A k \in Lanes : freed[k] \subseteq active'[k]
        /\ Scheduler!Dispatch({l}, entry, JobsOf(freed, entry, ended, pr), maxConcurrent)
    BY <2>1, <2>3, <2>4, <1>1, <1>2, <1>3, <1>9, DrainStep
  <2>6. WaiterTyped' /\ WaiterHasReason'
    <3>1. WaiterTyped
      BY DEF IInv
    <3>2. /\ waiter' \in [Waiters -> [state : WaiterStates, ids : SUBSET Ids, timed : BOOLEAN]]
          /\ \A w \in Waiters : waiter'[w].state = "waiting" =>
                \E k \in Lanes : waiter'[w].ids \cap freed[k] # {}
      BY <2>1, <3>1, NotifiedFacts
    <3>3. WaiterHasReason'
      BY <3>2, <2>5 DEF WaiterHasReason
    <3> QED BY <3>2, <3>3 DEF WaiterTyped
  <2>7. LaneStep
    BY <2>5, <1>12, <1>14
  <2> QED BY <2>5, <2>6, <2>7, <1>1 DEF IInv
<1>11. CASE taskGeneration[i] # generation[l]
  <2>1. body' = ended /\ UNCHANGED <<queue, active, taskGeneration, waiter>>
    BY <1>11 DEF SettleTask, l, ended
  <2>2. Slots(active, generation, nextSequence, entry, ended, taskGeneration)
    <3> SUFFICES ASSUME NEW k \in Lanes, NEW j \in Ids
                 PROVE  j \in active[k] <=> /\ j < nextSequence /\ entry[j].lane = k
                                            /\ ended[j] = "running"
                                            /\ taskGeneration[j] = generation[k]
      BY DEF Slots
    <3>1. j \in active[k] <=> /\ j < nextSequence /\ entry[j].lane = k /\ body[j] = "running"
                              /\ taskGeneration[j] = generation[k]
      BY <1>2 DEF Core, Slots
    <3>2. CASE j = i
      BY <3>1, <3>2, <1>4, <1>11 DEF l
    <3>3. CASE j # i
      BY <3>1, <3>3, <1>4
    <3> QED BY <3>2, <3>3
  <2>3. Core(queue, active, maxConcurrent, generation, nextSequence, entry, ended, taskGeneration, pr)
    BY <2>2, <1>2, <1>4, <1>5, <1>6, <1>7, <1>8 DEF Core, Typed
  <2>4. CoreInv'
    BY <2>1, <2>3, <1>1 DEF CoreInv
  <2>5. StepSafe
    BY <2>1, <1>1, <1>9, NothingStarts
  <2>6. Busy(Lanes, queue, active, maxConcurrent)'
    BY <2>1, <1>1 DEF IInv, Busy
  <2>7. jobs' = [jobs EXCEPT ![i] = o]
    <3> SUFFICES ASSUME NEW j \in Ids
                 PROVE  jobs'[j] = [jobs EXCEPT ![i] = o][j]
      BY DEF jobs
    <3>1. CASE j = i
      BY <3>1, <1>1, <1>4 DEF jobs, JobState
    <3>2. CASE j # i
      BY <3>2, <2>1, <1>1, <1>4 DEF jobs, JobState
    <3> QED BY <3>1, <3>2
  <2>8. Scheduler!Dispatch({l}, entry', jobs', maxConcurrent)
    BY <2>4, <2>6, <1>1, <1>2, NothingDispatched
  <2>9. LaneStep
    BY <2>7, <2>8, <1>1, <1>14
  <2> QED BY <2>1, <2>4, <2>5, <2>9, <1>1 DEF IInv, Busy, WaiterTyped, WaiterHasReason
<1> QED BY <1>10, <1>11

(* An unchanged queue state is an evolution of itself. *)
LEMMA EvolvesToItself ==
    ASSUME IInv
    PROVE  Evolves(generation, entry, body, promise)
BY CoreFacts DEF Evolves

(* The late end of a timed out task preserves everything. *)
LEMMA LateEndStep ==
    ASSUME IInv, NEW i \in Ids, LateEnd(i)
    PROVE  IInv' /\ StepSafe /\ LaneStep
<1>1. /\ body[i] = "late" /\ body' = [body EXCEPT ![i] = "ended"]
      /\ UNCHANGED <<laneVars, entry, taskGeneration, promise, nextSequence,
                     admissionClosed, waiter>>
  BY DEF LateEnd
<1>2. /\ Core(queue, active, maxConcurrent, generation, nextSequence,
              entry, body, taskGeneration, promise)
      /\ body \in [Ids -> BodyStates]
      /\ \A l \in Lanes : \A j \in ToSet(queue[l]) : j \in Ids
  BY CoreFacts, MembersOfSeq, ElementOfSeq, SMTT(20)
<1>3. /\ body' \in [Ids -> BodyStates]
      /\ \A j \in Ids : /\ body'[j] = "running" <=> body[j] = "running"
                        /\ body'[j] = "none" <=> body[j] = "none"
  BY <1>1, <1>2 DEF BodyStates
<1>4. Core(queue, active, maxConcurrent, generation, nextSequence,
           entry, body', taskGeneration, promise)
  BY <1>2, <1>3 DEF Core, Typed, Fresh, Slots, Queued, Held
<1>5. UNCHANGED <<queue, active, maxConcurrent, generation>>
  BY <1>1 DEF laneVars
<1>6. Evolves(generation, entry, body', promise)
  BY <1>3, CoreFacts DEF Evolves
<1>7. StepSafe
  BY <1>1, <1>5, <1>6, NothingStarts
<1>8. LaneStep
  <2>1. \A j \in Ids : (body'[j] = "running") = (body[j] = "running")
    BY <1>3
  <2> QED BY <2>1, <1>1, <1>5 DEF LaneStep, jobs, JobState
<1> QED BY <1>1, <1>4, <1>5, <1>7, <1>8 DEF IInv, CoreInv, Busy, WaiterTyped, WaiterHasReason

(* A live change of a lane limit preserves the invariant. *)
LEMMA SetConcurrencyStep ==
    ASSUME IInv, NEW l \in Lanes, NEW m \in 0..MaxConcurrency, SetConcurrency(l, m)
    PROVE  IInv' /\ StepSafe /\ LaneStep
<1> DEFINE clamped == IF l \in ProbeLanes /\ m < 1 THEN 1 ELSE m
           limits == [maxConcurrent EXCEPT ![l] = clamped]
           L == IF clamped > 0 THEN {l} ELSE {}
<1>1. /\ maxConcurrent' = limits
      /\ DrainLanes(L, queue, active, limits, generation, entry, body)
      /\ UNCHANGED <<generation, nextSequence, entry, promise, admissionClosed, waiter>>
  BY DEF SetConcurrency
<1>2. clamped \in Nat
  BY ConstantsAssumption
<1>3. /\ Core(queue, active, maxConcurrent, generation, nextSequence,
              entry, body, taskGeneration, promise)
      /\ active \in [Lanes -> SUBSET Ids]
      /\ maxConcurrent \in [Lanes -> Nat]
  BY CoreFacts
<1> HIDE DEF clamped
<1>4. limits \in [Lanes -> Nat] /\ \A k \in Lanes \ {l} : limits[k] = maxConcurrent[k]
  BY <1>2, <1>3
<1>5. Core(queue, active, limits, generation, nextSequence, entry, body, taskGeneration, promise)
  BY <1>3, <1>4 DEF Core, Typed
<1>6. Busy(Lanes \ L, queue, active, limits)
  <2> SUFFICES ASSUME NEW k \in Lanes \ L, queue[k] # <<>>
               PROVE  Cardinality(active[k]) >= limits[k]
    BY DEF Busy
  <2>1. CASE k # l
    BY <2>1, <1>4 DEF IInv, Busy
  <2>2. CASE k = l
    <3>1. limits[k] = 0
      BY <2>2, <1>2, <1>3
    <3> QED BY <3>1, <1>3, SlotsFinite
  <2> QED BY <2>1, <2>2
<1>7. L \in SUBSET Lanes /\ L \subseteq {l}
  OBVIOUS
<1> HIDE DEF limits, L
<1>8. /\ CoreInv' /\ Busy(Lanes, queue, active, maxConcurrent)' /\ StepSafe
      /\ \A k \in Lanes : active[k] \subseteq active'[k]
      /\ Scheduler!Dispatch({l}, entry, JobsOf(active, entry, body, promise), limits)
  BY <1>1, <1>5, <1>6, <1>7, EvolvesToItself, DrainStep
<1>9. WaiterHasReason'
  BY <1>1, <1>8, ReasonKept DEF IInv
<1>10. LaneStep
  <2>1. jobs = JobsOf(active, entry, body, promise)
    BY DEF jobs, JobState, JobsOf
  <2>2. clamped \in 0..MaxConcurrency \cup {1}
    BY <1>2 DEF clamped
  <2>3. Scheduler!SetLimit(l, clamped)
    BY <2>1, <1>1, <1>8 DEF Scheduler!SetLimit, jobs, limits
  <2> QED BY <2>2, <2>3 DEF LaneStep, Scheduler!Next
<1> QED BY <1>1, <1>8, <1>9, <1>10 DEF IInv, WaiterTyped

(* clearCommandLane preserves the invariant: the cleared promises are rejected. *)
LEMMA ClearLaneStep ==
    ASSUME IInv, NEW l \in Lanes, ClearLane(l)
    PROVE  IInv' /\ StepSafe /\ LaneStep
<1>1. /\ queue' = [queue EXCEPT ![l] = <<>>]
      /\ promise' = [i \in Ids |-> IF i \in ToSet(queue[l]) THEN "rejected" ELSE promise[i]]
      /\ UNCHANGED <<active, maxConcurrent, generation, entry, body, taskGeneration,
                     nextSequence, admissionClosed, waiter>>
  BY DEF ClearLane
<1>2. /\ Core(queue, active, maxConcurrent, generation, nextSequence,
              entry, body, taskGeneration, promise)
      /\ queue \in [Lanes -> Seq(Ids)] /\ promise \in [Ids -> PromiseStates]
  BY CoreFacts
<1>3. <<>> \in Seq(Ids) /\ ToSet(<<>>) = {} /\ SortedSeq(entry, <<>>)
  BY EmptySeq DEF ToSet, SortedSeq
<1>4. /\ queue' \in [Lanes -> Seq(Ids)] /\ queue'[l] = <<>>
      /\ \A k \in Lanes \ {l} : queue'[k] = queue[k]
      /\ promise' \in [Ids -> PromiseStates]
  BY <1>1, <1>2, <1>3 DEF PromiseStates
<1>5. Fresh(nextSequence, body, taskGeneration, promise')
  <2>1. \A i \in ToSet(queue[l]) : i < nextSequence
    BY <1>2 DEF Core, Queued
  <2>2. nextSequence \in Nat
    BY CoreFacts
  <2> QED BY <2>1, <2>2, <1>1, <1>2 DEF Core, Fresh, Ids
<1>6. Queued(queue', nextSequence, entry, body)
  BY <1>2, <1>3, <1>4 DEF Core, Queued
<1>7. Held(queue', body, promise')
  <2> SUFFICES ASSUME NEW i \in Ids
               PROVE  promise'[i] = "pending" <=>
                         body[i] = "running" \/ \E k \in Lanes : i \in ToSet(queue'[k])
    BY DEF Held
  <2>1. promise[i] = "pending" <=> body[i] = "running" \/ \E k \in Lanes : i \in ToSet(queue[k])
    BY <1>2 DEF Core, Held
  <2>2. CASE i \in ToSet(queue[l])
    <3>1. body[i] = "none" /\ entry[i].lane = l
      BY <2>2, <1>2 DEF Core, Queued
    <3>2. ASSUME NEW k \in Lanes, i \in ToSet(queue'[k])
          PROVE  FALSE
      <4>1. k # l
        BY <3>2, <1>3, <1>4
      <4>2. i \in ToSet(queue[k])
        BY <3>2, <4>1, <1>4
      <4> QED BY <3>1, <4>1, <4>2, <1>2 DEF Core, Queued
    <3> QED BY <2>2, <3>1, <3>2, <1>1
  <2>3. CASE i \notin ToSet(queue[l])
    BY <2>1, <2>3, <1>1, <1>3, <1>4
  <2> QED BY <2>2, <2>3
<1>8. Sorted(queue', entry)
  BY <1>2, <1>3, <1>4 DEF Core, Sorted
<1>9. Core(queue', active, maxConcurrent, generation, nextSequence,
           entry, body, taskGeneration, promise')
  BY <1>2, <1>4, <1>5, <1>6, <1>7, <1>8 DEF Core, Typed
<1>10. Busy(Lanes, queue', active, maxConcurrent)
  BY <1>4 DEF IInv, Busy
<1>11. Evolves(generation, entry, body, promise')
  <2>1. \A i \in Ids : i \in ToSet(queue[l]) => promise[i] = "pending"
    BY <1>2 DEF Core, Held
  <2> QED BY <2>1, <1>1, EvolvesToItself DEF Evolves
<1>12. StepSafe
  BY <1>1, <1>11, NothingStarts
<1>13. LaneStep
  <2>1. Scheduler!In(l, "waiting", entry, jobs) = ToSet(queue[l])
    <3>1. jobs = JobsOf(active, entry, body, promise)
      BY DEF jobs, JobState, JobsOf
    <3> QED BY <3>1, <1>2, JobsInLanes
  <2>2. jobs' = [i \in Ids |-> IF i \in Scheduler!In(l, "waiting", entry, jobs)
                               THEN "rejected" ELSE jobs[i]]
    BY <2>1, <1>1 DEF jobs, JobState
  <2>3. Scheduler!Clear(l)
    BY <2>2, <1>1 DEF Scheduler!Clear, jobs
  <2> QED BY <2>3 DEF LaneStep, Scheduler!Next
<1> QED BY <1>1, <1>9, <1>10, <1>12, <1>13 DEF IInv, CoreInv, Busy, WaiterTyped, WaiterHasReason

(* A reset preserves the invariant: the abandoned slots belong to old generations. *)
LEMMA ResetLanesStep ==
    ASSUME IInv, NEW L \in SUBSET Lanes, ResetLanes(L), admissionClosed' \in BOOLEAN
    PROVE  IInv' /\ StepSafe /\ LaneStep
<1> DEFINE idle == [l \in Lanes |-> IF l \in L THEN {} ELSE active[l]]
           g == Bumped(L)
           B == Backlog(L)
<1>1. /\ generation' = g
      /\ DrainLanes(B, queue, idle, maxConcurrent, g, entry, body)
      /\ waiter' = Notified(active')
      /\ UNCHANGED <<maxConcurrent, nextSequence, entry, promise>>
  BY DEF ResetLanes
<1>2. /\ Core(queue, active, maxConcurrent, generation, nextSequence,
              entry, body, taskGeneration, promise)
      /\ active \in [Lanes -> SUBSET Ids] /\ generation \in [Lanes -> Nat]
      /\ taskGeneration \in [Ids -> Nat]
      /\ \A i \in Ids : i < nextSequence => entry[i].lane \in Lanes
  BY CoreFacts
<1>3. /\ g \in [Lanes -> Nat]
      /\ \A l \in Lanes : g[l] = IF l \in L THEN generation[l] + 1 ELSE generation[l]
  BY <1>2 DEF Bumped
<1>4. /\ idle \in [Lanes -> SUBSET Ids]
      /\ \A l \in Lanes : idle[l] = IF l \in L THEN {} ELSE active[l]
  BY <1>2
<1>5. B \in SUBSET Lanes /\ B \subseteq L /\ \A l \in L : l \notin B => queue[l] = <<>>
  BY DEF Backlog
<1> HIDE DEF g, B, idle
<1>6. GenerationBound(g, nextSequence, entry, taskGeneration)
  <2> SUFFICES ASSUME NEW i \in Ids, i < nextSequence
               PROVE  taskGeneration[i] <= g[entry[i].lane]
    BY DEF GenerationBound
  <2>1. taskGeneration[i] <= generation[entry[i].lane] /\ entry[i].lane \in Lanes
    BY <1>2 DEF Core, GenerationBound
  <2> QED BY <2>1, <1>2, <1>3
<1>7. Slots(idle, g, nextSequence, entry, body, taskGeneration)
  <2> SUFFICES ASSUME NEW l \in Lanes, NEW i \in Ids
               PROVE  i \in idle[l] <=> /\ i < nextSequence /\ entry[i].lane = l
                                        /\ body[i] = "running" /\ taskGeneration[i] = g[l]
    BY DEF Slots
  <2>1. CASE l \in L
    <3>1. i < nextSequence /\ entry[i].lane = l => taskGeneration[i] <= generation[l]
      BY <1>2 DEF Core, GenerationBound
    <3> QED BY <2>1, <3>1, <1>2, <1>3, <1>4
  <2>2. CASE l \notin L
    BY <2>2, <1>2, <1>3, <1>4 DEF Core, Slots
  <2> QED BY <2>1, <2>2
<1>8. Core(queue, idle, maxConcurrent, g, nextSequence, entry, body, taskGeneration, promise)
  BY <1>2, <1>3, <1>4, <1>6, <1>7 DEF Core, Typed
<1>9. Busy(Lanes \ B, queue, idle, maxConcurrent)
  BY <1>4, <1>5 DEF IInv, Busy
<1>10. /\ CoreInv' /\ Busy(Lanes, queue, active, maxConcurrent)' /\ StepSafe
       /\ Scheduler!Dispatch(L, entry, JobsOf(idle, entry, body, promise), maxConcurrent)
  <2>1. Evolves(g, entry, body, promise)
    BY <1>2, <1>3, EvolvesToItself DEF Evolves
  <2>2. \A l \in Lanes : idle[l] \subseteq active[l]
    BY <1>4
  <2> QED BY <2>1, <2>2, <1>1, <1>5, <1>8, <1>9, DrainStep
<1>11. WaiterTyped' /\ WaiterHasReason'
  <2>1. WaiterTyped
    BY DEF IInv
  <2>2. /\ waiter' \in [Waiters -> [state : WaiterStates, ids : SUBSET Ids, timed : BOOLEAN]]
        /\ \A w \in Waiters : waiter'[w].state = "waiting" =>
              \E k \in Lanes : waiter'[w].ids \cap active'[k] # {}
    BY <2>1, <1>1, NotifiedFacts
  <2> QED BY <2>2 DEF WaiterTyped, WaiterHasReason
<1>12. LaneStep
  <2>1. jobs = JobsOf(active, entry, body, promise)
    BY DEF jobs, JobState, JobsOf
  <2>2. \A l \in Lanes : Scheduler!In(l, "holding", entry, jobs) = active[l]
    BY <2>1, <1>2, JobsInLanes
  <2>3. JobsOf(idle, entry, body, promise)
          = [i \in Ids |-> IF \E l \in L : i \in Scheduler!In(l, "holding", entry, jobs)
                           THEN "retired" ELSE jobs[i]]
    <3> SUFFICES ASSUME NEW i \in Ids
                 PROVE  JobsOf(idle, entry, body, promise)[i]
                          = IF \E l \in L : i \in active[l] THEN "retired" ELSE jobs[i]
      BY <2>2 DEF JobsOf
    <3>1. \A l \in Lanes : i \in active[l] => entry[i].lane = l /\ body[i] = "running"
      BY <1>2 DEF Core, Slots
    <3>2. body[i] = "running" => entry[i].lane \in Lanes /\ promise[i] = "pending"
      BY <1>2, CoreFacts DEF Core, Held
    <3> QED BY <3>1, <3>2, <1>4 DEF JobsOf, jobs, JobState
  <2>4. Scheduler!Retire(L)
    BY <2>3, <1>1, <1>10 DEF Scheduler!Retire, jobs
  <2> QED BY <2>4 DEF LaneStep, Scheduler!Next
<1> QED BY <1>10, <1>11, <1>12 DEF IInv

\* Calls that touch only admission or one waiter.
LEMMA QuietStep ==
    ASSUME IInv, UNCHANGED <<laneVars, taskVars, nextSequence>>,
           admissionClosed' \in BOOLEAN, WaiterTyped', WaiterHasReason'
    PROVE  IInv' /\ StepSafe /\ LaneStep
<1>1. UNCHANGED <<queue, active, maxConcurrent, generation, entry, body,
                  taskGeneration, promise, nextSequence>>
  BY DEF laneVars, taskVars
<1>2. CoreInv'
  BY <1>1 DEF IInv, CoreInv
<1>3. StepSafe
  BY <1>1, EvolvesToItself, NothingStarts
<1>4. LaneStep
  BY <1>1 DEF LaneStep, jobs, JobState
<1> QED BY <1>1, <1>2, <1>3, <1>4 DEF IInv, Busy

(* A new waiter starts with a reason to wait or is answered at once. *)
LEMMA WaitForActiveTasksStep ==
    ASSUME IInv, NEW w \in Waiters, NEW timed \in BOOLEAN, NEW expired \in BOOLEAN,
           WaitForActiveTasks(w, timed, expired)
    PROVE  IInv' /\ StepSafe /\ LaneStep
<1> DEFINE ids == UNION {active[l] : l \in Lanes}
<1>1. /\ \E answer \in WaiterStates :
            /\ answer = "waiting" => ids # {}
            /\ waiter' = [waiter EXCEPT ![w] = [state |-> answer, ids |-> ids, timed |-> timed]]
      /\ UNCHANGED <<laneVars, taskVars, nextSequence, admissionClosed>>
  BY DEF WaitForActiveTasks, WaiterStates
<1>2. active \in [Lanes -> SUBSET Ids] /\ ids \in SUBSET Ids
  BY CoreFacts
<1>3. WaiterTyped'
  BY <1>1, <1>2 DEF IInv, WaiterTyped
<1>4. active' = active
  BY <1>1 DEF laneVars
<1>5. WaiterHasReason'
  <2> SUFFICES ASSUME NEW v \in Waiters, waiter'[v].state = "waiting"
               PROVE  \E l \in Lanes : waiter'[v].ids \cap active'[l] # {}
    BY DEF WaiterHasReason
  <2>1. CASE v = w
    <3>1. waiter'[v].ids = ids /\ ids # {}
      BY <2>1, <1>1 DEF IInv, WaiterTyped
    <3> QED BY <3>1, <1>4
  <2>2. CASE v # w
    <3>1. waiter'[v] = waiter[v]
      BY <2>2, <1>1 DEF IInv, WaiterTyped
    <3> QED BY <3>1, <1>4 DEF IInv, WaiterHasReason
  <2> QED BY <2>1, <2>2
<1>6. admissionClosed' \in BOOLEAN
  BY <1>1 DEF IInv
<1> QED BY <1>1, <1>3, <1>5, <1>6, QuietStep

(* A waiter that times out is no longer owed a reason. *)
LEMMA WaiterTimeoutStep ==
    ASSUME IInv, NEW w \in Waiters, WaiterTimeout(w)
    PROVE  IInv' /\ StepSafe /\ LaneStep
<1>1. /\ waiter' = [waiter EXCEPT ![w].state = "notDrained"]
      /\ UNCHANGED <<laneVars, taskVars, nextSequence, admissionClosed>>
  BY DEF WaiterTimeout
<1>2. WaiterTyped' /\ \A v \in Waiters : waiter'[v].state = "waiting" => waiter'[v] = waiter[v]
  BY <1>1 DEF IInv, WaiterTyped, WaiterStates
<1>3. WaiterHasReason'
  BY <1>1, <1>2 DEF IInv, WaiterHasReason, laneVars
<1> QED BY <1>1, <1>2, <1>3, QuietStep DEF IInv

(* Every action preserves the invariant and obeys the step properties. *)
LEMMA NextStep ==
    ASSUME IInv, Next
    PROVE  IInv' /\ StepSafe /\ LaneStep
<1>1. CASE \E l \in Lanes, p \in Priorities, t \in TimedChoices : Enqueue(l, p, t)
  BY <1>1, EnqueueStep
<1>2. CASE \E i \in Ids, o \in {"resolved", "rejected"} : Complete(i, o)
  BY <1>2, SettleStep DEF Complete
<1>3. CASE \E i \in Ids : TimeOut(i)
  BY <1>3, SettleStep DEF TimeOut
<1>4. CASE \E i \in Ids : LateEnd(i)
  BY <1>4, LateEndStep
<1>5. CASE \E l \in Lanes, m \in 0..MaxConcurrency : SetConcurrency(l, m)
  BY <1>5, SetConcurrencyStep
<1>6. CASE \E l \in Lanes : ClearLane(l)
  BY <1>6, ClearLaneStep
<1>7. CASE \E l \in Lanes : ResetLane(l)
  <2>1. PICK l \in Lanes : ResetLane(l)
    BY <1>7
  <2>2. ResetLanes({l}) /\ admissionClosed' \in BOOLEAN
    BY <2>1 DEF ResetLane, IInv
  <2> QED BY <2>2, ResetLanesStep
<1>8. CASE ResetAllLanes
  BY <1>8, ResetLanesStep DEF ResetAllLanes
<1>9. CASE \E closed \in BOOLEAN : SetAdmission(closed)
  <2>1. /\ UNCHANGED <<laneVars, taskVars, nextSequence, waiter>>
        /\ admissionClosed' \in BOOLEAN
    BY <1>9 DEF SetAdmission
  <2>2. WaiterTyped' /\ WaiterHasReason'
    BY <2>1 DEF IInv, WaiterTyped, WaiterHasReason, laneVars
  <2> QED BY <2>1, <2>2, QuietStep
<1>10. CASE \E w \in Waiters, timed, expired \in BOOLEAN : WaitForActiveTasks(w, timed, expired)
  BY <1>10, WaitForActiveTasksStep
<1>11. CASE \E w \in Waiters : WaiterTimeout(w)
  BY <1>11, WaiterTimeoutStep
<1> QED BY <1>1, <1>2, <1>3, <1>4, <1>5, <1>6, <1>7, <1>8, <1>9, <1>10, <1>11 DEF Next

(* So does a stuttering step. *)
LEMMA StutterStep ==
    ASSUME IInv, UNCHANGED vars
    PROVE  IInv' /\ StepSafe /\ LaneStep
<1>1. UNCHANGED <<laneVars, taskVars, nextSequence, admissionClosed, waiter>>
  BY DEF vars
<1>2. WaiterTyped' /\ WaiterHasReason' /\ admissionClosed' \in BOOLEAN
  BY <1>1 DEF IInv, WaiterTyped, WaiterHasReason, laneVars
<1> QED BY <1>1, <1>2, QuietStep

(* IInv holds in every reachable state: the induction the others follow from. *)
THEOREM InductiveInvariant == Spec => []IInv
<1>1. Init => IInv
  BY InitIInv
<1>2. IInv /\ [Next]_vars => IInv'
  BY NextStep, StutterStep
<1> QED BY <1>1, <1>2, PTL DEF Spec

\* Whatever is enqueued, cleared, reset, timed out or left hanging, in any order and on
\* any number of lanes, every variable of the queue keeps its type.
THEOREM QueueTyped == Spec => []TypeOK
<1>1. IInv => TypeOK
    BY IInvParts
<1> QED
    BY <1>1, InductiveInvariant, PTL

\* The slots of a lane are exactly the current tasks that run in it, and no completion,
\* time-out or reset counts one twice (drainLane, completeTask, resetCommandLane).
THEOREM SlotsAreAccounted == Spec => []SlotAccounting
<1>1. IInv => SlotAccounting
    BY IInvParts
<1> QED
    BY <1>1, InductiveInvariant, PTL

\* No lane leaves an entry waiting beside a free slot (drainLane is called wherever a
\* slot or an entry appears).
THEOREM NoLaneIdles == Spec => []NoIdleSlot
<1>1. IInv => NoIdleSlot
    BY IInvParts
<1> QED
    BY <1>1, InductiveInvariant, PTL

\* A queue is sorted by priority and age (enqueueLaneEntry inserts, nothing reorders).
THEOREM QueuesAreSorted == Spec => []QueueSorted
<1>1. IInv => QueueSorted
    BY IInvParts
<1> QED
    BY <1>1, InductiveInvariant, PTL

\* An unsettled promise belongs to an entry that is queued or to a task that runs, so
\* that clearing and resetting lose no caller (clearCommandLane, resetCommandLane).
THEOREM PromisesAreHeld == Spec => []PendingIsHeld
<1>1. IInv => PendingIsHeld
    BY IInvParts
<1> QED
    BY <1>1, InductiveInvariant, PTL

\* An active-task waiter that waits has a task to wait for
\* (waitForActiveTasks, notifyActiveTaskWaiters).
THEOREM WaitersWaitForSomething == Spec => []WaiterHasReason
<1>1. IInv => WaiterHasReason
    BY IInvParts
<1> QED
    BY <1>1, InductiveInvariant, PTL

\* No step starts work beyond a lane's limit (the loop test of pump).
THEOREM LimitRespected == Spec => SlotsWithinLimit
<1>1. IInv /\ [Next]_vars =>
        [\A l \in Lanes : ~(active'[l] \subseteq active[l]) =>
            Cardinality(active'[l]) <= maxConcurrent'[l]]_vars
  BY NextStep DEF StepSafe, StepWithinLimit
<1> QED BY <1>1, InductiveInvariant, PTL DEF Spec, SlotsWithinLimit

\* No entry starts ahead of a more urgent or an older one of its lane
\* (enqueueLaneEntry and pump together).
THEOREM NothingOvertakes == Spec => NoOvertaking
<1>1. IInv /\ [Next]_vars =>
        [\A l \in Lanes : \A i \in Ids : Starts(i) /\ entry'[i].lane = l =>
            \A j \in ToSet(queue'[l]) : ~Behind(entry', i, j)]_vars
  BY NextStep DEF StepSafe, OrderKept
<1> QED BY <1>1, InductiveInvariant, PTL DEF Spec, NoOvertaking

\* A settled promise is final and its task never starts (drainLane's wrapper,
\* clearCommandLane and the lane timer agree on who settles).
THEOREM PromisesSettleOnce == Spec => SettledIsFinal
<1>1. IInv /\ [Next]_vars =>
        [\A i \in Ids : promise[i] \in {"resolved", "rejected"} =>
            promise'[i] = promise[i] /\ ~Starts(i)]_vars
  BY NextStep DEF StepSafe, TasksKept
<1> QED BY <1>1, InductiveInvariant, PTL DEF Spec, SettledIsFinal

(* The empty queue is an idle scheduler. *)
LEMMA InitSchedules == Init => Scheduler!Init
<1>1. Init => jobs = [i \in Ids |-> "new"]
  BY DEF Init, jobs, JobState
<1> QED BY <1>1 DEF Init, Scheduler!Init, jobs

\* The queue implements the lane scheduler: each call is one step of it or does
\* not show, whatever was enqueued, settled, timed out, cleared, reset or
\* reconfigured before (command-queue.ts as a whole).
THEOREM QueueImplementsScheduler == Spec => ImplementsLanes
<1>1. IInv /\ [Next]_vars => [Scheduler!Next]_(Scheduler!vars)
  BY NextStep, StutterStep DEF LaneStep, jobs, Scheduler!vars
<1> QED BY <1>1, InitSchedules, InductiveInvariant, PTL DEF Spec, ImplementsLanes, Scheduler!Spec

=============================================================================
