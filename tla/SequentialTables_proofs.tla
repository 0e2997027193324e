------------------------ MODULE SequentialTables_proofs ------------------------
(***************************************************************************)
(* The hash tables without a mutex: their invariants, and that they are    *)
(* maps.  The first part is the table with linear probing, whose buckets   *)
(* are followed from the home of a key to the first empty one; the second  *)
(* is the table with chains, whose functions are those that                *)
(* ConcurrentHashTable_proofs proves about.  The last part draws on the    *)
(* invariants of all containers for the types of all.                      *)
(***************************************************************************)
EXTENDS SequentialContainers_proofs, SequentialQueues_proofs

(* The table with linear probing.  From the home h of a key to the bucket i   *)
(* there are Steps(h, i, c) steps.                                           *)
Steps(h, i, c) == IF h <= i THEN i - h ELSE i - h + c

LEMMA SmallRemainder ==
    ASSUME NEW c \in Nat \ {0}, NEW a \in 0..(2 * c - 1)
    PROVE  a % c = IF a < c THEN a ELSE a - c
  <1>1. PICK r \in 0..(c - 1), q \in Int : r = a % c /\ a = c * q + r
    <2>1. a % c \in 0..(c - 1) /\ a \div c \in Int /\ a = c * (a \div c) + (a % c)
      OBVIOUS
    <2> QED
      BY <2>1
  <1>2. c * 0 = 0 /\ c * 1 = c
    OBVIOUS
  <1>3. ASSUME NEW k \in Int, k >= 2 PROVE c * k >= 2 * c
    BY <1>3
  <1>4. ASSUME NEW k \in Int, k <= -1 PROVE c * k <= -c
    BY <1>4
  <1>5. q = 0 \/ q = 1
    BY <1>1, <1>3, <1>4
  <1> QED
    BY <1>1, <1>2, <1>5

Ahead(h, d, c) == (h + d) % c
LEMMA StepsAre ==
    ASSUME NEW c \in Nat \ {0}, NEW h \in 0..(c - 1), NEW i \in 0..(c - 1)
    PROVE  /\ Steps(h, i, c) \in 0..(c - 1)
           /\ (i - h + c) % c = Steps(h, i, c)
           /\ Ahead(h, Steps(h, i, c), c) = i
  <1>1. PICK a \in 0..(2 * c - 1) : a = i - h + c
    BY i - h + c \in 0..(2 * c - 1)
  <1>2. a % c = IF a < c THEN a ELSE a - c
    BY SmallRemainder
  <1>3. PICK d \in 0..(c - 1) : d = Steps(h, i, c)
    <2>1. CASE h <= i
      BY <2>1 DEF Steps
    <2>2. CASE h > i
      BY <2>2 DEF Steps
    <2> QED
      BY <2>1, <2>2
  <1>4. PICK b \in 0..(2 * c - 1) : b = h + d
    BY h + d \in 0..(2 * c - 1)
  <1>5. b % c = IF b < c THEN b ELSE b - c
    BY SmallRemainder
  <1>6. (IF b < c THEN b ELSE b - c) = i
    BY <1>3, <1>4 DEF Steps
  <1>7. (IF a < c THEN a ELSE a - c) = d
    BY <1>1, <1>3 DEF Steps
  <1>8. a % c = d /\ b % c = i
    BY <1>2, <1>5, <1>6, <1>7
  <1> QED
    BY <1>1, <1>3, <1>4, <1>8 DEF Ahead

(* Steps ahead of h is a bucket, reached from h in so many steps. *)
LEMMA AheadIs ==
    ASSUME NEW c \in Nat \ {0}, NEW h \in 0..(c - 1), NEW d \in 0..(c - 1)
    PROVE  Ahead(h, d, c) \in 0..(c - 1) /\ Steps(h, Ahead(h, d, c), c) = d
  <1>1. PICK b \in 0..(2 * c - 1) : b = h + d
    BY h + d \in 0..(2 * c - 1)
  <1>2. b % c = IF b < c THEN b ELSE b - c
    BY SmallRemainder
  <1>3. PICK i \in 0..(c - 1) : i = Ahead(h, d, c) /\ i = IF h + d < c THEN h + d ELSE h + d - c
    BY <1>1, <1>2 DEF Ahead
  <1>4. Steps(h, i, c) = d
    BY <1>3 DEF Steps
  <1> QED
    BY <1>3, <1>4

(* b comes before j and j before e on the way from i, and a way from h reaches *)
(* b before e: then it reaches b before j.                                   *)
LEMMA Between ==
    ASSUME NEW c \in Nat \ {0}, NEW h \in 0..(c - 1), NEW i \in 0..(c - 1), NEW b \in 0..(c - 1),
           NEW j \in 0..(c - 1), NEW e \in 0..(c - 1),
           Steps(i, b, c) < Steps(i, j, c), Steps(i, j, c) < Steps(i, e, c),
           Steps(h, b, c) < Steps(h, e, c)
    PROVE  Steps(h, b, c) < Steps(h, j, c)
  BY DEF Steps

(* The same for m, which comes before e on the way from i, when b is behind e. *)
LEMMA Behind ==
    ASSUME NEW c \in Nat \ {0}, NEW h \in 0..(c - 1), NEW i \in 0..(c - 1), NEW b \in 0..(c - 1),
           NEW m \in 0..(c - 1), NEW e \in 0..(c - 1),
           Steps(i, m, c) < Steps(i, e, c), Steps(i, e, c) < Steps(i, b, c),
           Steps(h, b, c) < Steps(h, e, c)
    PROVE  Steps(h, b, c) < Steps(h, m, c)
  BY DEF Steps

-----------------------------------------------------------------------------
Nodes == [key : Keys, value : Elements]
Tables(c, x) == [size : Int, capacity : {c}, buckets : [0..(c - 1) -> Nodes \cup {Null}], erasing : {x}]

Empties(t) == {i \in DOMAIN t.buckets : t.buckets[i] = Null}
Filled(t) == DOMAIN t.buckets \ Empties(t)
Kept(t) == {t.buckets[i] : i \in Filled(t)}
HomeOf(t, b) == Hash[t.buckets[b].key] % t.capacity

(* The probe for the key in b reaches b before it reaches m. *)
Before(t, b, m) == Steps(HomeOf(t, b), b, t.capacity) < Steps(HomeOf(t, b), m, t.capacity)
Near(t, b) == \A m \in Empties(t) : Before(t, b, m)
AllNear(t) == \A b \in Filled(t) : Near(t, b)

LEMMA NullIsNoEntry == Null \notin Nodes
  BY ContainersAssumption DEF Nodes

LEMMA HomeIs ==
    ASSUME NEW c \in Nat \ {0}, NEW k \in Keys
    PROVE  Hash[k] % c \in 0..(c - 1)
  <1>1. ASSUME NEW n \in Nat PROVE n % c \in 0..(c - 1)
    OBVIOUS
  <1> QED
    BY <1>1, ContainersAssumption

(* The distance to the nearest of some buckets. *)
Nearest(h, c, places, e) == e \in places /\ \A m \in places : Steps(h, e, c) <= Steps(h, m, c)
LEMMA DistanceIs ==
    ASSUME NEW c \in Nat \ {0}, NEW t, t.capacity = c, NEW k \in Keys,
           NEW places \in SUBSET (0..(c - 1)), places # {}
    PROVE  \E e \in places :
               /\ Nearest(Hash[k] % c, c, places, e)
               /\ ProbingM!Distance(t, k, places) = Steps(Hash[k] % c, e, c)
  <1> DEFINE h == Hash[k] % c
             D == {Steps(h, i, c) : i \in places}
             m == CHOOSE x \in D : \A y \in D : x <= y
  <1>1. h \in 0..(c - 1)
    BY HomeIs
  <1> HIDE DEF h
  <1>2. \A i \in 0..(c - 1) : (i - h + c) % c = Steps(h, i, c) /\ Steps(h, i, c) \in Nat
    <2>1. ASSUME NEW i \in 0..(c - 1) PROVE (i - h + c) % c = Steps(h, i, c) /\ Steps(h, i, c) \in 0..(c - 1)
      BY <1>1, StepsAre
    <2> QED
      BY <2>1
  <1>3. ProbingM!Distance(t, k, places) = ProbingM!Min({(i - h + c) % c : i \in places})
    BY DEF ProbingM!Distance, ProbingM!Home, h
  <1>4. {(i - h + c) % c : i \in places} = D
    BY <1>2
  <1>5. ProbingM!Min(D) = m
    BY DEF ProbingM!Min
  <1>6. D \subseteq Nat /\ D # {}
    BY <1>2
  <1>7. m \in D /\ \A y \in D : m <= y
    <2> HIDE DEF D
    <2>1. \E x \in D : \A y \in D : x <= y
      BY <1>6, LeastOf
    <2> QED
      BY <2>1
  <1> HIDE DEF m
  <1>8. PICK e \in places : m = Steps(h, e, c)
    BY <1>7
  <1>9. Nearest(h, c, places, e)
    BY <1>7, <1>8 DEF Nearest
  <1> HIDE DEF D
  <1>10. ProbingM!Distance(t, k, places) = Steps(h, e, c)
    BY <1>3, <1>4, <1>5, <1>8
  <1> QED
    BY <1>9, <1>10 DEF h

LEMMA EndOfProbeIs ==
    ASSUME NEW c \in Nat \ {0}, NEW x, NEW t \in Tables(c, x), NEW k \in Keys, Empties(t) # {}
    PROVE  Nearest(Hash[k] % c, c, Empties(t), ProbingM!EndOfProbe(t, k))
  <1> DEFINE h == Hash[k] % c
  <1>1. h \in 0..(c - 1)
    BY HomeIs
  <1>2. t.capacity = c /\ Empties(t) \in SUBSET (0..(c - 1)) /\ ProbingM!EmptyPlaces(t) = Empties(t)
    BY DEF Tables, Empties, ProbingM!EmptyPlaces
  <1>3. PICK e \in Empties(t) :
            Nearest(h, c, Empties(t), e) /\ ProbingM!Distance(t, k, Empties(t)) = Steps(h, e, c)
    BY <1>2, DistanceIs
  <1> HIDE DEF h
  <1>4. Ahead(h, Steps(h, e, c), c) = e
    BY <1>1, <1>2, StepsAre
  <1>5. ProbingM!EndOfProbe(t, k) = Ahead(h, Steps(h, e, c), c)
    BY <1>2, <1>3 DEF ProbingM!EndOfProbe, ProbingM!Home, Ahead, h
  <1> QED
    BY <1>3, <1>4, <1>5 DEF h

(* Place puts the node into the nearest empty bucket, and leaves the others.  *)
Placed(t, u, e, node) ==
    /\ e \in Empties(t)
    /\ u.size = t.size + 1 /\ u.capacity = t.capacity /\ u.erasing = t.erasing
    /\ u.buckets = [t.buckets EXCEPT ![e] = node]
LEMMA PlaceIs ==
    ASSUME NEW c \in Nat \ {0}, NEW x, NEW t \in Tables(c, x), NEW node \in Nodes, Empties(t) # {}
    PROVE  \E e \in 0..(c - 1) :
               /\ Placed(t, ProbingM!Place(t, node), e, node)
               /\ Nearest(Hash[node.key] % c, c, Empties(t), e)
               /\ ProbingM!Place(t, node) \in Tables(c, x)
  <1> DEFINE e == ProbingM!EndOfProbe(t, node.key)
             u == ProbingM!Place(t, node)
  <1>1. node.key \in Keys
    BY DEF Nodes
  <1>2. Nearest(Hash[node.key] % c, c, Empties(t), e)
    BY <1>1, EndOfProbeIs
  <1>3. u = [t EXCEPT !.buckets[e] = node, !.size = @ + 1]
    BY DEF ProbingM!Place
  <1> HIDE DEF e, u
  <1>4. e \in Empties(t) /\ e \in 0..(c - 1)
    BY <1>2 DEF Nearest, Empties, Tables
  <1>5. PICK q \in Tables(c, x) : q = [t EXCEPT !.buckets[e] = node]
    BY <1>4 DEF Tables
  <1>6. q.size = t.size /\ q.buckets = [t.buckets EXCEPT ![e] = node]
        /\ q.capacity = t.capacity /\ q.erasing = t.erasing /\ t.size \in Int
    BY <1>5 DEF Tables
  <1>7. u = [q EXCEPT !.size = q.size + 1]
    BY <1>3, <1>5 DEF Tables
  <1>8. u.size = t.size + 1 /\ u.capacity = t.capacity /\ u.erasing = t.erasing
        /\ u.buckets = [t.buckets EXCEPT ![e] = node] /\ u \in Tables(c, x)
    BY <1>6, <1>7 DEF Tables
  <1> QED
    BY <1>2, <1>4, <1>8 DEF Placed, u

(* What that means for the empty buckets, the nodes kept and the probes. *)
LEMMA PlacedFacts ==
    ASSUME NEW c \in Nat \ {0}, NEW x, NEW t \in Tables(c, x), NEW u, NEW e, NEW node \in Nodes,
           Placed(t, u, e, node)
    PROVE  /\ Empties(u) = Empties(t) \ {e}
           /\ Filled(u) = Filled(t) \cup {e}
           /\ Kept(u) = Kept(t) \cup {node}
           /\ u.buckets[e] = node
           /\ \A b \in Filled(t) : b # e /\ u.buckets[b] = t.buckets[b]
           /\ \A b \in Filled(t) : Near(t, b) => Near(u, b)
  <1>1. /\ DOMAIN t.buckets = 0..(c - 1) /\ DOMAIN u.buckets = 0..(c - 1) /\ e \in 0..(c - 1)
        /\ t.buckets[e] = Null /\ u.buckets[e] = node /\ node # Null
        /\ \A b \in 0..(c - 1) : b # e => u.buckets[b] = t.buckets[b]
    BY NullIsNoEntry DEF Placed, Tables, Empties
  <1>2. Empties(u) = Empties(t) \ {e}
    BY <1>1 DEF Empties
  <1>3. Filled(u) = Filled(t) \cup {e}
    BY <1>1, <1>2 DEF Filled, Empties
  <1>4. \A b \in Filled(t) : b # e /\ u.buckets[b] = t.buckets[b]
    BY <1>1 DEF Filled, Empties
  <1>5. Kept(u) = Kept(t) \cup {node}
    BY <1>1, <1>3, <1>4 DEF Kept
  <1>6. ASSUME NEW b \in Filled(t), Near(t, b) PROVE Near(u, b)
    <2>1. HomeOf(u, b) = HomeOf(t, b) /\ u.capacity = t.capacity
      BY <1>4 DEF HomeOf, Placed
    <2> QED
      BY <1>2, <1>6, <2>1 DEF Near, Before
  <1> QED
    BY <1>1, <1>2, <1>3, <1>4, <1>5, <1>6

(* The way from h tells the buckets apart: the node put is near. *)
LEMMA StepsDiffer ==
    ASSUME NEW c \in Nat \ {0}, NEW h \in 0..(c - 1), NEW i \in 0..(c - 1), NEW j \in 0..(c - 1),
           Steps(h, i, c) <= Steps(h, j, c), i # j
    PROVE  Steps(h, i, c) < Steps(h, j, c)
  BY DEF Steps

LEMMA PlacedNear ==
    ASSUME NEW c \in Nat \ {0}, NEW x, NEW t \in Tables(c, x), NEW u, NEW e, NEW node \in Nodes,
           Placed(t, u, e, node), Nearest(Hash[node.key] % c, c, Empties(t), e)
    PROVE  Near(u, e)
  <1>1. Empties(u) = Empties(t) \ {e} /\ u.buckets[e] = node
    BY PlacedFacts
  <1>2. Empties(t) \subseteq 0..(c - 1) /\ u.capacity = c
    BY DEF Empties, Tables, Placed
  <1>3. PICK h \in 0..(c - 1) : h = Hash[node.key] % c /\ h = HomeOf(u, e)
    BY <1>1, <1>2, HomeIs DEF HomeOf, Nodes
  <1>4. ASSUME NEW m \in Empties(u) PROVE Before(u, e, m)
    <2>1. e \in 0..(c - 1) /\ m \in 0..(c - 1) /\ e # m /\ Steps(h, e, c) <= Steps(h, m, c)
      BY <1>1, <1>2, <1>3 DEF Nearest
    <2>2. Steps(h, e, c) < Steps(h, m, c)
      BY <2>1, StepsDiffer
    <2> QED
      BY <1>2, <1>3, <2>2 DEF Before
  <1> QED
    BY <1>4 DEF Near

(* The size is the number of nodes. *)
Counted(t) == t.size = t.capacity - Cardinality(Empties(t))

LEMMA EmptiesFinite ==
    ASSUME NEW c \in Nat, NEW x, NEW t \in Tables(c, x)
    PROVE  /\ IsFiniteSet(Empties(t)) /\ Cardinality(Empties(t)) \in 0..c
           /\ Counted(t) => (t.size < c <=> Empties(t) # {}) /\ t.size \in 0..c
  <1>1. Empties(t) \in SUBSET (0..(c - 1)) /\ t.capacity = c /\ t.size \in Int
    BY DEF Empties, Tables
  <1>2. IsFiniteSet(0..(c - 1)) /\ Cardinality(0..(c - 1)) = c
    BY FS_Interval
  <1>3. IsFiniteSet(Empties(t)) /\ Cardinality(Empties(t)) <= c
    BY <1>1, <1>2, FS_Subset
  <1>4. Cardinality(Empties(t)) \in Nat /\ (Cardinality(Empties(t)) = 0 <=> Empties(t) = {})
    BY <1>3, FS_CardinalityType, FS_EmptySet
  <1> QED
    BY <1>1, <1>3, <1>4 DEF Counted

(* A table that is in order. *)
Ordered(c, x, t) == t \in Tables(c, x) /\ Counted(t) /\ AllNear(t)

LEMMA PlaceKeeps ==
    ASSUME NEW c \in Nat \ {0}, NEW x, NEW t, Ordered(c, x, t), NEW node \in Nodes, t.size < c
    PROVE  /\ Ordered(c, x, ProbingM!Place(t, node))
           /\ ProbingM!Place(t, node).size = t.size + 1
           /\ Kept(ProbingM!Place(t, node)) = Kept(t) \cup {node}
  <1> DEFINE u == ProbingM!Place(t, node)
  <1>1. t \in Tables(c, x) /\ Counted(t) /\ AllNear(t) /\ t.capacity = c /\ t.size \in Int
    BY DEF Ordered, Tables
  <1>2. Empties(t) # {} /\ IsFiniteSet(Empties(t)) /\ Cardinality(Empties(t)) \in 0..c
    BY <1>1, EmptiesFinite
  <1>3. PICK e \in 0..(c - 1) :
            /\ Placed(t, u, e, node) /\ Nearest(Hash[node.key] % c, c, Empties(t), e) /\ u \in Tables(c, x)
    BY <1>1, <1>2, PlaceIs
  <1> HIDE DEF u
  <1>4. /\ Empties(u) = Empties(t) \ {e} /\ Filled(u) = Filled(t) \cup {e}
        /\ Kept(u) = Kept(t) \cup {node}
        /\ \A b \in Filled(t) : Near(t, b) => Near(u, b)
    BY <1>1, <1>3, PlacedFacts
  <1>5. Near(u, e)
    BY <1>1, <1>3, PlacedNear
  <1>6. AllNear(u)
    BY <1>1, <1>4, <1>5 DEF AllNear
  <1>7. e \in Empties(t) /\ u.size = t.size + 1 /\ u.capacity = c
    BY <1>1, <1>3 DEF Placed
  <1>8. Cardinality(Empties(u)) = Cardinality(Empties(t)) - 1
    BY <1>2, <1>4, <1>7, FS_RemoveElement
  <1>9. Counted(u)
    BY <1>1, <1>2, <1>7, <1>8 DEF Counted
  <1> QED
    BY <1>3, <1>4, <1>6, <1>7, <1>9 DEF Ordered, u

LEMMA EmptyIs ==
    ASSUME NEW c \in Nat \ {0}, NEW x, NEW t,
           t = [size |-> 0, capacity |-> c, buckets |-> ProbingM!Empty(c), erasing |-> x]
    PROVE  Ordered(c, x, t) /\ Kept(t) = {} /\ t.size = 0
  <1>1. t \in Tables(c, x) /\ t.capacity = c /\ t.size = 0 /\ t.buckets = [i \in 0..(c - 1) |-> Null]
    BY DEF Tables, ProbingM!Empty
  <1>2. Empties(t) = 0..(c - 1) /\ Filled(t) = {}
    BY <1>1 DEF Empties, Filled
  <1>3. Cardinality(Empties(t)) = c
    BY <1>2, FS_Interval
  <1> QED
    BY <1>1, <1>2, <1>3 DEF Ordered, Counted, AllNear, Kept

(* A growth: after n buckets the new table keeps the nodes of these n. *)
Refill(t, n, u) == IF t.buckets[n - 1] = Null THEN u ELSE ProbingM!Place(u, t.buckets[n - 1])
KeptBelow(t, n) == {t.buckets[i] : i \in {j \in Filled(t) : j < n}}
Refilled(c, x, t, n, u) == Ordered(2 * c, x, u) /\ Kept(u) = KeptBelow(t, n) /\ u.size <= n

LEMMA RefillKeeps ==
    ASSUME NEW c \in Nat \ {0}, NEW x, NEW t \in Tables(c, x), NEW n \in 1..c, NEW u,
           Refilled(c, x, t, n - 1, u)
    PROVE  Refilled(c, x, t, n, Refill(t, n, u)) /\ Empties(u) # {}
  <1>1. /\ DOMAIN t.buckets = 0..(c - 1) /\ \A i \in 0..(c - 1) : t.buckets[i] \in Nodes \cup {Null}
        /\ n - 1 \in 0..(c - 1)
    BY DEF Tables
  <1>2. Ordered(2 * c, x, u) /\ Kept(u) = KeptBelow(t, n - 1) /\ u.size <= n - 1 /\ u.size \in Int
    BY DEF Refilled, Ordered, Tables
  <1>3. 2 * c \in Nat \ {0} /\ u.size < 2 * c
    BY <1>2
  <1>4. Empties(u) # {}
    <2>1. PICK d \in Nat \ {0} : d = 2 * c
      BY <1>3
    <2> QED
      BY <1>2, <1>3, <2>1, EmptiesFinite DEF Ordered
  <1>5. CASE t.buckets[n - 1] = Null
    <2>1. {j \in Filled(t) : j < n} = {j \in Filled(t) : j < n - 1}
      BY <1>1, <1>5 DEF Filled, Empties
    <2> QED
      BY <1>2, <1>4, <1>5, <2>1 DEF Refilled, Refill, KeptBelow
  <1>6. CASE t.buckets[n - 1] # Null
    <2> DEFINE node == t.buckets[n - 1]
               new == ProbingM!Place(u, node)
    <2>1. node \in Nodes
      BY <1>1, <1>6
    <2>2. Ordered(2 * c, x, new) /\ new.size = u.size + 1 /\ Kept(new) = Kept(u) \cup {node}
      <3> HIDE DEF node
      <3> QED
        BY <1>2, <1>3, <2>1, PlaceKeeps
    <2>3. {j \in Filled(t) : j < n} = {j \in Filled(t) : j < n - 1} \cup {n - 1}
      BY <1>1, <1>6 DEF Filled, Empties
    <2>4. Refill(t, n, u) = new
      BY <1>6 DEF Refill
    <2> HIDE DEF new
    <2>5. Kept(new) = KeptBelow(t, n)
      BY <1>2, <2>2, <2>3 DEF KeptBelow
    <2> QED
      BY <1>2, <1>4, <2>2, <2>4, <2>5 DEF Refilled
  <1> QED
    BY <1>5, <1>6

LEMMA RehashIs ==
    ASSUME NEW c \in Nat \ {0}, NEW x, NEW t \in Tables(c, x)
    PROVE  /\ Ordered(2 * c, x, ProbingM!Rehash(t))
           /\ ProbingM!Rehash(t).size <= c
           /\ Kept(ProbingM!Rehash(t)) = Kept(t)
  <1> DEFINE first == [size |-> 0, capacity |-> 2 * c, buckets |-> ProbingM!Empty(2 * c), erasing |-> x]
             T == Tables(2 * c, x)
             step == [q \in (1..c) \X T |-> IF Empties(q[2]) = {} THEN q[2] ELSE Refill(t, q[1], q[2])]
             Is(g) == g = [n \in 0..c |-> IF n = 0 THEN first
                                          ELSE IF t.buckets[n - 1] = Null THEN g[n - 1]
                                          ELSE ProbingM!Place(g[n - 1], t.buckets[n - 1])]
             filled == CHOOSE g : Is(g)
  <1>1. t.capacity = c /\ t.erasing = x /\ 2 * c \in Nat \ {0} /\ c \in 0..c
    BY DEF Tables
  <1>2. ProbingM!Rehash(t) = filled[c]
    BY <1>1 DEF ProbingM!Rehash
  <1>3. first \in T /\ Refilled(c, x, t, 0, first)
    <2>1. PICK d \in Nat \ {0} : d = 2 * c
      BY <1>1
    <2>2. Ordered(d, x, first) /\ Kept(first) = {} /\ first.size = 0
      BY <2>1, EmptyIs
    <2>3. KeptBelow(t, 0) = {}
      BY DEF KeptBelow, Filled, Empties, Tables
    <2> HIDE DEF first
    <2> QED
      BY <2>1, <2>2, <2>3 DEF Refilled, Ordered
  <1> HIDE DEF first
  <1>4. step \in [(1..c) \X T -> T]
    <2>1. ASSUME NEW n \in 1..c, NEW u \in T, Empties(u) # {} PROVE Refill(t, n, u) \in T
      <3>1. t.buckets[n - 1] \in Nodes \cup {Null}
        BY DEF Tables
      <3>2. CASE t.buckets[n - 1] = Null
        BY <3>2 DEF Refill
      <3>3. CASE t.buckets[n - 1] # Null
        <4>1. PICK d \in Nat \ {0}, node \in Nodes : d = 2 * c /\ node = t.buckets[n - 1]
          BY <1>1, <3>1, <3>3
        <4>2. ProbingM!Place(u, node) \in Tables(d, x)
          BY <2>1, <4>1, PlaceIs
        <4> QED
          BY <3>3, <4>1, <4>2 DEF Refill
      <3> QED
        BY <3>2, <3>3
    <2>2. ASSUME NEW q \in (1..c) \X T
          PROVE  (IF Empties(q[2]) = {} THEN q[2] ELSE Refill(t, q[1], q[2])) \in T
      <3>1. q[1] \in 1..c /\ q[2] \in T
        OBVIOUS
      <3> HIDE DEF T
      <3> QED
        BY <2>1, <3>1
    <2> QED
      BY <2>2
  <1>5. PICK f : Recursive(f, c, T, first, step)
    <2> HIDE DEF step, T
    <2> QED
      BY <1>3, <1>4, RecursionUpTo
  <1>6. \A n \in 0..c : Refilled(c, x, t, n, f[n]) /\ (n # 0 => f[n] = Refill(t, n, f[n - 1]))
    <2> DEFINE S == {n \in 0..c : Refilled(c, x, t, n, f[n]) /\ (n # 0 => f[n] = Refill(t, n, f[n - 1]))}
    <2>1. 0 \in S
      BY <1>3, <1>5 DEF Recursive
    <2>2. ASSUME NEW n \in 1..c, n - 1 \in S PROVE n \in S
      <3>1. f[n - 1] \in T /\ f[n] = step[<<n, f[n - 1]>>]
        <4>1. n - 1 \in 0..c
          OBVIOUS
        <4> HIDE DEF step, T
        <4> QED
          BY <1>5, <4>1 DEF Recursive
      <3>2. Refilled(c, x, t, n, Refill(t, n, f[n - 1])) /\ Empties(f[n - 1]) # {}
        BY <2>2, RefillKeeps
      <3>3. f[n] = Refill(t, n, f[n - 1])
        BY <3>1, <3>2
      <3> QED
        BY <3>2, <3>3
    <2> HIDE DEF S
    <2>3. 0..c \subseteq S
      BY <2>1, <2>2, UpTo
    <2> QED
      BY <2>3 DEF S
  <1>7. \E g : Is(g)
    <2>1. f \in [0..c -> T] /\ f[0] = first
      BY <1>5 DEF Recursive
    <2>2. Is(f)
      BY <1>6, <2>1 DEF Refill
    <2> HIDE DEF Is
    <2> QED
      BY <2>2
  <1>8. Is(filled)
    <2> HIDE DEF Is
    <2> QED
      BY <1>7
  <1> HIDE DEF filled
  <1>9. \A n \in 0..c : Refilled(c, x, t, n, filled[n])
    <2> DEFINE S == {n \in 0..c : Refilled(c, x, t, n, filled[n])}
    <2>1. 0 \in S
      BY <1>3, <1>8
    <2>2. ASSUME NEW n \in 1..c, n - 1 \in S PROVE n \in S
      <3>1. n \in 0..c /\ n # 0
        OBVIOUS
      <3>2. filled[n] = Refill(t, n, filled[n - 1])
        BY <1>8, <3>1 DEF Refill
      <3>3. Refilled(c, x, t, n, Refill(t, n, filled[n - 1]))
        BY <2>2, RefillKeeps
      <3> QED
        BY <3>2, <3>3
    <2> HIDE DEF S
    <2>3. 0..c \subseteq S
      BY <2>1, <2>2, UpTo
    <2> QED
      BY <2>3 DEF S
  <1>10. Refilled(c, x, t, c, filled[c])
    BY <1>1, <1>9
  <1>11. KeptBelow(t, c) = Kept(t)
    BY DEF KeptBelow, Kept, Filled, Empties, Tables
  <1> QED
    BY <1>2, <1>10, <1>11 DEF Refilled

(* Bucket j emptied. *)
Hollow(u, j) == [u EXCEPT !.buckets[j] = Null, !.size = @ - 1]

LEMMA HollowFacts ==
    ASSUME NEW c \in Nat \ {0}, NEW x, NEW u \in Tables(c, x), NEW j \in Filled(u)
    PROVE  /\ Hollow(u, j) \in Tables(c, x)
           /\ Hollow(u, j).size = u.size - 1
           /\ Empties(Hollow(u, j)) = Empties(u) \cup {j}
           /\ Filled(Hollow(u, j)) = Filled(u) \ {j}
           /\ \A b \in 0..(c - 1) : b # j => Hollow(u, j).buckets[b] = u.buckets[b]
           /\ Kept(Hollow(u, j)) = {u.buckets[b] : b \in Filled(u) \ {j}}
  <1> DEFINE v == Hollow(u, j)
  <1>1. j \in 0..(c - 1) /\ DOMAIN u.buckets = 0..(c - 1) /\ u.size \in Int
    BY DEF Filled, Tables
  <1>2. PICK q \in Tables(c, x) : q = [u EXCEPT !.buckets[j] = Null]
    BY <1>1 DEF Tables
  <1>3. q.size = u.size /\ q.buckets = [u.buckets EXCEPT ![j] = Null]
    BY <1>2 DEF Tables
  <1>4. v = [q EXCEPT !.size = q.size - 1]
    BY <1>2 DEF Hollow, Tables
  <1> HIDE DEF v
  <1>5. v \in Tables(c, x) /\ v.size = u.size - 1 /\ v.buckets = [u.buckets EXCEPT ![j] = Null]
    BY <1>1, <1>3, <1>4 DEF Tables
  <1>6. /\ DOMAIN v.buckets = 0..(c - 1) /\ v.buckets[j] = Null
        /\ \A b \in 0..(c - 1) : b # j => v.buckets[b] = u.buckets[b]
    BY <1>1, <1>5
  <1>7. Empties(v) = Empties(u) \cup {j}
    BY <1>1, <1>6 DEF Empties
  <1>8. Filled(v) = Filled(u) \ {j}
    BY <1>1, <1>6, <1>7 DEF Filled
  <1>9. \A b \in Filled(v) : v.buckets[b] = u.buckets[b]
    BY <1>1, <1>6, <1>8 DEF Filled
  <1>10. Kept(v) = {u.buckets[b] : b \in Filled(u) \ {j}}
    BY <1>8, <1>9 DEF Kept
  <1> QED
    BY <1>5, <1>6, <1>7, <1>8, <1>10 DEF v

LEMMA NearestExists ==
    ASSUME NEW c \in Nat \ {0}, NEW h \in 0..(c - 1), NEW places \in SUBSET (0..(c - 1)), places # {}
    PROVE  \E e \in places : Nearest(h, c, places, e)
  <1> DEFINE D == {Steps(h, i, c) : i \in places}
  <1>1. \A i \in places : Steps(h, i, c) \in Nat
    <2>1. ASSUME NEW i \in places PROVE Steps(h, i, c) \in 0..(c - 1)
      BY StepsAre
    <2> QED
      BY <2>1
  <1>2. D \subseteq Nat /\ D # {}
    BY <1>1
  <1>3. PICK m \in D : \A y \in D : m <= y
    <2> HIDE DEF D
    <2> QED
      BY <1>2, LeastOf
  <1>4. PICK e \in places : m = Steps(h, e, c)
    OBVIOUS
  <1> QED
    BY <1>3, <1>4 DEF Nearest

(* An erase has emptied bucket i of t, which was in order, and has put back   *)
(* the m nodes after it.  A bucket that had a node, `hole`, is empty now; the *)
(* nodes up to m steps behind i are near, the others where they were.        *)
ErasedUpTo(c, x, t, i, m, u, hole) ==
    /\ u \in Tables(c, x) /\ u.size = t.size - 1
    /\ Kept(u) = {t.buckets[b] : b \in Filled(t) \ {i}}
    /\ hole \in Filled(t) /\ Steps(i, hole, c) <= m
    /\ Empties(u) = Empties(t) \cup {hole}
    /\ \A b \in 0..(c - 1) : Steps(i, b, c) > m => u.buckets[b] = t.buckets[b]
    /\ \A b \in Filled(u) : Steps(i, b, c) <= m => Near(u, b)

LEMMA FirstStage ==
    ASSUME NEW c \in Nat \ {0}, NEW x, NEW t \in Tables(c, x), NEW i \in Filled(t)
    PROVE  ErasedUpTo(c, x, t, i, 0, Hollow(t, i), i)
  <1>0. PICK u : u = Hollow(t, i)
    OBVIOUS
  <1>1. /\ u \in Tables(c, x) /\ u.size = t.size - 1
        /\ Empties(u) = Empties(t) \cup {i} /\ Filled(u) = Filled(t) \ {i}
        /\ \A b \in 0..(c - 1) : b # i => u.buckets[b] = t.buckets[b]
        /\ Kept(u) = {t.buckets[b] : b \in Filled(t) \ {i}}
    BY <1>0, HollowFacts
  <1>2. i \in 0..(c - 1) /\ Filled(t) \subseteq 0..(c - 1)
    BY DEF Filled, Tables
  <1>3. Steps(i, i, c) = 0 /\ \A b \in 0..(c - 1) : b # i => Steps(i, b, c) > 0
    BY <1>2 DEF Steps
  <1>4. \A b \in 0..(c - 1) : Steps(i, b, c) > 0 => u.buckets[b] = t.buckets[b]
    BY <1>1, <1>3
  <1>5. \A b \in Filled(u) : ~(Steps(i, b, c) <= 0)
    BY <1>1, <1>2, <1>3 DEF Steps
  <1> QED
    BY <1>0, <1>1, <1>3, <1>4, <1>5 DEF ErasedUpTo

(* The next node goes where the hole is, or back where it was. *)
LEMMA NextStage ==
    ASSUME NEW c \in Nat \ {0}, NEW x, NEW t \in Tables(c, x), AllNear(t), NEW i \in Filled(t),
           NEW e \in Empties(t), Nearest(i, c, Empties(t), e),
           NEW m \in Nat, m + 1 < Steps(i, e, c), NEW u, NEW hole, ErasedUpTo(c, x, t, i, m, u, hole),
           NEW j \in 0..(c - 1), Steps(i, j, c) = m + 1
    PROVE  /\ u.buckets[j] # Null
           /\ \E new : ErasedUpTo(c, x, t, i, m + 1, ProbingM!Place(Hollow(u, j), u.buckets[j]), new)
  <1>1. /\ u \in Tables(c, x) /\ u.size = t.size - 1 /\ Kept(u) = {t.buckets[b] : b \in Filled(t) \ {i}}
        /\ hole \in Filled(t) /\ Steps(i, hole, c) <= m /\ Empties(u) = Empties(t) \cup {hole}
        /\ \A b \in 0..(c - 1) : Steps(i, b, c) > m => u.buckets[b] = t.buckets[b]
        /\ \A b \in Filled(u) : Steps(i, b, c) <= m => Near(u, b)
    BY DEF ErasedUpTo
  <1>2. /\ DOMAIN t.buckets = 0..(c - 1) /\ DOMAIN u.buckets = 0..(c - 1)
        /\ Filled(t) \subseteq 0..(c - 1) /\ Empties(t) \subseteq 0..(c - 1) /\ i \in 0..(c - 1)
        /\ t.capacity = c /\ u.capacity = c /\ t.size \in Int
        /\ \A b \in 0..(c - 1) : u.buckets[b] \in Nodes \cup {Null}
    BY <1>1 DEF Tables, Filled, Empties
  <1>3. /\ \A b \in 0..(c - 1) : Steps(i, b, c) \in 0..(c - 1)
    BY <1>2, StepsAre
  <1>4. j \in Filled(t) /\ u.buckets[j] = t.buckets[j]
    <2>1. j \notin Empties(t)
      BY <1>2, <1>3 DEF Nearest
    <2> QED
      BY <1>1, <1>2, <2>1 DEF Filled
  <1>5. PICK node \in Nodes : node = u.buckets[j]
    BY <1>2, <1>4 DEF Filled, Empties
  <1>6. j \in Filled(u) /\ j # hole
    BY <1>1, <1>2, <1>3, <1>4, <1>5, NullIsNoEntry DEF Filled, Empties
  <1>7. PICK v : v = Hollow(u, j)
    OBVIOUS
  <1>8. /\ v \in Tables(c, x) /\ v.size = u.size - 1
        /\ Empties(v) = Empties(u) \cup {j} /\ Filled(v) = Filled(u) \ {j}
        /\ \A b \in 0..(c - 1) : b # j => v.buckets[b] = u.buckets[b]
        /\ Kept(v) = {u.buckets[b] : b \in Filled(u) \ {j}}
    BY <1>1, <1>6, <1>7, HollowFacts
  <1> DEFINE w == ProbingM!Place(v, node)
             h == Hash[node.key] % c
  <1>9. PICK p \in 0..(c - 1) :
            Placed(v, w, p, node) /\ Nearest(h, c, Empties(v), p) /\ w \in Tables(c, x)
    <2>1. Empties(v) # {}
      BY <1>8
    <2> QED
      BY <1>8, <2>1, PlaceIs
  <1>10. h \in 0..(c - 1) /\ h = HomeOf(t, j)
    BY <1>2, <1>4, <1>5, HomeIs DEF Nodes, HomeOf
  <1> HIDE DEF w, h
  <1>11. /\ Empties(w) = Empties(v) \ {p} /\ Filled(w) = Filled(v) \cup {p}
         /\ Kept(w) = Kept(v) \cup {node} /\ w.buckets[p] = node
         /\ \A b \in Filled(v) : b # p /\ w.buckets[b] = v.buckets[b]
    BY <1>8, <1>9, PlacedFacts
  <1>12. Near(w, p)
    BY <1>8, <1>9, PlacedNear DEF h
  (* The old place is nearer than what was empty before. *)
  <1>13. p = hole \/ p = j
    <2>1. ASSUME NEW b \in Empties(t) PROVE p # b
      <3>1. Steps(h, j, c) < Steps(h, b, c)
        BY <1>2, <1>4, <1>10 DEF AllNear, Near, Before
      <3>2. Steps(h, p, c) <= Steps(h, j, c)
        BY <1>8, <1>9 DEF Nearest
      <3>3. Steps(h, b, c) \in Int /\ Steps(h, p, c) \in Int /\ Steps(h, j, c) \in Int
        <4>1. \A a \in 0..(c - 1) : Steps(h, a, c) \in 0..(c - 1)
          <5> HIDE DEF h
          <5> QED
            BY <1>10, StepsAre
        <4> QED
          BY <1>2, <4>1
      <3> QED
        BY <3>1, <3>2, <3>3
    <2> QED
      BY <1>1, <1>8, <1>9, <2>1 DEF Placed
  <1>14. PICK new : {new, p} = {hole, j} /\ new # p /\ new \in Filled(t) /\ Steps(i, new, c) <= m + 1
    <2>1. Steps(i, hole, c) <= m + 1 /\ Steps(i, j, c) <= m + 1
      BY <1>1, <1>2, <1>3
    <2> QED
      BY <1>1, <1>4, <1>6, <1>13, <2>1
  <1>15. Empties(w) = Empties(t) \cup {new}
    <2>1. hole \notin Empties(t) /\ j \notin Empties(t)
      BY <1>1, <1>4 DEF Filled
    <2> QED
      BY <1>1, <1>8, <1>11, <1>14, <2>1
  <1>16. w.size = t.size - 1 /\ w.capacity = c
    <2>1. w.size = v.size + 1 /\ w.capacity = v.capacity
      BY <1>9 DEF Placed
    <2>2. v.capacity = c
      BY <1>8 DEF Tables
    <2> QED
      BY <1>1, <1>2, <1>8, <2>1, <2>2
  <1>17. Kept(w) = Kept(u)
    <2>1. Kept(u) = {u.buckets[b] : b \in Filled(u) \ {j}} \cup {u.buckets[j]}
      BY <1>6 DEF Kept
    <2> QED
      BY <1>5, <1>8, <1>11, <2>1
  <1>18. ASSUME NEW b \in 0..(c - 1), Steps(i, b, c) > m + 1 PROVE w.buckets[b] = t.buckets[b]
    <2>1. b # j /\ b # hole /\ Steps(i, b, c) > m
      <3>1. PICK d \in 0..(c - 1) : d = Steps(i, b, c)
        BY <1>3
      <3> QED
        BY <1>1, <1>18, <3>1
    <2>2. v.buckets[b] = t.buckets[b]
      BY <1>1, <1>8, <2>1
    <2>3. w.buckets = [v.buckets EXCEPT ![p] = node] /\ DOMAIN v.buckets = 0..(c - 1)
      BY <1>8, <1>9 DEF Placed, Tables
    <2> QED
      BY <1>13, <2>1, <2>2, <2>3
  <1>19. ASSUME NEW b \in Filled(w), Steps(i, b, c) <= m + 1 PROVE Near(w, b)
    <2>1. CASE b = p
      BY <1>12, <2>1
    <2>2. CASE b # p
      <3>1. b \in Filled(v) /\ b \in Filled(u) /\ b # j /\ b \in 0..(c - 1)
        BY <1>2, <1>8, <1>11, <2>2 DEF Filled
      <3>2. w.buckets[b] = u.buckets[b] /\ u.buckets[b] \in Nodes
        BY <1>2, <1>8, <1>11, <3>1 DEF Filled, Empties
      <3>3. Steps(i, b, c) # m + 1
        BY <1>2, <3>1 DEF Steps
      <3>4. Steps(i, b, c) <= m
        BY <1>3, <1>19, <3>1, <3>3
      <3>5. PICK g \in 0..(c - 1) : g = HomeOf(w, b) /\ g = HomeOf(u, b)
        BY <1>2, <1>16, <3>2, HomeIs DEF HomeOf, Nodes
      <3>6. \A a \in Empties(u) : Steps(g, b, c) < Steps(g, a, c)
        BY <1>1, <1>2, <3>1, <3>4, <3>5 DEF Near, Before
      <3>7. Steps(g, b, c) < Steps(g, j, c)
        <4>1. e \in 0..(c - 1) /\ Steps(g, b, c) < Steps(g, e, c)
          BY <1>1, <1>2, <3>6
        <4>2. Steps(i, b, c) < Steps(i, j, c) /\ Steps(i, j, c) < Steps(i, e, c)
          BY <1>3, <3>1, <3>4
        <4> QED
          BY <1>2, <3>1, <3>5, <4>1, <4>2, Between
      <3>8. \A a \in Empties(w) : Steps(g, b, c) < Steps(g, a, c)
        BY <1>1, <1>8, <1>11, <3>6, <3>7
      <3> QED
        BY <1>16, <3>5, <3>8 DEF Near, Before
    <2> QED
      BY <2>1, <2>2
  <1>20. ErasedUpTo(c, x, t, i, m + 1, w, new)
    BY <1>1, <1>9, <1>14, <1>15, <1>16, <1>17, <1>18, <1>19 DEF ErasedUpTo
  <1> QED
    BY <1>5, <1>7, <1>20, NullIsNoEntry DEF w

(* At the next bucket that was empty all the nodes are near. *)
LEMMA LastStage ==
    ASSUME NEW c \in Nat \ {0}, NEW x, NEW t \in Tables(c, x), AllNear(t), Counted(t), NEW i \in Filled(t),
           NEW e \in Empties(t), NEW m \in Nat, m + 1 = Steps(i, e, c), NEW u, NEW hole,
           ErasedUpTo(c, x, t, i, m, u, hole)
    PROVE  Ordered(c, x, u) /\ u.buckets[e] = Null
  <1>1. /\ u \in Tables(c, x) /\ u.size = t.size - 1
        /\ hole \in Filled(t) /\ Steps(i, hole, c) <= m /\ Empties(u) = Empties(t) \cup {hole}
        /\ \A b \in 0..(c - 1) : Steps(i, b, c) > m => u.buckets[b] = t.buckets[b]
        /\ \A b \in Filled(u) : Steps(i, b, c) <= m => Near(u, b)
    BY DEF ErasedUpTo
  <1>2. /\ DOMAIN t.buckets = 0..(c - 1) /\ DOMAIN u.buckets = 0..(c - 1)
        /\ Filled(t) \subseteq 0..(c - 1) /\ Empties(t) \subseteq 0..(c - 1) /\ i \in 0..(c - 1)
        /\ t.capacity = c /\ u.capacity = c /\ t.size \in Int
        /\ \A b \in 0..(c - 1) : u.buckets[b] \in Nodes \cup {Null}
    BY <1>1 DEF Tables, Filled, Empties
  <1>3. /\ \A b \in 0..(c - 1) : Steps(i, b, c) \in 0..(c - 1)
    BY <1>2, StepsAre
  <1>4. ASSUME NEW b \in Filled(u), Steps(i, b, c) > m PROVE Near(u, b)
    <2>1. b \in 0..(c - 1) /\ b \notin Empties(u) /\ b # e /\ u.buckets[b] \in Nodes
          /\ u.buckets[b] = t.buckets[b] /\ b \in Filled(t) /\ hole \in 0..(c - 1)
      BY <1>1, <1>2, <1>4 DEF Filled, Empties
    <2>2. PICK g \in 0..(c - 1) : g = HomeOf(u, b) /\ g = HomeOf(t, b)
      BY <1>2, <2>1, HomeIs DEF HomeOf, Nodes
    <2>3. \A a \in Empties(t) : Steps(g, b, c) < Steps(g, a, c)
      BY <1>2, <2>1, <2>2 DEF AllNear, Near, Before
    <2>4. Steps(i, e, c) # Steps(i, b, c)
      BY <1>2, <2>1 DEF Steps
    <2>5. Steps(i, hole, c) < Steps(i, e, c) /\ Steps(i, e, c) < Steps(i, b, c)
      <3>1. PICK o \in 0..(c - 1), d \in 0..(c - 1) : o = Steps(i, hole, c) /\ d = Steps(i, b, c)
        BY <1>3, <2>1
      <3>2. o <= m /\ d > m /\ d # m + 1
        BY <1>1, <1>4, <2>4, <3>1
      <3>3. o < m + 1 /\ m + 1 < d
        BY <3>1, <3>2
      <3> QED
        BY <3>1, <3>3
    <2>6. Steps(g, b, c) < Steps(g, hole, c)
      BY <1>2, <2>1, <2>2, <2>3, <2>5, Behind
    <2> QED
      BY <1>1, <1>2, <2>2, <2>3, <2>6 DEF Near, Before
  <1>5. AllNear(u)
    <2>1. ASSUME NEW b \in Filled(u) PROVE Near(u, b)
      <3>1. Steps(i, b, c) \in Int
        BY <1>2, <1>3 DEF Filled
      <3> QED
        BY <1>1, <1>4, <3>1
    <2> QED
      BY <2>1 DEF AllNear
  <1>6. IsFiniteSet(Empties(t)) /\ Cardinality(Empties(t)) \in 0..c
    BY EmptiesFinite
  <1>7. Cardinality(Empties(u)) = Cardinality(Empties(t)) + 1
    <2>1. hole \notin Empties(t)
      BY <1>1 DEF Filled
    <2> QED
      <3>1. Cardinality(Empties(t) \cup {hole}) = Cardinality(Empties(t)) + 1
        BY <1>6, <2>1, FS_AddElement
      <3> QED
        BY <1>1, <3>1
  <1>8. Counted(u)
    BY <1>1, <1>2, <1>6, <1>7 DEF Counted
  <1> QED
    BY <1>1, <1>5, <1>8 DEF Ordered, Empties

(* What erase searches for is no matter of the order. *)
LEMMA SearchSet ==
    ASSUME NEW c \in Nat \ {0}, NEW x, NEW t, Ordered(c, x, t), NEW y
    PROVE  LET s == [t EXCEPT !.erasing = y]
           IN  Ordered(c, y, s) /\ s.size = t.size /\ s.capacity = c /\ s.buckets = t.buckets /\ s.erasing = y
  <1>1. PICK s : s = [t EXCEPT !.erasing = y]
    OBVIOUS
  <1>2. t \in Tables(c, x) /\ Counted(t) /\ AllNear(t)
    BY DEF Ordered
  <1>3. /\ s \in Tables(c, y) /\ s.size = t.size /\ s.capacity = t.capacity /\ t.capacity = c
        /\ s.buckets = t.buckets /\ s.erasing = y
    BY <1>1, <1>2 DEF Tables
  <1>4. Empties(s) = Empties(t) /\ Filled(s) = Filled(t)
    BY <1>3 DEF Empties, Filled
  <1>5. Counted(s) /\ AllNear(s)
    BY <1>2, <1>3, <1>4 DEF Counted, AllNear, Near, Before, HomeOf
  <1> QED
    BY <1>1, <1>3, <1>5 DEF Ordered

LEMMA TakeOutIs ==
    ASSUME NEW c \in Nat \ {0}, NEW x, NEW t, Ordered(c, x, t), NEW i \in Filled(t), Empties(t) # {}
    PROVE  /\ Ordered(c, Null, ProbingM!TakeOut(t, i))
           /\ ProbingM!TakeOut(t, i).size = t.size - 1
           /\ Kept(ProbingM!TakeOut(t, i)) = {t.buckets[b] : b \in Filled(t) \ {i}}
  <1>1. PICK s : s = [t EXCEPT !.erasing = Null]
    OBVIOUS
  <1>2. t \in Tables(c, x) /\ Ordered(c, Null, s)
    BY <1>1, SearchSet DEF Ordered
  <1>3. s \in Tables(c, Null) /\ s.size = t.size /\ s.capacity = t.capacity /\ s.buckets = t.buckets
    BY <1>1, <1>2 DEF Tables
  <1>4. Empties(s) = Empties(t) /\ Filled(s) = Filled(t)
    BY <1>3 DEF Empties, Filled
  <1>5. Counted(s) /\ AllNear(s)
    BY <1>2 DEF Ordered
  <1>6. PICK e \in Empties(s) : Nearest(i, c, Empties(s), e)
    <2>1. i \in 0..(c - 1) /\ Empties(s) \in SUBSET (0..(c - 1)) /\ Empties(s) # {}
      BY <1>3, <1>4 DEF Filled, Empties, Tables
    <2> QED
      BY <2>1, NearestExists
  <1>7. i \in 0..(c - 1) /\ e \in 0..(c - 1) /\ e # i /\ i \in Filled(s)
    BY <1>3, <1>4 DEF Filled, Empties, Tables
  <1>8. PICK d \in 1..(c - 1) : d = Steps(i, e, c)
    <2>1. Steps(i, e, c) \in 0..(c - 1)
      BY <1>7, StepsAre
    <2>2. Steps(i, e, c) # 0
      BY <1>7 DEF Steps
    <2> QED
      BY <2>1, <2>2
  (* The buckets after i, one by one. *)
  <1>9. PICK v : v = Hollow(s, i) /\ v \in Tables(c, Null) /\ v.capacity = c
    <2>1. Hollow(s, i) \in Tables(c, Null)
      BY <1>3, <1>7, HollowFacts
    <2> QED
      BY <2>1 DEF Tables
  <1> DEFINE N == c - 1
             T == [table : Tables(c, Null), moving : BOOLEAN]
             Turn(n, r) ==
                 IF r.moving /\ r.table.buckets[(i + n) % c] # Null
                 THEN [r EXCEPT !.table =
                          ProbingM!Place([r.table EXCEPT !.buckets[(i + n) % c] = Null, !.size = @ - 1],
                                         r.table.buckets[(i + n) % c])]
                 ELSE [r EXCEPT !.moving = FALSE]
             first == [table |-> v, moving |-> TRUE]
             step == [q \in (1..N) \X T |-> Turn(q[1], q[2])]
             Is(g) == g = [n \in 0..N |-> IF n = 0 THEN first ELSE Turn(n, g[n - 1])]
             moved == CHOOSE g : Is(g)
  <1>10. ProbingM!TakeOut(t, i) = moved[N].table
    <2>1. [t EXCEPT !.buckets[i] = Null, !.size = @ - 1, !.erasing = Null] = v
      BY <1>1, <1>2, <1>9 DEF Hollow, Tables
    <2>2. ProbingM!TakeOut(t, i) = ProbingM!PutBack(v, i)
      BY <2>1 DEF ProbingM!TakeOut
    <2> DEFINE In(n, r, k) ==
                   IF r.moving /\ r.table.buckets[(i + n) % k] # Null
                   THEN [r EXCEPT !.table =
                            ProbingM!Place([r.table EXCEPT !.buckets[(i + n) % k] = Null, !.size = @ - 1],
                                           r.table.buckets[(i + n) % k])]
                   ELSE [r EXCEPT !.moving = FALSE]
               Result(k) ==
                   LET moving == CHOOSE g : g = [n \in 0..(k - 1) |-> IF n = 0 THEN first ELSE In(n, g[n - 1], k)]
                   IN  moving[k - 1].table
    <2>3. ProbingM!PutBack(v, i) = Result(v.capacity)
      BY DEF ProbingM!PutBack
    <2>4. Result(c) = moved[N].table
      OBVIOUS
    <2> HIDE DEF Result
    <2> QED
      BY <1>9, <2>2, <2>3, <2>4
  <1>11. first \in T /\ N \in Nat
    BY <1>9
  <1> HIDE DEF first
  <1>12. ASSUME NEW n \in 1..N, NEW r \in T
         PROVE  Turn(n, r) \in T
    <2>1. PICK j \in 0..(c - 1) : j = (i + n) % c
      <3>1. n \in 0..(c - 1)
        OBVIOUS
      <3> QED
        BY <1>7, <3>1, AheadIs DEF Ahead
    <2>2. PICK u \in Tables(c, Null) : u = r.table
      OBVIOUS
    <2>3. CASE r.moving /\ u.buckets[j] # Null
      <3>1. j \in Filled(u) /\ u.buckets[j] \in Nodes
        BY <2>3 DEF Filled, Empties, Tables
      <3>2. Hollow(u, j) \in Tables(c, Null) /\ Empties(Hollow(u, j)) # {}
        BY <3>1, HollowFacts
      <3>3. ProbingM!Place(Hollow(u, j), u.buckets[j]) \in Tables(c, Null)
        BY <3>1, <3>2, PlaceIs
      <3>4. Turn(n, r) = [r EXCEPT !.table = ProbingM!Place(Hollow(u, j), u.buckets[j])]
        BY <2>1, <2>2, <2>3 DEF Hollow
      <3> QED
        BY <3>3, <3>4
    <2>4. CASE ~(r.moving /\ u.buckets[j] # Null)
      <3>1. Turn(n, r) = [r EXCEPT !.moving = FALSE]
        BY <2>1, <2>2, <2>4
      <3> QED
        BY <3>1
    <2> QED
      BY <2>3, <2>4
  <1>13. step \in [(1..N) \X T -> T]
    <2>1. ASSUME NEW q \in (1..N) \X T PROVE Turn(q[1], q[2]) \in T
      <3>1. q[1] \in 1..N /\ q[2] \in T
        OBVIOUS
      <3> HIDE DEF T, Turn
      <3> QED
        BY <1>12, <3>1
    <2> HIDE DEF Turn, T
    <2> QED
      BY <2>1
  <1>14. PICK f : Recursive(f, N, T, first, step)
    <2> HIDE DEF step, T, N
    <2> QED
      BY <1>11, <1>13, RecursionUpTo
  <1>15. Is(moved)
    <2>1. f \in [0..N -> T] /\ f[0] = first
      BY <1>14 DEF Recursive
    <2>2. ASSUME NEW n \in 1..N PROVE f[n] = Turn(n, f[n - 1])
      <3>1. n - 1 \in 0..N
        OBVIOUS
      <3> HIDE DEF T, Turn, N
      <3>2. f[n - 1] \in T /\ f[n] = step[<<n, f[n - 1]>>]
        BY <1>14, <2>1, <3>1 DEF Recursive
      <3> QED
        BY <3>2
    <2> HIDE DEF Turn
    <2>3. Is(f)
      BY <2>1, <2>2
    <2> HIDE DEF Is
    <2>4. \E g : Is(g)
      BY <2>3
    <2> QED
      BY <2>4
  <1> HIDE DEF moved
  (* The stage reached, until the empty bucket that ends the cluster. *)
  <1> DEFINE Reached(n, r) ==
                 /\ r \in T
                 /\ r.moving <=> n < d
                 /\ \E hole : ErasedUpTo(c, Null, s, i, IF n < d THEN n ELSE d - 1, r.table, hole)
             S == {n \in 0..N : Reached(n, moved[n])}
  <1>16. 0 \in S
    <2>1. ErasedUpTo(c, Null, s, i, 0, v, i)
      BY <1>3, <1>7, <1>9, FirstStage
    <2>2. moved[0] = first
      <3> HIDE DEF Turn, first
      <3> QED
        BY <1>11, <1>15
    <2>3. first.moving /\ first.table = v
      BY DEF first
    <2>4. 0 < d /\ 0 \in 0..N
      BY <1>8, <1>11
    <2> QED
      BY <1>11, <2>1, <2>2, <2>3, <2>4
  <1>17. ASSUME NEW n \in 1..N, n - 1 \in S PROVE n \in S
    <2>1. n \in 0..N /\ n # 0 /\ n \in 0..(c - 1)
      OBVIOUS
    <2>2. PICK r : r = moved[n - 1] /\ moved[n] = Turn(n, r) /\ Reached(n - 1, r)
      BY <1>15, <1>17, <2>1
    <2>3. PICK j \in 0..(c - 1) : j = (i + n) % c /\ Steps(i, j, c) = n
      BY <1>7, <2>1, AheadIs DEF Ahead
    <2>4. Turn(n, r) \in T /\ r \in T
      BY <1>12, <2>2
    <2>5. SUFFICES Reached(n, Turn(n, r))
      BY <2>1, <2>2
    <2>6. PICK u : u = r.table
      OBVIOUS
    <2>7. PICK m \in Nat : m = n - 1 /\ m + 1 = n
      BY <2>1
    <2>8. CASE n < d
      <3>1. PICK hole : r.moving /\ ErasedUpTo(c, Null, s, i, m, u, hole)
        BY <2>2, <2>6, <2>7, <2>8
      <3>2. /\ u.buckets[j] # Null
            /\ \E new : ErasedUpTo(c, Null, s, i, m + 1, ProbingM!Place(Hollow(u, j), u.buckets[j]), new)
        BY <1>3, <1>5, <1>6, <1>7, <1>8, <2>3, <2>7, <2>8, <3>1, NextStage
      <3>3. PICK w, new : /\ w = ProbingM!Place(Hollow(u, j), u.buckets[j])
                          /\ ErasedUpTo(c, Null, s, i, n, w, new)
        BY <2>7, <3>2
      <3>4. Turn(n, r) = [r EXCEPT !.table = w]
        BY <2>3, <2>6, <3>1, <3>2, <3>3 DEF Hollow
      <3>5. Turn(n, r).moving /\ Turn(n, r).table = w
        <4> HIDE DEF Turn
        <4> QED
          BY <2>4, <3>1, <3>4
      <3> HIDE DEF Turn
      <3> QED
        BY <2>4, <2>8, <3>3, <3>5
    <2>9. CASE n >= d
      <3>1. PICK hole : ErasedUpTo(c, Null, s, i, d - 1, u, hole)
        BY <1>8, <2>2, <2>6, <2>7, <2>9
      <3>2. ~(r.moving /\ u.buckets[j] # Null)
        <4>1. CASE n = d
          <5>1. u.buckets[e] = Null
            BY <1>3, <1>5, <1>6, <1>7, <1>8, <2>7, <3>1, <4>1, LastStage
          <5>2. j = e
            BY <1>7, <1>8, <2>3, <4>1 DEF Steps
          <5> QED
            BY <5>1, <5>2
        <4>2. CASE n > d
          BY <1>8, <2>2, <2>7, <4>2
        <4> QED
          BY <1>8, <2>9, <4>1, <4>2
      <3>3. Turn(n, r) = [r EXCEPT !.moving = FALSE]
        BY <2>3, <2>6, <3>2
      <3>4. ~Turn(n, r).moving /\ Turn(n, r).table = u
        <4> HIDE DEF Turn
        <4> QED
          BY <2>4, <2>6, <3>3
      <3> HIDE DEF Turn
      <3> QED
        BY <1>8, <2>4, <2>9, <3>1, <3>4
    <2> QED
      BY <1>8, <2>8, <2>9
  <1>18. N \in S
    <2> HIDE DEF S
    <2> QED
      BY <1>11, <1>16, <1>17, UpTo
  <1>19. PICK u, hole : u = moved[N].table /\ ErasedUpTo(c, Null, s, i, d - 1, u, hole)
    BY <1>8, <1>18
  <1>20. Ordered(c, Null, u)
    <2>1. PICK m \in Nat : m = d - 1 /\ m + 1 = d
      BY <1>8
    <2> QED
      BY <1>3, <1>5, <1>6, <1>7, <1>8, <1>19, <2>1, LastStage
  <1>21. u.size = t.size - 1 /\ Kept(u) = {t.buckets[b] : b \in Filled(t) \ {i}}
    BY <1>3, <1>4, <1>19 DEF ErasedUpTo
  <1> QED
    BY <1>10, <1>19, <1>20, <1>21

-----------------------------------------------------------------------------
(* The invariant: the table is in order, and after an insert at most one node *)
(* above the load factor.                                                     *)
Searches == {Null} \cup [op : {"erase", "deep_erase"}, key : Keys, odd : BOOLEAN]
ProbingInv ==
    /\ obj.capacity \in Nat /\ obj.capacity >= 3
    /\ Ordered(obj.capacity, obj.erasing, obj)
    /\ 2 * (obj.size - 1) <= obj.capacity
    /\ obj.erasing \in Searches
    /\ life \in ProbingM!Lives

LEMMA ProbingInvGives ==
    ASSUME ProbingInv
    PROVE  ProbingM!Reachable /\ ProbingM!NoNestedRehash /\ ProbingM!TypeOK
  <1>1. PICK c \in Nat \ {0} : c = obj.capacity /\ c >= 3
    BY DEF ProbingInv
  <1>2. /\ obj \in Tables(c, obj.erasing) /\ Counted(obj) /\ AllNear(obj) /\ obj.size \in Int
        /\ 2 * (obj.size - 1) <= c /\ life \in ProbingM!Lives
    BY <1>1 DEF ProbingInv, Ordered, Tables
  <1>3. Empties(obj) # {} /\ Empties(obj) \in SUBSET (0..(c - 1)) /\ ProbingM!EmptyPlaces(obj) = Empties(obj)
    <2>1. obj.size < c
      BY <1>1, <1>2
    <2>2. Empties(obj) # {}
      BY <1>2, <2>1, EmptiesFinite
    <2> QED
      BY <1>2, <2>2 DEF Empties, Tables, ProbingM!EmptyPlaces
  <1>4. ASSUME NEW i \in DOMAIN obj.buckets, obj.buckets[i] # Null
        PROVE  ProbingM!Distance(obj, obj.buckets[i].key, {i})
                   < ProbingM!Distance(obj, obj.buckets[i].key, Empties(obj))
    <2>1. i \in 0..(c - 1) /\ i \in Filled(obj) /\ obj.buckets[i] \in Nodes
      BY <1>2, <1>4 DEF Tables, Filled, Empties
    <2>2. PICK k, h : k \in Keys /\ k = obj.buckets[i].key /\ h = Hash[k] % c /\ h = HomeOf(obj, i)
      BY <1>1, <2>1 DEF Nodes, HomeOf
    <2>3. ProbingM!Distance(obj, k, {i}) = Steps(h, i, c)
      <3>1. PICK places \in SUBSET (0..(c - 1)) : places = {i} /\ places # {}
        BY <2>1
      <3>2. PICK e \in places : ProbingM!Distance(obj, k, places) = Steps(Hash[k] % c, e, c)
        BY <1>1, <2>2, <3>1, DistanceIs
      <3> QED
        BY <2>2, <3>1, <3>2
    <2>4. PICK e \in Empties(obj) : ProbingM!Distance(obj, k, Empties(obj)) = Steps(h, e, c)
      BY <1>1, <1>3, <2>2, DistanceIs
    <2>5. Steps(h, i, c) < Steps(h, e, c)
      BY <1>1, <1>2, <2>1, <2>2 DEF AllNear, Near, Before
    <2> QED
      BY <2>2, <2>3, <2>4, <2>5
  <1>5. ProbingM!Reachable
    BY <1>3, <1>4 DEF ProbingM!Reachable
  <1>6. ProbingM!NoNestedRehash
    BY <1>1, <1>2 DEF ProbingM!NoNestedRehash
  <1>7. ProbingM!TypeOK
    BY <1>1, <1>2, <1>3 DEF ProbingM!TypeOK, Tables, Nodes, Counted, ProbingM!Cardinality, Cardinality
  <1> QED
    BY <1>5, <1>6, <1>7

LEMMA ProbingInit == ProbingM!Init => ProbingInv
  <1>1. SUFFICES ASSUME ProbingM!Init PROVE ProbingInv
    OBVIOUS
  <1>2. PICK c \in Nat \ {0} : c = ProbingCapacity /\ c >= 3
    BY ContainersAssumption
  <1>3. obj = [size |-> 0, capacity |-> c, buckets |-> ProbingM!Empty(c), erasing |-> Null]
        /\ life = "alive"
    BY <1>1, <1>2 DEF ProbingM!Init, ProbingM!ClientInit
  <1>4. Ordered(c, Null, obj) /\ obj.size = 0
    BY <1>3, EmptyIs
  <1>5. obj.capacity = c /\ obj.erasing = Null
    BY <1>3
  <1>6. 2 * (0 - 1) <= c
    BY <1>2
  <1> QED
    BY <1>2, <1>3, <1>4, <1>5, <1>6 DEF ProbingInv, Searches, ProbingM!Lives

(* An insert: the table it places the node in, and what that makes. *)
LEMMA ProbingInsert ==
    ASSUME ProbingInv, NEW k \in Keys, NEW x \in Elements, ProbingM!Insert(k, x)
    PROVE  ProbingInv' /\ Kept(obj') = Kept(obj) \cup {[key |-> k, value |-> x]} /\ obj'.erasing = obj.erasing
  <1>1. PICK c \in Nat \ {0} : c = obj.capacity /\ c >= 3
    BY DEF ProbingInv
  <1>2. PICK s : s = obj.erasing /\ s = Null
    BY DEF ProbingM!Insert
  <1>3. /\ Ordered(c, s, obj) /\ obj \in Tables(c, s) /\ obj.size \in 0..c
        /\ life' = life /\ life \in ProbingM!Lives
    <2>1. Ordered(c, s, obj) /\ life' = life /\ life \in ProbingM!Lives
      BY <1>1, <1>2 DEF ProbingInv, ProbingM!Insert, ProbingM!Did
    <2> QED
      BY <2>1, EmptiesFinite DEF Ordered
  <1> DEFINE room == IF ProbingM!IsLoaded(obj) THEN ProbingM!Rehash(obj) ELSE obj
  <1>4. PICK node \in Nodes : node = [key |-> k, value |-> x]
    BY DEF Nodes
  <1>5. obj' = ProbingM!Place(room, node)
    BY <1>4 DEF ProbingM!Insert
  <1>6. PICK d \in Nat \ {0} :
            /\ Ordered(d, s, room) /\ Kept(room) = Kept(obj) /\ d >= 3
            /\ room.size \in 0..d /\ 2 * room.size <= d
    <2>1. CASE ProbingM!IsLoaded(obj)
      <3>1. PICK d \in Nat \ {0} : d = 2 * c
        BY <1>1
      <3>2. Ordered(d, s, room) /\ room.size <= c /\ Kept(room) = Kept(obj)
        <4>1. Ordered(2 * c, s, ProbingM!Rehash(obj)) /\ ProbingM!Rehash(obj).size <= c
              /\ Kept(ProbingM!Rehash(obj)) = Kept(obj)
          BY <1>3, RehashIs
        <4> QED
          BY <2>1, <3>1, <4>1
      <3> HIDE DEF room
      <3>3. room.size \in 0..d
        BY <3>2, EmptiesFinite DEF Ordered
      <3>4. d >= 3 /\ 2 * room.size <= d
        BY <1>1, <3>1, <3>2, <3>3
      <3> QED
        BY <3>2, <3>3, <3>4
    <2>2. CASE ~ProbingM!IsLoaded(obj)
      <3>1. 2 * obj.size <= c
        BY <1>1, <1>3, <2>2 DEF ProbingM!IsLoaded
      <3> QED
        BY <1>1, <1>3, <2>2, <3>1
    <2> QED
      BY <2>1, <2>2
  <1> HIDE DEF room
  <1>7. /\ Ordered(d, s, obj') /\ obj'.size = room.size + 1
        /\ Kept(obj') = Kept(room) \cup {node}
    <2>1. room.size < d
      BY <1>6
    <2> QED
      BY <1>5, <1>6, <2>1, PlaceKeeps
  <1>8. obj'.capacity = d /\ obj'.erasing = s
    BY <1>7 DEF Ordered, Tables
  <1>9. 2 * (obj'.size - 1) <= obj'.capacity
    BY <1>6, <1>7, <1>8
  <1>10. ProbingInv'
    BY <1>2, <1>3, <1>6, <1>7, <1>8, <1>9 DEF ProbingInv, Searches, ProbingM!Lives
  <1> QED
    BY <1>2, <1>4, <1>6, <1>7, <1>8, <1>10

LEMMA ProbingBegin ==
    ASSUME ProbingInv, NEW op \in {"erase", "deep_erase"}, NEW k \in Keys, ProbingM!BeginErase(op, k)
    PROVE  ProbingInv' /\ obj'.buckets = obj.buckets /\ obj'.capacity = obj.capacity /\ obj'.size = obj.size
  <1>1. PICK c \in Nat \ {0} : c = obj.capacity /\ c >= 3
    BY DEF ProbingInv
  <1>2. PICK y \in Searches : y = [op |-> op, key |-> k, odd |-> FALSE]
    BY DEF Searches
  <1>3. obj' = [obj EXCEPT !.erasing = y] /\ life' = life
    BY <1>2 DEF ProbingM!BeginErase, ProbingM!Did
  <1>4. Ordered(c, y, obj') /\ obj'.size = obj.size /\ obj'.capacity = c /\ obj'.buckets = obj.buckets
        /\ obj'.erasing = y
    BY <1>1, <1>3, SearchSet DEF ProbingInv
  <1> QED
    BY <1>1, <1>2, <1>3, <1>4 DEF ProbingInv, ProbingM!Lives

(* A turn of erase: it ends without the key, or takes the node out, or        *)
(* changes nothing that a client can see.                                    *)
LEMMA ProbingTurn ==
    ASSUME ProbingInv, ProbingM!EraseTurn
    PROVE  /\ ProbingInv'
           /\ obj.erasing.key \in Keys
           /\ LET k == obj.erasing.key
                  i == Hash[k] % obj.capacity
              IN  \/ /\ ProbingM!Did(obj.erasing.op, k, ProbingM!CFalse) /\ obj'.buckets = obj.buckets
                     /\ obj'.capacity = obj.capacity /\ i \in Empties(obj)
                  \/ /\ ProbingM!Did(obj.erasing.op, k, ProbingM!CTrue) /\ i \in Filled(obj)
                     /\ obj.buckets[i].key = k
                     /\ Kept(obj') = {obj.buckets[b] : b \in Filled(obj) \ {i}}
                  \/ /\ UNCHANGED clientVars /\ obj'.buckets = obj.buckets
                     /\ obj'.capacity = obj.capacity
  <1>1. PICK c \in Nat \ {0} : c = obj.capacity /\ c >= 3
    BY DEF ProbingInv
  <1>2. PICK s : s = obj.erasing /\ s # Null /\ s \in [op : {"erase", "deep_erase"}, key : Keys, odd : BOOLEAN]
    BY DEF ProbingInv, Searches, ProbingM!EraseTurn
  <1>3. PICK k \in Keys, i \in 0..(c - 1) : k = s.key /\ i = Hash[k] % c
    BY <1>2, HomeIs
  <1>4. /\ Ordered(c, s, obj) /\ obj \in Tables(c, s) /\ obj.size \in 0..c /\ 2 * (obj.size - 1) <= c
        /\ Empties(obj) # {} /\ life \in ProbingM!Lives
    <2>1. Ordered(c, s, obj) /\ 2 * (obj.size - 1) <= c /\ life \in ProbingM!Lives
      BY <1>1, <1>2 DEF ProbingInv
    <2>2. obj.size \in 0..c /\ (obj.size < c <=> Empties(obj) # {})
      BY <2>1, EmptiesFinite DEF Ordered
    <2> QED
      BY <1>1, <2>1, <2>2 DEF Ordered
  <1>5. i \in DOMAIN obj.buckets
    BY <1>4 DEF Tables
  <1>6. \/ /\ obj.buckets[i] = Null /\ ProbingM!Did(s.op, k, ProbingM!CFalse)
           /\ obj' = [obj EXCEPT !.erasing = Null]
        \/ /\ obj.buckets[i] # Null /\ obj.buckets[i].key = k /\ ProbingM!Did(s.op, k, ProbingM!CTrue)
           /\ obj' = ProbingM!TakeOut(obj, i)
        \/ obj' = [obj EXCEPT !.erasing.odd = ~@] /\ UNCHANGED clientVars
    BY <1>1, <1>2, <1>3 DEF ProbingM!EraseTurn, ProbingM!Home, ProbingM!clientVars, clientVars
  <1>7. CASE obj.buckets[i] = Null /\ ProbingM!Did(s.op, k, ProbingM!CFalse)
             /\ obj' = [obj EXCEPT !.erasing = Null]
    <2>1. /\ Ordered(c, Null, obj') /\ obj'.size = obj.size /\ obj'.capacity = c
          /\ obj'.buckets = obj.buckets /\ obj'.erasing = Null
      BY <1>4, <1>7, SearchSet
    <2>2. ProbingInv'
      BY <1>1, <1>4, <1>7, <2>1 DEF ProbingInv, Searches, ProbingM!Lives, ProbingM!Did
    <2>3. i \in Empties(obj)
      BY <1>5, <1>7 DEF Empties
    <2> QED
      BY <1>1, <1>2, <1>3, <1>7, <2>1, <2>2, <2>3
  <1>8. CASE obj.buckets[i] # Null /\ obj.buckets[i].key = k /\ ProbingM!Did(s.op, k, ProbingM!CTrue)
             /\ obj' = ProbingM!TakeOut(obj, i)
    <2>1. i \in Filled(obj)
      BY <1>5, <1>8 DEF Filled, Empties
    <2>2. /\ Ordered(c, Null, obj') /\ obj'.size = obj.size - 1
          /\ Kept(obj') = {obj.buckets[b] : b \in Filled(obj) \ {i}}
      BY <1>4, <1>8, <2>1, TakeOutIs
    <2>3. obj'.capacity = c /\ obj'.erasing = Null
      BY <2>2 DEF Ordered, Tables
    <2>4. 2 * (obj'.size - 1) <= c
      BY <1>4, <2>2
    <2>5. ProbingInv'
      BY <1>1, <1>4, <1>8, <2>2, <2>3, <2>4 DEF ProbingInv, Searches, ProbingM!Lives, ProbingM!Did
    <2> QED
      BY <1>1, <1>2, <1>3, <1>8, <2>1, <2>2, <2>5
  <1>9. CASE obj' = [obj EXCEPT !.erasing.odd = ~@] /\ UNCHANGED clientVars
    <2>1. PICK y \in Searches : y = [s EXCEPT !.odd = ~s.odd]
      BY <1>2 DEF Searches
    <2>2. obj' = [obj EXCEPT !.erasing = y] /\ life' = life
      BY <1>2, <1>9, <2>1 DEF clientVars
    <2>3. /\ Ordered(c, y, obj') /\ obj'.size = obj.size /\ obj'.capacity = c
          /\ obj'.buckets = obj.buckets /\ obj'.erasing = y
      BY <1>4, <2>2, SearchSet
    <2>4. ProbingInv'
      BY <1>1, <1>4, <2>1, <2>2, <2>3 DEF ProbingInv, ProbingM!Lives
    <2> QED
      BY <1>1, <1>2, <1>3, <1>9, <2>3, <2>4
  <1> QED
    BY <1>6, <1>7, <1>8, <1>9

LEMMA ProbingStep ==
    ASSUME ProbingInv, ProbingM!Next \/ UNCHANGED <<obj, clientVars>>
    PROVE  ProbingInv'
  <1>1. ASSUME UNCHANGED <<obj, life>> PROVE ProbingInv'
    BY <1>1 DEF ProbingInv, Ordered, Tables, Counted, AllNear, Near, Before, HomeOf, Filled, Empties,
                Searches, ProbingM!Lives
  <1>2. ASSUME ProbingM!Look \/ UNCHANGED <<obj, clientVars>> PROVE ProbingInv'
    BY <1>1, <1>2 DEF ProbingM!Look, ProbingM!Did, clientVars
  <1>3. ASSUME ProbingM!Free PROVE ProbingInv'
    <2>1. obj' = obj /\ life' \in ProbingM!Lives
      BY <1>3 DEF ProbingM!Free, ProbingM!Frees, ProbingM!Breaks, ProbingM!Lives
    <2> QED
      BY <2>1 DEF ProbingInv, Ordered, Tables, Counted, AllNear, Near, Before, HomeOf, Filled, Empties,
                  Searches, ProbingM!Lives
  <1> QED
    BY <1>2, <1>3, ProbingInsert, ProbingBegin, ProbingTurn DEF ProbingM!Next

-----------------------------------------------------------------------------
(* The map: a lookup finds a node with the key if there is one. *)
Find(k, answer) ==
    IF \E n \in Kept(obj) : n.key = k THEN \E n \in Kept(obj) : n.key = k /\ answer = n.value
    ELSE answer = Null

LEMMA FindIs ==
    ASSUME ProbingInv, NEW k \in Keys
    PROVE  Find(k, ProbingM!Find(obj, k))
  <1>1. PICK c \in Nat \ {0} : c = obj.capacity /\ c >= 3
    BY DEF ProbingInv
  <1>2. obj \in Tables(c, obj.erasing) /\ Counted(obj) /\ AllNear(obj) /\ DOMAIN obj.buckets = 0..(c - 1)
    BY <1>1 DEF ProbingInv, Ordered, Tables
  <1>3. /\ Empties(obj) # {} /\ Empties(obj) \in SUBSET (0..(c - 1))
        /\ ProbingM!EmptyPlaces(obj) = Empties(obj)
    BY <1>2, ProbingInvGives DEF ProbingM!Reachable, Empties, ProbingM!EmptyPlaces
  <1>4. PICK h \in 0..(c - 1) : h = Hash[k] % c
    BY HomeIs
  <1>5. PICK places \in SUBSET (0..(c - 1)) : places = ProbingM!KeyPlaces(obj, k)
    BY <1>2 DEF ProbingM!KeyPlaces
  <1>6. PICK e \in Empties(obj) : ProbingM!Distance(obj, k, Empties(obj)) = Steps(h, e, c)
    BY <1>1, <1>3, <1>4, DistanceIs
  <1>7. Steps(h, e, c) \in 0..(c - 1)
    BY <1>3, <1>4, StepsAre
  <1> DEFINE d == IF places = {} THEN c ELSE ProbingM!Distance(obj, k, places)
  <1>8. ProbingM!Find(obj, k) =
            IF d < Steps(h, e, c) THEN obj.buckets[(h + d) % c].value ELSE Null
    BY <1>1, <1>3, <1>4, <1>5, <1>6 DEF ProbingM!Find, ProbingM!Home
  <1>9. \A b \in 0..(c - 1) : b \in places <=> b \in Filled(obj) /\ obj.buckets[b].key = k
    BY <1>2, <1>5 DEF ProbingM!KeyPlaces, Filled, Empties
  <1>10. CASE places = {}
    <2>1. ProbingM!Find(obj, k) = Null
      BY <1>7, <1>8, <1>10
    <2>2. \A n \in Kept(obj) : n.key # k
      BY <1>2, <1>9, <1>10 DEF Kept, Filled
    <2> QED
      BY <2>1, <2>2 DEF Find
  <1>11. CASE places # {}
    <2>1. PICK i \in places : ProbingM!Distance(obj, k, places) = Steps(h, i, c)
      BY <1>1, <1>4, <1>11, DistanceIs
    <2>2. i \in Filled(obj) /\ obj.buckets[i].key = k /\ i \in 0..(c - 1)
      BY <1>9
    <2>3. Steps(h, i, c) < Steps(h, e, c)
      BY <1>1, <1>2, <1>4, <2>2 DEF AllNear, Near, Before, HomeOf
    <2>4. (h + Steps(h, i, c)) % c = i
      BY <1>4, <2>2, StepsAre DEF Ahead
    <2>5. ProbingM!Find(obj, k) = obj.buckets[i].value
      BY <1>8, <1>11, <2>1, <2>3, <2>4
    <2>6. obj.buckets[i] \in Kept(obj)
      BY <2>2 DEF Kept
    <2> QED
      BY <2>2, <2>5, <2>6 DEF Find
  <1> QED
    BY <1>10, <1>11

(* A key whose home bucket is empty has no node. *)
LEMMA HomeEmpty ==
    ASSUME ProbingInv, NEW k \in Keys, Hash[k] % obj.capacity \in Empties(obj)
    PROVE  \A n \in Kept(obj) : n.key # k
  <1>1. PICK c \in Nat \ {0} : c = obj.capacity
    BY DEF ProbingInv
  <1>2. obj \in Tables(c, obj.erasing) /\ AllNear(obj)
    BY <1>1 DEF ProbingInv, Ordered
  <1>3. ASSUME NEW b \in Filled(obj), obj.buckets[b].key = k PROVE FALSE
    <2>1. b \in 0..(c - 1)
      BY <1>2 DEF Filled, Tables
    <2>2. PICK h \in 0..(c - 1) : h = Hash[k] % c
      BY HomeIs
    <2>3. Steps(h, b, c) < Steps(h, h, c)
      BY <1>1, <1>2, <1>3, <2>2 DEF AllNear, Near, Before, HomeOf
    <2>4. Steps(h, b, c) \in 0..(c - 1)
      BY <2>1, StepsAre
    <2>5. Steps(h, h, c) = 0
      BY DEF Steps
    <2> QED
      BY <2>3, <2>4, <2>5
  <1> QED
    BY <1>3 DEF Kept

(* The nodes kept, as a map. *)
IsMapOf(m, nodes) ==
    /\ m \in [Keys -> Elements \cup {Null}]
    /\ \A k \in Keys : \A x \in Elements : m[k] = x <=> [key |-> k, value |-> x] \in nodes

ProbingMapped ==
    /\ IsMapOf(Mapped, Kept(obj)) /\ Kept(obj) \subseteq Nodes
    /\ \A n, m \in Kept(obj) : n.key = m.key => n = m
LEMMA MappedIs == ProbingInv /\ kind = "probing" /\ ProbingM!KeysOnce => ProbingMapped
  <1> SUFFICES ASSUME ProbingInv, kind = "probing", ProbingM!KeysOnce PROVE ProbingMapped
    OBVIOUS
  <1>1. /\ obj.buckets \in [0..(obj.capacity - 1) -> Nodes \cup {Null}]
        /\ ProbingM!EmptyPlaces(obj) = Empties(obj)
    BY DEF ProbingInv, Ordered, Tables, ProbingM!EmptyPlaces, Empties
  <1>2. Kept(obj) \subseteq Nodes
    BY <1>1 DEF Kept, Filled, Empties
  <1>3. \A n, m \in Kept(obj) : n.key = m.key => n = m
    BY <1>1 DEF Kept, Filled, ProbingM!KeysOnce
  <1>4. Mapped = [k \in Keys |-> ProbingM!Find(obj, k)]
    BY DEF Mapped
  <1>5. ASSUME NEW k \in Keys
        PROVE  /\ Mapped[k] \in Elements \cup {Null}
               /\ \A x \in Elements : Mapped[k] = x <=> [key |-> k, value |-> x] \in Kept(obj)
    <2>1. Find(k, Mapped[k])
      BY <1>4, FindIs
    <2>2. CASE \E n \in Kept(obj) : n.key = k
      <3>1. PICK n \in Kept(obj) : n.key = k /\ Mapped[k] = n.value
        BY <2>1, <2>2 DEF Find
      <3>2. n \in Nodes /\ n = [key |-> k, value |-> Mapped[k]] /\ Mapped[k] \in Elements
        BY <1>2, <3>1 DEF Nodes
      <3>3. ASSUME NEW x \in Elements, [key |-> k, value |-> x] \in Kept(obj) PROVE Mapped[k] = x
        <4>1. [key |-> k, value |-> x].key = n.key
          BY <3>1
        <4>2. [key |-> k, value |-> x] = n
          BY <1>3, <3>3, <4>1
        <4> QED
          BY <3>1, <4>2
      <3> QED
        BY <3>2, <3>3
    <2>3. CASE ~\E n \in Kept(obj) : n.key = k
      <3>1. Mapped[k] = Null
        BY <2>1, <2>3 DEF Find
      <3>2. ASSUME NEW x \in Elements PROVE [key |-> k, value |-> x] \notin Kept(obj) /\ x # Null
        <4>1. [key |-> k, value |-> x].key = k
          OBVIOUS
        <4> QED
          BY <2>3, <4>1, SequentialAssumption
      <3> QED
        BY <3>1, <3>2
    <2> QED
      BY <2>2, <2>3
  <1>6. IsMapOf(Mapped, Kept(obj))
    BY <1>4, <1>5 DEF IsMapOf
  <1> QED
    BY <1>2, <1>3, <1>6 DEF ProbingMapped

LEMMA MappedIsNext == (ProbingInv /\ kind = "probing" /\ ProbingM!KeysOnce => ProbingMapped)'
  BY MappedIs, PTL

(* The nodes determine the map. *)
LEMMA OneMap ==
    ASSUME NEW nodes, NEW m, NEW n, IsMapOf(m, nodes), IsMapOf(n, nodes)
    PROVE  m = n
  <1>1. m \in [Keys -> Elements \cup {Null}] /\ n \in [Keys -> Elements \cup {Null}]
    BY DEF IsMapOf
  <1>2. ASSUME NEW k \in Keys PROVE m[k] = n[k]
    <2>1. \A x \in Elements : m[k] = x <=> n[k] = x
      BY DEF IsMapOf
    <2>2. m[k] \in Elements \cup {Null} /\ n[k] \in Elements \cup {Null}
      BY <1>1
    <2> QED
      BY <2>1, <2>2
  <1> QED
    BY <1>1, <1>2

LEMMA MapAfterInsert ==
    ASSUME NEW nodes, NEW m, IsMapOf(m, nodes), NEW k \in Keys, NEW x \in Elements, NEW new,
           IsMapOf(new, nodes \cup {[key |-> k, value |-> x]})
    PROVE  new = [m EXCEPT ![k] = x]
  <1>1. m \in [Keys -> Elements \cup {Null}] /\ new \in [Keys -> Elements \cup {Null}]
    BY DEF IsMapOf
  <1>2. new[k] = x
    BY DEF IsMapOf
  <1>3. ASSUME NEW j \in Keys, j # k PROVE new[j] = m[j]
    <2>1. \A y \in Elements : [key |-> j, value |-> y] # [key |-> k, value |-> x]
      BY <1>3
    <2>2. \A y \in Elements : new[j] = y <=> m[j] = y
      BY <2>1 DEF IsMapOf
    <2>3. new[j] \in Elements \cup {Null} /\ m[j] \in Elements \cup {Null}
      BY <1>1
    <2> QED
      BY <2>2, <2>3
  <1> QED
    BY <1>1, <1>2, <1>3

LEMMA MapAfterErase ==
    ASSUME NEW nodes, NEW m, IsMapOf(m, nodes), NEW k \in Keys, NEW new, NEW left \in SUBSET nodes,
           IsMapOf(new, left), \A n \in left : n.key # k, \A n \in nodes : n.key # k => n \in left
    PROVE  new = [m EXCEPT ![k] = Null]
  <1>1. m \in [Keys -> Elements \cup {Null}] /\ new \in [Keys -> Elements \cup {Null}]
    BY DEF IsMapOf
  <1>2. new[k] = Null
    <2>1. ASSUME NEW y \in Elements PROVE new[k] # y
      <3>1. [key |-> k, value |-> y].key = k
        OBVIOUS
      <3>2. [key |-> k, value |-> y] \notin left
        BY <3>1
      <3> QED
        BY <3>2 DEF IsMapOf
    <2> QED
      BY <1>1, <2>1
  <1>3. ASSUME NEW j \in Keys, j # k PROVE new[j] = m[j]
    <2>1. ASSUME NEW y \in Elements PROVE [key |-> j, value |-> y] \in left <=> [key |-> j, value |-> y] \in nodes
      <3>1. [key |-> j, value |-> y].key = j
        OBVIOUS
      <3> QED
        BY <1>3, <3>1
    <2>2. \A y \in Elements : new[j] = y <=> m[j] = y
      BY <2>1 DEF IsMapOf
    <2>3. new[j] \in Elements \cup {Null} /\ m[j] \in Elements \cup {Null}
      BY <1>1
    <2> QED
      BY <2>2, <2>3
  <1> QED
    BY <1>1, <1>2, <1>3

(* The counter counts the keys. *)
LEMMA ProbingCount ==
    ASSUME ProbingInv, kind = "probing", ProbingM!KeysOnce
    PROVE  /\ obj.size = Map!Cardinality(Map!Present)
           /\ obj.size = 0 <=> Map!Present = {}
  <1>1. PICK c \in Nat \ {0} : c = obj.capacity
    BY DEF ProbingInv
  <1>2. obj \in Tables(c, obj.erasing) /\ Counted(obj)
    BY <1>1 DEF ProbingInv, Ordered
  <1>3. /\ Filled(obj) = 0..(c - 1) \ Empties(obj) /\ Empties(obj) \in SUBSET (0..(c - 1))
        /\ \A b \in Filled(obj) : obj.buckets[b] \in Nodes
        /\ ProbingM!EmptyPlaces(obj) = Empties(obj) /\ obj.size \in Int
    BY <1>2 DEF Filled, Empties, Tables, ProbingM!EmptyPlaces
  <1>4. IsFiniteSet(0..(c - 1)) /\ Cardinality(0..(c - 1)) = c
    BY FS_Interval
  <1>5. IsFiniteSet(Empties(obj)) /\ Cardinality(Empties(obj)) \in 0..c
    BY <1>2, EmptiesFinite
  <1>6. IsFiniteSet(Filled(obj)) /\ Cardinality(Filled(obj)) = obj.size
    <2>1. 0..(c - 1) \cap Empties(obj) = Empties(obj)
      BY <1>3
    <2>2. /\ IsFiniteSet(0..(c - 1) \ Empties(obj))
          /\ Cardinality(0..(c - 1) \ Empties(obj)) = Cardinality(0..(c - 1)) - Cardinality(0..(c - 1) \cap Empties(obj))
      BY <1>4, FS_Difference
    <2> QED
      BY <1>1, <1>2, <1>3, <1>4, <1>5, <2>1, <2>2 DEF Counted
  <1> DEFINE f == [b \in Filled(obj) |-> obj.buckets[b].key]
  <1>7. f \in Bijection(Filled(obj), Map!Present)
    <2>1. IsMapOf(Mapped, Kept(obj))
      BY MappedIs DEF ProbingMapped
    <2>2. ASSUME NEW b \in Filled(obj) PROVE f[b] \in Map!Present
      <3>1. obj.buckets[b] \in Kept(obj) /\ obj.buckets[b] \in Nodes
        BY <1>3 DEF Kept
      <3>2. PICK k \in Keys, x \in Elements : obj.buckets[b] = [key |-> k, value |-> x]
        BY <3>1 DEF Nodes
      <3>3. Mapped[k] = x /\ x # Null /\ f[b] = k
        BY <2>1, <3>1, <3>2, SequentialAssumption DEF IsMapOf
      <3> QED
        BY <3>3 DEF Map!Present
    <2>3. ASSUME NEW k \in Map!Present PROVE \E b \in Filled(obj) : f[b] = k
      <3>1. k \in Keys /\ Mapped[k] # Null
        BY DEF Map!Present
      <3>2. PICK x \in Elements : Mapped[k] = x
        BY <2>1, <3>1 DEF IsMapOf
      <3>3. PICK b \in Filled(obj) : [key |-> k, value |-> x] = obj.buckets[b]
        BY <2>1, <3>1, <3>2 DEF IsMapOf, Kept
      <3>4. obj.buckets[b].key = k
        BY <3>3
      <3> QED
        BY <3>4
    <2>4. \A a, b \in Filled(obj) : f[a] = f[b] => a = b
      BY <1>3 DEF ProbingM!KeysOnce, Filled
    <2> QED
      BY <2>2, <2>3, <2>4 DEF Bijection, Injection, Surjection, IsInjective
  <1>8. IsFiniteSet(Map!Present) /\ Cardinality(Map!Present) = obj.size
    <2> HIDE DEF f
    <2>1. ExistsBijection(Filled(obj), Map!Present)
      BY <1>7 DEF ExistsBijection
    <2> QED
      BY <1>6, <2>1, FS_Bijection
  <1>9. Map!Cardinality(Map!Present) = Cardinality(Map!Present)
    BY DEF Map!Cardinality, Cardinality
  <1> QED
    BY <1>8, <1>9, FS_EmptySet

LEMMA ProbingMapStep ==
    ASSUME kind = "probing", kind' = kind, ProbingInv, ProbingInv',
           ProbingM!KeysOnce, ProbingM!KeysOnce', ProbingM!Next \/ UNCHANGED <<obj, clientVars>>
    PROVE  [Map!Next]_(Map!vars)
  <1>1. ProbingMapped /\ ProbingMapped'
    BY MappedIs, MappedIsNext
  <1>2. IsMapOf(Mapped, Kept(obj)) /\ IsMapOf(Mapped', Kept(obj'))
    BY <1>1 DEF ProbingMapped
  <1>3. OtherMapped' = OtherMapped
    BY DEF OtherMapped
  <1>4. ASSUME Kept(obj') = Kept(obj) PROVE Mapped' = Mapped
    BY <1>2, <1>4, OneMap
  <1>5. ASSUME obj'.buckets = obj.buckets PROVE Mapped' = Mapped
    <2>1. Kept(obj') = Kept(obj)
      BY <1>5 DEF Kept, Filled, Empties
    <2> QED
      BY <1>4, <2>1
  (* The calls. *)
  <1>6. ASSUME NEW k \in Keys, NEW x \in Elements, ProbingM!Insert(k, x) PROVE Map!Next
    <2>1. Kept(obj') = Kept(obj) \cup {[key |-> k, value |-> x]}
      BY <1>6, ProbingInsert
    <2>2. Mapped' = [Mapped EXCEPT ![k] = x]
      BY <1>2, <2>1, MapAfterInsert
    <2>3. Map!Insert(k, x)
      BY <1>3, <1>6, <2>2 DEF ProbingM!Insert, ProbingM!Did, ProbingM!Makes, Map!Insert, Map!Call
    <2> QED
      BY <2>3 DEF Map!Next
  <1>7. ASSUME ProbingM!Look PROVE Map!Next
    <2>1. Mapped' = Mapped
      BY <1>5, <1>7 DEF ProbingM!Look
    <2>2. \A k \in Keys : ProbingM!Find(obj, k) = Mapped[k] /\ (k \in Map!Present <=> Mapped[k] # Null)
      BY DEF Mapped, Map!Present
    <2>3. ASSUME NEW op, NEW arg, NEW answer, ProbingM!Did(op, arg, answer)
          PROVE  Map!Call(op, arg, answer, Mapped)
      BY <1>3, <2>1, <2>3 DEF ProbingM!Did, ProbingM!Makes, Map!Call
    <2>4. \A b \in BOOLEAN : ProbingM!Bool(b) = Map!Truth(b)
      BY DEF ProbingM!Bool, Map!Truth, ProbingM!CTrue, ProbingM!CFalse, Map!CTrue, Map!CFalse
    <2>5. ASSUME NEW k \in Keys, ProbingM!Did("lookup", k, ProbingM!Find(obj, k)) PROVE Map!OfKey(k)
      BY <2>2, <2>3, <2>5 DEF Map!OfKey
    <2>6. ASSUME NEW k \in Keys, ProbingM!Did("contains", k, ProbingM!Bool(ProbingM!Find(obj, k) # Null))
          PROVE  Map!OfKey(k)
      <3>1. Map!Call("contains", k, ProbingM!Bool(ProbingM!Find(obj, k) # Null), Mapped)
        BY <2>3, <2>6
      <3>2. ProbingM!Bool(ProbingM!Find(obj, k) # Null) = Map!Truth(k \in Map!Present)
        <4>1. k \in Map!Present <=> ProbingM!Find(obj, k) # Null
          BY <2>2
        <4> QED
          BY <4>1 DEF ProbingM!Bool, Map!Truth, ProbingM!CTrue, ProbingM!CFalse, Map!CTrue, Map!CFalse
      <3> QED
        BY <3>1, <3>2 DEF Map!OfKey
    <2>7. ASSUME ProbingM!Did("size", Null, obj.size) PROVE Map!Measure
      BY <2>3, <2>7, ProbingCount DEF Map!Measure
    <2>8. ASSUME ProbingM!Did("empty", Null, ProbingM!Bool(obj.size = 0)) PROVE Map!Measure
      <3>1. Map!Call("empty", Null, ProbingM!Bool(obj.size = 0), Mapped)
        BY <2>3, <2>8
      <3>2. ProbingM!Bool(obj.size = 0) = Map!Truth(Map!Present = {})
        BY <2>4, ProbingCount
      <3> QED
        BY <3>1, <3>2 DEF Map!Measure
    <2> QED
      BY <1>7, <2>5, <2>6, <2>7, <2>8 DEF ProbingM!Look, Map!Next
  <1>8. ASSUME NEW op \in {"erase", "deep_erase"}, NEW k \in Keys, ProbingM!BeginErase(op, k)
        PROVE  [Map!Next]_(Map!vars)
    <2>1. Mapped' = Mapped
      BY <1>5, <1>8, ProbingBegin
    <2>2. last'.op = "memory"
      BY <1>8 DEF ProbingM!BeginErase, ProbingM!Did, ProbingM!Makes
    <2> QED
      BY <1>3, <2>1, <2>2 DEF Map!Next, Map!Keep, Map!vars
  <1>9. ASSUME ProbingM!EraseTurn PROVE [Map!Next]_(Map!vars)
    <2>0. obj.erasing \in Searches /\ obj.erasing # Null
      BY <1>9 DEF ProbingInv, ProbingM!EraseTurn
    <2>k. PICK k \in Keys : k = obj.erasing.key
      BY <2>0 DEF Searches
    <2>1. PICK op, i :
              /\ k = obj.erasing.key /\ op = obj.erasing.op /\ i = Hash[k] % obj.capacity
              /\ op \in {"erase", "deep_erase"}
              /\ \/ /\ ProbingM!Did(op, k, ProbingM!CFalse) /\ obj'.buckets = obj.buckets
                    /\ i \in Empties(obj)
                 \/ /\ ProbingM!Did(op, k, ProbingM!CTrue) /\ i \in Filled(obj)
                    /\ obj.buckets[i].key = k
                    /\ Kept(obj') = {obj.buckets[b] : b \in Filled(obj) \ {i}}
                 \/ UNCHANGED clientVars /\ obj'.buckets = obj.buckets
      BY <1>9, <2>0, <2>k, ProbingTurn DEF Searches
    <2>2. CASE ProbingM!Did(op, k, ProbingM!CFalse) /\ obj'.buckets = obj.buckets /\ i \in Empties(obj)
      <3>1. \A n \in Kept(obj) : n.key # k
        BY <2>1, <2>2, HomeEmpty
      <3>2. Kept(obj') = Kept(obj)
        BY <2>2 DEF Kept, Filled, Empties
      <3>3. Mapped' = [Mapped EXCEPT ![k] = Null]
        <4>1. PICK left \in SUBSET Kept(obj) : left = Kept(obj)
          OBVIOUS
        <4>2. IsMapOf(Mapped', left) /\ \A n \in left : n.key # k
          BY <1>2, <3>1, <3>2, <4>1
        <4>3. \A n \in Kept(obj) : n.key # k => n \in left
          BY <4>1
        <4> QED
          BY <1>2, <4>2, <4>3, MapAfterErase
      <3>4. k \notin Map!Present
        <4>1. Mapped' = Mapped
          BY <1>5, <2>2
        <4> QED
          BY <1>2, <3>3, <4>1 DEF Map!Present, IsMapOf
      <3>5. Map!Call(op, k, Map!Truth(k \in Map!Present), [Mapped EXCEPT ![k] = Null])
        BY <1>3, <2>2, <3>3, <3>4 DEF Map!Call, Map!Truth, ProbingM!Did, ProbingM!Makes, ProbingM!CFalse, Map!CFalse
      <3> QED
        BY <2>1, <3>5 DEF Map!OfKey, Map!Next
    <2>3. CASE ProbingM!Did(op, k, ProbingM!CTrue) /\ i \in Filled(obj) /\ obj.buckets[i].key = k
               /\ Kept(obj') = {obj.buckets[b] : b \in Filled(obj) \ {i}}
      <3>1. PICK left \in SUBSET Kept(obj) : left = Kept(obj') /\ left = {obj.buckets[b] : b \in Filled(obj) \ {i}}
        BY <2>3 DEF Kept
      <3>2. \A b \in Filled(obj) : obj.buckets[b].key = k => b = i
        <4>1. Filled(obj) = DOMAIN obj.buckets \ ProbingM!EmptyPlaces(obj)
          BY DEF Filled, Empties, ProbingM!EmptyPlaces
        <4> QED
          BY <2>3, <4>1 DEF ProbingM!KeysOnce
      <3>3. \A n \in left : n.key # k
        BY <3>1, <3>2
      <3>4. \A n \in Kept(obj) : n.key # k => n \in left
        BY <2>3, <3>1 DEF Kept
      <3>5. Mapped' = [Mapped EXCEPT ![k] = Null]
        BY <1>2, <3>1, <3>3, <3>4, MapAfterErase
      <3>6. k \in Map!Present
        <4>1. obj.buckets[i] \in Kept(obj) /\ obj.buckets[i] \in Nodes
          BY <1>1, <2>3 DEF Kept, ProbingMapped
        <4>2. PICK x \in Elements : obj.buckets[i] = [key |-> k, value |-> x]
          BY <2>3, <4>1 DEF Nodes
        <4>3. Mapped[k] = x /\ x # Null
          BY <1>2, <4>1, <4>2, SequentialAssumption DEF IsMapOf
        <4> QED
          BY <4>3 DEF Map!Present
      <3>7. Map!Call(op, k, Map!Truth(k \in Map!Present), [Mapped EXCEPT ![k] = Null])
        BY <1>3, <2>3, <3>5, <3>6 DEF Map!Call, Map!Truth, ProbingM!Did, ProbingM!Makes, ProbingM!CTrue, Map!CTrue
      <3> QED
        BY <2>1, <3>7 DEF Map!OfKey, Map!Next
    <2>4. CASE UNCHANGED clientVars /\ obj'.buckets = obj.buckets
      BY <1>3, <1>5, <2>4 DEF Map!vars, clientVars
    <2> QED
      BY <2>1, <2>2, <2>3, <2>4
  <1>10. ASSUME ProbingM!Free PROVE [Map!Next]_(Map!vars)
    <2>1. Mapped' = Mapped /\ last'.op = "free"
      BY <1>5, <1>10 DEF ProbingM!Free, ProbingM!Frees, ProbingM!Breaks, ProbingM!Makes
    <2> QED
      BY <1>3, <2>1 DEF Map!Next, Map!Keep, Map!vars
  <1>11. ASSUME UNCHANGED <<obj, clientVars>> PROVE [Map!Next]_(Map!vars)
    BY <1>3, <1>5, <1>11 DEF Map!vars, clientVars
  <1> QED
    BY <1>6, <1>7, <1>8, <1>9, <1>10, <1>11 DEF ProbingM!Next

-----------------------------------------------------------------------------
(* The table with separate chaining.  These are the lemmas about tables as    *)
(* values; threads, calls and the mutex are no part of them.                 *)
H == INSTANCE ConcurrentHashTable_proofs
    WITH Keys <- ChainedKeys, SizeModulus <- ChainedModulus, Threads <- {}, NoThread <- Null,
         CallNames <- {}, Reinsert <- FALSE, MaxNodes <- 0, InitialCapacity <- 1,
         pc <- obj, op <- obj, ret <- obj, mtx <- obj, table <- obj, promised <- obj, released <- obj

(* The assumptions under which the lemmas of that module hold are met here. *)
LEMMA ChainedAssumptionsHold ==
    /\ \A k \in ChainedKeys : Hash[k] \in Nat
    /\ Null \notin Int
    /\ Null \notin Elements
    /\ ChainedModulus \in Nat \ {0}
    /\ Null \notin {} /\ {} \subseteq H!AllNames /\ 1 \in Nat \ {0} /\ FALSE \in BOOLEAN /\ 0 \in Nat
  BY ContainersAssumption, SequentialAssumption, NullAssumption

LEMMA SameFunctions ==
    /\ \A c : ChainedM!NewTable(c) = H!NewTable(c)
    /\ \A t, k : /\ ChainedM!HasKey(t, k) = H!HasKey(t, k)
                 /\ ChainedM!Lookup(t, k) = H!Lookup(t, k)
                 /\ ChainedM!Erase(t, k) = H!Erase(t, k)
    /\ \A t, k, x : ChainedM!Insert(t, k, x) = H!Insert(t, k, x)
    /\ \A t : ChainedM!AllNodes(t) = H!AllNodes(t)
  <1>1. \A c : ChainedM!NewTable(c) = H!NewTable(c)
    BY DEF ChainedM!NewTable, H!NewTable
  <1>2. \A chain, k : ChainedM!FindIf(chain, k) = H!FindIf(chain, k)
    BY Zenon DEF ChainedM!FindIf, H!FindIf, ChainedM!SelectInSeq, H!SelectInSeq, ChainedM!Min, H!Min
  <1>3. \A t, k : ChainedM!Chain(t, k) = H!Chain(t, k) /\ ChainedM!KeyIndex(t, k) = H!KeyIndex(t, k)
    BY DEF ChainedM!Chain, H!Chain, ChainedM!KeyIndex, H!KeyIndex
  <1>4. ASSUME NEW t, NEW k
        PROVE  /\ ChainedM!HasKey(t, k) = H!HasKey(t, k)
               /\ ChainedM!Lookup(t, k) = H!Lookup(t, k)
    BY <1>2, <1>3, Zenon DEF ChainedM!HasKey, H!HasKey, ChainedM!Lookup, H!Lookup
  <1>5. ASSUME NEW t, NEW k PROVE ChainedM!Erase(t, k) = H!Erase(t, k)
    BY <1>2, <1>3, Zenon DEF ChainedM!Erase, H!Erase, ChainedM!RemoveAt, H!RemoveAt
  <1>6. ASSUME NEW t, NEW k, NEW x PROVE ChainedM!Store(t, k, x) = H!Store(t, k, x)
    BY <1>2, <1>3, Zenon DEF ChainedM!Store, H!Store, ChainedM!PushFront, H!PushFront
  <1>7. \A t, n : ChainedM!NodesOfFirst(t, n) = H!NodesOfFirst(t, n)
    BY Zenon DEF ChainedM!NodesOfFirst, H!NodesOfFirst, ChainedM!FlattenSeq, H!FlattenSeq
  <1>8. \A t : ChainedM!AllNodes(t) = H!AllNodes(t)
    BY <1>7 DEF ChainedM!AllNodes, H!AllNodes
  <1>9. ASSUME NEW t PROVE ChainedM!LastFilled(t, ChainedM!Same) = H!LastFilled(t, H!Same)
    <2> DEFINE nodes == H!NodesOfFirst(t, t.size)
               C(g) == g = [n \in 0..Len(nodes) |->
                               IF n = 0 THEN ChainedM!NewTable(2 * t.capacity)
                               ELSE ChainedM!Store(g[n - 1], nodes[n].key, nodes[n].data)]
               D(g) == g = [n \in 0..Len(nodes) |->
                               IF n = 0 THEN H!NewTable(2 * t.capacity)
                               ELSE H!Store(g[n - 1], nodes[n].key, nodes[n].data)]
    <2>1. (CHOOSE g : C(g)) = (CHOOSE g : D(g))
      <3> HIDE DEF nodes
      <3>1. ASSUME NEW g PROVE C(g) <=> D(g)
        BY <1>1, <1>6
      <3> HIDE DEF C, D
      <3> QED
        BY <3>1, Zenon
    <2>2. ChainedM!LastFilled(t, ChainedM!Same) = (CHOOSE g : C(g))[Len(nodes)]
      BY <1>7, Zenon DEF ChainedM!LastFilled, ChainedM!Filled, ChainedM!Same
    <2>3. H!LastFilled(t, H!Same) = (CHOOSE g : D(g))[Len(nodes)]
      BY Zenon DEF H!LastFilled, H!Filled, H!Same
    <2> QED
      BY <2>1, <2>2, <2>3, Zenon
  <1>10. ASSUME NEW t PROVE ChainedM!Regrow(t) = H!Regrow(t)
    BY <1>9, Zenon DEF ChainedM!Regrow, H!Regrow, ChainedM!IsLoaded, H!IsLoaded
  <1>11. ASSUME NEW t PROVE ChainedM!Rehash(t) = H!Rehash(t)
    <2> DEFINE nodes == H!NodesOfFirst(t, t.size)
               C(g) == g = [n \in 0..Len(nodes) |->
                               IF n = 0 THEN ChainedM!NewTable(2 * t.capacity)
                               ELSE ChainedM!Store(ChainedM!Regrow(g[n - 1]), nodes[n].key, nodes[n].data)]
               D(g) == g = [n \in 0..Len(nodes) |->
                               IF n = 0 THEN H!NewTable(2 * t.capacity)
                               ELSE H!Store(H!Regrow(g[n - 1]), nodes[n].key, nodes[n].data)]
    <2>1. (CHOOSE g : C(g)) = (CHOOSE g : D(g))
      <3> HIDE DEF nodes
      <3>1. ASSUME NEW g PROVE C(g) <=> D(g)
        BY <1>1, <1>6, <1>10
      <3> HIDE DEF C, D
      <3> QED
        BY <3>1, Zenon
    <2>2. ChainedM!Rehash(t) = (CHOOSE g : C(g))[Len(nodes)]
      BY <1>7, Zenon DEF ChainedM!Rehash, ChainedM!LastFilled, ChainedM!Filled
    <2>3. H!Rehash(t) = (CHOOSE g : D(g))[Len(nodes)]
      BY Zenon DEF H!Rehash, H!LastFilled, H!Filled
    <2> QED
      BY <2>1, <2>2, <2>3, Zenon
  <1>12. ASSUME NEW t, NEW k, NEW x PROVE ChainedM!Insert(t, k, x) = H!Insert(t, k, x)
    BY <1>6, <1>11, Zenon DEF ChainedM!Insert, H!Insert, ChainedM!Grow, H!Grow, ChainedM!IsLoaded, H!IsLoaded
  <1> QED
    BY <1>1, <1>4, <1>5, <1>8, <1>12, Zenon

(* Every node of a sequence without repeated keys counts one key. *)
LEMMA KeysCounted ==
    ASSUME NEW t \in H!Tables, ChainedM!IsExact(t)
    PROVE  /\ H!KeysOnce(H!AllNodes(t))
           /\ IsFiniteSet(H!KeysIn(t)) /\ Cardinality(H!KeysIn(t)) = t.size
  <1>1. H!AllNodes(t) \in Seq(H!Nodes) /\ H!ToSet(H!AllNodes(t)) = H!Held(t)
    BY H!AllNodesFacts, ChainedAssumptionsHold, Zenon
  <1>2. ChainedM!AllNodes(t) = H!AllNodes(t)
    BY SameFunctions
  <1>3. PICK s \in Seq(H!Nodes) : s = H!AllNodes(t)
    BY <1>1
  <1>4. PICK L \in Nat : L = Len(s)
    OBVIOUS
  <1>5. t.size = L /\ \A a, b \in 1..L : s[a].key = s[b].key => a = b
    BY <1>2, <1>3, <1>4 DEF ChainedM!IsExact, ChainedM!IsInjective
  <1>6. H!KeysOnce(s)
    BY <1>4, <1>5 DEF H!KeysOnce
  <1>7. \A k : k \in H!KeysIn(t) <=> \E j \in 1..L : s[j].key = k
    BY <1>1, <1>3, <1>4 DEF H!KeysIn, H!ToSet
  <1> DEFINE g == [j \in 1..L |-> s[j].key]
  <1>8. g \in Bijection(1..L, H!KeysIn(t))
    <2>1. \A j \in 1..L : g[j] \in H!KeysIn(t)
      BY <1>7
    <2>2. \A k \in H!KeysIn(t) : \E j \in 1..L : g[j] = k
      BY <1>7
    <2>3. \A a, b \in 1..L : g[a] = g[b] => a = b
      BY <1>5
    <2>4. g = [j \in 1..L |-> g[j]]
      OBVIOUS
    <2> HIDE DEF g
    <2> QED
      BY <2>1, <2>2, <2>3, <2>4 DEF Bijection, Injection, Surjection, IsInjective
  <1>9. IsFiniteSet(1..L) /\ Cardinality(1..L) = L
    BY FS_Interval
  <1>10. IsFiniteSet(H!KeysIn(t)) /\ Cardinality(H!KeysIn(t)) = L
    <2> HIDE DEF g
    <2>1. ExistsBijection(1..L, H!KeysIn(t))
      BY <1>8 DEF ExistsBijection
    <2> QED
      BY <1>9, <2>1, FS_Bijection
  <1> QED
    BY <1>3, <1>5, <1>6, <1>10

(* The parts of a sequence of nodes without repeated keys repeat none. *)
LEMMA PartsOnce ==
    ASSUME NEW S, NEW s \in Seq(S), NEW r \in Seq(S), H!KeysOnce(s \o r)
    PROVE  H!KeysOnce(s) /\ H!KeysOnce(r)
  <1>1. PICK u \in Seq(S) : u = s \o r
    BY ConcatProperties
  <1>2. PICK m \in Nat, n \in Nat : m = Len(s) /\ n = Len(r)
    OBVIOUS
  <1>3. /\ DOMAIN u = 1..(m + n) /\ DOMAIN s = 1..m /\ DOMAIN r = 1..n
        /\ \A i \in 1..m : u[i] = s[i]
        /\ \A i \in 1..n : u[m + i] = r[i]
    BY <1>1, <1>2
  <1>4. \A a, b \in 1..(m + n) : u[a].key = u[b].key => a = b
    BY <1>1, <1>3 DEF H!KeysOnce
  <1>5. \A a, b \in 1..m : s[a].key = s[b].key => a = b
    BY <1>3, <1>4
  <1>6. ASSUME NEW a \in 1..n, NEW b \in 1..n, r[a].key = r[b].key PROVE a = b
    <2>1. m + a \in 1..(m + n) /\ m + b \in 1..(m + n)
      OBVIOUS
    <2>2. u[m + a].key = u[m + b].key
      BY <1>3, <1>6
    <2>3. m + a = m + b
      BY <1>4, <2>1, <2>2
    <2> QED
      BY <2>3
  <1> QED
    BY <1>3, <1>5, <1>6 DEF H!KeysOnce

LEMMA ChainsOnce ==
    ASSUME NEW seqs \in Seq(Seq(H!Nodes)), seqs # <<>>, H!KeysOnce(H!FlattenSeq(seqs))
    PROVE  \A i \in 1..Len(seqs) : H!KeysOnce(seqs[i])
  <1>1. PICK N \in Nat : N = Len(seqs) - 1
    <2>1. Len(seqs) - 1 \in Nat
      BY EmptySeq
    <2> QED
      BY <2>1
  <1>2. PICK f \in [0..(Len(seqs) - 1) -> Seq(H!Nodes)] :
            /\ f[0] = seqs[1]
            /\ \A n \in 1..(Len(seqs) - 1) : f[n] = f[n - 1] \o seqs[n + 1]
            /\ H!FlattenSeq(seqs) = f[Len(seqs) - 1]
    BY H!FlattenIs, ChainedAssumptionsHold, Zenon
  <1> DEFINE S == {k \in 0..N : H!KeysOnce(f[N - k])}
  <1>3. 0 \in S
    BY <1>1, <1>2
  <1>4. ASSUME NEW k \in 1..N, k - 1 \in S PROVE k \in S
    <2>1. PICK n \in 1..N : n = N - (k - 1)
      OBVIOUS
    <2>2. n - 1 = N - k /\ n + 1 \in 1..Len(seqs)
      BY <1>1, <2>1
    <2>3. f[n] = f[n - 1] \o seqs[n + 1] /\ f[n - 1] \in Seq(H!Nodes) /\ seqs[n + 1] \in Seq(H!Nodes)
      <3>1. n \in 1..(Len(seqs) - 1) /\ n - 1 \in 0..(Len(seqs) - 1) /\ n + 1 \in 1..Len(seqs)
        BY <1>1, <2>1
      <3>2. f[n - 1] \in Seq(H!Nodes) /\ f[n] = f[n - 1] \o seqs[n + 1]
        BY <1>2, <3>1
      <3>3. seqs[n + 1] \in Seq(H!Nodes)
        BY <3>1
      <3> QED
        BY <3>2, <3>3
    <2>4. H!KeysOnce(f[n])
      BY <1>4, <2>1
    <2>5. H!KeysOnce(f[n - 1])
      BY <2>3, <2>4, PartsOnce
    <2> QED
      BY <2>2, <2>5
  <1>5. 0..N \subseteq S
    <2>1. \A k \in 1..N : k - 1 \in S => k \in S
      BY <1>4
    <2> HIDE DEF S
    <2> QED
      BY <1>3, <2>1, UpTo
  <1>6. ASSUME NEW n \in 0..N PROVE H!KeysOnce(f[n])
    <2>1. N - n \in 0..N /\ N - (N - n) = n
      OBVIOUS
    <2> QED
      BY <1>5, <2>1
  <1>7. ASSUME NEW i \in 1..Len(seqs) PROVE H!KeysOnce(seqs[i])
    <2>1. CASE i = 1
      BY <1>1, <1>2, <1>6, <2>1
    <2>2. CASE i # 1
      <3>1. PICK n \in 1..N : i = n + 1
        BY <1>1, <2>2
      <3>2. f[n] = f[n - 1] \o seqs[n + 1] /\ f[n - 1] \in Seq(H!Nodes) /\ seqs[n + 1] \in Seq(H!Nodes)
        <4>1. n \in 1..(Len(seqs) - 1) /\ n - 1 \in 0..(Len(seqs) - 1) /\ n + 1 \in 1..Len(seqs)
          BY <1>1, <3>1
        <4>2. f[n - 1] \in Seq(H!Nodes) /\ f[n] = f[n - 1] \o seqs[n + 1]
          BY <1>2, <4>1
        <4>3. seqs[n + 1] \in Seq(H!Nodes)
          BY <4>1
        <4> QED
          BY <4>2, <4>3
      <3>3. H!KeysOnce(f[n])
        BY <1>6
      <3> QED
        BY <3>1, <3>2, <3>3, PartsOnce
    <2> QED
      BY <2>1, <2>2
  <1> QED
    BY <1>7

(* An exact table has one node for each key. *)
LEMMA ExactHasOneEach ==
    ASSUME NEW t \in H!Tables, ChainedM!IsExact(t)
    PROVE  H!OneEach(t)
  <1> DEFINE seqs == [i \in 1..t.capacity |-> t.buckets[i - 1]]
  <1>1. t.capacity \in Nat \ {0} /\ t.buckets \in [0..(t.capacity - 1) -> Seq(H!Nodes)]
    BY H!TableFacts, ChainedAssumptionsHold, Zenon
  <1>2. \A i \in 1..t.capacity : i - 1 \in DOMAIN t.buckets /\ t.buckets[i - 1] \in Seq(H!Nodes)
    BY <1>1
  <1>3. \A i \in DOMAIN t.buckets : i + 1 \in 1..t.capacity /\ (i + 1) - 1 = i
    BY <1>1
  <1>4. seqs \in Seq(Seq(H!Nodes)) /\ Len(seqs) = t.capacity /\ seqs # <<>>
    <2>1. PICK c \in Nat : c = t.capacity /\ c # 0
      BY <1>1
    <2>2. seqs \in [1..c -> Seq(H!Nodes)]
      BY <1>2, <2>1
    <2> HIDE DEF seqs
    <2>3. seqs \in Seq(Seq(H!Nodes)) /\ Len(seqs) = c
      BY <2>2
    <2> QED
      BY <2>1, <2>3
  <1>5. \A i \in 1..t.capacity : seqs[i] = t.buckets[i - 1]
    OBVIOUS
  <1>6. H!AllNodes(t) = H!FlattenSeq(seqs)
    BY DEF H!AllNodes, H!NodesOfFirst
  <1> HIDE DEF seqs
  <1>7. H!KeysOnce(H!FlattenSeq(seqs))
    BY <1>6, KeysCounted
  <1>8. \A i \in 1..Len(seqs) : H!KeysOnce(seqs[i])
    BY <1>4, <1>7, ChainsOnce
  <1> QED
    BY <1>3, <1>4, <1>5, <1>8 DEF H!OneEach

(* The nodes of a table as the nodes of a map. *)
Pairs(t) == {[key |-> n.key, value |-> n.data] : n \in H!Held(t)}

(* What a client finds under each key. *)
Found(t) == [k \in Keys |-> IF k \in ChainedKeys THEN ChainedM!Lookup(t, k) ELSE Null]

(* The facts about tables of ConcurrentHashTable_proofs that are used here. *)
LEMMA HeldAre ==
    ASSUME NEW t \in H!PlacedTables
    PROVE  /\ t \in H!Tables /\ H!Placed(t)
           /\ H!Held(t) \subseteq [key : ChainedKeys, data : Elements]
           /\ H!KeysIn(t) = {n.key : n \in H!Held(t)}
  <1>1. t \in H!Tables /\ H!Placed(t)
    BY DEF H!PlacedTables
  <1>2. H!Held(t) \subseteq H!Nodes
    BY <1>1, H!HeldFacts, ChainedAssumptionsHold, Zenon
  <1> QED
    BY <1>1, <1>2 DEF H!Nodes, H!KeysIn

LEMMA FoundInTable ==
    ASSUME NEW t \in H!PlacedTables, NEW k \in ChainedKeys
    PROVE  /\ ChainedM!Lookup(t, k) \in Elements \cup {Null}
           /\ ChainedM!HasKey(t, k) <=> ChainedM!Lookup(t, k) # Null
           /\ ChainedM!HasKey(t, k) <=> k \in H!KeysIn(t)
           /\ ChainedM!HasKey(t, k) => \E n \in H!Held(t) : n.key = k /\ ChainedM!Lookup(t, k) = n.data
  <1>1. t \in H!Tables /\ H!Placed(t)
    BY DEF H!PlacedTables
  <1>2. ChainedM!Lookup(t, k) = H!Lookup(t, k) /\ ChainedM!HasKey(t, k) = H!HasKey(t, k)
    BY SameFunctions, Zenon
  <1>3. /\ H!Lookup(t, k) \in Elements \cup {Null}
        /\ H!HasKey(t, k) <=> H!Lookup(t, k) # Null
    BY <1>1, H!LookupType, ChainedAssumptionsHold, Zenon
  <1>4. /\ H!HasKey(t, k) <=> k \in H!KeysIn(t)
        /\ H!HasKey(t, k) => \E n \in H!Held(t) : n.key = k /\ H!Lookup(t, k) = n.data
    BY <1>1, H!LookupFacts, ChainedAssumptionsHold, Zenon
  <1> QED
    BY <1>2, <1>3, <1>4, Zenon

(* With one node for each key a table is a map. *)
LEMMA FoundIsMap ==
    ASSUME NEW t \in H!PlacedTables, H!OneEach(t)
    PROVE  IsMapOf(Found(t), Pairs(t))
  <1>1. t \in H!Tables /\ H!Placed(t) /\ H!Held(t) \subseteq [key : ChainedKeys, data : Elements]
    BY HeldAre
  <1>2. \A m, n \in H!Held(t) : m.key = n.key => m = n
    BY <1>1, H!OneEachFacts, ChainedAssumptionsHold, Zenon
  <1>3. ASSUME NEW k \in Keys
        PROVE  /\ Found(t)[k] \in Elements \cup {Null}
               /\ \A x \in Elements : Found(t)[k] = x <=> [key |-> k, value |-> x] \in Pairs(t)
    <2>1. CASE k \in ChainedKeys
      <3>1. Found(t)[k] = ChainedM!Lookup(t, k)
        BY <2>1 DEF Found
      <3>2. Found(t)[k] \in Elements \cup {Null}
        BY <2>1, <3>1, FoundInTable
      <3>3. ASSUME NEW x \in Elements, Found(t)[k] = x PROVE [key |-> k, value |-> x] \in Pairs(t)
        <4>1. x # Null
          BY SequentialAssumption
        <4>2. PICK n \in H!Held(t) : n.key = k /\ ChainedM!Lookup(t, k) = n.data
          BY <2>1, <3>1, <3>3, <4>1, FoundInTable
        <4> QED
          BY <3>1, <3>3, <4>2 DEF Pairs
      <3>4. ASSUME NEW x \in Elements, [key |-> k, value |-> x] \in Pairs(t) PROVE Found(t)[k] = x
        <4>1. PICK n \in H!Held(t) : n.key = k /\ n.data = x
          BY <3>4 DEF Pairs
        <4>2. k \in H!KeysIn(t)
          BY <4>1, HeldAre
        <4>3. PICK m \in H!Held(t) : m.key = k /\ ChainedM!Lookup(t, k) = m.data
          BY <2>1, <4>2, FoundInTable
        <4>4. m = n
          BY <1>2, <4>1, <4>3
        <4> QED
          BY <3>1, <4>1, <4>3, <4>4
      <3> QED
        BY <3>2, <3>3, <3>4
    <2>2. CASE k \notin ChainedKeys
      <3>1. Found(t)[k] = Null
        BY <2>2 DEF Found
      <3>2. ASSUME NEW x \in Elements PROVE [key |-> k, value |-> x] \notin Pairs(t)
        BY <1>1, <2>2 DEF Pairs
      <3> QED
        BY <3>1, <3>2, SequentialAssumption
    <2> QED
      BY <2>1, <2>2
  <1>4. Found(t) = [k \in Keys |-> Found(t)[k]]
    BY DEF Found
  <1> QED
    BY <1>3, <1>4 DEF IsMapOf

(* An insert adds its node; the key of one that was there has two then. *)
LEMMA InsertIs ==
    ASSUME NEW t \in H!PlacedTables, NEW k \in ChainedKeys, NEW x \in Elements
    PROVE  /\ ChainedM!Insert(t, k, x) \in H!PlacedTables
           /\ H!OneEach(t) /\ k \notin H!KeysIn(t)
              => Pairs(ChainedM!Insert(t, k, x)) = Pairs(t) \cup {[key |-> k, value |-> x]}
           /\ k \in H!KeysIn(t) => ~H!OneEach(ChainedM!Insert(t, k, x))
  <1>1. t \in H!Tables /\ H!Placed(t)
    BY HeldAre
  <1>2. PICK u : u = H!Grow(t) /\ H!Keeps(t, u)
    BY <1>1, H!GrowFacts, ChainedAssumptionsHold, Zenon
  <1>3. /\ u \in H!Tables /\ H!Placed(u) /\ H!KeysIn(u) = H!KeysIn(t)
        /\ H!OneEach(t) => H!Held(u) = H!Held(t)
    BY <1>2, Zenon DEF H!Keeps
  <1>4. PICK v : v = H!Store(u, k, x) /\ v \in H!Tables /\ H!Placed(v)
                 /\ (k \notin H!KeysIn(u) => H!Held(v) = H!Held(u) \cup {[key |-> k, data |-> x]})
    <2>1. H!Store(u, k, x) \in H!Tables /\ H!Placed(H!Store(u, k, x))
      BY <1>3, H!StoreFacts, ChainedAssumptionsHold, Zenon
    <2>2. ASSUME k \notin H!KeysIn(u)
          PROVE  H!Held(H!Store(u, k, x)) = H!Held(u) \cup {[key |-> k, data |-> x]}
      BY <1>3, <2>2, H!StoreAdds, ChainedAssumptionsHold, Zenon
    <2> QED
      BY <2>1, <2>2, Zenon
  <1>5. ChainedM!Insert(t, k, x) = v
    <2>1. ChainedM!Insert(t, k, x) = H!Insert(t, k, x)
      BY SameFunctions, Zenon
    <2> QED
      BY <1>2, <1>4, <2>1 DEF H!Insert
  <1>6. ASSUME H!OneEach(t), k \notin H!KeysIn(t)
        PROVE  Pairs(v) = Pairs(t) \cup {[key |-> k, value |-> x]}
    <2>1. H!Held(v) = H!Held(t) \cup {[key |-> k, data |-> x]}
      BY <1>3, <1>4, <1>6
    <2>2. \A p : p \in Pairs(v) <=>
              p \in Pairs(t) \/ p = [key |-> [key |-> k, data |-> x].key, value |-> [key |-> k, data |-> x].data]
      BY <2>1, Zenon DEF Pairs
    <2> QED
      BY <2>2
  <1>7. ASSUME k \in H!KeysIn(t) PROVE ~H!OneEach(v)
    <2>1. H!HasKey(u, k)
      BY <1>3, <1>7, H!LookupFacts, ChainedAssumptionsHold, Zenon
    <2>2. PICK b, chain : /\ b = H!KeyIndex(u, k) /\ chain = H!Chain(u, k)
                          /\ b \in 0..(u.capacity - 1) /\ b \in DOMAIN u.buckets
                          /\ chain \in Seq(H!Nodes)
      BY <1>3, H!KeyIndexFacts, ChainedAssumptionsHold, Zenon
    <2>3. PICK i : i = H!FindIf(chain, k) /\ i \in 0..Len(chain) /\ (i # 0 => chain[i].key = k)
      BY <2>2, H!FindIfFacts, ChainedAssumptionsHold, Zenon
    <2>4. i \in 1..Len(chain) /\ chain[i].key = k
      BY <2>1, <2>2, <2>3 DEF H!HasKey
    <2>5. PICK updated : updated = [chain EXCEPT ![i].data = x]
      OBVIOUS
    <2>6. updated \in Seq(H!Nodes) /\ updated[i].key = k
      <3>1. chain[i] \in H!Nodes
        BY <2>2, <2>4
      <3>2. [chain[i] EXCEPT !.data = x] \in H!Nodes /\ [chain[i] EXCEPT !.data = x].key = k
        BY <2>4, <3>1 DEF H!Nodes
      <3>3. updated = [chain EXCEPT ![i] = [chain[i] EXCEPT !.data = x]]
        BY <2>4, <2>5
      <3> QED
        BY <2>2, <2>4, <3>2, <3>3
    <2>7. PICK pushed : pushed = <<[key |-> k, data |-> x]>> \o updated
      OBVIOUS
    <2>8. 1 \in DOMAIN pushed /\ i + 1 \in DOMAIN pushed /\ pushed[1].key = k /\ pushed[i + 1].key = k
      <3>1. Len(updated) = Len(chain)
        BY <2>2, <2>4, <2>5
      <3>2. PICK new \in H!Nodes : new = [key |-> k, data |-> x]
        <4>1. [key |-> k, data |-> x] \in H!Nodes
          BY DEF H!Nodes
        <4> QED
          BY <4>1
      <3>3. PICK s \in Seq(H!Nodes) : s = <<new>>
        <4>1. <<new>> \in Seq(H!Nodes)
          OBVIOUS
        <4> QED
          BY <4>1
      <3>4. pushed = s \o updated
        BY <2>7, <3>2, <3>3
      <3>5. DOMAIN pushed = 1..(1 + Len(updated)) /\ pushed[1] = s[1] /\ pushed[1 + i] = updated[i]
        BY <2>2, <2>4, <2>6, <3>1, <3>3, <3>4
      <3>6. s[1].key = k
        BY <3>2, <3>3
      <3> QED
        BY <2>2, <2>4, <2>6, <3>1, <3>2, <3>3, <3>5, <3>6
    <2>9. v.buckets[b] = pushed /\ b \in DOMAIN v.buckets
      <3>1. i # 0
        BY <2>4
      <3>2. PICK n : v = [u EXCEPT !.buckets[b] = pushed, !.size = n]
        BY <1>4, <2>2, <2>3, <2>5, <2>7, <3>1 DEF H!Store, H!PushFront
      <3>3. u = [size |-> u.size, capacity |-> u.capacity, buckets |-> u.buckets]
        BY <1>3, H!TableFacts, ChainedAssumptionsHold, Zenon
      <3>4. v.buckets = [u.buckets EXCEPT ![b] = pushed]
        BY <3>2, <3>3
      <3> QED
        BY <2>2, <3>4
    <2> QED
      BY <2>4, <2>8, <2>9 DEF H!OneEach, H!KeysOnce
  <1> QED
    BY <1>4, <1>5, <1>6, <1>7 DEF H!PlacedTables

(* An erase takes a node with the key and no other. *)
LEMMA EraseIs ==
    ASSUME NEW t \in H!PlacedTables, NEW k \in ChainedKeys
    PROVE  /\ ChainedM!Erase(t, k) \in H!PlacedTables
           /\ Pairs(ChainedM!Erase(t, k)) \subseteq Pairs(t)
           /\ \A n \in Pairs(t) : n.key # k => n \in Pairs(ChainedM!Erase(t, k))
           /\ H!OneEach(t) => \A n \in Pairs(ChainedM!Erase(t, k)) : n.key # k
  <1>1. t \in H!Tables /\ H!Placed(t)
    BY HeldAre
  <1>2. PICK u : u = H!Erase(t, k) /\ u \in H!Tables /\ H!Placed(u) /\ H!Held(u) \subseteq H!Held(t)
                 /\ (\A n \in H!Held(t) : n.key # k => n \in H!Held(u))
                 /\ (H!OneEach(t) => k \notin H!KeysIn(u))
    BY <1>1, H!EraseFacts, ChainedAssumptionsHold, Zenon
  <1>3. ChainedM!Erase(t, k) = u
    BY <1>2, SameFunctions, Zenon
  <1>4. Pairs(u) \subseteq Pairs(t)
    BY <1>2 DEF Pairs
  <1>5. \A n \in Pairs(t) : n.key # k => n \in Pairs(u)
    BY <1>2 DEF Pairs
  <1>6. H!OneEach(t) => \A n \in Pairs(u) : n.key # k
    BY <1>2 DEF Pairs, H!KeysIn
  <1> QED
    BY <1>2, <1>3, <1>4, <1>5, <1>6 DEF H!PlacedTables

LEMMA SameInMap == \A S : Map!Cardinality(S) = Cardinality(S)
  BY DEF Map!Cardinality, Cardinality

(* What holds of the chained tables: nodes are where their keys hash to. *)
ChainedInv == obj \in H!PlacedTables /\ other \in H!PlacedTables /\ life \in ChainedM!Lives

LEMMA ChainedInit == ChainedM!Init => ChainedInv
  <1> SUFFICES ASSUME ChainedM!Init PROVE ChainedInv
    OBVIOUS
  <1>1. InitialCapacity \in Nat \ {0} /\ 1 \in Nat \ {0}
    BY SequentialAssumption
  <1>2. obj = H!NewTable(InitialCapacity) /\ other = H!NewTable(1)
    BY SameFunctions, Zenon DEF ChainedM!Init
  <1>3. ASSUME NEW c \in Nat \ {0} PROVE H!NewTable(c) \in H!PlacedTables
    <2>1. H!NewTable(c) \in H!Tables /\ H!Placed(H!NewTable(c))
      BY H!NewTableFacts, ChainedAssumptionsHold, Zenon
    <2> QED
      BY <2>1 DEF H!PlacedTables
  <1>4. life \in ChainedM!Lives
    BY DEF ChainedM!Init, ChainedM!ClientInit, ChainedM!Lives
  <1> QED
    BY <1>1, <1>2, <1>3, <1>4 DEF ChainedInv

LEMMA ChainedStep ==
    ASSUME ChainedInv, ChainedM!Next \/ UNCHANGED <<obj, clientVars>>
    PROVE  ChainedInv'
  <1> USE DEF ChainedInv, ChainedM!Did, ChainedM!Makes, ChainedM!Breaks, ChainedM!Frees, ChainedM!Lives
  <1>1. ASSUME NEW k \in ChainedKeys, NEW x \in Elements, ChainedM!InsertKey(k, x) PROVE ChainedInv'
    BY <1>1, InsertIs DEF ChainedM!InsertKey
  <1>2. ASSUME NEW k \in ChainedKeys, ChainedM!EraseKey(k) PROVE ChainedInv'
    BY <1>2, EraseIs DEF ChainedM!EraseKey
  <1>3. ASSUME NEW k \in ChainedKeys, ChainedM!DeepEraseKey(k) PROVE ChainedInv'
    BY <1>3, EraseIs DEF ChainedM!DeepEraseKey
  <1>4. ASSUME NEW k \in ChainedKeys, ChainedM!LookupKey(k) \/ ChainedM!ContainsKey(k) PROVE ChainedInv'
    BY <1>4 DEF ChainedM!LookupKey, ChainedM!ContainsKey
  <1>5. ASSUME ChainedM!Measure \/ ChainedM!Swap \/ ChainedM!Free PROVE ChainedInv'
    BY <1>5 DEF ChainedM!Measure, ChainedM!Swap, ChainedM!Free
  <1>6. ASSUME UNCHANGED <<obj, clientVars>> PROVE ChainedInv'
    BY <1>6 DEF clientVars
  <1> QED
    BY <1>1, <1>2, <1>3, <1>4, <1>5, <1>6 DEF ChainedM!Next

ExactMaps ==
    /\ Mapped = Found(obj) /\ OtherMapped = Found(other)
    /\ H!OneEach(obj) /\ H!OneEach(other)
    /\ IsMapOf(Mapped, Pairs(obj))

LEMMA MapsAreExact ==
    kind = "chained" /\ ChainedInv /\ ChainedM!IsExact(obj) /\ ChainedM!IsExact(other) => ExactMaps
  <1> SUFFICES ASSUME kind = "chained", ChainedInv, ChainedM!IsExact(obj), ChainedM!IsExact(other)
               PROVE  ExactMaps
    OBVIOUS
  <1>1. Mapped = Found(obj) /\ OtherMapped = Found(other)
    BY DEF Mapped, OtherMapped, Found
  <1>2. H!OneEach(obj) /\ H!OneEach(other)
    BY HeldAre, ExactHasOneEach DEF ChainedInv
  <1> QED
    BY <1>1, <1>2, FoundIsMap DEF ChainedInv, ExactMaps

LEMMA MapsAreExactNext ==
    (kind = "chained" /\ ChainedInv /\ ChainedM!IsExact(obj) /\ ChainedM!IsExact(other) => ExactMaps)'
  BY MapsAreExact, PTL

(* The counter counts the keys. *)
LEMMA ChainedCount ==
    ASSUME kind = "chained", ChainedInv, ChainedM!IsExact(obj), ChainedM!IsExact(other)
    PROVE  /\ \A k \in ChainedKeys : k \in Map!Present <=> ChainedM!HasKey(obj, k)
           /\ obj.size = Map!Cardinality(Map!Present)
           /\ obj.size = 0 <=> Map!Present = {}
  <1>1. obj \in H!PlacedTables /\ obj \in H!Tables /\ Mapped = Found(obj)
    BY HeldAre, MapsAreExact DEF ChainedInv, ExactMaps
  <1>2. ASSUME NEW k \in ChainedKeys
        PROVE  /\ k \in Map!Present <=> ChainedM!HasKey(obj, k)
               /\ k \in Map!Present <=> k \in H!KeysIn(obj)
    <2>1. k \in Keys /\ Found(obj)[k] = ChainedM!Lookup(obj, k)
      BY ContainersAssumption DEF Found
    <2> QED
      BY <1>1, <2>1, FoundInTable DEF Map!Present
  <1>3. H!KeysIn(obj) \subseteq ChainedKeys /\ Map!Present \subseteq ChainedKeys
    BY <1>1, HeldAre DEF Map!Present, Found
  <1>4. Map!Present = H!KeysIn(obj)
    BY <1>2, <1>3
  <1>5. IsFiniteSet(Map!Present) /\ Cardinality(Map!Present) = obj.size
    BY <1>1, <1>4, KeysCounted
  <1>6. Map!Cardinality(Map!Present) = Cardinality(Map!Present)
    BY SameInMap
  <1>7. Cardinality(Map!Present) = 0 <=> Map!Present = {}
    BY <1>5, FS_EmptySet
  <1> QED
    BY <1>2, <1>5, <1>6, <1>7

LEMMA ChainedMapStep ==
    ASSUME kind = "chained", kind' = kind, ChainedInv, ChainedInv',
           ChainedM!IsExact(obj), ChainedM!IsExact(other), (ChainedM!IsExact(obj) /\ ChainedM!IsExact(other))',
           life' # "undefined", ChainedM!Next \/ UNCHANGED <<obj, clientVars>>
    PROVE  [Map!Next]_(Map!vars)
  <1>1. ExactMaps /\ ExactMaps'
    BY MapsAreExact, MapsAreExactNext
  <1>2. /\ Mapped = Found(obj) /\ Mapped' = Found(obj') /\ OtherMapped = Found(other) /\ OtherMapped' = Found(other')
        /\ H!OneEach(obj) /\ H!OneEach(obj')
        /\ IsMapOf(Mapped, Pairs(obj)) /\ IsMapOf(Mapped', Pairs(obj'))
        /\ obj \in H!PlacedTables /\ obj' \in H!PlacedTables
    BY <1>1 DEF ExactMaps, ChainedInv
  <1>3. ChainedKeys \subseteq Keys
    BY ContainersAssumption
  <1>4. \A b \in BOOLEAN : ChainedM!Bool(b) = Map!Truth(b)
    BY DEF ChainedM!Bool, Map!Truth, ChainedM!CTrue, ChainedM!CFalse, Map!CTrue, Map!CFalse
  <1>5. ASSUME NEW op, NEW arg, NEW answer, ChainedM!Did(op, arg, answer)
        PROVE  Map!Call(op, arg, answer, Mapped')
    BY <1>2, <1>5 DEF ChainedM!Did, ChainedM!Makes, Map!Call
  <1>6. \A k \in ChainedKeys : ChainedM!Bool(ChainedM!HasKey(obj, k)) = Map!Truth(k \in Map!Present)
    BY ChainedCount DEF ChainedM!Bool, Map!Truth, ChainedM!CTrue, ChainedM!CFalse, Map!CTrue, Map!CFalse
  (* The calls. *)
  <1>7. ASSUME NEW k \in ChainedKeys, NEW x \in Elements, ChainedM!InsertKey(k, x) PROVE Map!Next
    <2>1. obj' = ChainedM!Insert(obj, k, x) /\ ChainedM!Did("insert", <<k, x>>, Null)
      BY <1>7 DEF ChainedM!InsertKey
    <2>2. Pairs(obj') = Pairs(obj) \cup {[key |-> k, value |-> x]}
      BY <1>2, <2>1, InsertIs
    <2>3. Mapped' = [Mapped EXCEPT ![k] = x]
      BY <1>2, <1>3, <2>2, MapAfterInsert
    <2>4. Map!Insert(k, x)
      BY <1>5, <2>1, <2>3 DEF Map!Insert
    <2> QED
      BY <1>3, <2>4 DEF Map!Next
  <1>8. ASSUME NEW op \in {"erase", "deep_erase"}, NEW k \in ChainedKeys,
               ChainedM!Did(op, k, ChainedM!Bool(ChainedM!HasKey(obj, k))), obj' = ChainedM!Erase(obj, k)
        PROVE  Map!Next
    <2>1. Mapped' = [Mapped EXCEPT ![k] = Null]
      <3>1. PICK left \in SUBSET Pairs(obj) : left = Pairs(obj')
        BY <1>2, <1>8, EraseIs
      <3>2. /\ \A n \in left : n.key # k
            /\ \A n \in Pairs(obj) : n.key # k => n \in left
        BY <1>2, <1>8, <3>1, EraseIs
      <3>3. IsMapOf(Mapped', left)
        BY <1>2, <3>1
      <3> QED
        BY <1>2, <1>3, <3>2, <3>3, MapAfterErase
    <2>2. Map!Call(op, k, Map!Truth(k \in Map!Present), [Mapped EXCEPT ![k] = Null])
      BY <1>5, <1>6, <1>8, <2>1
    <2> QED
      BY <1>3, <2>2 DEF Map!OfKey, Map!Next
  <1>9. ASSUME NEW k \in ChainedKeys, ChainedM!EraseKey(k) PROVE Map!Next
    BY <1>8, <1>9 DEF ChainedM!EraseKey
  <1>10. ASSUME NEW k \in ChainedKeys, ChainedM!DeepEraseKey(k) PROVE Map!Next
    BY <1>8, <1>10 DEF ChainedM!DeepEraseKey, ChainedM!Breaks
  <1>11. ASSUME NEW k \in ChainedKeys, ChainedM!LookupKey(k) PROVE Map!Next
    <2>1. Mapped[k] = ChainedM!Lookup(obj, k)
      BY <1>2, <1>3 DEF Found
    <2>2. Mapped' = Mapped /\ Map!Call("lookup", k, ChainedM!Lookup(obj, k), Mapped')
      BY <1>2, <1>5, <1>11 DEF ChainedM!LookupKey
    <2> QED
      BY <1>3, <2>1, <2>2 DEF Map!OfKey, Map!Next
  <1>12. ASSUME NEW k \in ChainedKeys, ChainedM!ContainsKey(k) PROVE Map!Next
    <2>1. Mapped' = Mapped /\ Map!Call("contains", k, ChainedM!Bool(ChainedM!HasKey(obj, k)), Mapped')
      BY <1>2, <1>5, <1>12 DEF ChainedM!ContainsKey
    <2>2. Map!Call("contains", k, Map!Truth(k \in Map!Present), Mapped)
      BY <1>6, <2>1
    <2> QED
      BY <1>3, <2>2 DEF Map!OfKey, Map!Next
  <1>13. ASSUME ChainedM!Measure PROVE [Map!Next]_(Map!vars)
    <2>1. Mapped' = Mapped /\ UNCHANGED OtherMapped
      BY <1>2, <1>13 DEF ChainedM!Measure, ChainedM!Did
    <2>2. CASE ChainedM!Did("size", Null, obj.size)
      BY <1>5, <2>1, <2>2, ChainedCount DEF Map!Measure, Map!Next
    <2>3. CASE ChainedM!Did("empty", Null, ChainedM!Bool(obj.size = 0))
      <3>1. ChainedM!Bool(obj.size = 0) = Map!Truth(Map!Present = {})
        BY <1>4, ChainedCount
      <3>2. Map!Call("empty", Null, Map!Truth(Map!Present = {}), Mapped)
        BY <1>5, <2>1, <2>3, <3>1
      <3> QED
        BY <3>2 DEF Map!Measure, Map!Next
    <2>4. CASE ChainedM!Did("memory", Null, obj.capacity)
      <3>1. last'.op = "memory"
        BY <2>4 DEF ChainedM!Did, ChainedM!Makes
      <3> QED
        BY <2>1, <3>1 DEF Map!Next, Map!Keep, Map!vars
    <2> QED
      BY <1>13, <2>2, <2>3, <2>4 DEF ChainedM!Measure
  <1>14. ASSUME ChainedM!Swap PROVE Map!Next
    BY <1>2, <1>14 DEF ChainedM!Swap, ChainedM!Makes, Map!Swap, Map!Next
  <1>15. ASSUME ChainedM!Free PROVE [Map!Next]_(Map!vars)
    <2>1. Mapped' = Mapped /\ UNCHANGED OtherMapped /\ last'.op = "free"
      BY <1>2, <1>15 DEF ChainedM!Free, ChainedM!Frees, ChainedM!Breaks, ChainedM!Makes
    <2> QED
      BY <2>1 DEF Map!Next, Map!Keep, Map!vars
  <1>16. ASSUME UNCHANGED <<obj, clientVars>> PROVE [Map!Next]_(Map!vars)
    BY <1>2, <1>16 DEF Map!vars, clientVars
  <1> QED
    BY <1>7, <1>9, <1>10, <1>11, <1>12, <1>13, <1>14, <1>15, <1>16 DEF ChainedM!Next

-----------------------------------------------------------------------------
(* Both tables among the containers. *)
TablesInv == (kind = "probing" => ProbingInv) /\ (kind = "chained" => ChainedInv)

LEMMA TablesInit == Init => TablesInv
  <1>1. Init => (kind = "probing" => ProbingM!Init) /\ (kind = "chained" => ChainedM!Init)
    BY DEF Init
  <1> QED
    BY <1>1, ProbingInit, ChainedInit DEF TablesInv

(* What the refinement asks of a step. *)
TableStepFollows == KeysOnce /\ KeysOnce' /\ Returned => [Map!Next]_(Map!vars)

LEMMA TablesStep ==
    ASSUME TablesInv, [Next]_allVars
    PROVE  TablesInv' /\ TableStepFollows
  <1>1. kind' = kind
    BY DEF Next, allVars
  <1>2. /\ kind = "probing" => ProbingM!Next \/ UNCHANGED <<obj, clientVars>>
        /\ kind = "chained" => ChainedM!Next \/ UNCHANGED <<obj, clientVars>>
    BY DEF Next, allVars
  <1>3. CASE kind = "probing"
    <2>1. ProbingInv /\ ProbingInv'
      BY <1>2, <1>3, ProbingStep DEF TablesInv
    <2>2. KeysOnce /\ KeysOnce' => ProbingM!KeysOnce /\ ProbingM!KeysOnce'
      BY <1>1, <1>3 DEF KeysOnce
    <2>3. TableStepFollows
      BY <1>1, <1>2, <1>3, <2>1, <2>2, ProbingMapStep DEF TableStepFollows
    <2> QED
      BY <1>1, <1>3, <2>1, <2>3 DEF TablesInv
  <1>4. CASE kind = "chained"
    <2>1. ChainedInv /\ ChainedInv'
      BY <1>2, <1>4, ChainedStep DEF TablesInv
    <2>2. KeysOnce /\ KeysOnce' => /\ ChainedM!IsExact(obj) /\ ChainedM!IsExact(other)
                                   /\ (ChainedM!IsExact(obj) /\ ChainedM!IsExact(other))'
      BY <1>1, <1>4 DEF KeysOnce
    <2>3. TableStepFollows
      BY <1>1, <1>2, <1>4, <2>1, <2>2, ChainedMapStep DEF TableStepFollows, Returned
    <2> QED
      BY <1>1, <1>4, <2>1, <2>3 DEF TablesInv
  <1>5. CASE kind \notin {"probing", "chained"}
    BY <1>1, <1>5 DEF TablesInv, TableStepFollows, KeysOnce
  <1> QED
    BY <1>3, <1>4, <1>5

LEMMA TablesHold == Spec => []TablesInv
  <1>1. TablesInv /\ [Next]_allVars => TablesInv'
    BY TablesStep
  <1> QED
    BY TablesInit, <1>1, PTL DEF Spec

(* In every state of a table with linear probing, for every capacity from 3   *)
(* and every hash: the bucket of each key comes before the first empty one   *)
(* from its home, some bucket is empty, and erase never rehashes.            *)
THEOREM ProbingKeysAreReachable == Spec => []ProbingKeysReachable
  <1>1. TablesInv => ProbingKeysReachable
    BY ProbingInvGives DEF TablesInv, ProbingKeysReachable
  <1> QED
    BY <1>1, TablesHold, PTL

(* Both hash tables answer as a map does while every key has one node: a     *)
(* lookup gives what was inserted last, and the counter counts the keys,     *)
(* through growth, the moves of erase and swaps.                             *)
THEOREM TablesAreMaps == Spec => TablesImplementMap
  <1>1. TablesInv /\ [Next]_allVars => TableStepFollows
    BY TablesStep
  <1> QED
    BY <1>1, TablesHold, PTL DEF TablesImplementMap, TableStepFollows, Spec

-----------------------------------------------------------------------------
(* The types of all twelve.  Each invariant has the type of its container;    *)
(* what they leave open is that the vector stays within the client's bound.   *)
Bounded(v) == v.size <= MaxCapacity /\ Len(v.buffer) <= MaxCapacity

VectorBounded ==
    /\ Bounded(obj) /\ Bounded(other)
    /\ iterator # Null => iterator.index <= MaxCapacity

VectorKindBounded == kind = "vector" => VectorBounded

Kinds == kind \in {"vector", "list", "forward", "stack", "fixed", "dynamic", "ring", "probing",
                   "chained", "lru", "heap", "arena"}

LEMMA QueueTypes ==
    ASSUME QueueKindsInv
    PROVE  /\ kind = "fixed" => FixedM!TypeOK
           /\ kind = "dynamic" => DynamicM!TypeOK
           /\ kind = "stack" => StackM!TypeOK
           /\ kind = "ring" => RingM!TypeOK
           /\ kind = "forward" => ForwardM!TypeOK
  <1>1. FixedInv => FixedM!TypeOK
    BY DEF FixedInv, FixedQueues, FixedCounted, FixedM!TypeOK
  <1>2. DynamicInv => DynamicM!TypeOK
    BY DEF DynamicInv, DynamicQueues, DynamicM!TypeOK
  <1>3. StackInv => StackM!TypeOK
    BY DEF StackInv, Stacks, StackFilled, StackM!TypeOK
  <1>4. RingInv => RingM!TypeOK
    BY DEF RingInv, Words, RingM!TypeOK
  <1>5. ForwardInv => ForwardM!TypeOK
    BY DEF ForwardInv, ForwardCounted, ForwardM!TypeOK
  <1> QED
    BY <1>1, <1>2, <1>3, <1>4, <1>5 DEF QueueKindsInv

LEMMA HeapTypes == HeapKindInv /\ kind = "heap" => HeapM!TypeOK
  <1> SUFFICES ASSUME HeapInv PROVE HeapM!TypeOK
    BY DEF HeapKindInv
  <1>1. /\ obj.slots \in Slots /\ obj.size \in Nat /\ obj.size <= Len(obj.slots)
        /\ life \in HeapM!Lives
    BY DEF HeapInv
  <1> QED
    BY <1>1 DEF Slots, HeapM!TypeOK, HeapM!HeapCapacity

LEMMA ListTypes == ListKindInv /\ kind = "list" => ListM!TypeOK
  <1> SUFFICES ASSUME ListInv PROVE ListM!TypeOK
    BY DEF ListKindInv
  <1>1. PICK p, c : ListHolds(obj, p, c)
    BY DEF ListInv
  <1>2. obj \in Lists
    BY <1>1 DEF ListHolds
  <1> QED
    BY <1>2 DEF ListInv, Lists, Links, ListM!TypeOK

LEMMA ArenaTypes == ArenaKindInv /\ kind = "arena" => ArenaM!TypeOK
  BY DEF ArenaKindInv, ArenaInv, ArenaM!TypeOK

(* The list of the cache has no more nodes than there are addresses. *)
LEMMA LruTypes == LruKindInv /\ kind = "lru" => LruM!TypeOK
  <1> SUFFICES ASSUME LruInv PROVE LruM!TypeOK
    BY DEF LruKindInv
  <1>1. PICK p : LruHolds(obj, p)
    BY DEF LruInv
  <1>2. /\ obj \in LruCaches /\ p \in Seq(LruM!Addresses) /\ obj.size = Len(p)
        /\ \A i, j \in 1..Len(p) : p[i] = p[j] => i = j
    BY <1>1 DEF LruHolds, IsLru
  <1>3. Capacity \in Nat /\ LruM!Addresses = 1..Capacity
    BY SequentialAssumption DEF LruM!Addresses
  <1>4. Len(p) <= Capacity
    <2>1. PICK L \in Nat : L = Len(p)
      BY <1>2
    <2>2. /\ IsFiniteSet(1..L) /\ Cardinality(1..L) = IF 1 > L THEN 0 ELSE L - 1 + 1
          /\ IsFiniteSet(1..Capacity)
          /\ Cardinality(1..Capacity) = IF 1 > Capacity THEN 0 ELSE Capacity - 1 + 1
      BY <1>3, FS_Interval
    <2>3. p \in Injection(1..L, 1..Capacity)
      BY <1>2, <1>3, <2>1 DEF Injection, IsInjective
    <2>4. Cardinality(1..L) <= Cardinality(1..Capacity)
      BY <2>2, <2>3, FS_Injection DEF ExistsInjection
    <2> QED
      BY <1>3, <2>1, <2>2, <2>4
  <1>5. obj.size \in 0..Capacity
    BY <1>2, <1>3, <1>4
  <1> QED
    BY <1>2, <1>5 DEF LruCaches, LruNodes, LruInv, LruM!TypeOK

LEMMA TableTypes ==
    TablesInv => (kind = "probing" => ProbingM!TypeOK) /\ (kind = "chained" => ChainedM!TypeOK)
  <1>1. ProbingInv => ProbingM!TypeOK
    BY ProbingInvGives
  <1>2. ASSUME ChainedInv PROVE ChainedM!TypeOK
    <2>1. ASSUME NEW t \in {obj, other}
          PROVE  /\ t.size \in 0..(ChainedModulus - 1)
                 /\ t.buckets \in [0..(t.capacity - 1) -> Seq(ChainedM!Nodes)]
      <3>1. t \in H!Tables
        BY <1>2 DEF ChainedInv, H!PlacedTables
      <3>2. PICK c \in Nat \ {0} :
                t \in [size : 0..(ChainedModulus - 1), capacity : {c}, buckets : [0..(c - 1) -> Seq(H!Nodes)]]
        BY <3>1 DEF H!Tables
      <3>3. H!Nodes = ChainedM!Nodes
        BY DEF H!Nodes, ChainedM!Nodes
      <3> QED
        BY <3>2, <3>3
    <2> QED
      BY <1>2, <2>1 DEF ChainedInv, ChainedM!TypeOK
  <1> QED
    BY <1>1, <1>2 DEF TablesInv

LEMMA VectorTypes == VectorKindInv /\ VectorKindBounded /\ kind = "vector" => VectorM!TypeOK
  <1> SUFFICES ASSUME VectorInv, VectorBounded PROVE VectorM!TypeOK
    BY DEF VectorKindInv, VectorKindBounded
  <1>1. MaxCapacity \in Nat
    BY ContainersAssumption
  <1>2. ASSUME NEW v \in {obj, other}
        PROVE  v \in [buffer : Seq(VectorElements), size : 0..MaxCapacity]
    BY <1>1 DEF VectorInv, Buffered, VectorBounded, Bounded
  <1>3. iterator = Null \/ iterator \in [index : 0..MaxCapacity, data : VectorElements]
    BY <1>1 DEF VectorInv, VectorBounded
  <1> QED
    BY <1>2, <1>3 DEF VectorInv, VectorM!TypeOK, VectorM!Words, VectorElements

(* A buffer rebuilt word by word has as many words as before. *)
LEMMA MovedLength ==
    ASSUME Buffered(obj), NEW i \in Nat, NEW n \in Int
    PROVE  Len(VectorM!Moved(i, n)) = Len(obj.buffer)
  <1>1. PICK L \in Nat : L = Len(obj.buffer)
    BY DEF Buffered
  <1> DEFINE f == VectorM!Moved(i, n)
  <1>2. f = [j \in 1..L |-> IF j \in (i + 1)..(i + n) THEN VectorM!Word(j) ELSE obj.buffer[j]]
    BY <1>1 DEF VectorM!Moved, VectorM!VectorCapacity
  <1>3. \E S : f \in [1..L -> S]
    <2>1. f \in [1..L -> {f[j] : j \in 1..L}]
      BY <1>2
    <2> QED
      BY <2>1
  <1> HIDE DEF f
  <1>4. Len(f) = L
    BY <1>3, MadeSeq
  <1> QED
    BY <1>1, <1>4 DEF f

(* What remove_if keeps is no longer than what there was. *)
LEMMA MatchingLength ==
    ASSUME NEW S, NEW s \in Seq(S), NEW P
    PROVE  Len(Matching(s, P)) \in Nat /\ Len(Matching(s, P)) <= Len(s)
  <1>1. PICK f : Collects(f, s, S, P) /\ Matching(s, P) = f[Len(s)]
    BY MatchingFacts
  <1>2. PICK N \in Nat : N = Len(s)
    OBVIOUS
  <1>3. f \in [0..N -> Seq(S \cap P)] /\ f[0] = <<>>
        /\ \A n \in 1..N : f[n] = IF s[n] \in P THEN Append(f[n - 1], s[n]) ELSE f[n - 1]
    BY <1>1, <1>2 DEF Collects
  <1> DEFINE G == {n \in 0..N : Len(f[n]) <= n}
  <1>4. 0 \in G
    BY <1>3
  <1>5. ASSUME NEW n \in 1..N, n - 1 \in G PROVE n \in G
    <2>1. PICK m \in 0..N : m = n - 1
      BY <1>5
    <2>2. PICK r \in Seq(S \cap P) : r = f[m] /\ Len(r) <= m
      BY <1>3, <1>5, <2>1
    <2>3. f[n] = r \/ (s[n] \in S \cap P /\ f[n] = Append(r, s[n]))
      <3>1. f[n] = IF s[n] \in P THEN Append(r, s[n]) ELSE r
        BY <1>3, <2>1, <2>2
      <3>2. s[n] \in S
        BY <1>2, ElementOfSeq
      <3> QED
        BY <3>1, <3>2
    <2>4. Len(r) \in Nat /\ (s[n] \in S \cap P => Len(Append(r, s[n])) = Len(r) + 1)
      <3> DEFINE T == S \cap P
      <3> HIDE DEF T
      <3>1. \A x \in T : Len(Append(r, x)) = Len(r) + 1
        BY AppendProperties DEF T
      <3> QED
        BY <3>1 DEF T
    <2> QED
      BY <2>1, <2>2, <2>3, <2>4
  <1> HIDE DEF G
  <1>6. N \in G
    <2>1. 0..N \subseteq G
      BY <1>4, <1>5, UpTo
    <2> QED
      BY <2>1
  <1>7. f[N] \in Seq(S \cap P) /\ Len(f[N]) <= N
    BY <1>3, <1>6 DEF G
  <1> QED
    BY <1>1, <1>2, <1>7

LEMMA VectorPushBounded ==
    ASSUME VectorInv, VectorBounded, NEW x \in Elements, VectorM!PushBack(x)
    PROVE  VectorBounded'
  <1>1. PICK N \in Nat, L \in Nat : /\ N = obj.size /\ L = Len(obj.buffer) /\ N <= MaxCapacity /\ L <= MaxCapacity
                                    /\ VectorM!VectorCapacity = L
    BY WordIs DEF VectorInv, Buffered, VectorBounded, Bounded
  <1> DEFINE room == IF L <= N THEN VectorM!Reserved(2 * L) ELSE obj
  <1>2. \/ UNCHANGED <<obj, other, iterator>>
        \/ /\ L <= N => 2 * L <= MaxCapacity
           /\ Len(room.buffer) > N /\ UNCHANGED <<other, iterator>>
           /\ obj' = [room EXCEPT !.buffer[N + 1] = x, !.size = @ + 1]
    BY <1>1 DEF VectorM!PushBack, VectorM!Fails, VectorM!Breaks, VectorM!Returns, VectorM!Did
  <1>3. Buffered(obj) /\ 2 * L \in Nat
    BY DEF VectorInv
  <1>4. /\ room \in [buffer : Seq(VectorElements), size : Nat] /\ room.size = N
        /\ Len(room.buffer) = IF L <= N THEN 2 * L ELSE L
    <2>1. /\ VectorM!Reserved(2 * L) \in [buffer : Seq(VectorElements), size : Nat]
          /\ VectorM!Reserved(2 * L).size = N /\ Len(VectorM!Reserved(2 * L).buffer) = 2 * L
      <3> DEFINE n == 2 * L
      <3>1. n \in Nat
        BY <1>3
      <3> HIDE DEF n
      <3>2. /\ VectorM!Reserved(n) = [buffer |-> VectorM!Realloc(obj.buffer, n), size |-> obj.size]
            /\ VectorM!Realloc(obj.buffer, n) \in Seq(VectorElements)
            /\ Len(VectorM!Realloc(obj.buffer, n)) = n
        BY <1>3, <3>1, ReservedIs
      <3> QED
        BY <1>1, <3>2 DEF n
    <2>2. obj \in [buffer : Seq(VectorElements), size : Nat]
      BY <1>3 DEF Buffered
    <2> QED
      BY <1>1, <2>1, <2>2
  <1>5. CASE UNCHANGED <<obj, other, iterator>>
    BY <1>5 DEF VectorBounded, Bounded
  <1>6. CASE /\ L <= N => 2 * L <= MaxCapacity
             /\ Len(room.buffer) > N /\ UNCHANGED <<other, iterator>>
             /\ obj' = [room EXCEPT !.buffer[N + 1] = x, !.size = @ + 1]
    <2> HIDE DEF room
    <2>1. PICK r \in Seq(VectorElements) : room = [buffer |-> r, size |-> N] /\ Len(r) = Len(room.buffer)
      BY <1>4
    <2>2. obj' = [buffer |-> [r EXCEPT ![N + 1] = x], size |-> N + 1]
      BY <1>6, <2>1
    <2>3. obj'.size = N + 1 /\ Len(obj'.buffer) = Len(r) /\ Len(r) \in Nat
      BY <2>2
    <2>4. Len(r) <= MaxCapacity /\ N + 1 <= Len(r) /\ MaxCapacity \in Nat
      <3>1. L <= N => 2 * L <= MaxCapacity
        BY <1>6
      <3>2. Len(r) > N
        BY <1>6, <2>1
      <3>3. Len(r) = IF L <= N THEN 2 * L ELSE L
        BY <1>4, <2>1
      <3>4. MaxCapacity \in Nat
        BY ContainersAssumption
      <3>5. N + 1 <= Len(r)
        BY <2>3, <3>2
      <3>6. Len(r) <= MaxCapacity
        BY <1>1, <3>1, <3>3, <3>4
      <3> QED
        BY <3>4, <3>5, <3>6
    <2>5. N + 1 <= MaxCapacity
      BY <2>3, <2>4
    <2> QED
      BY <1>6, <2>3, <2>4, <2>5 DEF VectorBounded, Bounded
  <1> QED
    BY <1>2, <1>5, <1>6

LEMMA VectorResizeBounded ==
    ASSUME VectorInv, VectorBounded, NEW n \in 0..MaxCapacity, VectorM!Resize(n)
    PROVE  VectorBounded'
  <1>1. Buffered(obj) /\ n \in Nat /\ n <= MaxCapacity
    BY ContainersAssumption DEF VectorInv
  <1>2. VectorM!Reserved(n).size = obj.size /\ Len(VectorM!Reserved(n).buffer) = n
    BY <1>1, ReservedIs
  <1>3. UNCHANGED <<other, iterator>> /\ (obj' = VectorM!Reserved(n) \/ obj' = obj)
    BY DEF VectorM!Resize, VectorM!Fails, VectorM!Breaks, VectorM!Returns, VectorM!Did
  <1> QED
    BY <1>1, <1>2, <1>3 DEF VectorBounded, Bounded

(* The calls that take elements out. *)
LEMMA VectorFewerBounded ==
    ASSUME VectorInv, VectorBounded,
           \/ VectorM!PopBack \/ VectorM!PopFront
           \/ \E P \in SUBSET Elements : VectorM!RemoveIf(P)
    PROVE  VectorBounded'
  <1>1. PICK N \in Nat, L \in Nat : /\ N = obj.size /\ L = Len(obj.buffer) /\ N <= MaxCapacity /\ L <= MaxCapacity
                                    /\ VectorM!VectorCapacity = L /\ VectorM!Contents = Reading(obj)
    BY WordIs DEF VectorInv, Buffered, VectorBounded, Bounded
  <1>2. Buffered(obj) /\ MaxCapacity \in Nat
    BY ContainersAssumption DEF VectorInv
  <1>3. ASSUME NEW m \in Nat, m <= N, UNCHANGED <<other, iterator>>, obj'.size = m, Len(obj'.buffer) = L
        PROVE  VectorBounded'
    BY <1>1, <1>2, <1>3 DEF VectorBounded, Bounded
  <1>4. ASSUME UNCHANGED <<obj, other, iterator>> PROVE VectorBounded'
    BY <1>4 DEF VectorBounded, Bounded
  <1>5. CASE VectorM!PopBack
    <2>1. \/ UNCHANGED <<obj, other, iterator>>
          \/ N # 0 /\ UNCHANGED <<other, iterator>> /\ obj' = [obj EXCEPT !.size = N - 1]
      BY <1>1, <1>5 DEF VectorM!PopBack, VectorM!Returns, VectorM!Did
    <2>2. CASE N # 0 /\ UNCHANGED <<other, iterator>> /\ obj' = [obj EXCEPT !.size = N - 1]
      <3>1. obj'.size = N - 1 /\ obj'.buffer = obj.buffer /\ N - 1 \in Nat /\ N - 1 <= N
        BY <1>2, <2>2 DEF Buffered
      <3> QED
        BY <1>1, <1>3, <2>2, <3>1
    <2> QED
      BY <1>4, <2>1, <2>2
  <1>6. CASE VectorM!PopFront
    <2>1. \/ UNCHANGED <<obj, other, iterator>>
          \/ /\ N # 0 /\ UNCHANGED <<other, iterator>>
             /\ obj' = [buffer |-> VectorM!Moved(0, N - 1), size |-> N - 1]
      BY <1>1, <1>6 DEF VectorM!PopFront, VectorM!Returns, VectorM!Did, VectorM!Fails, VectorM!Breaks
    <2>2. CASE /\ N # 0 /\ UNCHANGED <<other, iterator>>
               /\ obj' = [buffer |-> VectorM!Moved(0, N - 1), size |-> N - 1]
      <3> DEFINE m == N - 1
      <3>1. m \in Nat /\ m <= N
        BY <2>2
      <3>2. obj'.size = m /\ obj'.buffer = VectorM!Moved(0, m)
        BY <2>2
      <3> HIDE DEF m
      <3>3. Len(VectorM!Moved(0, m)) = Len(obj.buffer)
        <4>1. m \in Int /\ 0 \in Nat
          BY <3>1
        <4> QED
          BY <1>2, <4>1, MovedLength
      <3>4. Len(obj'.buffer) = L
        BY <1>1, <3>2, <3>3
      <3> QED
        BY <1>3, <2>2, <3>1, <3>2, <3>4
    <2> QED
      BY <1>4, <2>1, <2>2
  <1>7. CASE \E P \in SUBSET Elements : VectorM!RemoveIf(P)
    <2>1. PICK P \in SUBSET Elements : VectorM!RemoveIf(P)
      BY <1>7
    <2>2. PICK kept : kept = Matching(Reading(obj), VectorElements \ P)
      OBVIOUS
    <2>3. Len(kept) \in Nat /\ Len(kept) <= N
      <3>1. Reading(obj) \in Seq(VectorElements) /\ Len(Reading(obj)) = N
        BY <1>1, <1>2, ReadingIs
      <3> DEFINE s == Reading(obj)
                 Q == VectorElements \ P
      <3> HIDE DEF s, Q
      <3>2. Len(Matching(s, Q)) \in Nat /\ Len(Matching(s, Q)) <= Len(s)
        BY <3>1, MatchingLength DEF s
      <3> QED
        BY <2>2, <3>1, <3>2 DEF s, Q
    <2> DEFINE packed == [i \in 1..L |-> IF i <= Len(kept) THEN kept[i] ELSE obj.buffer[i]]
    <2>4. \/ UNCHANGED <<obj, other, iterator>>
          \/ UNCHANGED <<other, iterator>> /\ obj' = [buffer |-> packed, size |-> Len(kept)]
      <3>1. kept = VectorM!Matching(VectorM!Contents, VectorM!Words \ P)
        BY <1>1, <2>2, SameInVector DEF VectorM!Words, VectorElements
      <3> QED
        BY <1>1, <2>1, <3>1 DEF VectorM!RemoveIf, VectorM!Returns, VectorM!Did, VectorM!Fails, VectorM!Breaks
    <2>5. Len(packed) = L
      <3>1. packed \in [1..L -> {packed[i] : i \in 1..L}]
        OBVIOUS
      <3> HIDE DEF packed
      <3> QED
        BY <3>1, MadeSeq
    <2> HIDE DEF packed
    <2>6. CASE UNCHANGED <<other, iterator>> /\ obj' = [buffer |-> packed, size |-> Len(kept)]
      <3>1. obj'.size = Len(kept) /\ obj'.buffer = packed
        BY <2>6
      <3> QED
        BY <1>3, <2>3, <2>5, <2>6, <3>1
    <2> QED
      BY <1>4, <2>4, <2>6
  <1> QED
    BY <1>5, <1>6, <1>7

LEMMA VectorIterateBounded ==
    ASSUME VectorInv, VectorBounded, VectorM!Iterate
    PROVE  VectorBounded'
  <1>1. PICK N \in Nat, L \in Nat : /\ N = obj.size /\ L = Len(obj.buffer) /\ N <= MaxCapacity /\ L <= MaxCapacity
                                    /\ VectorM!VectorCapacity = L
    BY WordIs DEF VectorInv, Buffered, VectorBounded, Bounded
  <1>2. Buffered(obj) /\ MaxCapacity \in Nat /\ Bounded(other)
    BY ContainersAssumption DEF VectorInv, VectorBounded
  <1>3. iterator # Null => iterator \in [index : Nat, data : VectorElements] /\ iterator.index <= MaxCapacity
    BY DEF VectorInv, VectorBounded
  <1>4. ASSUME NEW answer, NEW i \in Nat, i <= MaxCapacity, NEW data, VectorM!Goes(answer, i, data)
        PROVE  VectorBounded'
    BY <1>4 DEF VectorM!Goes, VectorM!Did, VectorBounded, Bounded
  <1>5. ASSUME NEW op, NEW arg, VectorM!Fails(op, arg) PROVE VectorBounded'
    BY <1>5 DEF VectorM!Fails, VectorM!Breaks, VectorBounded, Bounded
  <1>6. CASE VectorM!Begin
    <2>1. UNCHANGED <<obj, other>> /\ iterator' = [index |-> 0, data |-> VectorM!Word(0)]
      BY <1>6 DEF VectorM!Begin, VectorM!Did
    <2>2. iterator'.index = 0 /\ 0 <= MaxCapacity
      BY <1>2, <2>1
    <2> QED
      BY <1>1, <1>2, <2>1, <2>2 DEF VectorBounded, Bounded
  <1>7. CASE VectorM!End
    <2>1. \/ VectorM!Fails("iterator", Null)
          \/ /\ N # 0 /\ UNCHANGED <<obj, other>>
             /\ iterator' = [index |-> N - 1, data |-> VectorM!Word(N - 1)]
      BY <1>1, <1>7 DEF VectorM!End, VectorM!Did
    <2>2. N # 0 => N - 1 \in Nat /\ N - 1 <= MaxCapacity
      BY <1>1, <1>2
    <2>3. CASE /\ N # 0 /\ UNCHANGED <<obj, other>>
               /\ iterator' = [index |-> N - 1, data |-> VectorM!Word(N - 1)]
      <3>1. iterator'.index = N - 1
        BY <2>3
      <3> QED
        BY <1>1, <1>2, <2>2, <2>3, <3>1 DEF VectorBounded, Bounded
    <2> QED
      BY <1>5, <2>1, <2>3
  <1>8. CASE iterator # Null /\ VectorM!Increment
    <2>1. PICK i \in Nat : i = iterator.index /\ i <= MaxCapacity
      BY <1>3, <1>8
    <2>2. \/ VectorM!Goes(Null, i, Null)
          \/ \E j \in {i, i + 1} : j <= MaxCapacity /\ VectorM!Goes(Null, j, VectorM!Word(j))
      BY <1>8, <2>1 DEF VectorM!Increment
    <2> QED
      BY <1>4, <2>1, <2>2
  <1>9. CASE iterator # Null /\ VectorM!Decrement
    <2>1. PICK i \in Nat : i = iterator.index /\ i <= MaxCapacity
      BY <1>3, <1>9
    <2>2. \/ VectorM!Goes(Null, 0, Null)
          \/ \E j \in {i, i - 1} : i # 0 /\ VectorM!Goes(Null, j, VectorM!Word(j))
      BY <1>9, <2>1 DEF VectorM!Decrement
    <2>3. 0 <= MaxCapacity /\ (i # 0 => i - 1 \in Nat /\ i - 1 <= MaxCapacity)
      BY <1>2, <2>1
    <2> QED
      BY <1>4, <2>1, <2>2, <2>3
  <1>10. CASE iterator # Null /\ VectorM!Peek
    <2>1. PICK i \in Nat : i = iterator.index /\ i <= MaxCapacity
      BY <1>3, <1>10
    <2>2. \E answer, data : VectorM!Goes(answer, i, data)
      BY <1>10, <2>1 DEF VectorM!Peek
    <2> QED
      BY <1>4, <2>1, <2>2
  <1>11. CASE VectorM!IteratorFree
    BY <1>11 DEF VectorM!IteratorFree, VectorM!Did, VectorBounded, Bounded
  <1>12. CASE iterator # Null /\ \E x \in Elements : VectorM!IteratorInsert(x)
    <2>1. PICK i \in Nat, x \in Elements : i = iterator.index /\ i <= MaxCapacity /\ VectorM!IteratorInsert(x)
      BY <1>3, <1>12
    <2>2. \/ VectorM!Fails("replace", x)
          \/ /\ UNCHANGED other /\ iterator' = [iterator EXCEPT !.data = x]
             /\ obj' = [obj EXCEPT !.buffer[i + 1] = x]
      BY <2>1 DEF VectorM!IteratorInsert, VectorM!Did
    <2>3. CASE /\ UNCHANGED other /\ iterator' = [iterator EXCEPT !.data = x]
               /\ obj' = [obj EXCEPT !.buffer[i + 1] = x]
      <3>1. PICK b \in Seq(VectorElements) : obj = [buffer |-> b, size |-> N] /\ Len(b) = L
        BY <1>1, <1>2 DEF Buffered
      <3>2. obj' = [buffer |-> [b EXCEPT ![i + 1] = x], size |-> N]
        BY <2>3, <3>1
      <3>3. obj'.size = N /\ Len(obj'.buffer) = L
        BY <3>1, <3>2
      <3>4. iterator' = [index |-> i, data |-> x]
        BY <1>3, <1>12, <2>1, <2>3
      <3>5. iterator'.index = i
        BY <3>4
      <3> QED
        BY <1>1, <1>2, <2>1, <2>3, <3>3, <3>5 DEF VectorBounded, Bounded
    <2> QED
      BY <1>5, <2>2, <2>3
  <1>13. CASE iterator # Null /\ VectorM!IteratorRemove
    <2>1. PICK i \in Nat : i = iterator.index /\ i <= MaxCapacity
      BY <1>3, <1>13
    <2> DEFINE n == L - (i + 1)
               moved == VectorM!Moved(i, n)
    <2>2. Len(moved) = L /\ n \in Int
      <3>1. n \in Int
        OBVIOUS
      <3> HIDE DEF n
      <3> QED
        BY <1>1, <1>2, <3>1, MovedLength
    <2>3. \/ \E data : VectorM!Goes(Null, i, data)
          \/ \E op, arg : VectorM!Fails(op, arg)
          \/ /\ N # 0 /\ UNCHANGED other
             /\ \E data : iterator' = [iterator EXCEPT !.data = data]
             /\ obj' = [obj EXCEPT !.size = N - 1] \/ obj' = [buffer |-> moved, size |-> N - 1]
      <3>1. VectorM!Moved(i, VectorM!VectorCapacity - (i + 1)) = moved
        BY <1>1
      <3> HIDE DEF moved
      <3>2. CASE N = 0
        BY <1>1, <1>13, <2>1, <3>2 DEF VectorM!IteratorRemove
      <3>3. CASE N # 0 /\ N = i + 1
        BY <1>1, <1>13, <2>1, <3>3 DEF VectorM!IteratorRemove, VectorM!Did
      <3>4. CASE N # 0 /\ N # i + 1 /\ i >= L
        BY <1>1, <1>13, <2>1, <3>4 DEF VectorM!IteratorRemove
      <3>5. CASE N # 0 /\ N # i + 1 /\ ~(i >= L)
        BY <1>1, <1>13, <2>1, <3>1, <3>5 DEF VectorM!IteratorRemove, VectorM!Did
      <3> QED
        BY <3>2, <3>3, <3>4, <3>5
    <2> HIDE DEF moved
    <2>4. CASE /\ N # 0 /\ UNCHANGED other
               /\ \E data : iterator' = [iterator EXCEPT !.data = data]
               /\ obj' = [obj EXCEPT !.size = N - 1] \/ obj' = [buffer |-> moved, size |-> N - 1]
      <3>1. iterator'.index = i
        BY <1>3, <1>13, <2>1, <2>4
      <3>2. obj'.size = N - 1 /\ Len(obj'.buffer) = L
        <4>1. CASE obj' = [obj EXCEPT !.size = N - 1]
          BY <1>1, <1>2, <4>1 DEF Buffered
        <4>2. CASE obj' = [buffer |-> moved, size |-> N - 1]
          BY <2>2, <4>2
        <4> QED
          BY <2>4, <4>1, <4>2
      <3>3. N - 1 <= MaxCapacity
        BY <1>1, <1>2, <2>4
      <3> QED
        BY <1>1, <1>2, <2>1, <2>4, <3>1, <3>2, <3>3 DEF VectorBounded, Bounded
    <2> QED
      BY <1>4, <1>5, <2>1, <2>3, <2>4
  <1> QED
    BY <1>6, <1>7, <1>8, <1>9, <1>10, <1>11, <1>12, <1>13 DEF VectorM!Iterate

LEMMA VectorBoundedStep ==
    ASSUME VectorInv, VectorBounded, VectorM!Next
    PROVE  VectorBounded'
  <1>1. CASE \E x \in Elements : VectorM!PushBack(x)
    BY <1>1, VectorPushBounded
  <1>2. CASE (\E n \in 0..MaxCapacity : VectorM!Resize(n)) \/ VectorM!ShrinkToFit
    <2>1. obj.size \in 0..MaxCapacity
      BY ContainersAssumption DEF VectorInv, Buffered, VectorBounded, Bounded
    <2> QED
      BY <1>2, <2>1, VectorResizeBounded DEF VectorM!ShrinkToFit
  <1>3. CASE VectorM!PopBack \/ VectorM!PopFront \/ \E P \in SUBSET Elements : VectorM!RemoveIf(P)
    BY <1>3, VectorFewerBounded
  <1>4. CASE VectorM!Iterate
    BY <1>4, VectorIterateBounded
  <1>5. CASE (\E P \in SUBSET Elements : VectorM!FindIf(P)) \/ VectorM!ForEach \/ VectorM!Look \/ VectorM!Free
    <2>1. UNCHANGED <<obj, other, iterator>>
      <3>1. CASE \E P \in SUBSET Elements : VectorM!FindIf(P)
        BY <3>1 DEF VectorM!FindIf, VectorM!Returns, VectorM!Did, VectorM!Fails, VectorM!Breaks
      <3>2. CASE VectorM!ForEach
        BY <3>2 DEF VectorM!ForEach, VectorM!Returns, VectorM!Did, VectorM!Fails, VectorM!Breaks
      <3>3. CASE VectorM!Look
        BY <3>3 DEF VectorM!Look, VectorM!Returns, VectorM!Did
      <3>4. CASE VectorM!Free
        BY <3>4 DEF VectorM!Free, VectorM!Frees, VectorM!Breaks
      <3> QED
        BY <1>5, <3>1, <3>2, <3>3, <3>4
    <2> QED
      BY <2>1 DEF VectorBounded, Bounded
  <1>6. CASE VectorM!Swap \/ VectorM!DeepCopy
    BY <1>6 DEF VectorM!Swap, VectorM!DeepCopy, VectorBounded, Bounded
  <1> QED
    BY <1>1, <1>2, <1>3, <1>4, <1>5, <1>6 DEF VectorM!Next

LEMMA VectorStaysBounded == Spec => []VectorKindBounded
  <1>1. Init => VectorKindBounded
    <2> SUFFICES ASSUME Init, kind = "vector" PROVE VectorBounded
      BY DEF VectorKindBounded
    <2> DEFINE b == [i \in 1..InitialCapacity |-> Null]
    <2>1. obj = [buffer |-> b, size |-> 0] /\ other = [buffer |-> b, size |-> 0] /\ iterator = Null
      BY DEF Init, VectorM!Init, VectorM!New
    <2>2. Len(b) = InitialCapacity
      <3>1. b \in [1..InitialCapacity -> {Null}] /\ InitialCapacity \in Nat
        BY SequentialAssumption
      <3> HIDE DEF b
      <3> QED
        BY <3>1, MadeSeq
    <2> HIDE DEF b
    <2>3. InitialCapacity <= MaxCapacity /\ 0 <= MaxCapacity
      BY ContainersAssumption
    <2> QED
      BY <2>1, <2>2, <2>3 DEF VectorBounded, Bounded
  <1>2. VectorKindInv /\ VectorKindBounded /\ [Next]_allVars => VectorKindBounded'
    <2> SUFFICES ASSUME VectorKindInv, VectorKindBounded, [Next]_allVars, kind' = "vector"
                 PROVE  VectorBounded'
      BY DEF VectorKindBounded
    <2>1. CASE Next
      <3>1. kind = "vector" /\ VectorM!Next
        BY <2>1 DEF Next
      <3> QED
        BY <3>1, VectorBoundedStep DEF VectorKindInv, VectorKindBounded
    <2>2. CASE UNCHANGED allVars
      BY <2>2 DEF allVars, clientVars, VectorKindBounded, VectorBounded, Bounded
    <2> QED
      BY <2>1, <2>2
  <1> QED
    BY <1>1, <1>2, VectorKindHolds, PTL DEF Spec

(* Every container keeps its type, for any elements, keys, hashes, sizes and  *)
(* bounds, through failed allocations, undefined reads and frees; so do the  *)
(* second container of a pair and the iterator.                              *)
THEOREM TypesCorrect == Spec => []TypesOK
  <1>1. KindInv /\ QueueKindsInv /\ VectorKindInv /\ VectorKindBounded /\ HeapKindInv /\ TablesInv
            /\ Kinds => TypesOK
    <2> SUFFICES ASSUME KindInv, QueueKindsInv, VectorKindInv, VectorKindBounded, HeapKindInv, TablesInv, Kinds
                 PROVE  TypesOK
      OBVIOUS
    <2>1. /\ kind = "vector" => VectorM!TypeOK
          /\ kind = "heap" => HeapM!TypeOK
          /\ kind = "list" => ListM!TypeOK
          /\ kind = "arena" => ArenaM!TypeOK
          /\ kind = "lru" => LruM!TypeOK
      BY VectorTypes, HeapTypes, ListTypes, ArenaTypes, LruTypes DEF KindInv
    <2>2. /\ kind = "fixed" => FixedM!TypeOK
          /\ kind = "dynamic" => DynamicM!TypeOK
          /\ kind = "stack" => StackM!TypeOK
          /\ kind = "ring" => RingM!TypeOK
          /\ kind = "forward" => ForwardM!TypeOK
      BY QueueTypes
    <2>3. (kind = "probing" => ProbingM!TypeOK) /\ (kind = "chained" => ChainedM!TypeOK)
      BY TableTypes
    <2>4. kind = "vector" => TypesOK
      BY <2>1 DEF TypesOK
    <2>5. kind = "list" => TypesOK
      BY <2>1 DEF TypesOK
    <2>6. kind = "forward" => TypesOK
      BY <2>2 DEF TypesOK
    <2>7. kind = "stack" => TypesOK
      BY <2>2 DEF TypesOK
    <2>8. kind = "fixed" => TypesOK
      BY <2>2 DEF TypesOK
    <2>9. kind = "dynamic" => TypesOK
      BY <2>2 DEF TypesOK
    <2>10. kind = "ring" => TypesOK
      BY <2>2 DEF TypesOK
    <2>11. kind = "probing" => TypesOK
      BY <2>3 DEF TypesOK
    <2>12. kind = "chained" => TypesOK
      BY <2>3 DEF TypesOK
    <2>13. kind = "lru" => TypesOK
      BY <2>1 DEF TypesOK
    <2>14. kind = "heap" => TypesOK
      BY <2>1 DEF TypesOK
    <2>15. kind = "arena" => TypesOK
      BY <2>1 DEF TypesOK
    <2> QED
      BY <2>4, <2>5, <2>6, <2>7, <2>8, <2>9, <2>10, <2>11, <2>12, <2>13, <2>14, <2>15 DEF Kinds
  <1>2. Spec => []Kinds
    <2>1. Init => Kinds
      BY DEF Init, Kinds
    <2>2. Kinds /\ [Next]_allVars => Kinds'
      BY DEF Kinds, Next, allVars
    <2> QED
      BY <2>1, <2>2, PTL DEF Spec
  <1>3. Spec => []KindInv
    BY KindHolds
  <1> QED
    BY <1>1, <1>2, <1>3, QueueKindsHold, VectorKindHolds, VectorStaysBounded, HeapKindHolds, TablesHold, PTL

=============================================================================
