--------------------- MODULE ConcurrentHashTable_proofs ----------------------
(***************************************************************************)
(* Proofs about ConcurrentHashTable and the functions of ChainedTable it   *)
(* is built from, for any threads, keys, elements, hash, first capacity    *)
(* and width of size_t.                                                    *)
(*                                                                         *)
(* The growth of a table is defined by recursion, over the nodes and,      *)
(* once, inside itself. What such a definition gives is shown in three     *)
(* steps: a function that satisfies its equation exists (RecursionUpTo),   *)
(* there is only one (FillingIsUnique), and what its values have in common *)
(* follows by induction up to the number of nodes (UpTo).                  *)
(*                                                                         *)
(* The invariants come in three layers. TableInvariant holds for all       *)
(* clients. FreshInv holds for clients that insert absent keys only        *)
(* (Reinsert is false), and SizeInv when there are also fewer keys than a  *)
(* size_t can count. The refinement of AtomicMap needs all three.          *)
(***************************************************************************)
EXTENDS ConcurrentHashTable, CommonLemmas, FiniteSetTheorems

-----------------------------------------------------------------------------
(* The functions of ChainedTable. *)

(* The search of a chain ends at the first node with the key, or at 0 if      *)
(* there is none.                                                             *)
LEMMA FindIfFacts ==
    ASSUME NEW chain \in Seq(Nodes), NEW key
    PROVE  /\ FindIf(chain, key) \in 0..Len(chain)
           /\ FindIf(chain, key) # 0 => chain[FindIf(chain, key)].key = key
           /\ \A j \in 1..Len(chain) :
                  FindIf(chain, key) = 0 \/ j < FindIf(chain, key) => chain[j].key # key
  <1> DEFINE I == {j \in 1..Len(chain) : chain[j].key = key}
  <1>1. FindIf(chain, key) = IF I # {} THEN Min(I) ELSE 0
    BY DEF FindIf, SelectInSeq
  <1>2. CASE I = {}
    BY <1>1, <1>2
  <1>3. CASE I # {}
    <2>1. I \subseteq Nat
      OBVIOUS
    <2>2. PICK n \in I : \A m \in I : n <= m
      <3> HIDE DEF I
      <3> QED
        BY <1>3, <2>1, LeastOf
    <2>3. Min(I) \in I /\ \A m \in I : Min(I) <= m
      <3> HIDE DEF I
      <3> QED
      BY <2>2 DEF Min
    <2>4. FindIf(chain, key) \in I /\ \A m \in I : FindIf(chain, key) <= m
      BY <1>1, <1>3, <2>3
    <2> QED
      BY <2>4
  <1> QED
    BY <1>2, <1>3

(* FlattenSeq joins the sequences one by one. *)
LEMMA FlattenIs ==
    ASSUME NEW S, NEW seqs \in Seq(Seq(S)), seqs # <<>>
    PROVE  \E f \in [0..(Len(seqs) - 1) -> Seq(S)] :
               /\ f[0] = seqs[1]
               /\ \A n \in 1..(Len(seqs) - 1) : f[n] = f[n - 1] \o seqs[n + 1]
               /\ FlattenSeq(seqs) = f[Len(seqs) - 1]
  <1>0. PICK N \in Nat : N = Len(seqs) - 1
    <2>1. Len(seqs) - 1 \in Nat
      BY EmptySeq
    <2> QED
      BY <2>1
  <1> DEFINE L == Len(seqs)
             step == [p \in (1..N) \X Seq(S) |-> p[2] \o seqs[p[1] + 1]]
             Is(g) == g = [i \in 1..L |-> IF i = 1 THEN seqs[i] ELSE g[i - 1] \o seqs[i]]
  <1>1. L = N + 1 /\ L # 0
    BY <1>0
  <1>2. \A i \in 1..L : seqs[i] \in Seq(S)
    BY <1>1
  <1>3. step \in [(1..N) \X Seq(S) -> Seq(S)]
    <2>1. ASSUME NEW p \in (1..N) \X Seq(S) PROVE p[2] \o seqs[p[1] + 1] \in Seq(S)
      <3>1. p[2] \in Seq(S) /\ p[1] + 1 \in 1..L
        BY <1>1
      <3> QED
        BY <1>2, <3>1, ConcatProperties
    <2> QED
      BY <2>1
  <1>4. seqs[1] \in Seq(S)
    BY <1>1, <1>2
  <1>5. PICK f : Recursive(f, N, Seq(S), seqs[1], step)
    <2> HIDE DEF step
    <2> QED
      BY <1>3, <1>4, RecursionUpTo
  <1>6. f \in [0..N -> Seq(S)] /\ f[0] = seqs[1]
    BY <1>5 DEF Recursive
  <1>7. ASSUME NEW n \in 1..N PROVE f[n] = f[n - 1] \o seqs[n + 1]
    <2>1. f[n] = step[<<n, f[n - 1]>>]
      BY <1>5 DEF Recursive
    <2>2. f[n - 1] \in Seq(S)
      BY <1>6
    <2>3. <<n, f[n - 1]>> \in (1..N) \X Seq(S)
      BY <2>2
    <2> QED
      BY <2>1, <2>3
  <1>8. \E g : Is(g)
    <2> DEFINE g == [i \in 1..L |-> f[i - 1]]
    <2>1. ASSUME NEW i \in 1..L
          PROVE  g[i] = IF i = 1 THEN seqs[i] ELSE g[i - 1] \o seqs[i]
      <3>1. CASE i = 1
        BY <1>1, <1>6, <3>1
      <3>2. CASE i # 1
        <4>1. i - 1 \in 1..N /\ i - 1 \in 1..L /\ (i - 1) + 1 = i
          BY <1>1, <3>2
        <4>2. g[i] = f[i - 1] /\ g[i - 1] = f[(i - 1) - 1]
          BY <4>1
        <4> QED
          BY <1>7, <3>2, <4>1, <4>2
      <3> QED
        BY <3>1, <3>2
    <2>2. Is(g)
      BY <2>1
    <2> HIDE DEF g, Is
    <2> QED
      BY <2>2
  <1> DEFINE flatten == CHOOSE g : Is(g)
  <1>9. Is(flatten)
    <2> HIDE DEF Is
    <2> QED
      BY <1>8
  <1>10. FlattenSeq(seqs) = flatten[L]
    BY <1>1 DEF FlattenSeq
  <1> HIDE DEF flatten, L
  <1>11. \A n \in 0..N : flatten[n + 1] = f[n]
    <2> DEFINE T == {n \in 0..N : flatten[n + 1] = f[n]}
    <2>1. 0 \in T
      BY <1>1, <1>6, <1>9
    <2>2. ASSUME NEW n \in 1..N, n - 1 \in T PROVE n \in T
      <3>1. n + 1 \in 1..L /\ n + 1 # 1 /\ (n + 1) - 1 = n
        BY <1>1
      <3>2. flatten[n + 1] = flatten[n] \o seqs[n + 1]
        BY <1>9, <3>1
      <3>3. flatten[n] = f[n - 1]
        BY <2>2
      <3>4. flatten[n + 1] = f[n]
        BY <1>7, <3>2, <3>3
      <3> QED
        BY <3>4
    <2>3. 0..N \subseteq T
      <3> HIDE DEF T
      <3> QED
        BY <1>1, <2>1, <2>2, UpTo
    <2> QED
      BY <2>3
  <1>12. FlattenSeq(seqs) = f[N]
    BY <1>1, <1>10, <1>11
  <1> HIDE DEF step
  <1> QED
    BY <1>0, <1>6, <1>7, <1>12

-----------------------------------------------------------------------------
(* Tables. *)

(* What a table is: as many chains as its capacity says, and a size_t. *)
Tables ==
    UNION {[size : 0..(SizeModulus - 1), capacity : {c}, buckets : [0..(c - 1) -> Seq(Nodes)]] :
           c \in Nat \ {0}}

(* The nodes of a table, and their keys. *)
Held(t) == UNION {ToSet(t.buckets[i]) : i \in DOMAIN t.buckets}

(* The keys of those nodes. *)
KeysIn(t) == {n.key : n \in Held(t)}

(* Every node is in the bucket its key hashes to. *)
Placed(t) ==
    \A i \in DOMAIN t.buckets : \A j \in DOMAIN t.buckets[i] :
        KeyIndex(t, t.buckets[i][j].key) = i

(* No key has two nodes of a chain. *)
KeysOnce(s) == \A j, l \in DOMAIN s : s[j].key = s[l].key => j = l

(* No key has nodes of both chains. *)
KeysApart(s, r) == \A m \in ToSet(s), n \in ToSet(r) : m.key # n.key

(* No key has two nodes of the table, when the nodes are placed. *)
OneEach(t) == \A i \in DOMAIN t.buckets : KeysOnce(t.buckets[i])

(* The fields of a table. *)
LEMMA TableFacts ==
    ASSUME NEW t \in Tables
    PROVE  /\ t.size \in 0..(SizeModulus - 1)
           /\ t.capacity \in Nat \ {0}
           /\ t.buckets \in [0..(t.capacity - 1) -> Seq(Nodes)]
           /\ t = [size |-> t.size, capacity |-> t.capacity, buckets |-> t.buckets]
  BY DEF Tables

(* A record with these fields is a table. *)
LEMMA TableMade ==
    ASSUME NEW size \in 0..(SizeModulus - 1), NEW capacity \in Nat \ {0},
           NEW buckets \in [0..(capacity - 1) -> Seq(Nodes)]
    PROVE  [size |-> size, capacity |-> capacity, buckets |-> buckets] \in Tables
  BY DEF Tables

(* A new table is empty. *)
LEMMA NewTableFacts ==
    ASSUME NEW c \in Nat \ {0}
    PROVE  /\ NewTable(c) \in Tables
           /\ NewTable(c).size = 0 /\ NewTable(c).capacity = c
           /\ Held(NewTable(c)) = {}
           /\ Placed(NewTable(c)) /\ OneEach(NewTable(c))
  <1>1. [i \in 0..(c - 1) |-> <<>>] \in [0..(c - 1) -> Seq(Nodes)]
    OBVIOUS
  <1>2. 0 \in 0..(SizeModulus - 1)
    BY ChainedTableAssumption
  <1>3. NewTable(c) \in Tables
    BY <1>1, <1>2, TableMade DEF NewTable
  <1>4. /\ NewTable(c).size = 0 /\ NewTable(c).capacity = c
        /\ DOMAIN NewTable(c).buckets = 0..(c - 1)
        /\ \A i \in 0..(c - 1) : NewTable(c).buckets[i] = <<>>
    BY DEF NewTable
  <1> QED
    BY <1>3, <1>4 DEF Held, ToSet, Placed, OneEach, KeysOnce

(* No key is hashed to a bucket outside the array. *)
LEMMA KeyIndexFacts ==
    ASSUME NEW t \in Tables, NEW k \in Keys
    PROVE  /\ KeyIndex(t, k) \in 0..(t.capacity - 1)
           /\ KeyIndex(t, k) \in DOMAIN t.buckets
           /\ Chain(t, k) \in Seq(Nodes)
  <1>1. Hash[k] \in Nat
    BY ChainedTableAssumption
  <1>2. t.capacity \in Nat \ {0} /\ t.buckets \in [0..(t.capacity - 1) -> Seq(Nodes)]
    BY TableFacts
  <1>3. Hash[k] % t.capacity \in 0..(t.capacity - 1)
    BY <1>1, <1>2
  <1> QED
    BY <1>2, <1>3 DEF KeyIndex, Chain

(* A node is held by a bucket, at a place of its chain. *)
LEMMA HeldFacts ==
    ASSUME NEW t \in Tables
    PROVE  /\ Held(t) \subseteq Nodes
           /\ \A n : n \in Held(t) <=>
                  \E i \in DOMAIN t.buckets : \E j \in 1..Len(t.buckets[i]) : n = t.buckets[i][j]
           /\ \A k : k \in KeysIn(t) <=> \E n \in Held(t) : n.key = k
  <1>1. \A i \in DOMAIN t.buckets : t.buckets[i] \in Seq(Nodes)
    BY TableFacts
  <1>2. \A n : n \in Held(t) <=>
            \E i \in DOMAIN t.buckets : \E j \in 1..Len(t.buckets[i]) : n = t.buckets[i][j]
    BY <1>1 DEF Held, ToSet
  <1>3. Held(t) \subseteq Nodes
    BY <1>1, <1>2
  <1> QED
    BY <1>2, <1>3 DEF KeysIn

(* The one chain that is searched for a key decides whether the table has it. *)
LEMMA LookupFacts ==
    ASSUME NEW t \in Tables, Placed(t), NEW k \in Keys
    PROVE  /\ HasKey(t, k) <=> k \in KeysIn(t)
           /\ HasKey(t, k) => \E n \in Held(t) : n.key = k /\ Lookup(t, k) = n.data
           /\ ~HasKey(t, k) => Lookup(t, k) = Null
  <1> DEFINE chain == Chain(t, k)
             i == FindIf(chain, k)
             b == KeyIndex(t, k)
  <1>1. /\ b \in DOMAIN t.buckets
        /\ chain = t.buckets[b]
        /\ chain \in Seq(Nodes)
    BY KeyIndexFacts DEF Chain
  <1>2. /\ i \in 0..Len(chain)
        /\ i # 0 => chain[i].key = k
        /\ \A j \in 1..Len(chain) : i = 0 \/ j < i => chain[j].key # k
    BY <1>1, FindIfFacts
  <1>3. HasKey(t, k) <=> i # 0
    BY DEF HasKey
  <1>4. Lookup(t, k) = IF i = 0 THEN Null ELSE chain[i].data
    BY DEF Lookup
  <1> HIDE DEF chain, i, b
  <1>5. CASE i # 0
    <2>1. i \in 1..Len(chain)
      BY <1>2, <1>5
    <2>2. chain[i] \in Held(t)
      BY <1>1, <2>1, HeldFacts
    <2> QED
      BY <1>2, <1>3, <1>4, <1>5, <2>2, HeldFacts
  <1>6. CASE i = 0
    <2>1. ASSUME k \in KeysIn(t) PROVE FALSE
      <3>1. PICK c \in DOMAIN t.buckets : \E j \in 1..Len(t.buckets[c]) : t.buckets[c][j].key = k
        BY <2>1, HeldFacts
      <3>2. PICK j \in 1..Len(t.buckets[c]) : t.buckets[c][j].key = k
        BY <3>1
      <3>3. t.buckets[c] \in Seq(Nodes)
        BY TableFacts
      <3>4. c = b
        BY <3>2, <3>3 DEF Placed, b
      <3> QED
        BY <1>1, <1>2, <1>6, <3>2, <3>4
    <2> QED
      BY <1>3, <1>4, <1>6, <2>1
  <1> QED
    BY <1>5, <1>6

(* With one node for each key a table is a map. *)
LEMMA OneEachFacts ==
    ASSUME NEW t \in Tables, Placed(t), OneEach(t)
    PROVE  /\ \A m, n \in Held(t) : m.key = n.key => m = n
           /\ \A n \in Held(t) : Lookup(t, n.key) = n.data
  <1>1. ASSUME NEW m \in Held(t), NEW n \in Held(t), m.key = n.key PROVE m = n
    <2>1. PICK a \in DOMAIN t.buckets : \E j \in 1..Len(t.buckets[a]) : m = t.buckets[a][j]
      BY HeldFacts
    <2>2. PICK b \in DOMAIN t.buckets : \E j \in 1..Len(t.buckets[b]) : n = t.buckets[b][j]
      BY HeldFacts
    <2>3. t.buckets[a] \in Seq(Nodes) /\ t.buckets[b] \in Seq(Nodes)
      BY TableFacts
    <2>4. a = KeyIndex(t, m.key) /\ b = KeyIndex(t, n.key)
      BY <2>1, <2>2, <2>3 DEF Placed
    <2>5. a = b
      BY <1>1, <2>4
    <2> QED
      BY <1>1, <2>1, <2>2, <2>3, <2>5 DEF OneEach, KeysOnce
  <1>2. ASSUME NEW n \in Held(t) PROVE Lookup(t, n.key) = n.data
    <2>1. n.key \in Keys /\ n.key \in KeysIn(t)
      BY HeldFacts DEF Nodes
    <2>2. PICK m \in Held(t) : m.key = n.key /\ Lookup(t, n.key) = m.data
      BY <2>1, LookupFacts
    <2> QED
      BY <1>1, <2>2
  <1> QED
    BY <1>1, <1>2

(* What a concatenation of chains holds. *)
LEMMA ConcatFacts ==
    ASSUME NEW s \in Seq(Nodes), NEW r \in Seq(Nodes)
    PROVE  /\ s \o r \in Seq(Nodes)
           /\ ToSet(s \o r) = ToSet(s) \cup ToSet(r)
           /\ KeysOnce(s) /\ KeysOnce(r) /\ KeysApart(s, r) => KeysOnce(s \o r)
  <1>1. PICK u \in Seq(Nodes) : u = s \o r
    BY ConcatProperties
  <1>2. /\ Len(u) = Len(s) + Len(r)
        /\ \A j \in 1..Len(s) : j \in 1..Len(u) /\ u[j] = s[j]
        /\ \A j \in 1..Len(r) : Len(s) + j \in 1..Len(u) /\ u[Len(s) + j] = r[j]
        /\ Len(s) \in Nat /\ Len(r) \in Nat
    BY <1>1
  <1>3. \A j \in 1..Len(u) : j \in 1..Len(s) \/
            (j - Len(s) \in 1..Len(r) /\ j = Len(s) + (j - Len(s)))
    BY <1>2
  <1>4. /\ DOMAIN s = 1..Len(s) /\ DOMAIN r = 1..Len(r) /\ DOMAIN u = 1..Len(u)
    OBVIOUS
  <1>5. ToSet(u) = ToSet(s) \cup ToSet(r)
    <2>1. \A x \in ToSet(u) : x \in ToSet(s) \cup ToSet(r)
      <3>1. ASSUME NEW j \in 1..Len(u) PROVE u[j] \in ToSet(s) \cup ToSet(r)
        BY <1>2, <1>3, <1>4 DEF ToSet
      <3> QED
        BY <1>4, <3>1 DEF ToSet
    <2>2. \A x \in ToSet(s) : x \in ToSet(u)
      BY <1>2, <1>4 DEF ToSet
    <2>3. \A x \in ToSet(r) : x \in ToSet(u)
      BY <1>2, <1>4 DEF ToSet
    <2> QED
      BY <2>1, <2>2, <2>3
  <1>6. ASSUME KeysOnce(s), KeysOnce(r), KeysApart(s, r),
               NEW j \in 1..Len(u), NEW l \in 1..Len(u), u[j].key = u[l].key
        PROVE  j = l
    <2>1. \A a \in 1..Len(s), b \in 1..Len(r) : s[a].key # r[b].key
      BY <1>4, <1>6 DEF KeysApart, ToSet
    <2>2. CASE j \in 1..Len(s) /\ l \in 1..Len(s)
      BY <1>2, <1>4, <1>6, <2>2 DEF KeysOnce
    <2>3. CASE j \in 1..Len(s) /\ l \notin 1..Len(s)
      <3>1. l - Len(s) \in 1..Len(r) /\ u[l] = r[l - Len(s)] /\ u[j] = s[j]
        BY <1>2, <1>3, <2>3
      <3> QED
        BY <1>6, <2>1, <2>3, <3>1
    <2>4. CASE j \notin 1..Len(s) /\ l \in 1..Len(s)
      <3>1. j - Len(s) \in 1..Len(r) /\ u[j] = r[j - Len(s)] /\ u[l] = s[l]
        BY <1>2, <1>3, <2>4
      <3> QED
        BY <1>6, <2>1, <2>4, <3>1
    <2>5. CASE j \notin 1..Len(s) /\ l \notin 1..Len(s)
      <3>1. /\ j - Len(s) \in 1..Len(r) /\ u[j] = r[j - Len(s)]
            /\ l - Len(s) \in 1..Len(r) /\ u[l] = r[l - Len(s)]
        BY <1>2, <1>3, <2>5
      <3>2. j - Len(s) = l - Len(s)
        BY <1>4, <1>6, <3>1 DEF KeysOnce
      <3> QED
        BY <1>2, <3>2
    <2> QED
      BY <2>2, <2>3, <2>4, <2>5
  <1> QED
    BY <1>1, <1>4, <1>5, <1>6 DEF KeysOnce

(* What a row of chains holds. *)
LEMMA FlattenFacts ==
    ASSUME NEW seqs \in Seq(Seq(Nodes)), seqs # <<>>
    PROVE  /\ FlattenSeq(seqs) \in Seq(Nodes)
           /\ ToSet(FlattenSeq(seqs)) = UNION {ToSet(seqs[i]) : i \in 1..Len(seqs)}
           /\ (/\ \A i \in 1..Len(seqs) : KeysOnce(seqs[i])
               /\ \A h, i \in 1..Len(seqs) : h # i => KeysApart(seqs[h], seqs[i]))
              => KeysOnce(FlattenSeq(seqs))
  <1>1. PICK N \in Nat : N = Len(seqs) - 1
    <2>1. Len(seqs) - 1 \in Nat
      BY EmptySeq
    <2> QED
      BY <2>1
  <1>2. PICK f \in [0..(Len(seqs) - 1) -> Seq(Nodes)] :
            /\ f[0] = seqs[1]
            /\ \A n \in 1..(Len(seqs) - 1) : f[n] = f[n - 1] \o seqs[n + 1]
            /\ FlattenSeq(seqs) = f[Len(seqs) - 1]
    BY FlattenIs
  <1>3. /\ f \in [0..N -> Seq(Nodes)]
        /\ f[0] = seqs[1]
        /\ \A n \in 1..N : f[n] = f[n - 1] \o seqs[n + 1]
        /\ FlattenSeq(seqs) = f[N]
    BY <1>1, <1>2
  <1>4. Len(seqs) = N + 1 /\ \A i \in 1..(N + 1) : seqs[i] \in Seq(Nodes)
    BY <1>1
  <1> DEFINE Visits(n) == ToSet(f[n]) = UNION {ToSet(seqs[i]) : i \in 1..(n + 1)}
             Apart ==
               /\ \A i \in 1..Len(seqs) : KeysOnce(seqs[i])
               /\ \A h, i \in 1..Len(seqs) : h # i => KeysApart(seqs[h], seqs[i])
             S == {n \in 0..N : Visits(n) /\ (Apart => KeysOnce(f[n]))}
  <1>5. 0 \in S
    <2>1. 0 \in 0..N /\ 1..(0 + 1) = {1}
      OBVIOUS
    <2>2. Visits(0)
      BY <1>3, <2>1
    <2>3. 1 \in 1..Len(seqs)
      BY <1>4
    <2>4. Apart => KeysOnce(f[0])
      BY <1>3, <2>3
    <2> HIDE DEF Visits, Apart
    <2> QED
      BY <2>1, <2>2, <2>4
  <1>6. ASSUME NEW n \in 1..N, n - 1 \in S PROVE n \in S
    <2>1. /\ f[n - 1] \in Seq(Nodes) /\ seqs[n + 1] \in Seq(Nodes)
          /\ f[n] = f[n - 1] \o seqs[n + 1]
      <3>1. n - 1 \in 0..N /\ n + 1 \in 1..(N + 1)
        OBVIOUS
      <3> QED
        BY <1>3, <1>4, <3>1
    <2>2. /\ ToSet(f[n]) = ToSet(f[n - 1]) \cup ToSet(seqs[n + 1])
          /\ KeysOnce(f[n - 1]) /\ KeysOnce(seqs[n + 1]) /\ KeysApart(f[n - 1], seqs[n + 1])
             => KeysOnce(f[n])
      BY <2>1, ConcatFacts
    <2>3. 1..(n + 1) = 1..n \cup {n + 1} /\ (n - 1) + 1 = n /\ n \in 0..N /\ n + 1 \in 1..Len(seqs)
      <3>1. 1..(n + 1) = 1..n \cup {n + 1}
        OBVIOUS
      <3>2. (n - 1) + 1 = n /\ n \in 0..N
        OBVIOUS
      <3>3. n + 1 \in 1..Len(seqs)
        BY <1>4
      <3> QED
        BY <3>1, <3>2, <3>3
    <2>4. ToSet(f[n - 1]) = UNION {ToSet(seqs[i]) : i \in 1..n}
      BY <1>6, <2>3
    <2>5. Visits(n)
      BY <2>2, <2>3, <2>4
    <2>6. ASSUME Apart PROVE KeysOnce(f[n])
      <3>1. KeysOnce(f[n - 1]) /\ KeysOnce(seqs[n + 1])
        BY <1>6, <2>3, <2>6
      <3>2. \A i \in 1..n : KeysApart(seqs[i], seqs[n + 1])
        <4>1. \A i \in 1..n : i \in 1..Len(seqs) /\ i # n + 1
          BY <1>4
        <4> QED
          BY <2>3, <2>6, <4>1
      <3>3. KeysApart(f[n - 1], seqs[n + 1])
        BY <2>4, <3>2 DEF KeysApart
      <3> QED
        BY <2>2, <3>1, <3>3
    <2> HIDE DEF Visits, Apart
    <2> QED
      BY <2>3, <2>5, <2>6
  <1>7. N \in S
    <2> HIDE DEF S, Visits, Apart
    <2>1. \A n \in 1..N : n - 1 \in S => n \in S
      BY <1>6
    <2>2. 0..N \subseteq S
      BY <1>5, <2>1, UpTo
    <2> QED
      BY <2>2
  <1>8. Visits(N) /\ (Apart => KeysOnce(f[N]))
    <2> HIDE DEF Visits, Apart
    <2> QED
      BY <1>7
  <1> QED
    BY <1>3, <1>4, <1>8

(* The loops over all buckets visit the nodes of the table, each once if no   *)
(* key has two.                                                              *)
LEMMA AllNodesFacts ==
    ASSUME NEW t \in Tables
    PROVE  /\ AllNodes(t) \in Seq(Nodes)
           /\ ToSet(AllNodes(t)) = Held(t)
           /\ Placed(t) /\ OneEach(t) => KeysOnce(AllNodes(t))
           /\ IsFiniteSet(KeysIn(t))
           /\ Cardinality(KeysIn(t)) <= Len(AllNodes(t))
  <1> DEFINE seqs == [i \in 1..t.capacity |-> t.buckets[i - 1]]
  <1>1. t.capacity \in Nat \ {0} /\ t.buckets \in [0..(t.capacity - 1) -> Seq(Nodes)]
    BY TableFacts
  <1>2. \A i \in 1..t.capacity : i - 1 \in DOMAIN t.buckets /\ t.buckets[i - 1] \in Seq(Nodes)
    BY <1>1
  <1>3. \A i \in DOMAIN t.buckets : i + 1 \in 1..t.capacity /\ (i + 1) - 1 = i
    BY <1>1
  <1>4. seqs \in Seq(Seq(Nodes)) /\ Len(seqs) = t.capacity /\ seqs # <<>>
    <2>1. PICK c \in Nat : c = t.capacity /\ c # 0
      BY <1>1
    <2>2. seqs \in [1..c -> Seq(Nodes)]
      BY <1>2, <2>1
    <2> HIDE DEF seqs
    <2>3. seqs \in Seq(Seq(Nodes)) /\ Len(seqs) = c
      BY <2>2
    <2> QED
      BY <2>1, <2>3
  <1>5. \A i \in 1..t.capacity : seqs[i] = t.buckets[i - 1]
    OBVIOUS
  <1>6. AllNodes(t) = FlattenSeq(seqs)
    BY DEF AllNodes, NodesOfFirst
  <1> HIDE DEF seqs
  <1>7. ToSet(AllNodes(t)) = Held(t)
    <2>1. \A i \in DOMAIN t.buckets : i + 1 \in 1..Len(seqs) /\ seqs[i + 1] = t.buckets[i]
      BY <1>3, <1>4, <1>5
    <2>2. \A i \in 1..Len(seqs) : i - 1 \in DOMAIN t.buckets /\ seqs[i] = t.buckets[i - 1]
      BY <1>2, <1>4, <1>5
    <2>3. {ToSet(seqs[i]) : i \in 1..Len(seqs)} = {ToSet(t.buckets[i]) : i \in DOMAIN t.buckets}
      BY <2>1, <2>2
    <2> QED
      BY <1>4, <1>6, <2>3, FlattenFacts DEF Held
  <1>8. ASSUME Placed(t), OneEach(t) PROVE KeysOnce(AllNodes(t))
    <2>1. \A i \in 1..Len(seqs) : KeysOnce(seqs[i])
      BY <1>2, <1>4, <1>5, <1>8 DEF OneEach
    <2>2. ASSUME NEW h \in 1..Len(seqs), NEW i \in 1..Len(seqs), h # i
          PROVE  KeysApart(seqs[h], seqs[i])
      <3>1. /\ h - 1 \in DOMAIN t.buckets /\ seqs[h] = t.buckets[h - 1]
            /\ i - 1 \in DOMAIN t.buckets /\ seqs[i] = t.buckets[i - 1]
            /\ h - 1 # i - 1
        BY <1>2, <1>4, <1>5, <2>2
      <3>2. /\ \A m \in ToSet(seqs[h]) : KeyIndex(t, m.key) = h - 1
            /\ \A n \in ToSet(seqs[i]) : KeyIndex(t, n.key) = i - 1
        BY <1>8, <3>1 DEF Placed, ToSet
      <3> QED
        BY <3>1, <3>2 DEF KeysApart
    <2> QED
      BY <1>4, <1>6, <2>1, <2>2, FlattenFacts
  <1>9. AllNodes(t) \in Seq(Nodes)
    BY <1>4, <1>6, FlattenFacts
  <1>10. IsFiniteSet(KeysIn(t)) /\ Cardinality(KeysIn(t)) <= Len(AllNodes(t))
    <2>1. PICK N \in Nat : N = Len(AllNodes(t))
      BY <1>9
    <2> DEFINE g == [j \in 1..N |-> AllNodes(t)[j].key]
    <2>2. IsFiniteSet(1..N) /\ Cardinality(1..N) = N
      BY FS_Interval
    <2>3. KeysIn(t) = {g[j] : j \in 1..N}
      <3>1. \A k : k \in KeysIn(t) <=> \E n \in ToSet(AllNodes(t)) : n.key = k
        BY <1>7, HeldFacts
      <3>2. \A n : n \in ToSet(AllNodes(t)) <=> \E j \in 1..N : n = AllNodes(t)[j]
        BY <1>9, <2>1 DEF ToSet
      <3> QED
        BY <3>1, <3>2
    <2>4. g \in Surjection(1..N, KeysIn(t))
      <3>1. g \in [1..N -> KeysIn(t)]
        BY <2>3
      <3> HIDE DEF g
      <3> QED
        BY <2>3, <3>1 DEF Surjection
    <2> HIDE DEF g
    <2> QED
      BY <2>1, <2>2, <2>4, FS_Surjection
  <1> QED
    BY <1>7, <1>8, <1>9, <1>10

(* A table with the chain of one bucket replaced. *)
Replaced(t, b, chain, size) == [t EXCEPT !.buckets[b] = chain, !.size = size]

(* A change of one chain to nodes of that bucket leaves the table placed. *)
LEMMA ReplaceChain ==
    ASSUME NEW t \in Tables, Placed(t), NEW b \in DOMAIN t.buckets,
           NEW chain \in Seq(Nodes), \A n \in ToSet(chain) : KeyIndex(t, n.key) = b,
           NEW size \in 0..(SizeModulus - 1),
           NEW u, u = Replaced(t, b, chain, size)
    PROVE  /\ u \in Tables
           /\ u.size = size /\ u.capacity = t.capacity
           /\ Placed(u)
           /\ Held(u) = ToSet(chain) \cup {n \in Held(t) : KeyIndex(t, n.key) # b}
           /\ OneEach(t) /\ KeysOnce(chain) => OneEach(u)
  <1>1. t.buckets \in [0..(t.capacity - 1) -> Seq(Nodes)] /\ t.capacity \in Nat \ {0}
    BY TableFacts
  <1> DEFINE buckets == [t.buckets EXCEPT ![b] = chain]
  <1>2. u = [size |-> size, capacity |-> t.capacity, buckets |-> buckets]
    <2>1. t = [size |-> t.size, capacity |-> t.capacity, buckets |-> t.buckets]
      BY TableFacts
    <2> QED
      BY <2>1 DEF Replaced
  <1>3. buckets \in [0..(t.capacity - 1) -> Seq(Nodes)]
    BY <1>1
  <1>4. /\ DOMAIN u.buckets = DOMAIN t.buckets
        /\ u.buckets[b] = chain
        /\ \A c \in DOMAIN t.buckets : c # b => u.buckets[c] = t.buckets[c]
        /\ u.size = size /\ u.capacity = t.capacity
    BY <1>1, <1>2
  <1> HIDE DEF buckets
  <1>5. u \in Tables
    <2>1. [size |-> size, capacity |-> t.capacity, buckets |-> buckets] \in Tables
      BY <1>1, <1>3, TableMade
    <2> QED
      BY <1>2, <2>1
  <1>6. \A k : KeyIndex(u, k) = KeyIndex(t, k)
    BY <1>4 DEF KeyIndex
  <1>7. Placed(u)
    BY <1>4, <1>6 DEF Placed, ToSet
  <1>8. \A c \in DOMAIN t.buckets : \A n \in ToSet(t.buckets[c]) : KeyIndex(t, n.key) = c
    BY DEF Placed, ToSet
  <1>9. Held(u) = ToSet(chain) \cup {n \in Held(t) : KeyIndex(t, n.key) # b}
    BY <1>4, <1>8 DEF Held
  <1>10. OneEach(t) /\ KeysOnce(chain) => OneEach(u)
    BY <1>4 DEF OneEach
  <1> QED
    BY <1>4, <1>5, <1>7, <1>9, <1>10

(* The chain of a key holds all the nodes of its bucket. *)
LEMMA ChainFacts ==
    ASSUME NEW t \in Tables, Placed(t), NEW k \in Keys
    PROVE  ToSet(Chain(t, k)) = {n \in Held(t) : KeyIndex(t, n.key) = KeyIndex(t, k)}
  <1>1. KeyIndex(t, k) \in DOMAIN t.buckets
    BY KeyIndexFacts
  <1>2. \A c \in DOMAIN t.buckets : \A n \in ToSet(t.buckets[c]) : KeyIndex(t, n.key) = c
    BY DEF Placed, ToSet
  <1> QED
    BY <1>1, <1>2 DEF Held, Chain

(* An insertion of a new key adds a node; one of a present key adds a node    *)
(* too, and writes the element into an old one.                              *)
LEMMA StoreFacts ==
    ASSUME NEW t \in Tables, Placed(t), NEW k \in Keys, NEW d \in Elements
    PROVE  /\ Store(t, k, d) \in Tables
           /\ Store(t, k, d).capacity = t.capacity
           /\ Store(t, k, d).size = IF k \in KeysIn(t) THEN t.size ELSE (t.size + 1) % SizeModulus
           /\ Placed(Store(t, k, d))
           /\ KeysIn(Store(t, k, d)) = KeysIn(t) \cup {k}
           /\ \A n \in Held(Store(t, k, d)) : n.data = d \/ \E m \in Held(t) : m.data = n.data
           /\ k \notin KeysIn(t) =>
                  /\ Held(Store(t, k, d)) = Held(t) \cup {[key |-> k, data |-> d]}
                  /\ OneEach(t) => OneEach(Store(t, k, d))
  <1> DEFINE b == KeyIndex(t, k)
             chain == Chain(t, k)
             i == FindIf(chain, k)
             new == [key |-> k, data |-> d]
             updated == IF i = 0 THEN chain ELSE [chain EXCEPT ![i].data = d]
             pushed == <<new>> \o updated
             size == IF i = 0 THEN (t.size + 1) % SizeModulus ELSE t.size
             u == Store(t, k, d)
  <1>1. chain \in Seq(Nodes) /\ b \in DOMAIN t.buckets
    BY KeyIndexFacts
  <1>2. i \in 0..Len(chain)
    BY <1>1, FindIfFacts
  <1>3. u = Replaced(t, b, pushed, size)
    BY DEF Store, PushFront, Replaced
  <1>4. size \in 0..(SizeModulus - 1)
    <2>1. t.size \in 0..(SizeModulus - 1) /\ SizeModulus \in Nat \ {0}
      BY TableFacts, ChainedTableAssumption
    <2>2. (t.size + 1) % SizeModulus \in 0..(SizeModulus - 1)
      BY <2>1
    <2> QED
      BY <2>1, <2>2
  <1>5. new \in Nodes /\ new.key = k /\ new.data = d
    BY DEF Nodes
  <1>6. /\ updated \in Seq(Nodes) /\ DOMAIN updated = DOMAIN chain
        /\ \A j \in DOMAIN chain :
               /\ updated[j].key = chain[j].key
               /\ updated[j].data \in {chain[j].data, d}
    <2>1. CASE i = 0
      BY <1>1, <2>1
    <2>2. CASE i # 0
      <3>1. i \in 1..Len(chain) /\ chain[i] \in Nodes
        BY <1>1, <1>2, <2>2
      <3> DEFINE w == [chain[i] EXCEPT !.data = d]
      <3>2. w \in Nodes /\ w.key = chain[i].key /\ w.data = d
        BY <3>1 DEF Nodes
      <3>3. updated = [chain EXCEPT ![i] = w]
        BY <2>2
      <3> HIDE DEF updated, chain, i, w
      <3> QED
        BY <1>1, <3>1, <3>2, <3>3
    <2> QED
      BY <2>1, <2>2
  <1>7. i = 0 <=> k \notin KeysIn(t)
    BY LookupFacts DEF HasKey
  <1>8. i = 0 => updated = chain
    OBVIOUS
  <1>9. u.size = size
    BY <1>3, TableFacts DEF Replaced
  <1> HIDE DEF updated, new, u, b, chain
  <1>10. <<new>> \in Seq(Nodes) /\ ToSet(<<new>>) = {new} /\ KeysOnce(<<new>>)
    BY <1>5 DEF ToSet, KeysOnce
  <1>11. pushed \in Seq(Nodes) /\ ToSet(pushed) = {new} \cup ToSet(updated)
    BY <1>6, <1>10, ConcatFacts
  <1>12. ToSet(chain) = {n \in Held(t) : KeyIndex(t, n.key) = b}
    BY ChainFacts DEF chain, b
  <1>13. /\ \A n \in ToSet(updated) : \E m \in ToSet(chain) : n.key = m.key /\ n.data \in {m.data, d}
         /\ \A m \in ToSet(chain) : \E n \in ToSet(updated) : n.key = m.key
    BY <1>6 DEF ToSet
  <1>14. \A n \in ToSet(pushed) : KeyIndex(t, n.key) = b
    BY <1>5, <1>11, <1>12, <1>13 DEF b
  <1> HIDE DEF pushed, size, i
  <1>15. /\ u \in Tables /\ u.capacity = t.capacity
         /\ Placed(u)
         /\ Held(u) = ToSet(pushed) \cup {n \in Held(t) : KeyIndex(t, n.key) # b}
         /\ OneEach(t) /\ KeysOnce(pushed) => OneEach(u)
    BY <1>1, <1>3, <1>4, <1>11, <1>14, ReplaceChain
  <1>16. u.size = IF k \in KeysIn(t) THEN t.size ELSE (t.size + 1) % SizeModulus
    BY <1>7, <1>9 DEF size
  <1>17. KeysIn(u) = KeysIn(t) \cup {k}
    <2>1. \A x : x \in KeysIn(u) <=> \E n \in Held(u) : n.key = x
      BY <1>15, HeldFacts
    <2>2. \A x : x \in KeysIn(t) <=> \E n \in Held(t) : n.key = x
      BY HeldFacts
    <2>3. ASSUME NEW x, x \in KeysIn(u) PROVE x \in KeysIn(t) \cup {k}
      BY <1>5, <1>11, <1>12, <1>13, <1>15, <2>1, <2>2, <2>3
    <2>4. ASSUME NEW x, x \in KeysIn(t) PROVE x \in KeysIn(u)
      <3>1. PICK n \in Held(t) : n.key = x
        BY <2>2, <2>4
      <3> QED
        BY <1>11, <1>12, <1>13, <1>15, <2>1, <3>1
    <2>5. k \in KeysIn(u)
      BY <1>5, <1>11, <1>15, <2>1
    <2> QED
      BY <2>3, <2>4, <2>5
  <1>18. ASSUME NEW n \in Held(u) PROVE n.data = d \/ \E m \in Held(t) : m.data = n.data
    BY <1>5, <1>11, <1>12, <1>13, <1>15
  <1>19. ASSUME k \notin KeysIn(t)
         PROVE  Held(u) = Held(t) \cup {new} /\ (OneEach(t) => OneEach(u))
    <2>1. updated = chain
      BY <1>7, <1>8, <1>19
    <2>2. Held(u) = Held(t) \cup {new}
      BY <1>11, <1>12, <1>15, <2>1
    <2>3. ASSUME OneEach(t) PROVE KeysOnce(pushed)
      <3>1. KeysOnce(chain)
        BY <1>1, <2>3 DEF OneEach, chain, Chain, b
      <3>2. KeysApart(<<new>>, chain)
        BY <1>5, <1>10, <1>12, <1>19, HeldFacts DEF KeysApart
      <3> QED
        BY <1>6, <1>10, <2>1, <3>1, <3>2, ConcatFacts DEF pushed
    <2> QED
      BY <1>15, <2>2, <2>3
  <1> QED
    BY <1>15, <1>16, <1>17, <1>18, <1>19 DEF u, new

(* The nodes after an insertion of a new key. *)
LEMMA StoreAdds ==
    ASSUME NEW t \in Tables, Placed(t), NEW k \in Keys \ KeysIn(t), NEW d \in Elements
    PROVE  Held(Store(t, k, d)) = Held(t) \cup {[key |-> k, data |-> d]}
  BY StoreFacts

(* Removing a place of a chain takes the node that is there and no other. *)
LEMMA RemoveAtFacts ==
    ASSUME NEW s \in Seq(Nodes), NEW i \in 1..Len(s)
    PROVE  /\ RemoveAt(s, i) \in Seq(Nodes)
           /\ ToSet(RemoveAt(s, i)) \subseteq ToSet(s)
           /\ ToSet(s) \subseteq ToSet(RemoveAt(s, i)) \cup {s[i]}
           /\ KeysOnce(s) => KeysOnce(RemoveAt(s, i)) /\ s[i] \notin ToSet(RemoveAt(s, i))
  <1>1. PICK L \in Nat : L = Len(s) /\ i \in 1..L
    OBVIOUS
  <1> DEFINE a == SubSeq(s, 1, i - 1)
             z == SubSeq(s, i + 1, L)
  <1>2. PICK front \in Seq(Nodes) :
            front = a /\ Len(front) = i - 1 /\ \A j \in 1..(i - 1) : front[j] = s[j]
    <2>1. \A j \in 1..(i - 1) : s[j] \in Nodes
      BY <1>1
    <2>2. a \in Seq(Nodes) /\ Len(a) = (IF 1 <= i - 1 THEN (i - 1) - 1 + 1 ELSE 0)
          /\ \A j \in 1..((i - 1) - 1 + 1) : a[j] = s[1 + j - 1]
      BY <2>1, SubSeqProperties
    <2> HIDE DEF a
    <2>3. Len(a) = i - 1 /\ \A j \in 1..(i - 1) : a[j] = s[j]
      BY <1>1, <2>2
    <2> QED
      BY <2>2, <2>3
  <1>3. PICK rear \in Seq(Nodes) :
            rear = z /\ Len(rear) = L - i /\ \A j \in 1..(L - i) : rear[j] = s[i + j]
    <2>1. \A j \in (i + 1)..L : s[j] \in Nodes
      BY <1>1
    <2>2. z \in Seq(Nodes) /\ Len(z) = (IF i + 1 <= L THEN L - (i + 1) + 1 ELSE 0)
          /\ \A j \in 1..(L - (i + 1) + 1) : z[j] = s[(i + 1) + j - 1]
      BY <2>1, SubSeqProperties
    <2> HIDE DEF z
    <2>3. Len(z) = L - i /\ \A j \in 1..(L - i) : z[j] = s[i + j]
      BY <1>1, <2>2
    <2> QED
      BY <2>2, <2>3
  <1>4. Len(front) = i - 1 /\ \A j \in 1..(i - 1) : front[j] = s[j]
    BY <1>2
  <1>5. Len(rear) = L - i /\ \A j \in 1..(L - i) : rear[j] = s[i + j]
    BY <1>3
  <1>6. RemoveAt(s, i) = front \o rear
    BY <1>1, <1>2, <1>3 DEF RemoveAt
  <1>7. DOMAIN s = 1..L /\ DOMAIN front = 1..(i - 1) /\ DOMAIN rear = 1..(L - i)
    BY <1>1, <1>4, <1>5
  <1> HIDE DEF a, z
  <1>8. ToSet(front) = {s[j] : j \in 1..(i - 1)}
    BY <1>4, <1>7 DEF ToSet
  <1>9. ToSet(rear) = {s[j] : j \in (i + 1)..L}
    <2>1. \A j \in 1..(L - i) : i + j \in (i + 1)..L
      BY <1>1
    <2>2. \A j \in (i + 1)..L : j - i \in 1..(L - i) /\ i + (j - i) = j
      BY <1>1
    <2>3. ToSet(rear) = {s[i + j] : j \in 1..(L - i)}
      BY <1>5, <1>7 DEF ToSet
    <2>4. {s[i + j] : j \in 1..(L - i)} = {s[j] : j \in (i + 1)..L}
      <3>1. \A j \in 1..(L - i) : s[i + j] \in {s[l] : l \in (i + 1)..L}
        BY <2>1
      <3>2. \A j \in (i + 1)..L : s[j] \in {s[i + l] : l \in 1..(L - i)}
        BY <2>2
      <3> QED
        BY <3>1, <3>2
    <2> QED
      BY <2>3, <2>4
  <1>10. 1..L = 1..(i - 1) \cup {i} \cup (i + 1)..L
    BY <1>1
  <1>11. ToSet(s) = ToSet(front) \cup {s[i]} \cup ToSet(rear)
    BY <1>7, <1>8, <1>9, <1>10 DEF ToSet
  <1>12. ToSet(RemoveAt(s, i)) = ToSet(front) \cup ToSet(rear) /\ RemoveAt(s, i) \in Seq(Nodes)
    BY <1>6, ConcatFacts
  <1>13. ASSUME KeysOnce(s) PROVE KeysOnce(RemoveAt(s, i)) /\ s[i] \notin ToSet(RemoveAt(s, i))
    <2>1. \A j, l \in 1..L : s[j].key = s[l].key => j = l
      BY <1>7, <1>13 DEF KeysOnce
    <2>2. \A j \in 1..(i - 1) : j \in 1..L /\ j # i
      BY <1>1
    <2>3. \A j \in (i + 1)..L : j \in 1..L /\ j # i
      BY <1>1
    <2>4. KeysOnce(front)
      BY <1>4, <1>7, <2>1, <2>2 DEF KeysOnce
    <2>5. KeysOnce(rear)
      <3>1. ASSUME NEW j \in 1..(L - i), NEW l \in 1..(L - i), rear[j].key = rear[l].key
            PROVE  j = l
        <4>1. i + j \in 1..L /\ i + l \in 1..L /\ s[i + j].key = s[i + l].key
          BY <1>1, <1>5, <3>1
        <4>2. i + j = i + l
          BY <2>1, <4>1
        <4> QED
          BY <1>1, <4>2
      <3> QED
        BY <1>7, <3>1 DEF KeysOnce
    <2>6. KeysApart(front, rear)
      <3>1. \A j \in 1..(i - 1), l \in (i + 1)..L : j # l /\ j \in 1..L /\ l \in 1..L
        BY <1>1
      <3> QED
        BY <1>8, <1>9, <2>1, <3>1 DEF KeysApart
    <2>7. s[i] \notin ToSet(front) /\ s[i] \notin ToSet(rear)
      BY <1>1, <1>8, <1>9, <2>1, <2>2, <2>3
    <2> QED
      BY <1>6, <1>12, <2>4, <2>5, <2>6, <2>7, ConcatFacts
  <1> QED
    BY <1>11, <1>12, <1>13

(* An erase takes one node with the key, if there is one, and no other. *)
LEMMA EraseFacts ==
    ASSUME NEW t \in Tables, Placed(t), NEW k \in Keys
    PROVE  /\ Erase(t, k) \in Tables
           /\ Erase(t, k).capacity = t.capacity
           /\ Erase(t, k).size = IF k \in KeysIn(t) THEN (t.size - 1) % SizeModulus ELSE t.size
           /\ Placed(Erase(t, k))
           /\ Held(Erase(t, k)) \subseteq Held(t)
           /\ \A n \in Held(t) : n.key # k => n \in Held(Erase(t, k))
           /\ OneEach(t) => OneEach(Erase(t, k)) /\ k \notin KeysIn(Erase(t, k))
  <1>1. CASE k \notin KeysIn(t)
    <2>1. Erase(t, k) = t
      BY <1>1, LookupFacts DEF HasKey, Erase
    <2> QED
      BY <1>1, <2>1
  <1>2. CASE k \in KeysIn(t)
    <2> DEFINE b == KeyIndex(t, k)
               chain == Chain(t, k)
               i == FindIf(chain, k)
               left == RemoveAt(chain, i)
               size == (t.size - 1) % SizeModulus
               u == Erase(t, k)
    <2>1. chain \in Seq(Nodes) /\ b \in DOMAIN t.buckets /\ chain = t.buckets[b]
      BY KeyIndexFacts DEF Chain
    <2>2. i # 0
      BY <1>2, LookupFacts DEF HasKey
    <2>3. i \in 1..Len(chain) /\ chain[i].key = k
      <3>1. i \in 0..Len(chain) /\ chain[i].key = k
        BY <2>1, <2>2, FindIfFacts
      <3> QED
        BY <2>1, <2>2, <3>1
    <2>4. u = Replaced(t, b, left, size)
      BY <2>2 DEF Erase, Replaced
    <2>5. size \in 0..(SizeModulus - 1)
      <3>1. t.size \in 0..(SizeModulus - 1) /\ SizeModulus \in Nat \ {0}
        BY TableFacts, ChainedTableAssumption
      <3> QED
        BY <3>1
    <2>6. ToSet(chain) = {n \in Held(t) : KeyIndex(t, n.key) = b}
      BY ChainFacts
    <2> HIDE DEF b, chain, i, size, u
    <2>7. /\ left \in Seq(Nodes)
          /\ ToSet(left) \subseteq ToSet(chain)
          /\ ToSet(chain) \subseteq ToSet(left) \cup {chain[i]}
          /\ KeysOnce(chain) => KeysOnce(left) /\ chain[i] \notin ToSet(left)
      BY <2>1, <2>3, RemoveAtFacts
    <2> HIDE DEF left
    <2>8. /\ u \in Tables /\ u.capacity = t.capacity /\ u.size = size
          /\ Placed(u)
          /\ Held(u) = ToSet(left) \cup {n \in Held(t) : KeyIndex(t, n.key) # b}
          /\ OneEach(t) /\ KeysOnce(left) => OneEach(u)
      <3>1. \A n \in ToSet(left) : KeyIndex(t, n.key) = b
        BY <2>6, <2>7
      <3> QED
        BY <2>1, <2>4, <2>5, <2>7, <3>1, ReplaceChain
    <2>9. Held(u) \subseteq Held(t)
      BY <2>6, <2>7, <2>8
    <2>10. \A n \in Held(t) : n.key # k => n \in Held(u)
      BY <2>3, <2>6, <2>7, <2>8
    <2>11. ASSUME OneEach(t) PROVE OneEach(u) /\ k \notin KeysIn(u)
      <3>1. KeysOnce(chain)
        BY <2>1, <2>11 DEF OneEach
      <3>2. ASSUME NEW n \in Held(u), n.key = k PROVE FALSE
        <4>1. n \in Held(t) /\ chain[i] \in Held(t)
          <5>1. chain[i] \in ToSet(chain)
            BY <2>1, <2>3 DEF ToSet
          <5> QED
            BY <2>6, <2>9, <5>1
        <4>2. n = chain[i]
          BY <2>3, <2>11, <3>2, <4>1, OneEachFacts
        <4>3. KeyIndex(t, n.key) = b
          BY <3>2 DEF b
        <4> QED
          BY <2>7, <2>8, <3>1, <4>2, <4>3
      <3>3. k \notin KeysIn(u)
        BY <2>8, <3>2, HeldFacts
      <3> QED
        BY <2>7, <2>8, <2>11, <3>1, <3>3
    <2> QED
      BY <1>2, <2>8, <2>9, <2>10, <2>11 DEF u, size
  <1> QED
    BY <1>1, <1>2

-----------------------------------------------------------------------------
(* Growth. *)

(* u has the nodes of t, as far as a growth keeps them: each of its keys, no  *)
(* element that t has not, and all the nodes if no key has two.              *)
Keeps(t, u) ==
    /\ u \in Tables
    /\ Placed(u)
    /\ KeysIn(u) = KeysIn(t)
    /\ \A n \in Held(u) : \E m \in Held(t) : m.data = n.data
    /\ OneEach(t) => OneEach(u) /\ Held(u) = Held(t)

(* The size says how many keys there are, as far as a size_t can. *)
Counted(t) == Cardinality(KeysIn(t)) < SizeModulus => t.size = Cardinality(KeysIn(t))

(* The tables the functions of the header meet. *)
PlacedTables == {t \in Tables : Placed(t)}

(* What an insertion in the new table does before it stores. *)
Prepares(prepare) ==
    /\ prepare \in [PlacedTables -> PlacedTables]
    /\ \A t \in PlacedTables : Keeps(t, prepare[t]) /\ (Counted(t) => Counted(prepare[t]))

(* f[n] is the new table with the first n nodes of t. *)
Filling(t, prepare, f) ==
    /\ f \in [0..Len(AllNodes(t)) -> PlacedTables]
    /\ f[0] = NewTable(2 * t.capacity)
    /\ \A n \in 1..Len(AllNodes(t)) :
           f[n] = Store(prepare[f[n - 1]], AllNodes(t)[n].key, AllNodes(t)[n].data)

(* A node that the loops visit is one of the table's. *)
LEMMA NodeFacts ==
    ASSUME NEW t \in Tables, NEW n \in 1..Len(AllNodes(t))
    PROVE  /\ AllNodes(t)[n] \in Held(t)
           /\ AllNodes(t)[n].key \in Keys /\ AllNodes(t)[n].data \in Elements
           /\ AllNodes(t)[n] = [key |-> AllNodes(t)[n].key, data |-> AllNodes(t)[n].data]
  <1>1. AllNodes(t)[n] \in Nodes /\ AllNodes(t)[n] \in ToSet(AllNodes(t))
    BY AllNodesFacts DEF ToSet
  <1> QED
    BY <1>1, AllNodesFacts DEF Nodes

(* There are such tables. *)
LEMMA FillingExists ==
    ASSUME NEW t \in Tables, NEW prepare, Prepares(prepare)
    PROVE  \E f : Filling(t, prepare, f)
  <1>1. PICK N \in Nat : N = Len(AllNodes(t))
    BY AllNodesFacts
  <1> DEFINE step == [p \in (1..N) \X PlacedTables |->
                         Store(prepare[p[2]], AllNodes(t)[p[1]].key, AllNodes(t)[p[1]].data)]
  <1>2. step \in [(1..N) \X PlacedTables -> PlacedTables]
    <2>1. ASSUME NEW n \in 1..N, NEW s \in PlacedTables
          PROVE  Store(prepare[s], AllNodes(t)[n].key, AllNodes(t)[n].data) \in PlacedTables
      <3>1. prepare[s] \in Tables /\ Placed(prepare[s])
        BY DEF Prepares, PlacedTables
      <3>2. AllNodes(t)[n].key \in Keys /\ AllNodes(t)[n].data \in Elements
        BY <1>1, NodeFacts
      <3> QED
        BY <3>1, <3>2, StoreFacts DEF PlacedTables
    <2> QED
      BY <2>1
  <1>3. NewTable(2 * t.capacity) \in PlacedTables
    <2>1. 2 * t.capacity \in Nat \ {0}
      BY TableFacts
    <2> QED
      BY <2>1, NewTableFacts DEF PlacedTables
  <1>4. PICK f : Recursive(f, N, PlacedTables, NewTable(2 * t.capacity), step)
    <2> HIDE DEF step
    <2> QED
      BY <1>2, <1>3, RecursionUpTo
  <1>5. ASSUME NEW n \in 1..N
        PROVE  f[n] = Store(prepare[f[n - 1]], AllNodes(t)[n].key, AllNodes(t)[n].data)
    <2>1. f[n] = step[<<n, f[n - 1]>>] /\ f[n - 1] \in PlacedTables
      <3> HIDE DEF step
      <3>1. n - 1 \in 0..N
        OBVIOUS
      <3> QED
        BY <1>4, <3>1 DEF Recursive
    <2>2. <<n, f[n - 1]>> \in (1..N) \X PlacedTables
      BY <2>1
    <2> QED
      BY <2>1, <2>2
  <1>6. Filling(t, prepare, f)
    <2> HIDE DEF step
    <2> QED
      BY <1>1, <1>4, <1>5 DEF Filling, Recursive
  <1> QED
    BY <1>6

(* The first n nodes of t. *)
FirstOf(t, n) == {AllNodes(t)[j] : j \in 1..n}

(***************************************************************************)
(* A new table holds the nodes that were put in it, through any growth that *)
(* the insertions make.                                                    *)
(***************************************************************************)
LEMMA FillingFacts ==
    ASSUME NEW t \in Tables, Placed(t), NEW prepare, Prepares(prepare),
           NEW f, Filling(t, prepare, f)
    PROVE  \A n \in 0..Len(AllNodes(t)) :
               /\ f[n] \in Tables /\ Placed(f[n]) /\ Counted(f[n])
               /\ KeysIn(f[n]) = {m.key : m \in FirstOf(t, n)}
               /\ \A h \in Held(f[n]) : \E m \in FirstOf(t, n) : m.data = h.data
               /\ OneEach(t) => OneEach(f[n]) /\ Held(f[n]) = FirstOf(t, n)
  <1>1. PICK N \in Nat : N = Len(AllNodes(t))
    BY AllNodesFacts
  <1> DEFINE Right(n) ==
               /\ Counted(f[n])
               /\ KeysIn(f[n]) = {m.key : m \in FirstOf(t, n)}
               /\ \A h \in Held(f[n]) : \E m \in FirstOf(t, n) : m.data = h.data
               /\ OneEach(t) => OneEach(f[n]) /\ Held(f[n]) = FirstOf(t, n)
             S == {n \in 0..N : Right(n)}
  <1>2. \A n \in 0..N : f[n] \in Tables /\ Placed(f[n])
    BY <1>1 DEF Filling, PlacedTables
  <1>3. 0 \in S
    <2>1. 2 * t.capacity \in Nat \ {0}
      BY TableFacts
    <2>2. /\ f[0].size = 0 /\ Held(f[0]) = {} /\ OneEach(f[0])
      BY <2>1, NewTableFacts DEF Filling
    <2>3. FirstOf(t, 0) = {}
      BY DEF FirstOf
    <2>4. KeysIn(f[0]) = {}
      BY <2>2 DEF KeysIn
    <2>5. Counted(f[0])
      <3>1. Cardinality(KeysIn(f[0])) = 0
        BY <2>4, FS_EmptySet
      <3> QED
        BY <2>2, <3>1, ChainedTableAssumption DEF Counted
    <2> QED
      BY <2>2, <2>3, <2>4, <2>5
  <1>4. ASSUME NEW n \in 1..N, n - 1 \in S PROVE n \in S
    <2> DEFINE node == AllNodes(t)[n]
               p == prepare[f[n - 1]]
    <2>1. n - 1 \in 0..N /\ n \in 0..N /\ n \in 1..Len(AllNodes(t)) /\ 1..n = 1..(n - 1) \cup {n}
      BY <1>1
    <2>2. Right(n - 1)
      BY <1>4
    <2>3. f[n - 1] \in PlacedTables
      BY <1>2, <2>1 DEF PlacedTables
    <2>4. /\ p \in Tables /\ Placed(p)
          /\ KeysIn(p) = KeysIn(f[n - 1])
          /\ \A h \in Held(p) : \E m \in Held(f[n - 1]) : m.data = h.data
          /\ OneEach(f[n - 1]) => OneEach(p) /\ Held(p) = Held(f[n - 1])
          /\ Counted(f[n - 1]) => Counted(p)
      BY <2>3 DEF Prepares, Keeps
    <2>5. /\ node \in Held(t) /\ node.key \in Keys /\ node.data \in Elements
          /\ node = [key |-> node.key, data |-> node.data]
      BY <2>1, NodeFacts
    <2>6. f[n] = Store(p, node.key, node.data)
      BY <2>1 DEF Filling
    <2>7. FirstOf(t, n) = FirstOf(t, n - 1) \cup {node}
      BY <2>1 DEF FirstOf
    <2> HIDE DEF p, node, Right
    <2>8. /\ f[n].size = IF node.key \in KeysIn(p) THEN p.size ELSE (p.size + 1) % SizeModulus
          /\ KeysIn(f[n]) = KeysIn(p) \cup {node.key}
          /\ \A h \in Held(f[n]) : h.data = node.data \/ \E m \in Held(p) : m.data = h.data
          /\ node.key \notin KeysIn(p) =>
                 /\ Held(f[n]) = Held(p) \cup {node}
                 /\ OneEach(p) => OneEach(f[n])
      BY <2>4, <2>5, <2>6, StoreFacts
    <2>9. KeysIn(f[n]) = {m.key : m \in FirstOf(t, n)}
      BY <2>2, <2>4, <2>7, <2>8 DEF Right
    <2>10. \A h \in Held(f[n]) : \E m \in FirstOf(t, n) : m.data = h.data
      BY <2>2, <2>4, <2>7, <2>8 DEF Right
    <2>11. Counted(f[n])
      <3>1. IsFiniteSet(KeysIn(p)) /\ Cardinality(KeysIn(p)) \in Nat
        BY <2>4, AllNodesFacts, FS_CardinalityType
      <3>2. Counted(p)
        BY <2>2, <2>4 DEF Right
      <3>3. CASE node.key \in KeysIn(p)
        <4>1. KeysIn(f[n]) = KeysIn(p)
          BY <2>8, <3>3
        <4> QED
          BY <2>8, <3>2, <3>3, <4>1 DEF Counted
      <3>4. CASE node.key \notin KeysIn(p)
        <4>1. Cardinality(KeysIn(f[n])) = Cardinality(KeysIn(p)) + 1
          BY <2>8, <3>1, <3>4, FS_AddElement
        <4>2. PICK c \in Nat : c = Cardinality(KeysIn(p))
          BY <3>1
        <4>3. c + 1 < SizeModulus => (c + 1) % SizeModulus = c + 1
          BY ChainedTableAssumption
        <4>4. c + 1 < SizeModulus => c < SizeModulus
          BY ChainedTableAssumption
        <4> QED
          BY <2>8, <3>2, <3>4, <4>1, <4>2, <4>3, <4>4 DEF Counted
      <3> QED
        BY <3>3, <3>4
    <2>12. ASSUME OneEach(t) PROVE OneEach(f[n]) /\ Held(f[n]) = FirstOf(t, n)
      <3>1. node.key \notin KeysIn(p)
        <4>1. KeysOnce(AllNodes(t)) /\ DOMAIN AllNodes(t) = 1..N
          BY <1>1, <2>12, AllNodesFacts
        <4>2. \A j \in 1..(n - 1) : j \in 1..N /\ j # n
          OBVIOUS
        <4>3. \A j \in 1..(n - 1) : AllNodes(t)[j].key # node.key
          BY <4>1, <4>2 DEF KeysOnce, node
        <4> QED
          BY <2>2, <2>4, <4>3 DEF Right, FirstOf
      <3> QED
        BY <2>2, <2>4, <2>7, <2>8, <2>12, <3>1 DEF Right
    <2> QED
      BY <2>1, <2>9, <2>10, <2>11, <2>12 DEF Right
  <1>5. 0..N \subseteq S
    <2> HIDE DEF S
    <2>1. \A n \in 1..N : n - 1 \in S => n \in S
      BY <1>4
    <2> QED
      BY <1>3, <2>1, UpTo
  <1> QED
    BY <1>1, <1>2, <1>5

(* The new table stays as large as it was made, unless an insertion rehashes. *)
LEMMA FillingCapacity ==
    ASSUME NEW t \in Tables, Placed(t), NEW prepare, Prepares(prepare),
           NEW f, Filling(t, prepare, f),
           \A n \in 0..Len(AllNodes(t)) :
               f[n].capacity = 2 * t.capacity => prepare[f[n]].capacity = 2 * t.capacity
    PROVE  \A n \in 0..Len(AllNodes(t)) : f[n].capacity = 2 * t.capacity
  <1>1. PICK N \in Nat : N = Len(AllNodes(t))
    BY AllNodesFacts
  <1> DEFINE S == {n \in 0..N : f[n].capacity = 2 * t.capacity}
  <1>2. 0 \in S
    BY TableFacts, NewTableFacts DEF Filling
  <1>3. ASSUME NEW n \in 1..N, n - 1 \in S PROVE n \in S
    <2>1. n - 1 \in 0..N /\ n \in 0..N /\ f[n - 1].capacity = 2 * t.capacity
      BY <1>3
    <2>2. f[n - 1] \in PlacedTables
      BY <1>1, <2>1 DEF Filling
    <2>3. prepare[f[n - 1]] \in Tables /\ Placed(prepare[f[n - 1]])
      BY <2>2 DEF Prepares, Keeps
    <2>4. AllNodes(t)[n].key \in Keys /\ AllNodes(t)[n].data \in Elements
      BY <1>1, NodeFacts
    <2>5. f[n] = Store(prepare[f[n - 1]], AllNodes(t)[n].key, AllNodes(t)[n].data)
      BY <1>1 DEF Filling
    <2>6. f[n].capacity = prepare[f[n - 1]].capacity
      BY <2>3, <2>4, <2>5, StoreFacts
    <2>7. prepare[f[n - 1]].capacity = 2 * t.capacity
      BY <1>1, <2>1
    <2> QED
      BY <2>1, <2>6, <2>7
  <1>4. 0..N \subseteq S
    <2> HIDE DEF S
    <2>1. \A n \in 1..N : n - 1 \in S => n \in S
      BY <1>3
    <2> QED
      BY <1>2, <2>1, UpTo
  <1> QED
    BY <1>1, <1>4

(* At the end of the loops the new table keeps what the old one has. *)
LEMMA FilledKeeps ==
    ASSUME NEW t \in Tables, Placed(t), NEW prepare, Prepares(prepare),
           NEW f, Filling(t, prepare, f)
    PROVE  Keeps(t, f[Len(AllNodes(t))]) /\ Counted(f[Len(AllNodes(t))])
  <1>1. Len(AllNodes(t)) \in 0..Len(AllNodes(t)) /\ DOMAIN AllNodes(t) = 1..Len(AllNodes(t))
    BY AllNodesFacts
  <1>2. FirstOf(t, Len(AllNodes(t))) = Held(t)
    BY <1>1, AllNodesFacts DEF FirstOf, ToSet
  <1>3. PICK u : u = f[Len(AllNodes(t))]
    OBVIOUS
  <1>4. /\ u \in Tables /\ Placed(u) /\ Counted(u)
        /\ KeysIn(u) = {m.key : m \in Held(t)}
        /\ \A h \in Held(u) : \E m \in Held(t) : m.data = h.data
        /\ OneEach(t) => OneEach(u) /\ Held(u) = Held(t)
    BY <1>1, <1>2, <1>3, FillingFacts
  <1>5. KeysIn(t) = {m.key : m \in Held(t)}
    BY DEF KeysIn
  <1> QED
    BY <1>3, <1>4, <1>5 DEF Keeps

(* The definition of Filled says this, and it is enough. *)
Follows(t, prepare, g) ==
    /\ g = [n \in 0..Len(AllNodes(t)) |-> g[n]]
    /\ g[0] = NewTable(2 * t.capacity)
    /\ \A n \in 1..Len(AllNodes(t)) : g[n - 1] \in PlacedTables =>
           g[n] = Store(prepare[g[n - 1]], AllNodes(t)[n].key, AllNodes(t)[n].data)

(* There is one such function. *)
LEMMA FillingIsUnique ==
    ASSUME NEW t \in Tables, NEW prepare, NEW f, Filling(t, prepare, f),
           NEW g, Follows(t, prepare, g)
    PROVE  g = f
  <1>1. PICK N \in Nat : N = Len(AllNodes(t))
    BY AllNodesFacts
  <1> DEFINE S == {n \in 0..N : g[n] = f[n]}
  <1>2. /\ f \in [0..N -> PlacedTables] /\ f[0] = NewTable(2 * t.capacity)
        /\ \A n \in 1..N :
               f[n] = Store(prepare[f[n - 1]], AllNodes(t)[n].key, AllNodes(t)[n].data)
    BY <1>1 DEF Filling
  <1>3. 0 \in S
    BY <1>2 DEF Follows
  <1>4. ASSUME NEW n \in 1..N, n - 1 \in S PROVE n \in S
    <2>1. n \in 0..N /\ n - 1 \in 0..N /\ g[n - 1] = f[n - 1]
      BY <1>4
    <2>2. g[n - 1] \in PlacedTables
      BY <1>2, <2>1
    <2>3. g[n] = Store(prepare[g[n - 1]], AllNodes(t)[n].key, AllNodes(t)[n].data)
      BY <1>1, <2>2 DEF Follows
    <2>4. g[n] = f[n]
      BY <1>2, <2>1, <2>3
    <2> QED
      BY <2>1, <2>4
  <1>5. 0..N \subseteq S
    <2> HIDE DEF S
    <2>1. \A n \in 1..N : n - 1 \in S => n \in S
      BY <1>4
    <2> QED
      BY <1>3, <2>1, UpTo
  <1>6. \A n \in 0..N : g[n] = f[n]
    BY <1>5
  <1>7. f = [n \in 0..N |-> f[n]] /\ g = [n \in 0..N |-> g[n]]
    BY <1>1, <1>2 DEF Follows
  <1> QED
    BY <1>6, <1>7

(* The rehash inside a rehash. *)
Unprepared == [u \in PlacedTables |-> u]

(* The tables a rehash fills when none of its insertions rehashes. *)
LEMMA FilledSame ==
    ASSUME NEW t \in Tables, IsLoaded(t)
    PROVE  Prepares(Unprepared) /\ Filling(t, Unprepared, Filled(t, Same))
  <1> DEFINE nodes == AllNodes(t)
             Is(g) == g = [n \in 0..Len(nodes) |->
                              IF n = 0 THEN NewTable(2 * t.capacity)
                              ELSE Store(Same(g[n - 1]), nodes[n].key, nodes[n].data)]
             filled == CHOOSE g : Is(g)
  <1>1. Prepares(Unprepared)
    BY DEF Prepares, Keeps, PlacedTables, Unprepared
  <1>2. PICK f : Filling(t, Unprepared, f)
    BY <1>1, FillingExists
  <1>3. PICK N \in Nat : N = Len(nodes)
    BY AllNodesFacts
  <1>4. \A u \in PlacedTables : Unprepared[u] = Same(u)
    BY DEF Unprepared, Same
  <1>5. \A n \in 1..N : n \in 0..N /\ n # 0 /\ n - 1 \in 0..N
    OBVIOUS
  <1>6. Is(f)
    <2>1. /\ f = [n \in 0..N |-> f[n]] /\ f[0] = NewTable(2 * t.capacity)
          /\ \A n \in 1..N : f[n] = Store(Same(f[n - 1]), nodes[n].key, nodes[n].data)
      BY <1>2, <1>3, <1>4, <1>5 DEF Filling
    <2>2. \A n \in 0..N : n = 0 \/ n \in 1..N
      OBVIOUS
    <2> HIDE DEF nodes
    <2> QED
      BY <1>3, <2>1, <2>2
  <1>7. Is(filled)
    <2> HIDE DEF Is
    <2> QED
      BY <1>6
  <1>8. Filled(t, Same) = filled
    BY DEF IsLoaded, AllNodes, Filled
  <1>9. filled = f
    <2> HIDE DEF filled
    <2>1. /\ filled = [n \in 0..Len(nodes) |-> filled[n]]
          /\ filled[0] = NewTable(2 * t.capacity)
      BY <1>3, <1>7
    <2>2. \A n \in 1..Len(nodes) :
              filled[n] = Store(Same(filled[n - 1]), nodes[n].key, nodes[n].data)
      BY <1>3, <1>5, <1>7
    <2>3. Follows(t, Unprepared, filled)
      BY <1>4, <2>1, <2>2 DEF Follows
    <2> QED
      BY <1>2, <2>3, FillingIsUnique
  <1> QED
    BY <1>1, <1>2, <1>8, <1>9, Zenon

(* The inner rehash keeps what the table has and doubles its capacity. *)
LEMMA RegrowFacts ==
    ASSUME NEW t \in PlacedTables
    PROVE  /\ Keeps(t, Regrow(t)) /\ (Counted(t) => Counted(Regrow(t)))
           /\ ~IsLoaded(t) => Regrow(t) = t
           /\ IsLoaded(t) => Regrow(t).capacity = 2 * t.capacity
  <1>1. t \in Tables /\ Placed(t)
    BY DEF PlacedTables
  <1>2. CASE ~IsLoaded(t)
    BY <1>1, <1>2 DEF Regrow, Keeps
  <1>3. CASE IsLoaded(t)
    <2>1. PICK f : f = Filled(t, Same) /\ Filling(t, Unprepared, f) /\ Prepares(Unprepared)
      BY <1>1, <1>3, FilledSame, Zenon
    <2>2. Regrow(t) = f[Len(AllNodes(t))]
      <3>1. Regrow(t) = Filled(t, Same)[Len(AllNodes(t))]
        BY <1>3 DEF Regrow, LastFilled, IsLoaded, AllNodes
      <3> QED
        BY <2>1, <3>1, Zenon
    <2>3. \A n \in 0..Len(AllNodes(t)) : f[n].capacity = 2 * t.capacity
      <3>1. \A n \in 0..Len(AllNodes(t)) : Unprepared[f[n]] = f[n]
        BY <2>1 DEF Filling, Unprepared
      <3> QED
        BY <1>1, <2>1, <3>1, FillingCapacity
    <2> QED
      BY <1>1, <1>3, <2>1, <2>2, <2>3, FilledKeeps, AllNodesFacts
  <1> QED
    BY <1>2, <1>3

(* The outer rehash: an insertion rehashes when it finds the new table        *)
(* loaded.                                                                    *)
Regrown == [u \in PlacedTables |-> Regrow(u)]

(* An insertion that rehashes first keeps what the new table has. *)
LEMMA RegrownPrepares == Prepares(Regrown)
  <1>1. \A u \in PlacedTables :
            Keeps(u, Regrow(u)) /\ (Counted(u) => Counted(Regrow(u))) /\ Regrow(u) \in PlacedTables
    BY RegrowFacts DEF Keeps, PlacedTables
  <1> QED
    BY <1>1 DEF Prepares, Regrown

(* The tables a rehash fills when its insertions may rehash. *)
LEMMA FilledRegrow ==
    ASSUME NEW t \in Tables, IsLoaded(t)
    PROVE  Filling(t, Regrown, Filled(t, Regrow))
  <1> DEFINE nodes == AllNodes(t)
             Is(g) == g = [n \in 0..Len(nodes) |->
                              IF n = 0 THEN NewTable(2 * t.capacity)
                              ELSE Store(Regrow(g[n - 1]), nodes[n].key, nodes[n].data)]
             filled == CHOOSE g : Is(g)
  <1>2. PICK f : Filling(t, Regrown, f)
    BY RegrownPrepares, FillingExists
  <1>3. PICK N \in Nat : N = Len(nodes)
    BY AllNodesFacts
  <1>4. \A u \in PlacedTables : Regrown[u] = Regrow(u)
    BY DEF Regrown
  <1>5. \A n \in 1..N : n \in 0..N /\ n # 0 /\ n - 1 \in 0..N
    OBVIOUS
  <1>6. Is(f)
    <2>1. /\ f = [n \in 0..N |-> f[n]] /\ f[0] = NewTable(2 * t.capacity)
          /\ \A n \in 1..N : f[n] = Store(Regrow(f[n - 1]), nodes[n].key, nodes[n].data)
      BY <1>2, <1>3, <1>4, <1>5 DEF Filling
    <2>2. \A n \in 0..N : n = 0 \/ n \in 1..N
      OBVIOUS
    <2> HIDE DEF nodes
    <2> QED
      BY <1>3, <2>1, <2>2
  <1>7. Is(filled)
    <2> HIDE DEF Is
    <2> QED
      BY <1>6
  <1>8. Filled(t, Regrow) = filled
    BY DEF IsLoaded, AllNodes, Filled
  <1>9. filled = f
    <2> HIDE DEF filled
    <2>1. /\ filled = [n \in 0..Len(nodes) |-> filled[n]]
          /\ filled[0] = NewTable(2 * t.capacity)
      BY <1>3, <1>7
    <2>2. \A n \in 1..Len(nodes) :
              filled[n] = Store(Regrow(filled[n - 1]), nodes[n].key, nodes[n].data)
      BY <1>3, <1>5, <1>7
    <2>3. Follows(t, Regrown, filled)
      BY <1>4, <2>1, <2>2 DEF Follows
    <2> QED
      BY <1>2, <2>3, FillingIsUnique
  <1> QED
    BY <1>2, <1>8, <1>9, Zenon

(* The growth before an insertion keeps the table's nodes, through any rehash *)
(* inside it. If the size counts the keys and no more of them than buckets,   *)
(* nothing is rehashed twice and the capacity doubles.                        *)
LEMMA GrowFacts ==
    ASSUME NEW t \in Tables, Placed(t)
    PROVE  /\ Keeps(t, Grow(t))
           /\ Counted(t) => Counted(Grow(t))
           /\ ~IsLoaded(t) => Grow(t) = t
           /\ IsLoaded(t) => Counted(Grow(t))
           /\ IsLoaded(t) /\ Cardinality(KeysIn(t)) <= t.capacity /\ t.capacity < SizeModulus
              => Grow(t).capacity = 2 * t.capacity
  <1>1. CASE ~IsLoaded(t)
    BY <1>1 DEF Grow, Keeps
  <1>2. CASE IsLoaded(t)
    <2>1. PICK f : f = Filled(t, Regrow) /\ Filling(t, Regrown, f)
      BY <1>2, FilledRegrow, Zenon
    <2>2. Grow(t) = f[Len(AllNodes(t))]
      <3>1. Grow(t) = Filled(t, Regrow)[Len(AllNodes(t))]
        BY <1>2 DEF Grow, Rehash, LastFilled, IsLoaded, AllNodes
      <3> QED
        BY <2>1, <3>1, Zenon
    <2>3. Keeps(t, Grow(t)) /\ Counted(Grow(t))
      BY <2>1, <2>2, RegrownPrepares, FilledKeeps
    <2>4. ASSUME Cardinality(KeysIn(t)) <= t.capacity, t.capacity < SizeModulus
          PROVE  Grow(t).capacity = 2 * t.capacity
      <3>1. ASSUME NEW n \in 0..Len(AllNodes(t)), f[n].capacity = 2 * t.capacity
            PROVE  Regrown[f[n]] = f[n]
        <4>1. f[n] \in PlacedTables /\ f[n] \in Tables
          BY <2>1 DEF Filling, PlacedTables
        <4>2. Counted(f[n]) /\ KeysIn(f[n]) = {m.key : m \in FirstOf(t, n)}
          BY <2>1, RegrownPrepares, FillingFacts
        <4>3. KeysIn(f[n]) \subseteq KeysIn(t)
          <5>1. \A j \in 1..n : j \in 1..Len(AllNodes(t))
            BY AllNodesFacts
          <5>2. FirstOf(t, n) \subseteq Held(t)
            BY <5>1, NodeFacts DEF FirstOf
          <5> QED
            BY <4>2, <5>2 DEF KeysIn
        <4>4. PICK c \in Nat : c = Cardinality(KeysIn(f[n])) /\ c <= Cardinality(KeysIn(t))
          BY <4>3, AllNodesFacts, FS_Subset, FS_CardinalityType
        <4>5. Cardinality(KeysIn(t)) \in Nat
          BY AllNodesFacts, FS_CardinalityType
        <4>6. t.capacity \in Nat \ {0}
          BY TableFacts
        <4>7. c <= t.capacity /\ c < SizeModulus /\ c # 2 * t.capacity
          BY <2>4, <4>4, <4>5, <4>6, ChainedTableAssumption
        <4>8. ~IsLoaded(f[n])
          BY <3>1, <4>2, <4>4, <4>7 DEF Counted, IsLoaded
        <4> QED
          BY <4>1, <4>8, RegrowFacts DEF Regrown
      <3>2. \A n \in 0..Len(AllNodes(t)) : f[n].capacity = 2 * t.capacity
        BY <2>1, <3>1, RegrownPrepares, FillingCapacity
      <3> QED
        BY <2>2, <3>2, AllNodesFacts
    <2> QED
      BY <1>2, <2>3, <2>4
  <1> QED
    BY <1>1, <1>2

(* A table whose size can reach its capacity only when it is full. *)
Within(t) == Cardinality(KeysIn(t)) <= t.capacity \/ t.capacity >= SizeModulus

(* Such a table is loaded when it has as many keys as buckets. *)
LEMMA WithinFacts ==
    ASSUME NEW t \in Tables, Placed(t), Counted(t), Within(t)
    PROVE  /\ Cardinality(KeysIn(t)) \in Nat
           /\ IsLoaded(t) => /\ Cardinality(KeysIn(t)) = t.capacity
                             /\ t.capacity < SizeModulus
           /\ ~IsLoaded(t) /\ t.capacity < SizeModulus
              => Cardinality(KeysIn(t)) < t.capacity
  <1>1. PICK c \in Nat : c = Cardinality(KeysIn(t))
    BY AllNodesFacts, FS_CardinalityType
  <1>2. t.capacity \in Nat \ {0} /\ t.size \in 0..(SizeModulus - 1) /\ SizeModulus \in Nat \ {0}
    BY TableFacts, ChainedTableAssumption
  <1>3. t.capacity < SizeModulus => c <= t.capacity /\ t.size = c
    BY <1>1, <1>2 DEF Within, Counted
  <1> QED
    BY <1>1, <1>2, <1>3 DEF IsLoaded

(* A table that is being filled is such a table, at every insertion. *)
LEMMA GrowingWithin ==
    ASSUME NEW t \in Tables, Placed(t), IsLoaded(t), NEW f, Filling(t, Regrown, f)
    PROVE  \A n \in 0..Len(AllNodes(t)) : Within(f[n])
  <1>1. PICK N \in Nat : N = Len(AllNodes(t))
    BY AllNodesFacts
  <1> DEFINE S == {n \in 0..N : Within(f[n])}
  <1>2. \A n \in 0..N : f[n] \in Tables /\ Placed(f[n]) /\ f[n] \in PlacedTables /\ Counted(f[n])
    <2>1. \A n \in 0..N : f[n] \in Tables /\ Placed(f[n]) /\ Counted(f[n])
      BY <1>1, RegrownPrepares, FillingFacts
    <2> QED
      BY <2>1 DEF PlacedTables
  <1>3. 0 \in S
    <2>1. 2 * t.capacity \in Nat \ {0}
      BY TableFacts
    <2>2. f[0].capacity = 2 * t.capacity /\ Held(f[0]) = {}
      BY <2>1, NewTableFacts DEF Filling
    <2>3. Cardinality(KeysIn(f[0])) = 0
      BY <2>2, FS_EmptySet DEF KeysIn
    <2> QED
      BY <2>1, <2>2, <2>3 DEF Within
  <1>4. ASSUME NEW n \in 1..N, n - 1 \in S PROVE n \in S
    <2>1. n - 1 \in 0..N /\ n \in 0..N /\ n \in 1..Len(AllNodes(t))
      BY <1>1
    <2>2. PICK s : s = f[n - 1]
      OBVIOUS
    <2>3. s \in Tables /\ Placed(s) /\ s \in PlacedTables /\ Counted(s) /\ Within(s)
      BY <1>2, <1>4, <2>1, <2>2
    <2>4. PICK p : p = Regrow(s)
      OBVIOUS
    <2>5. /\ p \in Tables /\ Placed(p) /\ KeysIn(p) = KeysIn(s)
          /\ ~IsLoaded(s) => p.capacity = s.capacity
          /\ IsLoaded(s) => p.capacity = 2 * s.capacity
      BY <2>3, <2>4, RegrowFacts DEF Keeps
    <2>6. PICK k \in Keys, d \in Elements : f[n] = Store(p, k, d)
      <3>1. f[n] = Store(p, AllNodes(t)[n].key, AllNodes(t)[n].data)
        BY <2>1, <2>2, <2>3, <2>4 DEF Filling, Regrown
      <3> QED
        BY <2>1, <3>1, NodeFacts
    <2>7. f[n].capacity = p.capacity /\ KeysIn(f[n]) = KeysIn(s) \cup {k}
      BY <2>5, <2>6, StoreFacts
    <2>8. PICK c \in Nat : c = Cardinality(KeysIn(s)) /\ IsFiniteSet(KeysIn(s))
      BY <2>3, AllNodesFacts, FS_CardinalityType
    <2>9. Cardinality(KeysIn(f[n])) \in {c, c + 1}
      BY <2>7, <2>8, FS_AddElement
    <2>10. /\ IsLoaded(s) => c = s.capacity
           /\ ~IsLoaded(s) /\ s.capacity < SizeModulus => c < s.capacity
      BY <2>3, <2>8, WithinFacts
    <2>11. s.capacity \in Nat \ {0} /\ SizeModulus \in Nat \ {0}
      BY <2>3, TableFacts, ChainedTableAssumption
    <2>12. c + 1 <= p.capacity \/ p.capacity >= SizeModulus
      BY <2>5, <2>10, <2>11
    <2>13. p.capacity \in Nat
      BY <2>5, TableFacts
    <2>14. Within(f[n])
      BY <2>7, <2>9, <2>12, <2>13 DEF Within
    <2> QED
      BY <2>1, <2>14
  <1>5. 0..N \subseteq S
    <2> HIDE DEF S
    <2>1. \A n \in 1..N : n - 1 \in S => n \in S
      BY <1>4
    <2> QED
      BY <1>3, <2>1, UpTo
  <1> QED
    BY <1>1, <1>5

(***************************************************************************)
(* A rehash calls insert and insert calls rehash: a table that is loaded    *)
(* while a rehash fills it is rehashed too, and no insertion of that inner  *)
(* rehash finds its own table loaded.  It is why ChainedTable unrolls the   *)
(* recursion of the C functions twice and no more.                         *)
(***************************************************************************)
THEOREM NestedGrowthEnds ==
    ASSUME NEW t \in Tables, Placed(t), IsLoaded(t),
           NEW n \in 0..Len(AllNodes(t)), IsLoaded(Filled(t, Regrow)[n]),
           NEW m \in 0..Len(AllNodes(Filled(t, Regrow)[n]))
    PROVE  ~IsLoaded(Filled(Filled(t, Regrow)[n], Same)[m])
  <1>1. PICK f : f = Filled(t, Regrow) /\ Filling(t, Regrown, f)
    BY FilledRegrow, Zenon
  <1>2. PICK s : s = f[n]
    OBVIOUS
  <1>3. s \in Tables /\ Placed(s) /\ Counted(s) /\ Within(s)
    BY <1>1, <1>2, RegrownPrepares, FillingFacts, GrowingWithin
  <1>4. IsLoaded(s)
    BY <1>1, <1>2, Zenon
  <1>5. m \in 0..Len(AllNodes(s))
    BY <1>1, <1>2, Zenon
  <1>6. PICK c \in Nat : c = Cardinality(KeysIn(s)) /\ c = s.capacity /\ c < SizeModulus
    BY <1>3, <1>4, WithinFacts
  <1>7. PICK g : g = Filled(s, Same) /\ Filling(s, Unprepared, g) /\ Prepares(Unprepared)
    BY <1>3, <1>4, FilledSame, Zenon
  <1>8. g[m].capacity = 2 * s.capacity
    <2>1. \A j \in 0..Len(AllNodes(s)) : Unprepared[g[j]] = g[j]
      BY <1>7 DEF Filling, Unprepared
    <2> QED
      BY <1>3, <1>5, <1>7, <2>1, FillingCapacity
  <1>9. Counted(g[m]) /\ KeysIn(g[m]) = {h.key : h \in FirstOf(s, m)}
    BY <1>3, <1>5, <1>7, FillingFacts
  <1>10. KeysIn(g[m]) \subseteq KeysIn(s)
    <2>1. \A j \in 1..m : j \in 1..Len(AllNodes(s))
      BY <1>3, <1>5, AllNodesFacts
    <2>2. FirstOf(s, m) \subseteq Held(s)
      BY <1>3, <2>1, NodeFacts DEF FirstOf
    <2> QED
      BY <1>9, <2>2 DEF KeysIn
  <1>11. PICK e \in Nat : e = Cardinality(KeysIn(g[m])) /\ e <= c
    BY <1>3, <1>6, <1>10, AllNodesFacts, FS_Subset, FS_CardinalityType
  <1>12. g[m].size = e /\ e # g[m].capacity
    <2>1. c \in Nat \ {0}
      BY <1>3, <1>6, TableFacts
    <2>2. e < SizeModulus /\ e # 2 * c
      BY <1>6, <1>11, <2>1, ChainedTableAssumption
    <2> QED
      BY <1>6, <1>8, <1>9, <1>11, <2>2 DEF Counted
  <1>13. ~IsLoaded(g[m])
    BY <1>12 DEF IsLoaded
  <1> QED
    BY <1>1, <1>2, <1>7, <1>13, Zenon

-----------------------------------------------------------------------------
(* A loop over some of the buckets visits nodes of the table. *)
LEMMA FirstNodesFacts ==
    ASSUME NEW t \in Tables, NEW n \in 0..t.capacity
    PROVE  NodesOfFirst(t, n) \in Seq(Nodes) /\ ToSet(NodesOfFirst(t, n)) \subseteq Held(t)
  <1> DEFINE seqs == [i \in 1..n |-> t.buckets[i - 1]]
  <1>1. t.capacity \in Nat \ {0} /\ t.buckets \in [0..(t.capacity - 1) -> Seq(Nodes)]
    BY TableFacts
  <1>2. \A i \in 1..n : i - 1 \in DOMAIN t.buckets /\ t.buckets[i - 1] \in Seq(Nodes)
    BY <1>1
  <1>3. seqs \in Seq(Seq(Nodes)) /\ Len(seqs) = n
    <2>1. PICK c \in Nat : c = n
      BY <1>1
    <2>2. seqs \in [1..c -> Seq(Nodes)]
      BY <1>2, <2>1
    <2> HIDE DEF seqs
    <2>3. seqs \in Seq(Seq(Nodes)) /\ Len(seqs) = c
      BY <2>2
    <2> QED
      BY <2>1, <2>3
  <1>4. NodesOfFirst(t, n) = FlattenSeq(seqs)
    BY DEF NodesOfFirst
  <1>5. \A i \in 1..n : seqs[i] = t.buckets[i - 1]
    OBVIOUS
  <1> HIDE DEF seqs
  <1>6. CASE n = 0
    <2>1. Len(seqs) = 0
      BY <1>3, <1>6
    <2>2. FlattenSeq(seqs) = seqs
      BY <2>1 DEF FlattenSeq
    <2>3. seqs = <<>>
      BY <1>3, <2>1, EmptySeq
    <2> QED
      BY <1>4, <2>2, <2>3 DEF ToSet
  <1>7. CASE n # 0
    <2>1. seqs # <<>>
      BY <1>3, <1>7
    <2>2. /\ FlattenSeq(seqs) \in Seq(Nodes)
          /\ ToSet(FlattenSeq(seqs)) = UNION {ToSet(seqs[i]) : i \in 1..n}
      BY <1>3, <2>1, FlattenFacts
    <2>3. \A i \in 1..n : ToSet(seqs[i]) \subseteq Held(t)
      BY <1>2, <1>5 DEF Held
    <2> QED
      BY <1>4, <2>2, <2>3
  <1> QED
    BY <1>6, <1>7

(* lookup answers an element of the clients, or NULL for an absent key. *)
LEMMA LookupType ==
    ASSUME NEW t \in Tables, Placed(t), NEW k \in Keys
    PROVE  Lookup(t, k) \in Elements \cup {Null} /\ (HasKey(t, k) <=> Lookup(t, k) # Null)
  <1>1. \A n \in Held(t) : n.data \in Elements
    BY HeldFacts DEF Nodes
  <1> QED
    BY <1>1, LookupFacts, ChainedTableAssumption

(* Two tables with the same nodes answer every lookup alike. *)
LEMMA SameNodesSameAnswers ==
    ASSUME NEW t \in Tables, Placed(t), OneEach(t),
           NEW u \in Tables, Placed(u), OneEach(u), Held(u) = Held(t), NEW k \in Keys
    PROVE  Lookup(u, k) = Lookup(t, k) /\ (HasKey(u, k) <=> HasKey(t, k))
  <1>1. HasKey(t, k) <=> HasKey(u, k)
    BY LookupFacts DEF KeysIn
  <1>2. CASE HasKey(t, k)
    <2>1. PICK m \in Held(t) : m.key = k /\ Lookup(t, k) = m.data
      BY <1>2, LookupFacts
    <2>2. PICK n \in Held(u) : n.key = k /\ Lookup(u, k) = n.data
      BY <1>1, <1>2, LookupFacts
    <2>3. m = n
      BY <2>1, <2>2, OneEachFacts
    <2> QED
      BY <1>1, <2>1, <2>2, <2>3
  <1>3. CASE ~HasKey(t, k)
    BY <1>1, <1>3, LookupFacts
  <1> QED
    BY <1>2, <1>3, <1>1

-----------------------------------------------------------------------------
(* The table among its clients. *)

(* The argument of a call fits its name. *)
LEMMA CallFacts ==
    ASSUME NEW c \in Calls
    PROVE  /\ c.name \in AllNames /\ c # NoCall
           /\ c.name = "insert" => c.key \in Keys /\ c.data \in Elements
           /\ c.name \in KeyNames => c.key \in Keys
  <1>1. c.name \in AllNames
    BY HashTableAssumption DEF Calls
  <1>2. c # NoCall
    BY <1>1 DEF NoCall, AllNames, LookNames, FreeNames
  <1>3. /\ c.name = "insert" => c.key \in Keys /\ c.data \in Elements
        /\ c.name \in KeyNames => c.key \in Keys
    BY DEF Calls, KeyNames
  <1> QED
    BY <1>1, <1>2, <1>3

-----------------------------------------------------------------------------
(* What holds however clients insert. *)
ClientsInCalls ==
    /\ pc \in [Threads -> Places]
    /\ op \in [Threads -> Calls \cup {NoCall}]
    /\ mtx \in Threads \cup {NoThread}
    /\ \A t \in Threads :
           /\ pc[t] = "idle" <=> op[t] = NoCall
           /\ pc[t] = "rest" => op[t].name = "insert"

(* The table is well formed, and has every key that is promised. *)
TableInv ==
    /\ ret \in [Threads -> Elements \cup {Null} \cup Nat]
    /\ life \in {"none", "live", "freed"} \cup Ended
    /\ table \in Tables
    /\ promised \in [Keys -> Elements \cup {Null}]
    /\ released \subseteq Elements
    /\ Placed(table)
    /\ KeysNeverLost

(* Every step keeps the mutex with the one thread inside a body. *)
LEMMA ClientsStep ==
    ClientsInCalls /\ HolderIsCritical /\ [Next]_vars => ClientsInCalls' /\ HolderIsCritical'
  <1> SUFFICES ASSUME ClientsInCalls, HolderIsCritical, [Next]_vars
               PROVE  ClientsInCalls' /\ HolderIsCritical'
    OBVIOUS
  <1> USE DEF ClientsInCalls, HolderIsCritical, Critical, Places
  <1>1. ASSUME UNCHANGED callVars PROVE ClientsInCalls' /\ HolderIsCritical'
    BY <1>1 DEF callVars
  <1>2. ASSUME NEW t \in Threads, NEW c \in Calls, Call(t, c)
        PROVE  ClientsInCalls' /\ HolderIsCritical'
    BY <1>2, CallFacts DEF Call, Invoke
  <1>3. ASSUME NEW t \in Threads, Acquire(t) PROVE ClientsInCalls' /\ HolderIsCritical'
    BY <1>3, ClientsAssumption DEF Acquire, Lock
  <1>4. ASSUME NEW t \in Threads, NEW p \in Places, pc[t] # "idle", p # "idle",
               pc[t] \in {"body", "rest"}, p \in {"rest", "unlock"},
               p = "rest" => op[t].name = "insert",
               pc' = [pc EXCEPT ![t] = p], UNCHANGED <<op, mtx>>
        PROVE  ClientsInCalls' /\ HolderIsCritical'
    BY <1>4
  <1>5. ASSUME NEW t \in Threads, InsertGrow(t) PROVE ClientsInCalls' /\ HolderIsCritical'
    BY <1>4, <1>5 DEF InsertGrow, InBody, Proceed
  <1>6. ASSUME NEW t \in Threads, InsertStore(t) PROVE ClientsInCalls' /\ HolderIsCritical'
    BY <1>4, <1>6 DEF InsertStore, Proceed
  <1>7. ASSUME NEW t \in Threads, EraseBody(t) PROVE ClientsInCalls' /\ HolderIsCritical'
    BY <1>4, <1>7 DEF EraseBody, InBody, Answer
  <1>8. ASSUME NEW t \in Threads, Look(t) PROVE ClientsInCalls' /\ HolderIsCritical'
    BY <1>4, <1>8 DEF Look, Answer
  <1>9. ASSUME NEW t \in Threads, FreeBody(t) PROVE ClientsInCalls' /\ HolderIsCritical'
    <2>1. UNCHANGED callVars \/ Answer(t, Null, "unlock")
      BY <1>9 DEF FreeBody
    <2>2. pc[t] = "body"
      BY <1>9 DEF FreeBody
    <2> QED
      BY <1>1, <1>4, <2>1, <2>2 DEF Answer
  <1>10. ASSUME NEW t \in Threads, Unlock(t) PROVE ClientsInCalls' /\ HolderIsCritical'
    BY <1>10, ClientsAssumption DEF Unlock
  <1>11. ASSUME NEW t \in Threads, Finish(t) PROVE ClientsInCalls' /\ HolderIsCritical'
    BY <1>11, ClientsAssumption DEF Finish, Return
  <1>12. ASSUME Create PROVE ClientsInCalls' /\ HolderIsCritical'
    BY <1>12, ClientsAssumption DEF Create, AllIdle
  <1> QED
    BY <1>1, <1>2, <1>3, <1>5, <1>6, <1>7, <1>8, <1>9, <1>10, <1>11, <1>12
    DEF Next, vars, Release, ReleaseFreed

(* What a thread in a body calls. *)
LEMMA BodyFacts ==
    ASSUME ClientsInCalls, NEW t \in Threads, pc[t] # "idle"
    PROVE  /\ op[t] \in Calls
           /\ op[t].name = "insert" => op[t].key \in Keys /\ op[t].data \in Elements
           /\ op[t].name \in KeyNames => op[t].key \in Keys
  <1>1. op[t] \in Calls
    BY DEF ClientsInCalls
  <1> QED
    BY <1>1, CallFacts

(* Every step leaves the table placed and loses no promised key. *)
LEMMA TableStep ==
    ClientsInCalls /\ TableInv /\ [Next]_vars => TableInv'
  <1> SUFFICES ASSUME ClientsInCalls, TableInv, [Next]_vars PROVE TableInv'
    OBVIOUS
  <1>t. table \in Tables /\ Placed(table)
    BY DEF TableInv
  <1>p. promised \in [Keys -> Elements \cup {Null}]
    BY DEF TableInv
  <1>1. ASSUME UNCHANGED tableVars, ret' \in [Threads -> Elements \cup {Null} \cup Nat]
        PROVE  TableInv'
    BY <1>1 DEF TableInv, tableVars, KeysNeverLost
  <1>n. NewTable(InitialCapacity) \in Tables /\ Placed(NewTable(InitialCapacity))
    BY NewTableFacts, HashTableAssumption
  <1>2. CASE Create
    BY <1>2, <1>n DEF TableInv, Create, KeysNeverLost, NothingPromised
  <1>3. ASSUME NEW t \in Threads, InsertGrow(t) PROVE TableInv'
    <2>1. Keeps(table, table') /\ life = "live"
      BY <1>3, <1>t, GrowFacts DEF InsertGrow
    <2>2. table' \in Tables /\ Placed(table') /\ KeysIn(table') = KeysIn(table)
      BY <2>1 DEF Keeps
    <2>3. KeysNeverLost'
      <3>1. \A k \in Keys : HasKey(table', k) <=> HasKey(table, k)
        BY <1>t, <2>2, LookupFacts
      <3> QED
        BY <1>3, <2>1, <3>1 DEF TableInv, KeysNeverLost, InsertGrow
    <2>4. UNCHANGED <<life, promised, released, ret>>
      BY <1>3 DEF InsertGrow, Proceed
    <2> QED
      BY <2>2, <2>3, <2>4 DEF TableInv
  <1>4. ASSUME NEW t \in Threads, InsertStore(t) PROVE TableInv'
    <2>1. op[t].key \in Keys /\ op[t].data \in Elements
      BY <1>4, BodyFacts DEF InsertStore
    <2>2. /\ life = "live" /\ UNCHANGED <<life, released, ret>>
          /\ table' = Store(table, op[t].key, op[t].data)
          /\ promised' = [promised EXCEPT ![op[t].key] = op[t].data]
      BY <1>4 DEF InsertStore, Proceed
    <2>3. /\ table' \in Tables /\ Placed(table')
          /\ KeysIn(table') = KeysIn(table) \cup {op[t].key}
      BY <1>t, <2>1, <2>2, StoreFacts
    <2>4. KeysNeverLost'
      <3>1. \A k \in Keys : HasKey(table, k) \/ k = op[t].key => HasKey(table', k)
        BY <1>t, <2>3, LookupFacts
      <3>2. \A k \in Keys : k # op[t].key => promised'[k] = promised[k]
        BY <1>p, <2>2
      <3> QED
        BY <2>2, <3>1, <3>2 DEF TableInv, KeysNeverLost
    <2>5. promised' \in [Keys -> Elements \cup {Null}]
      BY <1>p, <2>1, <2>2
    <2> QED
      BY <2>2, <2>3, <2>4, <2>5 DEF TableInv
  <1>5. ASSUME NEW t \in Threads, EraseBody(t) PROVE TableInv'
    <2>1. op[t].key \in Keys
      BY <1>5, BodyFacts DEF EraseBody, InBody, KeyNames
    <2>2. PICK k \in Keys : k = op[t].key
      BY <2>1
    <2>3. /\ life = "live" /\ UNCHANGED life
          /\ table' = Erase(table, k)
          /\ promised' = [promised EXCEPT ![k] = Null]
          /\ released' \in {released, released \cup {Lookup(table, k)}}
          /\ released' = released \/ HasKey(table, k)
          /\ \E v \in {CTrue, CFalse} : Answer(t, v, "unlock")
      BY <1>5, <2>2 DEF EraseBody
    <2>4. /\ table' \in Tables /\ Placed(table')
          /\ \A n \in Held(table) : n.key # k => n \in Held(table')
      BY <1>t, <2>3, EraseFacts
    <2>5. KeysNeverLost'
      <3>1. ASSUME NEW x \in Keys, x # k, HasKey(table, x) PROVE HasKey(table', x)
        <4>1. x \in KeysIn(table)
          BY <1>t, <3>1, LookupFacts
        <4>2. x \in KeysIn(table')
          BY <1>t, <2>4, <3>1, <4>1, HeldFacts
        <4> QED
          BY <2>4, <4>2, LookupFacts
      <3>2. \A x \in Keys : promised'[x] = IF x = k THEN Null ELSE promised[x]
        BY <1>p, <2>3
      <3> QED
        BY <2>3, <3>1, <3>2 DEF TableInv, KeysNeverLost
    <2>6. promised' \in [Keys -> Elements \cup {Null}]
      BY <1>p, <2>3
    <2>7. released' \subseteq Elements
      BY <1>t, <2>3, LookupType DEF TableInv
    <2>8. ret' \in [Threads -> Elements \cup {Null} \cup Nat]
      BY <2>3 DEF TableInv, Answer, CTrue, CFalse
    <2> QED
      BY <2>3, <2>4, <2>5, <2>6, <2>7, <2>8 DEF TableInv
  <1>6. ASSUME NEW t \in Threads, Look(t) PROVE TableInv'
    <2>1. /\ UNCHANGED tableVars
          /\ op[t].name \in LookNames
          /\ ret' = [ret EXCEPT ![t] = Seen(op[t])]
      BY <1>6 DEF Look, Answer
    <2>2. op[t].name \in {"lookup", "contains"} => op[t].key \in Keys
      BY <1>6, BodyFacts DEF Look, KeyNames
    <2>3. Seen(op[t]) \in Elements \cup {Null} \cup Nat
      <3>1. table.size \in Nat /\ table.capacity \in Nat
        BY <1>t, TableFacts
      <3> QED
        BY <1>t, <2>1, <2>2, <3>1, LookupType DEF Seen, LookNames, CTrue, CFalse
    <2> QED
      BY <1>1, <2>1, <2>3 DEF TableInv
  <1>7. ASSUME NEW t \in Threads, FreeBody(t) PROVE TableInv'
    <2>1. CASE life' \in {"badIndex", "badFree"} /\ UNCHANGED <<callVars, table, promised, released>>
      BY <2>1 DEF TableInv, callVars, KeysNeverLost, Ended
    <2>2. CASE /\ life' = "freed" /\ table' = NewTable(InitialCapacity)
               /\ promised' = NothingPromised
               /\ released' \subseteq Elements
               /\ Answer(t, Null, "unlock")
      BY <1>n, <2>2 DEF TableInv, Answer, NothingPromised, KeysNeverLost
    <2> DEFINE datas == {node.data : node \in ToSet(NodesOfFirst(table, table.size))}
    <2>3. ASSUME ~(table.size > table.capacity) PROVE datas \subseteq Elements
      <3>1. table.size \in 0..table.capacity
        BY <1>t, <2>3, TableFacts
      <3>2. ToSet(NodesOfFirst(table, table.size)) \subseteq Nodes
        BY <1>t, <3>1, FirstNodesFacts, HeldFacts
      <3> QED
        BY <3>2 DEF Nodes
    <2> QED
      BY <1>7, <2>1, <2>2, <2>3 DEF FreeBody, TableInv
  <1>8. ASSUME NEW t \in Threads, ReleaseFreed(t) PROVE TableInv'
    BY <1>8 DEF ReleaseFreed, Unlock, TableInv, KeysNeverLost, Ended, callVars
  <1>9. ASSUME NEW t \in Threads, Finish(t) PROVE TableInv'
    <2>1. ret' = [ret EXCEPT ![t] = Null] /\ UNCHANGED tableVars
      BY <1>9 DEF Finish, Return
    <2> QED
      BY <1>1, <2>1 DEF TableInv
  <1>10. ASSUME UNCHANGED <<ret, tableVars>> PROVE TableInv'
    BY <1>1, <1>10 DEF TableInv
  <1> QED
    BY <1>2, <1>3, <1>4, <1>5, <1>6, <1>7, <1>8, <1>9, <1>10
    DEF Next, vars, callVars, Call, Invoke, Acquire, Lock, Release, Unlock

(* The invariants hold at the start. *)
LEMMA TableInit == Init => ClientsInCalls /\ HolderIsCritical /\ TableInv
  <1> SUFFICES ASSUME Init PROVE ClientsInCalls /\ HolderIsCritical /\ TableInv
    OBVIOUS
  <1>1. NewTable(InitialCapacity) \in Tables /\ Placed(NewTable(InitialCapacity))
    BY NewTableFacts, HashTableAssumption
  <1>2. ClientsInCalls /\ HolderIsCritical
    BY ClientsAssumption
    DEF Init, ClientsInit, ClientsInCalls, HolderIsCritical, Critical, Places
  <1>3. TableInv
    BY <1>1 DEF Init, ClientsInit, TableInv, KeysNeverLost, NothingPromised
  <1> QED
    BY <1>2, <1>3

(* What holds however clients insert, duplicates included. *)
TableInvariant == ClientsInCalls /\ HolderIsCritical /\ TableInv

(***************************************************************************)
(* The inductive invariant of the table, for clients that insert any keys. *)
(***************************************************************************)
THEOREM TableInvariantHolds == Spec => []TableInvariant
  <1>1. Init => TableInvariant
    BY TableInit DEF TableInvariant
  <1>2. TableInvariant /\ [Next]_vars => TableInvariant'
    BY ClientsStep, TableStep DEF TableInvariant
  <1> QED
    BY <1>1, <1>2, PTL DEF Spec

(***************************************************************************)
(* Every variable keeps its type: the size stays a size_t, the array has   *)
(* as many buckets as the capacity says, and a key is never hashed outside *)
(* it.                                                                     *)
(***************************************************************************)
THEOREM TypesHold == Spec => []TypeOK
  <1>1. TableInvariant => TypeOK
    <2> SUFFICES ASSUME TableInvariant PROVE TypeOK
      OBVIOUS
    <2>1. table \in Tables
      BY DEF TableInvariant, TableInv
    <2>2. /\ table.size \in 0..(SizeModulus - 1) /\ table.capacity \in Nat \ {0}
          /\ DOMAIN table.buckets = 0..(table.capacity - 1)
          /\ ToSet(AllNodes(table)) \subseteq Nodes
      BY <2>1, TableFacts, AllNodesFacts, HeldFacts
    <2> QED
      BY <2>2 DEF TableInvariant, ClientsInCalls, TableInv, TypeOK
  <1> QED
    BY <1>1, TableInvariantHolds, PTL

(***************************************************************************)
(* Every node is in the bucket its key hashes to in the present capacity,  *)
(* through inserts of present keys, growths inside growths and erases.     *)
(***************************************************************************)
THEOREM BucketsAreRight == Spec => []NodesInTheirBuckets
  <1>1. TableInvariant => NodesInTheirBuckets
    BY DEF TableInvariant, TableInv, Placed, NodesInTheirBuckets
  <1> QED
    BY <1>1, TableInvariantHolds, PTL

(***************************************************************************)
(* A key that was inserted and not erased since is found, for any threads, *)
(* hash, capacity and width of size_t, and also when clients insert keys   *)
(* twice, which leaves the size below the number of nodes.                 *)
(***************************************************************************)
THEOREM KeysAreKept == Spec => []KeysNeverLost
  <1>1. TableInvariant => KeysNeverLost
    BY DEF TableInvariant, TableInv
  <1> QED
    BY <1>1, TableInvariantHolds, PTL

-----------------------------------------------------------------------------
(* The elements in the table. *)
DatasIn(t) == {n.data : n \in Held(t)}

(* The thread is in an insert that has not stored yet. *)
Pending(t) == op[t].name = "insert" /\ pc[t] \in {"lock", "body", "rest"}

(* A key has one node, an element is in one node, a freed element in none. *)
TableFresh ==
    /\ OneEach(table)
    /\ \A m, n \in Held(table) : m.data = n.data => m = n
    /\ DatasIn(table) \cap released = {}

(* What an insert is about to store is not in the table. *)
PendingFresh ==
    \A t \in Threads : Pending(t) =>
        /\ op[t].key \notin KeysIn(table)
        /\ op[t].data \notin DatasIn(table)
        /\ op[t].data \notin released

(* No two threads insert one key or one element. *)
InsertsApart ==
    \A t, u \in Threads : t # u /\ op[t].name = "insert" /\ op[u].name = "insert" =>
        op[t].key # op[u].key /\ op[t].data # op[u].data

(* What holds when clients insert absent keys only and give away each element *)
(* once. NoFreedDataInTable needs all three parts: deep_erase frees the       *)
(* element of one node, so that no other node may hold it, now or after an    *)
(* insert that is on its way.                                                 *)
FreshInv == TableFresh /\ PendingFresh /\ InsertsApart

(* A step that invokes no call and moves no thread back. *)
NoInvocation ==
    \A t \in Threads :
        /\ op'[t] \in {op[t], NoCall}
        /\ Pending(t)' => Pending(t)

(* A thread that moves forward invokes nothing. *)
LEMMA PlacesMove ==
    ASSUME ClientsInCalls, NEW t \in Threads,
           NEW p \in {"body", "rest", "unlock", "return", "idle"},
           pc' = [pc EXCEPT ![t] = p],
           op' \in {op, [op EXCEPT ![t] = NoCall]},
           p \in {"body", "rest"} => pc[t] \in {"lock", "body", "rest"}
    PROVE  NoInvocation
  <1>1. \A u \in Threads : op'[u] \in {op[u], NoCall}
    BY DEF ClientsInCalls
  <1>2. NoCall.name # "insert"
    BY DEF NoCall
  <1>3. ASSUME NEW u \in Threads, op'[u].name = "insert", pc'[u] \in {"lock", "body", "rest"}
        PROVE  op[u].name = "insert" /\ pc[u] \in {"lock", "body", "rest"}
    BY <1>1, <1>2, <1>3 DEF ClientsInCalls
  <1> QED
    BY <1>1, <1>3 DEF NoInvocation, Pending

(* Only Call invokes. *)
LEMMA StepInvokes ==
    ASSUME ClientsInCalls, [Next]_vars
    PROVE  NoInvocation \/ \E t \in Threads, c \in Calls : Call(t, c)
  <1>1. CASE UNCHANGED <<pc, op>>
    BY <1>1 DEF NoInvocation, Pending
  <1>2. ASSUME NEW t \in Threads, Acquire(t) PROVE NoInvocation
    BY <1>2, PlacesMove DEF Acquire, Lock
  <1>3. ASSUME NEW t \in Threads, InsertGrow(t) PROVE NoInvocation
    BY <1>3, PlacesMove DEF InsertGrow, InBody, Proceed
  <1>4. ASSUME NEW t \in Threads, InsertStore(t) PROVE NoInvocation
    BY <1>4, PlacesMove DEF InsertStore, Proceed
  <1>5. ASSUME NEW t \in Threads, EraseBody(t) PROVE NoInvocation
    BY <1>5, PlacesMove DEF EraseBody, Answer
  <1>6. ASSUME NEW t \in Threads, Look(t) PROVE NoInvocation
    BY <1>6, PlacesMove DEF Look, Answer
  <1>7. ASSUME NEW t \in Threads, FreeBody(t) PROVE NoInvocation \/ UNCHANGED <<pc, op>>
    BY <1>7, PlacesMove DEF FreeBody, Answer, callVars
  <1>8. ASSUME NEW t \in Threads, Unlock(t) PROVE NoInvocation
    BY <1>8, PlacesMove DEF Unlock
  <1>9. ASSUME NEW t \in Threads, Finish(t) PROVE NoInvocation
    BY <1>9, PlacesMove DEF Finish, Return
  <1> QED
    BY <1>1, <1>2, <1>3, <1>4, <1>5, <1>6, <1>7, <1>8, <1>9
    DEF Next, vars, callVars, Create, Release, ReleaseFreed

(* A call of insert by the rule of the clients. *)
LEMMA MayInsertFacts ==
    ASSUME ~Reinsert, ClientsInCalls, TableInv, NEW c \in Calls, c.name = "insert", MayInsert(c)
    PROVE  /\ c.key \notin KeysIn(table)
           /\ c.data \notin DatasIn(table)
           /\ c.data \notin released
           /\ \A t \in Threads : op[t].name = "insert" =>
                  op[t].key # c.key /\ op[t].data # c.data
  <1>1. table \in Tables /\ Placed(table) /\ c.key \in Keys
    BY CallFacts DEF TableInv
  <1>2. /\ c.data \notin released
        /\ c.data \notin {node.data : node \in ToSet(AllNodes(table))}
        /\ \A d \in InFlight : d.data # c.data
        /\ ~HasKey(table, c.key)
        /\ \A d \in InFlight : d.key # c.key
    BY DEF MayInsert
  <1>3. \A t \in Threads : op[t].name = "insert" => op[t] \in InFlight
    BY DEF InFlight
  <1>4. c.data \notin DatasIn(table)
    BY <1>1, <1>2, AllNodesFacts DEF DatasIn
  <1> QED
    BY <1>1, <1>2, <1>3, <1>4, LookupFacts

(* The clients' rule keeps the inserts apart. *)
LEMMA InsertsApartStep ==
    ~Reinsert /\ ClientsInCalls /\ TableInv /\ InsertsApart /\ [Next]_vars => InsertsApart'
  <1> SUFFICES ASSUME ~Reinsert, ClientsInCalls, TableInv, InsertsApart, [Next]_vars
               PROVE  InsertsApart'
    OBVIOUS
  <1>0. NoCall.name # "insert"
    BY DEF NoCall
  <1>1. CASE NoInvocation
    <2>1. ASSUME NEW t \in Threads, NEW u \in Threads, t # u,
                 op'[t].name = "insert", op'[u].name = "insert"
          PROVE  op'[t].key # op'[u].key /\ op'[t].data # op'[u].data
      <3>1. op'[t] = op[t] /\ op'[u] = op[u]
        BY <1>0, <1>1, <2>1 DEF NoInvocation
      <3> QED
        BY <2>1, <3>1 DEF InsertsApart
    <2> QED
      BY <2>1 DEF InsertsApart
  <1>2. ASSUME NEW t \in Threads, NEW c \in Calls, Call(t, c) PROVE InsertsApart'
    <2>1. op' = [op EXCEPT ![t] = c] /\ (c.name = "insert" => MayInsert(c))
      BY <1>2 DEF Call, Invoke
    <2>2. c.name = "insert" => \A u \in Threads : op[u].name = "insert" =>
              op[u].key # c.key /\ op[u].data # c.data
      BY <2>1, MayInsertFacts
    <2>3. \A u \in Threads : op'[u] = IF u = t THEN c ELSE op[u]
      BY <2>1 DEF ClientsInCalls
    <2> QED
      BY <2>2, <2>3 DEF InsertsApart
  <1> QED
    BY <1>1, <1>2, StepInvokes

(* A step that only takes nodes from the table. *)
LEMMA FreshWhenTaken ==
    ASSUME ClientsInCalls, TableInv, FreshInv, NoInvocation,
           table' \in Tables, OneEach(table'), Held(table') \subseteq Held(table),
           \A d \in released' : d \in released \/ (d \in DatasIn(table) /\ d \notin DatasIn(table'))
    PROVE  TableFresh' /\ PendingFresh'
  <1>1. /\ DatasIn(table') \subseteq DatasIn(table)
        /\ KeysIn(table') \subseteq KeysIn(table)
    BY DEF DatasIn, KeysIn
  <1>2. TableFresh'
    BY <1>1 DEF FreshInv, TableFresh
  <1>3. ASSUME NEW t \in Threads, Pending(t)'
        PROVE  /\ op'[t].key \notin KeysIn(table')
               /\ op'[t].data \notin DatasIn(table')
               /\ op'[t].data \notin released'
    <2>1. op'[t] = op[t] /\ Pending(t)
      BY <1>3 DEF NoInvocation, Pending, NoCall
    <2> QED
      BY <1>1, <2>1 DEF FreshInv, PendingFresh
  <1> QED
    BY <1>2, <1>3 DEF PendingFresh

(* Every step keeps the table fresh: an insert stores a new node, an erase    *)
(* takes a key's only node, a growth keeps the nodes, a free takes all.       *)
LEMMA FreshStep ==
    ~Reinsert /\ ClientsInCalls /\ HolderIsCritical /\ TableInv /\ FreshInv /\ [Next]_vars
        => FreshInv'
  <1> SUFFICES ASSUME ~Reinsert, ClientsInCalls, HolderIsCritical, TableInv, FreshInv, [Next]_vars
               PROVE  TableFresh' /\ PendingFresh'
    BY InsertsApartStep DEF FreshInv
  <1>t. table \in Tables /\ Placed(table) /\ OneEach(table)
    BY DEF TableInv, FreshInv, TableFresh
  <1>n. /\ NewTable(InitialCapacity) \in Tables /\ OneEach(NewTable(InitialCapacity))
        /\ Held(NewTable(InitialCapacity)) = {}
    BY NewTableFacts, HashTableAssumption
  <1>1. CASE NoInvocation /\ UNCHANGED <<table, released>>
    BY <1>1, <1>t, FreshWhenTaken
  <1>2. ASSUME NEW t \in Threads, NEW c \in Calls, Call(t, c)
        PROVE  TableFresh' /\ PendingFresh'
    <2>1. /\ op' = [op EXCEPT ![t] = c] /\ pc' = [pc EXCEPT ![t] = "lock"]
          /\ c.name = "insert" => MayInsert(c)
          /\ UNCHANGED <<table, released>>
      BY <1>2 DEF Call, Invoke, tableVars
    <2>2. c.name = "insert" =>
              /\ c.key \notin KeysIn(table)
              /\ c.data \notin DatasIn(table)
              /\ c.data \notin released
      BY <2>1, MayInsertFacts
    <2>3. TableFresh'
      BY <2>1 DEF FreshInv, TableFresh
    <2>4. ASSUME NEW u \in Threads, Pending(u)'
          PROVE  /\ op'[u].key \notin KeysIn(table)
                 /\ op'[u].data \notin DatasIn(table)
                 /\ op'[u].data \notin released
      <3>1. CASE u = t
        BY <2>1, <2>2, <2>4, <3>1 DEF Pending, ClientsInCalls
      <3>2. CASE u # t
        <4>1. op'[u] = op[u] /\ pc'[u] = pc[u]
          BY <2>1, <3>2 DEF ClientsInCalls
        <4> QED
          BY <2>4, <4>1 DEF FreshInv, PendingFresh, Pending
      <3> QED
        BY <3>1, <3>2
    <2> QED
      BY <2>1, <2>3, <2>4 DEF PendingFresh
  <1> SUFFICES ASSUME NoInvocation PROVE TableFresh' /\ PendingFresh'
    BY <1>2, StepInvokes
  <1>3. CASE Create
    BY <1>3, <1>n, FreshWhenTaken DEF Create
  <1>4. ASSUME NEW t \in Threads, InsertGrow(t) PROVE TableFresh' /\ PendingFresh'
    <2>1. Keeps(table, table') /\ released' = released
      BY <1>4, <1>t, GrowFacts DEF InsertGrow
    <2>2. table' \in Tables /\ OneEach(table') /\ Held(table') = Held(table)
      BY <1>t, <2>1 DEF Keeps
    <2> QED
      BY <2>1, <2>2, FreshWhenTaken
  <1>5. ASSUME NEW t \in Threads, InsertStore(t) PROVE TableFresh' /\ PendingFresh'
    <2>1. /\ op[t].key \in Keys /\ op[t].data \in Elements
          /\ pc[t] = "rest" /\ op[t].name = "insert"
          /\ table' = Store(table, op[t].key, op[t].data)
          /\ pc' = [pc EXCEPT ![t] = "unlock"] /\ op' = op /\ released' = released
      BY <1>5, BodyFacts DEF InsertStore, Proceed
    <2>2. PICK k \in Keys, d \in Elements : k = op[t].key /\ d = op[t].data
      BY <2>1
    <2>3. k \notin KeysIn(table) /\ d \notin DatasIn(table) /\ d \notin released
      BY <2>1, <2>2 DEF FreshInv, PendingFresh, Pending
    <2>4. /\ table' \in Tables
          /\ KeysIn(table') = KeysIn(table) \cup {k}
          /\ Held(table') = Held(table) \cup {[key |-> k, data |-> d]}
          /\ OneEach(table')
      BY <1>t, <2>1, <2>2, <2>3, StoreFacts
    <2>5. DatasIn(table') = DatasIn(table) \cup {d}
      <3>1. PICK new : new = [key |-> k, data |-> d]
        OBVIOUS
      <3>2. new.data = d /\ Held(table') = Held(table) \cup {new}
        BY <2>4, <3>1
      <3> QED
        BY <3>2 DEF DatasIn
    <2>6. TableFresh'
      <3>1. ASSUME NEW m \in Held(table'), NEW n \in Held(table'), m.data = n.data PROVE m = n
        <4>1. \A h \in Held(table) : h.data # d
          BY <2>3 DEF DatasIn
        <4> QED
          BY <2>4, <3>1, <4>1 DEF FreshInv, TableFresh
      <3>2. DatasIn(table') \cap released' = {}
        BY <2>1, <2>3, <2>5 DEF FreshInv, TableFresh
      <3> QED
        BY <2>4, <3>1, <3>2 DEF TableFresh
    <2>7. ASSUME NEW u \in Threads, Pending(u)'
          PROVE  /\ op'[u].key \notin KeysIn(table')
                 /\ op'[u].data \notin DatasIn(table')
                 /\ op'[u].data \notin released'
      <3>1. u # t
        BY <2>1, <2>7 DEF Pending, ClientsInCalls
      <3>2. Pending(u) /\ op'[u] = op[u] /\ op[u].name = "insert"
        BY <2>1, <2>7 DEF Pending, NoInvocation
      <3>3. op[u].key # k /\ op[u].data # d
        BY <2>1, <2>2, <3>1, <3>2 DEF FreshInv, InsertsApart
      <3> QED
        BY <2>1, <2>4, <2>5, <3>2, <3>3 DEF FreshInv, PendingFresh
    <2> QED
      BY <2>6, <2>7 DEF PendingFresh
  <1>6. ASSUME NEW t \in Threads, EraseBody(t) PROVE TableFresh' /\ PendingFresh'
    <2>1. op[t].key \in Keys
      BY <1>6, BodyFacts DEF EraseBody, InBody, KeyNames
    <2>2. PICK k \in Keys : k = op[t].key
      BY <2>1
    <2>3. /\ table' = Erase(table, k)
          /\ \/ released' = released
             \/ HasKey(table, k) /\ released' = released \cup {Lookup(table, k)}
      BY <1>6, <2>2 DEF EraseBody
    <2>4. /\ table' \in Tables /\ Held(table') \subseteq Held(table)
          /\ OneEach(table') /\ k \notin KeysIn(table')
      BY <1>t, <2>3, EraseFacts
    <2>5. ASSUME HasKey(table, k)
          PROVE  Lookup(table, k) \in DatasIn(table) /\ Lookup(table, k) \notin DatasIn(table')
      <3>1. PICK n \in Held(table) : n.key = k /\ Lookup(table, k) = n.data
        BY <1>t, <2>5, LookupFacts
      <3>2. \A m \in Held(table') : m.data # n.data
        <4>1. \A m \in Held(table') : m.key # k
          BY <2>4, HeldFacts
        <4> QED
          BY <2>4, <3>1, <4>1 DEF FreshInv, TableFresh
      <3> QED
        BY <3>1, <3>2 DEF DatasIn
    <2> QED
      BY <2>3, <2>4, <2>5, FreshWhenTaken
  <1>7. ASSUME NEW t \in Threads, FreeBody(t) PROVE TableFresh' /\ PendingFresh'
    <2> DEFINE datas == {node.data : node \in ToSet(NodesOfFirst(table, table.size))}
    <2>1. CASE UNCHANGED <<table, released>>
      BY <1>1, <2>1
    <2>2. CASE /\ ~(table.size > table.capacity)
               /\ table' = NewTable(InitialCapacity)
               /\ released' \in {released, released \cup datas}
      <3>1. table.size \in 0..table.capacity
        BY <1>t, <2>2, TableFacts
      <3>2. datas \subseteq DatasIn(table)
        BY <1>t, <3>1, FirstNodesFacts DEF DatasIn
      <3>3. DatasIn(table') = {}
        BY <1>n, <2>2 DEF DatasIn
      <3> HIDE DEF datas
      <3>4. \A d \in released' : d \in released \/ d \in DatasIn(table)
        BY <2>2, <3>2
      <3>5. table' \in Tables /\ OneEach(table') /\ Held(table') = {}
        BY <1>n, <2>2
      <3> QED
        BY <3>3, <3>4, <3>5, FreshWhenTaken
    <2> QED
      BY <1>7, <2>1, <2>2 DEF FreeBody
  <1> QED
    BY <1>1, <1>2, <1>3, <1>4, <1>5, <1>6, <1>7, StepInvokes
    DEF Next, vars, tableVars, Acquire, Look, Release, ReleaseFreed, Finish

(* A new table is fresh. *)
LEMMA FreshInit == Init => FreshInv
  <1> SUFFICES ASSUME Init PROVE FreshInv
    OBVIOUS
  <1>1. OneEach(table) /\ Held(table) = {}
    BY NewTableFacts, HashTableAssumption DEF Init
  <1>2. \A t \in Threads : op[t] = NoCall
    BY DEF Init, ClientsInit
  <1> QED
    BY <1>1, <1>2 DEF FreshInv, TableFresh, PendingFresh, InsertsApart, Pending, DatasIn, NoCall

(***************************************************************************)
(* The inductive invariant for clients that insert absent keys only.       *)
(***************************************************************************)
THEOREM FreshHolds == ASSUME ~Reinsert PROVE Spec => [](TableInvariant /\ FreshInv)
  <1>1. Init => TableInvariant /\ FreshInv
    BY TableInit, FreshInit DEF TableInvariant
  <1>2. (TableInvariant /\ FreshInv) /\ [Next]_vars => (TableInvariant /\ FreshInv)'
    BY ClientsStep, TableStep, FreshStep DEF TableInvariant
  <1> QED
    BY <1>1, <1>2, PTL DEF Spec

(***************************************************************************)
(* No node holds an element that deep_erase or deep_free has freed, when   *)
(* clients insert absent keys only and use no freed element again.         *)
(***************************************************************************)
THEOREM FreedDataIsGone == ASSUME ~Reinsert PROVE Spec => []NoFreedDataInTable
  <1>1. TableInvariant /\ FreshInv => NoFreedDataInTable
    BY AllNodesFacts DEF TableInvariant, TableInv, FreshInv, TableFresh, DatasIn, NoFreedDataInTable
  <1> QED
    BY <1>1, FreshHolds, PTL

(* A step that changes the capacity is a growth, which keeps every node. *)
LEMMA GrowthStep ==
    TableInvariant /\ FreshInv /\ [Next]_vars
        => (life = "live" /\ life' = "live" /\ table'.capacity # table.capacity =>
                \A k \in Keys : Lookup(table', k) = Lookup(table, k))
  <1> SUFFICES ASSUME TableInvariant, FreshInv, [Next]_vars, life = "live", life' = "live",
                      table'.capacity # table.capacity
               PROVE  \A k \in Keys : Lookup(table', k) = Lookup(table, k)
    OBVIOUS
  <1>t. ClientsInCalls /\ table \in Tables /\ Placed(table) /\ OneEach(table)
    BY DEF TableInvariant, TableInv, FreshInv, TableFresh
  <1>1. CASE \E t \in Threads : InsertGrow(t)
    <2>1. Keeps(table, table')
      BY <1>1, <1>t, GrowFacts DEF InsertGrow
    <2> QED
      BY <1>t, <2>1, SameNodesSameAnswers DEF Keeps
  <1>2. ASSUME NEW t \in Threads, InsertStore(t) PROVE FALSE
    <2>1. op[t].key \in Keys /\ op[t].data \in Elements
      BY <1>2, <1>t, BodyFacts DEF InsertStore
    <2> QED
      BY <1>2, <1>t, <2>1, StoreFacts DEF InsertStore
  <1>3. ASSUME NEW t \in Threads, EraseBody(t) PROVE FALSE
    <2>1. op[t].key \in Keys
      BY <1>3, <1>t, BodyFacts DEF EraseBody, InBody, KeyNames
    <2> QED
      BY <1>3, <1>t, <2>1, EraseFacts DEF EraseBody
  <1>4. ASSUME NEW t \in Threads, FreeBody(t) PROVE FALSE
    BY <1>4 DEF FreeBody
  <1> QED
    BY <1>1, <1>2, <1>3, <1>4
    DEF Next, vars, tableVars, Create, Call, Acquire, Look, Release, ReleaseFreed, Finish

(***************************************************************************)
(* In the step that replaces the buckets every key keeps its answer to     *)
(* lookup, when clients insert absent keys only. The run hash_stale shows  *)
(* that duplicates break it.                                               *)
(***************************************************************************)
THEOREM GrowthIsSafe == ASSUME ~Reinsert PROVE Spec => GrowthIsInvisible
  <1>1. TableInvariant /\ FreshInv /\ [Next]_vars
          => [life = "live" /\ life' = "live" /\ table'.capacity # table.capacity =>
                  \A k \in Keys : Lookup(table', k) = Lookup(table, k)]_vars
    BY GrowthStep
  <1> QED
    BY <1>1, FreshHolds, PTL DEF Spec, GrowthIsInvisible

-----------------------------------------------------------------------------
(* The keys that are in the table or on their way into it. *)
Coming == KeysIn(table) \cup {op[t].key : t \in {u \in Threads : Pending(u)}}

(* The size is exact, the table is never fuller than its buckets, and not     *)
(* full when an insert is about to store; the capacity is at most twice the   *)
(* number of keys, or the first one.                                          *)
SizeInv ==
    /\ IsFiniteSet(InFlight)
    /\ IsFiniteSet(Coming) /\ Cardinality(Coming) <= MaxNodes
    /\ table.size = Cardinality(KeysIn(table))
    /\ table.size <= table.capacity
    /\ \A t \in Threads : pc[t] = "rest" => table.size < table.capacity
    /\ table.capacity <= InitialCapacity + 2 * MaxNodes

(* A step that invokes nothing brings no key that was not on its way. *)
LEMMA ComingStep ==
    ASSUME ClientsInCalls, TableInv, IsFiniteSet(InFlight),
           IsFiniteSet(Coming), Cardinality(Coming) <= MaxNodes,
           NoInvocation, KeysIn(table') \subseteq Coming
    PROVE  /\ IsFiniteSet(InFlight')
           /\ IsFiniteSet(Coming') /\ Cardinality(Coming') <= MaxNodes
  <1>1. InFlight' \subseteq InFlight
    BY DEF InFlight, NoInvocation, NoCall
  <1>2. Coming' \subseteq Coming
    <2>1. ASSUME NEW t \in Threads, Pending(t)' PROVE op'[t].key \in Coming
      <3>1. Pending(t) /\ op'[t] = op[t]
        BY <2>1 DEF NoInvocation, Pending, NoCall
      <3> QED
        BY <3>1 DEF Coming
    <2> QED
      BY <2>1 DEF Coming
  <1>3. /\ Cardinality(Coming') \in Nat /\ Cardinality(Coming) \in Nat
        /\ Cardinality(Coming') <= Cardinality(Coming)
    BY <1>2, FS_Subset, FS_CardinalityType
  <1> QED
    BY <1>1, <1>2, <1>3, FS_Subset, HashTableAssumption

(* The clients' bound covers the keys that are on their way. *)
LEMMA ComingCall ==
    ASSUME ~Reinsert, ClientsInCalls, TableInv, IsFiniteSet(InFlight),
           IsFiniteSet(Coming), Cardinality(Coming) <= MaxNodes,
           NEW t \in Threads, NEW c \in Calls, Call(t, c)
    PROVE  /\ IsFiniteSet(InFlight')
           /\ IsFiniteSet(Coming') /\ Cardinality(Coming') <= MaxNodes
  <1>1. /\ op' = [op EXCEPT ![t] = c] /\ pc' = [pc EXCEPT ![t] = "lock"] /\ table' = table
        /\ c.name = "insert" => MayInsert(c)
        /\ pc[t] = "idle"
    BY DEF Call, Invoke, tableVars
  <1>2. /\ op'[t] = c /\ \A u \in Threads : u # t => op'[u] = op[u] /\ pc'[u] = pc[u]
        /\ op[t].name # "insert"
    BY <1>1 DEF ClientsInCalls, NoCall
  <1>3. CASE c.name # "insert"
    <2>1. InFlight' = InFlight
      BY <1>2, <1>3 DEF InFlight
    <2>2. Coming' = Coming
      BY <1>1, <1>2, <1>3 DEF Coming, Pending
    <2> QED
      BY <2>1, <2>2
  <1>4. CASE c.name = "insert"
    <2>1. InFlight' = InFlight \cup {c}
      BY <1>2, <1>4 DEF InFlight
    <2>2. Coming' \subseteq Coming \cup {c.key}
      <3>1. ASSUME NEW u \in Threads, Pending(u)' PROVE op'[u].key \in Coming \cup {c.key}
        <4>1. u # t => Pending(u) /\ op'[u] = op[u]
          BY <1>2, <3>1 DEF Pending
        <4> QED
          BY <1>2, <4>1 DEF Coming
      <3> QED
        BY <1>1, <3>1 DEF Coming
    <2> DEFINE K == {d.key : d \in InFlight}
    <2>3. IsFiniteSet(K) /\ Cardinality(K) <= Cardinality(InFlight)
      <3> DEFINE g == [d \in InFlight |-> d.key]
      <3>1. g \in Surjection(InFlight, K)
        <4>1. g \in [InFlight -> K] /\ \A x \in K : \E d \in InFlight : g[d] = x
          OBVIOUS
        <4> HIDE DEF g, K
        <4> QED
          BY <4>1 DEF Surjection
      <3> HIDE DEF g, K
      <3> QED
        BY <3>1, FS_Surjection
    <2>4. Coming \subseteq KeysIn(table) \cup K
      BY DEF Coming, Pending, InFlight
    <2> HIDE DEF K
    <2>5. PICK a \in Nat, b \in Nat, h \in Nat, l \in Nat :
              /\ a = Cardinality(KeysIn(table)) /\ IsFiniteSet(KeysIn(table))
              /\ b = Cardinality(K) /\ h = Cardinality(InFlight) /\ b <= h
              /\ l = Len(AllNodes(table)) /\ a <= l
              /\ l + h < MaxNodes
      <3>1. table \in Tables
        BY DEF TableInv
      <3>2. Len(AllNodes(table)) + Cardinality(InFlight) < MaxNodes
        BY <1>1, <1>4 DEF MayInsert
      <3> QED
        BY <2>3, <3>1, <3>2, AllNodesFacts, FS_CardinalityType
    <2>6. /\ IsFiniteSet(KeysIn(table) \cup K)
          /\ Cardinality(KeysIn(table) \cup K) <= a + b
      <3>1. /\ IsFiniteSet(KeysIn(table) \cup K)
            /\ Cardinality(KeysIn(table) \cup K) = a + b - Cardinality(KeysIn(table) \cap K)
        BY <2>3, <2>5, FS_Union
      <3>2. Cardinality(KeysIn(table) \cap K) \in Nat
        BY <2>3, FS_Intersection, FS_CardinalityType
      <3> QED
        BY <3>1, <3>2
    <2>7. PICK S : S = KeysIn(table) \cup K /\ IsFiniteSet(S) /\ Cardinality(S) \in Nat
      BY <2>6, FS_CardinalityType
    <2>8. IsFiniteSet(S \cup {c.key}) /\ Cardinality(S \cup {c.key}) <= Cardinality(S) + 1
      <3>1. IsFiniteSet(S \cup {c.key})
            /\ Cardinality(S \cup {c.key})
                 = IF c.key \in S THEN Cardinality(S) ELSE Cardinality(S) + 1
        BY <2>7, FS_AddElement
      <3> QED
        BY <2>7, <3>1
    <2>9. /\ IsFiniteSet(Coming') /\ Cardinality(Coming') <= Cardinality(S \cup {c.key})
          /\ Cardinality(Coming') \in Nat /\ Cardinality(S \cup {c.key}) \in Nat
      <3>1. Coming' \subseteq S \cup {c.key}
        BY <2>2, <2>4, <2>7
      <3> QED
        BY <2>8, <3>1, FS_Subset, FS_CardinalityType
    <2>10. Cardinality(Coming') <= MaxNodes
      <3>1. Cardinality(S) <= a + b /\ Cardinality(S) \in Nat /\ MaxNodes \in Nat
        BY <2>6, <2>7, HashTableAssumption
      <3>2. Cardinality(Coming') <= a + b + 1
        BY <2>8, <2>9, <3>1
      <3>3. a + b + 1 <= MaxNodes
        BY <2>5, <3>1
      <3> QED
        BY <2>9, <3>1, <3>2, <3>3
    <2>11. IsFiniteSet(InFlight')
      BY <2>1, FS_AddElement
    <2> QED
      BY <2>9, <2>10, <2>11
  <1> QED
    BY <1>3, <1>4

(* Every step counts the keys it adds or takes, and no size_t wraps. *)
LEMMA SizeStep ==
    ASSUME ~Reinsert, MaxNodes < SizeModulus
    PROVE  TableInvariant /\ FreshInv /\ SizeInv /\ [Next]_vars => SizeInv'
  <1> SUFFICES ASSUME TableInvariant, FreshInv, SizeInv, [Next]_vars PROVE SizeInv'
    OBVIOUS
  <1>c. ClientsInCalls /\ HolderIsCritical /\ TableInv
    BY DEF TableInvariant
  <1>t. table \in Tables /\ Placed(table) /\ OneEach(table)
    BY DEF TableInvariant, TableInv, FreshInv, TableFresh
  <1>k. PICK k \in Nat :
            /\ k = Cardinality(KeysIn(table)) /\ IsFiniteSet(KeysIn(table))
            /\ k = table.size /\ k <= MaxNodes
    <2>1. KeysIn(table) \subseteq Coming
      BY DEF Coming
    <2>2. /\ IsFiniteSet(KeysIn(table)) /\ Cardinality(KeysIn(table)) \in Nat
          /\ Cardinality(Coming) \in Nat
          /\ Cardinality(KeysIn(table)) <= Cardinality(Coming)
      BY <2>1, FS_Subset, FS_CardinalityType DEF SizeInv
    <2> QED
      BY <2>2, HashTableAssumption DEF SizeInv
  <1>n. table.capacity \in Nat \ {0} /\ MaxNodes \in Nat /\ SizeModulus \in Nat \ {0}
        /\ InitialCapacity \in Nat \ {0}
    BY <1>t, TableFacts, HashTableAssumption, ChainedTableAssumption
  <1>1. CASE /\ NoInvocation /\ UNCHANGED table
             /\ \A t \in Threads : pc'[t] = "rest" => pc[t] = "rest"
    <2>1. KeysIn(table') \subseteq Coming
      BY <1>1 DEF Coming
    <2>2. /\ IsFiniteSet(InFlight')
          /\ IsFiniteSet(Coming') /\ Cardinality(Coming') <= MaxNodes
      BY <1>1, <1>c, <2>1, ComingStep DEF SizeInv
    <2> QED
      BY <1>1, <2>2 DEF SizeInv
  <1>2. ASSUME NEW t \in Threads, NEW c \in Calls, Call(t, c) PROVE SizeInv'
    <2>1. /\ IsFiniteSet(InFlight')
          /\ IsFiniteSet(Coming') /\ Cardinality(Coming') <= MaxNodes
      BY <1>2, <1>c, ComingCall DEF SizeInv
    <2>2. table' = table /\ \A u \in Threads : pc'[u] = "rest" => pc[u] = "rest"
      BY <1>2, <1>c DEF Call, Invoke, tableVars, ClientsInCalls
    <2> QED
      BY <2>1, <2>2 DEF SizeInv
  <1> SUFFICES ASSUME NoInvocation PROVE SizeInv'
    BY <1>2, <1>c, StepInvokes
  <1>3. CASE table' = NewTable(InitialCapacity) /\ \A t \in Threads : pc'[t] # "rest"
    <2>1. table'.size = 0 /\ table'.capacity = InitialCapacity /\ Held(table') = {}
      BY <1>3, NewTableFacts, HashTableAssumption
    <2>2. KeysIn(table') = {} /\ Cardinality(KeysIn(table')) = 0
      BY <2>1, FS_EmptySet DEF KeysIn
    <2>3. /\ IsFiniteSet(InFlight')
          /\ IsFiniteSet(Coming') /\ Cardinality(Coming') <= MaxNodes
      BY <1>c, <2>2, ComingStep DEF SizeInv
    <2> QED
      BY <1>3, <1>n, <2>1, <2>2, <2>3 DEF SizeInv
  <1>4. ASSUME NEW t \in Threads, InsertGrow(t) PROVE SizeInv'
    <2>1. table' = Grow(table) /\ pc[t] = "body" /\ pc' = [pc EXCEPT ![t] = "rest"]
      BY <1>4 DEF InsertGrow, InBody, Proceed
    <2>2. /\ Keeps(table, table')
          /\ Counted(table) => Counted(table')
          /\ ~IsLoaded(table) => table' = table
          /\ IsLoaded(table) /\ k <= table.capacity /\ table.capacity < SizeModulus
              => table'.capacity = 2 * table.capacity
      BY <1>k, <1>t, <2>1, GrowFacts
    <2>3. KeysIn(table') = KeysIn(table)
      BY <2>2 DEF Keeps
    <2>4. table'.size = k /\ Cardinality(KeysIn(table')) = k
      <3>1. Counted(table)
        BY <1>k DEF Counted
      <3>2. k < SizeModulus
        BY <1>k, <1>n
      <3> QED
        BY <1>k, <2>2, <2>3, <3>1, <3>2 DEF Counted
    <2>5. k < table'.capacity /\ table'.capacity <= InitialCapacity + 2 * MaxNodes
      <3>1. CASE IsLoaded(table)
        <4>1. k = table.capacity
          BY <1>k, <3>1 DEF IsLoaded
        <4> QED
          BY <1>k, <1>n, <2>2, <3>1, <4>1
      <3>2. CASE ~IsLoaded(table)
        <4>1. k # table.capacity /\ k <= table.capacity
          BY <1>k, <3>2 DEF IsLoaded, SizeInv
        <4> QED
          BY <1>k, <1>n, <2>2, <3>2, <4>1 DEF SizeInv
      <3> QED
        BY <3>1, <3>2
    <2>6. /\ IsFiniteSet(InFlight')
          /\ IsFiniteSet(Coming') /\ Cardinality(Coming') <= MaxNodes
      BY <1>c, <2>3, ComingStep DEF SizeInv, Coming
    <2>7. k <= table'.capacity
      <3>1. table'.capacity \in Nat
        BY <2>2, TableFacts DEF Keeps
      <3> QED
        BY <2>5, <3>1
    <2> QED
      BY <2>4, <2>5, <2>6, <2>7 DEF SizeInv
  <1>5. ASSUME NEW t \in Threads, InsertStore(t) PROVE SizeInv'
    <2>1. /\ op[t].key \in Keys /\ op[t].data \in Elements
          /\ pc[t] = "rest" /\ op[t].name = "insert"
          /\ table' = Store(table, op[t].key, op[t].data)
          /\ pc' = [pc EXCEPT ![t] = "unlock"]
      BY <1>5, <1>c, BodyFacts DEF InsertStore, Proceed
    <2>2. PICK x \in Keys, d \in Elements : x = op[t].key /\ d = op[t].data
      BY <2>1
    <2>3. x \notin KeysIn(table) /\ x \in Coming
      BY <2>1, <2>2 DEF FreshInv, PendingFresh, Pending, Coming
    <2>4. /\ table'.capacity = table.capacity
          /\ table'.size = (k + 1) % SizeModulus
          /\ KeysIn(table') = KeysIn(table) \cup {x}
      BY <1>k, <1>t, <2>1, <2>2, <2>3, StoreFacts
    <2>5. Cardinality(KeysIn(table')) = k + 1
      BY <1>k, <2>3, <2>4, FS_AddElement
    <2>6. KeysIn(table') \subseteq Coming
      BY <2>3, <2>4 DEF Coming
    <2>7. k + 1 <= MaxNodes
      BY <2>5, <2>6, <1>n, FS_Subset, FS_CardinalityType DEF SizeInv
    <2>8. table'.size = k + 1
      <3>1. k + 1 \in 0..(SizeModulus - 1)
        BY <1>n, <2>7
      <3> QED
        BY <1>n, <2>4, <3>1
    <2>9. /\ IsFiniteSet(InFlight')
          /\ IsFiniteSet(Coming') /\ Cardinality(Coming') <= MaxNodes
      BY <1>c, <2>6, ComingStep DEF SizeInv
    <2>10. k < table.capacity
      BY <1>k, <2>1 DEF SizeInv
    <2>11. \A u \in Threads : pc'[u] # "rest"
      <3>1. mtx = t
        BY <1>c, <2>1 DEF HolderIsCritical, Critical
      <3>2. \A u \in Threads : u # t => pc[u] # "rest"
        BY <1>c, <3>1 DEF HolderIsCritical, Critical
      <3> QED
        BY <1>c, <2>1, <3>2 DEF ClientsInCalls
    <2>12. k + 1 <= table'.capacity /\ table'.capacity <= InitialCapacity + 2 * MaxNodes
      BY <1>n, <2>4, <2>10 DEF SizeInv
    <2> QED
      BY <2>5, <2>8, <2>9, <2>11, <2>12 DEF SizeInv
  <1>6. ASSUME NEW t \in Threads, EraseBody(t) PROVE SizeInv'
    <2>1. op[t].key \in Keys
      BY <1>6, <1>c, BodyFacts DEF EraseBody, InBody, KeyNames
    <2>2. PICK x \in Keys : x = op[t].key
      BY <2>1
    <2>3. /\ table' = Erase(table, x)
          /\ pc' = [pc EXCEPT ![t] = "unlock"] /\ pc[t] = "body"
      BY <1>6, <2>2 DEF EraseBody, Answer, InBody
    <2>4. /\ table' \in Tables /\ table'.capacity = table.capacity
          /\ table'.size = IF x \in KeysIn(table) THEN (k - 1) % SizeModulus ELSE k
          /\ Held(table') \subseteq Held(table)
          /\ \A n \in Held(table) : n.key # x => n \in Held(table')
          /\ x \notin KeysIn(table')
      BY <1>k, <1>t, <2>3, EraseFacts
    <2>5. KeysIn(table') = KeysIn(table) \ {x}
      BY <2>4 DEF KeysIn
    <2>6. table'.size = Cardinality(KeysIn(table')) /\ table'.size \in Nat /\ table'.size <= k
      <3>1. CASE x \in KeysIn(table)
        <4>1. Cardinality(KeysIn(table')) = k - 1 /\ k - 1 \in Nat
          <5>1. Cardinality(KeysIn(table')) = k - 1
            <6>1. Cardinality(KeysIn(table) \ {x}) = Cardinality(KeysIn(table)) - 1
              BY <1>k, <3>1, FS_RemoveElement
            <6> QED
              BY <1>k, <2>5, <6>1
          <5>2. Cardinality(KeysIn(table')) \in Nat
            BY <2>4, AllNodesFacts, FS_CardinalityType
          <5> QED
            BY <5>1, <5>2
        <4>2. k - 1 \in 0..(SizeModulus - 1)
          BY <1>k, <1>n, <4>1
        <4> QED
          BY <1>n, <2>4, <3>1, <4>1, <4>2
      <3>2. CASE x \notin KeysIn(table)
        <4>1. KeysIn(table') = KeysIn(table)
          BY <2>5, <3>2
        <4>2. table'.size = k
          BY <2>4, <3>2
        <4>3. Cardinality(KeysIn(table')) = k
          BY <1>k, <4>1
        <4> QED
          BY <1>k, <4>2, <4>3
      <3> QED
        BY <3>1, <3>2
    <2>7. \A u \in Threads : pc'[u] # "rest"
      <3>1. mtx = t
        BY <1>c, <2>3 DEF HolderIsCritical, Critical
      <3>2. \A u \in Threads : pc[u] # "rest"
        BY <1>c, <2>3, <3>1 DEF HolderIsCritical, Critical
      <3> QED
        BY <1>c, <2>3, <3>2 DEF ClientsInCalls
    <2>8. /\ IsFiniteSet(InFlight')
          /\ IsFiniteSet(Coming') /\ Cardinality(Coming') <= MaxNodes
      <3>1. KeysIn(table') \subseteq Coming
        BY <2>5 DEF Coming
      <3> QED
        BY <1>c, <3>1, ComingStep DEF SizeInv
    <2>9. table'.size <= table'.capacity /\ table'.capacity <= InitialCapacity + 2 * MaxNodes
      BY <1>k, <1>n, <2>4, <2>6 DEF SizeInv
    <2> QED
      BY <2>6, <2>7, <2>8, <2>9 DEF SizeInv
  <1>7. ASSUME NEW t \in Threads, FreeBody(t) PROVE SizeInv'
    <2>1. CASE UNCHANGED <<table, pc>>
      BY <1>1, <2>1
    <2>2. CASE table' = NewTable(InitialCapacity) /\ pc' = [pc EXCEPT ![t] = "unlock"]
      <3>1. pc[t] = "body"
        BY <1>7 DEF FreeBody
      <3>2. \A u \in Threads : pc'[u] # "rest"
        BY <1>c, <2>2, <3>1 DEF HolderIsCritical, Critical, ClientsInCalls
      <3> QED
        BY <1>3, <2>2, <3>2
    <2> QED
      BY <1>7, <2>1, <2>2 DEF FreeBody, Answer, callVars
  <1>8. CASE Create
    BY <1>3, <1>8, <1>c DEF Create, AllIdle, ClientsInCalls
  <1>9. ASSUME NEW t \in Threads, NEW p \in {"body", "unlock", "return", "idle"},
               pc' = [pc EXCEPT ![t] = p], table' = table
        PROVE  SizeInv'
    BY <1>1, <1>9, <1>c DEF ClientsInCalls
  <1> QED
    BY <1>1, <1>3, <1>4, <1>5, <1>6, <1>7, <1>8, <1>9, <1>c, <1>2
    DEF Next, vars, callVars, tableVars, Acquire, Lock, Look, Answer, Release, ReleaseFreed, Unlock,
        Finish, Return

(* A new table counts no keys. *)
LEMMA SizeInit == Init => SizeInv
  <1> SUFFICES ASSUME Init PROVE SizeInv
    OBVIOUS
  <1>1. table.size = 0 /\ table.capacity = InitialCapacity /\ Held(table) = {}
    BY NewTableFacts, HashTableAssumption DEF Init
  <1>2. KeysIn(table) = {}
    BY <1>1 DEF KeysIn
  <1>3. \A t \in Threads : pc[t] = "idle" /\ op[t].name # "insert"
    BY DEF Init, ClientsInit, NoCall
  <1>4. InFlight = {} /\ Coming = {}
    BY <1>2, <1>3 DEF InFlight, Coming, Pending
  <1> QED
    BY <1>1, <1>2, <1>3, <1>4, FS_EmptySet, HashTableAssumption DEF SizeInv

(***************************************************************************)
(* With absent keys only, and fewer of them than a size_t can count, size  *)
(* is the number of keys and at most the number of buckets: growths come   *)
(* in time, and one at a time.                                             *)
(***************************************************************************)
THEOREM SizeHolds ==
    ASSUME ~Reinsert, MaxNodes < SizeModulus
    PROVE  Spec => [](TableInvariant /\ FreshInv /\ SizeInv)
  <1>1. Init => TableInvariant /\ FreshInv /\ SizeInv
    BY TableInit, FreshInit, SizeInit DEF TableInvariant
  <1>2. (TableInvariant /\ FreshInv /\ SizeInv) /\ [Next]_vars
            => (TableInvariant /\ FreshInv /\ SizeInv)'
    BY ClientsStep, TableStep, FreshStep, SizeStep DEF TableInvariant
  <1> QED
    BY <1>1, <1>2, PTL DEF Spec

-----------------------------------------------------------------------------
(* A call has no answer before it takes effect. *)
NoAnswerYet == \A t \in Threads : pc[t] \in {"idle", "lock", "body", "rest"} => ret[t] = Null

(* return_value is set in the step in which a call takes effect. *)
LEMMA NoAnswerStep ==
    ClientsInCalls /\ TableInv /\ NoAnswerYet /\ [Next]_vars => NoAnswerYet'
  <1> SUFFICES ASSUME ClientsInCalls, TableInv, NoAnswerYet, [Next]_vars PROVE NoAnswerYet'
    OBVIOUS
  <1> USE DEF NoAnswerYet, ClientsInCalls, TableInv
  <1>1. CASE UNCHANGED <<pc, ret>>
    BY <1>1
  <1>2. ASSUME NEW t \in Threads, NEW p, pc' = [pc EXCEPT ![t] = p], ret' = ret,
               pc[t] \in {"idle", "lock", "body", "rest"}
        PROVE  NoAnswerYet'
    BY <1>2
  <1>3. ASSUME NEW t \in Threads, NEW v, Answer(t, v, "unlock") PROVE NoAnswerYet'
    BY <1>3 DEF Answer
  <1>4. ASSUME NEW t \in Threads, Unlock(t) PROVE NoAnswerYet'
    BY <1>4 DEF Unlock
  <1>5. ASSUME NEW t \in Threads, Return(t) PROVE NoAnswerYet'
    BY <1>5 DEF Return
  <1>6. ASSUME NEW t \in Threads, FreeBody(t) PROVE NoAnswerYet'
    <2>1. UNCHANGED callVars \/ Answer(t, Null, "unlock")
      BY <1>6 DEF FreeBody
    <2> QED
      BY <1>1, <1>3, <2>1 DEF callVars
  <1>7. ASSUME NEW t \in Threads, EraseBody(t) PROVE NoAnswerYet'
    BY <1>3, <1>7 DEF EraseBody
  <1>8. ASSUME NEW t \in Threads, InsertGrow(t) \/ InsertStore(t) PROVE NoAnswerYet'
    BY <1>2, <1>8 DEF InsertGrow, InsertStore, Proceed, InBody
  <1>9. ASSUME NEW t \in Threads, NEW c \in Calls, Call(t, c) PROVE NoAnswerYet'
    BY <1>2, <1>9 DEF Call, Invoke
  <1>10. ASSUME NEW t \in Threads, Acquire(t) PROVE NoAnswerYet'
    BY <1>2, <1>10 DEF Acquire, Lock
  <1>11. ASSUME NEW t \in Threads, Look(t) PROVE NoAnswerYet'
    BY <1>3, <1>11 DEF Look
  <1> QED
    BY <1>1, <1>4, <1>5, <1>6, <1>7, <1>8, <1>9, <1>10, <1>11
    DEF Next, vars, callVars, Create, Release, ReleaseFreed, Finish

(* The state of AtomicMap. *)
Map == [k \in Keys |-> Lookup(table, k)]

(* The phase of a thread, by its place. *)
PhaseAt(p) ==
    CASE p = "idle" -> "idle"
      [] p \in {"lock", "body", "rest"} -> "called"
      [] OTHER -> "done"

(* A thread that moves to place p moves its phase alone. *)
LEMMA PhaseMoves ==
    ASSUME ClientsInCalls, NEW t \in Threads, NEW p, pc' = [pc EXCEPT ![t] = p]
    PROVE  /\ Phase[t] = PhaseAt(pc[t])
           /\ Phase' = [Phase EXCEPT ![t] = PhaseAt(p)]
  BY DEF Phase, PhaseAt, ClientsInCalls

(* If the phase of the place is the one the thread has, the phases stay. *)
LEMMA PhaseStays ==
    ASSUME ClientsInCalls, NEW t \in Threads, NEW p, pc' = [pc EXCEPT ![t] = p],
           PhaseAt(p) = PhaseAt(pc[t])
    PROVE  Phase' = Phase
  BY DEF Phase, PhaseAt, ClientsInCalls

(* The body of a call is where it takes effect. *)
LEMMA PhaseDone ==
    ASSUME ClientsInCalls, NEW t \in Threads, pc[t] \in {"body", "rest"},
           pc' = [pc EXCEPT ![t] = "unlock"]
    PROVE  Phase[t] = "called" /\ Phase' = [Phase EXCEPT ![t] = "done"]
  BY DEF Phase, ClientsInCalls

(* Phases follow the places alone. *)
LEMMA PhaseUnchanged == ASSUME UNCHANGED pc PROVE Phase' = Phase
  BY DEF Phase

(* The keys of the abstract map are those of the table's nodes. *)
LEMMA PresentFacts ==
    ASSUME TableInv, NEW k \in Keys
    PROVE  /\ HasKey(table, k) <=> k \in AM!Present
           /\ Map[k] = Lookup(table, k)
           /\ AM!Present = KeysIn(table)
  <1>t. table \in Tables /\ Placed(table)
    BY DEF TableInv
  <1>1. \A x \in Keys : x \in AM!Present <=> Lookup(table, x) # Null
    BY DEF AM!Present
  <1>2. \A x \in Keys : HasKey(table, x) <=> x \in KeysIn(table)
    BY <1>t, LookupFacts
  <1>3. \A x \in Keys : HasKey(table, x) <=> Lookup(table, x) # Null
    BY <1>t, LookupType
  <1>4. KeysIn(table) \subseteq Keys
    BY <1>t, HeldFacts DEF Nodes
  <1>5. AM!Present \subseteq Keys
    BY DEF AM!Present
  <1> QED
    BY <1>1, <1>2, <1>3, <1>4, <1>5 DEF Map

(* The instance's Cardinality is the one of this module. *)
LEMMA SameCardinality == \A S : AM!Cardinality(S) = Cardinality(S)
  BY DEF AM!Cardinality, Cardinality

(* A new table is an empty map. *)
LEMMA NewMapIsEmpty ==
    ASSUME NEW k \in Keys
    PROVE  Lookup(NewTable(InitialCapacity), k) = Null
  <1>1. /\ NewTable(InitialCapacity) \in Tables /\ Placed(NewTable(InitialCapacity))
        /\ KeysIn(NewTable(InitialCapacity)) = {}
    BY NewTableFacts, HashTableAssumption DEF KeysIn
  <1> QED
    BY <1>1, LookupFacts

(* The initial states are those of AtomicMap. *)
LEMMA MapInit == Init => AM!Init
  <1> SUFFICES ASSUME Init PROVE AM!Init
    OBVIOUS
  <1>1. Phase = [t \in Threads |-> "idle"]
    BY DEF Init, ClientsInit, Phase
  <1>2. Map = [k \in Keys |-> Null]
    BY NewMapIsEmpty DEF Init, Map
  <1> QED
    BY <1>1, <1>2 DEF Init, ClientsInit, Map, AM!Init, AM!EmptyMap, AM!NoRequest, NoCall

(* Every step is a step of AtomicMap or a stutter: an insert takes effect at  *)
(* its store, the other calls in their body, and a growth is a stutter.       *)
LEMMA MapStep ==
    ASSUME ~Reinsert, MaxNodes < SizeModulus
    PROVE  TableInvariant /\ FreshInv /\ SizeInv /\ NoAnswerYet /\ [Next]_vars
               => [AM!Next]_(AM!vars)
  <1> SUFFICES ASSUME TableInvariant, FreshInv, SizeInv, NoAnswerYet, [Next]_vars
               PROVE  AM!Next \/ UNCHANGED AM!vars
    OBVIOUS
  <1> DEFINE Exists == life \notin {"none", "freed", "exited"}
  <1>c. ClientsInCalls /\ TableInv
    BY DEF TableInvariant
  <1>t. table \in Tables /\ Placed(table) /\ OneEach(table)
    BY DEF TableInvariant, TableInv, FreshInv, TableFresh
  <1>s. ASSUME Map' = Map, Exists' = Exists, Phase' = Phase, UNCHANGED <<op, ret>>
        PROVE  UNCHANGED AM!vars
    BY <1>s DEF AM!vars, Map
  <1>1. CASE Create
    <2>1. Map' = [k \in Keys |-> Null]
      BY <1>1, NewMapIsEmpty DEF Create, Map
    <2>2. ~Exists /\ Exists' /\ Phase' = Phase /\ \A t \in Threads : Phase[t] = "idle"
      BY <1>1, PhaseUnchanged DEF Create, AllIdle, Phase
    <2>3. AM!Create
      BY <1>1, <2>1, <2>2 DEF AM!Create, AM!EmptyMap, Map, Create
    <2> QED
      BY <2>3 DEF AM!Next
  <1>2. ASSUME NEW t \in Threads, NEW c \in Calls, Call(t, c) PROVE AM!Next
    <2>1. /\ Phase[t] = "idle" /\ Phase' = [Phase EXCEPT ![t] = "called"]
          /\ op' = [op EXCEPT ![t] = c] /\ ret' = ret
          /\ Exists /\ UNCHANGED <<life, table>>
      BY <1>2, <1>c, PhaseMoves DEF Call, Invoke, PhaseAt, tableVars
    <2>2. c \in AM!Requests
      BY DEF AM!Requests, Calls, AM!KeyNames, KeyNames
    <2>3. AM!Call(t, c)
      BY <2>1 DEF AM!Call
    <2> QED
      BY <2>2, <2>3 DEF AM!Next
  <1>3. ASSUME NEW t \in Threads, Acquire(t) PROVE UNCHANGED AM!vars
    <2>1. Phase' = Phase
      BY <1>3, <1>c, PhaseStays DEF Acquire, Lock, PhaseAt
    <2> QED
      BY <1>3, <1>s, <2>1 DEF Acquire, Lock, tableVars, Map
  <1>4. ASSUME NEW t \in Threads, InsertGrow(t) PROVE UNCHANGED AM!vars
    <2>1. Phase' = Phase
      BY <1>4, <1>c, PhaseStays DEF InsertGrow, InBody, Proceed, PhaseAt
    <2>2. Keeps(table, table')
      BY <1>4, <1>t, GrowFacts DEF InsertGrow
    <2>3. \A k \in Keys : Lookup(table', k) = Lookup(table, k)
      BY <1>t, <2>2, SameNodesSameAnswers DEF Keeps
    <2>4. Map' = Map
      BY <2>3 DEF Map
    <2> QED
      BY <1>4, <1>s, <2>1, <2>4 DEF InsertGrow, Proceed
  <1>5. ASSUME NEW t \in Threads, InsertStore(t) PROVE AM!Next
    <2>1. /\ op[t].key \in Keys /\ op[t].data \in Elements
          /\ pc[t] = "rest" /\ op[t].name = "insert"
          /\ table' = Store(table, op[t].key, op[t].data)
          /\ pc' = [pc EXCEPT ![t] = "unlock"] /\ UNCHANGED <<op, ret, life>>
      BY <1>5, <1>c, BodyFacts DEF InsertStore, Proceed
    <2>2. PICK x \in Keys, d \in Elements : x = op[t].key /\ d = op[t].data
      BY <2>1
    <2>3. x \notin KeysIn(table)
      BY <2>1, <2>2 DEF FreshInv, PendingFresh, Pending
    <2>4. PICK new : new = [key |-> x, data |-> d]
      OBVIOUS
    <2>5. /\ table' \in Tables /\ Placed(table') /\ OneEach(table')
          /\ Held(table') = Held(table) \cup {new}
          /\ new.key = x /\ new.data = d
      BY <1>t, <2>1, <2>2, <2>3, <2>4, StoreFacts
    <2>6. ASSUME NEW k \in Keys PROVE Lookup(table', k) = IF k = x THEN d ELSE Lookup(table, k)
      <3>1. CASE k = x
        BY <2>5, <3>1, OneEachFacts
      <3>2. CASE k # x /\ HasKey(table, k)
        <4>1. PICK n \in Held(table) : n.key = k /\ Lookup(table, k) = n.data
          BY <1>t, <3>2, LookupFacts
        <4> QED
          BY <2>5, <3>2, <4>1, OneEachFacts
      <3>3. CASE k # x /\ ~HasKey(table, k)
        <4>1. k \notin KeysIn(table) /\ Lookup(table, k) = Null
          BY <1>t, <3>3, LookupFacts
        <4>2. k \notin KeysIn(table')
          BY <2>5, <3>3, <4>1 DEF KeysIn
        <4> QED
          BY <2>5, <3>3, <4>1, <4>2, LookupFacts
      <3> QED
        BY <3>1, <3>2, <3>3
    <2>7. Map' = [Map EXCEPT ![x] = d]
      BY <2>6 DEF Map
    <2>8. Phase[t] = "called" /\ Phase' = [Phase EXCEPT ![t] = "done"]
      BY <1>c, <2>1, PhaseDone
    <2>9. ret' = [ret EXCEPT ![t] = Null]
      <3>1. ret[t] = Null
        BY <2>1 DEF NoAnswerYet
      <3> QED
        BY <1>c, <2>1, <3>1 DEF TableInv
    <2>10. AM!TakesEffect(t, {"insert"}, Null)
      BY <2>1, <2>8, <2>9 DEF AM!TakesEffect
    <2>11. AM!Insert(t)
      BY <2>1, <2>2, <2>7, <2>10 DEF AM!Insert, Map
    <2> QED
      BY <2>11 DEF AM!Next
  <1>6. ASSUME NEW t \in Threads, EraseBody(t) PROVE AM!Next
    <2>1. op[t].key \in Keys /\ op[t].name \in {"erase", "deep_erase"}
      BY <1>6, <1>c, BodyFacts DEF EraseBody, InBody, KeyNames
    <2>2. PICK x \in Keys : x = op[t].key
      BY <2>1
    <2>3. /\ table' = Erase(table, x) /\ UNCHANGED <<life, op>> /\ pc[t] = "body"
          /\ pc' = [pc EXCEPT ![t] = "unlock"]
          /\ ret' = [ret EXCEPT ![t] = IF HasKey(table, x) THEN CTrue ELSE CFalse]
      BY <1>6, <2>2 DEF EraseBody, Answer, InBody
    <2>4. /\ table' \in Tables /\ Placed(table') /\ OneEach(table')
          /\ Held(table') \subseteq Held(table)
          /\ \A n \in Held(table) : n.key # x => n \in Held(table')
          /\ x \notin KeysIn(table')
      BY <1>t, <2>3, EraseFacts
    <2>5. ASSUME NEW k \in Keys PROVE Lookup(table', k) = IF k = x THEN Null ELSE Lookup(table, k)
      <3>1. CASE k = x
        BY <2>4, <3>1, LookupFacts
      <3>2. CASE k # x /\ HasKey(table, k)
        <4>1. PICK n \in Held(table) : n.key = k /\ Lookup(table, k) = n.data
          BY <1>t, <3>2, LookupFacts
        <4> QED
          BY <2>4, <3>2, <4>1, OneEachFacts
      <3>3. CASE k # x /\ ~HasKey(table, k)
        <4>1. k \notin KeysIn(table) /\ Lookup(table, k) = Null
          BY <1>t, <3>3, LookupFacts
        <4>2. k \notin KeysIn(table')
          BY <2>4, <4>1 DEF KeysIn
        <4> QED
          BY <2>4, <3>3, <4>1, <4>2, LookupFacts
      <3> QED
        BY <3>1, <3>2, <3>3
    <2>6. Map' = [Map EXCEPT ![x] = Null]
      BY <2>5 DEF Map
    <2>7. Phase[t] = "called" /\ Phase' = [Phase EXCEPT ![t] = "done"]
      BY <1>c, <2>3, PhaseDone
    <2>8. HasKey(table, x) <=> x \in AM!Present
      BY <1>c, PresentFacts
    <2>9. AM!TakesEffect(t, {"erase", "deep_erase"}, IF x \in AM!Present THEN CTrue ELSE CFalse)
      BY <2>1, <2>3, <2>7, <2>8 DEF AM!TakesEffect
    <2>10. AM!Erase(t)
      BY <2>2, <2>3, <2>6, <2>9 DEF AM!Erase, Map, AM!CTrue, AM!CFalse, CTrue, CFalse
    <2> QED
      BY <2>10 DEF AM!Next
  <1>7. ASSUME NEW t \in Threads, Look(t) PROVE AM!Next
    <2>1. /\ UNCHANGED <<life, table, op>> /\ pc[t] = "body" /\ op[t].name \in LookNames
          /\ pc' = [pc EXCEPT ![t] = "unlock"]
          /\ ret' = [ret EXCEPT ![t] = Seen(op[t])]
      BY <1>7 DEF Look, Answer, tableVars
    <2>2. Phase[t] = "called" /\ Phase' = [Phase EXCEPT ![t] = "done"]
      BY <1>c, <2>1, PhaseDone
    <2>3. ASSUME NEW v, v = Seen(op[t]) PROVE AM!TakesEffect(t, {op[t].name}, v)
      BY <2>1, <2>2, <2>3 DEF AM!TakesEffect
    <2>4. UNCHANGED <<Map, Exists>>
      BY <2>1 DEF Map
    <2>5. CASE op[t].name \in {"lookup", "contains"}
      <3>1. op[t].key \in Keys
        BY <1>c, <2>1, <2>5, BodyFacts DEF KeyNames
      <3>2. /\ HasKey(table, op[t].key) <=> op[t].key \in AM!Present
            /\ Map[op[t].key] = Lookup(table, op[t].key)
        BY <1>c, <3>1, PresentFacts
      <3>3. CASE op[t].name = "lookup"
        <4>1. Seen(op[t]) = Map[op[t].key]
          BY <3>2, <3>3 DEF Seen
        <4>2. AM!TakesEffect(t, {"lookup"}, Map[op[t].key])
          BY <2>3, <3>3, <4>1
        <4>3. AM!Look(t)
          BY <2>4, <4>2 DEF AM!Look, Map
        <4> QED
          BY <4>3 DEF AM!Next
      <3>4. CASE op[t].name = "contains"
        <4>1. Seen(op[t]) = IF op[t].key \in AM!Present THEN CTrue ELSE CFalse
          BY <3>2, <3>4 DEF Seen
        <4>2. AM!TakesEffect(t, {"contains"}, IF op[t].key \in AM!Present THEN CTrue ELSE CFalse)
          BY <2>3, <3>4, <4>1
        <4>3. AM!Look(t)
          BY <2>4, <4>2 DEF AM!Look, Map, AM!CTrue, AM!CFalse, CTrue, CFalse
        <4> QED
          BY <4>3 DEF AM!Next
      <3> QED
        BY <2>5, <3>3, <3>4
    <2>6. AM!Present = KeysIn(table)
      <3>1. CASE Keys = {}
        <4>1. KeysIn(table) = {}
          BY <1>t, <3>1, HeldFacts DEF Nodes
        <4> QED
          BY <3>1, <4>1 DEF AM!Present
      <3>2. CASE Keys # {}
        BY <1>c, <3>2, PresentFacts
      <3> QED
        BY <3>1, <3>2
    <2>7. table.size = Cardinality(AM!Present)
      BY <2>6 DEF SizeInv
    <2>8. CASE op[t].name = "size"
      <3>1. AM!TakesEffect(t, {"size"}, Cardinality(AM!Present))
        BY <2>3, <2>7, <2>8 DEF Seen
      <3>2. AM!Look(t)
        BY <2>4, <3>1, SameCardinality DEF AM!Look, Map
      <3> QED
        BY <3>2 DEF AM!Next
    <2>9. CASE op[t].name = "empty"
      <3>1. table.size = 0 <=> AM!Present = {}
        BY <1>t, <2>6, <2>7, AllNodesFacts, FS_EmptySet
      <3>2. AM!TakesEffect(t, {"empty"}, IF AM!Present = {} THEN CTrue ELSE CFalse)
        BY <2>3, <2>9, <3>1 DEF Seen
      <3>3. AM!Look(t)
        BY <2>4, <3>2 DEF AM!Look, Map, AM!CTrue, AM!CFalse, CTrue, CFalse
      <3> QED
        BY <3>3 DEF AM!Next
    <2>10. CASE op[t].name = "bucket_size"
      <3>1. table.capacity \in 1..(InitialCapacity + 2 * MaxNodes)
        BY <1>t, TableFacts, HashTableAssumption DEF SizeInv
      <3>2. AM!TakesEffect(t, {"bucket_size"}, table.capacity)
        BY <2>3, <2>10 DEF Seen
      <3>3. \E n \in 1..(InitialCapacity + 2 * MaxNodes) : AM!TakesEffect(t, {"bucket_size"}, n)
        BY <3>1, <3>2, Zenon
      <3>4. AM!Look(t)
        BY <2>4, <3>3, Zenon DEF AM!Look, Map
      <3> QED
        BY <3>4 DEF AM!Next
    <2> QED
      BY <2>1, <2>5, <2>8, <2>9, <2>10 DEF LookNames
  <1>8. ASSUME NEW t \in Threads, FreeBody(t) PROVE AM!Next \/ UNCHANGED AM!vars
    <2>1. pc[t] = "body" /\ life = "live" /\ op[t].name \in FreeNames
      BY <1>8 DEF FreeBody
    <2>2. CASE life' \in {"badIndex", "badFree"} /\ UNCHANGED <<callVars, table>>
      BY <1>s, <2>1, <2>2, PhaseUnchanged DEF callVars, Map
    <2>3. CASE life' = "freed" /\ table' = NewTable(InitialCapacity) /\ Answer(t, Null, "unlock")
      <3>1. Map' = [k \in Keys |-> Null]
        BY <2>3, NewMapIsEmpty DEF Map
      <3>2. Phase[t] = "called" /\ Phase' = [Phase EXCEPT ![t] = "done"]
        BY <1>c, <2>1, <2>3, PhaseDone DEF Answer
      <3>3. AM!TakesEffect(t, {"free", "deep_free"}, Null)
        BY <2>1, <2>3, <3>2 DEF AM!TakesEffect, Answer, FreeNames
      <3>4. AM!Free(t)
        BY <2>3, <3>1, <3>3 DEF AM!Free, AM!EmptyMap, Map
      <3> QED
        BY <3>4 DEF AM!Next
    <2> QED
      BY <1>8, <2>2, <2>3 DEF FreeBody
  <1>9. ASSUME NEW t \in Threads, Unlock(t), UNCHANGED <<life, table>> PROVE UNCHANGED AM!vars
    <2>1. Phase' = Phase
      BY <1>9, <1>c, PhaseStays DEF Unlock, PhaseAt
    <2> QED
      BY <1>9, <1>s, <2>1 DEF Unlock, Map
  <1>10. ASSUME NEW t \in Threads, ReleaseFreed(t) PROVE UNCHANGED AM!vars
    <2>1. CASE Unlock(t) /\ UNCHANGED life
      BY <1>9, <1>10, <2>1 DEF ReleaseFreed
    <2>2. CASE life' = "exited" /\ UNCHANGED callVars
      BY <1>10, <1>s, <2>2, PhaseUnchanged DEF ReleaseFreed, callVars, Map
    <2> QED
      BY <1>10, <2>1, <2>2 DEF ReleaseFreed
  <1>11. ASSUME NEW t \in Threads, Finish(t) PROVE AM!Next
    <2>1. Phase[t] = "done" /\ Phase' = [Phase EXCEPT ![t] = "idle"]
      BY <1>11, <1>c, PhaseMoves DEF Finish, Return, PhaseAt
    <2>2. AM!Return(t)
      BY <1>11, <2>1 DEF AM!Return, Finish, Return, AM!NoRequest, NoCall, tableVars
    <2> QED
      BY <2>2 DEF AM!Next
  <1>12. CASE UNCHANGED vars
    BY <1>12, <1>s, PhaseUnchanged DEF vars, callVars, tableVars, Map
  <1> QED
    BY <1>1, <1>2, <1>3, <1>4, <1>5, <1>6, <1>7, <1>8, <1>9, <1>10, <1>11, <1>12
    DEF Next, Release, tableVars

(***************************************************************************)
(* When clients insert absent keys only, and fewer than a size_t can       *)
(* count, the table is a map with atomic operations, for any threads,      *)
(* keys, elements, hash and first capacity: buckets, chains, growths and   *)
(* the growths inside them are invisible.                                  *)
(***************************************************************************)
THEOREM TableIsAtomicMap ==
    ASSUME ~Reinsert, MaxNodes < SizeModulus
    PROVE  Spec => ImplementsAtomicMap
  <1>1. Init => AM!Init /\ NoAnswerYet
    <2>1. Init => NoAnswerYet
      BY DEF Init, ClientsInit, NoAnswerYet
    <2> QED
      BY <2>1, MapInit
  <1>2. TableInvariant /\ NoAnswerYet /\ [Next]_vars => NoAnswerYet'
    BY NoAnswerStep DEF TableInvariant
  <1>3. TableInvariant /\ FreshInv /\ SizeInv /\ NoAnswerYet /\ [Next]_vars
            => [AM!Next]_(AM!vars)
    BY MapStep
  <1> QED
    BY <1>1, <1>2, <1>3, SizeHolds, PTL DEF Spec, ImplementsAtomicMap, AM!Spec
=============================================================================
