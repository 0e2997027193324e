---------------------- MODULE SequentialContainers_proofs ----------------------
(***************************************************************************)
(* Proofs about the doubly linked list, the arena and the LRU cache of     *)
(* MCSequentialContainers, for any elements, sizes and bounds.             *)
(*                                                                         *)
(* The list.  Its invariant names a chain p, from the head to the tail     *)
(* sentinel, and the words c in between: next leads from each address of p *)
(* to the following one, previous back, and data of p[i + 1] is c[i].      *)
(* Linking a node in makes InsertAt of both, unlinking one RemoveAt; that  *)
(* the operators which walk the links see p and c is shown by induction up *)
(* to the length of p (UpTo).                                              *)
(*                                                                         *)
(* The arena.  The bytes counted, and so every answer, are within it,      *)
(* whether a sum wraps or not.                                             *)
(***************************************************************************)
EXTENDS MCSequentialContainers, CommonLemmas, FiniteSetTheorems

(* SequenceSpec brings its own copies of the operators on sequences. *)
LEMMA SameOperators ==
    /\ \A s, i, x : Seq0!InsertAt(s, i, x) = InsertAt(s, i, x)
    /\ \A s, i : Seq0!RemoveAt(s, i) = RemoveAt(s, i)
    /\ \A s : Seq0!Last(s) = Last(s) /\ Seq0!Front(s) = Front(s)
    /\ \A s, P : Seq0!Matching(s, P) = Matching(s, P) /\ ListM!Matching(s, P) = Matching(s, P)
    /\ Seq0!CTrue = ListM!CTrue /\ Seq0!CFalse = ListM!CFalse
  BY DEF Seq0!InsertAt, InsertAt, Seq0!RemoveAt, RemoveAt, Seq0!Last, Last, Seq0!Front, Front,
         Seq0!Matching, ListM!Matching, Matching, Seq0!CTrue, ListM!CTrue, Seq0!CFalse, ListM!CFalse

LEMMA SameCardinality == \A S : ListM!Cardinality(S) = Cardinality(S)
  BY DEF ListM!Cardinality, Cardinality

-----------------------------------------------------------------------------
(* The doubly linked list. *)

(* No sequence of different addresses is longer than there are addresses. *)
LEMMA InjectiveLength ==
    ASSUME NEW p \in Seq(ListM!Addresses), \A i, j \in 1..Len(p) : p[i] = p[j] => i = j
    PROVE  Len(p) <= MaxElements + 2
  <1> DEFINE M == MaxElements + 1
  <1>1. M \in Nat /\ Len(p) \in Nat
    BY ContainersAssumption
  <1>2. IsFiniteSet(ListM!Addresses) /\ Cardinality(ListM!Addresses) = M - 0 + 1
    BY <1>1, FS_Interval DEF ListM!Addresses
  <1>3. IsFiniteSet(1..Len(p)) /\ Cardinality(1..Len(p)) = Len(p)
    <2>1. PICK L \in Nat : L = Len(p)
      OBVIOUS
    <2>2. IsFiniteSet(1..L) /\ Cardinality(1..L) = IF 1 > L THEN 0 ELSE L - 1 + 1
      BY FS_Interval
    <2> QED
      BY <2>1, <2>2
  <1>4. p \in Injection(1..Len(p), ListM!Addresses)
    BY DEF Injection, IsInjective
  <1>5. Cardinality(1..Len(p)) <= Cardinality(ListM!Addresses)
    BY <1>2, <1>3, <1>4, FS_Injection DEF ExistsInjection
  <1> QED
    BY <1>1, <1>2, <1>3, <1>5, ContainersAssumption

Links == [ListM!Addresses -> ListM!Addresses \cup {Null}]

(* p is what the links lead to from its first address on. *)
IsPath(link, p) ==
    /\ p \in Seq(ListM!Addresses) /\ p # <<>>
    /\ \A i, j \in 1..Len(p) : p[i] = p[j] => i = j
    /\ \A i \in 1..(Len(p) - 1) : link[p[i]] = p[i + 1]
    /\ link[p[Len(p)]] = Null

LEMMA FromPath ==
    ASSUME NEW link \in Links, NEW p, IsPath(link, p)
    PROVE  ListM!From(link, p[1]) = p
  <1> DEFINE N == MaxElements + 1
             T == ListM!Addresses \cup {Null}
             step == [q \in (1..N) \X T |-> IF q[2] = Null THEN Null ELSE link[q[2]]]
             Is(g) == g = [i \in 0..N |-> IF i = 0 THEN p[1] ELSE IF g[i - 1] = Null THEN Null ELSE link[g[i - 1]]]
             at == CHOOSE g : Is(g)
  <1>0. PICK L \in Nat : L = Len(p)
    BY DEF IsPath
  <1>1. /\ N \in Nat /\ L \in 1..(N + 1)
        /\ p \in Seq(ListM!Addresses) /\ \A i \in 1..L : p[i] \in ListM!Addresses
    <2>1. L <= MaxElements + 2
      BY <1>0, InjectiveLength DEF IsPath
    <2>2. L # 0
      BY <1>0, EmptySeq DEF IsPath
    <2> QED
      BY <1>0, <2>1, <2>2, ContainersAssumption DEF IsPath
  <1>2. Null \notin ListM!Addresses
    BY NullAssumption, ContainersAssumption DEF ListM!Addresses
  <1>3. step \in [(1..N) \X T -> T]
    <2>1. ASSUME NEW q \in (1..N) \X T PROVE (IF q[2] = Null THEN Null ELSE link[q[2]]) \in T
      <3>1. q[2] \in T
        OBVIOUS
      <3> QED
        BY <3>1 DEF Links
    <2> QED
      BY <2>1
  <1>4. PICK f : Recursive(f, N, T, p[1], step)
    <2>1. p[1] \in T
      BY <1>1
    <2> HIDE DEF step, T, N
    <2> QED
      BY <1>1, <1>3, <2>1, RecursionUpTo
  <1>5. \E g : Is(g)
    <2>1. f \in [0..N -> T] /\ f[0] = p[1]
      BY <1>4 DEF Recursive
    <2>2. ASSUME NEW n \in 1..N
          PROVE  f[n] = IF f[n - 1] = Null THEN Null ELSE link[f[n - 1]]
      <3>1. f[n] = step[<<n, f[n - 1]>>] /\ f[n - 1] \in T
        <4>1. n - 1 \in 0..N
          BY <1>1
        <4> HIDE DEF step, T, N
        <4> QED
          BY <1>4, <2>1, <4>1 DEF Recursive
      <3>2. <<n, f[n - 1]>> \in (1..N) \X T
        BY <3>1
      <3> QED
        BY <3>1, <3>2
    <2>3. \A n \in 0..N : n = 0 \/ n \in 1..N
      BY <1>1
    <2>4. Is(f)
      BY <2>1, <2>2, <2>3
    <2> HIDE DEF Is
    <2> QED
      BY <2>4
  <1>6. Is(at)
    <2> HIDE DEF Is
    <2> QED
      BY <1>5
  <1>7. ListM!From(link, p[1]) = [i \in 1..Cardinality({i \in 0..N : at[i] # Null}) |-> at[i - 1]]
    BY SameCardinality DEF ListM!From
  <1> HIDE DEF at
  <1>8. \A i \in 0..N : at[i] = IF i < L THEN p[i + 1] ELSE Null
    <2> DEFINE S == {i \in 0..N : at[i] = IF i < L THEN p[i + 1] ELSE Null}
    <2>1. 0 \in S
      BY <1>1, <1>6
    <2>2. ASSUME NEW n \in 1..N, n - 1 \in S PROVE n \in S
      <3>1. at[n] = IF at[n - 1] = Null THEN Null ELSE link[at[n - 1]]
        <4>1. n \in 0..N /\ n # 0
          BY <1>1
        <4> QED
          BY <1>6, <4>1
      <3>2. CASE n < L
        <4>1. at[n - 1] = p[n] /\ p[n] # Null
          BY <1>1, <1>2, <2>2, <3>2
        <4>2. n \in 1..(Len(p) - 1)
          BY <1>0, <3>2
        <4>3. link[p[n]] = p[n + 1]
          BY <4>2 DEF IsPath
        <4> QED
          BY <3>1, <3>2, <4>1, <4>3
      <3>3. CASE n = L
        <4>1. at[n - 1] = p[n] /\ p[n] # Null
          BY <1>1, <1>2, <2>2, <3>3
        <4>2. link[p[n]] = Null
          BY <1>0, <3>3 DEF IsPath
        <4> QED
          BY <1>1, <3>1, <3>3, <4>1, <4>2
      <3>4. CASE n > L
        <4>1. at[n - 1] = Null
          BY <1>1, <2>2, <3>4
        <4> QED
          BY <1>1, <3>1, <3>4, <4>1
      <3> QED
        BY <1>1, <3>2, <3>3, <3>4
    <2>3. 0..N \subseteq S
      <3> HIDE DEF S
      <3> QED
        BY <1>1, <2>1, <2>2, UpTo
    <2> QED
      BY <2>3
  <1>9. {i \in 0..N : at[i] # Null} = 0..(L - 1)
    <2>1. ASSUME NEW i \in 0..N PROVE at[i] # Null <=> i \in 0..(L - 1)
      BY <1>1, <1>2, <1>8
    <2>2. 0..(L - 1) \subseteq 0..N
      BY <1>1
    <2> QED
      BY <2>1, <2>2
  <1>10. Cardinality(0..(L - 1)) = L
    BY <1>1, FS_Interval
  <1>11. \A i \in 1..L : at[i - 1] = p[i]
    BY <1>1, <1>8
  <1>12. p = [i \in 1..L |-> p[i]]
    BY <1>0, <1>1
  <1> QED
    BY <1>7, <1>9, <1>10, <1>11, <1>12

Lists == [next : Links, previous : Links, data : [ListM!Addresses -> Elements \cup {Null}]]

(* p is the list l from the head to the tail, and backwards. *)
IsChain(l, p) ==
    /\ p \in Seq(ListM!Addresses) /\ Len(p) >= 2 /\ p[1] = ListM!Head0 /\ p[Len(p)] = ListM!Tail0
    /\ \A i, j \in 1..Len(p) : p[i] = p[j] => i = j
    /\ l.next[ListM!Tail0] = Null /\ l.previous[ListM!Head0] = Null
    /\ \A i \in 1..(Len(p) - 1) : l.next[p[i]] = p[i + 1] /\ l.previous[p[i + 1]] = p[i]

Backwards(p) == [i \in 1..Len(p) |-> p[Len(p) + 1 - i]]

LEMMA ChainGives ==
    ASSUME NEW l \in Lists, NEW p, IsChain(l, p)
    PROVE  /\ ListM!From(l.next, ListM!Head0) = p
           /\ ListM!From(l.previous, ListM!Tail0) = Backwards(p)
  <1> DEFINE b == Backwards(p)
  <1>1. l.next \in Links /\ l.previous \in Links
    BY DEF Lists
  <1>2. PICK L \in Nat : L = Len(p)
    BY DEF IsChain
  <1>3. p \in Seq(ListM!Addresses) /\ L >= 2 /\ p[1] = ListM!Head0 /\ p[L] = ListM!Tail0
    BY <1>2 DEF IsChain
  <1>4. IsPath(l.next, p)
    BY <1>2, <1>3, EmptySeq DEF IsChain, IsPath
  <1>5. b \in [1..L -> ListM!Addresses]
    <2>1. ASSUME NEW i \in 1..L PROVE p[L + 1 - i] \in ListM!Addresses
      BY <1>2, <1>3, ElementOfSeq
    <2> QED
      BY <1>2, <2>1 DEF Backwards
  <1>6. /\ b \in Seq(ListM!Addresses) /\ Len(b) = L
        /\ \A i \in 1..L : b[i] = p[L + 1 - i]
    BY <1>2, <1>5, MadeSeq DEF Backwards
  <1>7. \A i, j \in 1..Len(p) : p[i] = p[j] => i = j
    BY DEF IsChain
  <1> HIDE DEF b
  <1>8. \A i, j \in 1..L : b[i] = b[j] => i = j
    <2> TAKE i, j \in 1..L
    <2>1. L + 1 - i \in 1..L /\ L + 1 - j \in 1..L
      OBVIOUS
    <2> HAVE b[i] = b[j]
    <2>2. L + 1 - i = L + 1 - j
      BY <1>2, <1>6, <1>7, <2>1
    <2> QED
      BY <2>2
  <1>9. ASSUME NEW i \in 1..(L - 1) PROVE l.previous[b[i]] = b[i + 1]
    <2>1. PICK j \in 1..(L - 1) : j = L - i
      OBVIOUS
    <2>2. b[i] = p[j + 1] /\ b[i + 1] = p[j]
      <3>1. L + 1 - i = j + 1 /\ L + 1 - (i + 1) = j /\ i \in 1..L /\ i + 1 \in 1..L
        BY <2>1
      <3> QED
        BY <1>6, <3>1
    <2> QED
      BY <1>2, <2>1, <2>2 DEF IsChain
  <1>10. b[1] = ListM!Tail0 /\ b[L] = ListM!Head0
    BY <1>3, <1>6
  <1>11. IsPath(l.previous, b)
    BY <1>3, <1>6, <1>8, <1>9, <1>10, EmptySeq DEF IsChain, IsPath
  <1> QED
    BY <1>1, <1>3, <1>4, <1>10, <1>11, FromPath DEF b

Inserted(p, i, n) ==
    [j \in 1..(Len(p) + 1) |-> IF j <= i THEN p[j] ELSE IF j = i + 1 THEN n ELSE p[j - 1]]
Removed(p, i) == [j \in 1..(Len(p) - 1) |-> IF j < i THEN p[j] ELSE p[j + 1]]

LEMMA LinkChain ==
    ASSUME NEW l \in Lists, NEW p, IsChain(l, p), NEW i \in 1..(Len(p) - 1),
           NEW n \in ListM!Addresses, \A j \in 1..Len(p) : p[j] # n,
           NEW x \in Elements
    PROVE  /\ ListM!Link(l, p[i], p[i + 1], n, x) \in Lists
           /\ IsChain(ListM!Link(l, p[i], p[i + 1], n, x), Inserted(p, i, n))
  <1> DEFINE k == ListM!Link(l, p[i], p[i + 1], n, x)
             q == Inserted(p, i, n)
  <1>1. PICK L \in Nat : L = Len(p)
    BY DEF IsChain
  <1>2. /\ p \in Seq(ListM!Addresses) /\ L >= 2 /\ p[1] = ListM!Head0 /\ p[L] = ListM!Tail0
        /\ \A j \in 1..L : p[j] \in ListM!Addresses /\ p[j] # n
        /\ i \in 1..(L - 1)
    BY <1>1, ElementOfSeq DEF IsChain
  <1>3. /\ l.next \in Links /\ l.previous \in Links
        /\ l.data \in [ListM!Addresses -> Elements \cup {Null}]
    BY DEF Lists
  <1>4. p[i] \in ListM!Addresses /\ p[i + 1] \in ListM!Addresses /\ p[i] # n /\ p[i + 1] # n
    BY <1>2
  <1>5. k \in Lists
    BY <1>3, <1>4 DEF ListM!Link, Lists, Links
  <1>6. /\ k.next = [l.next EXCEPT ![n] = p[i + 1], ![p[i]] = n]
        /\ k.previous = [l.previous EXCEPT ![n] = p[i], ![p[i + 1]] = n]
    BY DEF ListM!Link
  <1>7. \A a \in ListM!Addresses :
            /\ k.next[a] = IF a = p[i] THEN n ELSE IF a = n THEN p[i + 1] ELSE l.next[a]
            /\ k.previous[a] = IF a = p[i + 1] THEN n ELSE IF a = n THEN p[i] ELSE l.previous[a]
    BY <1>3, <1>4, <1>6 DEF Links
  <1> HIDE DEF k
  <1>8. q \in [1..(L + 1) -> ListM!Addresses]
    BY <1>1, <1>2 DEF Inserted
  <1>9. /\ q \in Seq(ListM!Addresses) /\ Len(q) = L + 1
        /\ \A j \in 1..(L + 1) : q[j] = IF j <= i THEN p[j] ELSE IF j = i + 1 THEN n ELSE p[j - 1]
    BY <1>1, <1>8, MadeSeq DEF Inserted
  <1> HIDE DEF q
  <1>10. \A a, b \in 1..L : p[a] = p[b] => a = b
    BY <1>1 DEF IsChain
  <1>11. ASSUME NEW a \in 1..(L + 1), NEW b \in 1..(L + 1), q[a] = q[b] PROVE a = b
    <2> DEFINE At(c) == IF c <= i THEN c ELSE c - 1
    <2>1. ASSUME NEW c \in 1..(L + 1), c # i + 1
          PROVE  At(c) \in 1..L /\ q[c] = p[At(c)] /\ q[c] # n
      <3>1. At(c) \in 1..L
        BY <1>2, <2>1
      <3>2. q[c] = p[At(c)]
        BY <1>2, <1>9, <2>1
      <3> QED
        BY <1>2, <3>1, <3>2
    <2>2. q[i + 1] = n
      BY <1>2, <1>9
    <2>3. CASE a = i + 1 \/ b = i + 1
      BY <1>11, <2>1, <2>2, <2>3
    <2>4. CASE a # i + 1 /\ b # i + 1
      <3>1. At(a) \in 1..L /\ At(b) \in 1..L /\ p[At(a)] = p[At(b)]
        BY <1>11, <2>1, <2>4
      <3>2. At(a) = At(b)
        <4> HIDE DEF At
        <4> QED
          BY <1>10, <3>1
      <3> QED
        BY <1>2, <2>4, <3>2
    <2> QED
      BY <2>3, <2>4
  <1>12. q[1] = ListM!Head0 /\ q[L + 1] = ListM!Tail0
    BY <1>2, <1>9
  <1>13. k.next[ListM!Tail0] = Null /\ k.previous[ListM!Head0] = Null
    <2>1. ListM!Tail0 \in ListM!Addresses /\ ListM!Head0 \in ListM!Addresses /\ ListM!Tail0 # n /\ ListM!Head0 # n
      BY <1>2
    <2>2. ListM!Tail0 # p[i] /\ ListM!Head0 # p[i + 1]
      BY <1>2, <1>10
    <2> QED
      BY <1>7, <2>1, <2>2 DEF IsChain
  <1>14. \A j \in 1..(L - 1) : l.next[p[j]] = p[j + 1] /\ l.previous[p[j + 1]] = p[j]
    BY <1>1 DEF IsChain
  <1>15. ASSUME NEW j \in 1..L PROVE k.next[q[j]] = q[j + 1] /\ k.previous[q[j + 1]] = q[j]
    <2>1. CASE j < i
      <3>1. q[j] = p[j] /\ q[j + 1] = p[j + 1] /\ j \in 1..(L - 1) /\ j + 1 \in 1..L
        BY <1>2, <1>9, <2>1
      <3>2. p[j] # p[i] /\ p[j + 1] # p[i + 1]
        BY <1>2, <1>10, <2>1, <3>1
      <3>3. /\ p[j] \in ListM!Addresses /\ p[j + 1] \in ListM!Addresses /\ p[j] # n /\ p[j + 1] # n
            /\ l.next[p[j]] = p[j + 1] /\ l.previous[p[j + 1]] = p[j]
        BY <1>2, <1>14, <3>1
      <3>4. k.next[p[j]] = p[j + 1] /\ k.previous[p[j + 1]] = p[j]
        BY <1>7, <3>2, <3>3
      <3> QED
        BY <3>1, <3>4
    <2>2. CASE j = i
      <3>1. q[j] = p[i] /\ q[j + 1] = n
        BY <1>2, <1>9, <2>2
      <3>2. k.next[p[i]] = n /\ k.previous[n] = p[i]
        BY <1>4, <1>7
      <3> QED
        BY <3>1, <3>2
    <2>3. CASE j = i + 1
      <3>1. q[j] = n /\ q[j + 1] = p[i + 1]
        BY <1>2, <1>9, <2>3
      <3>2. k.next[n] = p[i + 1] /\ k.previous[p[i + 1]] = n
        BY <1>4, <1>7
      <3> QED
        BY <3>1, <3>2
    <2>4. CASE j > i + 1
      <3>1. PICK m \in 1..(L - 1) : m = j - 1
        BY <1>2, <2>4
      <3>2. q[j] = p[m] /\ q[j + 1] = p[m + 1] /\ m \in 1..L /\ m + 1 \in 1..L
        <4>1. /\ j \in 1..(L + 1) /\ j + 1 \in 1..(L + 1) /\ ~(j <= i) /\ j # i + 1
              /\ ~(j + 1 <= i) /\ j + 1 # i + 1 /\ j - 1 = m /\ (j + 1) - 1 = m + 1
          BY <1>2, <2>4, <3>1
        <4>2. q[j] = p[j - 1] /\ q[j + 1] = p[(j + 1) - 1]
          BY <1>9, <4>1
        <4>3. m \in 1..L /\ m + 1 \in 1..L
          BY <3>1
        <4> QED
          BY <4>1, <4>2, <4>3
      <3>3. p[m] # p[i] /\ p[m + 1] # p[i + 1]
        <4>1. m # i /\ m + 1 # i + 1 /\ i \in 1..L /\ i + 1 \in 1..L
          BY <1>2, <2>4, <3>1
        <4> QED
          BY <1>10, <3>2, <4>1
      <3>4. /\ p[m] \in ListM!Addresses /\ p[m + 1] \in ListM!Addresses /\ p[m] # n /\ p[m + 1] # n
            /\ l.next[p[m]] = p[m + 1] /\ l.previous[p[m + 1]] = p[m]
        BY <1>2, <1>14, <3>2
      <3>5. k.next[p[m]] = p[m + 1] /\ k.previous[p[m + 1]] = p[m]
        BY <1>7, <3>3, <3>4
      <3> QED
        BY <3>2, <3>5
    <2> QED
      BY <1>2, <2>1, <2>2, <2>3, <2>4
  <1>16. IsChain(k, q)
    BY <1>2, <1>9, <1>11, <1>12, <1>13, <1>15 DEF IsChain
  <1> QED
    BY <1>5, <1>16 DEF k, q

LEMMA UnlinkChain ==
    ASSUME NEW l \in Lists, NEW p, IsChain(l, p), NEW i \in 2..(Len(p) - 1)
    PROVE  /\ ListM!Unlink(l, p[i]) \in Lists
           /\ IsChain(ListM!Unlink(l, p[i]), Removed(p, i))
           /\ ListM!Unlink(l, p[i]).data = [l.data EXCEPT ![p[i]] = Null]
  <1> DEFINE k == ListM!Unlink(l, p[i])
             q == Removed(p, i)
             n == p[i]
  <1>1. PICK L \in Nat : L = Len(p)
    BY DEF IsChain
  <1>2. /\ p \in Seq(ListM!Addresses) /\ L >= 2 /\ p[1] = ListM!Head0 /\ p[L] = ListM!Tail0
        /\ \A j \in 1..L : p[j] \in ListM!Addresses
        /\ i \in 2..(L - 1)
    BY <1>1, ElementOfSeq DEF IsChain
  <1>3. /\ l.next \in Links /\ l.previous \in Links
        /\ l.data \in [ListM!Addresses -> Elements \cup {Null}]
    BY DEF Lists
  <1>4. \A a, b \in 1..L : p[a] = p[b] => a = b
    BY <1>1 DEF IsChain
  <1>5. \A j \in 1..(L - 1) : l.next[p[j]] = p[j + 1] /\ l.previous[p[j + 1]] = p[j]
    BY <1>1 DEF IsChain
  <1>6. /\ n \in ListM!Addresses /\ p[i - 1] \in ListM!Addresses /\ p[i + 1] \in ListM!Addresses
        /\ n # p[i - 1] /\ n # p[i + 1]
        /\ l.next[n] = p[i + 1] /\ l.previous[n] = p[i - 1]
    <2>1. i - 1 \in 1..(L - 1) /\ i \in 1..(L - 1) /\ i - 1 \in 1..L /\ i + 1 \in 1..L /\ i \in 1..L
          /\ (i - 1) + 1 = i /\ i # i - 1 /\ i # i + 1
      BY <1>2
    <2>2. l.next[p[i]] = p[i + 1] /\ l.previous[p[(i - 1) + 1]] = p[i - 1]
      BY <1>5, <2>1
    <2> QED
      BY <1>2, <1>4, <2>1, <2>2
  <1>7. /\ k.next = [l.next EXCEPT ![p[i - 1]] = p[i + 1], ![n] = Null]
        /\ k.previous = [l.previous EXCEPT ![p[i + 1]] = p[i - 1], ![n] = Null]
        /\ k.data = [l.data EXCEPT ![n] = Null]
    BY <1>6 DEF ListM!Unlink
  <1>8. k \in Lists
    <2>1. k = [next |-> k.next, previous |-> k.previous, data |-> k.data]
      BY DEF ListM!Unlink
    <2>2. k.next \in Links /\ k.previous \in Links /\ k.data \in [ListM!Addresses -> Elements \cup {Null}]
      BY <1>3, <1>6, <1>7 DEF Links
    <2> HIDE DEF k
    <2> QED
      BY <2>1, <2>2 DEF Lists
  <1> HIDE DEF k, n
  <1>9. \A a \in ListM!Addresses :
            /\ k.next[a] = IF a = n THEN Null ELSE IF a = p[i - 1] THEN p[i + 1] ELSE l.next[a]
            /\ k.previous[a] = IF a = n THEN Null ELSE IF a = p[i + 1] THEN p[i - 1] ELSE l.previous[a]
    BY <1>3, <1>6, <1>7 DEF Links
  <1>10. L - 1 \in Nat /\ q \in [1..(L - 1) -> ListM!Addresses]
    BY <1>1, <1>2 DEF Removed
  <1>11. /\ q \in Seq(ListM!Addresses) /\ Len(q) = L - 1
         /\ \A j \in 1..(L - 1) : q[j] = IF j < i THEN p[j] ELSE p[j + 1]
    BY <1>1, <1>10, MadeSeq DEF Removed
  <1> HIDE DEF q
  <1> DEFINE At(c) == IF c < i THEN c ELSE c + 1
  <1>12. ASSUME NEW c \in 1..(L - 1)
         PROVE  At(c) \in 1..L /\ q[c] = p[At(c)] /\ q[c] # n
    <2>1. At(c) \in 1..L /\ At(c) # i /\ i \in 1..L
      BY <1>2
    <2>2. q[c] = p[At(c)]
      BY <1>2, <1>11
    <2> QED
      BY <1>2, <1>4, <2>1, <2>2 DEF n
  <1>13. ASSUME NEW a \in 1..(L - 1), NEW b \in 1..(L - 1), q[a] = q[b] PROVE a = b
    <2>1. At(a) \in 1..L /\ At(b) \in 1..L /\ p[At(a)] = p[At(b)]
      BY <1>12, <1>13
    <2>2. At(a) = At(b)
      BY <1>4, <2>1
    <2> QED
      BY <1>2, <2>2
  <1>14. q[1] = ListM!Head0 /\ q[L - 1] = ListM!Tail0 /\ L - 1 >= 2
    <2>1. L - 1 >= 2 /\ 1 < i /\ ~(L - 1 < i) /\ 1 \in 1..(L - 1) /\ L - 1 \in 1..(L - 1) /\ (L - 1) + 1 = L
      BY <1>2
    <2>2. q[1] = p[1] /\ q[L - 1] = p[(L - 1) + 1]
      BY <1>11, <2>1
    <2> QED
      BY <1>2, <2>1, <2>2
  <1>15. k.next[ListM!Tail0] = Null /\ k.previous[ListM!Head0] = Null
    <2>1. ListM!Tail0 \in ListM!Addresses /\ ListM!Head0 \in ListM!Addresses
      BY <1>2
    <2>2. ListM!Tail0 # p[i - 1] /\ ListM!Head0 # p[i + 1]
      <3>1. i - 1 \in 1..L /\ i + 1 \in 1..L /\ i - 1 # L /\ i + 1 # 1 /\ 1 \in 1..L /\ L \in 1..L
        BY <1>2
      <3> QED
        BY <1>2, <1>4, <3>1
    <2> QED
      BY <1>9, <2>1, <2>2 DEF IsChain
  <1>16. ASSUME NEW j \in 1..(L - 2) PROVE k.next[q[j]] = q[j + 1] /\ k.previous[q[j + 1]] = q[j]
    <2>0. j \in 1..(L - 1) /\ j + 1 \in 1..(L - 1)
      BY <1>2
    <2>1. CASE j + 1 < i
      <3>1. q[j] = p[j] /\ q[j + 1] = p[j + 1] /\ j \in 1..(L - 1) /\ j + 1 \in 1..L /\ j \in 1..L
            /\ i - 1 \in 1..L /\ i + 1 \in 1..L /\ j # i - 1 /\ j # i /\ j + 1 # i /\ j + 1 # i + 1 /\ i \in 1..L
        BY <1>2, <1>11, <2>0, <2>1
      <3>2. p[j] # p[i - 1] /\ p[j] # n /\ p[j + 1] # n /\ p[j + 1] # p[i + 1]
        BY <1>4, <3>1 DEF n
      <3>3. /\ p[j] \in ListM!Addresses /\ p[j + 1] \in ListM!Addresses
            /\ l.next[p[j]] = p[j + 1] /\ l.previous[p[j + 1]] = p[j]
        BY <1>2, <1>5, <3>1
      <3>4. k.next[p[j]] = p[j + 1] /\ k.previous[p[j + 1]] = p[j]
        BY <1>9, <3>2, <3>3
      <3> QED
        BY <3>1, <3>4
    <2>2. CASE j + 1 = i
      <3>1. q[j] = p[i - 1] /\ q[j + 1] = p[i + 1]
        BY <1>2, <1>11, <2>0, <2>2
      <3>2. k.next[p[i - 1]] = p[i + 1] /\ k.previous[p[i + 1]] = p[i - 1]
        BY <1>6, <1>9
      <3> QED
        BY <3>1, <3>2
    <2>3. CASE j + 1 > i
      <3>1. PICK m \in 2..(L - 1) : m = j + 1
        BY <1>2, <2>0
      <3>2. q[j] = p[m] /\ q[j + 1] = p[m + 1]
        BY <1>2, <1>11, <2>0, <2>3, <3>1
      <3>3. /\ m \in 1..(L - 1) /\ m \in 1..L /\ m + 1 \in 1..L /\ i \in 1..L
            /\ i - 1 \in 1..L /\ i + 1 \in 1..L /\ m # i - 1 /\ m # i /\ m + 1 # i /\ m + 1 # i + 1
        BY <1>2, <2>3, <3>1
      <3>4. p[m] # p[i - 1] /\ p[m] # n /\ p[m + 1] # n /\ p[m + 1] # p[i + 1]
        BY <1>4, <3>3 DEF n
      <3>5. /\ p[m] \in ListM!Addresses /\ p[m + 1] \in ListM!Addresses
            /\ l.next[p[m]] = p[m + 1] /\ l.previous[p[m + 1]] = p[m]
        BY <1>2, <1>5, <3>3
      <3>6. k.next[p[m]] = p[m + 1] /\ k.previous[p[m + 1]] = p[m]
        BY <1>9, <3>4, <3>5
      <3> QED
        BY <3>2, <3>6
    <2> QED
      BY <1>2, <2>0, <2>1, <2>2, <2>3
  <1>17. IsChain(k, q)
    <2>1. L - 1 = Len(q) /\ (L - 1) - 1 = L - 2
      BY <1>2, <1>11
    <2>2. \A j \in 1..(Len(q) - 1) : k.next[q[j]] = q[j + 1] /\ k.previous[q[j + 1]] = q[j]
      BY <1>16, <2>1
    <2> QED
      BY <1>11, <1>13, <1>14, <1>15, <2>1, <2>2 DEF IsChain
  <1> QED
    BY <1>7, <1>8, <1>17 DEF k, q, n

(* l holds the words c, in the nodes of p between the sentinels. *)
ListHolds(l, p, c) ==
    /\ l \in Lists /\ IsChain(l, p)
    /\ l.data[ListM!Head0] = Null /\ l.data[ListM!Tail0] = Null
    /\ c \in Seq(Elements) /\ Len(p) = Len(c) + 2
    /\ \A j \in 1..Len(c) : l.data[p[j + 1]] = c[j]

NodesOf(l) ==
    LET chain == ListM!From(l.next, ListM!Head0)
    IN  SubSeq(chain, 2, Len(chain) - 1)
WordsOf(l) == [i \in 1..Len(NodesOf(l)) |-> l.data[NodesOf(l)[i]]]

(* What the module reads off the pointers is what the list holds. *)
LEMMA ListHoldsReads ==
    ASSUME NEW l, NEW p, NEW c, ListHolds(l, p, c)
    PROVE  /\ NodesOf(l) \in Seq(ListM!Addresses) /\ Len(NodesOf(l)) = Len(c)
           /\ \A j \in 1..Len(c) : NodesOf(l)[j] = p[j + 1]
           /\ WordsOf(l) = c
  <1>1. PICK L \in Nat : L = Len(c)
    BY DEF ListHolds
  <1>2. /\ p \in Seq(ListM!Addresses) /\ Len(p) = L + 2 /\ p[1] = ListM!Head0 /\ p[L + 2] = ListM!Tail0
        /\ c = [j \in 1..L |-> c[j]] /\ \A j \in 1..L : l.data[p[j + 1]] = c[j]
    BY <1>1 DEF ListHolds, IsChain
  <1>3. ListM!From(l.next, ListM!Head0) = p
    BY ChainGives DEF ListHolds
  <1>4. NodesOf(l) = SubSeq(p, 2, L + 1)
    BY <1>1, <1>2, <1>3 DEF NodesOf
  <1>5. NodesOf(l) \in Seq(ListM!Addresses) /\ Len(NodesOf(l)) = L /\ \A j \in 1..L : NodesOf(l)[j] = p[j + 1]
    <2>1. 2 \in 1..(Len(p) + 1) /\ L + 1 \in 0..Len(p) /\ 2 <= (L + 1) + 1
      BY <1>1, <1>2
    <2>2. /\ SubSeq(p, 2, L + 1) \in Seq(ListM!Addresses)
          /\ Len(SubSeq(p, 2, L + 1)) = (L + 1) - 2 + 1
          /\ \A j \in 1..((L + 1) - 2 + 1) : SubSeq(p, 2, L + 1)[j] = p[2 + j - 1]
      <3>1. p \in Seq(ListM!Addresses)
        BY <1>2
      <3> QED
        BY <2>1, <3>1, PartOf
    <2>3. (L + 1) - 2 + 1 = L /\ \A j \in 1..L : 2 + j - 1 = j + 1
      BY <1>1
    <2> QED
      BY <1>4, <2>2, <2>3
  <1>6. WordsOf(l) = c
    <2>1. \A j \in 1..L : l.data[NodesOf(l)[j]] = c[j]
      BY <1>2, <1>5
    <2>2. WordsOf(l) = [j \in 1..L |-> l.data[NodesOf(l)[j]]]
      BY <1>5 DEF WordsOf
    <2> QED
      BY <1>2, <2>1, <2>2
  <1> QED
    BY <1>1, <1>5, <1>6

LEMMA ListReadsNow ==
    /\ ListM!Nodes = NodesOf(obj) /\ ListM!Contents = WordsOf(obj)
    /\ ListM!Nodes' = NodesOf(obj') /\ ListM!Contents' = WordsOf(obj')
  BY DEF ListM!Nodes, NodesOf, ListM!Contents, WordsOf

LEMMA ListHoldsFacts ==
    ASSUME NEW p, NEW c, ListHolds(obj, p, c)
    PROVE  /\ ListM!Nodes \in Seq(ListM!Addresses) /\ Len(ListM!Nodes) = Len(c)
           /\ \A j \in 1..Len(c) : ListM!Nodes[j] = p[j + 1]
           /\ ListM!Contents = c
           /\ ListM!Fresh \subseteq ListM!Addresses
           /\ \A n \in ListM!Fresh, j \in 1..Len(p) : p[j] # n
  <1>1. PICK L \in Nat : L = Len(c)
    BY DEF ListHolds
  <1>2. p \in Seq(ListM!Addresses) /\ Len(p) = L + 2 /\ p[1] = ListM!Head0 /\ p[L + 2] = ListM!Tail0
    BY <1>1 DEF ListHolds, IsChain
  <1>5. ListM!Nodes \in Seq(ListM!Addresses) /\ Len(ListM!Nodes) = L /\ \A j \in 1..L : ListM!Nodes[j] = p[j + 1]
    BY <1>1, ListHoldsReads, ListReadsNow
  <1>6. ListM!Contents = c
    BY ListHoldsReads, ListReadsNow
  <1>7. ASSUME NEW n \in ListM!Fresh, NEW j \in 1..Len(p) PROVE p[j] # n
    <2>1. n # ListM!Head0 /\ n # ListM!Tail0 /\ n \notin ListM!Range(ListM!Nodes)
      BY DEF ListM!Fresh
    <2>2. \A k \in 1..L : ListM!Nodes[k] # n
      <3>1. \A k \in 1..L : k \in DOMAIN ListM!Nodes
        BY <1>5
      <3> QED
        BY <2>1, <3>1 DEF ListM!Range
    <2>3. CASE j = 1 \/ j = L + 2
      BY <1>2, <2>1, <2>3
    <2>4. CASE j # 1 /\ j # L + 2
      <3>1. j - 1 \in 1..L /\ (j - 1) + 1 = j
        BY <1>1, <1>2, <2>4
      <3> QED
        BY <1>5, <2>2, <3>1
    <2> QED
      BY <2>3, <2>4
  <1> QED
    BY <1>1, <1>5, <1>6, <1>7 DEF ListM!Fresh

(* The links of a list that holds something agree. *)
LEMMA ListHoldsMatch ==
    ASSUME NEW p, NEW c, ListHolds(obj, p, c)
    PROVE  ListM!LinksMatch /\ (life \in ListM!Lives => ListM!TypeOK)
  <1>1. ListM!From(obj.next, ListM!Head0) = p /\ ListM!From(obj.previous, ListM!Tail0) = Backwards(p)
    BY ChainGives DEF ListHolds
  <1>2. PICK L \in Nat : L = Len(p)
    BY DEF ListHolds, IsChain
  <1>3. p \in Seq(ListM!Addresses) /\ DOMAIN p = 1..L /\ \A i \in 1..L : p[L + 1 - i] \in ListM!Addresses
    BY <1>2 DEF ListHolds, IsChain
  <1>4. Backwards(p) = [i \in 1..L |-> p[L + 1 - i]]
    BY <1>2 DEF Backwards
  <1>5. Backwards(p) \in Seq(ListM!Addresses) /\ Len(Backwards(p)) = L
    BY <1>3, <1>4, MadeSeq
  <1>6. \A i \in 1..L : Backwards(p)[i] = p[L + 1 - i]
    BY <1>4
  <1>7. obj.data[ListM!Head0] = Null /\ obj.data[ListM!Tail0] = Null
    BY DEF ListHolds
  <1>8. ListM!LinksMatch
    BY <1>1, <1>2, <1>3, <1>5, <1>6, <1>7 DEF ListM!LinksMatch
  <1>9. life \in ListM!Lives => ListM!TypeOK
    BY DEF ListM!TypeOK, ListHolds, Lists, Links
  <1> QED
    BY <1>8, <1>9

(* An insertion after the node p[i] is an insertion before the i-th word. *)
LEMMA ListLinkHolds ==
    ASSUME NEW l, NEW p, NEW c, ListHolds(l, p, c), NEW i \in 1..(Len(c) + 1),
           NEW n \in ListM!Addresses, \A j \in 1..Len(p) : p[j] # n, NEW x \in Elements
    PROVE  ListHolds(ListM!Link(l, p[i], l.next[p[i]], n, x), Inserted(p, i, n), InsertAt(c, i, x))
  <1> DEFINE k == ListM!Link(l, p[i], l.next[p[i]], n, x)
             q == Inserted(p, i, n)
             d == InsertAt(c, i, x)
  <1>1. PICK L \in Nat : L = Len(c)
    BY DEF ListHolds
  <1>2. /\ l \in Lists /\ IsChain(l, p) /\ p \in Seq(ListM!Addresses) /\ Len(p) = L + 2
        /\ p[1] = ListM!Head0 /\ p[L + 2] = ListM!Tail0 /\ c \in Seq(Elements) /\ i \in 1..(L + 1)
        /\ \A j \in 1..L : l.data[p[j + 1]] = c[j]
        /\ l.data[ListM!Head0] = Null /\ l.data[ListM!Tail0] = Null
    BY <1>1 DEF ListHolds, IsChain
  <1>3. l.next[p[i]] = p[i + 1] /\ i \in 1..(Len(p) - 1)
    BY <1>1, <1>2 DEF IsChain
  <1>4. k \in Lists /\ IsChain(k, q)
    BY <1>2, <1>3, LinkChain
  <1>5. q = [j \in 1..(L + 3) |-> IF j <= i THEN p[j] ELSE IF j = i + 1 THEN n ELSE p[j - 1]]
    BY <1>1, <1>2 DEF Inserted
  <1>6. Len(q) = L + 3
    BY <1>1, <1>5 
  <1>7. /\ d \in Seq(Elements) /\ Len(d) = L + 1
        /\ \A j \in 1..(L + 1) : d[j] = IF j < i THEN c[j] ELSE IF j = i THEN x ELSE c[j - 1]
    <2>1. c \in Seq(Elements) /\ i \in 1..(Len(c) + 1)
      BY <1>2
    <2> HIDE DEF d
    <2>2. /\ d \in Seq(Elements) /\ Len(d) = Len(c) + 1
          /\ \A j \in 1..(Len(c) + 1) : d[j] = IF j < i THEN c[j] ELSE IF j = i THEN x ELSE c[j - 1]
      BY <2>1, InsertAtIs DEF d
    <2> QED
      BY <1>1, <2>2
  <1>8. \A a \in ListM!Addresses : k.data[a] = IF a = n THEN x ELSE l.data[a]
    BY <1>2 DEF ListM!Link, Lists
  <1>9. ListM!Head0 # n /\ ListM!Tail0 # n /\ ListM!Head0 \in ListM!Addresses /\ ListM!Tail0 \in ListM!Addresses
    BY <1>1, <1>2, ContainersAssumption DEF ListM!Head0, ListM!Tail0, ListM!Addresses
  <1>10. k.data[ListM!Head0] = Null /\ k.data[ListM!Tail0] = Null
    BY <1>2, <1>8, <1>9
  <1>11. ASSUME NEW j \in 1..(L + 1) PROVE k.data[q[j + 1]] = d[j]
    <2>1. CASE j < i
      <3>1. q[j + 1] = p[j + 1] /\ j \in 1..L /\ j + 1 \in 1..(L + 2)
        BY <1>1, <1>2, <1>5, <2>1
      <3>2. k.data[p[j + 1]] = l.data[p[j + 1]]
        BY <1>2, <1>8, <3>1
      <3> QED
        BY <1>2, <1>7, <2>1, <3>1, <3>2
    <2>2. CASE j = i
      <3>1. q[j + 1] = n
        BY <1>1, <1>2, <1>5, <2>2
      <3> QED
        BY <1>2, <1>7, <1>8, <2>2, <3>1
    <2>3. CASE j > i
      <3>1. q[j + 1] = p[j] /\ j - 1 \in 1..L /\ (j - 1) + 1 = j /\ j \in 1..(L + 2)
        BY <1>1, <1>2, <1>5, <2>3
      <3>2. k.data[p[j]] = l.data[p[j]]
        BY <1>2, <1>8, <3>1
      <3>3. l.data[p[j]] = c[j - 1]
        BY <1>2, <3>1
      <3>4. d[j] = c[j - 1]
        BY <1>2, <1>7, <2>3
      <3> QED
        BY <3>1, <3>2, <3>3, <3>4
    <2> QED
      BY <1>2, <2>1, <2>2, <2>3
  <1> HIDE DEF k, q, d
  <1>12. ListHolds(k, q, d)
    BY <1>1, <1>4, <1>6, <1>7, <1>10, <1>11 DEF ListHolds
  <1> QED
    BY <1>12 DEF k, q, d

(* Unlinking the i-th node removes the i-th word. *)
LEMMA ListUnlinkHolds ==
    ASSUME NEW l, NEW p, NEW c, ListHolds(l, p, c), NEW i \in 1..Len(c)
    PROVE  ListHolds(ListM!Unlink(l, p[i + 1]), Removed(p, i + 1), RemoveAt(c, i))
  <1> DEFINE k == ListM!Unlink(l, p[i + 1])
             q == Removed(p, i + 1)
             d == RemoveAt(c, i)
  <1>1. PICK L \in Nat : L = Len(c)
    BY DEF ListHolds
  <1>2. /\ l \in Lists /\ IsChain(l, p) /\ p \in Seq(ListM!Addresses) /\ Len(p) = L + 2
        /\ p[1] = ListM!Head0 /\ p[L + 2] = ListM!Tail0 /\ c \in Seq(Elements) /\ i \in 1..L
        /\ \A j \in 1..L : l.data[p[j + 1]] = c[j]
        /\ l.data[ListM!Head0] = Null /\ l.data[ListM!Tail0] = Null
        /\ \A a, b \in 1..(L + 2) : p[a] = p[b] => a = b
    BY <1>1 DEF ListHolds, IsChain
  <1>3. i + 1 \in 2..(Len(p) - 1)
    BY <1>1, <1>2
  <1>4. k \in Lists /\ IsChain(k, q) /\ k.data = [l.data EXCEPT ![p[i + 1]] = Null]
    <2>1. PICK m \in 2..(Len(p) - 1) : m = i + 1
      BY <1>3
    <2>2. /\ ListM!Unlink(l, p[m]) \in Lists
          /\ IsChain(ListM!Unlink(l, p[m]), Removed(p, m))
          /\ ListM!Unlink(l, p[m]).data = [l.data EXCEPT ![p[m]] = Null]
      <3>1. l \in Lists /\ IsChain(l, p)
        BY <1>2
      <3> QED
        BY <3>1, UnlinkChain
    <2> QED
      BY <2>1, <2>2
  <1>5. q = [j \in 1..(L + 1) |-> IF j < i + 1 THEN p[j] ELSE p[j + 1]]
    BY <1>1, <1>2 DEF Removed
  <1>6. Len(q) = L + 1
    BY <1>1, <1>5
  <1>7. /\ d \in Seq(Elements) /\ Len(d) = L - 1
        /\ \A j \in 1..(L - 1) : d[j] = IF j < i THEN c[j] ELSE c[j + 1]
    <2>1. c \in Seq(Elements) /\ i \in 1..Len(c)
      BY <1>2
    <2> HIDE DEF d
    <2>2. /\ d \in Seq(Elements) /\ Len(d) = Len(c) - 1
          /\ \A j \in 1..(Len(c) - 1) : d[j] = IF j < i THEN c[j] ELSE c[j + 1]
      BY <2>1, RemoveAtIs DEF d
    <2> QED
      BY <1>1, <2>2
  <1>8. \A a \in ListM!Addresses : k.data[a] = IF a = p[i + 1] THEN Null ELSE l.data[a]
    BY <1>2, <1>4 DEF Lists
  <1>9. k.data[ListM!Head0] = Null /\ k.data[ListM!Tail0] = Null
    <2>1. ListM!Head0 \in ListM!Addresses /\ ListM!Tail0 \in ListM!Addresses
      BY ContainersAssumption DEF ListM!Head0, ListM!Tail0, ListM!Addresses
    <2> QED
      BY <1>2, <1>8, <2>1
  <1>10. ASSUME NEW j \in 1..(L - 1) PROVE k.data[q[j + 1]] = d[j]
    <2>1. CASE j < i
      <3>0. j + 1 \in 1..(L + 1) /\ j + 1 < i + 1
        BY <1>1, <1>2, <2>1
      <3>1. q[j + 1] = p[j + 1] /\ j \in 1..L /\ j + 1 \in 1..(L + 2) /\ j + 1 # i + 1 /\ i + 1 \in 1..(L + 2)
        BY <1>1, <1>2, <1>5, <2>1, <3>0
      <3>2. p[j + 1] # p[i + 1] /\ p[j + 1] \in ListM!Addresses
        BY <1>2, <3>1
      <3>3. k.data[p[j + 1]] = l.data[p[j + 1]]
        BY <1>8, <3>2
      <3> QED
        BY <1>2, <1>7, <2>1, <3>1, <3>3
    <2>2. CASE j >= i
      <3>1. /\ q[j + 1] = p[(j + 1) + 1] /\ j + 1 \in 1..L /\ (j + 1) + 1 \in 1..(L + 2)
            /\ (j + 1) + 1 # i + 1 /\ i + 1 \in 1..(L + 2) /\ ~(j < i)
        BY <1>1, <1>2, <1>5, <2>2
      <3>2. p[(j + 1) + 1] # p[i + 1] /\ p[(j + 1) + 1] \in ListM!Addresses
        BY <1>2, <3>1
      <3>3. k.data[p[(j + 1) + 1]] = l.data[p[(j + 1) + 1]]
        BY <1>8, <3>2
      <3>4. l.data[p[(j + 1) + 1]] = c[j + 1]
        BY <1>2, <3>1
      <3>5. d[j] = c[j + 1]
        BY <1>7, <3>1
      <3> QED
        BY <3>1, <3>3, <3>4, <3>5
    <2> QED
      BY <1>2, <2>1, <2>2
  <1> HIDE DEF k, q, d
  <1>11. ListHolds(k, q, d)
    BY <1>1, <1>4, <1>6, <1>7, <1>9, <1>10 DEF ListHolds
  <1> QED
    BY <1>11 DEF k, q, d

LEMMA ListUnlinkType ==
    ASSUME NEW l \in Lists, NEW n \in ListM!Addresses
    PROVE  ListM!Unlink(l, n) \in Lists
  <1>1. l.next[n] \in ListM!Addresses \cup {Null} /\ l.previous[n] \in ListM!Addresses \cup {Null}
    BY DEF Lists, Links
  <1>2. [l.next EXCEPT ![l.previous[n]] = l.next[n], ![n] = Null] \in Links
    BY <1>1 DEF Lists, Links
  <1>3. [l.previous EXCEPT ![l.next[n]] = l.previous[n], ![n] = Null] \in Links
    BY <1>1 DEF Lists, Links
  <1>4. [l.data EXCEPT ![n] = Null] \in [ListM!Addresses -> Elements \cup {Null}]
    BY DEF Lists
  <1> QED
    BY <1>2, <1>3, <1>4 DEF ListM!Unlink, Lists

(* What the loop of remove_if has made of the list when it has looked at i    *)
(* nodes: k of their words are left, in front of those not yet looked at.     *)
Stage(l, q, d, p, c, i, kept) ==
    /\ ListHolds(l, q, d)
    /\ Len(d) = Len(kept) + (Len(c) - i)
    /\ \A j \in 1..Len(kept) : d[j] = kept[j]
    /\ \A h \in 1..(Len(c) - i) : d[Len(kept) + h] = c[i + h] /\ q[Len(kept) + h + 1] = p[i + h + 1]

LEMMA StageKeeps ==
    ASSUME NEW l, NEW q, NEW d, NEW p, NEW c, ListHolds(obj, p, c), NEW i \in 1..Len(c),
           NEW kept \in Seq(Elements), Stage(l, q, d, p, c, i - 1, kept)
    PROVE  Stage(l, q, d, p, c, i, Append(kept, c[i]))
  <1> DEFINE more == Append(kept, c[i])
  <1>1. PICK L \in Nat, m \in Nat, D \in Nat : L = Len(c) /\ m = Len(kept) /\ D = Len(d)
    <2>1. Len(c) \in Nat /\ Len(kept) \in Nat /\ Len(d) \in Nat
      BY DEF ListHolds, Stage
    <2> QED
      BY <2>1
  <1>2. c[i] \in Elements
    BY DEF ListHolds
  <1>3. more \in Seq(Elements) /\ Len(more) = m + 1 /\ \A j \in 1..(m + 1) : more[j] = IF j <= m THEN kept[j] ELSE c[i]
    BY <1>1, <1>2
  <1>4. /\ ListHolds(l, q, d) /\ D = m + (L - (i - 1)) /\ \A j \in 1..m : d[j] = kept[j]
        /\ \A h \in 1..(L - (i - 1)) : d[m + h] = c[(i - 1) + h] /\ q[m + h + 1] = p[(i - 1) + h + 1]
    BY <1>1 DEF Stage
  <1>5. 1 \in 1..(L - (i - 1)) /\ (i - 1) + 1 = i
    BY <1>1
  <1>6. d[m + 1] = c[i]
    BY <1>4, <1>5
  <1>7. \A j \in 1..(m + 1) : d[j] = more[j]
    <2>1. ASSUME NEW j \in 1..(m + 1) PROVE d[j] = more[j]
      <3> HIDE DEF more
      <3>1. CASE j <= m
        <4>1. j \in 1..m
          BY <1>1, <3>1
        <4> QED
          BY <1>3, <1>4, <3>1, <4>1
      <3>2. CASE j = m + 1
        BY <1>1, <1>3, <1>6, <3>2
      <3> QED
        BY <1>1, <3>1, <3>2
    <2> QED
      BY <2>1
  <1>8. D = (m + 1) + (L - i)
    BY <1>1, <1>4
  <1>9. ASSUME NEW h \in 1..(L - i)
        PROVE  d[(m + 1) + h] = c[i + h] /\ q[(m + 1) + h + 1] = p[i + h + 1]
    <2>1. PICK g \in 1..(L - (i - 1)) : g = h + 1
      BY <1>1
    <2>2. d[m + g] = c[(i - 1) + g] /\ q[m + g + 1] = p[(i - 1) + g + 1]
      BY <1>4
    <2>3. m + g = (m + 1) + h /\ (i - 1) + g = i + h
      BY <1>1, <2>1
    <2> QED
      BY <2>2, <2>3
  <1> HIDE DEF more
  <1>10. Stage(l, q, d, p, c, i, more)
    BY <1>1, <1>3, <1>4, <1>7, <1>8, <1>9 DEF Stage
  <1> QED
    BY <1>10 DEF more

LEMMA StageRemoves ==
    ASSUME NEW l, NEW q, NEW d, NEW p, NEW c, ListHolds(obj, p, c), NEW i \in 1..Len(c),
           NEW kept \in Seq(Elements), Stage(l, q, d, p, c, i - 1, kept)
    PROVE  \E r, e : Stage(ListM!Unlink(l, p[i + 1]), r, e, p, c, i, kept)
  <1>1. PICK L \in Nat, m \in Nat, D \in Nat : L = Len(c) /\ m = Len(kept) /\ D = Len(d)
    <2>1. Len(c) \in Nat /\ Len(kept) \in Nat /\ Len(d) \in Nat
      BY DEF ListHolds, Stage
    <2> QED
      BY <2>1
  <1>2. /\ ListHolds(l, q, d) /\ D = m + (L - (i - 1)) /\ \A j \in 1..m : d[j] = kept[j]
        /\ \A h \in 1..(L - (i - 1)) : d[m + h] = c[(i - 1) + h] /\ q[m + h + 1] = p[(i - 1) + h + 1]
    BY <1>1 DEF Stage
  <1>3. 1 \in 1..(L - (i - 1)) /\ (i - 1) + 1 + 1 = i + 1
    BY <1>1
  <1>4. q[(m + 1) + 1] = p[i + 1]
    BY <1>2, <1>3
  <1>5. m + 1 \in 1..D
    BY <1>1, <1>2
  <1> DEFINE r == Removed(q, (m + 1) + 1)
             e == RemoveAt(d, m + 1)
             k == ListM!Unlink(l, q[(m + 1) + 1])
  <1>6. ListHolds(k, r, e)
    <2>1. PICK h \in 1..Len(d) : h = m + 1
      BY <1>1, <1>5
    <2>2. ListHolds(l, q, d)
      BY <1>2
    <2>3. ListHolds(ListM!Unlink(l, q[h + 1]), Removed(q, h + 1), RemoveAt(d, h))
      BY <2>2, ListUnlinkHolds
    <2> QED
      BY <2>1, <2>3
  <1>7. Len(e) = D - 1 /\ \A j \in 1..(D - 1) : e[j] = IF j < m + 1 THEN d[j] ELSE d[j + 1]
    <2>1. d \in Seq(Elements)
      BY <1>2 DEF ListHolds
    <2>2. m + 1 \in 1..Len(d)
      BY <1>1, <1>5
    <2> HIDE DEF e
    <2>3. Len(e) = Len(d) - 1 /\ \A j \in 1..(Len(d) - 1) : e[j] = IF j < m + 1 THEN d[j] ELSE d[j + 1]
      BY <2>1, <2>2, RemoveAtIs DEF e
    <2> QED
      BY <1>1, <2>3
  <1>8. Len(q) = D + 2
    BY <1>1, <1>2 DEF ListHolds
  <1>9. \A j \in 1..(D + 1) : r[j] = IF j < (m + 1) + 1 THEN q[j] ELSE q[j + 1]
    BY <1>1, <1>8 DEF Removed
  <1>10. D - 1 = m + (L - i)
    BY <1>1, <1>2
  <1>11. \A j \in 1..m : e[j] = kept[j]
    <2>1. ASSUME NEW j \in 1..m PROVE e[j] = kept[j]
      <3>1. j \in 1..(D - 1) /\ j < m + 1
        BY <1>1, <1>5
      <3> HIDE DEF e
      <3> QED
        BY <1>2, <1>7, <3>1
    <2> QED
      BY <2>1
  <1>12. ASSUME NEW h \in 1..(L - i)
         PROVE  e[m + h] = c[i + h] /\ r[m + h + 1] = p[i + h + 1]
    <2>1. PICK g \in 1..(L - (i - 1)) : g = h + 1
      BY <1>1
    <2>2. d[m + g] = c[(i - 1) + g] /\ q[m + g + 1] = p[(i - 1) + g + 1]
      BY <1>2
    <2>3. m + g = (m + h) + 1 /\ (i - 1) + g = i + h
      BY <1>1, <2>1
    <2>4. /\ m + h \in 1..(D - 1) /\ ~(m + h < m + 1)
          /\ (m + h) + 1 \in 1..(D + 1) /\ ~((m + h) + 1 < (m + 1) + 1)
      BY <1>1, <1>10
    <2> HIDE DEF e, r
    <2>5. e[m + h] = d[(m + h) + 1] /\ r[(m + h) + 1] = q[((m + h) + 1) + 1]
      BY <1>7, <1>9, <2>4
    <2> QED
      BY <2>2, <2>3, <2>5
  <1> HIDE DEF r, e, k
  <1>13. Stage(k, r, e, p, c, i, kept)
    BY <1>1, <1>6, <1>7, <1>10, <1>11, <1>12 DEF Stage
  <1>14. k = ListM!Unlink(l, p[i + 1])
    BY <1>4 DEF k
  <1> QED
    BY <1>13, <1>14

(* remove_if leaves the words its predicate does not accept. *)
LEMMA ListRemoveIfHolds ==
    ASSUME NEW p, NEW c, ListHolds(obj, p, c), NEW P \in SUBSET Elements, ListM!RemoveIf(P)
    PROVE  \E q : ListHolds(obj', q, Matching(c, Elements \ P))
  <1> DEFINE N == Len(ListM!Nodes)
             step == [s \in (1..N) \X Lists |->
                         IF obj.data[ListM!Nodes[s[1]]] \in P THEN ListM!Unlink(s[2], ListM!Nodes[s[1]]) ELSE s[2]]
             Is(g) == g = [i \in 0..N |-> IF i = 0 THEN obj
                                          ELSE IF obj.data[ListM!Nodes[i]] \in P THEN ListM!Unlink(g[i - 1], ListM!Nodes[i])
                                          ELSE g[i - 1]]
             after == CHOOSE g : Is(g)
  <1>1. PICK L \in Nat : L = Len(c)
    BY DEF ListHolds
  <1>2. /\ N = L /\ c \in Seq(Elements) /\ obj \in Lists
        /\ \A i \in 1..L : ListM!Nodes[i] = p[i + 1] /\ ListM!Nodes[i] \in ListM!Addresses /\ obj.data[ListM!Nodes[i]] = c[i] /\ c[i] \in Elements
    <2>1. /\ ListM!Nodes \in Seq(ListM!Addresses) /\ Len(ListM!Nodes) = Len(c)
          /\ \A j \in 1..Len(c) : ListM!Nodes[j] = p[j + 1]
      BY ListHoldsFacts
    <2> QED
      BY <1>1, <2>1 DEF ListHolds
  <1>3. step \in [(1..N) \X Lists -> Lists]
    <2>1. ASSUME NEW s \in (1..N) \X Lists
          PROVE  (IF obj.data[ListM!Nodes[s[1]]] \in P THEN ListM!Unlink(s[2], ListM!Nodes[s[1]]) ELSE s[2]) \in Lists
      <3>1. s[2] \in Lists /\ ListM!Nodes[s[1]] \in ListM!Addresses
        BY <1>2
      <3>2. ListM!Unlink(s[2], ListM!Nodes[s[1]]) \in Lists
        BY <3>1, ListUnlinkType
      <3> QED
        BY <3>1, <3>2
    <2> QED
      BY <2>1
  <1>4. PICK g : Recursive(g, N, Lists, obj, step)
    <2> HIDE DEF step, N
    <2> QED
      BY <1>1, <1>2, <1>3, RecursionUpTo
  <1>5. \E h : Is(h)
    <2>1. g \in [0..N -> Lists] /\ g[0] = obj
      BY <1>4 DEF Recursive
    <2>2. ASSUME NEW n \in 1..N
          PROVE  g[n] = IF obj.data[ListM!Nodes[n]] \in P THEN ListM!Unlink(g[n - 1], ListM!Nodes[n]) ELSE g[n - 1]
      <3>1. g[n] = step[<<n, g[n - 1]>>] /\ g[n - 1] \in Lists
        <4>1. n - 1 \in 0..N
          BY <1>1, <1>2
        <4> HIDE DEF step, N
        <4> QED
          BY <1>4, <2>1, <4>1 DEF Recursive
      <3>2. <<n, g[n - 1]>> \in (1..N) \X Lists
        BY <3>1
      <3> QED
        BY <3>1, <3>2
    <2>3. \A n \in 0..N : n = 0 \/ n \in 1..N
      BY <1>1, <1>2
    <2>4. Is(g)
      <3> HIDE DEF N
      <3> QED
        BY <2>1, <2>2, <2>3
    <2> HIDE DEF Is
    <2> QED
      BY <2>4
  <1>6. Is(after)
    <2> HIDE DEF Is
    <2> QED
      BY <1>5
  <1>7. obj' = after[N]
    BY DEF ListM!RemoveIf
  <1>8. after[0] = obj /\ \A n \in 1..L : after[n] = IF c[n] \in P THEN ListM!Unlink(after[n - 1], p[n + 1]) ELSE after[n - 1]
    <2> HIDE DEF after
    <2>1. 0 \in 0..N /\ \A n \in 1..L : n \in 0..N /\ n # 0
      BY <1>1, <1>2
    <2>2. after[0] = obj
      BY <1>6, <2>1
    <2>3. ASSUME NEW n \in 1..L
          PROVE  after[n] = IF obj.data[ListM!Nodes[n]] \in P THEN ListM!Unlink(after[n - 1], ListM!Nodes[n]) ELSE after[n - 1]
      BY <1>6, <2>1
    <2> QED
      BY <1>2, <2>2, <2>3
  <1> HIDE DEF after
  <1>9. PICK f :
            /\ f \in [0..L -> Seq(Elements \cap (Elements \ P))]
            /\ f[0] = <<>>
            /\ \A n \in 1..L : f[n] = IF c[n] \in Elements \ P THEN Append(f[n - 1], c[n]) ELSE f[n - 1]
            /\ Matching(c, Elements \ P) = f[L]
    <2>1. \E f : Collects(f, c, Elements, Elements \ P) /\ Matching(c, Elements \ P) = f[Len(c)]
      BY <1>2, MatchingFacts
    <2> QED
      BY <1>1, <2>1 DEF Collects
  <1> DEFINE S == {n \in 0..L : \E q, d : Stage(after[n], q, d, p, c, n, f[n])}
  <1>10. 0 \in S
    <2>1. \A h \in 1..(Len(c) - 0) : Len(f[0]) + h = h /\ 0 + h = h
      BY <1>1, <1>9
    <2>2. Len(c) = Len(f[0]) + (Len(c) - 0) /\ \A j \in 1..Len(f[0]) : FALSE
      BY <1>1, <1>9
    <2>3. Stage(obj, p, c, p, c, 0, f[0])
      BY <2>1, <2>2 DEF Stage
    <2> QED
      BY <1>1, <1>8, <2>3
  <1>11. ASSUME NEW n \in 1..L, n - 1 \in S PROVE n \in S
    <2>1. PICK q, d : Stage(after[n - 1], q, d, p, c, n - 1, f[n - 1])
      BY <1>11
    <2>2. f[n - 1] \in Seq(Elements) /\ n \in 1..Len(c) /\ n \in 0..L
      <3>1. n - 1 \in 0..L /\ n \in 1..Len(c) /\ n \in 0..L
        BY <1>1
      <3>2. Elements \cap (Elements \ P) \subseteq Elements
        OBVIOUS
      <3>3. f[n - 1] \in Seq(Elements \cap (Elements \ P))
        BY <1>9, <3>1
      <3> QED
        BY <3>1, <3>2, <3>3
    <2>3. CASE c[n] \in P
      <3>1. f[n] = f[n - 1] /\ after[n] = ListM!Unlink(after[n - 1], p[n + 1])
        BY <1>8, <1>9, <2>3
      <3>2. \E r, e : Stage(ListM!Unlink(after[n - 1], p[n + 1]), r, e, p, c, n, f[n - 1])
        BY <2>1, <2>2, StageRemoves
      <3> QED
        BY <2>2, <3>1, <3>2
    <2>4. CASE c[n] \notin P
      <3>1. f[n] = Append(f[n - 1], c[n]) /\ after[n] = after[n - 1]
        BY <1>2, <1>8, <1>9, <2>4
      <3>2. Stage(after[n - 1], q, d, p, c, n, Append(f[n - 1], c[n]))
        BY <2>1, <2>2, StageKeeps
      <3> QED
        BY <2>2, <3>1, <3>2
    <2> QED
      BY <2>3, <2>4
  <1>12. 0..L \subseteq S
    <2> HIDE DEF S
    <2> QED
      BY <1>10, <1>11, UpTo
  <1>13. PICK q, d : Stage(after[L], q, d, p, c, L, f[L])
    BY <1>1, <1>12
  <1>14. d = f[L]
    <2>1. f[L] \in Seq(Elements) /\ d \in Seq(Elements)
      <3>1. L \in 0..L /\ Elements \cap (Elements \ P) \subseteq Elements
        BY <1>1
      <3>2. f[L] \in Seq(Elements \cap (Elements \ P))
        BY <1>9, <3>1
      <3>3. d \in Seq(Elements)
        BY <1>13 DEF Stage, ListHolds
      <3> QED
        BY <3>1, <3>2, <3>3
    <2>2. PICK e \in Seq(Elements), m \in Nat : e = f[L] /\ m = Len(e)
      BY <2>1
    <2>3. Len(d) = m /\ \A j \in 1..m : d[j] = e[j]
      BY <1>1, <1>13, <2>2 DEF Stage
    <2>4. d = e
      BY <2>1, <2>2, <2>3, SeqEqual
    <2> QED
      BY <2>2, <2>4
  <1>15. ListHolds(obj', q, Matching(c, Elements \ P))
    BY <1>1, <1>2, <1>7, <1>9, <1>13, <1>14 DEF Stage
  <1> QED
    BY <1>15

-----------------------------------------------------------------------------
(* A step of the list that a client of a sequence could see as one of its own.*)
Follows(c, d) == Items = c /\ Items' = d /\ OtherItems' = OtherItems

LEMMA ListInsertStep ==
    ASSUME NEW p, NEW c, ListHolds(obj, p, c), NEW op, NEW i \in 1..(Len(c) + 1),
           NEW x \in Elements, ListM!Insert(op, p[i], x)
    PROVE  /\ life' = life
           /\ \E q, d :
                  /\ ListHolds(obj', q, d)
                  /\ \/ d = InsertAt(c, i, x) /\ last' = [op |-> op, arg |-> x, answer |-> ListM!CTrue]
                     \/ d = c /\ last' = [op |-> op, arg |-> x, answer |-> ListM!CFalse]
  <1>1. CASE \E n \in ListM!Fresh : ListM!Did(op, x, ListM!CTrue) /\ obj' = ListM!Link(obj, p[i], obj.next[p[i]], n, x)
    <2>1. PICK n \in ListM!Fresh : ListM!Did(op, x, ListM!CTrue) /\ obj' = ListM!Link(obj, p[i], obj.next[p[i]], n, x)
      BY <1>1
    <2>2. n \in ListM!Addresses /\ \A j \in 1..Len(p) : p[j] # n
      BY ListHoldsFacts
    <2>3. ListHolds(obj', Inserted(p, i, n), InsertAt(c, i, x))
      BY <2>1, <2>2, ListLinkHolds
    <2> QED
      BY <2>1, <2>3 DEF ListM!Did, ListM!Makes
  <1>2. CASE ListM!Did(op, x, ListM!CFalse) /\ UNCHANGED obj
    BY <1>2 DEF ListM!Did, ListM!Makes
  <1> QED
    BY <1>1, <1>2 DEF ListM!Insert

LEMMA ListPushFrontStep ==
    ASSUME NEW p, NEW c, ListHolds(obj, p, c), NEW x \in Elements, ListM!PushFront(x)
    PROVE  /\ life' = life
           /\ \E q, d : ListHolds(obj', q, d) /\ (Follows(c, d) => Seq0!Push(x))
  <1>1. c \in Seq(Elements) /\ Len(c) \in Nat /\ p[1] = ListM!Head0 /\ 1 \in 1..(Len(c) + 1)
    BY DEF ListHolds, IsChain
  <1>2. ListM!Insert("push_front", p[1], x)
    BY <1>1 DEF ListM!PushFront
  <1>3. life' = life
    BY <1>1, <1>2, ListInsertStep
  <1>4. PICK q, d :
            /\ ListHolds(obj', q, d)
            /\ \/ d = InsertAt(c, 1, x) /\ last' = [op |-> "push_front", arg |-> x, answer |-> ListM!CTrue]
               \/ d = c /\ last' = [op |-> "push_front", arg |-> x, answer |-> ListM!CFalse]
    BY <1>1, <1>2, ListInsertStep
  <1>5. InsertAt(c, 1, x) = <<x>> \o c
    BY <1>1, InsertEnds
  <1>6. ASSUME Follows(c, d) PROVE Seq0!Push(x)
    <2>1. \/ Seq0!Call("push_front", x, Seq0!CTrue, <<x>> \o Items)
          \/ Seq0!Call("push_front", x, Seq0!CFalse, Items)
      BY <1>4, <1>5, <1>6, SameOperators DEF Follows, Seq0!Call
    <2> QED
      BY <2>1 DEF Seq0!Push
  <1> QED
    BY <1>3, <1>4, <1>6

LEMMA ListPushBackStep ==
    ASSUME NEW p, NEW c, ListHolds(obj, p, c), NEW x \in Elements, ListM!PushBack(x)
    PROVE  /\ life' = life
           /\ \E q, d : ListHolds(obj', q, d) /\ (Follows(c, d) => Seq0!Push(x))
  <1>1. PICK L \in Nat : L = Len(c)
    BY DEF ListHolds
  <1>2. c \in Seq(Elements) /\ obj.previous[ListM!Tail0] = p[L + 1] /\ L + 1 \in 1..(Len(c) + 1)
    <2>1. L + 1 \in 1..(Len(p) - 1) /\ (L + 1) + 1 = Len(p)
      BY <1>1 DEF ListHolds
    <2> QED
      BY <1>1, <2>1 DEF ListHolds, IsChain
  <1>3. ListM!Insert("push_back", p[L + 1], x)
    BY <1>2 DEF ListM!PushBack
  <1>4. life' = life
    BY <1>2, <1>3, ListInsertStep
  <1>5. PICK q, d :
            /\ ListHolds(obj', q, d)
            /\ \/ d = InsertAt(c, L + 1, x) /\ last' = [op |-> "push_back", arg |-> x, answer |-> ListM!CTrue]
               \/ d = c /\ last' = [op |-> "push_back", arg |-> x, answer |-> ListM!CFalse]
    BY <1>2, <1>3, ListInsertStep
  <1>6. InsertAt(c, L + 1, x) = Append(c, x)
    BY <1>1, <1>2, InsertEnds
  <1>7. ASSUME Follows(c, d) PROVE Seq0!Push(x)
    <2>1. \/ Seq0!Call("push_back", x, Seq0!CTrue, Append(Items, x))
          \/ Seq0!Call("push_back", x, Seq0!CFalse, Items)
      BY <1>5, <1>6, <1>7, SameOperators DEF Follows, Seq0!Call
    <2> QED
      BY <2>1 DEF Seq0!Push
  <1> QED
    BY <1>4, <1>5, <1>7

LEMMA ListInsertAfterStep ==
    ASSUME NEW p, NEW c, ListHolds(obj, p, c), NEW x \in Elements, ListM!InsertAfter(x)
    PROVE  /\ life' = life
           /\ \E q, d : ListHolds(obj', q, d) /\ (Follows(c, d) => Seq0!Push(x))
  <1>1. c \in Seq(Elements) /\ Len(c) \in Nat
    BY DEF ListHolds
  <1>2. PICK n \in {ListM!Head0} \cup ListM!Range(ListM!Nodes) : ListM!Insert("insert_after", n, x)
    BY DEF ListM!InsertAfter
  <1>3. PICK i \in 1..(Len(c) + 1) : n = p[i]
    <2>1. CASE n = ListM!Head0
      BY <1>1, <2>1 DEF ListHolds, IsChain
    <2>2. CASE n \in ListM!Range(ListM!Nodes)
      <3>1. ListM!Nodes \in Seq(ListM!Addresses) /\ Len(ListM!Nodes) = Len(c) /\ \A j \in 1..Len(c) : ListM!Nodes[j] = p[j + 1]
        BY ListHoldsFacts
      <3>2. PICK j \in 1..Len(c) : n = ListM!Nodes[j]
        BY <2>2, <3>1 DEF ListM!Range
      <3> QED
        BY <1>1, <3>1, <3>2
    <2> QED
      BY <2>1, <2>2
  <1>4. ListM!Insert("insert_after", p[i], x)
    BY <1>2, <1>3
  <1>5. life' = life
    BY <1>4, ListInsertStep
  <1>6. PICK q, d :
            /\ ListHolds(obj', q, d)
            /\ \/ d = InsertAt(c, i, x) /\ last' = [op |-> "insert_after", arg |-> x, answer |-> ListM!CTrue]
               \/ d = c /\ last' = [op |-> "insert_after", arg |-> x, answer |-> ListM!CFalse]
    BY <1>4, ListInsertStep
  <1>7. ASSUME Follows(c, d) PROVE Seq0!Push(x)
    <2>1. \/ Seq0!Call("insert_after", x, Seq0!CTrue, Seq0!InsertAt(Items, i, x))
          \/ Seq0!Call("insert_after", x, Seq0!CFalse, Items)
      BY <1>6, <1>7, SameOperators DEF Follows, Seq0!Call
    <2>2. i \in 1..(Len(Items) + 1)
      BY <1>7 DEF Follows
    <2> QED
      BY <2>1, <2>2 DEF Seq0!Push
  <1> QED
    BY <1>5, <1>6, <1>7

LEMMA ListPopFrontStep ==
    ASSUME NEW p, NEW c, ListHolds(obj, p, c), ListM!PopFront
    PROVE  /\ life' \in {life, "undefined"}
           /\ \E q, d : ListHolds(obj', q, d) /\ (life' # "undefined" /\ Follows(c, d) => Seq0!Take)
  <1>1. PICK L \in Nat : L = Len(c)
    BY DEF ListHolds
  <1>2. /\ c \in Seq(Elements) /\ Len(p) = L + 2 /\ obj.next[ListM!Head0] = p[1 + 1] /\ p[1] = ListM!Head0 /\ p[L + 2] = ListM!Tail0
        /\ \A a, b \in 1..(L + 2) : p[a] = p[b] => a = b
    <2>1. 1 \in 1..(Len(p) - 1)
      BY DEF ListHolds, IsChain
    <2> QED
      BY <1>1, <2>1 DEF ListHolds, IsChain
  <1>3. CASE p[1 + 1] \in {ListM!Head0, ListM!Tail0}
    BY <1>2, <1>3 DEF ListM!PopFront, ListM!Pop, ListM!Breaks, ListM!Makes, Follows
  <1>4. CASE p[1 + 1] \notin {ListM!Head0, ListM!Tail0}
    <2>1. L # 0
      BY <1>2, <1>4
    <2>2. 1 \in 1..Len(c)
      BY <1>1, <2>1
    <2>3. ListM!Did("pop_front", Null, obj.data[p[1 + 1]]) /\ obj' = ListM!Unlink(obj, p[1 + 1])
      BY <1>2, <1>4 DEF ListM!PopFront, ListM!Pop
    <2>4. ListHolds(obj', Removed(p, 1 + 1), RemoveAt(c, 1))
      BY <2>2, <2>3, ListUnlinkHolds
    <2>5. obj.data[p[1 + 1]] = c[1] /\ c # <<>>
      BY <2>2 DEF ListHolds
    <2>6. RemoveAt(c, 1) = Tail(c) /\ Head(c) = c[1]
      BY <1>2, <2>5, RemoveEnds
    <2>7. ASSUME Follows(c, RemoveAt(c, 1)) PROVE Seq0!Take
      <3>1. Seq0!Call("pop_front", Null, Head(Items), Tail(Items)) /\ Items # <<>>
        BY <2>3, <2>5, <2>6, <2>7 DEF Follows, Seq0!Call, ListM!Did, ListM!Makes
      <3> QED
        BY <3>1 DEF Seq0!Take
    <2> QED
      BY <2>3, <2>4, <2>7 DEF ListM!Did
  <1> QED
    BY <1>3, <1>4

LEMMA ListPopBackStep ==
    ASSUME NEW p, NEW c, ListHolds(obj, p, c), ListM!PopBack
    PROVE  /\ life' \in {life, "undefined"}
           /\ \E q, d : ListHolds(obj', q, d) /\ (life' # "undefined" /\ Follows(c, d) => Seq0!Take)
  <1>1. PICK L \in Nat : L = Len(c)
    BY DEF ListHolds
  <1>2. /\ c \in Seq(Elements) /\ Len(p) = L + 2 /\ obj.previous[ListM!Tail0] = p[L + 1] /\ p[1] = ListM!Head0 /\ p[L + 2] = ListM!Tail0
        /\ \A a, b \in 1..(L + 2) : p[a] = p[b] => a = b
    <2>1. L + 1 \in 1..(Len(p) - 1) /\ Len(p) = (L + 1) + 1
      BY <1>1 DEF ListHolds, IsChain
    <2> QED
      BY <1>1, <2>1 DEF ListHolds, IsChain
  <1>3. CASE p[L + 1] \in {ListM!Head0, ListM!Tail0}
    BY <1>2, <1>3 DEF ListM!PopBack, ListM!Pop, ListM!Breaks, ListM!Makes, Follows
  <1>4. CASE p[L + 1] \notin {ListM!Head0, ListM!Tail0}
    <2>1. L # 0
      BY <1>2, <1>4
    <2>2. PICK i \in 1..Len(c) : i = L
      BY <1>1, <2>1
    <2>3. ListM!Did("pop_back", Null, obj.data[p[i + 1]]) /\ obj' = ListM!Unlink(obj, p[i + 1])
      BY <1>2, <1>4, <2>2 DEF ListM!PopBack, ListM!Pop
    <2>4. ListHolds(obj', Removed(p, i + 1), RemoveAt(c, i))
      BY <2>3, ListUnlinkHolds
    <2>5. obj.data[p[i + 1]] = c[i] /\ c # <<>>
      BY <2>2 DEF ListHolds
    <2>6. RemoveAt(c, i) = Front(c) /\ Last(c) = c[i]
      BY <1>1, <1>2, <2>2, <2>5, RemoveEnds DEF Last
    <2>7. ASSUME Follows(c, RemoveAt(c, i)) PROVE Seq0!Take
      <3>1. Seq0!Call("pop_back", Null, Seq0!Last(Items), Seq0!Front(Items)) /\ Items # <<>>
        BY <2>3, <2>5, <2>6, <2>7, SameOperators DEF Follows, Seq0!Call, ListM!Did, ListM!Makes
      <3> QED
        BY <3>1 DEF Seq0!Take
    <2> QED
      BY <2>3, <2>4, <2>7 DEF ListM!Did
  <1> QED
    BY <1>3, <1>4

LEMMA ListLookStep ==
    ASSUME NEW p, NEW c, ListHolds(obj, p, c), ListM!Look
    PROVE  /\ life' = life
           /\ \E q, d : ListHolds(obj', q, d) /\ (Follows(c, d) => Seq0!Take)
  <1>1. PICK L \in Nat : L = Len(c)
    BY DEF ListHolds
  <1>2. /\ c \in Seq(Elements) /\ Len(p) = L + 2 /\ p[1] = ListM!Head0 /\ p[L + 2] = ListM!Tail0
        /\ obj.next[ListM!Head0] = p[1 + 1] /\ obj.previous[ListM!Tail0] = p[L + 1]
        /\ obj.data[ListM!Head0] = Null /\ obj.data[ListM!Tail0] = Null
        /\ \A j \in 1..L : obj.data[p[j + 1]] = c[j]
    <2>1. L + 1 \in 1..(Len(p) - 1) /\ Len(p) = (L + 1) + 1 /\ 1 \in 1..(Len(p) - 1)
      BY <1>1 DEF ListHolds, IsChain
    <2> QED
      BY <1>1, <2>1 DEF ListHolds, IsChain
  <1>3. UNCHANGED <<obj, life>>
    BY DEF ListM!Look, ListM!Did
  <1>4. ASSUME Follows(c, c) PROVE Seq0!Take
    <2>1. CASE c = <<>>
      <3>1. L = 0
        BY <1>1, <2>1
      <3>2. \E op \in {"front", "back"} : ListM!Did(op, Null, Null)
        BY <1>2, <3>1 DEF ListM!Look
      <3> QED
        BY <1>4, <2>1, <3>2 DEF Follows, Seq0!Take, Seq0!Call, ListM!Did, ListM!Makes
    <2>2. CASE c # <<>>
      <3>1. L \in 1..L /\ 1 \in 1..L
        BY <1>1, <1>2, <2>2
      <3>2. obj.data[p[1 + 1]] = Head(c) /\ obj.data[p[L + 1]] = Last(c)
        BY <1>1, <1>2, <2>2, <3>1 DEF Last
      <3>3. ListM!Did("front", Null, Head(c)) \/ ListM!Did("back", Null, Last(c))
        BY <1>2, <3>2 DEF ListM!Look
      <3>4. Seq0!Call("front", Null, Head(Items), Items) \/ Seq0!Call("back", Null, Seq0!Last(Items), Items)
        BY <1>4, <3>3, SameOperators DEF Follows, Seq0!Call, ListM!Did, ListM!Makes
      <3> QED
        BY <1>4, <2>2, <3>4 DEF Follows, Seq0!Take
    <2> QED
      BY <2>1, <2>2
  <1> QED
    BY <1>3, <1>4

LEMMA ListFindIfStep ==
    ASSUME NEW p, NEW c, ListHolds(obj, p, c), NEW P \in SUBSET Elements, ListM!FindIf(P)
    PROVE  /\ life' = life
           /\ \E q, d : ListHolds(obj', q, d) /\ (Follows(c, d) => Seq0!Search(P))
  <1>1. ListM!Contents = c
    BY ListHoldsFacts
  <1>2. UNCHANGED <<obj, life>>
    BY DEF ListM!FindIf, ListM!Did
  <1>3. ListM!Did("find_if", P, IF Matching(c, P) = <<>> THEN Null ELSE Head(Matching(c, P)))
    BY <1>1, SameOperators DEF ListM!FindIf
  <1>4. ASSUME Follows(c, c) PROVE Seq0!Search(P)
    <2>1. Seq0!Call("find_if", P, IF Seq0!Matching(Items, P) = <<>> THEN Null ELSE Head(Seq0!Matching(Items, P)), Items)
      BY <1>3, <1>4, SameOperators DEF Follows, Seq0!Call, ListM!Did, ListM!Makes
    <2> QED
      BY <2>1 DEF Seq0!Search
  <1> QED
    BY <1>2, <1>4

LEMMA ListRemoveIfStep ==
    ASSUME NEW p, NEW c, ListHolds(obj, p, c), NEW P \in SUBSET Elements, ListM!RemoveIf(P)
    PROVE  /\ life' = life
           /\ \E q, d : ListHolds(obj', q, d) /\ (Follows(c, d) => Seq0!Search(P))
  <1>1. ListM!Contents = c
    BY ListHoldsFacts
  <1>2. PICK q : ListHolds(obj', q, Matching(c, Elements \ P))
    BY ListRemoveIfHolds
  <1>3. ListM!Did("remove_if", P, ListM!Bool(Matching(c, P) # <<>>))
    BY <1>1, SameOperators DEF ListM!RemoveIf
  <1>4. ASSUME Follows(c, Matching(c, Elements \ P)) PROVE Seq0!Search(P)
    <2>1. Seq0!Call("remove_if", P, IF Seq0!Matching(Items, P) = <<>> THEN Seq0!CFalse ELSE Seq0!CTrue,
                    Seq0!Matching(Items, Elements \ P))
      BY <1>3, <1>4, SameOperators DEF Follows, Seq0!Call, ListM!Did, ListM!Makes, ListM!Bool
    <2> QED
      BY <2>1 DEF Seq0!Search
  <1> QED
    BY <1>2, <1>3, <1>4 DEF ListM!Did

ListInv == life \in ListM!Lives /\ \E p, c : ListHolds(obj, p, c)

LEMMA ListInitInv == ListM!Init => ListInv
  <1> SUFFICES ASSUME ListM!Init PROVE ListInv
    OBVIOUS
  <1> DEFINE p == <<ListM!Head0, ListM!Tail0>>
  <1>1. MaxElements \in Nat /\ ListM!Head0 \in ListM!Addresses /\ ListM!Tail0 \in ListM!Addresses /\ ListM!Head0 # ListM!Tail0
    BY ContainersAssumption DEF ListM!Head0, ListM!Tail0, ListM!Addresses
  <1>2. obj \in Lists
    BY <1>1 DEF ListM!Init, Lists, Links
  <1>3. p \in Seq(ListM!Addresses) /\ Len(p) = 2 /\ p[1] = ListM!Head0 /\ p[2] = ListM!Tail0
    BY <1>1
  <1> HIDE DEF p
  <1>4. IsChain(obj, p)
    BY <1>1, <1>3 DEF ListM!Init, IsChain
  <1>5. obj.data[ListM!Head0] = Null /\ obj.data[ListM!Tail0] = Null
    BY <1>1 DEF ListM!Init
  <1>6. <<>> \in Seq(Elements) /\ Len(<<>>) = 0
    OBVIOUS
  <1>7. ListHolds(obj, p, <<>>)
    BY <1>2, <1>3, <1>4, <1>5, <1>6 DEF ListHolds
  <1> QED
    BY <1>7 DEF ListM!Init, ListM!ClientInit, ListInv, ListM!Lives

(* Every step of the list keeps the invariant and is one of the sequence.    *)
LEMMA ListStep ==
    ASSUME NEW p, NEW c, ListHolds(obj, p, c), life \in ListM!Lives, ListM!Next
    PROVE  /\ life' \in ListM!Lives
           /\ \E q, d : ListHolds(obj', q, d) /\ (life' # "undefined" /\ Follows(c, d) => [Seq0!Next]_(Seq0!vars))
  <1>1. CASE \E x \in Elements : ListM!PushFront(x) \/ ListM!PushBack(x) \/ ListM!InsertAfter(x)
    <2>1. PICK x \in Elements : ListM!PushFront(x) \/ ListM!PushBack(x) \/ ListM!InsertAfter(x)
      BY <1>1
    <2>2. life' = life /\ \E q, d : ListHolds(obj', q, d) /\ (Follows(c, d) => Seq0!Push(x))
      BY <2>1, ListPushFrontStep, ListPushBackStep, ListInsertAfterStep
    <2> QED
      BY <2>2 DEF Seq0!Next
  <1>2. CASE ListM!PopFront \/ ListM!PopBack \/ ListM!Look
    <2>1. /\ life' \in {life, "undefined"}
          /\ \E q, d : ListHolds(obj', q, d) /\ (life' # "undefined" /\ Follows(c, d) => Seq0!Take)
      BY <1>2, ListPopFrontStep, ListPopBackStep, ListLookStep
    <2> QED
      BY <2>1 DEF Seq0!Next, ListM!Lives
  <1>3. CASE ListM!Free \/ ListM!DeepFree
    <2>1. UNCHANGED obj /\ life' \in ListM!Lives /\ last'.op = "free"
      BY <1>3 DEF ListM!Free, ListM!DeepFree, ListM!Breaks, ListM!Frees, ListM!Makes, ListM!Lives
    <2>2. Follows(c, c) => [Seq0!Next]_(Seq0!vars)
      BY <2>1 DEF Follows, Seq0!Next, Seq0!Keep, Seq0!vars
    <2> QED
      BY <2>1, <2>2
  <1>4. CASE \E P \in SUBSET Elements : ListM!FindIf(P) \/ ListM!RemoveIf(P) \/ ListM!RemoveIfDeep(P)
    <2>1. PICK P \in SUBSET Elements : ListM!FindIf(P) \/ ListM!RemoveIf(P) \/ ListM!RemoveIfDeep(P)
      BY <1>4
    <2>2. CASE ListM!FindIf(P) \/ ListM!RemoveIf(P)
      <3>1. life' = life /\ \E q, d : ListHolds(obj', q, d) /\ (Follows(c, d) => Seq0!Search(P))
        BY <2>2, ListFindIfStep, ListRemoveIfStep
      <3> QED
        BY <3>1 DEF Seq0!Next
    <2>3. CASE ListM!RemoveIfDeep(P) /\ ~ListM!RemoveIf(P)
      BY <2>3 DEF ListM!RemoveIfDeep, ListM!Breaks, ListM!Lives
    <2> QED
      BY <2>1, <2>2, <2>3
  <1> QED
    BY <1>1, <1>2, <1>3, <1>4 DEF ListM!Next

-----------------------------------------------------------------------------
(* The arena. *)

ArenaInv ==
    /\ obj \in [current : 0..Total,
                  given : SUBSET [answer : 0..Total, size : 0..(SizeModulus - 1)]]
    /\ life \in ArenaM!Lives

(* A sum of two size_t is a size_t. *)
LEMMA SumFacts ==
    ASSUME NEW a \in 0..(SizeModulus - 1), NEW b \in 0..(SizeModulus - 1)
    PROVE  (a + b) % SizeModulus \in 0..(SizeModulus - 1)
  <1>1. SizeModulus \in Nat \ {0} /\ a \in Nat /\ b \in Nat
    BY ArenaAssumption
  <1>2. CASE a + b < SizeModulus
    BY <1>1, <1>2
  <1>3. CASE a + b >= SizeModulus
    <2>1. (a + b) % SizeModulus = a + b - SizeModulus
      BY <1>1, <1>3
    <2> QED
      BY <1>1, <1>3, <2>1
  <1> QED
    BY <1>1, <1>2, <1>3

LEMMA ArenaInitInv == ArenaM!Init => ArenaInv
  BY ArenaAssumption DEF ArenaM!Init, ArenaM!ClientInit, ArenaInv, ArenaM!Lives

(* An allocation that fits leaves the counter within the arena. *)
LEMMA ArenaAllocInv ==
    ASSUME ArenaInv, NEW size \in Sizes, ArenaM!Alloc(size)
    PROVE  ArenaInv'
  <1> DEFINE sum == (obj.current + size) % SizeModulus
             new == [answer |-> sum, size |-> size]
  <1>1. CASE ~ArenaM!Fits(size)
    BY <1>1 DEF ArenaM!Alloc, ArenaM!Did, ArenaM!Makes, ArenaInv
  <1>2. CASE ArenaM!Fits(size)
    <2>1. /\ obj.current \in 0..(SizeModulus - 1)
          /\ size \in 0..(SizeModulus - 1)
          /\ Total \in Nat
      BY ArenaAssumption DEF ArenaInv
    <2>2. sum \in 0..Total
      BY <1>2, <2>1, SumFacts DEF ArenaM!Fits
    <2>3. /\ obj' = [current |-> sum, given |-> obj.given \cup {new}]
          /\ life' = life
      BY <1>2 DEF ArenaM!Alloc, ArenaM!Did, ArenaM!Makes
    <2>4. obj' \in [current : 0..Total,
                      given : SUBSET [answer : 0..Total, size : 0..(SizeModulus - 1)]]
      BY <2>1, <2>2, <2>3 DEF ArenaInv
    <2> QED
      BY <2>3, <2>4 DEF ArenaInv
  <1> QED
    BY <1>1, <1>2

LEMMA ArenaStepInv == ArenaInv /\ [ArenaM!Next]_ArenaM!vars => ArenaInv'
  <1> SUFFICES ASSUME ArenaInv, [ArenaM!Next]_ArenaM!vars PROVE ArenaInv'
    OBVIOUS
  <1>1. CASE \E size \in Sizes : ArenaM!Alloc(size)
    BY <1>1, ArenaAllocInv
  <1>2. CASE ArenaM!Reset
    BY <1>2, ArenaAssumption
    DEF ArenaM!Reset, ArenaM!Did, ArenaM!Makes, ArenaInv
  <1>3. CASE ArenaM!Look \/ ArenaM!Free
    BY <1>3 DEF ArenaM!Look, ArenaM!Free, ArenaM!Did, ArenaM!Makes, ArenaM!Frees, ArenaInv, ArenaM!Lives
  <1>4. CASE UNCHANGED ArenaM!vars
    BY <1>4 DEF ArenaM!vars, ArenaM!clientVars, ArenaInv
  <1> QED
    BY <1>1, <1>2, <1>3, <1>4 DEF ArenaM!Next

-----------------------------------------------------------------------------
(* The LRU cache. *)

LruNodes == [key : Keys, value : Elements, prev : LruM!Links, next : LruM!Links]
LruCaches ==
    [table : [LruM!Hashes -> LruM!Links], nodes : [LruM!Addresses -> LruNodes \cup {Null}],
     head : LruM!Links, tail : LruM!Links, size : Nat, latest : [Keys -> Elements \cup {Null}]]

LEMMA NullIsNoNode == Null \notin LruNodes /\ Null \notin LruM!Addresses
  BY ContainersAssumption, NullAssumption, SequentialAssumption DEF LruNodes, LruM!Links, LruM!Addresses

(* The addresses that have a node. *)
Live(c) == {a \in LruM!Addresses : c.nodes[a] # Null}

LEMMA LiveNodes ==
    ASSUME NEW c \in LruCaches
    PROVE  \A a \in LruM!Addresses : a \in Live(c) <=> c.nodes[a] \in LruNodes
  BY NullIsNoNode DEF LruCaches, Live

(* d is c but for the links and the ends of its list. *)
SameBut(c, d) ==
    /\ d \in LruCaches /\ Live(d) = Live(c)
    /\ d.table = c.table /\ d.size = c.size /\ d.latest = c.latest
    /\ \A a \in Live(c) : d.nodes[a].key = c.nodes[a].key /\ d.nodes[a].value = c.nodes[a].value

LEMMA SameButTwice ==
    ASSUME NEW c, NEW d, NEW e, SameBut(c, d), SameBut(d, e)
    PROVE  SameBut(c, e)
  BY DEF SameBut

PrevSet(c, d, n, m) ==
    /\ SameBut(c, d) /\ d.head = c.head /\ d.tail = c.tail
    /\ \A a \in Live(c) : /\ d.nodes[a].prev = IF a = n THEN m ELSE c.nodes[a].prev
                          /\ d.nodes[a].next = c.nodes[a].next

NextSet(c, d, n, m) ==
    /\ SameBut(c, d) /\ d.head = c.head /\ d.tail = c.tail
    /\ \A a \in Live(c) : /\ d.nodes[a].next = IF a = n THEN m ELSE c.nodes[a].next
                          /\ d.nodes[a].prev = c.nodes[a].prev

EndsSet(c, d, head, tail) ==
    /\ SameBut(c, d) /\ d.head = head /\ d.tail = tail
    /\ \A a \in Live(c) : d.nodes[a].prev = c.nodes[a].prev /\ d.nodes[a].next = c.nodes[a].next

(* One node replaced. *)
NodeSet(c, d, n, node) ==
    /\ d \in LruCaches /\ Live(d) = Live(c)
    /\ d.table = c.table /\ d.size = c.size /\ d.latest = c.latest
    /\ d.head = c.head /\ d.tail = c.tail
    /\ \A a \in LruM!Addresses : d.nodes[a] = IF a = n THEN node ELSE c.nodes[a]

WithNode(c, n, node) == [c EXCEPT !.nodes[n] = node]

LEMMA NodeIsSet ==
    ASSUME NEW c \in LruCaches, NEW n \in Live(c), NEW node \in LruNodes,
           NEW d, d = WithNode(c, n, node)
    PROVE  NodeSet(c, d, n, node)
  <1>1. n \in LruM!Addresses
    BY DEF Live
  <1>2. PICK nodes : nodes = [c.nodes EXCEPT ![n] = node]
    OBVIOUS
  <1>3. /\ nodes \in [LruM!Addresses -> LruNodes \cup {Null}]
        /\ \A a \in LruM!Addresses : nodes[a] = IF a = n THEN node ELSE c.nodes[a]
    BY <1>1, <1>2 DEF LruCaches
  <1>4. d = [c EXCEPT !.nodes = nodes]
    BY <1>2 DEF WithNode
  <1>5. /\ d \in LruCaches /\ d.nodes = nodes
        /\ d.table = c.table /\ d.size = c.size /\ d.latest = c.latest
        /\ d.head = c.head /\ d.tail = c.tail
    BY <1>3, <1>4 DEF LruCaches
  <1>6. Live(d) = Live(c)
    BY <1>3, <1>5, NullIsNoNode DEF Live
  <1> QED
    BY <1>3, <1>5, <1>6 DEF NodeSet

LEMMA PrevIsSet ==
    ASSUME NEW c \in LruCaches, NEW n \in Live(c), NEW m \in LruM!Links,
           NEW d, d = [c EXCEPT !.nodes[n].prev = m]
    PROVE  PrevSet(c, d, n, m)
  <1>1. PICK node : node = [c.nodes[n] EXCEPT !.prev = m]
    OBVIOUS
  <1>2. n \in LruM!Addresses /\ c.nodes[n] \in LruNodes
    BY LiveNodes DEF Live
  <1>3. /\ node \in LruNodes /\ node.prev = m
        /\ node.key = c.nodes[n].key /\ node.value = c.nodes[n].value /\ node.next = c.nodes[n].next
    BY <1>1, <1>2 DEF LruNodes
  <1>4. d = WithNode(c, n, node)
    BY <1>1 DEF WithNode
  <1>5. NodeSet(c, d, n, node)
    BY <1>3, <1>4, NodeIsSet
  <1>6. Live(c) \subseteq LruM!Addresses
    BY DEF Live
  <1> QED
    BY <1>3, <1>5, <1>6 DEF NodeSet, PrevSet, SameBut

LEMMA NextIsSet ==
    ASSUME NEW c \in LruCaches, NEW n \in Live(c), NEW m \in LruM!Links,
           NEW d, d = [c EXCEPT !.nodes[n].next = m]
    PROVE  NextSet(c, d, n, m)
  <1>1. PICK node : node = [c.nodes[n] EXCEPT !.next = m]
    OBVIOUS
  <1>2. n \in LruM!Addresses /\ c.nodes[n] \in LruNodes
    BY LiveNodes DEF Live
  <1>3. /\ node \in LruNodes /\ node.next = m
        /\ node.key = c.nodes[n].key /\ node.value = c.nodes[n].value /\ node.prev = c.nodes[n].prev
    BY <1>1, <1>2 DEF LruNodes
  <1>4. d = WithNode(c, n, node)
    BY <1>1 DEF WithNode
  <1>5. NodeSet(c, d, n, node)
    BY <1>3, <1>4, NodeIsSet
  <1>6. Live(c) \subseteq LruM!Addresses
    BY DEF Live
  <1> QED
    BY <1>3, <1>5, <1>6 DEF NodeSet, NextSet, SameBut

LEMMA EndsAreSet ==
    ASSUME NEW c \in LruCaches, NEW head \in LruM!Links, NEW tail \in LruM!Links,
           NEW d, d = [c EXCEPT !.head = head, !.tail = tail]
    PROVE  EndsSet(c, d, head, tail)
  <1>1. PICK e : e = [c EXCEPT !.head = head]
    OBVIOUS
  <1>2. /\ e \in LruCaches /\ e.head = head /\ e.tail = c.tail /\ e.nodes = c.nodes
        /\ e.table = c.table /\ e.size = c.size /\ e.latest = c.latest
    BY <1>1 DEF LruCaches
  <1>3. d = [e EXCEPT !.tail = tail]
    BY <1>1
  <1>4. /\ d \in LruCaches /\ d.head = e.head /\ d.tail = tail /\ d.nodes = e.nodes
        /\ d.table = e.table /\ d.size = e.size /\ d.latest = e.latest
    BY <1>2, <1>3 DEF LruCaches
  <1> QED
    BY <1>2, <1>4 DEF EndsSet, SameBut, Live

LEMMA SetPrevIs ==
    ASSUME NEW c \in LruCaches, NEW n \in Live(c) \cup {Null}, NEW m \in LruM!Links
    PROVE  PrevSet(c, LruM!SetPrev(c, n, m), n, m)
  <1>1. CASE n = Null
    BY <1>1, NullIsNoNode DEF LruM!SetPrev, PrevSet, SameBut, Live
  <1>2. CASE n # Null
    BY <1>2, PrevIsSet DEF LruM!SetPrev
  <1> QED
    BY <1>1, <1>2

LEMMA SetNextIs ==
    ASSUME NEW c \in LruCaches, NEW n \in Live(c) \cup {Null}, NEW m \in LruM!Links
    PROVE  NextSet(c, LruM!SetNext(c, n, m), n, m)
  <1>1. CASE n = Null
    BY <1>1, NullIsNoNode DEF LruM!SetNext, NextSet, SameBut, Live
  <1>2. CASE n # Null
    BY <1>2, NextIsSet DEF LruM!SetNext
  <1> QED
    BY <1>1, <1>2

LEMMA TailIsSet ==
    ASSUME NEW c \in LruCaches, NEW tail \in LruM!Links
    PROVE  EndsSet(c, [c EXCEPT !.tail = tail], c.head, tail)
  BY DEF EndsSet, SameBut, Live, LruCaches

(* p is the list of the cache, from its head to its tail. *)
IsLru(c, p) ==
    /\ c \in LruCaches
    /\ p \in Seq(LruM!Addresses)
    /\ \A i \in 1..Len(p) : p[i] \in Live(c)
    /\ \A i, j \in 1..Len(p) : p[i] = p[j] => i = j
    /\ c.head = IF Len(p) = 0 THEN Null ELSE p[1]
    /\ c.tail = IF Len(p) = 0 THEN Null ELSE p[Len(p)]
    /\ \A i \in 1..Len(p) : /\ c.nodes[p[i]].prev = IF i = 1 THEN Null ELSE p[i - 1]
                            /\ c.nodes[p[i]].next = IF i = Len(p) THEN Null ELSE p[i + 1]

(* The first half of move_to_head takes a node that is not the head out of    *)
(* the list.                                                                 *)
Unlinked(c, n) ==
    LET prev == c.nodes[n].prev
        next == c.nodes[n].next
        unlinked == LruM!SetPrev(LruM!SetNext(c, prev, next), next, prev)
    IN  [unlinked EXCEPT !.tail = IF n = @ THEN prev ELSE @]

LEMMA UnlinkIs ==
    ASSUME NEW c, NEW p, IsLru(c, p), NEW i \in 2..Len(p)
    PROVE  SameBut(c, Unlinked(c, p[i])) /\ IsLru(Unlinked(c, p[i]), RemoveAt(p, i))
  <1>1. PICK L \in Nat : L = Len(p)
    BY DEF IsLru
  <1>2. /\ c \in LruCaches /\ p \in Seq(LruM!Addresses) /\ i \in 2..L
        /\ \A j \in 1..L : p[j] \in Live(c) /\ p[j] \in LruM!Addresses /\ p[j] # Null
    <2>1. c \in LruCaches /\ p \in Seq(LruM!Addresses) /\ \A j \in 1..L : p[j] \in Live(c)
      BY <1>1 DEF IsLru
    <2> QED
      BY <1>1, <2>1, NullIsNoNode DEF Live
  <1>3. \A a, b \in 1..L : p[a] = p[b] => a = b
    BY <1>1 DEF IsLru
  <1>4. \A j \in 1..L : /\ c.nodes[p[j]].prev = IF j = 1 THEN Null ELSE p[j - 1]
                        /\ c.nodes[p[j]].next = IF j = L THEN Null ELSE p[j + 1]
    BY <1>1 DEF IsLru
  <1>5. PICK prev, next : /\ prev = c.nodes[p[i]].prev /\ next = c.nodes[p[i]].next
                          /\ prev = p[i - 1] /\ next = IF i = L THEN Null ELSE p[i + 1]
    BY <1>2, <1>4
  <1>6. prev \in Live(c) /\ next \in Live(c) \cup {Null} /\ prev \in LruM!Links /\ next \in LruM!Links
    BY <1>2, <1>5 DEF LruM!Links
  <1>7. PICK e : e = LruM!SetNext(c, prev, next) /\ NextSet(c, e, prev, next)
    BY <1>2, <1>6, SetNextIs
  <1>8. e \in LruCaches /\ Live(e) = Live(c)
    BY <1>7 DEF NextSet, SameBut
  <1>9. PICK u : u = LruM!SetPrev(e, next, prev) /\ PrevSet(e, u, next, prev)
    BY <1>6, <1>7, <1>8, SetPrevIs
  <1>10. PICK tail : tail = (IF p[i] = c.tail THEN prev ELSE c.tail) /\ tail \in LruM!Links
    BY <1>2, <1>6 DEF LruCaches
  <1>11. u.tail = c.tail /\ u.head = c.head /\ u \in LruCaches
    BY <1>7, <1>9 DEF NextSet, PrevSet, SameBut
  <1>12. PICK d : d = Unlinked(c, p[i]) /\ EndsSet(u, d, c.head, tail)
    <2>1. Unlinked(c, p[i]) = [u EXCEPT !.tail = IF p[i] = @ THEN prev ELSE @]
      BY <1>5, <1>7, <1>9 DEF Unlinked
    <2>2. Unlinked(c, p[i]) = [u EXCEPT !.tail = tail]
      BY <1>10, <1>11, <2>1
    <2>3. EndsSet(u, [u EXCEPT !.tail = tail], u.head, tail)
      BY <1>10, <1>11, TailIsSet
    <2> QED
      BY <1>11, <2>2, <2>3
  <1>13. /\ SameBut(c, d) /\ d.head = c.head /\ d.tail = tail
         /\ \A a \in Live(c) : /\ d.nodes[a].prev = IF a = next THEN prev ELSE c.nodes[a].prev
                               /\ d.nodes[a].next = IF a = prev THEN next ELSE c.nodes[a].next
    <2>1. SameBut(c, d)
      BY <1>7, <1>9, <1>12, SameButTwice DEF NextSet, PrevSet, EndsSet
    <2> QED
      BY <1>7, <1>9, <1>12, <2>1 DEF NextSet, PrevSet, EndsSet, SameBut
  <1>14. d \in LruCaches /\ Live(d) = Live(c)
    BY <1>13 DEF SameBut
  <1>15. PICK q \in Seq(LruM!Addresses) :
             q = RemoveAt(p, i) /\ Len(q) = L - 1 /\ \A j \in 1..(L - 1) : q[j] = IF j < i THEN p[j] ELSE p[j + 1]
    BY <1>1, <1>2, RemoveAtIs
  <1>16. ASSUME NEW j \in 1..(L - 1) PROVE q[j] \in Live(d)
    <2>1. j \in 1..L /\ j + 1 \in 1..L
      OBVIOUS
    <2> QED
      BY <1>2, <1>14, <1>15, <2>1
  <1>17. \A a, b \in 1..(L - 1) : q[a] = q[b] => a = b
    BY <1>2, <1>3, <1>15
  <1>18. d.head = q[1] /\ d.tail = q[L - 1]
    <2>1. c.head = p[1] /\ c.tail = p[L]
      BY <1>1, <1>2 DEF IsLru
    <2>2. p[i] = p[L] <=> i = L
      BY <1>2, <1>3
    <2>3. tail = IF i = L THEN p[L - 1] ELSE p[L]
      BY <1>5, <1>10, <2>1, <2>2
    <2> QED
      BY <1>2, <1>13, <1>15, <2>1, <2>3
  <1>19. ASSUME NEW j \in 1..(L - 1)
         PROVE  /\ d.nodes[q[j]].prev = IF j = 1 THEN Null ELSE q[j - 1]
                /\ d.nodes[q[j]].next = IF j = L - 1 THEN Null ELSE q[j + 1]
    <2>1. CASE j < i
      <3>1. q[j] = p[j] /\ p[j] \in Live(c) /\ p[j] # Null /\ j \in 1..L /\ i - 1 \in 1..L
        BY <1>2, <1>15, <2>1
      <3>2. p[j] = prev <=> j = i - 1
        BY <1>3, <1>5, <3>1
      <3>3. p[j] # next
        <4>1. CASE i = L
          BY <1>5, <3>1, <4>1
        <4>2. CASE i # L
          <5>1. i + 1 \in 1..L /\ j # i + 1
            BY <1>2, <2>1, <4>2
          <5> QED
            BY <1>3, <1>5, <3>1, <4>2, <5>1
        <4> QED
          BY <4>1, <4>2
      <3>4. d.nodes[q[j]].prev = (IF j = 1 THEN Null ELSE p[j - 1])
        <4>1. c.nodes[p[j]].prev = IF j = 1 THEN Null ELSE p[j - 1]
          BY <1>4, <3>1
        <4>2. d.nodes[p[j]].prev = c.nodes[p[j]].prev
          BY <1>13, <3>1, <3>3
        <4> QED
          BY <3>1, <4>1, <4>2
      <3>5. d.nodes[q[j]].next = IF j = i - 1 THEN next ELSE c.nodes[p[j]].next
        BY <1>13, <3>1, <3>2
      <3>6. j # L /\ c.nodes[p[j]].next = p[j + 1]
        <4>1. j # L
          BY <1>2, <2>1
        <4> QED
          BY <1>4, <3>1, <4>1
      <3>7. j # 1 => q[j - 1] = p[j - 1]
        BY <1>2, <1>15, <2>1
      <3>8. j < i - 1 => q[j + 1] = p[j + 1] /\ j # L - 1
        BY <1>2, <1>15, <2>1
      <3>9. j = i - 1 /\ j # L - 1 => q[j + 1] = p[i + 1] /\ i # L
        BY <1>2, <1>15
      <3> QED
        BY <1>2, <1>5, <2>1, <3>4, <3>5, <3>6, <3>7, <3>8, <3>9
    <2>2. CASE j >= i
      <3>1. PICK m \in 1..L : m = j + 1 /\ j = m - 1 /\ m # 1 /\ m > i
        BY <1>2, <2>2
      <3>2. q[j] = p[m] /\ p[m] \in Live(c) /\ p[m] # Null
        BY <1>2, <1>15, <2>2, <3>1
      <3>3. p[m] # prev
        <4>1. i - 1 \in 1..L /\ m # i - 1
          BY <1>2, <3>1
        <4> QED
          BY <1>3, <1>5, <4>1
      <3>4. p[m] = next <=> j = i
        <4>1. i # L /\ i + 1 \in 1..L /\ next = p[i + 1]
          BY <1>2, <1>5, <3>1
        <4>2. m = i + 1 <=> j = i
          BY <1>2, <3>1
        <4> QED
          BY <1>3, <4>1, <4>2
      <3>5. d.nodes[q[j]].prev = IF j = i THEN prev ELSE p[m - 1]
        <4>1. c.nodes[p[m]].prev = p[m - 1]
          BY <1>4, <3>1
        <4>2. d.nodes[p[m]].prev = IF p[m] = next THEN prev ELSE c.nodes[p[m]].prev
          BY <1>13, <3>2
        <4> QED
          BY <3>2, <3>4, <4>1, <4>2
      <3>6. d.nodes[q[j]].next = IF m = L THEN Null ELSE p[m + 1]
        <4>1. c.nodes[p[m]].next = IF m = L THEN Null ELSE p[m + 1]
          BY <1>4
        <4>2. d.nodes[p[m]].next = c.nodes[p[m]].next
          BY <1>13, <3>2, <3>3
        <4> QED
          BY <3>2, <4>1, <4>2
      <3>7. q[j - 1] = (IF j = i THEN p[i - 1] ELSE p[m - 1]) /\ j # 1
        BY <1>2, <1>15, <2>2, <3>1
      <3>8. (m = L <=> j = L - 1) /\ (m # L => q[j + 1] = p[m + 1])
        <4>1. m # L => j + 1 \in 1..(L - 1) /\ ~(j + 1 < i) /\ (j + 1) + 1 = m + 1
          BY <1>2, <2>2, <3>1
        <4> QED
          BY <1>15, <3>1, <4>1
      <3> QED
        BY <1>5, <3>5, <3>6, <3>7, <3>8
    <2> QED
      BY <1>2, <2>1, <2>2
  <1> QED
    BY <1>2, <1>12, <1>13, <1>14, <1>15, <1>16, <1>17, <1>18, <1>19 DEF IsLru

(* A sequence with one more in front. *)
LEMMA InFront ==
    ASSUME NEW S, NEW q \in Seq(S), NEW n \in S
    PROVE  /\ <<n>> \o q \in Seq(S) /\ Len(<<n>> \o q) = Len(q) + 1
           /\ \A j \in 1..(Len(q) + 1) : (<<n>> \o q)[j] = IF j = 1 THEN n ELSE q[j - 1]
  <1>1. <<n>> \in Seq(S) /\ Len(<<n>>) = 1 /\ <<n>>[1] = n
    OBVIOUS
  <1> QED
    BY <1>1

(* A list that is not empty, by its number of nodes. *)
LEMMA IsLruBy ==
    ASSUME NEW c \in LruCaches, NEW p \in Seq(LruM!Addresses), NEW N \in Nat, N # 0, Len(p) = N,
           \A j \in 1..N : p[j] \in Live(c),
           \A a, b \in 1..N : p[a] = p[b] => a = b,
           c.head = p[1], c.tail = p[N],
           \A j \in 1..N : /\ c.nodes[p[j]].prev = IF j = 1 THEN Null ELSE p[j - 1]
                           /\ c.nodes[p[j]].next = IF j = N THEN Null ELSE p[j + 1]
    PROVE  IsLru(c, p)
  BY DEF IsLru

(* The second half, and put: a node that is in no list becomes the head. *)
LEMMA AtHeadIs ==
    ASSUME NEW c, NEW q, IsLru(c, q), NEW n \in Live(c), \A j \in 1..Len(q) : q[j] # n
    PROVE  SameBut(c, LruM!AtHead(c, n)) /\ IsLru(LruM!AtHead(c, n), <<n>> \o q)
  <1>1. PICK L \in Nat : L = Len(q)
    BY DEF IsLru
  <1>2. /\ c \in LruCaches /\ q \in Seq(LruM!Addresses) /\ n \in LruM!Addresses /\ n # Null
        /\ \A j \in 1..L : q[j] \in Live(c) /\ q[j] \in LruM!Addresses /\ q[j] # Null /\ q[j] # n
    BY <1>1, ElementOfSeq, NullIsNoNode DEF IsLru, Live
  <1>3. c.head = (IF L = 0 THEN Null ELSE q[1]) /\ c.tail = (IF L = 0 THEN Null ELSE q[L])
    BY <1>1 DEF IsLru
  <1>4. c.head \in Live(c) \cup {Null} /\ c.head \in LruM!Links /\ n \in LruM!Links /\ Null \in LruM!Links
    BY <1>2, <1>3 DEF LruM!Links
  <1>5. PICK d : d = [c EXCEPT !.nodes[n].prev = Null] /\ PrevSet(c, d, n, Null)
    BY <1>2, <1>4, PrevIsSet
  <1>6. d \in LruCaches /\ Live(d) = Live(c)
    BY <1>5 DEF PrevSet, SameBut
  <1>7. PICK e : e = LruM!SetNext(d, n, c.head) /\ NextSet(d, e, n, c.head)
    BY <1>4, <1>6, SetNextIs
  <1>8. e \in LruCaches /\ Live(e) = Live(c)
    BY <1>6, <1>7 DEF NextSet, SameBut
  <1>9. PICK f : f = LruM!SetPrev(e, c.head, n) /\ PrevSet(e, f, c.head, n)
    BY <1>4, <1>8, SetPrevIs
  <1>10. f.tail = c.tail /\ f.head = c.head /\ f \in LruCaches
    BY <1>5, <1>7, <1>9 DEF NextSet, PrevSet, SameBut
  <1>11. PICK tail \in LruM!Links : tail = IF c.tail = Null THEN n ELSE c.tail
    BY <1>2, <1>4 DEF LruCaches
  <1>12. PICK g : g = LruM!AtHead(c, n) /\ EndsSet(f, g, n, tail)
    <2>1. LruM!AtHead(c, n) = [f EXCEPT !.head = n, !.tail = IF @ = Null THEN n ELSE @]
      BY <1>5, <1>7, <1>9 DEF LruM!AtHead
    <2>2. LruM!AtHead(c, n) = [f EXCEPT !.head = n, !.tail = tail]
      BY <1>10, <1>11, <2>1
    <2> QED
      BY <1>4, <1>10, <1>11, <2>2, EndsAreSet
  <1>13. SameBut(c, g)
    BY <1>5, <1>7, <1>9, <1>12, SameButTwice DEF NextSet, PrevSet, EndsSet
  <1>14. /\ g.head = n /\ g.tail = tail
         /\ \A a \in Live(c) :
               /\ g.nodes[a].prev = IF a = c.head THEN n ELSE IF a = n THEN Null ELSE c.nodes[a].prev
               /\ g.nodes[a].next = IF a = n THEN c.head ELSE c.nodes[a].next
    <2>1. \A a \in Live(c) : d.nodes[a].prev = (IF a = n THEN Null ELSE c.nodes[a].prev)
                              /\ d.nodes[a].next = c.nodes[a].next
      BY <1>5 DEF PrevSet
    <2>2. \A a \in Live(c) : e.nodes[a].prev = d.nodes[a].prev
                              /\ e.nodes[a].next = (IF a = n THEN c.head ELSE d.nodes[a].next)
      BY <1>6, <1>7 DEF NextSet
    <2>3. Live(f) = Live(c)
      BY <1>8, <1>9 DEF PrevSet, SameBut
    <2>4. \A a \in Live(c) : f.nodes[a].prev = (IF a = c.head THEN n ELSE e.nodes[a].prev)
                              /\ f.nodes[a].next = e.nodes[a].next
      BY <1>8, <1>9 DEF PrevSet
    <2>5. /\ g.head = n /\ g.tail = tail
          /\ \A a \in Live(c) : g.nodes[a].prev = f.nodes[a].prev /\ g.nodes[a].next = f.nodes[a].next
      BY <1>12, <2>3 DEF EndsSet
    <2> QED
      BY <2>1, <2>2, <2>4, <2>5
  <1>15. g \in LruCaches /\ Live(g) = Live(c)
    BY <1>13 DEF SameBut
  <1>16. PICK p \in Seq(LruM!Addresses) :
             p = <<n>> \o q /\ Len(p) = L + 1 /\ \A j \in 1..(L + 1) : p[j] = IF j = 1 THEN n ELSE q[j - 1]
    <2>1. PICK p \in Seq(LruM!Addresses) : p = <<n>> \o q
      BY <1>2, InFront
    <2>2. /\ Len(<<n>> \o q) = Len(q) + 1
          /\ \A j \in 1..(Len(q) + 1) : (<<n>> \o q)[j] = IF j = 1 THEN n ELSE q[j - 1]
      BY <1>2, InFront
    <2> QED
      BY <1>1, <2>1, <2>2
  <1>17. \A j \in 1..(L + 1) : p[j] \in Live(g)
    BY <1>2, <1>15, <1>16
  <1>18. \A a, b \in 1..L : q[a] = q[b] => a = b
    BY <1>1 DEF IsLru
  <1>19. \A a, b \in 1..(L + 1) : p[a] = p[b] => a = b
    <2> TAKE a, b \in 1..(L + 1)
    <2>1. \A j \in 1..(L + 1) : j = 1 \/ j - 1 \in 1..L
      OBVIOUS
    <2> QED
      BY <1>2, <1>16, <1>18, <2>1
  <1>20. g.head = p[1] /\ g.tail = p[L + 1]
    BY <1>2, <1>3, <1>11, <1>14, <1>16
  <1>21. ASSUME NEW j \in 1..(L + 1)
         PROVE  /\ g.nodes[p[j]].prev = IF j = 1 THEN Null ELSE p[j - 1]
                /\ g.nodes[p[j]].next = IF j = L + 1 THEN Null ELSE p[j + 1]
    <2>1. CASE j = 1
      <3>1. p[j] = n /\ n # c.head
        BY <1>2, <1>3, <1>16, <2>1
      <3>2. g.nodes[n].prev = Null /\ g.nodes[n].next = c.head
        BY <1>14, <3>1
      <3>3. L # 0 => p[2] = q[1]
        BY <1>16
      <3> QED
        BY <1>3, <2>1, <3>1, <3>2, <3>3
    <2>2. CASE j # 1
      <3>1. PICK m \in 1..L : j = m + 1 /\ j - 1 = m
        BY <2>2
      <3>2. /\ p[j] = q[m] /\ q[m] \in Live(c) /\ q[m] # n
            /\ p[j - 1] = (IF m = 1 THEN n ELSE q[m - 1])
            /\ m # L => p[j + 1] = q[m + 1]
        BY <1>2, <1>16, <3>1
      <3>3. q[m] = c.head <=> m = 1
        BY <1>3, <1>18
      <3>4. /\ c.nodes[q[m]].prev = IF m = 1 THEN Null ELSE q[m - 1]
            /\ c.nodes[q[m]].next = IF m = L THEN Null ELSE q[m + 1]
        BY <1>1 DEF IsLru
      <3>5. g.nodes[q[m]].prev = (IF m = 1 THEN n ELSE q[m - 1])
        BY <1>14, <3>2, <3>3, <3>4
      <3>6. g.nodes[q[m]].next = IF m = L THEN Null ELSE q[m + 1]
        BY <1>14, <3>2, <3>4
      <3> QED
        BY <2>2, <3>1, <3>2, <3>5, <3>6
    <2> QED
      BY <2>1, <2>2
  <1>22. IsLru(g, p)
    <2>1. L + 1 \in Nat /\ L + 1 # 0 /\ Len(p) = L + 1
      BY <1>16
    <2> QED
      BY <1>15, <1>17, <1>19, <1>20, <1>21, <2>1, IsLruBy
  <1> QED
    BY <1>12, <1>13, <1>16, <1>22

(* The list does not depend on the fields but the nodes and the ends. *)
LEMMA SameList ==
    ASSUME NEW c, NEW p, IsLru(c, p), NEW d \in LruCaches, Live(c) \subseteq Live(d),
           d.head = c.head, d.tail = c.tail,
           \A a \in Live(c) : d.nodes[a].prev = c.nodes[a].prev /\ d.nodes[a].next = c.nodes[a].next
    PROVE  IsLru(d, p)
  BY DEF IsLru

(* remove_tail frees a node whose slot it clears. *)
NodeGone(c, d, n, h) ==
    /\ d \in LruCaches /\ Live(d) = Live(c) \ {n}
    /\ d.table = [c.table EXCEPT ![h] = Null] /\ d.size = c.size - 1
    /\ d.latest = c.latest /\ d.head = c.head /\ d.tail = c.tail
    /\ \A a \in Live(c) \ {n} : d.nodes[a] = c.nodes[a]

LEMMA NodeIsGone ==
    ASSUME NEW c \in LruCaches, NEW n \in Live(c), NEW h \in LruM!Hashes, c.size # 0
    PROVE  NodeGone(c, [c EXCEPT !.table[h] = Null, !.nodes[n] = Null, !.size = @ - 1], n, h)
  <1>1. n \in LruM!Addresses /\ Null \in LruM!Links
    BY DEF Live, LruM!Links
  <1>2. PICK table \in [LruM!Hashes -> LruM!Links] : table = [c.table EXCEPT ![h] = Null]
    <2>1. [c.table EXCEPT ![h] = Null] \in [LruM!Hashes -> LruM!Links]
      BY <1>1 DEF LruCaches
    <2> QED
      BY <2>1
  <1>3. PICK nodes \in [LruM!Addresses -> LruNodes \cup {Null}] : nodes = [c.nodes EXCEPT ![n] = Null]
    <2>1. [c.nodes EXCEPT ![n] = Null] \in [LruM!Addresses -> LruNodes \cup {Null}]
      BY <1>1 DEF LruCaches
    <2> QED
      BY <2>1
  <1>4. \A a \in LruM!Addresses : nodes[a] = IF a = n THEN Null ELSE c.nodes[a]
    BY <1>1, <1>3 DEF LruCaches
  <1>5. PICK size \in Nat : size = c.size - 1
    BY DEF LruCaches
  <1>6. PICK d : d = [c EXCEPT !.table = table]
    OBVIOUS
  <1>7. /\ d \in LruCaches /\ d.table = table /\ d.nodes = c.nodes /\ d.size = c.size
        /\ d.latest = c.latest /\ d.head = c.head /\ d.tail = c.tail
    BY <1>2, <1>6 DEF LruCaches
  <1>8. PICK e : e = [d EXCEPT !.nodes = nodes]
    OBVIOUS
  <1>9. /\ e \in LruCaches /\ e.table = d.table /\ e.nodes = nodes /\ e.size = d.size
        /\ e.latest = d.latest /\ e.head = d.head /\ e.tail = d.tail
    BY <1>3, <1>7, <1>8 DEF LruCaches
  <1>10. PICK f : f = [e EXCEPT !.size = size]
    OBVIOUS
  <1>11. /\ f \in LruCaches /\ f.table = e.table /\ f.nodes = e.nodes /\ f.size = size
         /\ f.latest = e.latest /\ f.head = e.head /\ f.tail = e.tail
    BY <1>5, <1>9, <1>10 DEF LruCaches
  <1>12. [c EXCEPT !.table[h] = Null, !.nodes[n] = Null, !.size = @ - 1] = f
    BY <1>2, <1>3, <1>5, <1>6, <1>7, <1>8, <1>9, <1>10 DEF LruCaches
  <1>13. Live(f) = Live(c) \ {n}
    BY <1>4, <1>9, <1>11 DEF Live
  <1>14. \A a \in Live(c) \ {n} : f.nodes[a] = c.nodes[a]
    BY <1>4, <1>9, <1>11 DEF Live
  <1> HIDE DEF LruCaches
  <1> QED
    BY <1>2, <1>5, <1>7, <1>9, <1>11, <1>12, <1>13, <1>14 DEF NodeGone

(* What the eviction of the last node n leaves of the cache. *)
Evicted(c, d, n) ==
    /\ d \in LruCaches /\ Live(d) = Live(c) \ {n} /\ d.latest = c.latest /\ d.size = c.size - 1
    /\ d.table = [c.table EXCEPT ![LruHash[c.nodes[n].key]] = Null]
    /\ \A a \in Live(d) : d.nodes[a].key = c.nodes[a].key /\ d.nodes[a].value = c.nodes[a].value

LEMMA HashesAre ==
    ASSUME NEW c \in LruCaches, NEW n \in Live(c)
    PROVE  c.nodes[n].key \in Keys /\ LruHash[c.nodes[n].key] \in LruM!Hashes
  <1>1. c.nodes[n] \in LruNodes
    BY LiveNodes DEF Live
  <1> QED
    BY <1>1 DEF LruNodes, LruM!Hashes

LEMMA RemoveTailIs ==
    ASSUME NEW c, NEW p, IsLru(c, p), Len(p) # 0, c.size # 0
    PROVE  /\ Evicted(c, LruM!RemoveTail(c), p[Len(p)])
           /\ IsLru(LruM!RemoveTail(c), RemoveAt(p, Len(p)))
  <1>1. PICK L \in Nat : L = Len(p) /\ L # 0 /\ L \in 1..Len(p)
    BY DEF IsLru
  <1>2. /\ c \in LruCaches /\ p \in Seq(LruM!Addresses)
        /\ \A j \in 1..L : p[j] \in Live(c) /\ p[j] \in LruM!Addresses /\ p[j] # Null
    <2>1. c \in LruCaches /\ p \in Seq(LruM!Addresses) /\ \A j \in 1..L : p[j] \in Live(c)
      BY <1>1 DEF IsLru
    <2> QED
      BY <1>1, <2>1, NullIsNoNode DEF Live
  <1>3. \A a, b \in 1..L : p[a] = p[b] => a = b
    BY <1>1 DEF IsLru
  <1>4. \A j \in 1..L : /\ c.nodes[p[j]].prev = IF j = 1 THEN Null ELSE p[j - 1]
                        /\ c.nodes[p[j]].next = IF j = L THEN Null ELSE p[j + 1]
    BY <1>1 DEF IsLru
  <1>5. c.head = p[1] /\ c.tail = p[L]
    BY <1>1 DEF IsLru
  <1>6. PICK n : n = p[L] /\ n = c.tail /\ n \in Live(c) /\ n # Null
    BY <1>1, <1>2, <1>5
  <1>7. PICK prev : prev = c.nodes[n].prev /\ prev = IF L = 1 THEN Null ELSE p[L - 1]
    BY <1>1, <1>4, <1>6
  <1>8. PICK head \in LruM!Links : head = IF L = 1 THEN Null ELSE p[1]
    BY <1>1, <1>2 DEF LruM!Links
  <1>9. prev \in Live(c) \cup {Null} /\ prev \in LruM!Links /\ (prev = Null <=> L = 1) /\ Null \in LruM!Links
    <2>1. L # 1 => L - 1 \in 1..L
      BY <1>1
    <2> QED
      BY <1>2, <1>7, <2>1 DEF LruM!Links
  <1>10. PICK d : d = [c EXCEPT !.head = head, !.tail = prev] /\ EndsSet(c, d, head, prev)
    BY <1>2, <1>8, <1>9, EndsAreSet
  <1>11. d \in LruCaches /\ Live(d) = Live(c)
    BY <1>10 DEF EndsSet, SameBut
  <1>12. PICK e : e = LruM!SetNext(d, prev, Null) /\ NextSet(d, e, prev, Null)
    BY <1>9, <1>11, SetNextIs
  <1>13. e \in LruCaches /\ Live(e) = Live(c) /\ e.size = c.size /\ SameBut(c, e)
    <2>1. SameBut(c, e)
      BY <1>10, <1>12, SameButTwice DEF EndsSet, NextSet
    <2> QED
      BY <2>1 DEF SameBut
  <1>14. PICK h \in LruM!Hashes : h = LruHash[c.nodes[n].key]
    BY <1>2, <1>6, HashesAre
  <1>15. PICK f : f = LruM!RemoveTail(c) /\ NodeGone(e, f, n, h)
    <2>1. [c EXCEPT !.tail = prev, !.head = IF prev = Null THEN Null ELSE @] = d
      BY <1>2, <1>5, <1>8, <1>9, <1>10 DEF LruCaches
    <2>2. LruM!RemoveTail(c) = [e EXCEPT !.table[h] = Null, !.nodes[n] = Null, !.size = @ - 1]
      BY <1>6, <1>7, <1>12, <1>14, <2>1 DEF LruM!RemoveTail
    <2> QED
      BY <1>6, <1>13, <1>14, <2>2, NodeIsGone
  <1>16. Evicted(c, f, n)
    <2>1. /\ f \in LruCaches /\ Live(f) = Live(c) \ {n} /\ f.latest = c.latest /\ f.size = c.size - 1
          /\ f.table = [c.table EXCEPT ![h] = Null]
      BY <1>13, <1>15 DEF NodeGone, SameBut
    <2>2. \A a \in Live(f) : f.nodes[a] = e.nodes[a]
      BY <1>13, <1>15 DEF NodeGone
    <2>3. \A a \in Live(c) : e.nodes[a].key = c.nodes[a].key /\ e.nodes[a].value = c.nodes[a].value
      BY <1>13 DEF SameBut
    <2> QED
      BY <1>14, <2>1, <2>2, <2>3 DEF Evicted
  <1>17. f \in LruCaches /\ Live(f) = Live(c) \ {n} /\ f.head = head /\ f.tail = prev
    BY <1>10, <1>12, <1>15, <1>16 DEF Evicted, NodeGone, EndsSet, NextSet
  <1>18. \A a \in Live(c) \ {n} : /\ f.nodes[a].prev = c.nodes[a].prev
                                  /\ f.nodes[a].next = IF a = prev THEN Null ELSE c.nodes[a].next
    <2>1. \A a \in Live(c) \ {n} : f.nodes[a] = e.nodes[a]
      BY <1>13, <1>15 DEF NodeGone
    <2>2. \A a \in Live(c) : /\ e.nodes[a].prev = d.nodes[a].prev
                             /\ e.nodes[a].next = IF a = prev THEN Null ELSE d.nodes[a].next
      BY <1>11, <1>12 DEF NextSet
    <2>3. \A a \in Live(c) : d.nodes[a].prev = c.nodes[a].prev /\ d.nodes[a].next = c.nodes[a].next
      BY <1>10 DEF EndsSet
    <2> QED
      BY <2>1, <2>2, <2>3
  <1>19. PICK q \in Seq(LruM!Addresses) :
             q = RemoveAt(p, L) /\ Len(q) = L - 1 /\ \A j \in 1..(L - 1) : q[j] = p[j]
    BY <1>1, <1>2, RemoveAtIs
  <1>20. \A j \in 1..(L - 1) : j \in 1..L /\ q[j] = p[j] /\ q[j] \in Live(c) \ {n}
    <2>1. ASSUME NEW j \in 1..(L - 1) PROVE j \in 1..L /\ L \in 1..L /\ j # L
      OBVIOUS
    <2> QED
      BY <1>2, <1>3, <1>6, <1>19, <2>1
  <1>21. \A a, b \in 1..(L - 1) : q[a] = q[b] => a = b
    BY <1>3, <1>20
  <1>22. /\ f.head = IF L - 1 = 0 THEN Null ELSE q[1]
         /\ f.tail = IF L - 1 = 0 THEN Null ELSE q[L - 1]
    <2>1. L # 1 => 1 \in 1..(L - 1) /\ L - 1 \in 1..(L - 1)
      BY <1>1
    <2> QED
      BY <1>1, <1>7, <1>8, <1>17, <1>20, <2>1
  <1>23. ASSUME NEW j \in 1..(L - 1)
         PROVE  /\ f.nodes[q[j]].prev = IF j = 1 THEN Null ELSE q[j - 1]
                /\ f.nodes[q[j]].next = IF j = L - 1 THEN Null ELSE q[j + 1]
    <2>1. j \in 1..L /\ q[j] = p[j] /\ q[j] \in Live(c) \ {n} /\ j # L
      BY <1>20
    <2>2. p[j] = prev <=> j = L - 1
      <3>1. L - 1 \in 1..L /\ L # 1
        BY <1>1
      <3> QED
        BY <1>3, <1>7, <2>1, <3>1
    <2>3. f.nodes[q[j]].prev = IF j = 1 THEN Null ELSE p[j - 1]
      BY <1>4, <1>18, <2>1
    <2>4. f.nodes[q[j]].next = IF j = L - 1 THEN Null ELSE p[j + 1]
      <3>1. c.nodes[p[j]].next = p[j + 1]
        BY <1>4, <2>1
      <3>2. f.nodes[p[j]].next = IF p[j] = prev THEN Null ELSE c.nodes[p[j]].next
        BY <1>18, <2>1
      <3> QED
        BY <2>1, <2>2, <3>1, <3>2
    <2>5. j # 1 => q[j - 1] = p[j - 1]
      BY <1>19
    <2>6. j # L - 1 => q[j + 1] = p[j + 1]
      BY <1>19
    <2> QED
      BY <2>3, <2>4, <2>5, <2>6
  <1>24. IsLru(f, q)
    BY <1>17, <1>19, <1>20, <1>21, <1>22, <1>23 DEF IsLru
  <1> QED
    BY <1>1, <1>6, <1>15, <1>16, <1>19, <1>24

(* A cache has room for as many nodes as there are addresses. *)
LEMMA LruLength ==
    ASSUME NEW c, NEW p, IsLru(c, p)
    PROVE  Len(p) \in 0..Capacity
  <1>1. Capacity \in Nat \ {0} /\ p \in Seq(LruM!Addresses) /\ Len(p) \in Nat
    BY SequentialAssumption DEF IsLru
  <1>2. IsFiniteSet(LruM!Addresses) /\ Cardinality(LruM!Addresses) = Capacity
    <2>1. IsFiniteSet(1..Capacity) /\ Cardinality(1..Capacity) = IF 1 > Capacity THEN 0 ELSE Capacity - 1 + 1
      BY <1>1, FS_Interval
    <2> QED
      BY <1>1, <2>1 DEF LruM!Addresses
  <1>3. IsFiniteSet(1..Len(p)) /\ Cardinality(1..Len(p)) = Len(p)
    <2>1. PICK L \in Nat : L = Len(p)
      BY <1>1
    <2>2. IsFiniteSet(1..L) /\ Cardinality(1..L) = IF 1 > L THEN 0 ELSE L - 1 + 1
      BY FS_Interval
    <2> QED
      BY <2>1, <2>2
  <1>4. p \in Injection(1..Len(p), LruM!Addresses)
    BY <1>1 DEF IsLru, Injection, IsInjective
  <1>5. Cardinality(1..Len(p)) <= Cardinality(LruM!Addresses)
    BY <1>2, <1>3, <1>4, FS_Injection DEF ExistsInjection
  <1> QED
    BY <1>1, <1>2, <1>3, <1>5

(* The nodes that are live are those of the list. *)
AllListed(c, p) == \A a \in Live(c) : \E i \in 1..Len(p) : p[i] = a

(* As long as it is not full there is a free address for a new one. *)
LEMMA FreeAddress ==
    ASSUME NEW c, NEW p, IsLru(c, p), AllListed(c, p), Len(p) # Capacity
    PROVE  \E a \in LruM!Addresses : c.nodes[a] = Null
  <1> SUFFICES ASSUME LruM!Addresses \subseteq Live(c) PROVE FALSE
    BY DEF Live
  <1>1. Capacity \in Nat \ {0} /\ p \in Seq(LruM!Addresses) /\ Len(p) \in Nat /\ Len(p) < Capacity
    <2>1. Len(p) \in 0..Capacity /\ Capacity \in Nat \ {0}
      BY LruLength, SequentialAssumption
    <2> QED
      BY <2>1 DEF IsLru
  <1>2. Cardinality(LruM!Addresses) = Capacity
    <2>1. Cardinality(1..Capacity) = IF 1 > Capacity THEN 0 ELSE Capacity - 1 + 1
      BY <1>1, FS_Interval
    <2> QED
      BY <1>1, <2>1 DEF LruM!Addresses
  <1>3. IsFiniteSet(1..Len(p)) /\ Cardinality(1..Len(p)) = Len(p)
    <2>1. PICK L \in Nat : L = Len(p)
      BY <1>1
    <2>2. IsFiniteSet(1..L) /\ Cardinality(1..L) = IF 1 > L THEN 0 ELSE L - 1 + 1
      BY FS_Interval
    <2> QED
      BY <2>1, <2>2
  <1>4. p \in Surjection(1..Len(p), LruM!Addresses)
    BY <1>1 DEF AllListed, Surjection
  <1>5. IsFiniteSet(LruM!Addresses) /\ Cardinality(LruM!Addresses) <= Cardinality(1..Len(p))
    BY <1>3, <1>4, FS_Surjection
  <1> QED
    BY <1>1, <1>2, <1>3, <1>5

LEMMA SameLruCardinality == \A S : LruM!Cardinality(S) = Cardinality(S)
  BY DEF LruM!Cardinality, Cardinality

(* The operator that walks the links sees the list. *)
LEMMA LruReads ==
    ASSUME NEW p, IsLru(obj, p)
    PROVE  LruM!List = p
  <1> DEFINE N == Capacity
             T == LruM!Links
             step == [q \in (1..N) \X T |-> IF q[2] \notin Live(obj) THEN Null ELSE obj.nodes[q[2]].next]
             Is(g) == g = [i \in 0..N |-> IF i = 0 THEN obj.head ELSE IF g[i - 1] = Null THEN Null ELSE obj.nodes[g[i - 1]].next]
             at == CHOOSE g : Is(g)
  <1>0. PICK L \in Nat : L = Len(p)
    BY DEF IsLru
  <1>1. /\ N \in Nat /\ L \in 0..N /\ obj \in LruCaches /\ obj.head \in T
        /\ p \in Seq(LruM!Addresses) /\ \A i \in 1..L : p[i] \in LruM!Addresses
    <2>1. N \in Nat /\ L \in 0..N
      BY <1>0, LruLength, SequentialAssumption
    <2> QED
      BY <1>0, <2>1 DEF IsLru, LruCaches
  <1>2. Null \notin LruM!Addresses
    BY NullIsNoNode
  <1>3. \A a \in Live(obj) : obj.nodes[a].next \in T
    BY <1>1, LiveNodes DEF LruNodes, Live
  <1> DEFINE F == [0..N -> T]
  <1>5. PICK g \in F : g[0] = obj.head /\ \A n \in 1..N : g[n] = IF g[n - 1] \notin Live(obj) THEN Null ELSE obj.nodes[g[n - 1]].next
    <2>1. Null \in T
      BY DEF LruM!Links
    <2>2. step \in [(1..N) \X T -> T]
      <3>1. ASSUME NEW q \in (1..N) \X T PROVE (IF q[2] \notin Live(obj) THEN Null ELSE obj.nodes[q[2]].next) \in T
        BY <1>3, <2>1
      <3> QED
        BY <3>1
    <2>3. PICK f : Recursive(f, N, T, obj.head, step)
      <3> HIDE DEF step, T, N
      <3> QED
        BY <1>1, <2>2, RecursionUpTo
    <2>4. f \in F /\ f[0] = obj.head
      BY <2>3 DEF Recursive
    <2>5. ASSUME NEW n \in 1..N
          PROVE  f[n] = IF f[n - 1] \notin Live(obj) THEN Null ELSE obj.nodes[f[n - 1]].next
      <3>1. f[n] = step[<<n, f[n - 1]>>] /\ f[n - 1] \in T
        <4>1. n - 1 \in 0..N
          BY <1>1
        <4> HIDE DEF step, T, N
        <4> QED
          BY <2>3, <2>4, <4>1 DEF Recursive
      <3>2. <<n, f[n - 1]>> \in (1..N) \X T
        BY <3>1
      <3> QED
        BY <3>1, <3>2
    <2> QED
      BY <2>4, <2>5
  <1> HIDE DEF at
  <1>6. \A i \in 0..N : g[i] = IF i < L THEN p[i + 1] ELSE Null
    <2> DEFINE S == {i \in 0..N : g[i] = IF i < L THEN p[i + 1] ELSE Null}
    <2>1. 0 \in S
      BY <1>0, <1>1, <1>5 DEF IsLru
    <2>2. ASSUME NEW n \in 1..N, n - 1 \in S PROVE n \in S
      <3>1. g[n] = IF g[n - 1] \notin Live(obj) THEN Null ELSE obj.nodes[g[n - 1]].next
        BY <1>5
      <3>2. CASE n <= L
        <4>1. g[n - 1] = p[n] /\ n \in 1..L
          BY <1>1, <2>2, <3>2
        <4>2. p[n] \in Live(obj) /\ obj.nodes[p[n]].next = IF n = L THEN Null ELSE p[n + 1]
          BY <1>0, <4>1 DEF IsLru
        <4> QED
          BY <1>1, <3>1, <3>2, <4>1, <4>2
      <3>3. CASE n > L
        <4>1. g[n - 1] = Null /\ Null \notin Live(obj)
          BY <1>1, <1>2, <2>2, <3>3 DEF Live
        <4> QED
          BY <1>1, <3>1, <3>3, <4>1
      <3> QED
        BY <1>1, <3>2, <3>3
    <2>3. 0..N \subseteq S
      <3> HIDE DEF S
      <3> QED
        BY <1>1, <2>1, <2>2, UpTo
    <2> QED
      BY <2>3
  <1>7. Is(g)
    <2>1. ASSUME NEW n \in 1..N
          PROVE  g[n] = IF g[n - 1] = Null THEN Null ELSE obj.nodes[g[n - 1]].next
      <3>1. g[n] = IF g[n - 1] \notin Live(obj) THEN Null ELSE obj.nodes[g[n - 1]].next
        BY <1>5
      <3>2. n - 1 \in 0..N
        BY <1>1
      <3>3. CASE n <= L
        <4>1. g[n - 1] = p[n] /\ n \in 1..L /\ p[n] \in LruM!Addresses
          BY <1>1, <1>6, <3>2, <3>3
        <4>2. p[n] \in Live(obj)
          BY <1>0, <4>1 DEF IsLru
        <4> QED
          BY <1>2, <3>1, <4>1, <4>2
      <3>4. CASE n > L
        <4>1. g[n - 1] = Null /\ Null \notin Live(obj)
          BY <1>1, <1>2, <1>6, <3>2, <3>4 DEF Live
        <4> QED
          BY <3>1, <4>1
      <3> QED
        BY <1>1, <3>3, <3>4
    <2>2. \A n \in 0..N : n = 0 \/ n \in 1..N
      BY <1>1
    <2> QED
      BY <1>5, <2>1, <2>2
  <1>8. Is(at)
    <2>1. \E h : Is(h)
      <3> HIDE DEF Is
      <3> QED
        BY <1>7
    <2> HIDE DEF Is
    <2> QED
      BY <2>1 DEF at
  <1>9. \A i \in 0..N : at[i] = IF i < L THEN p[i + 1] ELSE Null
    <2> DEFINE S == {i \in 0..N : at[i] = g[i]}
    <2>1. 0 \in S
      BY <1>1, <1>7, <1>8
    <2>2. ASSUME NEW n \in 1..N, n - 1 \in S PROVE n \in S
      <3>1. n \in 0..N /\ n # 0 /\ n - 1 \in 0..N /\ at[n - 1] = g[n - 1]
        BY <1>1, <2>2
      <3>2. at[n] = IF at[n - 1] = Null THEN Null ELSE obj.nodes[at[n - 1]].next
        BY <1>8, <3>1
      <3>3. g[n] = IF g[n - 1] = Null THEN Null ELSE obj.nodes[g[n - 1]].next
        BY <1>7, <3>1
      <3> QED
        BY <3>1, <3>2, <3>3
    <2>3. 0..N \subseteq S
      <3> HIDE DEF S
      <3> QED
        BY <1>1, <2>1, <2>2, UpTo
    <2> QED
      BY <1>6, <2>3
  <1>10. LruM!List = [i \in 1..Cardinality({i \in 0..N : at[i] # Null}) |-> at[i - 1]]
    BY SameLruCardinality DEF LruM!List, at
  <1>11. {i \in 0..N : at[i] # Null} = 0..(L - 1)
    <2>1. ASSUME NEW i \in 0..N PROVE at[i] # Null <=> i \in 0..(L - 1)
      <3>1. i < L => i + 1 \in 1..L
        BY <1>1
      <3> QED
        BY <1>1, <1>2, <1>9, <3>1
    <2>2. 0..(L - 1) \subseteq 0..N
      BY <1>1
    <2> QED
      BY <2>1, <2>2
  <1>12. Cardinality(0..(L - 1)) = L
    BY <1>1, FS_Interval
  <1>13. \A i \in 1..L : at[i - 1] = p[i]
    BY <1>1, <1>9
  <1>14. p = [i \in 1..L |-> p[i]]
    BY <1>0, <1>1
  <1> QED
    BY <1>10, <1>11, <1>12, <1>13, <1>14

(* A slot of the table leads to a node of the list, with a key of that hash   *)
(* and the value last put with it.                                           *)
SlotsHold(c) ==
    \A h \in LruM!Hashes :
        LET n == c.table[h]
        IN  n # Null => /\ n \in Live(c)
                        /\ LruHash[c.nodes[n].key] = h
                        /\ c.nodes[n].value = c.latest[c.nodes[n].key]

LruHolds(c, p) == IsLru(c, p) /\ AllListed(c, p) /\ c.size = Len(p) /\ SlotsHold(c)

LEMMA LruHoldsLive ==
    ASSUME NEW p, LruHolds(obj, p)
    PROVE  LruM!SlotsLive
  <1>1. IsLru(obj, p) /\ obj.size = Len(p) /\ AllListed(obj, p) /\ SlotsHold(obj)
    BY DEF LruHolds
  <1>2. LruM!List = p
    BY <1>1, LruReads
  <1>3. p \in Seq(LruM!Addresses)
    BY <1>1 DEF IsLru
  <1>4. \A n \in Live(obj) : n \in LruM!Range(p)
    BY <1>1, <1>3 DEF LruM!Range, AllListed
  <1> QED
    BY <1>1, <1>2, <1>4 DEF LruM!SlotsLive, SlotsHold

LEMMA SameButHolds ==
    ASSUME NEW c, NEW p, LruHolds(c, p), NEW d, NEW q, SameBut(c, d), IsLru(d, q), Len(q) = Len(p),
           \A a \in Live(c) : \E i \in 1..Len(q) : q[i] = a
    PROVE  LruHolds(d, q)
  <1>1. AllListed(d, q) /\ d.size = Len(q)
    BY DEF LruHolds, SameBut, AllListed
  <1>2. SlotsHold(d)
    BY DEF LruHolds, SameBut, SlotsHold
  <1> QED
    BY <1>1, <1>2 DEF LruHolds

(* move_to_head *)
LEMMA MoveToHeadIs ==
    ASSUME NEW c, NEW p, LruHolds(c, p), NEW i \in 1..Len(p)
    PROVE  /\ SameBut(c, LruM!MoveToHead(c, p[i]))
           /\ LruHolds(LruM!MoveToHead(c, p[i]), <<p[i]>> \o RemoveAt(p, i))
  <1>1. PICK L \in Nat : L = Len(p)
    BY DEF LruHolds, IsLru
  <1>2. /\ IsLru(c, p) /\ c \in LruCaches /\ p \in Seq(LruM!Addresses) /\ i \in 1..L
        /\ \A j \in 1..L : p[j] \in Live(c) /\ p[j] \in LruM!Addresses
    BY <1>1 DEF LruHolds, IsLru, Live
  <1>3. \A a, b \in 1..L : p[a] = p[b] => a = b
    BY <1>1, <1>2 DEF IsLru
  <1>4. PICK q \in Seq(LruM!Addresses) :
             q = RemoveAt(p, i) /\ Len(q) = L - 1 /\ \A j \in 1..(L - 1) : q[j] = IF j < i THEN p[j] ELSE p[j + 1]
    BY <1>1, <1>2, RemoveAtIs
  <1>5. PICK r \in Seq(LruM!Addresses) :
             r = <<p[i]>> \o q /\ Len(r) = L /\ \A j \in 1..L : r[j] = IF j = 1 THEN p[i] ELSE q[j - 1]
    <2>1. PICK r \in Seq(LruM!Addresses) : r = <<p[i]>> \o q
      BY <1>2, <1>4, InFront
    <2>2. /\ Len(<<p[i]>> \o q) = Len(q) + 1
          /\ \A j \in 1..(Len(q) + 1) : (<<p[i]>> \o q)[j] = IF j = 1 THEN p[i] ELSE q[j - 1]
      BY <1>2, <1>4, InFront
    <2>3. Len(q) + 1 = L
      BY <1>4
    <2> QED
      BY <2>1, <2>2, <2>3
  <1>6. c.head = p[1] /\ (p[i] = c.head <=> i = 1)
    <2>1. 1 \in 1..L /\ L # 0
      BY <1>2
    <2> QED
      BY <1>1, <1>2, <1>3, <2>1 DEF IsLru
  <1>7. CASE i = 1
    <2>1. LruM!MoveToHead(c, p[i]) = c
      BY <1>6, <1>7 DEF LruM!MoveToHead
    <2>2. r = p
      <3>1. ASSUME NEW j \in 1..L PROVE r[j] = p[j]
        <4>1. j # 1 => j - 1 \in 1..(L - 1) /\ ~(j - 1 < 1) /\ (j - 1) + 1 = j
          OBVIOUS
        <4>2. j # 1 => q[j - 1] = p[j]
          BY <1>4, <1>7, <4>1
        <4> QED
          BY <1>5, <1>7, <4>2
      <3> QED
        BY <1>1, <1>2, <1>5, <3>1, SeqEqual
    <2>3. SameBut(c, c)
      BY <1>2 DEF SameBut
    <2> QED
      BY <1>4, <1>5, <2>1, <2>2, <2>3
  <1>8. CASE i # 1
    <2>1. i \in 2..Len(p)
      BY <1>1, <1>2, <1>8
    <2>2. PICK d : d = Unlinked(c, p[i]) /\ SameBut(c, d) /\ IsLru(d, q)
      BY <1>2, <1>4, <2>1, UnlinkIs
    <2>3. p[i] \in Live(d)
      BY <1>2, <2>2 DEF SameBut
    <2>4. \A j \in 1..Len(q) : q[j] # p[i]
      BY <1>2, <1>3, <1>4
    <2>5. SameBut(d, LruM!AtHead(d, p[i])) /\ IsLru(LruM!AtHead(d, p[i]), <<p[i]>> \o q)
      BY <2>2, <2>3, <2>4, AtHeadIs
    <2>6. LruM!MoveToHead(c, p[i]) = LruM!AtHead(d, p[i])
      BY <1>6, <1>8, <2>2 DEF LruM!MoveToHead, Unlinked
    <2>7. PICK e : e = LruM!MoveToHead(c, p[i]) /\ SameBut(c, e) /\ IsLru(e, r)
      BY <1>5, <2>2, <2>5, <2>6, SameButTwice
    <2>8. ASSUME NEW a \in Live(c) PROVE \E j \in 1..Len(r) : r[j] = a
      <3>1. PICK m \in 1..L : p[m] = a
        BY <1>1, <2>8 DEF LruHolds, AllListed
      <3>2. CASE m = i
        <4>1. 1 \in 1..Len(r) /\ r[1] = a
          BY <1>2, <1>5, <3>1, <3>2
        <4> QED
          BY <4>1
      <3>3. CASE m < i
        <4>1. m \in 1..(L - 1) /\ m + 1 \in 1..L /\ m + 1 # 1 /\ (m + 1) - 1 = m
          BY <1>2, <3>3
        <4>2. r[m + 1] = a
          BY <1>4, <1>5, <3>1, <3>3, <4>1
        <4> QED
          BY <1>5, <4>1, <4>2
      <3>4. CASE m > i
        <4>1. PICK o \in 1..(L - 1) : o = m - 1 /\ o + 1 = m /\ ~(o < i) /\ m # 1
          BY <1>2, <3>4
        <4>2. r[m] = a
          BY <1>4, <1>5, <3>1, <4>1
        <4> QED
          BY <1>5, <4>2
      <3> QED
        BY <1>2, <3>2, <3>3, <3>4
    <2>9. LruHolds(e, r)
      <3>1. Len(r) = Len(p)
        BY <1>1, <1>5
      <3> QED
        BY <2>7, <2>8, <3>1, SameButHolds
    <2> QED
      BY <1>4, <1>5, <2>7, <2>9
  <1> QED
    BY <1>7, <1>8

(* put of a key in its slot gives its node another value. *)
Rewritten(c, d, n, x) ==
    /\ d \in LruCaches /\ Live(d) = Live(c)
    /\ d.table = c.table /\ d.size = c.size /\ d.head = c.head /\ d.tail = c.tail
    /\ d.latest = [c.latest EXCEPT ![c.nodes[n].key] = x]
    /\ \A a \in Live(c) : /\ d.nodes[a].key = c.nodes[a].key
                          /\ d.nodes[a].value = IF a = n THEN x ELSE c.nodes[a].value
                          /\ d.nodes[a].prev = c.nodes[a].prev /\ d.nodes[a].next = c.nodes[a].next

LEMMA RewriteIs ==
    ASSUME NEW c \in LruCaches, NEW n \in Live(c), NEW x \in Elements, NEW k, k = c.nodes[n].key
    PROVE  Rewritten(c, [c EXCEPT !.nodes[n].value = x, !.latest[k] = x], n, x)
  <1>1. n \in LruM!Addresses /\ c.nodes[n] \in LruNodes /\ k \in Keys
    BY LiveNodes, HashesAre DEF Live
  <1>2. PICK node : node = [c.nodes[n] EXCEPT !.value = x]
    OBVIOUS
  <1>3. /\ node \in LruNodes /\ node.value = x
        /\ node.key = c.nodes[n].key /\ node.prev = c.nodes[n].prev /\ node.next = c.nodes[n].next
    BY <1>1, <1>2 DEF LruNodes
  <1>4. PICK d : d = WithNode(c, n, node)
    OBVIOUS
  <1>5. NodeSet(c, d, n, node)
    BY <1>3, <1>4, NodeIsSet
  <1>6. PICK latest \in [Keys -> Elements \cup {Null}] : latest = [c.latest EXCEPT ![k] = x]
    <2>1. [c.latest EXCEPT ![k] = x] \in [Keys -> Elements \cup {Null}]
      BY DEF LruCaches
    <2> QED
      BY <2>1
  <1>7. d \in LruCaches
    BY <1>5 DEF NodeSet
  <1>8. PICK e : e = [d EXCEPT !.latest = latest]
    OBVIOUS
  <1>9. /\ e \in LruCaches /\ e.latest = latest /\ e.table = d.table /\ e.nodes = d.nodes
        /\ e.size = d.size /\ e.head = d.head /\ e.tail = d.tail
    BY <1>7, <1>8 DEF LruCaches
  <1>10. [c EXCEPT !.nodes[n].value = x, !.latest[k] = x] = e
    BY <1>2, <1>4, <1>6, <1>8 DEF WithNode, LruCaches
  <1>11. Live(e) = Live(d) /\ Live(c) \subseteq LruM!Addresses
    BY <1>9 DEF Live
  <1>12. e.latest = [c.latest EXCEPT ![c.nodes[n].key] = x]
    BY <1>6, <1>9
  <1>13. /\ Live(e) = Live(c) /\ e.table = c.table /\ e.size = c.size /\ e.head = c.head /\ e.tail = c.tail
         /\ \A a \in LruM!Addresses : e.nodes[a] = IF a = n THEN node ELSE c.nodes[a]
    BY <1>5, <1>9, <1>11 DEF NodeSet
  <1>14. \A a \in Live(c) : /\ e.nodes[a].key = c.nodes[a].key
                            /\ e.nodes[a].value = IF a = n THEN x ELSE c.nodes[a].value
                            /\ e.nodes[a].prev = c.nodes[a].prev /\ e.nodes[a].next = c.nodes[a].next
    BY <1>3, <1>11, <1>13
  <1>15. Rewritten(c, e, n, x)
    BY <1>9, <1>12, <1>13, <1>14 DEF Rewritten
  <1> QED
    BY <1>10, <1>15

LEMMA RewriteHolds ==
    ASSUME NEW c, NEW p, LruHolds(c, p), NEW d, NEW n \in Live(c), NEW x \in Elements,
           Rewritten(c, d, n, x), c.table[LruHash[c.nodes[n].key]] = n
    PROVE  LruHolds(d, p)
  <1>1. c \in LruCaches /\ IsLru(c, p)
    BY DEF LruHolds, IsLru
  <1>2. /\ d \in LruCaches /\ Live(d) = Live(c)
        /\ d.table = c.table /\ d.size = c.size /\ d.head = c.head /\ d.tail = c.tail
        /\ \A a \in Live(c) : /\ d.nodes[a].key = c.nodes[a].key
                              /\ d.nodes[a].value = IF a = n THEN x ELSE c.nodes[a].value
                              /\ d.nodes[a].prev = c.nodes[a].prev /\ d.nodes[a].next = c.nodes[a].next
    BY DEF Rewritten
  <1>3. IsLru(d, p)
    BY <1>1, <1>2, SameList
  <1>4. AllListed(d, p) /\ d.size = Len(p)
    BY <1>2 DEF LruHolds, AllListed
  <1>5. SlotsHold(d)
    <2>1. PICK k \in Keys : k = c.nodes[n].key /\ LruHash[k] \in LruM!Hashes
      BY <1>1, HashesAre
    <2>2. \A j \in Keys : d.latest[j] = IF j = k THEN x ELSE c.latest[j]
      <3>1. d.latest = [c.latest EXCEPT ![k] = x]
        BY <2>1 DEF Rewritten
      <3> QED
        BY <1>1, <3>1 DEF LruCaches
    <2>3. ASSUME NEW h \in LruM!Hashes, NEW m, m = c.table[h], m # Null
          PROVE  m \in Live(d) /\ LruHash[d.nodes[m].key] = h /\ d.nodes[m].value = d.latest[d.nodes[m].key]
      <3>1. m \in Live(c) /\ LruHash[c.nodes[m].key] = h /\ c.nodes[m].value = c.latest[c.nodes[m].key]
        BY <2>3 DEF LruHolds, SlotsHold
      <3>2. c.nodes[m].key \in Keys
        BY <1>1, <3>1, HashesAre
      <3>3. c.nodes[m].key = k => m = n
        BY <2>1, <2>3, <3>1
      <3> QED
        BY <1>2, <2>1, <2>2, <3>1, <3>2, <3>3
    <2> QED
      BY <1>2, <2>3 DEF SlotsHold
  <1> QED
    BY <1>3, <1>4, <1>5 DEF LruHolds

(* remove_tail *)
LEMMA RemoveTailHolds ==
    ASSUME NEW c, NEW p, LruHolds(c, p), Len(p) # 0
    PROVE  /\ Evicted(c, LruM!RemoveTail(c), p[Len(p)])
           /\ LruHolds(LruM!RemoveTail(c), RemoveAt(p, Len(p)))
  <1>1. PICK L \in Nat : L = Len(p) /\ L # 0 /\ L \in 1..Len(p)
    BY DEF LruHolds, IsLru
  <1>2. IsLru(c, p) /\ c.size = L /\ c \in LruCaches /\ p \in Seq(LruM!Addresses) /\ p[L] \in Live(c)
    BY <1>1 DEF LruHolds, IsLru
  <1>3. PICK d : d = LruM!RemoveTail(c) /\ Evicted(c, d, p[L]) /\ IsLru(d, RemoveAt(p, L))
    BY <1>1, <1>2, RemoveTailIs
  <1>4. PICK q \in Seq(LruM!Addresses) :
             q = RemoveAt(p, L) /\ Len(q) = L - 1 /\ \A j \in 1..(L - 1) : q[j] = p[j]
    BY <1>1, <1>2, RemoveAtIs
  <1>5. /\ d \in LruCaches /\ Live(d) = Live(c) \ {p[L]} /\ d.latest = c.latest /\ d.size = L - 1
        /\ d.table = [c.table EXCEPT ![LruHash[c.nodes[p[L]].key]] = Null]
        /\ \A a \in Live(d) : d.nodes[a].key = c.nodes[a].key /\ d.nodes[a].value = c.nodes[a].value
    BY <1>2, <1>3 DEF Evicted
  <1>6. AllListed(d, q)
    <2>1. ASSUME NEW a \in Live(d) PROVE \E j \in 1..Len(q) : q[j] = a
      <3>1. PICK j \in 1..L : p[j] = a /\ j # L
        BY <1>1, <1>5 DEF LruHolds, AllListed
      <3>2. j \in 1..(L - 1)
        BY <3>1
      <3> QED
        BY <1>4, <3>1, <3>2
    <2> QED
      BY <2>1 DEF AllListed
  <1>7. SlotsHold(d)
    <2>1. PICK g \in LruM!Hashes : g = LruHash[c.nodes[p[L]].key]
      BY <1>2, HashesAre
    <2>2. \A h \in LruM!Hashes : d.table[h] = IF h = g THEN Null ELSE c.table[h]
      <3>1. d.table = [c.table EXCEPT ![g] = Null]
        BY <1>5, <2>1
      <3> QED
        BY <1>2, <3>1 DEF LruCaches
    <2>3. ASSUME NEW h \in LruM!Hashes, NEW m, m = d.table[h], m # Null
          PROVE  m \in Live(d) /\ LruHash[d.nodes[m].key] = h /\ d.nodes[m].value = d.latest[d.nodes[m].key]
      <3>1. m = c.table[h] /\ h # g
        BY <2>2, <2>3
      <3>2. m \in Live(c) /\ LruHash[c.nodes[m].key] = h /\ c.nodes[m].value = c.latest[c.nodes[m].key]
        BY <2>3, <3>1 DEF LruHolds, SlotsHold
      <3>3. m # p[L]
        BY <2>1, <3>1, <3>2
      <3> QED
        BY <1>5, <3>2, <3>3
    <2> QED
      BY <2>3 DEF SlotsHold
  <1> QED
    BY <1>1, <1>3, <1>4, <1>5, <1>6, <1>7 DEF LruHolds

(* put of a key that is not in its slot makes a node. *)
NodeMade(c, d, n, k, x) ==
    /\ Live(d) = Live(c) \cup {n} /\ d.size = c.size + 1
    /\ d.table = [c.table EXCEPT ![LruHash[k]] = n]
    /\ d.latest = [c.latest EXCEPT ![k] = x]
    /\ d.nodes[n].key = k /\ d.nodes[n].value = x
    /\ \A a \in Live(c) : d.nodes[a].key = c.nodes[a].key /\ d.nodes[a].value = c.nodes[a].value

WithNew(c, n, k, x) ==
    [LruM!AtHead([c EXCEPT !.nodes[n] = LruM!Node(k, x)], n)
        EXCEPT !.table[LruHash[k]] = n, !.size = @ + 1, !.latest[k] = x]

LEMMA NewNodeIs ==
    ASSUME NEW c, NEW p, LruHolds(c, p), NEW n \in LruM!Addresses, c.nodes[n] = Null,
           NEW k \in Keys, NEW x \in Elements
    PROVE  NodeMade(c, WithNew(c, n, k, x), n, k, x) /\ LruHolds(WithNew(c, n, k, x), <<n>> \o p)
  <1>1. PICK L \in Nat : L = Len(p)
    BY DEF LruHolds, IsLru
  <1>2. /\ IsLru(c, p) /\ c \in LruCaches /\ c.size = L /\ p \in Seq(LruM!Addresses)
        /\ n \notin Live(c) /\ n # Null
        /\ \A j \in 1..L : p[j] \in Live(c) /\ p[j] # n
    BY <1>1, NullIsNoNode DEF LruHolds, IsLru, Live
  <1>3. PICK node \in LruNodes : node = LruM!Node(k, x) /\ node.key = k /\ node.value = x
    <2>1. Null \in LruM!Links
      BY DEF LruM!Links
    <2>2. LruM!Node(k, x) \in LruNodes /\ LruM!Node(k, x).key = k /\ LruM!Node(k, x).value = x
      BY <2>1 DEF LruNodes, LruM!Node
    <2> QED
      BY <2>2
  <1>4. PICK nodes \in [LruM!Addresses -> LruNodes \cup {Null}] : nodes = [c.nodes EXCEPT ![n] = node]
    <2>1. [c.nodes EXCEPT ![n] = node] \in [LruM!Addresses -> LruNodes \cup {Null}]
      BY <1>2 DEF LruCaches
    <2> QED
      BY <2>1
  <1>5. \A a \in LruM!Addresses : nodes[a] = IF a = n THEN node ELSE c.nodes[a]
    BY <1>2, <1>4 DEF LruCaches
  <1>6. PICK d : d = [c EXCEPT !.nodes = nodes]
    OBVIOUS
  <1>7. /\ d \in LruCaches /\ d.nodes = nodes /\ d.table = c.table /\ d.size = c.size
        /\ d.latest = c.latest /\ d.head = c.head /\ d.tail = c.tail
    BY <1>2, <1>4, <1>6 DEF LruCaches
  <1>8. Live(d) = Live(c) \cup {n} /\ \A a \in Live(c) : d.nodes[a] = c.nodes[a]
    BY <1>2, <1>5, <1>7, NullIsNoNode DEF Live
  <1>9. d = [c EXCEPT !.nodes[n] = LruM!Node(k, x)]
    BY <1>3, <1>4, <1>6
  <1>10. IsLru(d, p)
    <2>1. \A a \in Live(c) : d.nodes[a].prev = c.nodes[a].prev /\ d.nodes[a].next = c.nodes[a].next
      BY <1>8
    <2>2. Live(c) \subseteq Live(d)
      BY <1>8
    <2> QED
      BY <1>2, <1>7, <2>1, <2>2, SameList
  <1>11. PICK g : g = LruM!AtHead(d, n) /\ SameBut(d, g) /\ IsLru(g, <<n>> \o p)
    <2>1. n \in Live(d) /\ \A j \in 1..Len(p) : p[j] # n
      BY <1>1, <1>2, <1>8
    <2> QED
      BY <1>10, <2>1, AtHeadIs
  <1>12. /\ g \in LruCaches /\ Live(g) = Live(c) \cup {n}
         /\ g.table = c.table /\ g.size = c.size /\ g.latest = c.latest
         /\ g.nodes[n].key = k /\ g.nodes[n].value = x
         /\ \A a \in Live(c) : g.nodes[a].key = c.nodes[a].key /\ g.nodes[a].value = c.nodes[a].value
    BY <1>3, <1>5, <1>7, <1>8, <1>11 DEF SameBut
  <1>13. PICK f : f = LruHash[k] /\ f \in LruM!Hashes
    BY DEF LruM!Hashes
  <1>14. PICK table \in [LruM!Hashes -> LruM!Links] : table = [g.table EXCEPT ![f] = n]
    <2>1. [g.table EXCEPT ![f] = n] \in [LruM!Hashes -> LruM!Links]
      BY <1>12 DEF LruCaches, LruM!Links
    <2> QED
      BY <2>1
  <1>15. PICK latest \in [Keys -> Elements \cup {Null}] : latest = [g.latest EXCEPT ![k] = x]
    <2>1. [g.latest EXCEPT ![k] = x] \in [Keys -> Elements \cup {Null}]
      BY <1>12 DEF LruCaches
    <2> QED
      BY <2>1
  <1>16. PICK size \in Nat : size = g.size + 1
    BY <1>12 DEF LruCaches
  <1>17. PICK s : s = [g EXCEPT !.table = table]
    OBVIOUS
  <1>18. /\ s \in LruCaches /\ s.table = table /\ s.nodes = g.nodes /\ s.size = g.size
         /\ s.latest = g.latest /\ s.head = g.head /\ s.tail = g.tail
    BY <1>12, <1>17 DEF LruCaches
  <1>19. PICK t : t = [s EXCEPT !.size = size]
    OBVIOUS
  <1>20. /\ t \in LruCaches /\ t.table = s.table /\ t.nodes = s.nodes /\ t.size = size
         /\ t.latest = s.latest /\ t.head = s.head /\ t.tail = s.tail
    BY <1>18, <1>19 DEF LruCaches
  <1>21. PICK u : u = [t EXCEPT !.latest = latest]
    OBVIOUS
  <1>22. /\ u \in LruCaches /\ u.table = table /\ u.nodes = g.nodes /\ u.size = c.size + 1
         /\ u.latest = latest /\ u.head = g.head /\ u.tail = g.tail
    <2>1. /\ u \in LruCaches /\ u.table = t.table /\ u.nodes = t.nodes /\ u.size = t.size
          /\ u.latest = latest /\ u.head = t.head /\ u.tail = t.tail
      BY <1>20, <1>21 DEF LruCaches
    <2> QED
      BY <1>12, <1>16, <1>18, <1>20, <2>1
  <1>23. u = WithNew(c, n, k, x)
    <2>1. WithNew(c, n, k, x) = [g EXCEPT !.table[LruHash[k]] = n, !.size = @ + 1, !.latest[k] = x]
      BY <1>9, <1>11 DEF WithNew
    <2>2. [g EXCEPT !.table[LruHash[k]] = n, !.size = @ + 1, !.latest[k] = x]
            = [g EXCEPT !.table = table, !.size = size, !.latest = latest]
      BY <1>12, <1>13, <1>14, <1>15, <1>16 DEF LruCaches
    <2>3. [g EXCEPT !.table = table, !.size = size, !.latest = latest] = u
      BY <1>12, <1>17, <1>19, <1>21 DEF LruCaches
    <2> QED
      BY <2>1, <2>2, <2>3
  <1>24. Live(u) = Live(c) \cup {n}
    BY <1>12, <1>22 DEF Live
  <1>25. NodeMade(c, u, n, k, x)
    <2>1. u.table = [c.table EXCEPT ![LruHash[k]] = n] /\ u.latest = [c.latest EXCEPT ![k] = x]
      BY <1>12, <1>13, <1>14, <1>15, <1>22
    <2> QED
      BY <1>12, <1>22, <1>24, <2>1 DEF NodeMade
  <1>26. PICK r \in Seq(LruM!Addresses) :
              r = <<n>> \o p /\ Len(r) = L + 1 /\ \A j \in 1..(L + 1) : r[j] = IF j = 1 THEN n ELSE p[j - 1]
    <2>1. PICK r \in Seq(LruM!Addresses) : r = <<n>> \o p
      BY <1>2, InFront
    <2>2. /\ Len(<<n>> \o p) = Len(p) + 1
          /\ \A j \in 1..(Len(p) + 1) : (<<n>> \o p)[j] = IF j = 1 THEN n ELSE p[j - 1]
      BY <1>2, InFront
    <2> QED
      BY <1>1, <2>1, <2>2
  <1>27. IsLru(u, r)
    <2>1. Live(g) \subseteq Live(u)
      BY <1>12, <1>24
    <2>2. \A a \in Live(g) : u.nodes[a].prev = g.nodes[a].prev /\ u.nodes[a].next = g.nodes[a].next
      BY <1>22
    <2>3. IsLru(g, r)
      BY <1>11, <1>26
    <2> QED
      BY <1>22, <2>1, <2>2, <2>3, SameList
  <1>28. AllListed(u, r)
    <2>1. ASSUME NEW a \in Live(u) PROVE \E j \in 1..Len(r) : r[j] = a
      <3>1. CASE a = n
        <4>1. 1 \in 1..Len(r) /\ r[1] = a
          BY <1>1, <1>26, <3>1
        <4> QED
          BY <4>1
      <3>2. CASE a \in Live(c)
        <4>1. PICK m \in 1..L : p[m] = a
          BY <1>1, <3>2 DEF LruHolds, AllListed
        <4>2. m + 1 \in 1..(L + 1) /\ m + 1 # 1 /\ (m + 1) - 1 = m
          OBVIOUS
        <4>3. r[m + 1] = a
          BY <1>26, <4>1, <4>2
        <4> QED
          BY <1>26, <4>2, <4>3
      <3> QED
        BY <1>24, <3>1, <3>2
    <2> QED
      BY <2>1 DEF AllListed
  <1>29. SlotsHold(u)
    <2>1. \A h \in LruM!Hashes : u.table[h] = IF h = f THEN n ELSE c.table[h]
      BY <1>12, <1>14, <1>22 DEF LruCaches
    <2>2. \A j \in Keys : u.latest[j] = IF j = k THEN x ELSE c.latest[j]
      BY <1>12, <1>15, <1>22 DEF LruCaches
    <2>3. ASSUME NEW h \in LruM!Hashes, NEW m, m = u.table[h], m # Null
          PROVE  m \in Live(u) /\ LruHash[u.nodes[m].key] = h /\ u.nodes[m].value = u.latest[u.nodes[m].key]
      <3>1. CASE h = f
        BY <1>12, <1>13, <1>22, <1>24, <2>1, <2>2, <2>3, <3>1
      <3>2. CASE h # f
        <4>1. m = c.table[h]
          BY <2>1, <2>3, <3>2
        <4>2. m \in Live(c) /\ LruHash[c.nodes[m].key] = h /\ c.nodes[m].value = c.latest[c.nodes[m].key]
          BY <2>3, <4>1 DEF LruHolds, SlotsHold
        <4>3. c.nodes[m].key \in Keys /\ c.nodes[m].key # k
          BY <1>2, <1>13, <3>2, <4>2, HashesAre
        <4> QED
          BY <1>12, <1>22, <1>24, <2>2, <4>2, <4>3
      <3> QED
        BY <3>1, <3>2
    <2> QED
      BY <2>3 DEF SlotsHold
  <1>30. u.size = Len(r)
    BY <1>2, <1>22, <1>26
  <1>31. LruHolds(u, r)
    BY <1>27, <1>28, <1>29, <1>30 DEF LruHolds
  <1> QED
    BY <1>23, <1>25, <1>26, <1>31

LEMMA LruInitHolds == LruM!Init => LruHolds(obj, <<>>)
  <1> SUFFICES ASSUME LruM!Init PROVE LruHolds(obj, <<>>)
    OBVIOUS
  <1>1. obj = [table |-> [h \in LruM!Hashes |-> Null], nodes |-> [n \in LruM!Addresses |-> Null],
               head |-> Null, tail |-> Null, size |-> 0, latest |-> [k \in Keys |-> Null]]
    BY DEF LruM!Init
  <1>2. obj \in LruCaches /\ obj.head = Null /\ obj.tail = Null /\ obj.size = 0
    BY <1>1 DEF LruCaches, LruM!Links
  <1>3. Live(obj) = {} /\ \A h \in LruM!Hashes : obj.table[h] = Null
    BY <1>1 DEF Live
  <1>4. <<>> \in Seq(LruM!Addresses) /\ Len(<<>>) = 0 /\ 1..0 = {}
    OBVIOUS
  <1>5. IsLru(obj, <<>>)
    BY <1>2, <1>4 DEF IsLru
  <1> QED
    BY <1>2, <1>3, <1>4, <1>5 DEF LruHolds, AllListed, SlotsHold

(* What clients see of a node, and of the list. *)
Entry(c, a) == <<c.nodes[a].key, c.nodes[a].value>>
EntriesOf(c, p) == [i \in 1..Len(p) |-> Entry(c, p[i])]

LEMMA EntriesAre ==
    ASSUME NEW c \in LruCaches, NEW p \in Seq(LruM!Addresses), \A i \in 1..Len(p) : p[i] \in Live(c)
    PROVE  /\ EntriesOf(c, p) \in Seq(Keys \X Elements) /\ Len(EntriesOf(c, p)) = Len(p)
           /\ DOMAIN EntriesOf(c, p) = 1..Len(p)
           /\ \A i \in 1..Len(p) : EntriesOf(c, p)[i] = Entry(c, p[i])
  <1>1. PICK L \in Nat : L = Len(p)
    OBVIOUS
  <1>2. ASSUME NEW i \in 1..L PROVE Entry(c, p[i]) \in Keys \X Elements
    <2>1. c.nodes[p[i]] \in LruNodes
      BY <1>1, LiveNodes DEF Live
    <2> QED
      BY <2>1 DEF LruNodes, Entry
  <1>3. EntriesOf(c, p) \in [1..L -> Keys \X Elements] /\ \A i \in 1..L : EntriesOf(c, p)[i] = Entry(c, p[i])
    BY <1>1, <1>2 DEF EntriesOf
  <1> QED
    BY <1>1, <1>3, MadeSeq

LEMMA EntriesInFront ==
    ASSUME NEW c \in LruCaches, NEW d \in LruCaches, NEW q \in Seq(LruM!Addresses), NEW n \in Live(d),
           \A j \in 1..Len(q) : q[j] \in Live(c) /\ q[j] \in Live(d) /\ Entry(d, q[j]) = Entry(c, q[j])
    PROVE  EntriesOf(d, <<n>> \o q) = <<Entry(d, n)>> \o EntriesOf(c, q)
  <1>1. PICK L \in Nat : L = Len(q)
    OBVIOUS
  <1>2. PICK r \in Seq(LruM!Addresses) :
            r = <<n>> \o q /\ Len(r) = L + 1 /\ \A j \in 1..(L + 1) : r[j] = IF j = 1 THEN n ELSE q[j - 1]
    <2>1. n \in LruM!Addresses
      BY DEF Live
    <2>2. PICK r \in Seq(LruM!Addresses) : r = <<n>> \o q
      BY <2>1, InFront
    <2>3. /\ Len(<<n>> \o q) = Len(q) + 1
          /\ \A j \in 1..(Len(q) + 1) : (<<n>> \o q)[j] = IF j = 1 THEN n ELSE q[j - 1]
      BY <2>1, InFront
    <2> QED
      BY <1>1, <2>2, <2>3
  <1>3. PICK e \in Seq(Keys \X Elements) : e = EntriesOf(c, q) /\ Len(e) = L /\ \A j \in 1..L : e[j] = Entry(c, q[j])
    BY <1>1, EntriesAre
  <1>4. PICK f : f = Entry(d, n) /\ f \in Keys \X Elements
    <2>1. d.nodes[n] \in LruNodes
      BY LiveNodes DEF Live
    <2>2. Entry(d, n) \in Keys \X Elements
      BY <2>1 DEF LruNodes, Entry
    <2> QED
      BY <2>2
  <1>5. PICK s \in Seq(Keys \X Elements) :
            s = <<f>> \o e /\ Len(s) = L + 1 /\ \A j \in 1..(L + 1) : s[j] = IF j = 1 THEN f ELSE e[j - 1]
    <2>1. PICK s \in Seq(Keys \X Elements) : s = <<f>> \o e
      BY <1>4, InFront
    <2>2. /\ Len(<<f>> \o e) = Len(e) + 1
          /\ \A j \in 1..(Len(e) + 1) : (<<f>> \o e)[j] = IF j = 1 THEN f ELSE e[j - 1]
      BY <1>4, InFront
    <2> QED
      BY <1>3, <2>1, <2>2
  <1>6. \A j \in 1..(L + 1) : j = 1 \/ j - 1 \in 1..L
    OBVIOUS
  <1>7. \A j \in 1..(L + 1) : r[j] \in Live(d) /\ s[j] = Entry(d, r[j])
    BY <1>1, <1>2, <1>3, <1>4, <1>5, <1>6
  <1>8. PICK t \in Seq(Keys \X Elements) :
            t = EntriesOf(d, r) /\ Len(t) = L + 1 /\ \A j \in 1..(L + 1) : t[j] = Entry(d, r[j])
    <2>1. /\ EntriesOf(d, r) \in Seq(Keys \X Elements) /\ Len(EntriesOf(d, r)) = Len(r)
          /\ \A j \in 1..Len(r) : EntriesOf(d, r)[j] = Entry(d, r[j])
      BY <1>2, <1>7, EntriesAre
    <2> QED
      BY <1>2, <2>1
  <1>9. t = s
    BY <1>5, <1>7, <1>8, SeqEqual
  <1> QED
    BY <1>2, <1>3, <1>4, <1>5, <1>8, <1>9

LEMMA EntriesWithout ==
    ASSUME NEW c \in LruCaches, NEW d \in LruCaches, NEW p \in Seq(LruM!Addresses), NEW i \in 1..Len(p),
           \A j \in 1..Len(p) : p[j] \in Live(c),
           \A j \in 1..Len(p) : j # i => p[j] \in Live(d) /\ Entry(d, p[j]) = Entry(c, p[j])
    PROVE  EntriesOf(d, RemoveAt(p, i)) = RemoveAt(EntriesOf(c, p), i)
  <1>1. PICK L \in Nat : L = Len(p) /\ i \in 1..L
    OBVIOUS
  <1>2. PICK q \in Seq(LruM!Addresses) :
             q = RemoveAt(p, i) /\ Len(q) = L - 1 /\ \A j \in 1..(L - 1) : q[j] = IF j < i THEN p[j] ELSE p[j + 1]
    BY <1>1, RemoveAtIs
  <1>3. PICK e \in Seq(Keys \X Elements) : e = EntriesOf(c, p) /\ Len(e) = L /\ \A j \in 1..L : e[j] = Entry(c, p[j])
    BY <1>1, EntriesAre
  <1>4. PICK s \in Seq(Keys \X Elements) :
             s = RemoveAt(e, i) /\ Len(s) = L - 1 /\ \A j \in 1..(L - 1) : s[j] = IF j < i THEN e[j] ELSE e[j + 1]
    <2>1. i \in 1..Len(e)
      BY <1>1, <1>3
    <2>2. /\ RemoveAt(e, i) \in Seq(Keys \X Elements) /\ Len(RemoveAt(e, i)) = Len(e) - 1
          /\ \A j \in 1..(Len(e) - 1) : RemoveAt(e, i)[j] = IF j < i THEN e[j] ELSE e[j + 1]
      BY <2>1, RemoveAtIs
    <2> QED
      BY <1>3, <2>2
  <1>5. ASSUME NEW j \in 1..(L - 1) PROVE q[j] \in Live(d) /\ s[j] = Entry(d, q[j])
    <2>1. j \in 1..L /\ j + 1 \in 1..L /\ (j < i => j # i) /\ (~(j < i) => j + 1 # i)
      BY <1>1
    <2> QED
      BY <1>1, <1>2, <1>3, <1>4, <2>1
  <1>6. PICK t \in Seq(Keys \X Elements) :
            t = EntriesOf(d, q) /\ Len(t) = L - 1 /\ \A j \in 1..(L - 1) : t[j] = Entry(d, q[j])
    <2>1. /\ EntriesOf(d, q) \in Seq(Keys \X Elements) /\ Len(EntriesOf(d, q)) = Len(q)
          /\ \A j \in 1..Len(q) : EntriesOf(d, q)[j] = Entry(d, q[j])
      BY <1>2, <1>5, EntriesAre
    <2> QED
      BY <1>2, <2>1
  <1>7. t = s
    BY <1>4, <1>5, <1>6, SeqEqual
  <1> QED
    BY <1>2, <1>3, <1>4, <1>6, <1>7

(* LruSpec brings its own copies of the operators on sequences. *)
LEMMA SameLruOperators ==
    /\ \A s, i : Lru!RemoveAt(s, i) = RemoveAt(s, i)
    /\ \A s : Lru!Front(s) = Front(s)
  BY DEF Lru!RemoveAt, RemoveAt, Lru!Front, Front

LruEntriesShow == \A p : LruHolds(obj, p) => LruM!Entries = EntriesOf(obj, p)

LEMMA LruEntriesRead == LruEntriesShow
  <1> SUFFICES ASSUME NEW p, LruHolds(obj, p) PROVE LruM!Entries = EntriesOf(obj, p)
    BY DEF LruEntriesShow
  <1>1. p \in Seq(LruM!Addresses) /\ LruM!List = p
    BY LruReads DEF LruHolds, IsLru
  <1>2. DOMAIN p = 1..Len(p)
    BY <1>1, LenProperties
  <1> QED
    BY <1>1, <1>2 DEF LruM!Entries, EntriesOf, Entry

(* What clients see is c before a step and d after it. *)
Shows(c, d) == kind = "lru" /\ kind' = "lru" /\ LruM!Entries = c /\ LruM!Entries' = d

LEMMA LruShows ==
    ASSUME NEW p, NEW q, LruHolds(obj, p), LruHolds(obj', q), kind = "lru", kind' = kind
    PROVE  Shows(EntriesOf(obj, p), EntriesOf(obj', q))
  <1>1. LruEntriesShow'
    BY LruEntriesRead, PTL
  <1>2. LruM!Entries' = EntriesOf(obj', q)
    BY <1>1 DEF LruEntriesShow
  <1> QED
    BY <1>2, LruEntriesRead DEF LruEntriesShow, Shows

(* A hit finds its key in the list; while no node is displaced a miss does    *)
(* not.                                                                      *)
LEMMA HitIsListed ==
    ASSUME NEW p, LruHolds(obj, p), NEW k \in Keys, LruM!IsHit(k)
    PROVE  \E i \in 1..Len(p) : /\ p[i] = LruM!Slot(k) /\ p[i] \in Live(obj)
                                /\ obj.nodes[p[i]].key = k /\ obj.table[LruHash[k]] = p[i]
  <1>1. LruM!Slot(k) = obj.table[LruHash[k]] /\ LruHash[k] \in LruM!Hashes
    BY DEF LruM!Slot, LruM!Hashes
  <1>2. LruM!Slot(k) \in Live(obj) /\ obj.nodes[LruM!Slot(k)].key = k
    BY <1>1 DEF LruM!IsHit, LruHolds, SlotsHold
  <1> QED
    BY <1>1, <1>2 DEF LruHolds, AllListed

LEMMA MissIsAbsent ==
    ASSUME NEW p, LruHolds(obj, p), NEW k \in Keys, ~LruM!IsHit(k), LruM!NoneDisplaced(obj)
    PROVE  \A i \in 1..Len(p) : obj.nodes[p[i]].key # k
  <1> SUFFICES ASSUME NEW i \in 1..Len(p), obj.nodes[p[i]].key = k PROVE FALSE
    OBVIOUS
  <1>1. p[i] \in LruM!Addresses /\ p[i] # Null /\ obj.nodes[p[i]] # Null
    BY NullIsNoNode DEF LruHolds, IsLru, Live
  <1>2. obj.table[LruHash[k]] = p[i]
    BY <1>1 DEF LruM!NoneDisplaced
  <1> QED
    BY <1>1, <1>2 DEF LruM!IsHit, LruM!Slot

LEMMA PlacesAre ==
    ASSUME NEW p, LruHolds(obj, p), kind = "lru", NEW k
    PROVE  Lru!Places(k) = {i \in 1..Len(p) : obj.nodes[p[i]].key = k}
  <1>1. obj \in LruCaches /\ p \in Seq(LruM!Addresses) /\ \A i \in 1..Len(p) : p[i] \in Live(obj)
    BY DEF LruHolds, IsLru
  <1>2. /\ DOMAIN EntriesOf(obj, p) = 1..Len(p)
        /\ \A i \in 1..Len(p) : EntriesOf(obj, p)[i] = Entry(obj, p[i])
    BY <1>1, EntriesAre
  <1>3. LruM!Entries = EntriesOf(obj, p)
    BY LruEntriesRead DEF LruEntriesShow
  <1>4. \A i \in 1..Len(p) : EntriesOf(obj, p)[i][1] = obj.nodes[p[i]].key
    BY <1>2 DEF Entry
  <1> QED
    BY <1>2, <1>3, <1>4 DEF Lru!Places

(* cap_lru_cache_get and the put of a present key: the i-th entry moves to    *)
(* the front.                                                                *)
OthersSame(c, d, p, i) == \A j \in 1..Len(p) : j # i => Entry(d, p[j]) = Entry(c, p[j])
Moved(c, d, p, i) ==
    EntriesOf(d, <<p[i]>> \o RemoveAt(p, i)) = <<Entry(d, p[i])>> \o RemoveAt(EntriesOf(c, p), i)

LEMMA MovedEntries ==
    ASSUME NEW c, NEW p, LruHolds(c, p), NEW d \in LruCaches, NEW i \in 1..Len(p), Live(d) = Live(c),
           OthersSame(c, d, p, i)
    PROVE  Moved(c, d, p, i)
  <1>1. PICK L \in Nat : L = Len(p) /\ i \in 1..L
    BY DEF LruHolds, IsLru
  <1>2. c \in LruCaches /\ p \in Seq(LruM!Addresses) /\ \A j \in 1..L : p[j] \in Live(c) /\ p[j] \in Live(d)
    BY <1>1 DEF LruHolds, IsLru
  <1>3. PICK r \in Seq(LruM!Addresses) :
             r = RemoveAt(p, i) /\ Len(r) = L - 1 /\ \A j \in 1..(L - 1) : r[j] = IF j < i THEN p[j] ELSE p[j + 1]
    BY <1>1, <1>2, RemoveAtIs
  <1>4. ASSUME NEW j \in 1..(L - 1) PROVE r[j] \in Live(d)
    <2>1. j \in 1..L /\ j + 1 \in 1..L
      OBVIOUS
    <2> QED
      BY <1>2, <1>3, <2>1
  <1>5. EntriesOf(d, <<p[i]>> \o r) = <<Entry(d, p[i])>> \o EntriesOf(d, r)
    BY <1>1, <1>2, <1>3, <1>4, EntriesInFront
  <1>6. EntriesOf(d, RemoveAt(p, i)) = RemoveAt(EntriesOf(c, p), i)
    BY <1>1, <1>2, EntriesWithout DEF OthersSame
  <1> QED
    BY <1>3, <1>5, <1>6 DEF Moved

LEMMA LruGetStep ==
    ASSUME NEW p, LruHolds(obj, p), NEW k \in Keys, LruM!Get(k), kind = "lru", kind' = kind
    PROVE  /\ life' = life
           /\ \E q : LruHolds(obj', q)
           /\ LruM!NoneDisplaced(obj) => [Lru!Next]_(Lru!vars)
  <1>1. CASE LruM!IsHit(k)
    <2>1. PICK i \in 1..Len(p) : /\ p[i] = LruM!Slot(k) /\ p[i] \in Live(obj)
                                 /\ obj.nodes[p[i]].key = k /\ obj.table[LruHash[k]] = p[i]
      BY <1>1, HitIsListed
    <2>2. /\ obj' = LruM!MoveToHead(obj, p[i]) /\ life' = life
          /\ last' = [op |-> "get", arg |-> k, answer |-> obj.nodes[p[i]].value]
      BY <1>1, <2>1 DEF LruM!Get, LruM!Did, LruM!Makes
    <2>3. PICK q : q = <<p[i]>> \o RemoveAt(p, i) /\ SameBut(obj, obj') /\ LruHolds(obj', q)
      BY <2>2, MoveToHeadIs
    <2>4. obj' \in LruCaches /\ Live(obj') = Live(obj) /\ \A a \in Live(obj) : Entry(obj', a) = Entry(obj, a)
      BY <2>3 DEF SameBut, Entry
    <2>5. \A j \in 1..Len(p) : p[j] \in Live(obj)
      BY DEF LruHolds, IsLru
    <2>6. EntriesOf(obj', q) = <<Entry(obj', p[i])>> \o RemoveAt(EntriesOf(obj, p), i)
      <3>1. OthersSame(obj, obj', p, i)
        BY <2>4, <2>5 DEF OthersSame
      <3>2. Moved(obj, obj', p, i)
        BY <2>4, <3>1, MovedEntries
      <3> QED
        BY <2>3, <3>2 DEF Moved
    <2>7. Shows(EntriesOf(obj, p), EntriesOf(obj', q))
      BY <2>3, LruShows
    <2>8. EntriesOf(obj, p)[i] = Entry(obj, p[i]) /\ Entry(obj, p[i])[2] = obj.nodes[p[i]].value
      BY DEF EntriesOf, Entry
    <2>9. i \in Lru!Places(k)
      BY <2>1, PlacesAre
    <2>10. EntriesOf(obj', q) = <<EntriesOf(obj, p)[i]>> \o Lru!RemoveAt(EntriesOf(obj, p), i)
      <3>1. Entry(obj', p[i]) = EntriesOf(obj, p)[i]
        BY <2>1, <2>4, <2>8
      <3>2. Lru!RemoveAt(EntriesOf(obj, p), i) = RemoveAt(EntriesOf(obj, p), i)
        BY SameLruOperators, Zenon
      <3> QED
        BY <2>6, <3>1, <3>2
    <2>11. last' = [op |-> "get", arg |-> k, answer |-> EntriesOf(obj, p)[i][2]]
      BY <2>2, <2>8
    <2>12. Lru!GetHit(k)
      BY <2>7, <2>9, <2>10, <2>11 DEF Shows, Lru!GetHit, Lru!Made
    <2> QED
      BY <2>2, <2>3, <2>12 DEF Lru!Next
  <1>2. CASE ~LruM!IsHit(k)
    <2>1. obj' = obj /\ life' = life /\ last' = [op |-> "get", arg |-> k, answer |-> Null]
      BY <1>2 DEF LruM!Get, LruM!Did, LruM!Makes
    <2>2. Shows(EntriesOf(obj, p), EntriesOf(obj, p))
      BY <2>1, LruShows
    <2>3. ASSUME LruM!NoneDisplaced(obj) PROVE Lru!GetMiss(k)
      <3>1. Lru!Places(k) = {}
        BY <1>2, <2>3, PlacesAre, MissIsAbsent
      <3> QED
        BY <2>1, <2>2, <3>1 DEF Shows, Lru!GetMiss, Lru!Made
    <2> QED
      BY <2>1, <2>3 DEF Lru!Next
  <1> QED
    BY <1>1, <1>2

LEMMA LruPutHitStep ==
    ASSUME NEW p, LruHolds(obj, p), NEW k \in Keys, NEW x \in Elements, LruM!PutHit(k, x),
           kind = "lru", kind' = kind
    PROVE  life' = life /\ (\E q : LruHolds(obj', q)) /\ Lru!PutHit(k, x)
  <1>1. PICK i \in 1..Len(p) : /\ p[i] = LruM!Slot(k) /\ p[i] \in Live(obj)
                               /\ obj.nodes[p[i]].key = k /\ obj.table[LruHash[k]] = p[i]
    BY HitIsListed DEF LruM!PutHit
  <1>2. obj \in LruCaches /\ \A j \in 1..Len(p) : p[j] \in Live(obj)
    BY DEF LruHolds, IsLru
  <1>3. PICK d : d = [obj EXCEPT !.nodes[p[i]].value = x, !.latest[k] = x] /\ Rewritten(obj, d, p[i], x)
    BY <1>1, <1>2, RewriteIs
  <1>4. /\ obj' = LruM!MoveToHead(d, p[i]) /\ life' = life
        /\ last' = [op |-> "put", arg |-> <<k, x>>, answer |-> Null]
    BY <1>1, <1>3 DEF LruM!PutHit, LruM!Did, LruM!Makes
  <1>5. LruHolds(d, p)
    BY <1>1, <1>3, RewriteHolds
  <1>6. PICK q : q = <<p[i]>> \o RemoveAt(p, i) /\ SameBut(d, obj') /\ LruHolds(obj', q)
    BY <1>4, <1>5, MoveToHeadIs
  <1>7. /\ Live(d) = Live(obj) /\ Entry(d, p[i]) = <<k, x>>
        /\ \A a \in Live(obj) : a # p[i] => Entry(d, a) = Entry(obj, a)
    BY <1>1, <1>3 DEF Rewritten, Entry
  <1>8. obj' \in LruCaches /\ Live(obj') = Live(d) /\ \A a \in Live(d) : Entry(obj', a) = Entry(d, a)
    BY <1>6 DEF SameBut, Entry
  <1>9. ASSUME NEW j \in 1..Len(p), j # i PROVE Entry(obj', p[j]) = Entry(obj, p[j])
    <2>1. p[j] # p[i]
      BY <1>9 DEF LruHolds, IsLru
    <2> QED
      BY <1>2, <1>7, <1>8, <2>1
  <1>10. EntriesOf(obj', q) = <<Entry(obj', p[i])>> \o RemoveAt(EntriesOf(obj, p), i)
    <2>1. Live(obj') = Live(obj)
      BY <1>7, <1>8
    <2>2. OthersSame(obj, obj', p, i)
      BY <1>9 DEF OthersSame
    <2>3. Moved(obj, obj', p, i)
      BY <1>8, <2>1, <2>2, MovedEntries
    <2> QED
      BY <1>6, <2>3 DEF Moved
  <1>11. EntriesOf(obj', q) = <<<<k, x>>>> \o Lru!RemoveAt(EntriesOf(obj, p), i)
    <2>1. Entry(obj', p[i]) = <<k, x>>
      BY <1>1, <1>7, <1>8
    <2>2. Lru!RemoveAt(EntriesOf(obj, p), i) = RemoveAt(EntriesOf(obj, p), i)
      BY SameLruOperators, Zenon
    <2> QED
      BY <1>10, <2>1, <2>2
  <1>12. Shows(EntriesOf(obj, p), EntriesOf(obj', q))
    BY <1>6, LruShows
  <1>13. i \in Lru!Places(k)
    BY <1>1, PlacesAre
  <1>14. Lru!PutHit(k, x)
    BY <1>4, <1>11, <1>12, <1>13 DEF Shows, Lru!PutHit, Lru!Made
  <1> QED
    BY <1>4, <1>6, <1>14

(* The room that put makes before it links a new node in. *)
Room(c) == IF c.size = Capacity THEN LruM!RemoveTail(c) ELSE c

LEMMA RoomIs ==
    ASSUME NEW c, NEW p, LruHolds(c, p)
    PROVE  \E r : /\ LruHolds(Room(c), r) /\ Len(r) # Capacity
                  /\ EntriesOf(Room(c), r)
                       = IF Len(p) = Capacity THEN Front(EntriesOf(c, p)) ELSE EntriesOf(c, p)
  <1>1. /\ c.size = Len(p) /\ Len(p) \in 0..Capacity /\ Capacity \in Nat \ {0}
        /\ c \in LruCaches /\ p \in Seq(LruM!Addresses) /\ \A i \in 1..Len(p) : p[i] \in Live(c)
    BY LruLength, SequentialAssumption DEF LruHolds, IsLru
  <1>2. CASE Len(p) = Capacity
    <2>1. PICK L \in Nat : L = Len(p) /\ L # 0 /\ L \in 1..Len(p)
      BY <1>1, <1>2
    <2>2. PICK d : d = Room(c) /\ Evicted(c, d, p[L]) /\ LruHolds(d, RemoveAt(p, L))
      BY <1>1, <1>2, <2>1, RemoveTailHolds DEF Room
    <2>3. /\ d \in LruCaches /\ Live(d) = Live(c) \ {p[L]}
          /\ \A a \in Live(d) : Entry(d, a) = Entry(c, a)
      BY <2>2 DEF Evicted, Entry
    <2>4. ASSUME NEW j \in 1..Len(p), j # L PROVE p[j] \in Live(d) /\ Entry(d, p[j]) = Entry(c, p[j])
      <3>1. p[j] # p[L]
        BY <2>1, <2>4 DEF LruHolds, IsLru
      <3> QED
        BY <1>1, <2>3, <3>1
    <2>5. EntriesOf(d, RemoveAt(p, L)) = RemoveAt(EntriesOf(c, p), L)
      BY <1>1, <2>1, <2>3, <2>4, EntriesWithout
    <2>6. PICK e \in Seq(Keys \X Elements) : e = EntriesOf(c, p) /\ Len(e) = L
      <3>1. EntriesOf(c, p) \in Seq(Keys \X Elements) /\ Len(EntriesOf(c, p)) = Len(p)
        BY <1>1, EntriesAre
      <3> QED
        BY <2>1, <3>1
    <2>7. RemoveAt(e, L) = Front(e)
      <3>1. e # <<>>
        BY <2>1, <2>6
      <3> QED
        BY <2>6, <3>1, RemoveEnds
    <2>8. Len(RemoveAt(p, L)) # Capacity
      <3>1. Len(RemoveAt(p, L)) = Len(p) - 1
        BY <1>1, <2>1, RemoveAtIs
      <3> QED
        BY <1>1, <1>2, <3>1
    <2> QED
      BY <1>2, <2>2, <2>5, <2>6, <2>7, <2>8
  <1>3. CASE Len(p) # Capacity
    BY <1>1, <1>3 DEF Room
  <1> QED
    BY <1>2, <1>3

LEMMA LruPutMissStep ==
    ASSUME NEW p, LruHolds(obj, p), NEW k \in Keys, NEW x \in Elements, LruM!PutMiss(k, x),
           kind = "lru", kind' = kind
    PROVE  /\ life' \in {life, "undefined"}
           /\ \E q : LruHolds(obj', q)
           /\ life' # "undefined" /\ LruM!NoneDisplaced(obj) => Lru!PutMiss(k, x)
  <1>1. CASE LruM!Breaks("put", <<k, x>>) /\ UNCHANGED obj
    BY <1>1 DEF LruM!Breaks
  <1>2. CASE ~(LruM!Breaks("put", <<k, x>>) /\ UNCHANGED obj)
    <2>1. PICK c : c = Room(obj)
      OBVIOUS
    <2>2. PICK r : /\ LruHolds(c, r) /\ Len(r) # Capacity
                   /\ EntriesOf(c, r)
                        = IF Len(p) = Capacity THEN Front(EntriesOf(obj, p)) ELSE EntriesOf(obj, p)
      BY <2>1, RoomIs
    <2>3. PICK n : n = (CHOOSE a \in LruM!Addresses : c.nodes[a] = Null)
      OBVIOUS
    <2>4. n \in LruM!Addresses /\ c.nodes[n] = Null
      <3>1. \E a \in LruM!Addresses : c.nodes[a] = Null
        BY <2>2, FreeAddress DEF LruHolds
      <3> QED
        BY <2>3, <3>1
    <2>5. /\ ~LruM!IsHit(k) /\ life' = life
          /\ last' = [op |-> "put", arg |-> <<k, x>>, answer |-> Null]
          /\ obj' = WithNew(c, n, k, x)
      BY <1>2, <2>1, <2>3 DEF LruM!PutMiss, LruM!Did, LruM!Makes, Room, WithNew
    <2>6. PICK q : q = <<n>> \o r /\ NodeMade(c, obj', n, k, x) /\ LruHolds(obj', q)
      BY <2>2, <2>4, <2>5, NewNodeIs
    <2>7. /\ n \in Live(obj') /\ Entry(obj', n) = <<k, x>>
          /\ \A a \in Live(c) : a \in Live(obj') /\ Entry(obj', a) = Entry(c, a)
      BY <2>6 DEF NodeMade, Entry
    <2>8. c \in LruCaches /\ obj' \in LruCaches /\ r \in Seq(LruM!Addresses) /\ \A j \in 1..Len(r) : r[j] \in Live(c)
      BY <2>2, <2>6 DEF LruHolds, IsLru
    <2>9. EntriesOf(obj', q) = <<<<k, x>>>> \o EntriesOf(c, r)
      <3>1. EntriesOf(obj', <<n>> \o r) = <<Entry(obj', n)>> \o EntriesOf(c, r)
        BY <2>7, <2>8, EntriesInFront
      <3> QED
        BY <2>6, <2>7, <3>1
    <2>10. Shows(EntriesOf(obj, p), EntriesOf(obj', q))
      BY <2>6, LruShows
    <2>11. Len(EntriesOf(obj, p)) = Len(p) /\ Lru!Front(EntriesOf(obj, p)) = Front(EntriesOf(obj, p))
      <3>1. Len(EntriesOf(obj, p)) = Len(p)
        BY EntriesAre DEF LruHolds, IsLru
      <3> QED
        BY <3>1, SameLruOperators, Zenon
    <2>12. EntriesOf(obj', q)
             = <<<<k, x>>>> \o IF Len(EntriesOf(obj, p)) = Capacity THEN Lru!Front(EntriesOf(obj, p)) ELSE EntriesOf(obj, p)
      BY <2>2, <2>9, <2>11
    <2>13. ASSUME LruM!NoneDisplaced(obj) PROVE Lru!PutMiss(k, x)
      <3>1. Lru!Places(k) = {}
        BY <2>5, <2>13, PlacesAre, MissIsAbsent
      <3> QED
        BY <2>5, <2>10, <2>12, <3>1 DEF Shows, Lru!PutMiss, Lru!Made
    <2> QED
      BY <2>5, <2>6, <2>13
  <1> QED
    BY <1>1, <1>2

LruInv == life \in LruM!Lives /\ \E p : LruHolds(obj, p)

LEMMA LruStep ==
    ASSUME LruInv, LruM!Next, kind = "lru", kind' = kind
    PROVE  LruInv' /\ (Returned /\ LruM!NoneDisplaced(obj) => [Lru!Next]_(Lru!vars))
  <1>1. PICK p : life \in LruM!Lives /\ LruHolds(obj, p)
    BY DEF LruInv
  <1>2. CASE \E k \in Keys : LruM!Get(k)
    BY <1>1, <1>2, LruGetStep DEF LruInv
  <1>3. CASE \E k \in Keys, x \in Elements : LruM!PutHit(k, x)
    BY <1>1, <1>3, LruPutHitStep DEF LruInv, Lru!Next
  <1>4. CASE \E k \in Keys, x \in Elements : LruM!PutMiss(k, x)
    <2>1. PICK k \in Keys, x \in Elements : LruM!PutMiss(k, x)
      BY <1>4
    <2>2. /\ life' \in {life, "undefined"} /\ \E q : LruHolds(obj', q)
          /\ life' # "undefined" /\ LruM!NoneDisplaced(obj) => Lru!PutMiss(k, x)
      BY <1>1, <2>1, LruPutMissStep
    <2>3. LruInv'
      BY <1>1, <2>2 DEF LruInv, LruM!Lives
    <2> QED
      BY <2>2, <2>3 DEF Returned, Lru!Next
  <1>5. CASE LruM!Free
    <2>1. obj' = obj /\ life' = "freed" /\ last' = [op |-> "free", arg |-> Null, answer |-> Null]
      BY <1>5 DEF LruM!Free, LruM!Frees, LruM!Makes
    <2>2. Shows(EntriesOf(obj, p), EntriesOf(obj, p))
      BY <1>1, <2>1, LruShows
    <2>3. Lru!Free
      BY <2>1, <2>2 DEF Shows, Lru!Free, Lru!Made
    <2> QED
      BY <1>1, <2>1, <2>3 DEF LruInv, LruM!Lives, Lru!Next
  <1> QED
    BY <1>2, <1>3, <1>4, <1>5 DEF LruM!Next

-----------------------------------------------------------------------------
(* A step of the run is a step of the container the client uses. *)
LEMMA StepOf ==
    ASSUME [Next]_allVars
    PROVE  /\ kind' = kind
           /\ kind = "list" => ListM!Next \/ UNCHANGED <<obj, other, last, life>>
           /\ kind = "arena" => ArenaM!Next \/ UNCHANGED <<obj, other, last, life>>
           /\ kind = "lru" => LruM!Next \/ UNCHANGED <<obj, other, last, life>>
  BY DEF Next, allVars, clientVars

ListKindInv == kind = "list" => ListInv
ArenaKindInv == kind = "arena" => ArenaInv

LruKindInv == kind = "lru" => LruInv

KindInv == ListKindInv /\ ArenaKindInv /\ LruKindInv

LEMMA KindInit == Init => KindInv
  <1>1. Init /\ kind = "list" => ListM!Init
    BY DEF Init
  <1>2. Init /\ kind = "arena" => ArenaM!Init
    BY DEF Init
  <1>3. Init /\ kind = "lru" => LruM!Init
    BY DEF Init
  <1>4. LruM!Init => LruInv
    BY LruInitHolds DEF LruInv, LruM!Init, LruM!ClientInit, LruM!Lives
  <1> QED
    BY <1>1, <1>2, <1>3, <1>4, ListInitInv, ArenaInitInv DEF KindInv, ListKindInv, ArenaKindInv, LruKindInv

(* What clients see of the list is what its links hold. *)
LEMMA ListItems ==
    /\ kind = "list" => Items = WordsOf(obj) /\ OtherItems = <<>>
    /\ kind' = "list" => Items' = WordsOf(obj') /\ OtherItems' = <<>>
  <1>1. kind = "list" => Items = ListM!Contents /\ OtherItems = <<>>
    BY DEF Items, OtherItems
  <1>2. kind' = "list" => Items' = ListM!Contents' /\ OtherItems' = <<>>
    BY DEF Items, OtherItems
  <1> QED
    BY <1>1, <1>2, ListReadsNow

LEMMA ListKindStep ==
    ASSUME ListKindInv, [Next]_allVars
    PROVE  ListKindInv' /\ (kind = "list" /\ Returned => [Seq0!Next]_(Seq0!vars))
  <1>1. kind' = kind /\ (kind = "list" => ListM!Next \/ UNCHANGED <<obj, other, last, life>>)
    BY StepOf
  <1>2. CASE kind # "list"
    BY <1>1, <1>2 DEF ListKindInv
  <1>3. CASE kind = "list"
    <2>1. PICK p, c : life \in ListM!Lives /\ ListHolds(obj, p, c)
      BY <1>3 DEF ListKindInv, ListInv
    <2>2. Items = c /\ OtherItems = <<>> /\ Items' = WordsOf(obj') /\ OtherItems' = <<>>
      BY <1>1, <1>3, <2>1, ListItems, ListHoldsReads
    <2>3. CASE ListM!Next
      <3>1. PICK q, d : /\ life' \in ListM!Lives /\ ListHolds(obj', q, d)
                        /\ life' # "undefined" /\ Follows(c, d) => [Seq0!Next]_(Seq0!vars)
        BY <2>1, <2>3, ListStep
      <3>2. Items' = d
        BY <2>2, <3>1, ListHoldsReads
      <3>3. Follows(c, d)
        BY <2>2, <3>2 DEF Follows
      <3>4. ListInv'
        BY <3>1 DEF ListInv
      <3> QED
        BY <3>1, <3>3, <3>4 DEF ListKindInv, Returned
    <2>4. CASE UNCHANGED <<obj, other, last, life>>
      <3>1. Items' = c
        BY <2>1, <2>2, <2>4, ListHoldsReads
      <3>2. ListInv'
        BY <2>1, <2>4 DEF ListInv
      <3> QED
        BY <2>2, <2>4, <3>1, <3>2 DEF ListKindInv, Seq0!vars
    <2> QED
      BY <1>1, <1>3, <2>3, <2>4
  <1> QED
    BY <1>2, <1>3

LEMMA ArenaKindStep ==
    ASSUME ArenaKindInv, [Next]_allVars
    PROVE  ArenaKindInv'
  <1>1. kind' = kind /\ (kind = "arena" => ArenaM!Next \/ UNCHANGED <<obj, other, last, life>>)
    BY StepOf
  <1>2. kind = "arena" => [ArenaM!Next]_(ArenaM!vars)
    BY <1>1 DEF ArenaM!vars, ArenaM!clientVars
  <1>3. kind = "arena" => ArenaInv'
    BY <1>2, ArenaStepInv DEF ArenaKindInv
  <1> QED
    BY <1>1, <1>3 DEF ArenaKindInv

(* A step of the cache follows LruSpec. *)
LruFollows ==
    kind = "lru" /\ Returned /\ LruM!NoneDisplaced(obj) /\ LruM!NoneDisplaced(obj')
      => [Lru!Next]_(Lru!vars)

LEMMA LruKindStep ==
    ASSUME LruKindInv, [Next]_allVars
    PROVE  LruKindInv' /\ LruFollows
  <1>1. kind' = kind /\ (kind = "lru" => LruM!Next \/ UNCHANGED <<obj, other, last, life>>)
    BY StepOf
  <1>2. CASE kind # "lru"
    BY <1>1, <1>2 DEF LruKindInv, LruFollows
  <1>3. CASE kind = "lru" /\ LruM!Next
    BY <1>1, <1>3, LruStep DEF LruKindInv, LruFollows
  <1>4. CASE kind = "lru" /\ UNCHANGED <<obj, other, last, life>>
    <2>1. PICK p : life \in LruM!Lives /\ LruHolds(obj, p)
      BY <1>4 DEF LruKindInv, LruInv
    <2>2. LruInv'
      BY <1>4, <2>1 DEF LruInv
    <2>3. Shows(EntriesOf(obj, p), EntriesOf(obj, p))
      BY <1>1, <1>4, <2>1, LruShows
    <2>4. UNCHANGED Lru!vars
      BY <1>4, <2>3 DEF Shows, Lru!vars
    <2> QED
      BY <2>2, <2>4 DEF LruKindInv, LruFollows
  <1> QED
    BY <1>1, <1>2, <1>3, <1>4

LEMMA KindHolds == Spec => []KindInv
  <1>1. KindInv /\ [Next]_allVars => KindInv'
    BY ListKindStep, ArenaKindStep, LruKindStep DEF KindInv
  <1> QED
    BY KindInit, <1>1, PTL DEF Spec

(* The links of the doubly linked list (list.h) agree in both directions,     *)
(* after any calls at any of its pointers: what insert_after, the pops,       *)
(* remove_at and remove_if assign leaves one chain between the sentinels.     *)
THEOREM ListLinksAlwaysMatch == Spec => []ListLinksMatch
  <1>1. ListKindInv => ListLinksMatch
    BY ListHoldsMatch DEF ListKindInv, ListInv, ListLinksMatch
  <1> QED
    BY <1>1, KindHolds, PTL DEF KindInv

(* The calls of list.h are those of a sequence, for every number of elements. *)
THEOREM ListIsSequence == Spec => ListImplementsSequence
  <1>1. ListKindInv /\ [Next]_allVars => (kind = "list" /\ Returned => [Seq0!Next]_(Seq0!vars))
    BY ListKindStep
  <1> QED
    BY <1>1, KindHolds, PTL DEF ListImplementsSequence, KindInv, Spec

(* No slot of the table of lru_cache.h leads to a node that remove_tail freed, *)
(* and a get answers the value its key was last put with, for every capacity  *)
(* and every hash, collisions included.                                       *)
THEOREM LruSlotsAlwaysLive == Spec => []LruSlotsLive
  <1>1. LruKindInv => LruSlotsLive
    BY LruHoldsLive DEF LruKindInv, LruInv, LruSlotsLive
  <1> QED
    BY <1>1, KindHolds, PTL DEF KindInv

(* As long as no collision displaces a node, get and put of lru_cache.h are   *)
(* those of a cache that evicts the least recently used entry.                *)
THEOREM CacheIsLru == Spec => CacheImplementsLru
  <1>1. LruKindInv /\ [Next]_allVars => LruFollows
    BY LruKindStep
  <1> QED
    BY <1>1, KindHolds, PTL DEF CacheImplementsLru, LruFollows, KindInv, Spec

=============================================================================
