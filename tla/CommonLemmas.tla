------------------------------ MODULE CommonLemmas ------------------------------
(***************************************************************************)
(* What the proofs of several modules use: induction and recursion up to a *)
(* number, and what the list operators of CapValues return, for lists of   *)
(* any length.                                                             *)
(***************************************************************************)
EXTENDS CapValues, SequencesExt, SequenceTheorems, WellFoundedInduction, TLAPS

(* A set of naturals that is not empty has a least member. *)
LEMMA LeastOf ==
    ASSUME NEW S, S \subseteq Nat, S # {}
    PROVE  \E n \in S : \A m \in S : n <= m
  <1> DEFINE R == {ss \in Nat \X Nat : ss[1] < ss[2]}
  <1>1. IsWellFoundedOn(R, Nat)
    BY NatLessThanWellFounded, Zenon DEF OpToRel
  <1>2. PICK n \in S : \A m \in S : <<m, n>> \notin R
    <2> HIDE DEF R
    <2> QED
      BY <1>1, WFMin
  <1>3. ASSUME NEW m \in S PROVE n <= m
    <2>1. m \in Nat /\ n \in Nat /\ <<m, n>> \in Nat \X Nat
      BY <1>3
    <2>2. <<m, n>>[1] = m /\ <<m, n>>[2] = n
      OBVIOUS
    <2>3. ~(m < n)
      BY <1>2, <1>3, <2>1, <2>2
    <2> QED
      BY <2>1, <2>3
  <1> QED
    BY <1>3

(* Induction up to N, for the members of a set. *)
LEMMA UpTo ==
    ASSUME NEW N \in Nat, NEW S, 0 \in S, \A n \in 1..N : n - 1 \in S => n \in S
    PROVE  0..N \subseteq S
  <1> DEFINE Left == {n \in 0..N : n \notin S}
  <1>1. SUFFICES Left = {}
    OBVIOUS
  <1>2. SUFFICES ASSUME Left # {} PROVE FALSE
    OBVIOUS
  <1>3. PICK n \in Left : \A m \in Left : n <= m
    <2>1. Left \subseteq Nat
      OBVIOUS
    <2> HIDE DEF Left
    <2> QED
      BY <1>2, <2>1, LeastOf
  <1>4. n \in 1..N /\ n - 1 \in 0..N /\ ~(n <= n - 1)
    BY <1>3
  <1> QED
    BY <1>3, <1>4

(* f is the function from 0..N to T that first and step define by recursion. *)
Recursive(f, N, T, first, step) ==
    /\ f \in [0..N -> T]
    /\ f[0] = first
    /\ \A n \in 1..N : f[n] = step[<<n, f[n - 1]>>]

(* There is such a function: what a recursive definition up to N describes    *)
(* exists.                                                                    *)
LEMMA RecursionUpTo ==
    ASSUME NEW N \in Nat, NEW T, NEW first \in T, NEW step \in [(1..N) \X T -> T]
    PROVE  \E f : Recursive(f, N, T, first, step)
  <1> DEFINE To(m, f) == f = [n \in 0..m |-> IF n = 0 THEN first ELSE step[<<n, f[n - 1]>>]]
             S == {m \in 0..N : \E f \in [0..m -> T] : To(m, f)}
  <1>1. 0 \in S
    <2> DEFINE f == [n \in 0..0 |-> first]
    <2>1. f \in [0..0 -> T]
      OBVIOUS
    <2>2. To(0, f)
      OBVIOUS
    <2> HIDE DEF f, To
    <2> QED
      BY <2>1, <2>2
  <1>2. ASSUME NEW m \in 1..N, m - 1 \in S PROVE m \in S
    <2>1. PICK f \in [0..(m - 1) -> T] : To(m - 1, f)
      BY <1>2
    <2> DEFINE g == [n \in 0..m |-> IF n = m THEN step[<<m, f[m - 1]>>] ELSE f[n]]
    <2>2. f[m - 1] \in T /\ step[<<m, f[m - 1]>>] \in T
      OBVIOUS
    <2>3. g \in [0..m -> T]
      BY <2>2
    <2>4. ASSUME NEW n \in 0..m
          PROVE  g[n] = IF n = 0 THEN first ELSE step[<<n, g[n - 1]>>]
      <3>1. CASE n = m
        <4>1. n # 0 /\ g[n] = step[<<n, f[n - 1]>>] /\ g[n - 1] = f[n - 1]
          BY <3>1
        <4> QED
          BY <4>1
      <3>2. CASE n # m
        <4>1. n \in 0..(m - 1) /\ g[n] = f[n] /\ (n # 0 => g[n - 1] = f[n - 1])
          BY <3>2
        <4>2. f[n] = IF n = 0 THEN first ELSE step[<<n, f[n - 1]>>]
          BY <2>1, <4>1
        <4> QED
          BY <4>1, <4>2
      <3> QED
        BY <3>1, <3>2
    <2>5. To(m, g)
      BY <2>3, <2>4
    <2> HIDE DEF g, To
    <2> QED
      BY <2>3, <2>5
  <1>3. N \in S
    <2> HIDE DEF S
    <2> QED
      BY <1>1, <1>2, UpTo
  <1>4. PICK f \in [0..N -> T] : To(N, f)
    BY <1>3
  <1>5. f[0] = first /\ \A n \in 1..N : f[n] = step[<<n, f[n - 1]>>]
    BY <1>4
  <1>6. Recursive(f, N, T, first, step)
    BY <1>5 DEF Recursive
  <1> HIDE DEF To
  <1> QED
    BY <1>6

(* A function on the first n numbers is a sequence. *)
LEMMA MadeSeq ==
    ASSUME NEW S, NEW n \in Nat, NEW f \in [1..n -> S]
    PROVE  f \in Seq(S) /\ Len(f) = n /\ DOMAIN f = 1..n
  <1>1. f \in Seq(S)
    BY SeqDef
  <1>2. DOMAIN f = 1..n
    OBVIOUS
  <1> QED
    BY <1>1, <1>2, LenProperties

(* The members m to n of a sequence. *)
LEMMA PartOf ==
    ASSUME NEW S, NEW s \in Seq(S), NEW m \in 1..(Len(s) + 1), NEW n \in 0..Len(s), m <= n + 1
    PROVE  /\ SubSeq(s, m, n) \in Seq(S)
           /\ Len(SubSeq(s, m, n)) = n - m + 1
           /\ \A j \in 1..(n - m + 1) : SubSeq(s, m, n)[j] = s[m + j - 1]
  <1>1. \A j \in m..n : s[j] \in S
    BY ElementOfSeq
  <1>2. /\ SubSeq(s, m, n) \in Seq(S)
        /\ Len(SubSeq(s, m, n)) = IF m <= n THEN n - m + 1 ELSE 0
        /\ \A j \in 1..(n - m + 1) : SubSeq(s, m, n)[j] = s[m + j - 1]
    BY <1>1, SubSeqProperties
  <1> QED
    BY <1>2

(* SequencesExt's InsertAt: x becomes the i-th member. *)
LEMMA InsertAtIs ==
    ASSUME NEW S, NEW s \in Seq(S), NEW i \in 1..(Len(s) + 1), NEW x \in S
    PROVE  /\ InsertAt(s, i, x) \in Seq(S)
           /\ Len(InsertAt(s, i, x)) = Len(s) + 1
           /\ \A j \in 1..(Len(s) + 1) :
                  InsertAt(s, i, x)[j] = IF j < i THEN s[j] ELSE IF j = i THEN x ELSE s[j - 1]
  <1>1. PICK L \in Nat : L = Len(s) /\ i \in 1..(L + 1)
    OBVIOUS
  <1>2. PICK a \in Seq(S) :
            a = SubSeq(s, 1, i - 1) /\ Len(a) = i - 1 /\ \A j \in 1..(i - 1) : a[j] = s[j]
    <2>1. 1 \in 1..(Len(s) + 1) /\ i - 1 \in 0..Len(s) /\ 1 <= (i - 1) + 1
      BY <1>1
    <2>2. /\ SubSeq(s, 1, i - 1) \in Seq(S)
          /\ Len(SubSeq(s, 1, i - 1)) = (i - 1) - 1 + 1
          /\ \A j \in 1..((i - 1) - 1 + 1) : SubSeq(s, 1, i - 1)[j] = s[1 + j - 1]
      BY <2>1, PartOf
    <2>3. /\ Len(SubSeq(s, 1, i - 1)) = i - 1
          /\ \A j \in 1..(i - 1) : SubSeq(s, 1, i - 1)[j] = s[j]
      BY <1>1, <2>2
    <2> QED
      BY <2>2, <2>3
  <1>3. PICK z \in Seq(S) :
            z = SubSeq(s, i, L) /\ Len(z) = L - i + 1 /\ \A j \in 1..(L - i + 1) : z[j] = s[i + j - 1]
    <2>1. L \in 0..Len(s) /\ i <= L + 1
      BY <1>1
    <2>2. /\ SubSeq(s, i, L) \in Seq(S)
          /\ Len(SubSeq(s, i, L)) = L - i + 1
          /\ \A j \in 1..(L - i + 1) : SubSeq(s, i, L)[j] = s[i + j - 1]
      BY <2>1, PartOf
    <2> QED
      BY <2>2
  <1>4. Len(a) = i - 1 /\ \A j \in 1..(i - 1) : a[j] = s[j]
    BY <1>2
  <1>5. Len(z) = L - i + 1 /\ \A j \in 1..(L - i + 1) : z[j] = s[i + j - 1]
    BY <1>3
  <1>6. InsertAt(s, i, x) = (a \o <<x>>) \o z
    BY <1>1, <1>2, <1>3 DEF InsertAt
  <1>7. <<x>> \in Seq(S) /\ Len(<<x>>) = 1 /\ <<x>>[1] = x
    OBVIOUS
  <1>8. PICK b \in Seq(S) :
            /\ b = a \o <<x>> /\ Len(b) = i
            /\ \A j \in 1..i : b[j] = IF j <= i - 1 THEN a[j] ELSE <<x>>[j - (i - 1)]
    <2>1. /\ a \o <<x>> \in Seq(S) /\ Len(a \o <<x>>) = Len(a) + Len(<<x>>)
          /\ \A j \in 1..(Len(a) + Len(<<x>>)) :
                 (a \o <<x>>)[j] = IF j <= Len(a) THEN a[j] ELSE <<x>>[j - Len(a)]
      BY <1>7, ConcatProperties
    <2>2. Len(a) + Len(<<x>>) = i
      BY <1>1, <1>4, <1>7
    <2>3. /\ a \o <<x>> \in Seq(S) /\ Len(a \o <<x>>) = i
          /\ \A j \in 1..i : (a \o <<x>>)[j] = IF j <= i - 1 THEN a[j] ELSE <<x>>[j - (i - 1)]
      BY <1>4, <2>1, <2>2
    <2> QED
      BY <2>3
  <1>9. Len(b) = i /\ \A j \in 1..i : b[j] = IF j < i THEN s[j] ELSE x
    <2>1. ASSUME NEW j \in 1..i PROVE b[j] = IF j < i THEN s[j] ELSE x
      <3>1. CASE j < i
        BY <1>1, <1>4, <1>8, <3>1
      <3>2. CASE j = i
        <4>1. ~(j <= i - 1) /\ j - (i - 1) = 1
          BY <1>1, <3>2
        <4> QED
          BY <1>7, <1>8, <3>2, <4>1
      <3> QED
        BY <1>1, <3>1, <3>2
    <2> QED
      BY <1>8, <2>1
  <1>10. /\ b \o z \in Seq(S) /\ Len(b \o z) = Len(b) + Len(z)
         /\ \A j \in 1..(Len(b) + Len(z)) : (b \o z)[j] = IF j <= Len(b) THEN b[j] ELSE z[j - Len(b)]
    BY ConcatProperties
  <1>11. Len(b) + Len(z) = L + 1
    BY <1>1, <1>5, <1>9
  <1>12. ASSUME NEW j \in 1..(L + 1)
         PROVE  (b \o z)[j] = IF j < i THEN s[j] ELSE IF j = i THEN x ELSE s[j - 1]
    <2>1. CASE j <= i
      <3>1. (b \o z)[j] = b[j] /\ j \in 1..i
        BY <1>1, <1>9, <1>10, <1>11, <2>1
      <3>2. b[j] = IF j < i THEN s[j] ELSE x
        BY <1>9, <3>1
      <3> QED
        BY <1>1, <2>1, <3>1, <3>2
    <2>2. CASE j > i
      <3>1. j - i \in 1..(L - i + 1) /\ i + (j - i) - 1 = j - 1
        BY <1>1, <2>2
      <3>2. (b \o z)[j] = z[j - i]
        BY <1>1, <1>9, <1>10, <1>11, <2>2
      <3>3. z[j - i] = s[j - 1]
        BY <1>5, <3>1
      <3> QED
        BY <1>1, <2>2, <3>2, <3>3
    <2>3. j <= i \/ j > i
      BY <1>1
    <2> QED
      BY <2>1, <2>2, <2>3, Zenon
  <1>13. InsertAt(s, i, x) = b \o z
    BY <1>6, <1>8
  <1> QED
    BY <1>1, <1>10, <1>11, <1>12, <1>13

(* SequencesExt's RemoveAt: the i-th member goes. *)
LEMMA RemoveAtIs ==
    ASSUME NEW S, NEW s \in Seq(S), NEW i \in 1..Len(s)
    PROVE  /\ RemoveAt(s, i) \in Seq(S)
           /\ Len(RemoveAt(s, i)) = Len(s) - 1
           /\ \A j \in 1..(Len(s) - 1) : RemoveAt(s, i)[j] = IF j < i THEN s[j] ELSE s[j + 1]
  <1>1. PICK L \in Nat : L = Len(s) /\ i \in 1..L
    OBVIOUS
  <1>2. PICK a \in Seq(S) :
            a = SubSeq(s, 1, i - 1) /\ Len(a) = i - 1 /\ \A j \in 1..(i - 1) : a[j] = s[j]
    <2>1. 1 \in 1..(Len(s) + 1) /\ i - 1 \in 0..Len(s) /\ 1 <= (i - 1) + 1
      BY <1>1
    <2>2. /\ SubSeq(s, 1, i - 1) \in Seq(S)
          /\ Len(SubSeq(s, 1, i - 1)) = (i - 1) - 1 + 1
          /\ \A j \in 1..((i - 1) - 1 + 1) : SubSeq(s, 1, i - 1)[j] = s[1 + j - 1]
      BY <2>1, PartOf
    <2>3. /\ Len(SubSeq(s, 1, i - 1)) = i - 1
          /\ \A j \in 1..(i - 1) : SubSeq(s, 1, i - 1)[j] = s[j]
      BY <1>1, <2>2
    <2> QED
      BY <2>2, <2>3
  <1>3. PICK z \in Seq(S) :
            z = SubSeq(s, i + 1, L) /\ Len(z) = L - i /\ \A j \in 1..(L - i) : z[j] = s[i + j]
    <2>1. L \in 0..Len(s) /\ i + 1 \in 1..(Len(s) + 1) /\ i + 1 <= L + 1
      BY <1>1
    <2>2. /\ SubSeq(s, i + 1, L) \in Seq(S)
          /\ Len(SubSeq(s, i + 1, L)) = L - (i + 1) + 1
          /\ \A j \in 1..(L - (i + 1) + 1) : SubSeq(s, i + 1, L)[j] = s[(i + 1) + j - 1]
      BY <2>1, PartOf
    <2>3. /\ Len(SubSeq(s, i + 1, L)) = L - i
          /\ \A j \in 1..(L - i) : SubSeq(s, i + 1, L)[j] = s[i + j]
      BY <1>1, <2>2
    <2> QED
      BY <2>2, <2>3
  <1>4. Len(a) = i - 1 /\ \A j \in 1..(i - 1) : a[j] = s[j]
    BY <1>2
  <1>5. Len(z) = L - i /\ \A j \in 1..(L - i) : z[j] = s[i + j]
    BY <1>3
  <1>6. RemoveAt(s, i) = a \o z
    BY <1>1, <1>2, <1>3 DEF RemoveAt
  <1>7. /\ a \o z \in Seq(S) /\ Len(a \o z) = Len(a) + Len(z)
        /\ \A j \in 1..(Len(a) + Len(z)) : (a \o z)[j] = IF j <= Len(a) THEN a[j] ELSE z[j - Len(a)]
    BY ConcatProperties
  <1>8. Len(a) + Len(z) = L - 1
    BY <1>1, <1>4, <1>5
  <1>9. ASSUME NEW j \in 1..(L - 1)
        PROVE  (a \o z)[j] = IF j < i THEN s[j] ELSE s[j + 1]
    <2>1. CASE j < i
      <3>1. (a \o z)[j] = a[j] /\ j \in 1..(i - 1)
        BY <1>1, <1>4, <1>7, <1>8, <2>1
      <3> QED
        BY <1>4, <2>1, <3>1
    <2>2. CASE j >= i
      <3>1. j - (i - 1) \in 1..(L - i) /\ i + (j - (i - 1)) = j + 1 /\ ~(j <= i - 1)
        BY <1>1, <2>2
      <3>2. (a \o z)[j] = z[j - (i - 1)]
        BY <1>4, <1>7, <1>8, <3>1
      <3>3. z[j - (i - 1)] = s[j + 1]
        BY <1>5, <3>1
      <3> QED
        BY <1>1, <2>2, <3>2, <3>3
    <2>3. j < i \/ j >= i
      BY <1>1
    <2> QED
      BY <2>1, <2>2, <2>3, Zenon
  <1> QED
    BY <1>1, <1>6, <1>7, <1>8, <1>9

(* At the ends they are the operations of a list at its ends. *)
LEMMA InsertEnds ==
    ASSUME NEW S, NEW s \in Seq(S), NEW x \in S
    PROVE  InsertAt(s, 1, x) = <<x>> \o s /\ InsertAt(s, Len(s) + 1, x) = Append(s, x)
  <1>1. PICK L \in Nat : L = Len(s)
    OBVIOUS
  <1> DEFINE a == InsertAt(s, 1, x)
             z == InsertAt(s, L + 1, x)
             b == <<x>> \o s
             c == Append(s, x)
  <1>2. a = b
    <2>1. 1 \in 1..(Len(s) + 1)
      BY <1>1
    <2>2. /\ a \in Seq(S) /\ Len(a) = L + 1
          /\ \A j \in 1..(L + 1) : a[j] = IF j < 1 THEN s[j] ELSE IF j = 1 THEN x ELSE s[j - 1]
      <3> HIDE DEF a
      <3>1. /\ a \in Seq(S) /\ Len(a) = Len(s) + 1
            /\ \A j \in 1..(Len(s) + 1) : a[j] = IF j < 1 THEN s[j] ELSE IF j = 1 THEN x ELSE s[j - 1]
        BY <2>1, InsertAtIs DEF a
      <3> QED
        BY <1>1, <3>1
    <2>3. b \in Seq(S) /\ Len(b) = L + 1 /\ \A j \in 1..(L + 1) : b[j] = IF j = 1 THEN x ELSE s[j - 1]
      BY <1>1
    <2> HIDE DEF a, b
    <2>4. \A j \in 1..(L + 1) : a[j] = b[j]
      BY <1>1, <2>2, <2>3
    <2> QED
      BY <2>2, <2>3, <2>4, SeqEqual
  <1>3. z = c
    <2>1. L + 1 \in 1..(Len(s) + 1)
      BY <1>1
    <2>2. /\ z \in Seq(S) /\ Len(z) = L + 1
          /\ \A j \in 1..(L + 1) : z[j] = IF j < L + 1 THEN s[j] ELSE IF j = L + 1 THEN x ELSE s[j - 1]
      <3>1. PICK m \in 1..(Len(s) + 1) : m = L + 1
        BY <2>1
      <3>2. /\ InsertAt(s, m, x) \in Seq(S) /\ Len(InsertAt(s, m, x)) = Len(s) + 1
            /\ \A j \in 1..(Len(s) + 1) :
                   InsertAt(s, m, x)[j] = IF j < m THEN s[j] ELSE IF j = m THEN x ELSE s[j - 1]
        BY InsertAtIs
      <3> QED
        BY <1>1, <3>1, <3>2
    <2>3. c \in Seq(S) /\ Len(c) = L + 1 /\ \A j \in 1..(L + 1) : c[j] = IF j <= L THEN s[j] ELSE x
      BY <1>1
    <2> HIDE DEF z, c
    <2>4. \A j \in 1..(L + 1) : z[j] = c[j]
      BY <1>1, <2>2, <2>3
    <2> QED
      BY <2>2, <2>3, <2>4, SeqEqual
  <1> QED
    BY <1>1, <1>2, <1>3

LEMMA RemoveEnds ==
    ASSUME NEW S, NEW s \in Seq(S), s # <<>>
    PROVE  RemoveAt(s, 1) = Tail(s) /\ RemoveAt(s, Len(s)) = Front(s)
  <1>1. PICK L \in Nat : L = Len(s) /\ L # 0
    BY EmptySeq
  <1> DEFINE a == RemoveAt(s, 1)
             z == RemoveAt(s, L)
             b == Tail(s)
             c == Front(s)
  <1>2. a = b
    <2>1. 1 \in 1..Len(s)
      BY <1>1
    <2>2. /\ a \in Seq(S) /\ Len(a) = L - 1
          /\ \A j \in 1..(L - 1) : a[j] = IF j < 1 THEN s[j] ELSE s[j + 1]
      <3> HIDE DEF a
      <3>1. /\ a \in Seq(S) /\ Len(a) = Len(s) - 1
            /\ \A j \in 1..(Len(s) - 1) : a[j] = IF j < 1 THEN s[j] ELSE s[j + 1]
        BY <2>1, RemoveAtIs DEF a
      <3> QED
        BY <1>1, <3>1
    <2>3. b \in Seq(S) /\ Len(b) = L - 1 /\ \A j \in 1..(L - 1) : b[j] = s[j + 1]
      BY <1>1, HeadTailProperties
    <2> HIDE DEF a, b
    <2>4. \A j \in 1..(L - 1) : a[j] = b[j]
      BY <1>1, <2>2, <2>3
    <2> QED
      BY <2>2, <2>3, <2>4, SeqEqual
  <1>3. z = c
    <2>1. L \in 1..Len(s)
      BY <1>1
    <2>2. /\ z \in Seq(S) /\ Len(z) = L - 1
          /\ \A j \in 1..(L - 1) : z[j] = IF j < L THEN s[j] ELSE s[j + 1]
      <3> HIDE DEF z
      <3>1. /\ z \in Seq(S) /\ Len(z) = Len(s) - 1
            /\ \A j \in 1..(Len(s) - 1) : z[j] = IF j < L THEN s[j] ELSE s[j + 1]
        BY <2>1, RemoveAtIs DEF z
      <3> QED
        BY <1>1, <3>1
    <2>3. c \in Seq(S) /\ Len(c) = L - 1 /\ \A j \in 1..(L - 1) : c[j] = s[j]
      <3>1. /\ SubSeq(s, 1, L - 1) \in Seq(S) /\ Len(SubSeq(s, 1, L - 1)) = (L - 1) - 1 + 1
            /\ \A j \in 1..((L - 1) - 1 + 1) : SubSeq(s, 1, L - 1)[j] = s[1 + j - 1]
        <4>1. 1 \in 1..(Len(s) + 1) /\ L - 1 \in 0..Len(s) /\ 1 <= (L - 1) + 1
          BY <1>1
        <4> QED
          BY <4>1, PartOf
      <3> QED
        BY <1>1, <3>1 DEF Front
    <2> HIDE DEF z, c
    <2>4. \A j \in 1..(L - 1) : z[j] = c[j]
      BY <1>1, <2>2, <2>3
    <2> QED
      BY <2>2, <2>3, <2>4, SeqEqual
  <1> QED
    BY <1>1, <1>2, <1>3

(* f[n] is what the first n members of s leave when P chooses among them. *)
Collects(f, s, S, P) ==
    /\ f \in [0..Len(s) -> Seq(S \cap P)]
    /\ f[0] = <<>>
    /\ \A n \in 1..Len(s) :
           f[n] = IF s[n] \in P THEN Append(f[n - 1], s[n]) ELSE f[n - 1]

(* Matching collects, member by member, those that P accepts. *)
LEMMA MatchingFacts ==
    ASSUME NEW S, NEW s \in Seq(S), NEW P
    PROVE  \E f : Collects(f, s, S, P) /\ Matching(s, P) = f[Len(s)]
  <1> DEFINE T == Seq(S \cap P)
             Is(g) == g = [n \in 0..Len(s) |->
                              IF n = 0 THEN <<>>
                              ELSE IF s[n] \in P THEN Append(g[n - 1], s[n]) ELSE g[n - 1]]
             step == [q \in (1..Len(s)) \X T |->
                         IF s[q[1]] \in P THEN Append(q[2], s[q[1]]) ELSE q[2]]
             f == CHOOSE g : Is(g)
  <1>1. Len(s) \in Nat /\ \A n \in 1..Len(s) : s[n] \in S
    BY ElementOfSeq
  <1>2. step \in [(1..Len(s)) \X T -> T]
    <2>1. ASSUME NEW q \in (1..Len(s)) \X T
          PROVE  (IF s[q[1]] \in P THEN Append(q[2], s[q[1]]) ELSE q[2]) \in T
      <3>1. q[1] \in 1..Len(s) /\ q[2] \in T /\ s[q[1]] \in S
        BY <1>1
      <3>2. s[q[1]] \in P => Append(q[2], s[q[1]]) \in T
        BY <3>1, AppendProperties
      <3> QED
        BY <3>1, <3>2
    <2> QED
      BY <2>1
  <1>3. <<>> \in T
    OBVIOUS
  <1>4. PICK h : Recursive(h, Len(s), T, <<>>, step)
    <2> HIDE DEF step, T
    <2> QED
      BY <1>1, <1>2, <1>3, RecursionUpTo
  <1>5. h \in [0..Len(s) -> T] /\ h[0] = <<>>
    <2> HIDE DEF T
    <2> QED
      BY <1>4 DEF Recursive
  <1>6. ASSUME NEW n \in 1..Len(s)
        PROVE  h[n] = IF s[n] \in P THEN Append(h[n - 1], s[n]) ELSE h[n - 1]
    <2>1. n - 1 \in 0..Len(s)
      BY <1>1
    <2>2. h[n] = step[<<n, h[n - 1]>>]
      <3> HIDE DEF step, T
      <3> QED
        BY <1>4 DEF Recursive
    <2>3. h[n - 1] \in T
      <3> HIDE DEF T
      <3> QED
        BY <1>5, <2>1
    <2>4. <<n, h[n - 1]>> \in (1..Len(s)) \X T
      <3> HIDE DEF T
      <3> QED
        BY <2>3
    <2> HIDE DEF T
    <2> QED
      BY <2>2, <2>4
  <1>7. \E g : Is(g)
    <2>1. \A n \in 0..Len(s) :
              h[n] = IF n = 0 THEN <<>>
                     ELSE IF s[n] \in P THEN Append(h[n - 1], s[n]) ELSE h[n - 1]
      <3> TAKE n \in 0..Len(s)
      <3>1. n = 0 \/ n \in 1..Len(s)
        BY <1>1
      <3> QED
        BY <1>5, <1>6, <3>1
    <2>2. Is(h)
      <3> HIDE DEF T
      <3> QED
        BY <1>5, <2>1
    <2> HIDE DEF Is
    <2> QED
      BY <2>2
  <1>8. Is(f)
    <2> HIDE DEF Is
    <2> QED
      BY <1>7
  <1>9. Matching(s, P) = f[Len(s)]
    BY DEF Matching
  <1> HIDE DEF f, T
  <1>10. DOMAIN f = 0..Len(s) /\ f[0] = <<>>
    BY <1>1, <1>8
  <1>11. \A n \in 1..Len(s) : f[n] = IF s[n] \in P THEN Append(f[n - 1], s[n]) ELSE f[n - 1]
    <2> TAKE n \in 1..Len(s)
    <2>1. n \in 0..Len(s) /\ n # 0
      BY <1>1
    <2> QED
      BY <1>8, <2>1
  <1>12. 0..Len(s) \subseteq {n \in 0..Len(s) : f[n] \in T}
    <2> DEFINE R == {n \in 0..Len(s) : f[n] \in T}
    <2>1. 0 \in R
      BY <1>1, <1>3, <1>10
    <2>2. ASSUME NEW n \in 1..Len(s), n - 1 \in R PROVE n \in R
      <3>1. s[n] \in P => Append(f[n - 1], s[n]) \in T
        BY <1>1, <2>2, AppendProperties DEF T
      <3> QED
        BY <1>1, <1>11, <2>2, <3>1
    <2>3. 0..Len(s) \subseteq R
      <3> HIDE DEF R
      <3> QED
        BY <1>1, <2>1, <2>2, UpTo
    <2> QED
      BY <2>3
  <1>13. f \in [0..Len(s) -> T]
    BY <1>8, <1>12
  <1>14. Collects(f, s, S, P)
    BY <1>10, <1>11, <1>13 DEF Collects, T
  <1> QED
    BY <1>9, <1>14

-----------------------------------------------------------------------------
(* _cap_list_push_front adds one node, at the head. *)
LEMMA PushFrontFacts ==
    ASSUME NEW S, NEW list \in Seq(S), NEW data \in S
    PROVE  /\ ListPushFront(list, data) \in Seq(S)
           /\ Len(ListPushFront(list, data)) = Len(list) + 1
           /\ ListPushFront(list, data) # <<>>
  <1>1. <<data>> \in Seq(S) /\ Len(<<data>>) = 1
    OBVIOUS
  <1>2. ListPushFront(list, data) \in Seq(S)
        /\ Len(ListPushFront(list, data)) = Len(list) + 1
    BY <1>1, ConcatProperties DEF ListPushFront
  <1> QED
    BY <1>2, EmptySeq

(* _cap_list_pop_back removes one node of a list that has one. *)
LEMMA PopBackFacts ==
    ASSUME NEW S, NEW list \in Seq(S), list # <<>>
    PROVE  /\ ListPopBack(list) \in Seq(S)
           /\ Len(ListPopBack(list)) = Len(list) - 1
           /\ \A i \in 1..(Len(list) - 1) : ListPopBack(list)[i] = list[i]
  <1> DEFINE n == Len(list) - 1
  <1>1. n \in Nat
    BY EmptySeq
  <1>2. \A i \in 1..n : list[i] \in S
    BY ElementOfSeq, <1>1
  <1>3. /\ SubSeq(list, 1, n) \in Seq(S)
        /\ Len(SubSeq(list, 1, n)) = n
        /\ \A i \in 1..n : SubSeq(list, 1, n)[i] = list[i]
    <2> HIDE DEF n
    <2>1. /\ SubSeq(list, 1, n) \in Seq(S)
          /\ Len(SubSeq(list, 1, n)) = IF 1 <= n THEN n - 1 + 1 ELSE 0
          /\ \A i \in 1..(n - 1 + 1) : SubSeq(list, 1, n)[i] = list[1 + i - 1]
      BY <1>1, <1>2, SubSeqProperties
    <2> QED
      BY <1>1, <2>1
  <1> QED
    BY <1>3 DEF ListPopBack

(* Reading either end gives an element, or NULL exactly in an empty list. *)
LEMMA EndsFacts ==
    ASSUME NEW S, NEW list \in Seq(S)
    PROVE  /\ ListFront(list) = (IF list = <<>> THEN Null ELSE list[1])
           /\ ListBack(list) = (IF list = <<>> THEN Null ELSE list[Len(list)])
           /\ list # <<>> => ListFront(list) \in S /\ ListBack(list) \in S
           /\ list = <<>> => ListFront(list) = Null /\ ListBack(list) = Null
  <1>1. list # <<>> => 1 \in 1..Len(list) /\ Len(list) \in 1..Len(list)
    BY EmptySeq
  <1>2. list # <<>> => list[1] \in S /\ list[Len(list)] \in S
    BY <1>1, ElementOfSeq
  <1> QED
    BY <1>2 DEF ListFront, ListBack

(* SequencesExt's Reverse: as long as the list, and its i-th element from the *)
(* other end.                                                                *)
LEMMA ReverseFacts ==
    ASSUME NEW S, NEW list \in Seq(S)
    PROVE  /\ Reverse(list) \in Seq(S)
           /\ Len(Reverse(list)) = Len(list)
           /\ \A i \in 1..Len(list) : Reverse(list)[i] = list[Len(list) - i + 1]
  <1> DEFINE n == Len(list)
             r == [i \in 1..n |-> list[n - i + 1]]
  <1>1. n \in Nat
    OBVIOUS
  <1>2. \A i \in 1..n : list[n - i + 1] \in S
    BY <1>1, ElementOfSeq
  <1>3. r \in [1..n -> S]
    BY <1>2
  <1>4. r \in Seq(S) /\ Len(r) = n
    <2> HIDE DEF r, n
    <2>1. r \in Seq(S)
      BY <1>1, <1>3, SeqDef
    <2>2. DOMAIN r = 1..n
      BY <1>3
    <2> QED
      BY <1>1, <2>1, <2>2, LenProperties
  <1> QED
    BY <1>4 DEF Reverse

(* Read from the tail, a node added at the head is appended at the end. *)
LEMMA ReversePushFront ==
    ASSUME NEW S, NEW list \in Seq(S), NEW data \in S
    PROVE  Reverse(ListPushFront(list, data)) = Append(Reverse(list), data)
  <1> DEFINE pushed == <<data>> \o list
             n == Len(list)
  <1>1. /\ pushed \in Seq(S)
        /\ Len(pushed) = n + 1
        /\ \A i \in 1..(n + 1) : pushed[i] = IF i = 1 THEN data ELSE list[i - 1]
    OBVIOUS
  <1>2. n \in Nat
    OBVIOUS
  <1> HIDE DEF pushed
  <1>3. /\ Reverse(pushed) \in Seq(S)
        /\ Len(Reverse(pushed)) = n + 1
        /\ \A i \in 1..(n + 1) : Reverse(pushed)[i] = pushed[n + 1 - i + 1]
    BY <1>1, ReverseFacts
  <1>4. /\ Reverse(list) \in Seq(S)
        /\ Len(Reverse(list)) = n
        /\ \A i \in 1..n : Reverse(list)[i] = list[n - i + 1]
    BY ReverseFacts
  <1>5. /\ Append(Reverse(list), data) \in Seq(S)
        /\ Len(Append(Reverse(list), data)) = n + 1
        /\ \A i \in 1..n : Append(Reverse(list), data)[i] = list[n - i + 1]
        /\ Append(Reverse(list), data)[n + 1] = data
    BY <1>4, AppendProperties
  <1> HIDE DEF n
  <1>6. \A i \in 1..(n + 1) : Reverse(pushed)[i] = Append(Reverse(list), data)[i]
    <2>1. TAKE i \in 1..(n + 1)
    <2>2. CASE i = n + 1
      BY <1>1, <1>2, <1>3, <1>5, <2>2
    <2>3. CASE i # n + 1
      <3>1. i \in 1..n /\ n + 1 - i + 1 \in 2..(n + 1)
        BY <1>2, <2>1, <2>3
      <3>2. PICK j \in 2..(n + 1) : j = n + 1 - i + 1
        BY <3>1
      <3>3. Reverse(pushed)[i] = pushed[j]
        BY <1>3, <2>1, <3>2
      <3>4. j \in 1..(n + 1) /\ j # 1 /\ j - 1 = n - i + 1
        BY <1>2, <2>1, <3>2
      <3>5. pushed[j] = list[j - 1]
        BY <1>1, <3>4
      <3> QED
        BY <1>5, <3>1, <3>3, <3>4, <3>5
    <2> QED
      BY <2>2, <2>3
  <1>7. Reverse(pushed) = Append(Reverse(list), data)
    BY <1>3, <1>5, <1>6, SeqEqual
  <1> QED
    BY <1>7 DEF ListPushFront, pushed

(* Read from the tail, the node removed at the tail is the first. *)
LEMMA ReversePopBack ==
    ASSUME NEW S, NEW list \in Seq(S), list # <<>>
    PROVE  /\ Reverse(ListPopBack(list)) = Tail(Reverse(list))
           /\ Head(Reverse(list)) = ListBack(list)
           /\ Reverse(list) # <<>>
  <1> DEFINE n == Len(list)
             popped == ListPopBack(list)
  <1>1. n \in Nat \ {0}
    BY EmptySeq
  <1>2. /\ popped \in Seq(S)
        /\ Len(popped) = n - 1
        /\ \A i \in 1..(n - 1) : popped[i] = list[i]
    BY PopBackFacts
  <1> HIDE DEF popped
  <1>3. /\ Reverse(popped) \in Seq(S)
        /\ Len(Reverse(popped)) = n - 1
        /\ \A i \in 1..(n - 1) : Reverse(popped)[i] = popped[n - 1 - i + 1]
    BY <1>2, ReverseFacts
  <1>4. /\ Reverse(list) \in Seq(S)
        /\ Len(Reverse(list)) = n
        /\ \A i \in 1..n : Reverse(list)[i] = list[n - i + 1]
    BY ReverseFacts
  <1>5. Reverse(list) # <<>>
    BY <1>1, <1>4, EmptySeq
  <1>6. /\ Tail(Reverse(list)) \in Seq(S)
        /\ Len(Tail(Reverse(list))) = n - 1
        /\ \A i \in 1..(n - 1) : Tail(Reverse(list))[i] = Reverse(list)[i + 1]
    BY <1>4, <1>5, HeadTailProperties
  <1> HIDE DEF n
  <1>7. \A i \in 1..(n - 1) : Reverse(popped)[i] = Tail(Reverse(list))[i]
    <2>1. TAKE i \in 1..(n - 1)
    <2>2. /\ i + 1 \in 1..n
          /\ n - 1 - i + 1 \in 1..(n - 1)
          /\ n - (i + 1) + 1 = n - 1 - i + 1
      BY <1>1, <2>1
    <2>3. Reverse(popped)[i] = list[n - 1 - i + 1]
      BY <1>2, <1>3, <2>1, <2>2
    <2>4. Tail(Reverse(list))[i] = list[n - (i + 1) + 1]
      BY <1>4, <1>6, <2>1, <2>2
    <2> QED
      BY <2>2, <2>3, <2>4
  <1>8. Reverse(popped) = Tail(Reverse(list))
    BY <1>1, <1>3, <1>6, <1>7, SeqEqual
  <1>9. Head(Reverse(list)) = list[n]
    <2>1. Head(Reverse(list)) = Reverse(list)[1]
      BY <1>4, <1>5
    <2>2. 1 \in 1..n /\ n - 1 + 1 = n
      BY <1>1
    <2> QED
      BY <1>4, <2>1, <2>2
  <1>10. ListBack(list) = list[n]
    BY EndsFacts DEF n
  <1> QED
    BY <1>5, <1>8, <1>9, <1>10 DEF popped
=============================================================================
