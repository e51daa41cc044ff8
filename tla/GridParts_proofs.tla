-------------------------- MODULE GridParts_proofs --------------------------
(* However many columns, filters and rows there are: the grid keeps every  *)
(* column once and the manager changes one at a time; once the fetches have *)
(* settled it shows the rows that the last question asks for; and a filter *)
(* that is loading is waited for. What is said of a sequence is said of the *)
(* set that it lists once.                                                 *)
EXTENDS ColumnsManager, GridQueries, FilterOptions, FiniteSetTheorems,
        SequenceTheorems, TLAPS

-----------------------------------------------------------------------------
(* What filter() keeps, by where it is.                                    *)

(* Kth tells the indices apart and leaves none out; it has k of them up to *)
(* the one it chooses.                                                     *)
LEMMA KthOf ==
  ASSUME NEW n \in Nat, NEW indices \in SUBSET (1 .. n)
  PROVE  /\ Cardinality(indices) \in Nat
         /\ \A k \in 1 .. Cardinality(indices) : Kth(indices, k) \in indices
         /\ \A k, l \in 1 .. Cardinality(indices) : Kth(indices, k) = Kth(indices, l) => k = l
         /\ \A i \in indices : \E k \in 1 .. Cardinality(indices) : Kth(indices, k) = i
         /\ \A k \in 1 .. Cardinality(indices) : Cardinality({j \in indices : j <= Kth(indices, k)}) = k
<1> DEFINE c == Cardinality(indices)
           UpTo(i) == {j \in indices : j <= i}
           rank == [i \in indices |-> Cardinality(UpTo(i))]
<1>1. IsFiniteSet(indices) /\ c \in Nat
  <2>1. IsFiniteSet(1 .. n)
    BY FS_Interval
  <2> QED BY <2>1, FS_Subset, FS_CardinalityType
<1>2. \A i \in indices : IsFiniteSet(UpTo(i)) /\ UpTo(i) \subseteq indices
  BY <1>1, FS_Subset
<1>3. ASSUME NEW i \in indices PROVE rank[i] \in 1 .. c
  <2>1. IsFiniteSet(UpTo(i)) /\ UpTo(i) \in SUBSET indices /\ i \in UpTo(i)
    BY <1>2
  <2>2. Cardinality(UpTo(i)) \in Nat /\ Cardinality(UpTo(i)) <= c
    BY <1>1, <2>1, FS_Subset, FS_CardinalityType
  <2>3. Cardinality(UpTo(i)) # 0
    BY <2>1, FS_EmptySet
  <2> QED BY <1>1, <2>2, <2>3
<1>4. ASSUME NEW i \in indices, NEW j \in indices, i < j PROVE rank[i] # rank[j]
  <2>1. IsFiniteSet(UpTo(j)) /\ UpTo(i) \in SUBSET UpTo(j) /\ j \in UpTo(j) /\ j \notin UpTo(i)
    <3>1. i \in Nat /\ j \in Nat /\ \A m \in indices : m \in Nat
      OBVIOUS
    <3>2. \A m \in indices : m <= i => m <= j
      BY <1>4, <3>1
    <3>3. j <= j /\ ~ j <= i
      BY <1>4, <3>1
    <3> QED BY <1>2, <3>2, <3>3
  <2>2. UpTo(i) # UpTo(j)
    BY <2>1
  <2>3. Cardinality(UpTo(j)) # Cardinality(UpTo(i))
    BY <2>1, <2>2, FS_Subset
  <2> QED BY <2>3
<1>5. \A i, j \in indices : rank[i] = rank[j] => i = j
  <2>1. \A i, j \in indices : i < j \/ j < i \/ i = j
    OBVIOUS
  <2> HIDE DEF rank
  <2> QED BY <1>4, <2>1
<1>6. \A k \in 1 .. c : \E i \in indices : rank[i] = k
  <2>1. IsFiniteSet(1 .. c) /\ Cardinality(1 .. c) = c
    BY <1>1, FS_Interval
  <2>2. rank \in Injection(indices, 1 .. c)
    BY <1>3, <1>5 DEF Injection, IsInjective
  <2>3. rank \in Surjection(indices, 1 .. c)
    BY <2>1, <2>2, FS_Injection
  <2> QED BY <2>3 DEF Surjection
<1>7. ASSUME NEW k \in 1 .. c PROVE Kth(indices, k) \in indices /\ rank[Kth(indices, k)] = k
  <2>1. \E i \in indices : Cardinality(UpTo(i)) = k
    BY <1>6
  <2>2. Kth(indices, k) = CHOOSE i \in indices : Cardinality(UpTo(i)) = k
    BY DEF Kth
  <2> QED BY <2>1, <2>2
<1>8. \A k \in 1 .. c : Cardinality(UpTo(Kth(indices, k))) = k
  BY <1>7
<1> HIDE DEF rank
<1>9. \A i \in indices : rank[i] \in 1 .. c /\ Kth(indices, rank[i]) = i
  BY <1>3, <1>5, <1>7
<1>10. \A k, l \in 1 .. c : Kth(indices, k) = Kth(indices, l) => k = l
  BY <1>7
<1> QED BY <1>1, <1>7, <1>8, <1>9, <1>10

LEMMA ToNth ==
  ASSUME NEW n \in Nat
  PROVE  IsFiniteSet(1 .. n) /\ Cardinality(1 .. n) = n
<1>1. 1 \in Int /\ n \in Int /\ (1 > n => n = 0) /\ n - 1 + 1 = n
  OBVIOUS
<1>2. IsFiniteSet(1 .. n) /\ Cardinality(1 .. n) = IF 1 > n THEN 0 ELSE n - 1 + 1
  BY <1>1, FS_Interval
<1> QED BY <1>1, <1>2

(* Kth keeps the order of the indices.                                     *)
LEMMA KthOrder ==
  ASSUME NEW n \in Nat, NEW indices \in SUBSET (1 .. n),
         NEW k \in 1 .. Cardinality(indices), NEW l \in 1 .. Cardinality(indices), k <= l
  PROVE  Kth(indices, k) <= Kth(indices, l)
<1> DEFINE UpTo(i) == {j \in indices : j <= i}
           a == Kth(indices, k)
           b == Kth(indices, l)
<1>1. /\ a \in indices /\ b \in indices
      /\ Cardinality(UpTo(a)) = k /\ Cardinality(UpTo(b)) = l
  BY KthOf
<1>2. a \in Int /\ b \in Int /\ (\A j \in indices : j \in Int) /\ k \in Int /\ l \in Int
  <2>1. Cardinality(indices) \in Nat
    BY KthOf
  <2>2. \A j \in indices : j \in Int
    OBVIOUS
  <2>3. k \in Int /\ l \in Int
    BY <2>1
  <2> HIDE DEF a, b
  <2> QED BY <1>1, <2>2, <2>3
<1> HIDE DEF a, b
<1>3. SUFFICES ASSUME b < a PROVE FALSE
  BY <1>2 DEF a, b
<1>4. UpTo(b) \subseteq UpTo(a) /\ a \in UpTo(a) /\ a \notin UpTo(b)
  <2>1. a <= a /\ ~ a <= b /\ \A j \in indices : j <= b => j <= a
    BY <1>2, <1>3
  <2> QED BY <1>1, <2>1
<1>5. IsFiniteSet(UpTo(a))
  <2>1. IsFiniteSet(1 .. n)
    BY FS_Interval
  <2>2. UpTo(a) \in SUBSET (1 .. n)
    OBVIOUS
  <2> QED BY <2>1, <2>2, FS_Subset
<1>6. Cardinality(UpTo(b)) <= Cardinality(UpTo(a)) /\ Cardinality(UpTo(b)) # Cardinality(UpTo(a))
  BY <1>4, <1>5, FS_Subset
<1> QED BY <1>1, <1>2, <1>6

(* Some indices have a last one.                                           *)
LEMMA LastOfIndices ==
  ASSUME NEW n \in Nat, NEW indices \in SUBSET (1 .. n), indices # {}
  PROVE  \E k \in indices : \A j \in indices : j <= k
<1> DEFINE c == Cardinality(indices)
<1>1. /\ c \in Nat
      /\ \A k \in 1 .. c : Kth(indices, k) \in indices
      /\ \A i \in indices : \E k \in 1 .. c : Kth(indices, k) = i
  BY KthOf
<1>2. c # 0
  <2>1. PICK i \in indices, k \in 1 .. c : Kth(indices, k) = i
    BY <1>1
  <2>2. k \in 1 .. c
    BY <2>1
  <2> HIDE DEF c
  <2> QED BY <1>1, <2>2
<1>3. c \in 1 .. c
  BY <1>1, <1>2
<1>4. \A k \in 1 .. c : k <= c /\ Kth(indices, k) <= Kth(indices, c)
  <2> SUFFICES ASSUME NEW k \in 1 .. c PROVE k <= c /\ Kth(indices, k) <= Kth(indices, c)
    OBVIOUS
  <2>1. k <= c
    BY <1>1
  <2> QED BY <1>3, <2>1, KthOrder
<1> QED BY <1>1, <1>3, <1>4, ZenonT(30)

LEMMA FirstOfIndices ==
  ASSUME NEW n \in Nat, NEW indices \in SUBSET (1 .. n), indices # {}
  PROVE  \E k \in indices : \A j \in indices : k <= j
<1> DEFINE c == Cardinality(indices)
<1>1. /\ c \in Nat
      /\ \A k \in 1 .. c : Kth(indices, k) \in indices
      /\ \A i \in indices : \E k \in 1 .. c : Kth(indices, k) = i
  BY KthOf
<1>2. 1 \in 1 .. c
  <2>1. PICK i \in indices, k \in 1 .. c : Kth(indices, k) = i
    BY <1>1
  <2>2. k \in 1 .. c
    BY <2>1
  <2> HIDE DEF c
  <2> QED BY <1>1, <2>2
<1>3. \A k \in 1 .. c : 1 <= k /\ Kth(indices, 1) <= Kth(indices, k)
  <2> SUFFICES ASSUME NEW k \in 1 .. c PROVE 1 <= k /\ Kth(indices, 1) <= Kth(indices, k)
    OBVIOUS
  <2>1. 1 <= k
    BY <1>1
  <2> QED BY <1>2, <2>1, KthOrder
<1> DEFINE first == Kth(indices, 1)
<1>4. first \in indices /\ \A j \in indices : first <= j
  <2>1. first \in indices
    BY <1>1, <1>2
  <2>2. ASSUME NEW j \in indices PROVE first <= j
    <3>1. PICK k \in 1 .. c : Kth(indices, k) = j
      BY <1>1
    <3> QED BY <1>3, <3>1
  <2> QED BY <2>1, <2>2
<1> HIDE DEF first
<1> QED BY <1>4

(* What is in a sequence, by where it is.                                  *)
In(x, seq) == \E i \in DOMAIN seq : seq[i] = x

LEMMA InConcat ==
  ASSUME NEW S, NEW s \in Seq(S), NEW t \in Seq(S), NEW x
  PROVE  s \o t \in Seq(S) /\ (In(x, s) \/ In(x, t) => In(x, s \o t))
<1>1. /\ s \o t \in Seq(S) /\ Len(s) \in Nat /\ Len(t) \in Nat
      /\ DOMAIN s = 1 .. Len(s) /\ DOMAIN t = 1 .. Len(t) /\ DOMAIN (s \o t) = 1 .. Len(s) + Len(t)
      /\ \A i \in 1 .. Len(s) + Len(t) : (s \o t)[i] = IF i <= Len(s) THEN s[i] ELSE t[i - Len(s)]
  OBVIOUS
<1>2. ASSUME In(x, s) PROVE In(x, s \o t)
  <2>1. PICK i \in 1 .. Len(s) : s[i] = x
    BY <1>1, <1>2 DEF In
  <2>2. i \in 1 .. Len(s) + Len(t) /\ (s \o t)[i] = x
    BY <1>1, <2>1
  <2> QED BY <1>1, <2>2 DEF In
<1>3. ASSUME In(x, t) PROVE In(x, s \o t)
  <2>1. PICK i \in 1 .. Len(t) : t[i] = x
    BY <1>1, <1>3 DEF In
  <2>2. /\ i + Len(s) \in 1 .. Len(s) + Len(t) /\ ~ i + Len(s) <= Len(s)
        /\ i + Len(s) - Len(s) = i
    BY <1>1
  <2>3. (s \o t)[i + Len(s)] = x
    BY <1>1, <2>1, <2>2
  <2> QED BY <1>1, <2>2, <2>3 DEF In
<1> QED BY <1>1, <1>2, <1>3

LEMMA InTail ==
  ASSUME NEW S, NEW s \in Seq(S), s # <<>>, NEW x, In(x, s)
  PROVE  x = Head(s) \/ In(x, Tail(s))
<1>1. PICK i \in 1 .. Len(s) : s[i] = x
  BY DEF In
<1>2. CASE i = 1
  BY <1>1, <1>2
<1>3. CASE i # 1
  <2>1. i - 1 \in DOMAIN Tail(s) /\ Tail(s)[i - 1] = s[i]
    BY <1>3
  <2> QED BY <1>1, <2>1 DEF In
<1> QED BY <1>2, <1>3

LEMMA InAppend ==
  ASSUME NEW S, NEW s \in Seq(S), NEW y \in S
  PROVE  In(y, Append(s, y)) /\ \A x : In(x, s) => In(x, Append(s, y))
<1>1. /\ Len(s) + 1 \in DOMAIN Append(s, y) /\ Append(s, y)[Len(s) + 1] = y
      /\ \A i \in DOMAIN s : i \in DOMAIN Append(s, y) /\ Append(s, y)[i] = s[i]
  OBVIOUS
<1> QED BY <1>1 DEF In

(* Picked, index by index.                                                 *)
LEMMA PickedIs ==
  ASSUME NEW S, NEW list \in Seq(S), NEW indices \in SUBSET DOMAIN list
  PROVE  /\ Picked(list, indices) \in Seq(S)
         /\ DOMAIN Picked(list, indices) = 1 .. Cardinality(indices)
         /\ \A k \in 1 .. Cardinality(indices) :
              Kth(indices, k) \in indices /\ Picked(list, indices)[k] = list[Kth(indices, k)]
         /\ \A i \in indices : In(list[i], Picked(list, indices))
<1> DEFINE P == Picked(list, indices)
           c == Cardinality(indices)
<1>1. Len(list) \in Nat /\ DOMAIN list = 1 .. Len(list)
  OBVIOUS
<1>2. c \in Nat /\ (\A k \in 1 .. c : Kth(indices, k) \in indices)
      /\ \A i \in indices : \E k \in 1 .. c : Kth(indices, k) = i
  BY <1>1, KthOf, ZenonT(30)
<1>3. DOMAIN P = 1 .. c /\ \A k \in 1 .. c : P[k] = list[Kth(indices, k)]
  BY DEF Picked
<1> HIDE DEF c
<1>4. P \in Seq(S)
  <2>1. \A k \in 1 .. c : list[Kth(indices, k)] \in S
    BY <1>1, <1>2
  <2>2. P = [k \in 1 .. c |-> list[Kth(indices, k)]]
    BY DEF Picked, c
  <2> QED BY <1>2, <2>1, <2>2, IsASeq
<1>5. \A i \in indices : In(list[i], P)
  BY <1>2, <1>3 DEF In
<1> QED BY <1>2, <1>3, <1>4, <1>5 DEF c

-----------------------------------------------------------------------------
(* The columns and their manager.                                          *)

ColumnsSpec == ColumnsInit /\ [][ColumnsNext]_columnsVars

(* The sequence has the elements of a set, each once.                      *)
Lists(seq, S) ==
  /\ seq \in Seq(S)
  /\ \A x \in S : \E i \in 1 .. Len(seq) : seq[i] = x
  /\ \A i, j \in 1 .. Len(seq) : seq[i] = seq[j] => i = j

-----------------------------------------------------------------------------
(* Sequences that list a set.                                              *)

LEMMA ListType ==
  ASSUME NEW S, NEW seq, Lists(seq, S)
  PROVE  /\ Len(seq) \in Nat /\ DOMAIN seq = 1 .. Len(seq)
         /\ \A i \in 1 .. Len(seq) : seq[i] \in S
         /\ ToSet(seq) = S
         /\ IsFiniteSet(S) /\ Cardinality(S) = Len(seq)
<1>1. /\ Len(seq) \in Nat /\ DOMAIN seq = 1 .. Len(seq)
      /\ seq \in [1 .. Len(seq) -> S]
  BY LenProperties DEF Lists
<1>2. seq \in Bijection(1 .. Len(seq), S)
  BY <1>1 DEF Lists, Bijection, Injection, Surjection, IsInjective
<1>3. IsFiniteSet(1 .. Len(seq)) /\ Cardinality(1 .. Len(seq)) = Len(seq)
  <2>1. PICK n : n \in Nat /\ n = Len(seq)
    BY <1>1
  <2>2. IsFiniteSet(1 .. n) /\ Cardinality(1 .. n) = n
    BY <2>1, ToNth
  <2> QED BY <2>1, <2>2
<1>4. IsFiniteSet(S) /\ Cardinality(S) = Len(seq)
  BY <1>2, <1>3, FS_Bijection DEF ExistsBijection
<1>5. ToSet(seq) = S
  BY <1>1 DEF ToSet, Lists
<1> QED BY <1>1, <1>4, <1>5

(* A function on 1 .. n that takes every value of S once lists S.          *)
Numbers(seq, n, S) ==
  /\ n \in Nat /\ seq \in [1 .. n -> S]
  /\ \A x \in S : \E i \in 1 .. n : seq[i] = x
  /\ \A i, j \in 1 .. n : seq[i] = seq[j] => i = j
LEMMA Enumerates ==
  ASSUME NEW S, NEW n, NEW seq, Numbers(seq, n, S)
  PROVE  Lists(seq, S) /\ Len(seq) = n
<1>1. seq \in Seq(S)
  BY SeqDef DEF Numbers
<1>2. Len(seq) \in Nat /\ DOMAIN seq = 1 .. Len(seq)
  BY <1>1, LenProperties
<1>3. DOMAIN seq = 1 .. n /\ n \in Nat
  BY DEF Numbers
<1>4. Len(seq) = n
  <2>1. PICK l : l = Len(seq)
    OBVIOUS
  <2>2. l \in Nat /\ n \in Nat /\ 1 .. l = 1 .. n
    BY <1>2, <1>3, <2>1, Zenon
  <2>3. (l # 0 => l \in 1 .. n) /\ (n # 0 => n \in 1 .. l)
    BY <2>2
  <2> QED BY <2>1, <2>2, <2>3
<1> QED BY <1>1, <1>4 DEF Lists, Numbers

(* filter.                                                                 *)
LEMMA PickedLists ==
  ASSUME NEW S, NEW seq, Lists(seq, S), NEW indices \in SUBSET DOMAIN seq
  PROVE  Lists(Picked(seq, indices), {seq[i] : i \in indices})
<1> DEFINE T == {seq[i] : i \in indices}
           c == Cardinality(indices)
           picked == Picked(seq, indices)
<1>1. Len(seq) \in Nat /\ DOMAIN seq = 1 .. Len(seq)
  BY ListType
<1>2. /\ c \in Nat
      /\ \A k \in 1 .. c : Kth(indices, k) \in indices
      /\ \A k, l \in 1 .. c : Kth(indices, k) = Kth(indices, l) => k = l
      /\ \A i \in indices : \E k \in 1 .. c : Kth(indices, k) = i
  BY <1>1, KthOf, ZenonT(30)
<1>3. picked = [k \in 1 .. c |-> seq[Kth(indices, k)]]
  BY DEF Picked
<1>4. picked \in [1 .. c -> T]
  BY <1>2, <1>3
<1>5. \A x \in T : \E k \in 1 .. c : picked[k] = x
  BY <1>2, <1>3
<1>6. ASSUME NEW k \in 1 .. c, NEW l \in 1 .. c, picked[k] = picked[l] PROVE k = l
  <2>1. seq[Kth(indices, k)] = seq[Kth(indices, l)]
    BY <1>3, <1>6
  <2>2. Kth(indices, k) \in 1 .. Len(seq) /\ Kth(indices, l) \in 1 .. Len(seq)
    BY <1>1, <1>2
  <2>3. Kth(indices, k) = Kth(indices, l)
    BY <2>1, <2>2 DEF Lists
  <2> QED BY <1>2, <2>3
<1> HIDE DEF picked, T, c
<1>7. Numbers(picked, c, T)
  BY <1>2, <1>4, <1>5, <1>6 DEF Numbers
<1> QED BY <1>7, Enumerates DEF picked, T

(* map, with a function that tells the elements apart.                     *)
LEMMA MappedLists ==
  ASSUME NEW S, NEW seq, Lists(seq, S), NEW T, NEW f \in [S -> T],
         \A x, y \in S : f[x] = f[y] => x = y, \A z \in T : \E x \in S : f[x] = z,
         NEW image, image \in [DOMAIN seq -> T],
         \A i \in DOMAIN seq : image[i] = f[seq[i]]
  PROVE  Lists(image, T)
<1>1. /\ Len(seq) \in Nat /\ DOMAIN seq = 1 .. Len(seq)
      /\ \A i \in 1 .. Len(seq) : seq[i] \in S
  BY ListType
<1>2. image \in [1 .. Len(seq) -> T]
  BY <1>1
<1>3. \A z \in T : \E i \in 1 .. Len(seq) : image[i] = z
  BY <1>1 DEF Lists
<1>4. \A i, j \in 1 .. Len(seq) : image[i] = image[j] => i = j
  BY <1>1 DEF Lists
<1>5. Len(seq) \in Nat
  BY <1>1
<1>6. Numbers(image, Len(seq), T)
  BY <1>2, <1>3, <1>4, <1>5 DEF Numbers
<1> QED BY <1>6, Enumerates

LEMMA JoinedLists ==
  ASSUME NEW S, NEW s, Lists(s, S), NEW T, NEW t, Lists(t, T), S \cap T = {}
  PROVE  Lists(s \o t, S \cup T)
<1> DEFINE n == Len(s) + Len(t)
<1>1. /\ Len(s) \in Nat /\ \A i \in 1 .. Len(s) : s[i] \in S
      /\ Len(t) \in Nat /\ \A i \in 1 .. Len(t) : t[i] \in T
  BY ListType
<1>2. s \in Seq(S \cup T) /\ t \in Seq(S \cup T)
  BY SeqMonotonic DEF Lists
<1>3. /\ s \o t \in Seq(S \cup T) /\ Len(s \o t) = n
      /\ \A i \in 1 .. n : (s \o t)[i] = IF i <= Len(s) THEN s[i] ELSE t[i - Len(s)]
  BY <1>2, ConcatProperties
<1>4. ASSUME NEW x \in S \cup T PROVE \E i \in 1 .. n : (s \o t)[i] = x
  <2>1. CASE x \in S
    <3>1. PICK i \in 1 .. Len(s) : s[i] = x
      BY <2>1 DEF Lists
    <3>2. i \in 1 .. n /\ (s \o t)[i] = x
      BY <1>1, <1>3, <3>1
    <3> QED BY <3>2
  <2>2. CASE x \in T
    <3>1. PICK i \in 1 .. Len(t) : t[i] = x
      BY <2>2 DEF Lists
    <3>2. Len(s) + i \in 1 .. n /\ ~ (Len(s) + i <= Len(s)) /\ (Len(s) + i) - Len(s) = i
      BY <1>1
    <3>3. (s \o t)[Len(s) + i] = x
      BY <1>3, <3>1, <3>2
    <3> QED BY <3>2, <3>3
  <2> QED BY <2>1, <2>2
<1>5. ASSUME NEW i \in 1 .. n, NEW j \in 1 .. n, (s \o t)[i] = (s \o t)[j] PROVE i = j
  <2>1. \A k \in 1 .. n : k <= Len(s) => k \in 1 .. Len(s) /\ (s \o t)[k] = s[k]
    BY <1>1, <1>3
  <2>2. \A k \in 1 .. n : ~ k <= Len(s) => k - Len(s) \in 1 .. Len(t) /\ (s \o t)[k] = t[k - Len(s)]
    BY <1>1, <1>3
  <2>3. CASE i <= Len(s) /\ j <= Len(s)
    BY <1>5, <2>1, <2>3 DEF Lists
  <2>4. CASE ~ i <= Len(s) /\ ~ j <= Len(s)
    <3>1. i - Len(s) = j - Len(s)
      <4>1. i - Len(s) \in 1 .. Len(t) /\ j - Len(s) \in 1 .. Len(t)
        BY <2>2, <2>4
      <4>2. t[i - Len(s)] = t[j - Len(s)]
        BY <1>5, <2>2, <2>4
      <4>3. \A k, l \in 1 .. Len(t) : t[k] = t[l] => k = l
        BY DEF Lists
      <4> HIDE DEF n
      <4> QED BY <4>1, <4>2, <4>3
    <3> QED BY <1>1, <3>1
  <2>5. CASE (i <= Len(s)) # (j <= Len(s))
    BY <1>1, <1>5, <2>1, <2>2, <2>5
  <2> QED BY <2>3, <2>4, <2>5
<1> QED BY <1>3, <1>4, <1>5 DEF Lists

LEMMA SubLists ==
  ASSUME NEW S, NEW seq, Lists(seq, S), NEW a \in 1 .. Len(seq) + 1, NEW b \in a - 1 .. Len(seq)
  PROVE  Lists(SubSeq(seq, a, b), {seq[k] : k \in a .. b})
<1> DEFINE T == {seq[k] : k \in a .. b}
           sub == SubSeq(seq, a, b)
           n == b - a + 1
<1>1. Len(seq) \in Nat
  BY ListType
<1>2. a \in Int /\ b \in Int /\ n \in Nat /\ n = IF a <= b THEN b - a + 1 ELSE 0
  BY <1>1
<1>3. \A k \in a .. b : seq[k] \in T /\ k \in 1 .. Len(seq)
  BY <1>1
<1>4. sub \in Seq(T) /\ Len(sub) = n /\ \A k \in 1 .. n : sub[k] = seq[a + k - 1]
  <2> HIDE DEF T
  <2>1. /\ sub \in Seq(T) /\ Len(sub) = IF a <= b THEN b - a + 1 ELSE 0
        /\ \A k \in 1 .. b - a + 1 : sub[k] = seq[a + k - 1]
    BY <1>2, <1>3, SubSeqProperties
  <2> HIDE DEF sub
  <2> QED BY <1>2, <2>1
<1>5. ASSUME NEW x \in T PROVE \E k \in 1 .. n : sub[k] = x
  <2>1. PICK k \in a .. b : x = seq[k]
    OBVIOUS
  <2>2. k - a + 1 \in 1 .. n /\ a + (k - a + 1) - 1 = k
    BY <1>2
  <2>3. sub[k - a + 1] = x
    BY <1>4, <2>1, <2>2
  <2> QED BY <2>2, <2>3
<1>6. ASSUME NEW k \in 1 .. n, NEW l \in 1 .. n, sub[k] = sub[l] PROVE k = l
  <2>1. a + k - 1 \in 1 .. Len(seq) /\ a + l - 1 \in 1 .. Len(seq)
    BY <1>1, <1>2
  <2>2. seq[a + k - 1] = seq[a + l - 1]
    BY <1>4, <1>6
  <2>3. a + k - 1 = a + l - 1
    BY <2>1, <2>2 DEF Lists
  <2> QED BY <1>2, <2>3
<1> HIDE DEF T, sub
<1>7. Lists(sub, T)
  BY <1>4, <1>5, <1>6 DEF Lists
<1> QED BY <1>7 DEF sub, T

(* onItemRemove, and the two halves of a drag.                             *)
LEMMA RemovedLists ==
  ASSUME NEW S, NEW seq, Lists(seq, S), NEW i \in DOMAIN seq
  PROVE  Lists(RemoveAt(seq, i), S \ {seq[i]})
<1> DEFINE A == {seq[k] : k \in 1 .. i - 1}
           B == {seq[k] : k \in i + 1 .. Len(seq)}
<1>1. /\ Len(seq) \in Nat /\ DOMAIN seq = 1 .. Len(seq)
      /\ \A k \in 1 .. Len(seq) : seq[k] \in S
  BY ListType
<1>2. Lists(SubSeq(seq, 1, i - 1), A) /\ Lists(SubSeq(seq, i + 1, Len(seq)), B)
  <2>1. 1 \in 1 .. Len(seq) + 1 /\ i - 1 \in 1 - 1 .. Len(seq)
    BY <1>1
  <2>2. i + 1 \in 1 .. Len(seq) + 1 /\ Len(seq) \in (i + 1) - 1 .. Len(seq)
    BY <1>1
  <2> QED BY <2>1, <2>2, SubLists
<1>3. /\ \A k \in 1 .. i - 1 : k \in 1 .. Len(seq) /\ k < i
      /\ \A k \in i + 1 .. Len(seq) : k \in 1 .. Len(seq) /\ i < k
      /\ \A k \in 1 .. Len(seq) : k = i \/ k \in 1 .. i - 1 \/ k \in i + 1 .. Len(seq)
  BY <1>1
<1>4. A \cap B = {}
  <2> SUFFICES ASSUME NEW k \in 1 .. i - 1, NEW l \in i + 1 .. Len(seq), seq[k] = seq[l]
               PROVE  FALSE
    OBVIOUS
  <2>1. k \in 1 .. Len(seq) /\ l \in 1 .. Len(seq) /\ k < i /\ i < l
    BY <1>3
  <2>2. k = l
    BY <2>1 DEF Lists
  <2> QED BY <1>1, <2>1, <2>2
<1>5. A \cup B = S \ {seq[i]}
  <2>1. \A k \in 1 .. Len(seq) : k < i \/ i < k => seq[k] \in S \ {seq[i]}
    BY <1>1 DEF Lists
  <2>2. A \cup B \subseteq S \ {seq[i]}
    BY <1>3, <2>1
  <2>3. ASSUME NEW x \in S, x # seq[i] PROVE x \in A \cup B
    <3>1. PICK k \in 1 .. Len(seq) : seq[k] = x
      BY DEF Lists
    <3> QED BY <1>3, <2>3, <3>1
  <2> QED BY <2>2, <2>3
<1> HIDE DEF A, B
<1> QED BY <1>2, <1>4, <1>5, JoinedLists DEF RemoveAt

LEMMA InsertedLists ==
  ASSUME NEW S, NEW seq, Lists(seq, S), NEW i \in 1 .. Len(seq) + 1, NEW e, e \notin S
  PROVE  Lists(InsertAt(seq, i, e), S \cup {e})
<1> DEFINE A == {seq[k] : k \in 1 .. i - 1}
           B == {seq[k] : k \in i .. Len(seq)}
<1>1. /\ Len(seq) \in Nat /\ \A k \in 1 .. Len(seq) : seq[k] \in S
  BY ListType
<1>2. Lists(SubSeq(seq, 1, i - 1), A) /\ Lists(SubSeq(seq, i, Len(seq)), B)
  <2>1. 1 \in 1 .. Len(seq) + 1 /\ i - 1 \in 1 - 1 .. Len(seq)
    BY <1>1
  <2>2. i \in 1 .. Len(seq) + 1 /\ Len(seq) \in i - 1 .. Len(seq)
    BY <1>1
  <2> QED BY <2>1, <2>2, SubLists
<1>3. /\ \A k \in 1 .. i - 1 : k \in 1 .. Len(seq) /\ k < i
      /\ \A k \in i .. Len(seq) : k \in 1 .. Len(seq) /\ ~ k < i
      /\ \A k \in 1 .. Len(seq) : k \in 1 .. i - 1 \/ k \in i .. Len(seq)
  BY <1>1
<1>4. A \cap B = {}
  <2> SUFFICES ASSUME NEW k \in 1 .. i - 1, NEW l \in i .. Len(seq), seq[k] = seq[l]
               PROVE  FALSE
    OBVIOUS
  <2>1. k \in 1 .. Len(seq) /\ l \in 1 .. Len(seq) /\ k < i /\ ~ l < i
    BY <1>3
  <2>2. k = l
    BY <2>1 DEF Lists
  <2> QED BY <2>1, <2>2
<1>5. A \cup B = S
  <2>1. A \cup B \subseteq S
    BY <1>1, <1>3
  <2>2. ASSUME NEW x \in S PROVE x \in A \cup B
    <3>1. PICK k \in 1 .. Len(seq) : seq[k] = x
      BY DEF Lists
    <3> QED BY <1>3, <3>1
  <2> QED BY <2>1, <2>2
<1>6. Lists(<<e>>, {e})
  BY DEF Lists
<1> HIDE DEF A, B
<1>7. Lists(SubSeq(seq, 1, i - 1) \o <<e>>, A \cup {e})
  <2>1. A \cap {e} = {}
    BY <1>5
  <2> QED BY <1>2, <1>6, <2>1, JoinedLists
<1>8. Lists((SubSeq(seq, 1, i - 1) \o <<e>>) \o SubSeq(seq, i, Len(seq)), (A \cup {e}) \cup B)
  <2>1. (A \cup {e}) \cap B = {}
    BY <1>4, <1>5
  <2> QED BY <1>2, <1>7, <2>1, JoinedLists
<1>9. (A \cup {e}) \cup B = S \cup {e}
  BY <1>5
<1> QED BY <1>8, <1>9 DEF InsertAt

(* One element is exchanged for another.                                   *)
LEMMA ExchangedLists ==
  ASSUME NEW S, NEW seq, Lists(seq, S), NEW i \in DOMAIN seq, NEW e, e \notin S \ {seq[i]}
  PROVE  Lists([seq EXCEPT ![i] = e], (S \ {seq[i]}) \cup {e})
<1> DEFINE T == (S \ {seq[i]}) \cup {e}
           n == Len(seq)
           new == [seq EXCEPT ![i] = e]
<1>1. /\ n \in Nat /\ DOMAIN seq = 1 .. n /\ \A k \in 1 .. n : seq[k] \in S
      /\ \A k, l \in 1 .. n : seq[k] = seq[l] => k = l
      /\ \A x \in S : \E k \in 1 .. n : seq[k] = x
  BY ListType DEF Lists
<1> HIDE DEF n
<1>2. DOMAIN new = 1 .. n /\ new = [k \in 1 .. n |-> IF k = i THEN e ELSE seq[k]]
  BY <1>1
<1>3. \A k \in 1 .. n : k # i => seq[k] \in S \ {seq[i]}
  BY <1>1
<1>4. new \in [1 .. n -> T]
  BY <1>2, <1>3
<1>5. ASSUME NEW x \in T PROVE \E k \in 1 .. n : new[k] = x
  <2>1. CASE x = e
    BY <1>1, <1>2, <2>1
  <2>2. CASE x # e
    <3>1. PICK k \in 1 .. n : seq[k] = x
      BY <1>1, <2>2
    <3> QED BY <1>2, <2>2, <3>1
  <2> QED BY <2>1, <2>2
<1>6. \A k, l \in 1 .. n : new[k] = new[l] => k = l
  BY <1>1, <1>2, <1>3
<1> HIDE DEF T, new
<1>7. Numbers(new, n, T)
  BY <1>1, <1>4, <1>5, <1>6 DEF Numbers
<1> QED BY <1>7, Enumerates DEF new, T

-----------------------------------------------------------------------------
(* The columns selected, and the grid's.                                   *)

Option == (DOMAIN GroupOf) \X Sides
Column == [key : DOMAIN GroupOf, hidden : BOOLEAN, fixed : Sides]

LEMMA OptionOf ==
  /\ \A p \in Option : p[1] \in DOMAIN GroupOf /\ p[2] \in Sides /\ p = <<p[1], p[2]>>
  /\ \A k \in DOMAIN GroupOf, side \in Sides : <<k, side>> \in Option
BY DEF Option

Pinned(S, side) == {p \in S : p[2] = side}
Fixed(C, side) == {c \in C : c.fixed = side}

(* A set of options has a column once, and two at most on a side.          *)
Selection(S) ==
  /\ S \subseteq Option
  /\ \A p, q \in S : p[1] = q[1] => p = q
  /\ \A side \in {"left", "right"} : Cardinality(Pinned(S, side)) <= 2

(* A grid has each of its columns once, and two at most on a side.         *)
Complete(C) ==
  /\ C \subseteq Column
  /\ {c.key : c \in C} = DOMAIN GroupOf
  /\ \A c, d \in C : c.key = d.key => c = d
  /\ \A side \in {"left", "right"} : Cardinality(Fixed(C, side)) <= 2

DraftOK(options) == Lists(options, ToSet(options)) /\ Selection(ToSet(options))
ColumnsOK(list) == Lists(list, ToSet(list)) /\ Complete(ToSet(list))
ColumnsInv == ColumnsOK(columns) /\ DraftOK(draft)

(* The columns of the builders and of the views.                           *)
LEMMA GivenOK ==
  ASSUME NEW list \in {DefaultColumns} \cup ViewColumns
  PROVE  ColumnsOK(list)
<1> DEFINE C == ToSet(list)
           n == Len(list)
<1>1. /\ list \in Seq(Column) /\ Keys(list) = DOMAIN GroupOf
      /\ n = Cardinality(DOMAIN GroupOf)
      /\ \A side \in {"left", "right"} : Cardinality({i \in DOMAIN list : list[i].fixed = side}) <= 2
  BY ColumnsAssumption DEF Column
<1>2. n \in Nat /\ DOMAIN list = 1 .. n /\ \A i \in 1 .. n : list[i] \in Column
  BY <1>1, LenProperties
<1>3. /\ DOMAIN GroupOf = {list[i].key : i \in 1 .. n}
      /\ C = {list[i] : i \in 1 .. n}
  BY <1>1, <1>2 DEF Keys, ToSet
<1>4. IsFiniteSet(1 .. n) /\ Cardinality(1 .. n) = n
  BY <1>2, ToNth
<1> HIDE DEF C, n
<1>5. \A i, j \in 1 .. n : list[i].key = list[j].key => i = j
  <2> DEFINE f == [i \in 1 .. n |-> list[i].key]
  <2>1. f \in Surjection(1 .. n, DOMAIN GroupOf)
    BY <1>3 DEF Surjection
  <2>2. f \in Injection(1 .. n, DOMAIN GroupOf)
    BY <1>1, <1>4, <2>1, FS_Surjection
  <2>3. DOMAIN f = 1 .. n /\ \A i \in 1 .. n : f[i] = list[i].key
    OBVIOUS
  <2> HIDE DEF f
  <2>4. \A i, j \in 1 .. n : f[i] = f[j] => i = j
    BY <2>2, <2>3 DEF Injection, IsInjective
  <2> QED BY <2>3, <2>4
<1>6. Lists(list, C)
  <2>1. list \in [1 .. n -> C]
    <3>1. list \in [1 .. n -> Column]
      BY <1>1, LenProperties DEF n
    <3>2. \A i \in 1 .. n : list[i] \in C
      BY <1>3
    <3> QED BY <3>1, <3>2
  <2>2. \A x \in C : \E i \in 1 .. n : list[i] = x
    BY <1>3
  <2>3. \A i, j \in 1 .. n : list[i] = list[j] => i = j
    BY <1>5
  <2>4. Numbers(list, n, C)
    BY <1>2, <2>1, <2>2, <2>3 DEF Numbers
  <2> QED BY <2>4, Enumerates
<1>7. ASSUME NEW side \in {"left", "right"} PROVE Cardinality(Fixed(C, side)) <= 2
  <2> DEFINE I == {i \in 1 .. n : list[i].fixed = side}
             f == [i \in I |-> list[i]]
  <2>1. f \in Surjection(I, Fixed(C, side))
    BY <1>3 DEF Surjection, Fixed
  <2>2. IsFiniteSet(I) /\ Cardinality(I) <= 2 /\ Cardinality(I) \in Nat
    BY <1>1, <1>2, <1>4, FS_Subset, FS_CardinalityType
  <2>3. /\ IsFiniteSet(Fixed(C, side)) /\ Cardinality(Fixed(C, side)) <= Cardinality(I)
        /\ Cardinality(Fixed(C, side)) \in Nat
    BY <2>1, <2>2, FS_Surjection, FS_CardinalityType
  <2> QED BY <2>2, <2>3
<1>8. Complete(C)
  BY <1>2, <1>3, <1>5, <1>7 DEF Complete
<1> QED BY <1>6, <1>8 DEF ColumnsOK, C

(* A list of a set of one or the other kind.                               *)
LEMMA ListsDraft ==
  ASSUME NEW o, NEW S, Lists(o, S), Selection(S)
  PROVE  DraftOK(o)
BY ListType DEF DraftOK

LEMMA ListsColumns ==
  ASSUME NEW list, NEW C, Lists(list, C), Complete(C)
  PROVE  ColumnsOK(list)
BY ListType DEF ColumnsOK

LEMMA PinnedLists ==
  ASSUME NEW o, NEW S, Lists(o, S), NEW side
  PROVE  Lists(PinnedTo(o, side), Pinned(S, side))
<1> DEFINE I == {i \in DOMAIN o : o[i][2] = side}
<1>1. Lists(PinnedTo(o, side), {o[i] : i \in I})
  BY PickedLists DEF PinnedTo
<1>2. {o[i] : i \in I} = Pinned(S, side)
  BY ListType DEF Pinned, Lists
<1> QED BY <1>1, <1>2

(* sortPinnedColumns orders and loses nothing; so does With.               *)
LEMMA ThreeLists ==
  ASSUME NEW l, NEW L, Lists(l, L), NEW m, NEW M, Lists(m, M), NEW r, NEW R, Lists(r, R),
         L \subseteq Pinned(Option, "left"), M \subseteq Pinned(Option, "none"),
         R \subseteq Pinned(Option, "right")
  PROVE  Lists(l \o m \o r, (L \cup M) \cup R)
<1>1. L \cap M = {} /\ (L \cup M) \cap R = {}
  BY DEF Pinned
<1>2. Lists(l \o m, L \cup M)
  BY <1>1, JoinedLists
<1> QED BY <1>1, <1>2, JoinedLists

LEMMA OrderedLists ==
  ASSUME NEW o, NEW S, Lists(o, S), S \subseteq Option
  PROVE  Lists(OrderPinned(o), S)
<1>1. /\ Pinned(S, "left") \subseteq Pinned(Option, "left")
      /\ Pinned(S, "none") \subseteq Pinned(Option, "none")
      /\ Pinned(S, "right") \subseteq Pinned(Option, "right")
      /\ S = (Pinned(S, "left") \cup Pinned(S, "none")) \cup Pinned(S, "right")
  <2>1. \A p \in Option : p[2] = "left" \/ p[2] = "none" \/ p[2] = "right"
    BY OptionOf DEF Sides
  <2> QED BY <2>1 DEF Pinned
<1>2. \A side \in Sides : Lists(PinnedTo(o, side), Pinned(S, side))
  BY PinnedLists
<1>3. Lists(OrderPinned(o), (Pinned(S, "left") \cup Pinned(S, "none")) \cup Pinned(S, "right"))
  BY <1>1, <1>2, ThreeLists DEF OrderPinned, Sides
<1> QED BY <1>1, <1>3

(* getVisibleColumnOptions.                                                *)
LEMMA VisibleOK ==
  ASSUME NEW list, ColumnsOK(list)
  PROVE  DraftOK(VisibleOptions(list))
<1> DEFINE C == ToSet(list)
           shown == {i \in DOMAIN list : ~ list[i].hidden}
           visible == Picked(list, shown)
           V == {c \in C : ~ c.hidden}
           f == [c \in V |-> <<c.key, c.fixed>>]
           S == {<<c.key, c.fixed>> : c \in V}
<1>1. Lists(list, C) /\ Complete(C)
  BY DEF ColumnsOK
<1>2. Lists(visible, V)
  <2>1. Lists(visible, {list[i] : i \in shown})
    BY <1>1, PickedLists
  <2>2. {list[i] : i \in shown} = V
    BY DEF ToSet
  <2> QED BY <2>1, <2>2
<1> HIDE DEF visible
<1>3. /\ DOMAIN VisibleOptions(list) = DOMAIN visible
      /\ \A i \in DOMAIN visible : VisibleOptions(list)[i] = <<visible[i].key, visible[i].fixed>>
      /\ VisibleOptions(list) = [i \in DOMAIN visible |-> <<visible[i].key, visible[i].fixed>>]
  BY DEF VisibleOptions, visible, shown
<1>4. DOMAIN visible = 1 .. Len(visible) /\ \A i \in 1 .. Len(visible) : visible[i] \in V
  BY <1>2, ListType
<1>5. \A i \in DOMAIN visible : VisibleOptions(list)[i] = f[visible[i]]
  BY <1>3, <1>4
<1>6. VisibleOptions(list) \in [DOMAIN visible -> S]
  BY <1>3, <1>4
<1>7. \A c, d \in V : f[c] = f[d] => c = d
  BY <1>1 DEF Complete
<1>8. Lists(VisibleOptions(list), S)
  <2>1. f \in [V -> S] /\ \A z \in S : \E c \in V : f[c] = z
    OBVIOUS
  <2> HIDE DEF f, S, V
  <2> QED BY <1>2, <1>5, <1>6, <1>7, <2>1, MappedLists
<1>9. Selection(S)
  <2>1. ASSUME NEW c \in C
        PROVE  c.key \in DOMAIN GroupOf /\ c.fixed \in Sides /\ <<c.key, c.fixed>>[1] = c.key
               /\ <<c.key, c.fixed>>[2] = c.fixed
    BY <1>1 DEF Complete, Column
  <2>2. V \subseteq C /\ \A c, d \in C : c.key = d.key => c = d
    BY <1>1 DEF Complete
  <2>3. S \subseteq Option
    BY <2>1, <2>2, OptionOf
  <2>4. \A p, q \in S : p[1] = q[1] => p = q
    BY <2>1, <2>2
  <2>5. ASSUME NEW side \in {"left", "right"} PROVE Cardinality(Pinned(S, side)) <= 2
    <3> DEFINE D == {c \in V : c.fixed = side}
               g == [c \in D |-> <<c.key, c.fixed>>]
    <3>1. \A p : p \in Pinned(S, side) <=> \E c \in D : p = <<c.key, c.fixed>>
      BY DEF Pinned
    <3>2. DOMAIN g = D /\ \A c \in D : g[c] = <<c.key, c.fixed>>
      OBVIOUS
    <3>3. g \in [D -> Pinned(S, side)]
      BY <3>1
    <3>4. D \subseteq Fixed(C, side)
      BY <2>2 DEF Fixed
    <3> HIDE DEF g, D, S
    <3>5. g \in Surjection(D, Pinned(S, side))
      BY <3>1, <3>2, <3>3 DEF Surjection
    <3>6. IsFiniteSet(Fixed(C, side)) /\ Cardinality(Fixed(C, side)) <= 2
      BY <1>1, ListType, FS_Subset DEF Complete, Fixed
    <3>7. /\ IsFiniteSet(D) /\ Cardinality(D) <= Cardinality(Fixed(C, side))
          /\ Cardinality(D) \in Nat /\ Cardinality(Fixed(C, side)) \in Nat
      BY <3>4, <3>6, FS_Subset, FS_CardinalityType
    <3>8. /\ Cardinality(Pinned(S, side)) <= Cardinality(D) /\ Cardinality(Pinned(S, side)) \in Nat
      BY <3>5, <3>7, FS_Surjection, FS_CardinalityType
    <3> QED BY <3>6, <3>7, <3>8
  <2> QED BY <2>3, <2>4, <2>5 DEF Selection
<1> QED BY <1>8, <1>9, ListsDraft

(* getManagedColumns.                                                      *)
KeysOf(S) == {p[1] : p \in S}

LEMMA ListedValues ==
  ASSUME NEW o, NEW S, Lists(o, S)
  PROVE  Values(o) = KeysOf(S)
BY ListType DEF Values, KeysOf, Lists

HiddenColumn(key) == [key |-> key, hidden |-> TRUE, fixed |-> "none"]
ShownColumn(p) == [key |-> p[1], hidden |-> FALSE, fixed |-> p[2]]

LEMMA ManagedColumn ==
  /\ \A k : HiddenColumn(k).key = k /\ HiddenColumn(k).hidden = TRUE /\ HiddenColumn(k).fixed = "none"
  /\ \A p : ShownColumn(p).key = p[1] /\ ShownColumn(p).hidden = FALSE /\ ShownColumn(p).fixed = p[2]
  /\ \A k \in DOMAIN GroupOf : HiddenColumn(k) \in Column
  /\ \A p \in Option : ShownColumn(p) \in Column
<1>1. ASSUME NEW k \in DOMAIN GroupOf PROVE HiddenColumn(k) \in Column
  BY DEF HiddenColumn, Column, Sides
<1>2. ASSUME NEW p \in Option PROVE ShownColumn(p) \in Column
  <2>1. p[1] \in DOMAIN GroupOf /\ p[2] \in Sides
    BY OptionOf
  <2> QED BY <2>1 DEF ShownColumn, Column
<1> QED BY <1>1, <1>2 DEF HiddenColumn, ShownColumn

LEMMA ManagedOK ==
  ASSUME ColumnsInv
  PROVE  ColumnsOK(ManagedColumns)
<1> DEFINE C == ToSet(columns)
           S == ToSet(draft)
           H == {c \in C : c.key \notin KeysOf(S)}
           kept == {i \in DOMAIN columns : columns[i].key \notin Values(draft)}
           hidden == Picked(columns, kept)
           f == [c \in H |-> HiddenColumn(c.key)]
           g == [p \in S |-> ShownColumn(p)]
           A == {HiddenColumn(c.key) : c \in H}
           B == {ShownColumn(p) : p \in S}
           a == [i \in DOMAIN hidden |-> HiddenColumn(hidden[i].key)]
           b == [i \in DOMAIN draft |-> ShownColumn(draft[i])]
<1>1. Lists(columns, C) /\ Complete(C) /\ Lists(draft, S) /\ Selection(S)
  BY DEF ColumnsInv, ColumnsOK, DraftOK
<1>2. /\ C \subseteq Column /\ \A c, d \in C : c.key = d.key => c = d
      /\ {c.key : c \in C} = DOMAIN GroupOf
      /\ S \subseteq Option /\ \A p, q \in S : p[1] = q[1] => p = q
  BY <1>1 DEF Complete, Selection
<1>3. Lists(hidden, H)
  <2>1. Lists(hidden, {columns[i] : i \in kept})
    BY <1>1, PickedLists
  <2>2. Values(draft) = KeysOf(S)
    BY <1>1, ListedValues
  <2>3. {columns[i] : i \in kept} = H
    BY <2>2 DEF ToSet
  <2> QED BY <2>1, <2>3
<1> HIDE DEF hidden
<1>4. ManagedColumns = a \o b
  BY DEF ManagedColumns, hidden, kept, HiddenColumn, ShownColumn
<1>5. Lists(a, A)
  <2>1. DOMAIN hidden = 1 .. Len(hidden) /\ \A i \in 1 .. Len(hidden) : hidden[i] \in H
    BY <1>3, ListType
  <2>2. a \in [DOMAIN hidden -> A] /\ \A i \in DOMAIN hidden : a[i] = f[hidden[i]]
    BY <2>1
  <2>3. f \in [H -> A] /\ \A z \in A : \E c \in H : f[c] = z
    OBVIOUS
  <2>4. \A c, d \in H : f[c] = f[d] => c = d
    <3>1. \A c \in H : f[c].key = c.key /\ c \in C
      BY ManagedColumn
    <3> HIDE DEF f
    <3> QED BY <1>2, <3>1
  <2> HIDE DEF f, a, H, A
  <2> QED BY <1>3, <2>2, <2>3, <2>4, MappedLists
<1>6. Lists(b, B)
  <2>1. DOMAIN draft = 1 .. Len(draft) /\ \A i \in 1 .. Len(draft) : draft[i] \in S
    BY <1>1, ListType
  <2>2. b \in [DOMAIN draft -> B] /\ \A i \in DOMAIN draft : b[i] = g[draft[i]]
    BY <2>1
  <2>3. g \in [S -> B] /\ \A z \in B : \E p \in S : g[p] = z
    OBVIOUS
  <2>4. \A p, q \in S : g[p] = g[q] => p = q
    <3>1. \A p \in S : g[p].key = p[1]
      BY ManagedColumn
    <3> HIDE DEF g, S
    <3> QED BY <1>2, <3>1
  <2> HIDE DEF g, b, S, B
  <2> QED BY <1>1, <2>2, <2>3, <2>4, MappedLists
<1> HIDE DEF C, S, a, b
<1>7. A \cap B = {}
  <2>1. (\A x \in A : x.hidden = TRUE) /\ (\A x \in B : x.hidden = FALSE)
    BY ManagedColumn
  <2> QED BY <2>1
<1>8. Complete(A \cup B)
  <2>1. \A c \in C : c.key \in DOMAIN GroupOf
    BY <1>2
  <2>2. A \subseteq Column
    BY <2>1, ManagedColumn
  <2>3. B \subseteq Column
    BY <1>2, ManagedColumn
  <2>4. /\ \A x \in A : x.key \notin KeysOf(S) /\ \E c \in C : x.key = c.key
        /\ \A x \in B : x.key \in KeysOf(S)
    BY ManagedColumn DEF KeysOf
  <2>5. {x.key : x \in A \cup B} = DOMAIN GroupOf
    <3>1. \A x \in A \cup B : x.key \in DOMAIN GroupOf
      BY <2>2, <2>3 DEF Column
    <3>2. ASSUME NEW k \in DOMAIN GroupOf PROVE \E x \in A \cup B : x.key = k
      <4>1. PICK c \in C : c.key = k
        BY <1>2
      <4>2. CASE k \notin KeysOf(S)
        <5>1. c \in H
          BY <4>1, <4>2
        <5>2. HiddenColumn(c.key) \in A
          BY <5>1
        <5> QED BY <4>1, <5>2, ManagedColumn
      <4>3. CASE k \in KeysOf(S)
        <5>1. PICK p \in S : p[1] = k
          BY <4>3 DEF KeysOf
        <5>2. ShownColumn(p) \in B
          OBVIOUS
        <5> QED BY <5>1, <5>2, ManagedColumn
      <4> QED BY <4>2, <4>3
    <3> QED BY <3>1, <3>2
  <2>6. ASSUME NEW x \in A \cup B, NEW y \in A \cup B, x.key = y.key PROVE x = y
    <3>1. CASE x \in A /\ y \in A
      <4>1. PICK c \in H : x = HiddenColumn(c.key)
        BY <3>1
      <4>2. PICK d \in H : y = HiddenColumn(d.key)
        BY <3>1
      <4> QED BY <2>6, <4>1, <4>2, ManagedColumn
    <3>2. CASE x \in B /\ y \in B
      <4>1. PICK p \in S : x = ShownColumn(p)
        BY <3>2
      <4>2. PICK q \in S : y = ShownColumn(q)
        BY <3>2
      <4>3. p[1] = q[1]
        BY <2>6, <4>1, <4>2, ManagedColumn
      <4>4. p = q
        BY <1>2, <4>3
      <4> QED BY <4>1, <4>2, <4>4
    <3>3. CASE x \in A /\ y \in B
      BY <2>4, <2>6, <3>3
    <3>4. CASE x \in B /\ y \in A
      BY <2>4, <2>6, <3>4
    <3> QED BY <3>1, <3>2, <3>3, <3>4
  <2>7. ASSUME NEW side \in {"left", "right"} PROVE Cardinality(Fixed(A \cup B, side)) <= 2
    <3> DEFINE F == Fixed(A \cup B, side)
               P == Pinned(S, side)
               h == [p \in P |-> ShownColumn(p)]
    <3>1. \A x : x \in F <=> \E p \in P : x = ShownColumn(p)
      BY ManagedColumn DEF Fixed, Pinned
    <3>2. DOMAIN h = P /\ \A p \in P : h[p] = ShownColumn(p)
      OBVIOUS
    <3>3. h \in [P -> F]
      BY <3>1
    <3> HIDE DEF F, h
    <3>4. h \in Surjection(P, F)
      <4>1. \A t \in F : \E p \in P : h[p] = t
        BY <3>1, <3>2
      <4> HIDE DEF P
      <4> QED BY <3>3, <4>1 DEF Surjection
    <3>5. /\ IsFiniteSet(P) /\ Cardinality(P) <= 2
          /\ Cardinality(P) \in Nat
      BY <1>1, ListType, FS_Subset, FS_CardinalityType DEF Selection, Pinned
    <3>6. Cardinality(F) <= Cardinality(P) /\ Cardinality(F) \in Nat
      BY <3>4, <3>5, FS_Surjection, FS_CardinalityType
    <3> QED BY <3>5, <3>6 DEF F
  <2> HIDE DEF A, B
  <2> QED BY <2>2, <2>3, <2>5, <2>6, <2>7 DEF Complete
<1> HIDE DEF A, B
<1> QED BY <1>4, <1>5, <1>6, <1>7, <1>8, JoinedLists, ListsColumns

-----------------------------------------------------------------------------
(* One step of the manager: nothing, or one column that goes, that comes   *)
(* unpinned, or that is pinned where there is room.                        *)
OneChange(S, T) ==
  \/ T = S
  \/ \E p \in S : T = S \ {p}
  \/ \E k \in (DOMAIN GroupOf) \ KeysOf(S) : T = S \cup {<<k, "none">>}
  \/ \E p \in S, side \in Sides :
       /\ side = "none" \/ Cardinality(Pinned(S, side)) < 2
       /\ T = (S \ {p}) \cup {<<p[1], side>>}

LEMMA ChangeOK ==
  ASSUME NEW S, IsFiniteSet(S), Selection(S), NEW T, OneChange(S, T)
  PROVE  Selection(T)
<1>1. /\ S \subseteq Option /\ \A p, q \in S : p[1] = q[1] => p = q
      /\ \A side \in {"left", "right"} : Cardinality(Pinned(S, side)) <= 2
  BY DEF Selection
<1>2. \A side : IsFiniteSet(Pinned(S, side)) /\ Cardinality(Pinned(S, side)) \in Nat
  BY FS_Subset, FS_CardinalityType DEF Pinned
<1>3. ASSUME NEW side \in {"left", "right"}, Pinned(T, side) \subseteq Pinned(S, side)
      PROVE  Cardinality(Pinned(T, side)) <= 2
  <2>1. /\ Cardinality(Pinned(T, side)) <= Cardinality(Pinned(S, side))
        /\ Cardinality(Pinned(T, side)) \in Nat
    BY <1>2, <1>3, FS_Subset, FS_CardinalityType
  <2> QED BY <1>1, <1>2, <2>1
<1>4. CASE T = S
  BY <1>4
<1>5. ASSUME NEW p \in S, T = S \ {p} PROVE Selection(T)
  <2>1. \A side \in {"left", "right"} : Pinned(T, side) \subseteq Pinned(S, side)
    BY <1>5 DEF Pinned
  <2> QED BY <1>1, <1>3, <1>5, <2>1 DEF Selection
<1>6. ASSUME NEW k \in (DOMAIN GroupOf) \ KeysOf(S), T = S \cup {<<k, "none">>} PROVE Selection(T)
  <2>1. \A side \in {"left", "right"} : Pinned(T, side) \subseteq Pinned(S, side)
    BY <1>6 DEF Pinned
  <2>2. T \subseteq Option
    BY <1>1, <1>6, OptionOf DEF Sides
  <2>3. \A p, q \in T : p[1] = q[1] => p = q
    BY <1>1, <1>6 DEF KeysOf
  <2> QED BY <1>3, <2>1, <2>2, <2>3 DEF Selection
<1>7. ASSUME NEW p \in S, NEW side \in Sides,
             side = "none" \/ Cardinality(Pinned(S, side)) < 2,
             T = (S \ {p}) \cup {<<p[1], side>>}
      PROVE  Selection(T)
  <2>1. T \subseteq Option
    BY <1>1, <1>7, OptionOf
  <2>2. \A q, r \in T : q[1] = r[1] => q = r
    BY <1>1, <1>7
  <2>3. ASSUME NEW other \in {"left", "right"} PROVE Cardinality(Pinned(T, other)) <= 2
    <3>1. CASE other # side
      <4>1. Pinned(T, other) \subseteq Pinned(S, other)
        BY <1>7, <3>1 DEF Pinned
      <4> QED BY <1>3, <4>1
    <3>2. CASE other = side
      <4> DEFINE more == Pinned(S, side) \cup {<<p[1], side>>}
      <4>1. Pinned(T, side) \subseteq more
        BY <1>7 DEF Pinned
      <4>2. /\ IsFiniteSet(more)
            /\ Cardinality(more) = Cardinality(Pinned(S, side))
               \/ Cardinality(more) = Cardinality(Pinned(S, side)) + 1
        BY <1>2, FS_AddElement
      <4> HIDE DEF more
      <4>3. Cardinality(Pinned(T, side)) <= Cardinality(more) /\ Cardinality(Pinned(T, side)) \in Nat
        BY <4>1, <4>2, FS_Subset, FS_CardinalityType
      <4>4. Cardinality(Pinned(S, side)) < 2 /\ Cardinality(Pinned(S, side)) \in Nat
        BY <1>2, <1>7, <3>2
      <4> QED BY <3>2, <4>2, <4>3, <4>4
    <3> QED BY <3>1, <3>2
  <2> QED BY <2>1, <2>2, <2>3 DEF Selection
<1> QED BY <1>4, <1>5, <1>6, <1>7 DEF OneChange

(* What OneColumnAtATime counts.                                           *)
Counted(S, T) ==
  LET kept == KeysOf(S) \cap KeysOf(T)
      pins(X) == {p \in X : p[1] \in kept}
  IN  Cardinality(KeysOf(S) \ kept) + Cardinality(KeysOf(T) \ kept)
        + Cardinality(pins(S) \ pins(T)) <= 1

LEMMA ChangeCounted ==
  ASSUME NEW S, Selection(S), NEW T, OneChange(S, T)
  PROVE  Counted(S, T)
<1> DEFINE kept == KeysOf(S) \cap KeysOf(T)
           pins(X) == {p \in X : p[1] \in kept}
           lost == KeysOf(S) \ kept
           new == KeysOf(T) \ kept
           moved == pins(S) \ pins(T)
<1>1. \A p, q \in S : p[1] = q[1] => p = q
  BY DEF Selection
<1>2. Cardinality({}) = 0 /\ \A x : Cardinality({x}) = 1
  BY FS_EmptySet, FS_Singleton
<1>3. ASSUME Cardinality(lost) + Cardinality(new) + Cardinality(moved) <= 1
      PROVE  Counted(S, T)
  BY <1>3 DEF Counted
<1>4. CASE T = S
  <2>1. lost = {} /\ new = {} /\ moved = {}
    BY <1>4
  <2> HIDE DEF lost, new, moved
  <2> QED BY <1>2, <1>3, <2>1
<1>5. ASSUME NEW p \in S, T = S \ {p} PROVE Counted(S, T)
  <2>1. KeysOf(T) = KeysOf(S) \ {p[1]} /\ p[1] \in KeysOf(S)
    BY <1>1, <1>5 DEF KeysOf
  <2>2. lost = {p[1]} /\ new = {}
    BY <2>1
  <2>3. moved = {}
    BY <1>5, <2>1
  <2> HIDE DEF lost, new, moved
  <2>4. Cardinality(lost) = 1 /\ Cardinality(new) = 0 /\ Cardinality(moved) = 0
    BY <1>2, <2>2, <2>3, Zenon
  <2> QED BY <1>3, <2>4
<1>6. ASSUME NEW k \in (DOMAIN GroupOf) \ KeysOf(S), T = S \cup {<<k, "none">>} PROVE Counted(S, T)
  <2>1. KeysOf(T) = KeysOf(S) \cup {k} /\ k \notin KeysOf(S)
    <3>1. <<k, "none">>[1] = k
      OBVIOUS
    <3> QED BY <1>6, <3>1 DEF KeysOf
  <2>2. lost = {} /\ new = {k}
    BY <2>1
  <2>3. moved = {}
    BY <1>6, <2>1
  <2> HIDE DEF lost, new, moved
  <2>4. Cardinality(lost) = 0 /\ Cardinality(new) = 1 /\ Cardinality(moved) = 0
    BY <1>2, <2>2, <2>3, Zenon
  <2> QED BY <1>3, <2>4
<1>7. ASSUME NEW p \in S, NEW side \in Sides, T = (S \ {p}) \cup {<<p[1], side>>}
      PROVE  Counted(S, T)
  <2>1. KeysOf(T) = KeysOf(S)
    <3>1. <<p[1], side>>[1] = p[1]
      OBVIOUS
    <3> QED BY <1>7, <3>1 DEF KeysOf
  <2>2. lost = {} /\ new = {}
    BY <2>1
  <2>3. moved = {} \/ moved = {p}
    <3>1. S \ T \subseteq {p}
      BY <1>7
    <3>2. moved \subseteq S \ T
      OBVIOUS
    <3> HIDE DEF moved
    <3> QED BY <3>1, <3>2
  <2> HIDE DEF lost, new, moved
  <2>4. /\ Cardinality(lost) = 0 /\ Cardinality(new) = 0
        /\ Cardinality(moved) = 0 \/ Cardinality(moved) = 1
    BY <1>2, <2>2, <2>3, Zenon
  <2> QED BY <1>3, <2>4
<1> QED BY <1>4, <1>5, <1>6, <1>7 DEF OneChange

-----------------------------------------------------------------------------
(* The handlers.  Those of the open manager change the draft in one place. *)
OneColumn == columns' = columns /\ Counted(ToSet(draft), ToSet(draft'))

LEMMA Changed ==
  ASSUME ColumnsInv, UNCHANGED columns, NEW T, Lists(draft', T), OneChange(ToSet(draft), T)
  PROVE  ColumnsInv' /\ OneColumn
<1> DEFINE S == ToSet(draft)
<1>1. Lists(draft, S) /\ Selection(S) /\ IsFiniteSet(S)
  BY ListType DEF ColumnsInv, DraftOK
<1>2. ToSet(draft') = T
  BY ListType
<1> HIDE DEF S
<1>3. OneChange(S, T)
  BY DEF S
<1>4. Selection(T) /\ Counted(S, T)
  BY <1>1, <1>3, ChangeOK, ChangeCounted
<1>5. DraftOK(draft')
  BY <1>4, ListsDraft
<1>6. ColumnsInv'
  BY <1>5 DEF ColumnsInv
<1>7. Counted(ToSet(draft), ToSet(draft'))
  BY <1>2, <1>4 DEF S
<1> QED BY <1>6, <1>7 DEF OneColumn

LEMMA SearchStep ==
  ASSUME ColumnsInv, UNCHANGED <<columns, draft>>
  PROVE  ColumnsInv' /\ OneColumn
<1>1. Lists(draft', ToSet(draft)) /\ OneChange(ToSet(draft), ToSet(draft))
  BY DEF ColumnsInv, DraftOK, OneChange
<1> QED BY <1>1, Changed

(* Ticking a box: what the search leaves is put together with what it      *)
(* hides, and differs in the one column.                                   *)
LEMMA ToggleStep ==
  ASSUME ColumnsInv, NEW key \in DOMAIN GroupOf, Toggle(key)
  PROVE  ColumnsInv' /\ OneColumn
<1> DEFINE S == ToSet(draft)
           group == GroupOf[key]
           boxes == {k \in search : GroupOf[k] = group}
           before == boxes \cap Values(draft)
           checked == IF key \in before THEN before \ {key} ELSE before \cup {key}
           D == ToSet(DefaultColumns)
           at == {i \in DOMAIN DefaultColumns : Selected(DefaultColumns[i].key, checked, group)}
           ticked == Picked(DefaultColumns, at)
           F == {d \in D : Selected(d.key, checked, group)}
           sided == [i \in DOMAIN ticked |-> <<ticked[i].key, Pin(ticked[i].key)>>]
           A == {<<d.key, Pin(d.key)>> : d \in F}
           away == Picked(draft, {i \in DOMAIN draft : draft[i][1] \notin search})
           B == {p \in S : p[1] \notin search}
<1>1. /\ Lists(draft, S) /\ S \subseteq Option /\ \A p, q \in S : p[1] = q[1] => p = q
      /\ Values(draft) = KeysOf(S)
  BY ListedValues DEF ColumnsInv, DraftOK, Selection
<1>2. /\ Lists(DefaultColumns, D)
      /\ \A c, d \in D : c.key = d.key => c = d
      /\ {d.key : d \in D} = DOMAIN GroupOf
  BY GivenOK DEF ColumnsOK, Complete
<1>3. /\ key \in search /\ UNCHANGED columns
      /\ draft' = OrderPinned(NewlySelected(checked, group))
  BY DEF Toggle
<1>4. NewlySelected(checked, group) = sided \o away
  BY DEF NewlySelected
<1>5. Lists(sided, A)
  <2> DEFINE f == [d \in F |-> <<d.key, Pin(d.key)>>]
  <2>1. Lists(ticked, F)
    <3>1. Lists(ticked, {DefaultColumns[i] : i \in at})
      <4>1. at \subseteq DOMAIN DefaultColumns
        OBVIOUS
      <4> HIDE DEF at
      <4> QED BY <1>2, <4>1, PickedLists
    <3>2. {DefaultColumns[i] : i \in at} = F
      BY DEF ToSet
    <3> QED BY <3>1, <3>2
  <2> HIDE DEF ticked, checked
  <2>2. DOMAIN ticked = 1 .. Len(ticked) /\ \A i \in 1 .. Len(ticked) : ticked[i] \in F
    BY <2>1, ListType
  <2>3. sided \in [DOMAIN ticked -> A] /\ \A i \in DOMAIN ticked : sided[i] = f[ticked[i]]
    BY <2>2
  <2>4. f \in [F -> A] /\ \A z \in A : \E d \in F : f[d] = z
    OBVIOUS
  <2>5. \A c, d \in F : f[c] = f[d] => c = d
    <3>1. \A c \in F : f[c][1] = c.key /\ c \in D
      OBVIOUS
    <3> HIDE DEF f, F
    <3> QED BY <1>2, <3>1
  <2> HIDE DEF f, sided, F, A
  <2> QED BY <2>1, <2>3, <2>4, <2>5, MappedLists
<1>6. Lists(away, B)
  <2> DEFINE I == {i \in DOMAIN draft : draft[i][1] \notin search}
  <2>1. Lists(away, {draft[i] : i \in I})
    BY <1>1, PickedLists
  <2>2. {draft[i] : i \in I} = B
    BY DEF ToSet
  <2> QED BY <2>1, <2>2
<1>7. \A k \in search : Selected(k, checked, group) <=> IF k = key THEN key \notin KeysOf(S) ELSE k \in KeysOf(S)
  <2>1. key \in before <=> key \in KeysOf(S)
    BY <1>1, <1>3
  <2>2. ASSUME NEW k \in search, GroupOf[k] = group, k # key
        PROVE  k \in checked <=> k \in KeysOf(S)
    BY <1>1, <2>2
  <2>3. key \in checked <=> key \notin KeysOf(S)
    BY <2>1
  <2> HIDE DEF checked, before
  <2> QED BY <1>1, <1>3, <2>2, <2>3 DEF Selected
<1>8. \A p \in S : Pin(p[1]) = p[2]
  <2> SUFFICES ASSUME NEW p \in S PROVE Pin(p[1]) = p[2]
    OBVIOUS
  <2>1. p[1] \in Values(draft)
    BY <1>1 DEF KeysOf
  <2>2. (CHOOSE o \in S : o[1] = p[1]) = p
    <3> HIDE DEF S
    <3> QED BY <1>1
  <2> QED BY <2>1, <2>2 DEF Pin
<1>9. \A k : k \notin KeysOf(S) => Pin(k) = "none"
  BY <1>1 DEF Pin
<1>10. \A q : q \in A <=> \E k \in DOMAIN GroupOf : Selected(k, checked, group) /\ q = <<k, Pin(k)>>
  <2> HIDE DEF checked
  <2>1. \A d \in D : d.key \in DOMAIN GroupOf
    BY <1>2
  <2>2. ASSUME NEW k \in DOMAIN GroupOf PROVE \E d \in D : d.key = k
    BY <1>2
  <2> HIDE DEF D
  <2> QED BY <2>1, <2>2
<1>11. \A k : Selected(k, checked, group) => k \in search
  BY DEF Selected
<1> HIDE DEF S, A, B, D, checked, sided, away
<1>12. A \cap B = {}
  <2>1. \A q \in A : q[1] \in search
    BY <1>10, <1>11
  <2> QED BY <2>1 DEF B
<1>13. Lists(sided \o away, A \cup B)
  BY <1>5, <1>6, <1>12, JoinedLists
<1>14. \A q \in S : q[1] # key => q \in A \cup B
  <2> SUFFICES ASSUME NEW q \in S, q[1] # key, q[1] \in search PROVE q \in A
    BY DEF B
  <2>1. Selected(q[1], checked, group)
    BY <1>7 DEF KeysOf
  <2>2. q[1] \in DOMAIN GroupOf /\ q = <<q[1], q[2]>>
    BY <1>1, OptionOf
  <2>3. q = <<q[1], Pin(q[1])>>
    BY <1>8, <2>2
  <2> QED BY <1>10, <2>1, <2>2, <2>3
<1>15. \A q \in A \cup B : (q \in S /\ q[1] # key) \/ (key \notin KeysOf(S) /\ q = <<key, "none">>)
  <2> SUFFICES ASSUME NEW q \in A \cup B
               PROVE  (q \in S /\ q[1] # key) \/ (key \notin KeysOf(S) /\ q = <<key, "none">>)
    OBVIOUS
  <2>1. CASE q \in B
    BY <1>3, <2>1 DEF B
  <2>2. CASE q \in A
    <3>1. PICK k \in DOMAIN GroupOf : Selected(k, checked, group) /\ q = <<k, Pin(k)>>
      BY <1>10, <2>2
    <3>2. CASE k = key
      BY <1>3, <1>7, <1>9, <3>1, <3>2
    <3>3. CASE k # key
      <4>1. PICK p \in S : p[1] = k
        BY <1>7, <1>11, <3>1, <3>3 DEF KeysOf
      <4>2. p = <<k, Pin(k)>>
        BY <1>1, <1>8, <4>1, OptionOf
      <4> QED BY <3>1, <3>3, <4>1, <4>2
    <3> QED BY <3>2, <3>3
  <2> QED BY <2>1, <2>2
<1>16. key \notin KeysOf(S) => <<key, "none">> \in A
  BY <1>3, <1>7, <1>9, <1>10
<1>17. OneChange(S, A \cup B)
  <2>1. CASE key \in KeysOf(S)
    <3>1. PICK p \in S : p[1] = key
      BY <2>1 DEF KeysOf
    <3>2. A \cup B = S \ {p}
      <4>1. \A q \in A \cup B : q \in S \ {p}
        BY <1>15, <2>1, <3>1
      <4>2. \A q \in S \ {p} : q \in A \cup B
        BY <1>1, <1>14, <3>1
      <4> QED BY <4>1, <4>2
    <3> QED BY <3>2 DEF OneChange
  <2>2. CASE key \notin KeysOf(S)
    <3>1. A \cup B = S \cup {<<key, "none">>}
      <4>1. \A q \in S : q[1] # key
        BY <2>2 DEF KeysOf
      <4> QED BY <1>14, <1>15, <1>16, <2>2, <4>1
    <3> QED BY <2>2, <3>1 DEF OneChange
  <2> QED BY <2>1, <2>2
<1>18. A \cup B \subseteq Option
  <2>1. <<key, "none">> \in Option
    BY OptionOf DEF Sides
  <2> QED BY <1>1, <1>15, <2>1
<1>19. Lists(draft', A \cup B)
  BY <1>3, <1>4, <1>13, <1>18, OrderedLists
<1> QED BY <1>3, <1>17, <1>19, Changed DEF S

LEMMA PinStep ==
  ASSUME ColumnsInv, NEW i \in DOMAIN draft, NEW side \in Sides, OnPinnedChange(i, side)
  PROVE  ColumnsInv' /\ OneColumn
<1> DEFINE S == ToSet(draft)
           p == draft[i]
           ordered == OrderPinned(draft)
           at == CHOOSE j \in DOMAIN ordered : ordered[j] = p
           e == <<p[1], side>>
           T == (S \ {p}) \cup {e}
<1>1. /\ Lists(draft, S) /\ S \subseteq Option /\ \A q, r \in S : q[1] = r[1] => q = r
      /\ p \in S
  BY ListType DEF ColumnsInv, DraftOK, Selection, ToSet
<1>2. /\ UNCHANGED columns /\ draft' = OrderPinned([ordered EXCEPT ![at] = e])
      /\ side = "none" \/ Len(PinnedTo(draft, side)) < 2
  BY DEF OnPinnedChange, CanPin
<1> HIDE DEF S
<1>3. Lists(ordered, S)
  BY <1>1, OrderedLists
<1> HIDE DEF ordered
<1>4. at \in DOMAIN ordered /\ ordered[at] = p
  <2>1. \E j \in DOMAIN ordered : ordered[j] = p
    BY <1>1, <1>3, ListType DEF Lists
  <2> QED BY <2>1
<1>5. e \notin S \ {p} /\ e \in Option
  BY <1>1, OptionOf
<1> HIDE DEF at, p, e
<1>6. Lists([ordered EXCEPT ![at] = e], T)
  BY <1>3, <1>4, <1>5, ExchangedLists
<1>7. T \subseteq Option
  BY <1>1, <1>5
<1> HIDE DEF T
<1>8. Lists(draft', T)
  BY <1>2, <1>6, <1>7, OrderedLists
<1>9. side = "none" \/ Cardinality(Pinned(S, side)) < 2
  <2>1. Lists(PinnedTo(draft, side), Pinned(S, side))
    BY <1>1, PinnedLists
  <2> QED BY <1>2, <2>1, ListType
<1>10. OneChange(S, T)
  BY <1>1, <1>9 DEF OneChange, T, e
<1> QED BY <1>2, <1>8, <1>10, Changed DEF S

(* One of the three lists is put in the place of what it was.              *)
LEMMA WithLists ==
  ASSUME NEW S, Lists(draft, S), S \subseteq Option, NEW side \in Sides,
         NEW list, NEW L, Lists(list, L), L \subseteq Pinned(Option, side)
  PROVE  Lists(With(side, list), (S \ Pinned(S, side)) \cup L)
<1> DEFINE l == Pinned(S, "left")
           m == Pinned(S, "none")
           r == Pinned(S, "right")
<1>1. \A other : Lists(PinnedTo(draft, other), Pinned(S, other))
  BY PinnedLists
<1>2. \A other : Pinned(S, other) \subseteq Pinned(Option, other)
  BY DEF Pinned
<1>3. /\ side = "left" => (S \ Pinned(S, side)) \cup L = (L \cup m) \cup r
      /\ side = "none" => (S \ Pinned(S, side)) \cup L = (l \cup L) \cup r
      /\ side = "right" => (S \ Pinned(S, side)) \cup L = (l \cup m) \cup L
  <2>1. \A p \in S : p[2] = "left" \/ p[2] = "none" \/ p[2] = "right"
    BY OptionOf DEF Sides
  <2> QED BY <2>1 DEF Pinned
<1> HIDE DEF l, m, r
<1>4. CASE side = "left"
  <2>1. Lists(list \o PinnedTo(draft, "none") \o PinnedTo(draft, "right"), (L \cup m) \cup r)
    BY <1>1, <1>2, <1>4, ThreeLists DEF m, r
  <2> QED BY <1>3, <1>4, <2>1 DEF With
<1>5. CASE side = "none"
  <2>1. Lists(PinnedTo(draft, "left") \o list \o PinnedTo(draft, "right"), (l \cup L) \cup r)
    BY <1>1, <1>2, <1>5, ThreeLists DEF l, r
  <2> QED BY <1>3, <1>5, <2>1 DEF With
<1>6. CASE side = "right"
  <2>1. Lists(PinnedTo(draft, "left") \o PinnedTo(draft, "none") \o list, (l \cup m) \cup L)
    BY <1>1, <1>2, <1>6, ThreeLists DEF l, m
  <2> QED BY <1>3, <1>6, <2>1 DEF With
<1> QED BY <1>4, <1>5, <1>6 DEF Sides

LEMMA RemoveStep ==
  ASSUME ColumnsInv, NEW side \in Sides, NEW i, OnItemRemove(side, i)
  PROVE  ColumnsInv' /\ OneColumn
<1> DEFINE S == ToSet(draft)
           list == PinnedTo(draft, side)
           x == list[i]
<1>1. Lists(draft, S) /\ S \subseteq Option
  BY DEF ColumnsInv, DraftOK, Selection
<1>2. /\ i \in DOMAIN list /\ UNCHANGED columns
      /\ draft' = With(side, RemoveAt(list, i))
  BY DEF OnItemRemove
<1> HIDE DEF S
<1>3. Lists(list, Pinned(S, side))
  BY <1>1, PinnedLists
<1> HIDE DEF list
<1>4. Lists(RemoveAt(list, i), Pinned(S, side) \ {x})
  BY <1>2, <1>3, RemovedLists
<1>5. Pinned(S, side) \ {x} \subseteq Pinned(Option, side) /\ x \in Pinned(S, side)
  BY <1>1, <1>2, <1>3, ListType DEF Pinned
<1> HIDE DEF x
<1>6. Lists(draft', (S \ Pinned(S, side)) \cup (Pinned(S, side) \ {x}))
  BY <1>1, <1>2, <1>4, <1>5, WithLists
<1>7. (S \ Pinned(S, side)) \cup (Pinned(S, side) \ {x}) = S \ {x} /\ x \in S
  BY <1>5 DEF Pinned
<1>8. OneChange(S, S \ {x})
  BY <1>7 DEF OneChange
<1> QED BY <1>2, <1>6, <1>7, <1>8, Changed DEF S

LEMMA DragStep ==
  ASSUME ColumnsInv, NEW side \in Sides, NEW from, NEW to, Drag(side, from, to)
  PROVE  ColumnsInv' /\ OneColumn
<1> DEFINE S == ToSet(draft)
           list == PinnedTo(draft, side)
           P == Pinned(S, side)
           x == list[from]
           rest == RemoveAt(list, from)
<1>1. Lists(draft, S) /\ S \subseteq Option
  BY DEF ColumnsInv, DraftOK, Selection
<1>2. /\ from \in DOMAIN list /\ to \in DOMAIN list /\ UNCHANGED columns
      /\ draft' = With(side, InsertAt(rest, to, x))
  BY DEF Drag
<1> HIDE DEF S
<1>3. Lists(list, P)
  BY <1>1, PinnedLists
<1> HIDE DEF list, P
<1>4. Lists(rest, P \ {x}) /\ x \in P
  BY <1>2, <1>3, RemovedLists, ListType
<1>5. to \in 1 .. Len(rest) + 1
  <2>1. Cardinality(P \ {x}) = Cardinality(P) - 1 /\ IsFiniteSet(P)
    BY <1>3, <1>4, ListType, FS_RemoveElement
  <2>2. Cardinality(P) = Len(list) /\ Len(list) \in Nat /\ DOMAIN list = 1 .. Len(list)
    BY <1>3, ListType
  <2>3. Cardinality(P \ {x}) = Len(rest)
    BY <1>4, ListType
  <2> QED BY <1>2, <2>1, <2>2, <2>3
<1> HIDE DEF rest, x
<1>6. Lists(InsertAt(rest, to, x), (P \ {x}) \cup {x})
  BY <1>4, <1>5, InsertedLists
<1>7. (P \ {x}) \cup {x} = P /\ P \subseteq Pinned(Option, side) /\ (S \ P) \cup P = S
  BY <1>1, <1>4 DEF P, Pinned
<1>8. Lists(draft', (S \ P) \cup P)
  BY <1>1, <1>2, <1>6, <1>7, WithLists DEF P
<1>9. OneChange(S, S)
  BY DEF OneChange
<1> QED BY <1>2, <1>7, <1>8, <1>9, Changed DEF S

-----------------------------------------------------------------------------
LEMMA SetStep ==
  ASSUME NEW list, ColumnsOK(list), SetColumns(list)
  PROVE  ColumnsInv'
<1>1. DraftOK(VisibleOptions(list))
  BY VisibleOK
<1> QED BY <1>1 DEF SetColumns, ColumnsInv

LEMMA ColumnsStep ==
  ASSUME ColumnsInv, [ColumnsNext]_columnsVars
  PROVE  ColumnsInv' /\ (showModal /\ showModal' => OneColumn)
<1>1. CASE OpenModal
  BY <1>1, SearchStep DEF OpenModal
<1>2. CASE SaveChanges
  BY <1>2, ManagedOK, SetStep DEF SaveChanges, CloseModal
<1>3. CASE ResetToDefault
  BY <1>3, GivenOK, SetStep DEF ResetToDefault, CloseModal
<1>4. CASE CancelChanges
  <2>1. DraftOK(VisibleOptions(columns))
    BY VisibleOK DEF ColumnsInv
  <2> QED BY <1>4, <2>1 DEF CancelChanges, CloseModal, ColumnsInv
<1>5. ASSUME NEW text \in DOMAIN Searches, SearchFor(text)
      PROVE  ColumnsInv' /\ OneColumn
  BY <1>5, SearchStep DEF SearchFor
<1>6. ASSUME NEW key \in DOMAIN GroupOf, Toggle(key) PROVE ColumnsInv' /\ OneColumn
  BY <1>6, ToggleStep
<1>7. ASSUME NEW i \in DOMAIN draft, NEW side \in Sides, OnPinnedChange(i, side)
      PROVE  ColumnsInv' /\ OneColumn
  BY <1>7, PinStep
<1>8. ASSUME NEW side \in Sides, NEW i \in DOMAIN draft, OnItemRemove(side, i)
      PROVE  ColumnsInv' /\ OneColumn
  BY <1>8, RemoveStep
<1>9. ASSUME NEW side \in Sides, NEW i \in DOMAIN draft, NEW j \in DOMAIN draft, Drag(side, i, j)
      PROVE  ColumnsInv' /\ OneColumn
  BY <1>9, DragStep
<1>10. ASSUME NEW list \in ViewColumns \cup {DefaultColumns}, ChooseView(list)
       PROVE  ColumnsInv' /\ ~ showModal
  BY <1>10, GivenOK, SetStep DEF ChooseView
<1>11. CASE UNCHANGED columnsVars
  BY <1>11, SearchStep DEF columnsVars
<1> QED BY <1>1, <1>2, <1>3, <1>4, <1>5, <1>6, <1>7, <1>8, <1>9, <1>10, <1>11 DEF ColumnsNext

LEMMA AlwaysColumnsInv == ColumnsSpec => []ColumnsInv
<1>1. ColumnsInit => ColumnsInv
  BY GivenOK, VisibleOK DEF ColumnsInit, ColumnsInv
<1>2. ColumnsInv /\ [ColumnsNext]_columnsVars => ColumnsInv'
  BY ColumnsStep
<1> QED BY <1>1, <1>2, PTL DEF ColumnsSpec

(* The grid keeps every column, once, two at most pinned to a side, and    *)
(* nothing is drafted twice, whatever is searched, ticked, pinned, dragged,*)
(* removed, saved, dropped, reset or brought by a view.                    *)
THEOREM ColumnsKept == ColumnsSpec => []ColumnsAreKept
<1>1. ColumnsInv => ColumnsAreKept
  <2> SUFFICES ASSUME ColumnsInv PROVE ColumnsAreKept
    OBVIOUS
  <2> DEFINE C == ToSet(columns)
             S == ToSet(draft)
  <2>1. Lists(columns, C) /\ Complete(C) /\ Lists(draft, S) /\ Selection(S)
    BY DEF ColumnsInv, ColumnsOK, DraftOK
  <2>2. /\ Keys(columns) = DOMAIN GroupOf /\ Len(columns) = Cardinality(DOMAIN GroupOf)
    <3> DEFINE f == [c \in C |-> c.key]
    <3>1. Keys(columns) = {c.key : c \in C}
      BY DEF Keys, ToSet
    <3>2. {c.key : c \in C} = DOMAIN GroupOf /\ \A c, d \in C : c.key = d.key => c = d
      BY <2>1 DEF Complete
    <3>3. DOMAIN f = C /\ \A c \in C : f[c] = c.key
      OBVIOUS
    <3>4. f \in [C -> DOMAIN GroupOf]
      BY <3>2
    <3> HIDE DEF f, C
    <3>5. f \in Surjection(C, DOMAIN GroupOf)
      BY <3>2, <3>3, <3>4 DEF Surjection
    <3>6. f \in Injection(C, DOMAIN GroupOf)
      BY <3>2, <3>3, <3>4 DEF Injection, IsInjective
    <3>7. IsFiniteSet(C) /\ Cardinality(C) = Len(columns)
      BY <2>1, ListType
    <3> QED BY <3>1, <3>2, <3>5, <3>6, <3>7, FS_Surjection
  <2>3. Values(draft) \subseteq DOMAIN GroupOf /\ Len(draft) = Cardinality(Values(draft))
    <3> DEFINE f == [p \in S |-> p[1]]
    <3>1. Values(draft) = KeysOf(S)
      BY <2>1, ListedValues
    <3>2. \A p, q \in S : p[1] = q[1] => p = q
      BY <2>1 DEF Selection
    <3>3. KeysOf(S) \subseteq DOMAIN GroupOf
      BY <2>1, OptionOf DEF Selection, KeysOf
    <3>4. DOMAIN f = S /\ \A p \in S : f[p] = p[1] /\ p[1] \in KeysOf(S)
      BY DEF KeysOf
    <3>5. f \in [S -> KeysOf(S)]
      BY <3>4
    <3> HIDE DEF f, S
    <3>6. f \in Surjection(S, KeysOf(S))
      <4>1. \A k \in KeysOf(S) : \E p \in S : f[p] = k
        BY <3>4 DEF KeysOf
      <4> QED BY <3>5, <4>1 DEF Surjection
    <3>7. f \in Injection(S, KeysOf(S))
      BY <3>2, <3>4, <3>5 DEF Injection, IsInjective
    <3>8. IsFiniteSet(S) /\ Cardinality(S) = Len(draft)
      BY <2>1, ListType
    <3>9. Cardinality(KeysOf(S)) = Cardinality(S)
      BY <3>6, <3>7, <3>8, FS_Surjection
    <3> QED BY <3>1, <3>3, <3>8, <3>9
  <2>4. ASSUME NEW side \in {"left", "right"} PROVE Len(PinnedTo(draft, side)) <= 2
    <3>1. Lists(PinnedTo(draft, side), Pinned(S, side))
      BY <2>1, PinnedLists
    <3> QED BY <2>1, <3>1, ListType DEF Selection
  <2>5. ASSUME NEW side \in {"left", "right"}
        PROVE  Cardinality({i \in DOMAIN columns : columns[i].fixed = side}) <= 2
    <3> DEFINE I == {i \in DOMAIN columns : columns[i].fixed = side}
               f == [i \in I |-> columns[i]]
    <3>1. DOMAIN columns = 1 .. Len(columns) /\ \A i \in 1 .. Len(columns) : columns[i] \in C
      BY <2>1, ListType
    <3>2. \A i \in I : i \in 1 .. Len(columns) /\ columns[i] \in Fixed(C, side)
      BY <3>1 DEF Fixed
    <3>3. DOMAIN f = I /\ \A i \in I : f[i] = columns[i]
      OBVIOUS
    <3>4. f \in [I -> Fixed(C, side)]
      BY <3>2
    <3> HIDE DEF f, I, C
    <3>5. f \in Injection(I, Fixed(C, side))
      BY <2>1, <3>2, <3>3, <3>4, ZenonT(30) DEF Injection, IsInjective, Lists
    <3>6. /\ IsFiniteSet(Fixed(C, side)) /\ Cardinality(Fixed(C, side)) <= 2
          /\ Cardinality(Fixed(C, side)) \in Nat
      BY <2>1, ListType, FS_Subset, FS_CardinalityType DEF Complete, Fixed
    <3>7. Cardinality(I) <= Cardinality(Fixed(C, side)) /\ Cardinality(I) \in Nat
      BY <3>5, <3>6, FS_Injection, FS_CardinalityType
    <3>8. Cardinality(I) <= 2
      BY <3>6, <3>7
    <3> QED BY <3>8 DEF I
  <2> QED BY <2>2, <2>3, <2>4, <2>5 DEF ColumnsAreKept
<1> QED BY <1>1, AlwaysColumnsInv, PTL

(* While the manager is open the grid waits, and a click, drag or search   *)
(* adds, removes or pins one column at most.                               *)
THEOREM ColumnsOneAtATime == ColumnsSpec => OneColumnAtATime
<1> DEFINE A == showModal /\ showModal' =>
                  /\ columns' = columns
                  /\ LET kept == Values(draft) \cap Values(draft')
                         pins(o) == {p \in ToSet(o) : p[1] \in kept}
                     IN  Cardinality(Values(draft) \ kept) + Cardinality(Values(draft') \ kept)
                           + Cardinality(pins(draft) \ pins(draft')) <= 1
<1>1. ColumnsInv /\ [ColumnsNext]_columnsVars => [A]_columnsVars
  <2> SUFFICES ASSUME ColumnsInv, [ColumnsNext]_columnsVars, showModal, showModal'
               PROVE  A
    OBVIOUS
  <2>1. ColumnsInv' /\ OneColumn
    BY ColumnsStep
  <2>2. Values(draft) = KeysOf(ToSet(draft)) /\ Values(draft') = KeysOf(ToSet(draft'))
    BY <2>1, ListedValues DEF ColumnsInv, DraftOK
  <2> QED BY <2>1, <2>2 DEF OneColumn, Counted
<1> QED BY <1>1, AlwaysColumnsInv, PTL DEF ColumnsSpec, OneColumnAtATime

-----------------------------------------------------------------------------
(* What the data providers ask and what the grid shows.                    *)

QueriesSpec == QueriesInit /\ [][QueriesNext]_queryVars

-----------------------------------------------------------------------------
(* What the services make of a filter is what it means.                    *)
LEMMA SatisfiesIs ==
  ASSUME NEW field, NEW values, NEW row
  PROVE  /\ Satisfies(row, Condition("oneOf", field, values)) <=> row[field] \in values
         /\ Satisfies(row, Condition("noneOf", field, values)) <=> row[field] \notin values
         /\ Meets(row, Condition("oneOf", field, values)) <=> row[field] \in values
         /\ Meets(row, Condition("noneOf", field, values)) <=> row[field] \notin values
BY DEF Satisfies, Meets, Condition

LEMMA NestjsMeans ==
  ASSUME NEW f, NEW row, f.op \in Operators
  PROVE  /\ Satisfies(row, NestjsOperator(f)) <=> Means(f, row)
         /\ Meets(row, NestjsOperator(f)) <=> Means(f, row)
<1>1. CASE f.op = "eq"
  BY <1>1, SatisfiesIs DEF NestjsOperator, Means
<1>2. CASE f.op = "ne"
  BY <1>2, SatisfiesIs DEF NestjsOperator, Means
<1>3. CASE f.op = "in"
  BY <1>3, SatisfiesIs DEF NestjsOperator, Means
<1>4. CASE f.op = "nin"
  BY <1>4, SatisfiesIs DEF NestjsOperator, Means
<1>5. CASE f.op = "null"
  BY <1>5, SatisfiesIs DEF NestjsOperator, Means
<1>6. CASE f.op = "nnull"
  BY <1>6, SatisfiesIs DEF NestjsOperator, Means
<1> QED BY <1>1, <1>2, <1>3, <1>4, <1>5, <1>6 DEF Operators

LEMMA CubeMeans ==
  ASSUME NEW f, NEW row, f.op \in Operators, f.op \notin {"nin", "null", "nnull"}
  PROVE  /\ Satisfies(row, CubeOperator(f)) <=> Means(f, row)
         /\ Meets(row, CubeOperator(f)) <=> Means(f, row)
<1>1. CASE f.op = "eq"
  BY <1>1, SatisfiesIs DEF CubeOperator, Means
<1>2. CASE f.op = "ne"
  BY <1>2, SatisfiesIs DEF CubeOperator, Means
<1>3. CASE f.op = "in"
  BY <1>3, SatisfiesIs DEF CubeOperator, Means
<1> QED BY <1>1, <1>2, <1>3 DEF Operators

(* A group, of members that all have values.                               *)
LEMMA GroupMeets ==
  ASSUME NEW op \in {"and", "or"}, NEW members, NEW row
  PROVE  Meets(row, Condition(op, <<>>, members)) <=>
           IF op = "or" THEN \E q \in members : \A d \in q : Satisfies(row, d)
           ELSE \A q \in members : \A d \in q : Satisfies(row, d)
BY DEF Meets, Condition

NestjsSent(f) ==
  IF IsGroup(f)
  THEN Condition(f.op, <<>>, {IF HasValue(g) THEN {NestjsOperator(g)} ELSE {} : g \in ListOf(f)})
  ELSE NestjsOperator(f)
CubeSent(f) ==
  IF IsGroup(f)
  THEN Condition(f.op, <<>>, {{CubeOperator(g)} : g \in {h \in ListOf(f) : HasValue(h)}})
  ELSE CubeOperator(f)
IsFilter(f) ==
  \/ f.op \in Operators
  \/ f.op \in {"and", "or"} /\ f.field \notin TimeFields /\ \A g \in ListOf(f) : g.op \in Operators

LEMMA NestjsSelects ==
  ASSUME NEW f, NEW row, IsFilter(f), IsGroup(f) => \A g \in ListOf(f) : HasValue(g)
  PROVE  Meets(row, NestjsSent(f)) <=> Selects(f, row)
<1>1. CASE f.op \in Operators
  <2>1. ~ IsGroup(f) /\ f.op # "or" /\ f.op # "and"
    BY <1>1 DEF IsGroup, Groups, Operators
  <2>2. Selects(f, row) <=> Means(f, row)
    BY <2>1 DEF Selects
  <2> QED BY <1>1, <2>1, <2>2, NestjsMeans DEF NestjsSent
<1>2. CASE f.op \in {"and", "or"} /\ \A g \in ListOf(f) : g.op \in Operators
  <2> DEFINE M == {IF HasValue(g) THEN {NestjsOperator(g)} ELSE {} : g \in ListOf(f)}
  <2>1. IsGroup(f)
    BY <1>2 DEF IsGroup, Groups
  <2>2. \A q : q \in M <=> \E g \in ListOf(f) : q = {NestjsOperator(g)}
    BY <2>1
  <2>3. \A g \in ListOf(f) : Satisfies(row, NestjsOperator(g)) <=> Means(g, row)
    BY <1>2, NestjsMeans
  <2>4. NestjsSent(f) = Condition(f.op, <<>>, M)
    BY <2>1 DEF NestjsSent
  <2> HIDE DEF M
  <2>5. /\ (\E q \in M : \A d \in q : Satisfies(row, d)) <=> \E g \in ListOf(f) : Means(g, row)
        /\ (\A q \in M : \A d \in q : Satisfies(row, d)) <=> \A g \in ListOf(f) : Means(g, row)
    <3>1. \A g \in ListOf(f) : {NestjsOperator(g)} \in M
      BY <2>2
    <3>2. \A q \in M : \E g \in ListOf(f) :
            q = {NestjsOperator(g)} /\ ((\A d \in q : Satisfies(row, d)) <=> Means(g, row))
      <4> SUFFICES ASSUME NEW q \in M
                   PROVE \E g \in ListOf(f) :
                           q = {NestjsOperator(g)} /\ ((\A d \in q : Satisfies(row, d)) <=> Means(g, row))
        OBVIOUS
      <4>1. PICK g \in ListOf(f) : q = {NestjsOperator(g)}
        BY <2>2
      <4> QED BY <2>3, <4>1
    <3>3. \A g \in ListOf(f) : (\A d \in {NestjsOperator(g)} : Satisfies(row, d)) <=> Means(g, row)
      BY <2>3
    <3>4. (\E q \in M : \A d \in q : Satisfies(row, d)) <=> \E g \in ListOf(f) : Means(g, row)
      <4>1. ASSUME NEW q \in M, \A d \in q : Satisfies(row, d) PROVE \E g \in ListOf(f) : Means(g, row)
        BY <3>2, <4>1
      <4>2. ASSUME NEW g \in ListOf(f), Means(g, row) PROVE \E q \in M : \A d \in q : Satisfies(row, d)
        <5> DEFINE q == {NestjsOperator(g)}
        <5>1. q \in M /\ \A d \in q : Satisfies(row, d)
          BY <3>1, <3>3, <4>2
        <5> HIDE DEF q
        <5> QED BY <5>1
      <4> QED BY <4>1, <4>2
    <3>5. (\A q \in M : \A d \in q : Satisfies(row, d)) <=> \A g \in ListOf(f) : Means(g, row)
      BY <3>1, <3>2, <3>3
    <3> QED BY <3>4, <3>5
  <2>6. Selects(f, row) <=> IF f.op = "or" THEN \E g \in ListOf(f) : Means(g, row)
                            ELSE \A g \in ListOf(f) : Means(g, row)
    BY <1>2 DEF Selects
  <2>7. Meets(row, NestjsSent(f)) <=>
          IF f.op = "or" THEN \E q \in M : \A d \in q : Satisfies(row, d)
          ELSE \A q \in M : \A d \in q : Satisfies(row, d)
    BY <1>2, <2>4, GroupMeets
  <2> QED BY <2>5, <2>6, <2>7
<1> QED BY <1>1, <1>2 DEF IsFilter

LEMMA CubeSelects ==
  ASSUME NEW f, NEW row, IsFilter(f), IsGroup(f) => \A g \in ListOf(f) : HasValue(g),
         \A h \in {f} \cup IF IsGroup(f) THEN ListOf(f) ELSE {} : h.op \notin {"nin", "null", "nnull"}
  PROVE  Meets(row, CubeSent(f)) <=> Selects(f, row)
<1>1. CASE f.op \in Operators
  <2>1. ~ IsGroup(f) /\ f.op # "or" /\ f.op # "and"
    BY <1>1 DEF IsGroup, Groups, Operators
  <2>2. Selects(f, row) <=> Means(f, row)
    BY <2>1 DEF Selects
  <2>3. f.op \notin {"nin", "null", "nnull"}
    OBVIOUS
  <2> QED BY <1>1, <2>1, <2>2, <2>3, CubeMeans DEF CubeSent
<1>2. CASE f.op \in {"and", "or"} /\ \A g \in ListOf(f) : g.op \in Operators
  <2> DEFINE M == {{CubeOperator(g)} : g \in {h \in ListOf(f) : HasValue(h)}}
  <2>1. IsGroup(f)
    BY <1>2 DEF IsGroup, Groups
  <2>2. \A q : q \in M <=> \E g \in ListOf(f) : q = {CubeOperator(g)}
    BY <2>1
  <2>3. \A g \in ListOf(f) : Satisfies(row, CubeOperator(g)) <=> Means(g, row)
    <3>1. \A g \in ListOf(f) : g.op \in Operators /\ g.op \notin {"nin", "null", "nnull"}
      BY <1>2, <2>1
    <3> QED BY <3>1, CubeMeans
  <2>4. CubeSent(f) = Condition(f.op, <<>>, M)
    BY <2>1 DEF CubeSent
  <2> HIDE DEF M
  <2>5. /\ (\E q \in M : \A d \in q : Satisfies(row, d)) <=> \E g \in ListOf(f) : Means(g, row)
        /\ (\A q \in M : \A d \in q : Satisfies(row, d)) <=> \A g \in ListOf(f) : Means(g, row)
    <3>1. \A g \in ListOf(f) : {CubeOperator(g)} \in M
      BY <2>2
    <3>2. \A q \in M : \E g \in ListOf(f) :
            q = {CubeOperator(g)} /\ ((\A d \in q : Satisfies(row, d)) <=> Means(g, row))
      <4> SUFFICES ASSUME NEW q \in M
                   PROVE \E g \in ListOf(f) :
                           q = {CubeOperator(g)} /\ ((\A d \in q : Satisfies(row, d)) <=> Means(g, row))
        OBVIOUS
      <4>1. PICK g \in ListOf(f) : q = {CubeOperator(g)}
        BY <2>2
      <4> QED BY <2>3, <4>1
    <3>3. \A g \in ListOf(f) : (\A d \in {CubeOperator(g)} : Satisfies(row, d)) <=> Means(g, row)
      BY <2>3
    <3>4. (\E q \in M : \A d \in q : Satisfies(row, d)) <=> \E g \in ListOf(f) : Means(g, row)
      <4>1. ASSUME NEW q \in M, \A d \in q : Satisfies(row, d) PROVE \E g \in ListOf(f) : Means(g, row)
        BY <3>2, <4>1
      <4>2. ASSUME NEW g \in ListOf(f), Means(g, row) PROVE \E q \in M : \A d \in q : Satisfies(row, d)
        <5> DEFINE q == {CubeOperator(g)}
        <5>1. q \in M /\ \A d \in q : Satisfies(row, d)
          BY <3>1, <3>3, <4>2
        <5> HIDE DEF q
        <5> QED BY <5>1
      <4> QED BY <4>1, <4>2
    <3>5. (\A q \in M : \A d \in q : Satisfies(row, d)) <=> \A g \in ListOf(f) : Means(g, row)
      BY <3>1, <3>2, <3>3
    <3> QED BY <3>4, <3>5
  <2>6. Selects(f, row) <=> IF f.op = "or" THEN \E g \in ListOf(f) : Means(g, row)
                            ELSE \A g \in ListOf(f) : Means(g, row)
    BY <1>2 DEF Selects
  <2>7. Meets(row, CubeSent(f)) <=>
          IF f.op = "or" THEN \E q \in M : \A d \in q : Satisfies(row, d)
          ELSE \A q \in M : \A d \in q : Satisfies(row, d)
    BY <1>2, <2>4, GroupMeets
  <2> QED BY <2>5, <2>6, <2>7
<1> QED BY <1>1, <1>2 DEF IsFilter

-----------------------------------------------------------------------------
(* The query asks for the rows that meet every filter with a value.        *)
Query(q) == IF provider = "nestjs" THEN NestjsFilters(q.filters) ELSE CubeFilters(q.filters)

LEMMA QuestionIs ==
  ASSUME NEW q \in Questions
  PROVE  /\ q.page \in Nat \ {0}
         /\ DOMAIN q.filters \subseteq Nat
         /\ \A i \in DOMAIN q.filters : IsFilter(q.filters[i])
<1> DEFINE fs == q.filters
<1>1. /\ q.page \in Nat \ {0} /\ fs \in Seq(ToSet(fs))
      /\ \A f \in ToSet(fs) : IsFilter(f)
  BY QuestionsAssumption DEF IsFilter, ListOf
<1>2. \A i \in DOMAIN fs : fs[i] \in ToSet(fs)
  BY DEF ToSet
<1> HIDE DEF fs
<1>3. DOMAIN fs \subseteq Nat
  BY <1>1
<1> QED BY <1>1, <1>2, <1>3 DEF fs

LEMMA NestjsQuery ==
  ASSUME NEW q \in Questions, provider = "nestjs", Expressible(q), NEW row
  PROVE  (\A c \in NestjsFilters(q.filters) : Meets(row, c)) <=>
           \A i \in DOMAIN q.filters : HasValue(q.filters[i]) => Selects(q.filters[i], row)
<1> DEFINE fs == q.filters
           sent == {i \in DOMAIN fs : HasValue(fs[i])}
           kept == {i \in sent : \A j \in sent : i < j => ~ IsPrefix(PathOf(fs[j]), PathOf(fs[i]))}
<1>1. NestjsFilters(fs) = {NestjsSent(fs[i]) : i \in kept}
  BY DEF NestjsFilters, NestjsSent
<1>2. kept = sent
  <2>1. ASSUME NEW i \in sent, NEW j \in sent, i < j
        PROVE  ~ IsPrefix(PathOf(fs[j]), PathOf(fs[i]))
    <3>1. i # j
      BY <2>1, QuestionIs
    <3> QED BY <3>1 DEF Expressible
  <2> QED BY <2>1
<1>3. \A i \in DOMAIN fs : Meets(row, NestjsSent(fs[i])) <=> Selects(fs[i], row)
  <2> SUFFICES ASSUME NEW i \in DOMAIN fs
               PROVE Meets(row, NestjsSent(fs[i])) <=> Selects(fs[i], row)
    OBVIOUS
  <2>1. IsFilter(fs[i])
    BY QuestionIs
  <2>2. IsGroup(fs[i]) => \A g \in ListOf(fs[i]) : HasValue(g)
    BY DEF Expressible
  <2> HIDE DEF fs
  <2> QED BY <2>1, <2>2, NestjsSelects
<1> HIDE DEF kept, fs
<1>4. \A c : c \in NestjsFilters(fs) <=> \E i \in DOMAIN fs : HasValue(fs[i]) /\ c = NestjsSent(fs[i])
  BY <1>1, <1>2
<1>5. (\A c \in NestjsFilters(fs) : Meets(row, c)) <=>
        \A i \in DOMAIN fs : HasValue(fs[i]) => Selects(fs[i], row)
  BY <1>3, <1>4
<1> QED BY <1>5 DEF fs

LEMMA CubeQuery ==
  ASSUME NEW q \in Questions, provider # "nestjs", Expressible(q), NEW row
  PROVE  (\A c \in CubeFilters(q.filters) : Meets(row, c)) <=>
           \A i \in DOMAIN q.filters : HasValue(q.filters[i]) => Selects(q.filters[i], row)
<1> DEFINE fs == q.filters
           sent == {f \in ToSet(fs) : f.field \notin TimeFields /\ HasValue(f)}
           times == {i \in DOMAIN fs : /\ fs[i].field \in TimeFields
                                       /\ \A j \in 1 .. i - 1 : fs[j].field # fs[i].field}
           A == {CubeSent(f) : f \in sent}
           B == {CubeOperator(fs[i]) : i \in {j \in times : HasValue(fs[j])}}
<1>1. CubeFilters(fs) = A \cup B
  BY DEF CubeFilters, CubeSent
<1>2. \A i \in DOMAIN fs : IsFilter(fs[i]) /\ i \in Nat /\ 1 .. i - 1 \subseteq DOMAIN fs
  <2>1. fs \in Seq(ToSet(fs)) /\ \A i \in DOMAIN fs : IsFilter(fs[i])
    BY QuestionIs, QuestionsAssumption
  <2> HIDE DEF fs
  <2> QED BY <2>1
<1>3. \A i \in DOMAIN fs : fs[i].field \in TimeFields => i \in times
  <2> SUFFICES ASSUME NEW i \in DOMAIN fs, fs[i].field \in TimeFields,
                      NEW j \in 1 .. i - 1, fs[j].field = fs[i].field
               PROVE FALSE
    OBVIOUS
  <2>1. j \in DOMAIN fs /\ j # i
    BY <1>2
  <2> QED BY <2>1 DEF Expressible
<1>4. ASSUME NEW i \in DOMAIN fs
      PROVE  /\ Meets(row, CubeSent(fs[i])) <=> Selects(fs[i], row)
             /\ fs[i].field \in TimeFields => CubeSent(fs[i]) = CubeOperator(fs[i])
  <2>1. IsFilter(fs[i])
    BY <1>2
  <2>2. /\ IsGroup(fs[i]) => \A g \in ListOf(fs[i]) : HasValue(g)
        /\ \A h \in {fs[i]} \cup IF IsGroup(fs[i]) THEN ListOf(fs[i]) ELSE {} :
             h.op \notin {"nin", "null", "nnull"}
    BY DEF Expressible
  <2> HIDE DEF fs
  <2>3. Meets(row, CubeSent(fs[i])) <=> Selects(fs[i], row)
    BY <2>1, <2>2, CubeSelects
  <2>4. fs[i].field \in TimeFields => CubeSent(fs[i]) = CubeOperator(fs[i])
    BY <2>1 DEF IsFilter, IsGroup, Groups, Operators, CubeSent
  <2> QED BY <2>3, <2>4
<1>5. \A c : c \in CubeFilters(fs) <=> \E i \in DOMAIN fs : HasValue(fs[i]) /\ c = CubeSent(fs[i])
  <2>1. \A c : c \in A <=> \E i \in DOMAIN fs :
                 fs[i].field \notin TimeFields /\ HasValue(fs[i]) /\ c = CubeSent(fs[i])
    BY DEF ToSet
  <2>2. \A c : c \in B <=> \E i \in DOMAIN fs :
                 fs[i].field \in TimeFields /\ HasValue(fs[i]) /\ c = CubeSent(fs[i])
    <3>1. \A c : c \in B <=> \E i \in times : HasValue(fs[i]) /\ c = CubeOperator(fs[i])
      OBVIOUS
    <3>2. \A i : i \in times <=> i \in DOMAIN fs /\ fs[i].field \in TimeFields
      BY <1>3
    <3> HIDE DEF B, times, fs
    <3> QED BY <1>4, <3>1, <3>2
  <2> HIDE DEF A, B, fs
  <2> QED BY <1>1, <2>1, <2>2
<1> HIDE DEF fs
<1>6. (\A c \in CubeFilters(fs) : Meets(row, c)) <=>
        \A i \in DOMAIN fs : HasValue(fs[i]) => Selects(fs[i], row)
  BY <1>4, <1>5
<1> QED BY <1>6 DEF fs

-----------------------------------------------------------------------------
(* The page is the asked one for both providers.                           *)
LEMMA SkippedIs ==
  ASSUME NEW page \in Nat \ {0}
  PROVE  PageSize * (page - 1) \in Nat /\ Skipped(page) = PageSize * (page - 1)
<1>1. PageSize \in Nat /\ page - 1 \in Nat
  BY QuestionsAssumption
<1> DEFINE p == PageSize * (page - 1)
<1>2. p \in Nat
  <2>1. \A a, b \in Nat : a * b \in Nat
    OBVIOUS
  <2> QED BY <1>1, <2>1
<1>3. page = 1 => p = 0
  <2>1. \A a \in Nat : a * 0 = 0
    OBVIOUS
  <2>2. page = 1 => page - 1 = 0
    OBVIOUS
  <2> QED BY <1>1, <2>1, <2>2
<1>4. Skipped(page) = IF provider = "nestjs" THEN (IF page = 1 THEN 0 ELSE p - 1 + 1) ELSE p
  BY DEF Skipped, RowsBefore
<1> HIDE DEF p
<1>5. p - 1 + 1 = p
  BY <1>2
<1> QED BY <1>2, <1>3, <1>4, <1>5 DEF p

LEMMA PageIs ==
  ASSUME NEW S, NEW rows \in Seq(S), NEW p \in Nat
  PROVE  /\ PageOf(rows, p) \in Seq(S)
         /\ PageOf(rows, p) =
              [i \in 1 .. Cardinality({k \in DOMAIN rows : p + 1 <= k /\ k < p + 1 + PageSize})
                 |-> rows[p + 1 + i - 1]]
<1> DEFINE L == Len(rows)
           last == IF p + PageSize < L THEN p + PageSize ELSE L
           page == {k \in DOMAIN rows : p + 1 <= k /\ k < p + 1 + PageSize}
           n == IF p + 1 <= last THEN last - p ELSE 0
<1>1. L \in Nat /\ DOMAIN rows = 1 .. L /\ PageSize \in Nat
  BY QuestionsAssumption
<1> HIDE DEF L
<1>2. last \in Nat /\ n \in Nat /\ (n # 0 => p + n <= L)
  BY <1>1
<1>3. page = (p + 1) .. last
  BY <1>1
<1>4. Cardinality(page) = n
  <2>1. p + 1 \in Int /\ last \in Int
    BY <1>2
  <2> HIDE DEF last, page
  <2>2. Cardinality((p + 1) .. last) = IF p + 1 > last THEN 0 ELSE last - (p + 1) + 1
    BY <2>1, FS_Interval
  <2> QED BY <1>2, <1>3, <2>2
<1>5. PageOf(rows, p) = SubSeq(rows, p + 1, last)
  BY DEF PageOf, L
<1> DEFINE pg == [i \in 1 .. n |-> rows[p + 1 + i - 1]]
<1>6. SubSeq(rows, p + 1, last) = pg
  <2>1. SubSeq(rows, p + 1, last) = [i \in 1 .. (1 + last - (p + 1)) |-> rows[i + (p + 1) - 1]]
    <3> HIDE DEF last
    <3> QED BY <1>1, <1>2
  <2>2. 1 .. (1 + last - (p + 1)) = 1 .. n
    BY <1>1, <1>2
  <2>3. \A i \in 1 .. n : i + (p + 1) - 1 = p + 1 + i - 1
    BY <1>2
  <2> HIDE DEF last, n
  <2> QED BY <2>1, <2>2, <2>3
<1> HIDE DEF n, last
<1>7. \A i \in 1 .. n : p + 1 + i - 1 \in 1 .. L
  BY <1>1, <1>2
<1>8. \A i \in 1 .. n : rows[p + 1 + i - 1] \in S
  BY <1>1, <1>7
<1>9. pg \in Seq(S)
  BY <1>2, <1>8, IsASeq
<1> QED BY <1>4, <1>5, <1>6, <1>9

(* The service's answer is the asked page of the rows that are selected.   *)
AnswerType == [data : Seq(ToSet(Rows)), totalCount : Nat]
Met(q) ==
  Picked(Rows, {k \in DOMAIN Rows :
    \A i \in DOMAIN q.filters : HasValue(q.filters[i]) => Selects(q.filters[i], Rows[k])})

LEMMA AnswerIs ==
  ASSUME NEW q \in Questions
  PROVE  /\ Answer(q) \in AnswerType
         /\ Expressible(q) =>
              Answer(q) = [data |-> PageOf(Met(q), PageSize * (q.page - 1)), totalCount |-> Len(Met(q))]
<1> DEFINE S == ToSet(Rows)
           I == {i \in DOMAIN Rows : \A c \in Query(q) : Meets(Rows[i], c)}
           J == {k \in DOMAIN Rows :
                   \A i \in DOMAIN q.filters : HasValue(q.filters[i]) => Selects(q.filters[i], Rows[k])}
<1>1. Answer(q) = [data |-> PageOf(Picked(Rows, I), Skipped(q.page)), totalCount |-> Len(Picked(Rows, I))]
  BY DEF Answer, Query
<1>2. Rows \in Seq(S) /\ I \in SUBSET DOMAIN Rows /\ q.page \in Nat \ {0}
  BY QuestionsAssumption
<1>3. Skipped(q.page) = PageSize * (q.page - 1) /\ Skipped(q.page) \in Nat
  BY <1>2, SkippedIs
<1>4. Picked(Rows, I) \in Seq(S)
  <2> HIDE DEF S, I
  <2> QED BY <1>2, PickedIs
<1> DEFINE P == Picked(Rows, I)
<1>5. Len(P) \in Nat /\ PageOf(P, Skipped(q.page)) \in Seq(S)
  <2>1. P \in Seq(S)
    BY <1>4
  <2> DEFINE skipped == Skipped(q.page)
  <2>2. skipped \in Nat
    BY <1>3
  <2> HIDE DEF P, S, skipped
  <2>3. PageOf(P, skipped) \in Seq(S)
    BY <2>1, <2>2, PageIs
  <2>4. Len(P) \in Nat
    BY <2>1
  <2> QED BY <2>3, <2>4 DEF skipped
<1>6. Expressible(q) => I = J
  <2> SUFFICES ASSUME Expressible(q)
               PROVE \A k \in DOMAIN Rows :
                       (\A c \in Query(q) : Meets(Rows[k], c)) <=>
                         \A i \in DOMAIN q.filters :
                           HasValue(q.filters[i]) => Selects(q.filters[i], Rows[k])
    OBVIOUS
  <2>1. CASE provider = "nestjs"
    BY <2>1, NestjsQuery DEF Query
  <2>2. CASE provider # "nestjs"
    BY <2>2, CubeQuery DEF Query
  <2> QED BY <2>1, <2>2
<1>7. Met(q) = Picked(Rows, J)
  BY DEF Met
<1> HIDE DEF I, J
<1> QED BY <1>1, <1>3, <1>5, <1>6, <1>7 DEF AnswerType

-----------------------------------------------------------------------------
(* The cache has the answers of the questions they are cached for, and a   *)
(* question that nothing runs for was answered or has failed.              *)
QueriesInv ==
  /\ cache \in [Questions -> [answer : {None} \cup AnswerType, failed : BOOLEAN]]
  /\ \A q \in Questions : cache[q].answer \in {None, Answer(q)}
  /\ fetching \in BOOLEAN
  /\ asked # None \/ fetching => asked \in Questions
  /\ asked # None /\ ~ fetching => cache[asked].answer # None \/ cache[asked].failed

LEMMA QueriesStart == QueriesInit => QueriesInv
<1> SUFFICES ASSUME QueriesInit PROVE QueriesInv
  OBVIOUS
<1>1. /\ cache \in [Questions -> [answer : {None} \cup AnswerType, failed : BOOLEAN]]
      /\ \A q \in Questions : cache[q].answer = None
  BY DEF QueriesInit
<1>2. asked = None /\ fetching = FALSE
  BY DEF QueriesInit
<1> QED BY <1>1, <1>2 DEF QueriesInv

LEMMA QueriesStep == QueriesInv /\ [QueriesNext]_queryVars => QueriesInv'
<1> SUFFICES ASSUME QueriesInv, [QueriesNext]_queryVars PROVE QueriesInv'
  OBVIOUS
<1>1. provider' = provider
  BY DEF QueriesNext, Ask, Refetch, Respond, RequestFails, LeftEnds, Forget, queryVars
<1>2. \A q : Answer(q)' = Answer(q)
  BY <1>1 DEF Answer, Skipped
<1>3. ASSUME NEW q \in Questions, Ask(q) PROVE QueriesInv'
  BY <1>2, <1>3 DEF Ask, QueriesInv
<1>4. CASE Refetch
  BY <1>2, <1>4 DEF Refetch, QueriesInv
<1>5. CASE Respond
  <2>1. /\ fetching /\ fetching' = FALSE /\ asked' = asked /\ asked \in Questions
        /\ cache' = [cache EXCEPT ![asked] = [answer |-> Answer(asked), failed |-> FALSE]]
    BY <1>5 DEF Respond, QueriesInv
  <2>2. Answer(asked) \in AnswerType /\ Answer(asked) # None
    BY <2>1, AnswerIs, QuestionsAssumption DEF AnswerType
  <2>3. cache' \in [Questions -> [answer : {None} \cup AnswerType, failed : BOOLEAN]]
    BY <2>1, <2>2 DEF QueriesInv
  <2>4. \A q \in Questions : cache'[q].answer \in {None, Answer(q)}
    BY <2>1 DEF QueriesInv
  <2>5. cache'[asked].answer # None
    BY <2>1, <2>2 DEF QueriesInv
  <2> QED BY <1>2, <2>1, <2>3, <2>4, <2>5 DEF QueriesInv
<1>6. CASE RequestFails
  <2>1. CASE UNCHANGED <<cache, fetching>>
    BY <1>2, <1>6, <2>1 DEF RequestFails, QueriesInv
  <2>2. CASE fetching' = FALSE /\ cache' = [cache EXCEPT ![asked].failed = TRUE]
    <3>1. asked \in Questions /\ asked' = asked
      BY <1>6 DEF RequestFails, QueriesInv
    <3>2. /\ cache' \in [Questions -> [answer : {None} \cup AnswerType, failed : BOOLEAN]]
          /\ \A q \in Questions : cache'[q].answer = cache[q].answer
          /\ cache'[asked].failed
      BY <2>2, <3>1 DEF QueriesInv
    <3> QED BY <1>2, <2>2, <3>1, <3>2 DEF QueriesInv
  <2> QED BY <1>6, <2>1, <2>2 DEF RequestFails
<1>7. ASSUME NEW i \in DOMAIN left, LeftEnds(i) PROVE QueriesInv'
  BY <1>2, <1>7 DEF LeftEnds, QueriesInv
<1>8. ASSUME NEW q \in Questions, Forget(q) PROVE QueriesInv'
  <2>1. /\ q # asked /\ UNCHANGED <<asked, fetching>>
        /\ cache' = [cache EXCEPT ![q] = [answer |-> None, failed |-> FALSE]]
    BY <1>8 DEF Forget
  <2>2. /\ cache' \in [Questions -> [answer : {None} \cup AnswerType, failed : BOOLEAN]]
        /\ \A p \in Questions : p # q => cache'[p] = cache[p]
        /\ cache'[q].answer = None
    BY <2>1 DEF QueriesInv
  <2> QED BY <1>2, <2>1, <2>2 DEF QueriesInv
<1>9. CASE UNCHANGED queryVars
  BY <1>2, <1>9 DEF queryVars, QueriesInv
<1> QED BY <1>3, <1>4, <1>5, <1>6, <1>7, <1>8, <1>9 DEF QueriesNext

(* Once the grid waits for nothing and shows no error, it shows the page   *)
(* of the rows that it asked for.                                          *)
THEOREM AskedIsShown == QueriesSpec => []SettledShowsAsked
<1>1. ASSUME QueriesInv, asked # None, ~ fetching, ~ Failed, Expressible(asked)
      PROVE  SettledShowsAsked
  <2>1. asked \in Questions /\ cache[asked].answer \in {None, Answer(asked)}
    BY <1>1 DEF QueriesInv
  <2>2. cache[asked].answer # None
    BY <1>1 DEF QueriesInv, Failed, Pending
  <2>3. Shown = Answer(asked)
    BY <1>1, <2>1, <2>2 DEF Shown
  <2> DEFINE rows == Met(asked)
             p == PageSize * (asked.page - 1)
             due == [i \in 1 .. Cardinality({k \in DOMAIN rows : p + 1 <= k /\ k < p + 1 + PageSize})
                       |-> rows[p + 1 + i - 1]]
  <2>4. Shown.data = PageOf(rows, p) /\ Shown.totalCount = Len(rows)
    BY <1>1, <2>1, <2>3, AnswerIs
  <2>5. PageOf(rows, p) = due
    <3>1. p \in Nat
      BY <2>1, QuestionIs, SkippedIs
    <3>2. rows \in Seq(ToSet(Rows))
      <4> DEFINE J == {k \in DOMAIN Rows :
                   \A i \in DOMAIN asked.filters :
                     HasValue(asked.filters[i]) => Selects(asked.filters[i], Rows[k])}
                 S == ToSet(Rows)
      <4>1. Rows \in Seq(S) /\ J \in SUBSET DOMAIN Rows /\ rows = Picked(Rows, J)
        BY QuestionsAssumption DEF Met
      <4> HIDE DEF J, S, rows
      <4>2. rows \in Seq(S)
        BY <4>1, PickedIs
      <4> QED BY <4>2 DEF S, rows
    <3> HIDE DEF rows, p
    <3> QED BY <3>1, <3>2, PageIs
  <2> QED BY <2>4, <2>5 DEF SettledShowsAsked, Met
<1>2. QueriesInv => SettledShowsAsked
  BY <1>1 DEF SettledShowsAsked
<1> QED BY <1>2, QueriesStart, QueriesStep, PTL DEF QueriesSpec

-----------------------------------------------------------------------------
(* The filters, their options and their chips.                             *)

FilterSpec == FiltersInit /\ [][FiltersNext]_filterVars

(* The filters have the keys that there are, each says whether it is       *)
(* loading, and those that are loading have a fetch on its way.            *)
FetchesPending(filters, count) ==
  /\ DOMAIN filters \subseteq FilterKeys
  /\ count \in [FilterKeys -> Nat]
  /\ \A k \in DOMAIN filters :
       "loading" \in DOMAIN filters[k] /\ (filters[k].loading => count[k] > 0)

(* The store has the filters exactly while the grid is mounted.            *)
StoreInv ==
  /\ FetchesPending(store, fetches)
  /\ DOMAIN store = IF mounted THEN FilterKeys ELSE {}
  /\ found \subseteq FilterKeys /\ pinned \subseteq FilterKeys

-----------------------------------------------------------------------------
(* What new items of the panel and the toolbar add to a filter's fetches.  *)
AllItems == {"panel", "toolbar"} \X FilterKeys
AreItems(items) == items \subseteq AllItems

LEMMA FetchingIsCounted ==
  ASSUME NEW items, AreItems(items), NEW k \in FilterKeys
  PROVE  Fetching(items, k) \in Nat
<1> DEFINE mine == {i \in items : i[2] = k}
<1>1. mine \subseteq {<<"panel", k>>, <<"toolbar", k>>}
  BY DEF AllItems, AreItems
<1>2. IsFiniteSet({<<"panel", k>>, <<"toolbar", k>>})
  <2>1. IsFiniteSet({<<"panel", k>>})
    BY FS_Singleton
  <2>2. IsFiniteSet({<<"panel", k>>} \cup {<<"toolbar", k>>})
    BY <2>1, FS_AddElement
  <2>3. {<<"panel", k>>, <<"toolbar", k>>} = {<<"panel", k>>} \cup {<<"toolbar", k>>}
    OBVIOUS
  <2> QED BY <2>2, <2>3
<1>3. Cardinality(mine) \in Nat
  BY <1>1, <1>2, FS_Subset, FS_CardinalityType
<1> QED BY <1>3 DEF Fetching

LEMMA ItemsAreShown ==
  ASSUME NEW f \in SUBSET FilterKeys, NEW p \in SUBSET FilterKeys
  PROVE  Items(f, p) \subseteq AllItems
BY DEF Items, Item, AllItems

(* The items that appear keep the invariant of the filters they fetch for. *)
LEMMA StartedIsPending ==
  ASSUME NEW items, AreItems(items), NEW filters, NEW before, FetchesPending(filters, before)
  PROVE  FetchesPending(Started(filters, items),
                 [k \in FilterKeys |-> before[k] + Fetching(items, k)])
<1> DEFINE after == [k \in FilterKeys |-> before[k] + Fetching(items, k)]
           started == Started(filters, items)
<1>1. \A k \in FilterKeys : Fetching(items, k) \in Nat
  BY FetchingIsCounted
<1>2. after \in [FilterKeys -> Nat]
  BY <1>1 DEF FetchesPending
<1>3. DOMAIN started = DOMAIN filters
  BY DEF Started
<1>4. ASSUME NEW k \in DOMAIN filters
      PROVE  "loading" \in DOMAIN started[k] /\ (started[k].loading => after[k] > 0)
  <2>1. /\ "loading" \in DOMAIN started[k]
        /\ started[k].loading => filters[k].loading \/ Fetching(items, k) > 0
    BY <1>4 DEF Started, FetchesPending
  <2>2. k \in FilterKeys /\ before[k] \in Nat /\ Fetching(items, k) \in Nat
    BY <1>1 DEF FetchesPending
  <2> QED BY <2>1, <2>2 DEF FetchesPending
<1> QED BY <1>2, <1>3, <1>4 DEF FetchesPending

(* The items of the panel and the toolbar change while the grid is open.   *)
LEMMA ShowStep ==
  ASSUME StoreInv, mounted, UNCHANGED mounted,
         NEW f \in SUBSET FilterKeys, NEW p \in SUBSET FilterKeys, Show(f, p)
  PROVE  StoreInv'
<1> DEFINE new == Items(f, p) \ Items(found, pinned)
           count == [k \in FilterKeys |-> fetches[k] + Fetching(new, k)]
           started == Started(store, new)
<1>1. AreItems(new)
  BY ItemsAreShown DEF AreItems
<1>2. FetchesPending(started, count)
  BY <1>1, StartedIsPending DEF StoreInv
<1>3. DOMAIN started = DOMAIN store
  BY DEF Started
<1>4. fetches' = count /\ store' = started /\ found' = f /\ pinned' = p
  BY DEF Show
<1> HIDE DEF count, started
<1> QED BY <1>2, <1>3, <1>4 DEF StoreInv

(* The grid is opened: the filters of the store are new, none is loading.  *)
LEMMA MountStep ==
  ASSUME StoreInv, NEW query, Mount(query)
  PROVE  StoreInv'
<1> DEFINE p == {k \in FilterKeys : builders[k].toolbar}
           new == Items(FilterKeys, p)
           built == [k \in FilterKeys |-> BuildFilter(builders[k])]
           count == [k \in FilterKeys |-> fetches[k] + Fetching(new, k)]
           started == Started(built, new)
<1>1. AreItems(new)
  BY ItemsAreShown DEF AreItems
<1>2. FetchesPending(built, fetches)
  BY DEF BuildFilter, StoreInv, FetchesPending
<1>3. DOMAIN started = FilterKeys
  BY DEF Started
<1>4. /\ fetches' = count /\ store' = started
      /\ found' = FilterKeys /\ pinned' \subseteq FilterKeys /\ mounted' = TRUE
  BY DEF Mount
<1> HIDE DEF new, built
<1>5. FetchesPending(started, count)
  BY <1>1, <1>2, StartedIsPending
<1> HIDE DEF count, started
<1> QED BY <1>3, <1>4, <1>5 DEF StoreInv

(* A fetch ends, with options or without: its filter is no longer loading, *)
(* the fetches of the others are as they were.                             *)
LEMMA EndStep ==
  ASSUME StoreInv, NEW k \in FilterKeys, fetches[k] > 0,
         fetches' = [fetches EXCEPT ![k] = @ - 1],
         UNCHANGED <<mounted, found, pinned>>,
         NEW item, "loading" \in DOMAIN item,
         store' = IF mounted THEN UpdateFilterItem(store, k, Ended(item)) ELSE store
  PROVE  StoreInv'
<1>1. fetches' \in [FilterKeys -> Nat]
  BY DEF StoreInv, FetchesPending
<1>2. CASE ~ mounted
  BY <1>1, <1>2 DEF StoreInv, FetchesPending
<1>3. CASE mounted
  <2> DEFINE ended == Ended(item)
  <2>1. "loading" \in DOMAIN ended /\ ~ ended.loading
    BY DEF Ended
  <2> HIDE DEF ended
  <2>2. /\ DOMAIN store = FilterKeys
        /\ store' = [q \in FilterKeys |-> IF q = k THEN ended ELSE store[q]]
    BY <1>3 DEF StoreInv, UpdateFilterItem, ended
  <2>3. ASSUME NEW q \in FilterKeys
        PROVE  "loading" \in DOMAIN store'[q] /\ (store'[q].loading => fetches'[q] > 0)
    <3>1. CASE q = k
      BY <2>1, <2>2, <3>1
    <3>2. CASE q # k
      BY <2>2, <3>2 DEF StoreInv, FetchesPending
    <3> QED BY <3>1, <3>2
  <2> QED BY <1>1, <1>3, <2>2, <2>3 DEF StoreInv, FetchesPending
<1> QED BY <1>2, <1>3

LEMMA FiltersStep == StoreInv /\ [FiltersNext]_filterVars => StoreInv'
<1> SUFFICES ASSUME StoreInv, [FiltersNext]_filterVars PROVE StoreInv'
  OBVIOUS
<1> USE DEF StoreInv, FetchesPending
<1>1. ASSUME NEW k \in FilterKeys, Call(k) PROVE StoreInv'
  BY <1>1 DEF Call
<1>2. ASSUME NEW k \in FilterKeys, FetchAnswers(k) PROVE StoreInv'
  <2> DEFINE item == [store[k] EXCEPT !.options = Served[k]]
  <2>1. CASE mounted
    <3>1. "loading" \in DOMAIN item
      BY <2>1
    <3> HIDE DEF item
    <3>2. store' = IF mounted THEN UpdateFilterItem(store, k, Ended(item)) ELSE store
      BY <1>2 DEF FetchAnswers, item
    <3> HIDE DEF StoreInv
    <3> QED BY <1>2, <3>1, <3>2, EndStep DEF FetchAnswers
  <2>2. CASE ~ mounted
    BY <1>2, <2>2 DEF FetchAnswers
  <2> QED BY <2>1, <2>2
<1>3. ASSUME NEW k \in FilterKeys, FetchFails(k) PROVE StoreInv'
  <2>1. CASE mounted
    <3>1. "loading" \in DOMAIN store[k]
      BY <2>1
    <3> HIDE DEF StoreInv
    <3> QED BY <1>3, <3>1, EndStep DEF FetchFails
  <2>2. CASE ~ mounted
    BY <1>3, <2>2 DEF FetchFails
  <2> QED BY <2>1, <2>2
<1>4. ASSUME NEW query \in [FilterKeys -> FilterValues], Mount(query) PROVE StoreInv'
  BY <1>4, MountStep
<1>5. CASE Unmount
  BY <1>5 DEF Unmount
<1>6. ASSUME NEW f \in SUBSET FilterKeys, SearchPanel(f) PROVE StoreInv'
  BY <1>6, ShowStep DEF SearchPanel
<1>7. ASSUME NEW f \in SUBSET FilterKeys, PinByView(f) PROVE StoreInv'
  <2> DEFINE p == f \cup {k \in FilterKeys : builders[k].toolbar /\ ~ builders[k].panel}
  <2>1. mounted /\ UNCHANGED mounted /\ Show(found, p)
    BY <1>7 DEF PinByView
  <2>2. p \in SUBSET FilterKeys /\ found \in SUBSET FilterKeys
    OBVIOUS
  <2> HIDE DEF p, StoreInv
  <2> QED BY <2>1, <2>2, ShowStep
<1>8. ASSUME NEW k \in FilterKeys, NEW value \in FilterValues, Change(k, value) PROVE StoreInv'
  BY <1>8 DEF Change
<1>9. ASSUME NEW k \in FilterKeys, NEW w \in Words, Pick(k, w) PROVE StoreInv'
  <2> DEFINE item == [store[k] EXCEPT !.selectedOptions = @ \cup {w}]
  <2>1. DOMAIN store = FilterKeys /\ UNCHANGED <<mounted, found, pinned, fetches>>
    BY <1>9 DEF Pick
  <2>2. "loading" \in DOMAIN item /\ item.loading = store[k].loading
    BY <2>1
  <2> HIDE DEF item
  <2>3. store' = [q \in FilterKeys |-> IF q = k THEN item ELSE store[q]]
    BY <1>9, <2>1 DEF Pick, UpdateFilterItem, item
  <2> QED BY <2>1, <2>2, <2>3
<1>10. ASSUME NEW c \in Chips, RemoveChip(c) PROVE StoreInv'
  BY <1>10 DEF RemoveChip
<1>11. CASE UNCHANGED filterVars
  BY <1>11 DEF filterVars
<1> QED BY <1>1, <1>2, <1>3, <1>4, <1>5, <1>6, <1>7, <1>8, <1>9, <1>10, <1>11 DEF FiltersNext

-----------------------------------------------------------------------------
(* A filter of the grid is loading only while a fetch of it is on its way, *)
(* for any filters, any builder's calls and any number of fetches: no end  *)
(* of a fetch, no unmounting and no new item leaves it loading for nobody. *)
THEOREM LoadingIsPending == FilterSpec => []LoadingMeansPending
<1>1. FiltersInit => StoreInv
  BY DEF FiltersInit, StoreInv, FetchesPending
<1>2. StoreInv => LoadingMeansPending
  BY DEF StoreInv, FetchesPending, LoadingMeansPending
<1> QED BY <1>1, <1>2, FiltersStep, PTL DEF FilterSpec

-----------------------------------------------------------------------------
(* The labels.  A filter of the grid that fetches and is shown is loading, *)
(* has what its fetch answers, or a fetch of it has failed; its builder is *)
(* left alone while the grid is open.                                      *)
Labels(filters, k) ==
  /\ {"loading", "options"} \subseteq DOMAIN filters[k]
  /\ builders[k].fetches /\ (builders[k].panel \/ builders[k].toolbar) /\ k \notin failures
       => filters[k].loading \/ Served[k] \subseteq filters[k].options
NamedInv == StoreInv /\ (mounted => \A k \in FilterKeys : Labels(store, k))

(* Items that are mounted later mark more filters and take no options.     *)
LEMMA StartedKeepsLabels ==
  ASSUME NEW filters, NEW items, NEW k \in DOMAIN filters, Labels(filters, k)
  PROVE  Labels(Started(filters, items), k)
<1>1. PICK item : item = filters[k]
  OBVIOUS
<1>2. PICK loading : loading = (item.loading \/ Fetching(items, k) > 0)
  OBVIOUS
<1>3. PICK new : new = [item EXCEPT !.loading = loading]
  OBVIOUS
<1>4. Started(filters, items)[k] = new
  BY <1>1, <1>2, <1>3 DEF Started
<1>5. {"loading", "options"} \subseteq DOMAIN item
  BY <1>1 DEF Labels
<1>6. /\ {"loading", "options"} \subseteq DOMAIN new /\ new.options = item.options
      /\ item.loading => new.loading
  BY <1>2, <1>3, <1>5
<1> QED BY <1>1, <1>4, <1>6 DEF Labels

(* The items of an opened grid fetch for every filter that is shown.       *)
LEMMA ShownIsFetching ==
  ASSUME NEW k \in FilterKeys, NEW p, p = {q \in FilterKeys : builders[q].toolbar},
         builders[k].fetches, builders[k].panel \/ builders[k].toolbar
  PROVE  Fetching(Items(FilterKeys, p), k) > 0
<1> DEFINE mine == {i \in Items(FilterKeys, p) : i[2] = k}
<1>1. PICK i \in {<<"panel", k>>, <<"toolbar", k>>} : i \in mine
  <2>1. builders[k].panel => <<"panel", k>> \in mine
    BY DEF Items, Item
  <2>2. builders[k].toolbar => <<"toolbar", k>> \in mine
    BY DEF Items, Item
  <2> QED BY <2>1, <2>2
<1>2. mine \subseteq {<<"panel", k>>} \cup {<<"toolbar", k>>}
  BY ItemsAreShown DEF AllItems
<1>3. IsFiniteSet({<<"panel", k>>} \cup {<<"toolbar", k>>})
  BY FS_Singleton, FS_AddElement
<1>4. IsFiniteSet(mine) /\ mine # {}
  BY <1>1, <1>2, <1>3, FS_Subset
<1>5. Cardinality(mine) \in Nat /\ Cardinality(mine) # 0
  BY <1>4, FS_CardinalityType, FS_EmptySet
<1> QED BY <1>5 DEF Fetching

LEMMA NamedMount ==
  ASSUME NamedInv, NEW query, Mount(query)
  PROVE  NamedInv'
<1> DEFINE p == {q \in FilterKeys : builders[q].toolbar}
           built == [q \in FilterKeys |-> BuildFilter(builders[q])]
           items == Items(FilterKeys, p)
<1>1. StoreInv'
  BY MountStep DEF NamedInv
<1>2. store' = Started(built, items) /\ UNCHANGED <<builders, failures>>
  BY DEF Mount
<1>3. ASSUME NEW k \in FilterKeys PROVE Labels(store, k)'
  <2>1. PICK item : item = BuildFilter(builders[k])
    OBVIOUS
  <2>2. {"loading", "options"} \subseteq DOMAIN item
    BY <2>1 DEF BuildFilter
  <2>3. PICK loading : loading = (item.loading \/ Fetching(items, k) > 0)
    OBVIOUS
  <2>4. PICK new : new = [item EXCEPT !.loading = loading]
    OBVIOUS
  <2>5. store'[k] = new
    BY <1>2, <2>1, <2>3, <2>4 DEF Started
  <2>6. {"loading", "options"} \subseteq DOMAIN new /\ new.loading = loading
    BY <2>2, <2>4
  <2>7. builders[k].fetches /\ (builders[k].panel \/ builders[k].toolbar) => loading
    BY <2>3, ShownIsFetching
  <2> QED BY <1>2, <2>5, <2>6, <2>7 DEF Labels
<1> QED BY <1>1, <1>3 DEF NamedInv

LEMMA NamedShow ==
  ASSUME NamedInv, mounted, UNCHANGED <<mounted, builders, failures>>, StoreInv',
         NEW f, NEW p, Show(f, p)
  PROVE  NamedInv'
<1>1. store' = Started(store, Items(f, p) \ Items(found, pinned))
  BY DEF Show
<1>2. \A k \in FilterKeys : k \in DOMAIN store /\ Labels(store, k)
  BY DEF NamedInv, StoreInv
<1>3. \A k \in FilterKeys : Labels(store', k)
  BY <1>1, <1>2, StartedKeepsLabels
<1>4. \A k \in FilterKeys : Labels(store, k)'
  BY <1>3 DEF Labels
<1> QED BY <1>4 DEF NamedInv

(* A fetch ends, with the filter's options or as a failure.                *)
LEMMA NamedEnd ==
  ASSUME NamedInv, mounted, UNCHANGED <<mounted, builders>>, StoreInv',
         NEW k \in FilterKeys, NEW options,
         store' = UpdateFilterItem(store, k, Ended([store[k] EXCEPT !.options = options])),
         failures \subseteq failures', k \in failures' \/ Served[k] \subseteq options
  PROVE  NamedInv'
<1>1. DOMAIN store = FilterKeys /\ \A q \in FilterKeys : Labels(store, q)
  BY DEF NamedInv, StoreInv
<1>2. PICK item : item = store[k] /\ {"loading", "options"} \subseteq DOMAIN item
  BY <1>1 DEF Labels
<1>3. PICK new : new = [[item EXCEPT !.options = options] EXCEPT !.loading = FALSE]
  OBVIOUS
<1>4. {"loading", "options"} \subseteq DOMAIN new /\ new.options = options
  BY <1>2, <1>3
<1>5. store' = [q \in FilterKeys |-> IF q = k THEN new ELSE store[q]]
  BY <1>1, <1>2, <1>3 DEF UpdateFilterItem, Ended
<1>6. ASSUME NEW q \in FilterKeys PROVE Labels(store, q)'
  <2>1. CASE q = k
    BY <1>4, <1>5, <2>1 DEF Labels
  <2>2. CASE q # k
    BY <1>1, <1>5, <2>2 DEF Labels
  <2> QED BY <2>1, <2>2
<1> QED BY <1>6 DEF NamedInv

LEMMA NamedStep == NamedInv /\ [FiltersNext]_filterVars => NamedInv'
<1> SUFFICES ASSUME NamedInv, [FiltersNext]_filterVars PROVE NamedInv'
  OBVIOUS
<1>1. StoreInv'
  BY FiltersStep DEF NamedInv
<1>2. CASE UNCHANGED <<builders, mounted, store, failures>>
  BY <1>1, <1>2 DEF NamedInv, Labels
<1>3. CASE ~ mounted'
  BY <1>1, <1>3 DEF NamedInv
<1>4. ASSUME NEW k \in FilterKeys, FetchAnswers(k) PROVE NamedInv'
  BY <1>1, <1>3, <1>4, NamedEnd DEF FetchAnswers
<1>5. ASSUME NEW k \in FilterKeys, FetchFails(k) PROVE NamedInv'
  <2>1. CASE mounted
    <3>1. \A q \in FilterKeys : Labels(store, q) /\ DOMAIN store = FilterKeys
      BY <2>1 DEF NamedInv, StoreInv
    <3>2. PICK item : item = store[k] /\ {"loading", "options"} \subseteq DOMAIN item
      BY <3>1 DEF Labels
    <3>3. PICK new : new = [item EXCEPT !.loading = FALSE]
      OBVIOUS
    <3>4. {"loading", "options"} \subseteq DOMAIN new
      BY <3>2, <3>3
    <3>5. store' = [q \in FilterKeys |-> IF q = k THEN new ELSE store[q]]
      BY <1>5, <2>1, <3>1, <3>2, <3>3 DEF FetchFails, UpdateFilterItem, Ended
    <3>6. failures' = failures \cup {k} /\ UNCHANGED <<builders, mounted>>
      BY <1>5 DEF FetchFails
    <3>7. ASSUME NEW q \in FilterKeys PROVE Labels(store, q)'
      <4>1. CASE q = k
        BY <3>4, <3>5, <3>6, <4>1 DEF Labels
      <4>2. CASE q # k
        BY <3>1, <3>5, <3>6, <4>2 DEF Labels
      <4> QED BY <4>1, <4>2
    <3> QED BY <1>1, <3>7 DEF NamedInv
  <2>2. CASE ~ mounted
    BY <1>3, <1>5, <2>2 DEF FetchFails
  <2> QED BY <2>1, <2>2
<1>6. ASSUME NEW query, Mount(query) PROVE NamedInv'
  BY <1>6, NamedMount
<1>7. ASSUME NEW f \in SUBSET FilterKeys, SearchPanel(f) PROVE NamedInv'
  BY <1>1, <1>7, NamedShow DEF SearchPanel
<1>8. ASSUME NEW f \in SUBSET FilterKeys, PinByView(f) PROVE NamedInv'
  BY <1>1, <1>8, NamedShow DEF PinByView
<1>9. ASSUME NEW k \in FilterKeys, NEW w \in Words, Pick(k, w) PROVE NamedInv'
  <2>1. \A q \in FilterKeys : Labels(store, q) /\ DOMAIN store = FilterKeys
    BY <1>9 DEF NamedInv, StoreInv, Pick
  <2>2. PICK item : item = store[k] /\ {"loading", "options"} \subseteq DOMAIN item
    BY <2>1 DEF Labels
  <2>3. PICK picked : picked = item.selectedOptions \cup {w}
    OBVIOUS
  <2>4. PICK new : new = [item EXCEPT !.selectedOptions = picked]
    OBVIOUS
  <2>5. /\ {"loading", "options"} \subseteq DOMAIN new
        /\ new.loading = item.loading /\ new.options = item.options
    BY <2>2, <2>4
  <2>6. store' = [q \in FilterKeys |-> IF q = k THEN new ELSE store[q]]
    BY <1>9, <2>1, <2>2, <2>3, <2>4 DEF Pick, UpdateFilterItem
  <2>7. UNCHANGED <<builders, mounted, failures>>
    BY <1>9 DEF Pick
  <2>8. ASSUME NEW q \in FilterKeys PROVE Labels(store, q)'
    <3>1. CASE q = k
      BY <2>1, <2>2, <2>5, <2>6, <2>7, <3>1 DEF Labels
    <3>2. CASE q # k
      BY <2>1, <2>6, <2>7, <3>2 DEF Labels
    <3> QED BY <3>1, <3>2
  <2> QED BY <1>1, <2>8 DEF NamedInv
<1>10. ASSUME NEW k \in FilterKeys, Call(k) PROVE NamedInv'
  BY <1>3, <1>10 DEF Call
<1>11. CASE Unmount
  BY <1>3, <1>11 DEF Unmount
<1>12. ASSUME NEW k \in FilterKeys, NEW value \in FilterValues, Change(k, value) PROVE NamedInv'
  BY <1>2, <1>12 DEF Change
<1>13. ASSUME NEW c \in Chips, RemoveChip(c) PROVE NamedInv'
  BY <1>2, <1>13 DEF RemoveChip
<1>14. CASE UNCHANGED filterVars
  BY <1>2, <1>14 DEF filterVars
<1> QED BY <1>4, <1>5, <1>6, <1>7, <1>8, <1>9, <1>10, <1>11, <1>12, <1>13, <1>14 DEF FiltersNext

(* The chips that are shown have the labels that their filters' fetches    *)
(* answer with, unless such a fetch has failed: in whatever order items    *)
(* are mounted, fetches end and the grid is closed and opened again.       *)
THEOREM ChipsNamed == FilterSpec => []ChipsAreNamed
<1>1. FiltersInit => NamedInv
  BY DEF FiltersInit, NamedInv, StoreInv, FetchesPending
<1>2. NamedInv => ChipsAreNamed
  <2> SUFFICES ASSUME NamedInv, NEW c \in Chips,
                      builders[c.key].chips = "options", builders[c.key].fetches,
                      c.key \notin failures,
                      builders[c.key].panel \/ builders[c.key].toolbar,
                      c.value \subseteq Served[c.key]
               PROVE  c.label = "option"
    BY DEF ChipsAreNamed
  <2>1. mounted /\ FiltersFetched
    BY DEF Chips, ChipsOf
  <2>2. PICK k \in FilterKeys : c \in ToFilterChips(k, chosen[k])
    BY <2>1 DEF Chips, ChipsOf
  <2>3. c.key = k
    BY <2>2 DEF ToFilterChips, Chip
  <2>4. PICK w \in chosen[k] : c = Chip(k, {w}, IF w \in OptionsOf(k) THEN "option" ELSE "value", "value")
    BY <2>2, <2>3 DEF ToFilterChips
  <2>5. k \in DOMAIN store /\ ~ store[k].loading /\ Labels(store, k)
    BY <2>1 DEF FiltersFetched, NamedInv, StoreInv
  <2>6. w \in OptionsOf(k)
    BY <2>3, <2>4, <2>5 DEF Labels, OptionsOf, Chip
  <2> QED BY <2>4, <2>6 DEF Chip
<1> QED BY <1>1, <1>2, NamedStep, PTL DEF FilterSpec

=============================================================================
