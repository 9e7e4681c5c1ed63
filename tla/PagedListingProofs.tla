-------------------------- MODULE PagedListingProofs --------------------------
(***************************************************************************)
(* Proofs about PagedListing: what the pages of a list say of it.          *)
(***************************************************************************)
EXTENDS PagedListing, SequenceTheorems, FiniteSetTheorems, TLAPS

------------------------------------------------------------------------------
(* Induction over the natural numbers, in the form of a set *)

\* A set of natural numbers that is not empty has a least element.
LEMMA LeastNatural ==
  ASSUME NEW T, T \subseteq Nat, T # {}
  PROVE  \E m \in T : \A k \in T : m <= k
<1> DEFINE R == {ss \in Nat \X Nat : ss[1] < ss[2]}
<1>1. IsWellFoundedOn(R, Nat)
  BY NatLessThanWellFounded DEF OpToRel
<1>2. \A j, k \in Nat : <<k, j>> \in R <=> k < j
  OBVIOUS
<1> HIDE DEF R
<1>3. \E m \in T : \A k \in T : <<k, m>> \notin R
  BY <1>1, WFMin
<1>4. PICK m \in T : \A k \in T : <<k, m>> \notin R
  BY <1>3
<1>5. ASSUME NEW k \in T PROVE m <= k
  <2>1. k \in Nat /\ m \in Nat
    OBVIOUS
  <2>2. ~ (k < m)
    BY <1>2, <1>4, <2>1
  <2> QED BY <2>1, <2>2
<1> QED BY <1>5

\* A set that has 0 and with each natural number the next has them all.
LEMMA SetInduction ==
  ASSUME NEW T, 0 \in T, \A n \in Nat : n \in T => n + 1 \in T
  PROVE  Nat \subseteq T
<1> SUFFICES ASSUME NEW x \in Nat, x \notin T PROVE FALSE
  OBVIOUS
<1> DEFINE U == Nat \ T
<1>1. PICK m \in U : \A k \in U : m <= k
  <2>1. U \subseteq Nat /\ U # {}
    OBVIOUS
  <2> HIDE DEF U
  <2> QED BY <2>1, LeastNatural
<1>2. m \in Nat /\ m # 0 /\ m - 1 \in Nat
  OBVIOUS
<1>3. m - 1 \notin U
  BY <1>1, <1>2
<1>4. (m - 1) + 1 \in T
  BY <1>2, <1>3
<1> QED BY <1>2, <1>4

------------------------------------------------------------------------------
(* The rows of an account that lie in the window *)

\* f lists, for every n up to m, those of the first n rows that lie in the window.
IsKept(f, rows, m) ==
  f = [n \in 0 .. m |->
         IF n = 0 THEN <<>>
         ELSE IF InWindow(rows[n]) THEN Append(f[n - 1], rows[n]) ELSE f[n - 1]]

\* There is such an f.
LEMMA KeptExists ==
  ASSUME NEW rows, NEW x \in Nat
  PROVE  \E f : IsKept(f, rows, x)
<1> DEFINE T == {m \in Nat : \E f : IsKept(f, rows, m)}
<1>1. 0 \in T
  <2> DEFINE g == [n \in 0 .. 0 |-> <<>>]
  <2>1. IsKept(g, rows, 0)
    BY DEF IsKept
  <2> QED BY <2>1
<1>2. ASSUME NEW m \in Nat, m \in T PROVE m + 1 \in T
  <2>1. PICK f : IsKept(f, rows, m)
    BY <1>2
  <2> DEFINE k == IF InWindow(rows[m + 1]) THEN Append(f[m], rows[m + 1]) ELSE f[m]
             g == [n \in 0 .. m + 1 |-> IF n <= m THEN f[n] ELSE k]
  <2>2. \A n \in 0 .. m :
          f[n] = IF n = 0 THEN <<>>
                 ELSE IF InWindow(rows[n]) THEN Append(f[n - 1], rows[n]) ELSE f[n - 1]
    BY <2>1 DEF IsKept
  <2>3. ASSUME NEW n \in 0 .. m + 1
        PROVE  g[n] = IF n = 0 THEN <<>>
                      ELSE IF InWindow(rows[n]) THEN Append(g[n - 1], rows[n]) ELSE g[n - 1]
    <3>1. CASE n \in 1 .. m
      BY <2>2, <3>1
    <3>2. CASE n = 0
      BY <2>2, <3>2
    <3>3. CASE n = m + 1
      <4>1. g[n] = k /\ g[n - 1] = f[m] /\ n # 0
        BY <3>3
      <4> QED BY <4>1, <3>3
    <3> QED BY <3>1, <3>2, <3>3
  <2>4. IsKept(g, rows, m + 1)
    <3> HIDE DEF k
    <3> DEFINE h == [n \in 0 .. m + 1 |->
                       IF n = 0 THEN <<>>
                       ELSE IF InWindow(rows[n]) THEN Append(g[n - 1], rows[n]) ELSE g[n - 1]]
    <3>1. \A n \in 0 .. m + 1 : g[n] = h[n]
      <4> HIDE DEF g
      <4> QED BY <2>3
    <3>2. g = h
      <4>1. g = [n \in 0 .. m + 1 |-> g[n]]
        OBVIOUS
      <4>2. h = [n \in 0 .. m + 1 |-> h[n]]
        BY DEF h
      <4> HIDE DEF g, h
      <4> QED BY <3>1, <4>1, <4>2
    <3> HIDE DEF g
    <3> QED BY <3>2 DEF IsKept, h
  <2> HIDE DEF g
  <2> QED BY <2>4
<1> HIDE DEF T
<1>3. Nat \subseteq T
  BY <1>1, <1>2, SetInduction
<1> QED BY <1>3 DEF T

\* What a list of some of the rows of an account is: those of its first n rows
\* that lie in the window, all of them and none twice.
Kept(rows, n, s) ==
  /\ s \in Seq(Row) /\ Len(s) <= n
  /\ \A i \in 1 .. Len(s) : InWindow(s[i]) /\ \E j \in 1 .. n : s[i] = rows[j]
  /\ \A i, j \in 1 .. Len(s) : s[i].key = s[j].key => i = j
  /\ \A j \in 1 .. n : InWindow(rows[j]) => \E i \in 1 .. Len(s) : s[i] = rows[j]

\* Rows of an account, one key each.
Distinct(rows) == \A i, j \in 1 .. Len(rows) : rows[i].key = rows[j].key => i = j

\* One more row in the window, of another key, is kept too.
LEMMA KeepOne ==
  ASSUME NEW rows \in Seq(Row), Distinct(rows), NEW n \in Nat, n + 1 <= Len(rows),
         NEW s, Kept(rows, n, s), InWindow(rows[n + 1])
  PROVE  Kept(rows, n + 1, Append(s, rows[n + 1]))
<1> DEFINE r == rows[n + 1]
           t == Append(s, r)
<1>1. s \in Seq(Row) /\ Len(s) \in Nat /\ Len(s) <= n
  BY LenProperties DEF Kept
<1>2. r \in Row
  BY ElementOfSeq
<1>3. /\ t \in Seq(Row) /\ Len(t) = Len(s) + 1 /\ t[Len(s) + 1] = r
      /\ \A i \in 1 .. Len(s) : t[i] = s[i]
  BY <1>1, <1>2, AppendProperties
<1>4. \A i \in 1 .. Len(t) : i \in 1 .. Len(s) \/ i = Len(s) + 1
  BY <1>1, <1>3
<1>5. \A i \in 1 .. Len(s) : InWindow(s[i]) /\ \E j \in 1 .. n : s[i] = rows[j]
  BY DEF Kept
<1>6. \A i \in 1 .. Len(s) : s[i].key # r.key
  <2> SUFFICES ASSUME NEW i \in 1 .. Len(s), s[i].key = r.key PROVE FALSE
    OBVIOUS
  <2>1. PICK j \in 1 .. n : s[i] = rows[j]
    BY <1>5
  <2>2. Len(rows) \in Nat
    BY LenProperties
  <2>3. j \in 1 .. Len(rows) /\ n + 1 \in 1 .. Len(rows) /\ j # n + 1
    BY <2>2
  <2> QED BY <2>1, <2>3 DEF Distinct
<1> HIDE DEF t, r
<1>7. ASSUME NEW i \in 1 .. Len(t)
      PROVE  InWindow(t[i]) /\ \E j \in 1 .. n + 1 : t[i] = rows[j]
  <2>1. CASE i \in 1 .. Len(s)
    <3>1. \A j \in 1 .. n : j \in 1 .. n + 1
      OBVIOUS
    <3> QED BY <1>3, <1>5, <2>1, <3>1
  <2>2. CASE i = Len(s) + 1
    <3>1. n + 1 \in 1 .. n + 1
      OBVIOUS
    <3> QED BY <1>3, <2>2, <3>1 DEF r
  <2> QED BY <1>4, <2>1, <2>2
<1>8. ASSUME NEW i \in 1 .. Len(t), NEW j \in 1 .. Len(t), t[i].key = t[j].key
      PROVE  i = j
  <2>1. CASE i \in 1 .. Len(s) /\ j \in 1 .. Len(s)
    BY <1>3, <1>8, <2>1 DEF Kept
  <2>2. CASE i = Len(s) + 1 \/ j = Len(s) + 1
    BY <1>3, <1>4, <1>6, <1>8, <2>2
  <2> QED BY <1>4, <2>1, <2>2
<1>9. Len(t) <= n + 1
  BY <1>1, <1>3
<1>10. ASSUME NEW j \in 1 .. n + 1, InWindow(rows[j])
       PROVE  \E i \in 1 .. Len(t) : t[i] = rows[j]
  <2>1. CASE j \in 1 .. n
    <3>1. PICK i \in 1 .. Len(s) : s[i] = rows[j]
      BY <1>10, <2>1 DEF Kept
    <3>2. i \in 1 .. Len(t)
      BY <1>1, <1>3
    <3> QED BY <1>3, <3>1, <3>2
  <2>2. CASE j = n + 1
    <3>1. Len(s) + 1 \in 1 .. Len(t)
      BY <1>1, <1>3
    <3> QED BY <1>3, <2>2, <3>1 DEF r
  <2> QED BY <2>1, <2>2
<1> QED BY <1>3, <1>7, <1>8, <1>9, <1>10 DEF Kept, t, r

\* All that is kept of the first n rows, for every n.
LEMMA KeptInduction ==
  ASSUME NEW rows \in Seq(Row), Distinct(rows), NEW f, IsKept(f, rows, Len(rows))
  PROVE  Kept(rows, Len(rows), f[Len(rows)])
<1>1. Len(rows) \in Nat
  BY LenProperties
<1> DEFINE N == Len(rows)
           T == {m \in Nat : m <= N => Kept(rows, m, f[m])}
<1>2. \A n \in 0 .. N :
        f[n] = IF n = 0 THEN <<>>
               ELSE IF InWindow(rows[n]) THEN Append(f[n - 1], rows[n]) ELSE f[n - 1]
  BY DEF IsKept
<1>3. 0 \in T
  <2>1. f[0] = <<>>
    BY <1>1, <1>2
  <2>2. <<>> \in Seq(Row) /\ Len(<<>>) = 0
    BY EmptySeq
  <2>3. Kept(rows, 0, <<>>)
    BY <2>2 DEF Kept
  <2> QED BY <2>1, <2>3
<1>4. ASSUME NEW m \in Nat, m \in T PROVE m + 1 \in T
  <2> SUFFICES ASSUME m + 1 <= N PROVE Kept(rows, m + 1, f[m + 1])
    OBVIOUS
  <2>1. Kept(rows, m, f[m])
    BY <1>1, <1>4
  <2>2. f[m + 1] = IF InWindow(rows[m + 1]) THEN Append(f[m], rows[m + 1]) ELSE f[m]
    <3>1. m + 1 \in 0 .. N /\ m + 1 # 0 /\ (m + 1) - 1 = m
      BY <1>1
    <3> HIDE DEF N
    <3> QED BY <1>2, <3>1
  <2>3. CASE InWindow(rows[m + 1])
    BY <2>1, <2>2, <2>3, KeepOne
  <2>4. CASE ~ InWindow(rows[m + 1])
    <3>1. f[m + 1] = f[m]
      BY <2>2, <2>4
    <3>2. Len(f[m]) \in Nat
      BY <2>1, LenProperties DEF Kept
    <3>3. Len(f[m]) <= m + 1 /\ \A j \in 1 .. m : j \in 1 .. m + 1
      BY <2>1, <3>2 DEF Kept
    <3>4. \A j \in 1 .. m + 1 : InWindow(rows[j]) => j \in 1 .. m
      BY <2>4
    <3> QED BY <2>1, <3>1, <3>3, <3>4 DEF Kept
  <2> QED BY <2>3, <2>4
<1> HIDE DEF T
<1>5. Nat \subseteq T
  BY <1>3, <1>4, SetInduction
<1>6. N \in T
  BY <1>1, <1>5
<1> QED BY <1>1, <1>6 DEF T

\* The list of the rows in the window has all of them, and none twice.
LEMMA InWindowOfAccount ==
  ASSUME NEW rows \in Seq(Row), Distinct(rows)
  PROVE  Kept(rows, Len(rows), InWindowOf(rows))
<1>1. Len(rows) \in Nat
  BY LenProperties
<1> DEFINE f == CHOOSE g : IsKept(g, rows, Len(rows))
<1>2. IsKept(f, rows, Len(rows))
  <2>1. \E g : IsKept(g, rows, Len(rows))
    BY <1>1, KeptExists
  <2> QED BY <2>1
<1>3. InWindowOf(rows) = f[Len(rows)]
  BY DEF InWindowOf, IsKept
<1> HIDE DEF f
<1> QED BY <1>2, <1>3, KeptInduction

------------------------------------------------------------------------------
(* Pages *)

\* A product is a natural number, and one page more is one page's rows more.
LEMMA PageStarts ==
  ASSUME NEW p \in Nat, NEW s \in Nat
  PROVE  p * s \in Nat /\ (p + 1) * s = p * s + s /\ 0 * s = 0
OBVIOUS

\* Page p exists exactly if it starts before the end of the list; and there are
\* no more pages than rows.
LEMMA PageExists ==
  ASSUME NEW n \in Nat, NEW s \in Nat \ {0}, NEW p \in Nat
  PROVE  /\ PageCount(n, s) \in Nat
         /\ p < PageCount(n, s) <=> p * s < n
         /\ PageCount(n, s) <= n
         /\ PageCount(n, s) = 0 <=> n = 0
<1> DEFINE q == (n + s - 1) \div s
<1>1. q \in Nat /\ q * s <= n + s - 1 /\ n + s - 1 < q * s + s
  OBVIOUS
<1> HIDE DEF q
<1>2. p < q => p * s < n
  <2> SUFFICES ASSUME p + 1 <= q PROVE p * s < n
    BY <1>1
  <2>1. (p + 1) * s <= q * s
    BY <1>1
  <2> QED BY <1>1, <2>1, PageStarts
<1>3. q <= p => n <= p * s
  <2> SUFFICES ASSUME q <= p PROVE n <= p * s
    OBVIOUS
  <2>1. q * s <= p * s
    BY <1>1
  <2> QED BY <1>1, <2>1, PageStarts
<1>4. q <= n
  <2> SUFFICES ASSUME n + 1 <= q PROVE FALSE
    BY <1>1
  <2>1. (n + 1) * s <= q * s
    BY <1>1
  <2>2. (n + 1) * s = n * s + s /\ n * s >= n
    BY PageStarts
  <2> QED BY <1>1, <2>1, <2>2
<1>5. q = 0 <=> n = 0
  BY <1>1, <1>4
<1> QED BY <1>1, <1>2, <1>3, <1>4, <1>5 DEF PageCount, q

LEMMA SmallerOfTwo ==
  ASSUME NEW a \in Int, NEW b \in Int
  PROVE  Min({a, b}) = IF a <= b THEN a ELSE b
BY DEF Min

\* Number of rows of page p of n rows.
OnPage(n, p, s) == IF n <= p * s THEN 0 ELSE IF n <= p * s + s THEN n - p * s ELSE s

\* The rows of a page, and how many there are.
LEMMA SliceProperties ==
  ASSUME NEW S, NEW rows \in Seq(S), NEW p \in Nat, NEW s \in Nat \ {0}
  PROVE  /\ Slice(rows, p, s) \in Seq(S)
         /\ Len(Slice(rows, p, s)) = OnPage(Len(rows), p, s)
         /\ \A i \in 1 .. Len(Slice(rows, p, s)) :
              p * s + i \in 1 .. Len(rows) /\ Slice(rows, p, s)[i] = rows[p * s + i]
<1> DEFINE o == p * s
           n == Len(rows)
           e == IF o + s <= n THEN o + s ELSE n
<1>1. o \in Nat /\ n \in Nat /\ e \in Nat
  BY PageStarts, LenProperties
<1>2. Slice(rows, p, s) = SubSeq(rows, o + 1, e)
  <2>1. o + s \in Int /\ n \in Int
    BY <1>1
  <2>2. Min({o + s, n}) = e
    <3> HIDE DEF o, n
    <3> QED BY <2>1, SmallerOfTwo
  <2> QED BY <2>2 DEF Slice
<1> HIDE DEF o
<1>3. \A i \in o + 1 .. e : rows[i] \in S
  BY <1>1, ElementOfSeq
<1>4. /\ SubSeq(rows, o + 1, e) \in Seq(S)
      /\ Len(SubSeq(rows, o + 1, e)) = IF o + 1 <= e THEN e - (o + 1) + 1 ELSE 0
      /\ \A i \in 1 .. e - (o + 1) + 1 : SubSeq(rows, o + 1, e)[i] = rows[o + 1 + i - 1]
  <2> HIDE DEF e
  <2>1. o + 1 \in Int /\ e \in Int
    BY <1>1
  <2> QED BY <1>3, <2>1, SubSeqProperties
<1>5. Len(SubSeq(rows, o + 1, e)) = OnPage(n, p, s)
  <2>1. OnPage(n, p, s) = IF n <= o THEN 0 ELSE IF n <= o + s THEN n - o ELSE s
    BY DEF OnPage, o
  <2> HIDE DEF n
  <2> QED BY <1>1, <1>4, <2>1
<1>6. ASSUME NEW i \in 1 .. Len(SubSeq(rows, o + 1, e))
      PROVE  o + i \in 1 .. n /\ SubSeq(rows, o + 1, e)[i] = rows[o + i]
  <2>1. i \in 1 .. e - (o + 1) + 1 /\ o + 1 + i - 1 = o + i
    BY <1>1, <1>4
  <2> QED BY <1>1, <1>4, <2>1
<1> QED BY <1>2, <1>4, <1>5, <1>6 DEF o

\* The pages up to p and page p are the pages up to the next, or the whole list.
LEMMA NextSlice ==
  ASSUME NEW S, NEW rows \in Seq(S), NEW p \in Nat, NEW s \in Nat \ {0},
         p = 0 \/ p * s < Len(rows)
  PROVE  /\ (p + 1) * s < Len(rows) =>
              SubSeq(rows, 1, p * s) \o Slice(rows, p, s) = SubSeq(rows, 1, (p + 1) * s)
         /\ Len(rows) <= (p + 1) * s =>
              SubSeq(rows, 1, p * s) \o Slice(rows, p, s) = rows
<1> DEFINE o == p * s
           n == Len(rows)
           e == IF o + s <= n THEN o + s ELSE n
<1>1. o \in Nat /\ n \in Nat /\ (p + 1) * s = o + s /\ o <= n
  BY PageStarts, LenProperties
<1>2. Slice(rows, p, s) = SubSeq(rows, o + 1, e)
  <2>1. o + s \in Int /\ n \in Int
    BY <1>1
  <2>2. Min({o + s, n}) = e
    <3> HIDE DEF o, n
    <3> QED BY <2>1, SmallerOfTwo
  <2> QED BY <2>2 DEF Slice
<1> HIDE DEF o
<1>3. SubSeq(rows, 1, o) \o SubSeq(rows, o + 1, e) = SubSeq(rows, 1, e)
  <2>1. 1 \in 1 .. n + 1 /\ o \in 1 - 1 .. n /\ e \in o .. n
    BY <1>1
  <2> HIDE DEF e
  <2> QED BY <2>1, ConcatAdjacentSubSeq
<1>4. SubSeq(rows, 1, n) = rows
  BY SubSeqFull
<1>5. (p + 1) * s < n => e = (p + 1) * s
  BY <1>1
<1>6. n <= (p + 1) * s => e = n
  BY <1>1
<1> HIDE DEF e, n
<1> QED BY <1>2, <1>3, <1>4, <1>5, <1>6 DEF o, n

------------------------------------------------------------------------------
(* Wrong answers *)

\* What one fault makes of the rows of an answer.
BadRows(rows, bad) ==
  LET I == 1 .. Len(rows) IN
  \/ \E i \in I : bad = RemoveAt(rows, i)
  \/ \E i, j \in I : bad = [rows EXCEPT ![i] = rows[j]]
  \/ \E j \in I : bad = Append(rows, rows[j])
  \/ \E i \in I : bad = [rows EXCEPT ![i].sound = FALSE]
  \/ \E i \in I, t \in Times \ (Start .. End) : bad = [rows EXCEPT ![i].at = t]

\* One row is one less.
LEMMA RemoveOne ==
  ASSUME NEW S, NEW rows \in Seq(S), NEW i \in 1 .. Len(rows)
  PROVE  /\ RemoveAt(rows, i) \in Seq(S)
         /\ Len(RemoveAt(rows, i)) = Len(rows) - 1
         /\ \A k \in 1 .. Len(rows) - 1 :
              RemoveAt(rows, i)[k] = rows[IF k < i THEN k ELSE k + 1]
<1> DEFINE n == Len(rows)
           a == SubSeq(rows, 1, i - 1)
           b == SubSeq(rows, i + 1, n)
<1>1. n \in Nat /\ i \in Nat /\ 1 <= i /\ i <= n
  BY LenProperties
<1>2. \A k \in 1 .. n : rows[k] \in S
  BY ElementOfSeq
<1> HIDE DEF n
<1>3. /\ a \in Seq(S) /\ Len(a) = i - 1
      /\ \A k \in 1 .. i - 1 : a[k] = rows[k]
  <2>1. \A k \in 1 .. i - 1 : rows[k] \in S
    BY <1>1, <1>2
  <2>2. /\ a \in Seq(S)
        /\ Len(a) = IF 1 <= i - 1 THEN (i - 1) - 1 + 1 ELSE 0
        /\ \A k \in 1 .. (i - 1) - 1 + 1 : a[k] = rows[1 + k - 1]
    <3>1. 1 \in Int /\ i - 1 \in Int
      BY <1>1
    <3> QED BY <2>1, <3>1, SubSeqProperties
  <2> HIDE DEF a
  <2> QED BY <1>1, <2>2
<1>4. /\ b \in Seq(S) /\ Len(b) = n - i
      /\ \A k \in 1 .. n - i : b[k] = rows[i + k]
  <2>1. \A k \in i + 1 .. n : rows[k] \in S
    BY <1>1, <1>2
  <2>2. /\ b \in Seq(S)
        /\ Len(b) = IF i + 1 <= n THEN n - (i + 1) + 1 ELSE 0
        /\ \A k \in 1 .. n - (i + 1) + 1 : b[k] = rows[(i + 1) + k - 1]
    <3>1. i + 1 \in Int /\ n \in Int
      BY <1>1
    <3> QED BY <2>1, <3>1, SubSeqProperties
  <2> HIDE DEF b
  <2>3. \A k \in 1 .. n - i : (i + 1) + k - 1 = i + k
    BY <1>1
  <2> QED BY <1>1, <2>2, <2>3
<1>5. RemoveAt(rows, i) = a \o b
  BY DEF RemoveAt, n
<1> HIDE DEF a, b
<1>6. /\ a \o b \in Seq(S) /\ Len(a \o b) = n - 1
      /\ \A k \in 1 .. n - 1 : (a \o b)[k] = IF k <= i - 1 THEN a[k] ELSE b[k - (i - 1)]
  <2>1. /\ a \o b \in Seq(S) /\ Len(a \o b) = Len(a) + Len(b)
        /\ \A k \in 1 .. Len(a) + Len(b) :
             (a \o b)[k] = IF k <= Len(a) THEN a[k] ELSE b[k - Len(a)]
    BY <1>3, <1>4, ConcatProperties
  <2>2. Len(a) + Len(b) = n - 1
    BY <1>1, <1>3, <1>4
  <2> QED BY <1>3, <2>1, <2>2
<1>7. ASSUME NEW k \in 1 .. n - 1
      PROVE  (a \o b)[k] = rows[IF k < i THEN k ELSE k + 1]
  <2>1. CASE k < i
    BY <1>1, <1>3, <1>6, <2>1
  <2>2. CASE ~ (k < i)
    <3>1. k - (i - 1) \in 1 .. n - i /\ i + (k - (i - 1)) = k + 1
      BY <1>1, <2>2
    <3>2. (a \o b)[k] = b[k - (i - 1)]
      BY <1>1, <1>6, <2>2
    <3> QED BY <1>4, <2>2, <3>1, <3>2
  <2> QED BY <2>1, <2>2
<1> QED BY <1>5, <1>6, <1>7 DEF n

\* Wrong rows are the right ones, or too many or too few, or not sound.
LEMMA BadRowsShow ==
  ASSUME NEW rows \in Seq(Row), NEW bad, BadRows(rows, bad)
  PROVE  /\ bad \in Seq(Row) /\ 0 < Len(rows)
         /\ bad = rows \/ Len(bad) # Len(rows) \/ ~ RowsSound(bad)
<1> DEFINE n == Len(rows)
<1>1. n \in Nat /\ DOMAIN rows = 1 .. n /\ \A i \in 1 .. n : rows[i] \in Row
  BY LenProperties, ElementOfSeq
<1>2. ASSUME NEW i \in 1 .. n, NEW r \in Row
      PROVE  /\ [rows EXCEPT ![i] = r] \in Seq(Row)
             /\ DOMAIN [rows EXCEPT ![i] = r] = 1 .. n
             /\ \A j \in 1 .. n : [rows EXCEPT ![i] = r][j] = IF j = i THEN r ELSE rows[j]
  BY <1>1, ExceptSeq
<1>3. CASE \E i \in 1 .. n : bad = RemoveAt(rows, i)
  BY <1>1, <1>3, RemoveOne
<1>4. CASE \E i, j \in 1 .. n : bad = [rows EXCEPT ![i] = rows[j]]
  <2>1. PICK i, j \in 1 .. n : bad = [rows EXCEPT ![i] = rows[j]]
    BY <1>4
  <2>2. /\ bad \in Seq(Row) /\ DOMAIN bad = 1 .. n
        /\ \A k \in 1 .. n : bad[k] = IF k = i THEN rows[j] ELSE rows[k]
    BY <1>1, <1>2, <2>1
  <2>3. CASE i = j
    <3>1. Len(bad) = n
      BY <1>1, <2>1, ExceptSeq
    <3>2. \A k \in 1 .. Len(bad) : bad[k] = rows[k]
      BY <2>2, <2>3, <3>1
    <3>3. bad = rows
      BY <2>2, <3>1, <3>2, SeqEqual
    <3> QED BY <1>1, <2>2, <3>3
  <2>4. CASE i # j
    <3>1. bad[i].key = bad[j].key
      BY <2>2, <2>4
    <3> QED BY <1>1, <2>2, <2>4, <3>1 DEF RowsSound
  <2> QED BY <2>3, <2>4
<1>5. CASE \E j \in 1 .. n : bad = Append(rows, rows[j])
  <2>1. PICK j \in 1 .. n : bad = Append(rows, rows[j])
    BY <1>5
  <2>2. bad \in Seq(Row) /\ Len(bad) = n + 1
    BY <1>1, <2>1, AppendProperties
  <2> HIDE DEF n
  <2>3. 0 < n
    BY <1>1
  <2>4. Len(bad) # n
    BY <1>1, <2>2
  <2> QED BY <2>2, <2>3, <2>4 DEF n
<1>6. CASE \E i \in 1 .. n : bad = [rows EXCEPT ![i].sound = FALSE]
  <2>1. PICK i \in 1 .. n : bad = [rows EXCEPT ![i].sound = FALSE]
    BY <1>6
  <2> DEFINE r == [rows[i] EXCEPT !.sound = FALSE]
  <2>2. r \in Row /\ ~ r.sound
    BY <1>1 DEF Row
  <2>3. bad = [rows EXCEPT ![i] = r]
    BY <2>1
  <2> HIDE DEF r
  <2>4. bad \in Seq(Row) /\ DOMAIN bad = 1 .. n /\ bad[i] = r
    BY <1>2, <2>2, <2>3
  <2> QED BY <1>1, <2>2, <2>4 DEF RowsSound
<1>7. CASE \E i \in 1 .. n, t \in Times \ (Start .. End) : bad = [rows EXCEPT ![i].at = t]
  <2>1. PICK i \in 1 .. n, t \in Times \ (Start .. End) : bad = [rows EXCEPT ![i].at = t]
    BY <1>7
  <2> DEFINE r == [rows[i] EXCEPT !.at = t]
  <2>2. r \in Row /\ ~ InWindow(r)
    BY <1>1 DEF Row, InWindow
  <2>3. bad = [rows EXCEPT ![i] = r]
    BY <2>1
  <2> HIDE DEF r
  <2>4. bad \in Seq(Row) /\ DOMAIN bad = 1 .. n /\ bad[i] = r
    BY <1>2, <2>2, <2>3
  <2> QED BY <1>1, <2>2, <2>4 DEF RowsSound
<1> QED BY <1>3, <1>4, <1>5, <1>6, <1>7 DEF BadRows

\* One fault makes an answer name another window, or changes one counter, or the
\* rows; the rest of the answer stays.
OneFault(r, x) ==
  \/ ~ x.window
  \/ /\ x.window = r.window /\ x.rows = r.rows
     /\ \/ x.size = r.size /\ x.pages = r.pages /\ x.total = r.total
        \/ x.current = r.current /\ x.pages = r.pages /\ x.total = r.total
        \/ x.current = r.current /\ x.size = r.size /\ x.total = r.total
        \/ x.current = r.current /\ x.size = r.size /\ x.pages = r.pages
  \/ /\ x.window = r.window /\ BadRows(r.rows, x.rows)
     /\ x.current = r.current /\ x.size = r.size /\ x.pages = r.pages /\ x.total = r.total

LEMMA FaultyAnswer ==
  ASSUME NEW r \in Answer, NEW x \in Faulty(r)
  PROVE  x \in Answer /\ OneFault(r, x)
<1>1. CASE x = [r EXCEPT !.window = FALSE]
  BY <1>1 DEF Answer, OneFault
<1>2. CASE \E f \in Counters, c \in Counter : x = [r EXCEPT ![f] = c]
  <2>1. PICK f \in Counters, c \in Counter : x = [r EXCEPT ![f] = c]
    BY <1>2
  <2>2. c \in AnyCounter
    BY ListingAssumption DEF Counter, AnyCounter
  <2>3. CASE f = "current"
    BY <2>1, <2>2, <2>3 DEF Answer, OneFault
  <2>4. CASE f = "size"
    BY <2>1, <2>2, <2>4 DEF Answer, OneFault
  <2>5. CASE f = "pages"
    BY <2>1, <2>2, <2>5 DEF Answer, OneFault
  <2>6. CASE f = "total"
    BY <2>1, <2>2, <2>6 DEF Answer, OneFault
  <2> QED BY <2>3, <2>4, <2>5, <2>6 DEF Counters
<1>3. CASE \E bad : BadRows(r.rows, bad) /\ x = [r EXCEPT !.rows = bad]
  <2>1. PICK bad : BadRows(r.rows, bad) /\ x = [r EXCEPT !.rows = bad]
    BY <1>3
  <2>2. r.rows \in Seq(Row)
    BY DEF Answer
  <2>3. bad \in Seq(Row)
    BY <2>1, <2>2, BadRowsShow
  <2> QED BY <2>1, <2>3 DEF Answer, OneFault
<1> DEFINE I == 1 .. Len(r.rows)
<1>4. \/ x = [r EXCEPT !.window = FALSE]
      \/ \E f \in Counters, c \in Counter : x = [r EXCEPT ![f] = c]
      \/ \E i \in I : x = [r EXCEPT !.rows = RemoveAt(r.rows, i)]
      \/ \E i, j \in I : x = [r EXCEPT !.rows = [r.rows EXCEPT ![i] = r.rows[j]]]
      \/ \E j \in I : x = [r EXCEPT !.rows = Append(r.rows, r.rows[j])]
      \/ \E i \in I : x = [r EXCEPT !.rows = [r.rows EXCEPT ![i].sound = FALSE]]
      \/ \E i \in I, t \in Times \ (Start .. End) :
           x = [r EXCEPT !.rows = [r.rows EXCEPT ![i].at = t]]
  BY DEF Faulty
<1> QED BY <1>1, <1>2, <1>3, <1>4 DEF BadRows

------------------------------------------------------------------------------
(* Right answers *)

\* The rows of an account, and what an account is.
SoundRow == [key : Keys, at : Times, sound : {TRUE}]

LEMMA AccountRows ==
  ASSUME NEW rows
  PROVE  rows \in Accounts <=>
           /\ rows \in Seq(SoundRow) /\ Len(rows) <= Cardinality(Keys)
           /\ Distinct(rows)
<1>1. Cardinality(Keys) \in Nat
  BY ListingAssumption, FS_CardinalityType
<1>2. rows \in SeqOf(SoundRow, Cardinality(Keys)) <=>
        rows \in Seq(SoundRow) /\ Len(rows) <= Cardinality(Keys)
  <2>1. ASSUME rows \in Seq(SoundRow), Len(rows) <= Cardinality(Keys)
        PROVE  rows \in SeqOf(SoundRow, Cardinality(Keys))
    <3>1. rows \in [1 .. Len(rows) -> SoundRow] /\ Len(rows) \in 0 .. Cardinality(Keys)
      BY <1>1, <2>1, LenProperties
    <3> QED BY <3>1 DEF SeqOf
  <2>2. ASSUME rows \in SeqOf(SoundRow, Cardinality(Keys))
        PROVE  rows \in Seq(SoundRow) /\ Len(rows) <= Cardinality(Keys)
    <3>1. PICK m \in 0 .. Cardinality(Keys) : rows \in [1 .. m -> SoundRow]
      BY <2>2 DEF SeqOf
    <3>2. m \in Nat /\ m <= Cardinality(Keys)
      BY <1>1, <3>1
    <3>3. rows \in Seq(SoundRow)
      BY <3>1, <3>2, SeqDef
    <3>4. Len(rows) = m
      BY <3>1, <3>2, <3>3, LenProperties
    <3> QED BY <3>2, <3>3, <3>4
  <2> QED BY <2>1, <2>2
<1>3. rows \in Seq(SoundRow) => DOMAIN rows = 1 .. Len(rows)
  BY LenProperties
<1> QED BY <1>2, <1>3 DEF Accounts, SoundRow, Distinct

\* What the provider lists of an account: sound rows in the window, none twice.
LEMMA WindowRows ==
  ASSUME NEW rows \in Accounts
  PROVE  InWindowOf(rows) \in Seq(Row) /\ RowsSound(InWindowOf(rows))
<1> DEFINE w == InWindowOf(rows)
<1>1. rows \in Seq(SoundRow) /\ Distinct(rows)
  BY AccountRows
<1>2. SoundRow \subseteq Row
  BY DEF SoundRow, Row
<1>3. rows \in Seq(Row)
  BY <1>1, <1>2, SeqMonotonic
<1>4. Kept(rows, Len(rows), w)
  BY <1>1, <1>3, InWindowOfAccount
<1> HIDE DEF w
<1>5. w \in Seq(Row) /\ DOMAIN w = 1 .. Len(w)
  BY <1>4, LenProperties DEF Kept
<1>6. \A i \in 1 .. Len(w) : w[i].sound
  <2> TAKE i \in 1 .. Len(w)
  <2>1. PICK j \in 1 .. Len(rows) : w[i] = rows[j]
    BY <1>4 DEF Kept
  <2>2. rows[j] \in SoundRow
    BY <1>1, ElementOfSeq
  <2> QED BY <2>1, <2>2 DEF SoundRow
<1> QED BY <1>4, <1>5, <1>6 DEF Kept, RowsSound, w

\* So is every page of it.
LEMMA SliceSound ==
  ASSUME NEW rows \in Seq(Row), RowsSound(rows), NEW p \in Nat, NEW s \in Nat \ {0}
  PROVE  RowsSound(Slice(rows, p, s))
<1> DEFINE t == Slice(rows, p, s)
           o == p * s
<1>1. t \in Seq(Row) /\ \A i \in 1 .. Len(t) : o + i \in 1 .. Len(rows) /\ t[i] = rows[o + i]
  BY SliceProperties
<1>2. o \in Nat /\ DOMAIN rows = 1 .. Len(rows)
  BY PageStarts, LenProperties
<1> HIDE DEF t, o
<1>3. DOMAIN t = 1 .. Len(t) /\ Len(t) \in Nat
  BY <1>1, LenProperties
<1>4. \A i \in DOMAIN t : t[i].sound /\ InWindow(t[i])
  BY <1>1, <1>2, <1>3 DEF RowsSound
<1>5. ASSUME NEW i \in DOMAIN t, NEW j \in DOMAIN t, t[i].key = t[j].key PROVE i = j
  <2>1. o + i = o + j
    BY <1>1, <1>2, <1>3, <1>5 DEF RowsSound
  <2> QED BY <1>2, <1>3, <2>1
<1> QED BY <1>4, <1>5 DEF RowsSound, t

\* A list of one page is its first page.
LEMMA FirstSlice ==
  ASSUME NEW S, NEW rows \in Seq(S), NEW s \in Nat \ {0}, Len(rows) <= s
  PROVE  Slice(rows, 0, s) = rows
<1>1. 0 * s = 0 /\ (0 + 1) * s = s
  BY PageStarts
<1>2. SubSeq(rows, 1, 0) = <<>>
  BY SubSeqEmpty
<1>3. SubSeq(rows, 1, 0 * s) \o Slice(rows, 0, s) = rows
  BY <1>1, NextSlice
<1>4. Slice(rows, 0, s) \in Seq(S)
  BY SliceProperties
<1>5. <<>> \o Slice(rows, 0, s) = Slice(rows, 0, s)
  BY <1>4, ConcatEmptySeq
<1> QED BY <1>1, <1>2, <1>3, <1>5

\* The provider's answer: its counters and its rows.
LEMMA HonestAnswerIs ==
  ASSUME account \in Accounts, NEW p \in Nat, NEW s \in Nat \ {0}, NEW empty \in {0, 1}
  PROVE  LET r == HonestAnswer(p, s, empty)
             n == Len(Window)
         IN  /\ r \in Answer /\ n \in Nat
             /\ r.window /\ r.current = Number(p) /\ r.size = Number(s)
             /\ r.total = Number(n)
             /\ r.pages = Number(IF n = 0 THEN empty ELSE PageCount(n, s))
             /\ r.rows = Slice(Window, p, s) /\ Len(r.rows) = OnPage(n, p, s)
             /\ RowsSound(r.rows)
<1> DEFINE r == HonestAnswer(p, s, empty)
           n == Len(Window)
<1>1. Window \in Seq(Row) /\ RowsSound(Window)
  BY WindowRows DEF Window
<1>2. n \in Nat /\ (n = 0 <=> Window = <<>>)
  BY <1>1, LenProperties, EmptySeq
<1>3. PageCount(n, s) \in Nat
  BY <1>2, PageExists
<1>4. /\ Slice(Window, p, s) \in Seq(Row) /\ RowsSound(Slice(Window, p, s))
      /\ Len(Slice(Window, p, s)) = OnPage(n, p, s)
  BY <1>1, SliceProperties, SliceSound
<1> HIDE DEF n
<1>5. /\ r.window /\ r.current = Number(p) /\ r.size = Number(s)
      /\ r.total = Number(n)
      /\ r.pages = Number(IF n = 0 THEN empty ELSE PageCount(n, s))
      /\ r.rows = Slice(Window, p, s)
  BY <1>2 DEF HonestAnswer, n
<1>6. \A m \in Nat : Number(m) \in AnyCounter
  BY DEF Number, AnyCounter, Forms
<1>7. r \in Answer
  BY <1>2, <1>3, <1>4, <1>6 DEF HonestAnswer, Answer, n
<1> QED BY <1>2, <1>4, <1>5, <1>7 DEF n

------------------------------------------------------------------------------
(* Evidence *)

\* What is checked of an answer before it is called validated.
Checked(p, r) ==
  /\ size # None
  /\ r.window
  /\ \A f \in Counters : webhookPageInteger(r[f])
  /\ r.current.n = p /\ r.size.n = size /\ Len(r.rows) <= size
  /\ PagesCount(r) /\ RowsCount(r) /\ RowsSound(r.rows)

LEMMA ProvenanceIs ==
  ASSUME NEW p, NEW r
  PROVE  /\ webhookPageProvenance(p, r) \in [validated : BOOLEAN, complete : BOOLEAN]
         /\ webhookPageProvenance(p, r).validated <=> Checked(p, r)
         /\ webhookPageProvenance(p, r).complete <=>
              Checked(p, r) /\ r.current.n = 0 /\ r.pages.n = 1 /\ r.total.n = Len(r.rows)
<1> DEFINE v == Checked(p, r)
           c == v /\ r.current.n = 0 /\ r.pages.n = 1 /\ r.total.n = Len(r.rows)
<1>1. v \in BOOLEAN /\ c \in BOOLEAN
  BY DEF Checked
<1>2. webhookPageProvenance(p, r) = [validated |-> v, complete |-> c]
  BY DEF webhookPageProvenance, Checked
<1> HIDE DEF v, c
<1>3. webhookPageProvenance(p, r) \in [validated : BOOLEAN, complete : BOOLEAN]
  BY <1>1, <1>2
<1>4. webhookPageProvenance(p, r).validated = v /\ webhookPageProvenance(p, r).complete = c
  BY <1>2
<1> QED BY <1>3, <1>4 DEF v, c

\* The counters of an answer that is checked.
LEMMA CheckedCounters ==
  ASSUME NEW p \in Nat, NEW r \in Answer, Checked(p, r)
  PROVE  /\ r.current = Number(p) /\ r.size.n = size
         /\ r.pages.form = "number" /\ r.total.form = "number"
         /\ r.pages.n \in Nat /\ r.total.n \in Nat /\ Len(r.rows) \in Nat
         /\ r.total.n <= MaxInt32
<1>1. /\ r.current \in AnyCounter /\ r.pages \in AnyCounter /\ r.total \in AnyCounter
      /\ r.rows \in Seq(Row)
  BY DEF Answer
<1>2. /\ webhookPageInteger(r.current) /\ webhookPageInteger(r.pages)
      /\ webhookPageInteger(r.total)
  BY DEF Checked, Counters
<1>3. r.current = Number(p)
  BY <1>1, <1>2 DEF Checked, webhookPageInteger, Number, AnyCounter
<1>4. Len(r.rows) \in Nat
  BY <1>1, LenProperties
<1> QED BY <1>1, <1>2, <1>3, <1>4 DEF Checked, webhookPageInteger, AnyCounter

\* The evidence is true.  Let the answer be right, or wrong in one thing, and
\* pass the checks: then its rows are those of the page that was asked for, the
\* number of its pages is right, and if it is complete its rows are all.
LEMMA CheckedPage ==
  ASSUME account \in Accounts, NEW p \in Nat, size \in Nat \ {0}, NEW empty \in {0, 1},
         NEW r \in Answer, Checked(p, r),
         LET h == HonestAnswer(p, size, empty) IN r = h \/ OneFault(h, r)
  PROVE  LET n == Len(Window) IN
         /\ r.rows = Slice(Window, p, size)
         /\ p * size < n \/ (p = 0 /\ n = 0)
         /\ IF n = 0 THEN r.pages.n \in {0, 1} ELSE r.pages.n = PageCount(n, size)
<1> DEFINE h == HonestAnswer(p, size, empty)
           n == Len(Window)
           o == p * size
           k == Len(h.rows)
           t == r.total.n
<1>1. /\ h \in Answer /\ n \in Nat /\ h.window /\ h.total.n = n
      /\ h.pages.n = IF n = 0 THEN empty ELSE PageCount(n, size)
      /\ h.rows = Slice(Window, p, size)
      /\ k = IF n <= o THEN 0 ELSE IF n <= o + size THEN n - o ELSE size
  <2>1. /\ h \in Answer /\ n \in Nat
        /\ h.window /\ h.total = Number(n)
        /\ h.pages = Number(IF n = 0 THEN empty ELSE PageCount(n, size))
        /\ h.rows = Slice(Window, p, size) /\ k = OnPage(n, p, size)
    BY HonestAnswerIs
  <2> HIDE DEF h
  <2> QED BY <2>1 DEF Number, OnPage
<1>2. o \in Nat
  BY PageStarts
<1>3. /\ r.window /\ r.current.n = p /\ r.size.n = size
      /\ r.pages.n \in Nat /\ t \in Nat /\ Len(r.rows) \in Nat
  BY CheckedCounters DEF Checked, Number
<1>4. Len(r.rows) = IF t - o > size THEN size ELSE t - o
  BY <1>3 DEF Checked, RowsCount
<1>5. IF t = 0 THEN p = 0 /\ r.pages.n \in {0, 1} /\ r.rows = <<>>
      ELSE r.pages.n = PageCount(t, size) /\ p < r.pages.n
  BY <1>3 DEF Checked, PagesCount
<1>6. ASSUME NEW m \in Nat
      PROVE  PageCount(m, size) \in Nat /\ (p < PageCount(m, size) <=> o < m)
  BY PageExists
<1>7. r = h \/ OneFault(h, r)
  OBVIOUS
<1> HIDE DEF h, o
<1>8. r.rows = h.rows
  <2> SUFFICES ASSUME r.rows # h.rows PROVE FALSE
    OBVIOUS
  <2>1. BadRows(h.rows, r.rows) /\ r.total = h.total
    BY <1>3, <1>7 DEF OneFault
  <2>2. h.rows \in Seq(Row)
    BY <1>1 DEF Answer
  <2>3. 0 < k /\ Len(r.rows) # k
    BY <2>1, <2>2, BadRowsShow DEF Checked
  <2>4. t = n /\ o < n
    BY <1>1, <1>2, <2>1, <2>3
  <2> QED BY <1>1, <1>2, <1>4, <2>3, <2>4
<1>9. CASE t = n
  <2>1. o < n \/ (p = 0 /\ n = 0)
    BY <1>5, <1>6, <1>9, <1>1
  <2> QED BY <1>1, <1>5, <1>8, <1>9, <2>1 DEF o
<1>10. CASE t # n
  <2>1. r.pages = h.pages
    BY <1>1, <1>3, <1>7, <1>10 DEF OneFault
  <2>2. t # 0
    <3> SUFFICES ASSUME t = 0 PROVE FALSE
      OBVIOUS
    <3>1. p = 0 /\ k = 0
      BY <1>5, <1>8, EmptySeq
    <3>2. o = 0
      BY <3>1, PageStarts DEF o
    <3> QED BY <1>1, <1>10, <3>1, <3>2
  <2>3. o < t
    BY <1>3, <1>5, <1>6, <2>2
  <2>4. 0 < k
    BY <1>2, <1>3, <1>4, <1>8, <2>3
  <2>5. o < n
    BY <1>1, <1>2, <2>4
  <2> QED BY <1>1, <1>2, <1>8, <2>1, <2>5 DEF o
<1> QED BY <1>9, <1>10

\* A complete page is the whole list.
LEMMA CompletePage ==
  ASSUME account \in Accounts, NEW p \in Nat, size \in Nat \ {0}, NEW empty \in {0, 1},
         NEW r \in Answer, Checked(p, r),
         LET h == HonestAnswer(p, size, empty) IN r = h \/ OneFault(h, r),
         r.current.n = 0, r.pages.n = 1
  PROVE  p = 0 /\ Len(Window) <= size /\ r.rows = Window
<1> DEFINE n == Len(Window)
<1>1. /\ r.rows = Slice(Window, p, size)
      /\ IF n = 0 THEN r.pages.n \in {0, 1} ELSE r.pages.n = PageCount(n, size)
  BY CheckedPage
<1>2. p = 0
  BY DEF Checked
<1>3. Window \in Seq(Row) /\ n \in Nat
  BY WindowRows, LenProperties DEF Window
<1>4. n <= size
  <2>1. 1 < PageCount(n, size) <=> 1 * size < n
    BY <1>3, PageExists
  <2> HIDE DEF n
  <2> QED BY <1>1, <1>3, <2>1
<1> QED BY <1>1, <1>2, <1>3, <1>4, FirstSlice

\* A right answer passes the checks, if the page exists or the list is empty, and
\* its counters can hold the list.
LEMMA RightAnswerChecked ==
  ASSUME account \in Accounts, NEW p \in Nat, size \in 1 .. MaxPageSize,
         NEW empty \in {0, 1}
  PROVE  Checked(p, HonestAnswer(p, size, empty)) <=>
           /\ p * size < Len(Window) \/ (p = 0 /\ Window = <<>>)
           /\ Len(Window) <= MaxInt32
<1> DEFINE h == HonestAnswer(p, size, empty)
           n == Len(Window)
           o == p * size
<1>1. size \in Nat \ {0} /\ size <= MaxInt32 /\ size # None /\ 1 <= MaxInt32 /\ MaxInt32 \in Nat
  BY ListingAssumption
<1>2. /\ h \in Answer /\ n \in Nat
      /\ h.window /\ h.current = Number(p) /\ h.size = Number(size) /\ h.total = Number(n)
      /\ h.pages = Number(IF n = 0 THEN empty ELSE PageCount(n, size))
      /\ Len(h.rows) = OnPage(n, p, size) /\ RowsSound(h.rows)
  BY <1>1, HonestAnswerIs
<1>3. o \in Nat /\ p <= o /\ (p = 0 => o = 0)
  <2>1. p * 1 <= p * size
    BY <1>1
  <2> QED BY <1>1, <2>1, PageStarts
<1>4. n = 0 <=> Window = <<>>
  <2>1. Window \in Seq(Row)
    BY WindowRows DEF Window
  <2> QED BY <2>1, EmptySeq
<1> HIDE DEF h
<1>5. /\ h.current.n = p /\ h.current.form = "number"
      /\ h.size.n = size /\ h.size.form = "number"
      /\ h.total.n = n /\ h.total.form = "number"
      /\ h.pages.n = (IF n = 0 THEN empty ELSE PageCount(n, size)) /\ h.pages.form = "number"
  BY <1>2 DEF Number
<1>6. Len(h.rows) = IF n <= o THEN 0 ELSE IF n <= o + size THEN n - o ELSE size
  BY <1>2 DEF OnPage
<1>7. PageCount(n, size) \in Nat /\ (p < PageCount(n, size) <=> o < n) /\ PageCount(n, size) <= n
  BY <1>1, <1>2, PageExists
<1> HIDE DEF n, o
<1>8. ASSUME Checked(p, h) PROVE (o < n \/ (p = 0 /\ n = 0)) /\ n <= MaxInt32
  <2>1. PagesCount(h) /\ webhookPageInteger(h.total)
    BY <1>8 DEF Checked, Counters
  <2> QED BY <1>2, <1>5, <1>7, <2>1 DEF PagesCount, webhookPageInteger
<1>9. ASSUME o < n \/ (p = 0 /\ n = 0), n <= MaxInt32 PROVE Checked(p, h)
  <2>1. \A f \in Counters : webhookPageInteger(h[f])
    <3>1. p <= MaxInt32
      BY <1>1, <1>2, <1>3, <1>9
    <3>2. h.pages.n <= MaxInt32
      BY <1>1, <1>2, <1>5, <1>7, <1>9
    <3> QED BY <1>1, <1>5, <1>9, <3>1, <3>2 DEF Counters, webhookPageInteger
  <2>2. Len(h.rows) <= size
    BY <1>1, <1>2, <1>3, <1>6
  <2>3. PagesCount(h)
    <3>1. CASE n = 0
      <4>1. p = 0 /\ Len(h.rows) = 0
        BY <1>3, <1>6, <1>9, <3>1
      <4>2. h.rows \in Seq(Row)
        BY <1>2 DEF Answer
      <4>3. h.rows = <<>>
        BY <4>1, <4>2, EmptySeq
      <4> QED BY <1>5, <3>1, <4>1, <4>3 DEF PagesCount
    <3>2. CASE n # 0
      BY <1>5, <1>7, <1>9, <3>2 DEF PagesCount
    <3> QED BY <3>1, <3>2
  <2>4. RowsCount(h)
    <3>1. h.total.n - h.current.n * h.size.n = n - o
      BY <1>5 DEF o
    <3>2. Len(h.rows) = IF n - o > size THEN size ELSE n - o
      BY <1>1, <1>2, <1>3, <1>6, <1>9
    <3> QED BY <1>5, <3>1, <3>2 DEF RowsCount
  <2> QED BY <1>1, <1>2, <1>5, <2>1, <2>2, <2>3, <2>4 DEF Checked
<1> QED BY <1>4, <1>8, <1>9 DEF h, n, o

------------------------------------------------------------------------------
(* The cursor *)

\* The cursor of an answer with the right page and number of pages is empty
\* exactly if the list ends with this page.
LEMMA CursorIs ==
  ASSUME account \in Accounts, NEW p \in Nat, NEW s \in Nat \ {0},
         NEW r, r.current = Number(p), r.pages.form = "number", r.pages.n \in Nat,
         LET n == Len(Window) IN
         IF n = 0 THEN r.pages.n \in {0, 1} ELSE r.pages.n = PageCount(n, s)
  PROVE  nextWebhookPageCursor(r) = IF (p + 1) * s < Len(Window) THEN p + 1 ELSE None
<1> DEFINE n == Len(Window)
           e == (p + 1) * s
<1>1. n \in Nat
  <2>1. Window \in Seq(Row)
    BY WindowRows DEF Window
  <2> QED BY <2>1, LenProperties
<1>2. e \in Nat /\ p + 1 \in Nat
  BY PageStarts
<1>3. PageCount(n, s) \in Nat /\ (p + 1 < PageCount(n, s) <=> e < n)
  BY <1>1, <1>2, PageExists
<1> HIDE DEF n, e
<1>4. p + 1 >= r.pages.n <=> ~ (e < n)
  <2>1. CASE n = 0
    BY <1>1, <1>2, <2>1 DEF n
  <2>2. CASE n # 0
    <3>1. r.pages.n = PageCount(n, s)
      BY <2>2 DEF n
    <3> QED BY <1>1, <1>2, <1>3, <3>1
  <2> QED BY <2>1, <2>2
<1>5. r.current.form = "number" /\ r.current.n = p
  BY DEF Number
<1> QED BY <1>4, <1>5 DEF nextWebhookPageCursor, n, e

------------------------------------------------------------------------------
(* The steps of a walk *)

\* An observation is of a right answer or of one that is wrong in one thing.
ObserveAnswer(r, empty) ==
  LET h == HonestAnswer(page, Asked, empty) IN
  /\ Observe(r)
  /\ \/ r = h /\ faults' = faults
     \/ OneFault(h, r) /\ faults < MaxFaults /\ faults' = faults + 1

\* A page has rows; one of webhooks has as many as the caller asked for.
LEMMA AskedIs ==
  ASSUME TypeOK
  PROVE  /\ Asked \in Nat \ {0}
         /\ Webhooks /\ Admitted /\ size # None =>
              size \in 1 .. MaxPageSize /\ Asked = size
BY ListingAssumption DEF TypeOK, Admitted, SizeInRange, Asked

LEMMA ObserveStep ==
  ASSUME TypeOK, ObserveHonest \/ ObserveFaulty
  PROVE  \E r \in Answer, empty \in {0, 1} : ObserveAnswer(r, empty)
<1>1. /\ account \in Accounts /\ page \in Nat /\ Asked \in Nat \ {0}
  BY AskedIs DEF TypeOK, ObserveHonest, ObserveFaulty
<1>2. \A empty \in {0, 1} : HonestAnswer(page, Asked, empty) \in Answer
  BY <1>1, HonestAnswerIs
<1>3. CASE ObserveHonest
  <2>1. PICK empty \in {0, 1} :
          Observe(HonestAnswer(page, Asked, empty)) /\ faults' = faults
    BY <1>3 DEF ObserveHonest
  <2> DEFINE r == HonestAnswer(page, Asked, empty)
  <2>2. r \in Answer
    BY <1>2
  <2>3. ObserveAnswer(r, empty)
    BY <2>1 DEF ObserveAnswer
  <2> HIDE DEF r
  <2> QED BY <2>2, <2>3
<1>4. CASE ObserveFaulty
  <2>1. PICK r \in Faulty(HonestAnswer(page, Asked, 1)) : Observe(r)
    BY <1>4 DEF ObserveFaulty
  <2>2. HonestAnswer(page, Asked, 1) \in Answer
    BY <1>2
  <2>3. r \in Answer /\ OneFault(HonestAnswer(page, Asked, 1), r)
    BY <2>1, <2>2, FaultyAnswer
  <2> QED BY <1>4, <2>1, <2>3 DEF ObserveFaulty, ObserveAnswer
<1> QED BY <1>3, <1>4

\* A step that changes how far the walk is observes a page or refuses.
LEMMA WalkSteps ==
  ASSUME [Next]_vars
  PROVE  ObserveHonest \/ ObserveFaulty \/ Refused \/ UNCHANGED <<pc, page, response>>
BY DEF Next, vars, Refuse, ProviderRefuses, Quiescent, Register, Unregister, Change

------------------------------------------------------------------------------
(* Types *)

\* A registered row is of another key: the keys of an account are never too few.
LEMMA RegisterKeepsAccount ==
  ASSUME account \in Accounts, NEW k \in Keys, NEW t \in Times,
         \A i \in DOMAIN account : account[i].key # k
  PROVE  Append(account, [key |-> k, at |-> t, sound |-> TRUE]) \in Accounts
<1> DEFINE r == [key |-> k, at |-> t, sound |-> TRUE]
           a == Append(account, r)
           n == Len(account)
<1>1. account \in Seq(SoundRow) /\ Distinct(account)
  BY AccountRows
<1>2. r \in SoundRow /\ r.key = k
  BY DEF SoundRow
<1>3. n \in Nat /\ DOMAIN account = 1 .. n
  BY <1>1, LenProperties
<1>4. /\ a \in Seq(SoundRow) /\ Len(a) = n + 1 /\ a[n + 1] = r
      /\ \A i \in 1 .. n : a[i] = account[i]
  <2> HIDE DEF r
  <2> QED BY <1>1, <1>2, AppendProperties
<1> HIDE DEF r, a
<1>5. Distinct(a)
  <2> SUFFICES ASSUME NEW i \in 1 .. n + 1, NEW j \in 1 .. n + 1, a[i].key = a[j].key
               PROVE  i = j
    BY <1>4 DEF Distinct
  <2>1. i \in 1 .. n \/ i = n + 1
    BY <1>3
  <2>2. j \in 1 .. n \/ j = n + 1
    BY <1>3
  <2> HIDE DEF n
  <2>3. CASE i \in 1 .. n /\ j \in 1 .. n
    BY <1>1, <1>4, <2>3 DEF Distinct, n
  <2>4. CASE i \in 1 .. n /\ j = n + 1
    BY <1>2, <1>3, <1>4, <2>4
  <2>5. CASE i = n + 1 /\ j \in 1 .. n
    BY <1>2, <1>3, <1>4, <2>5
  <2> QED BY <2>1, <2>2, <2>3, <2>4, <2>5
<1>6. n + 1 <= Cardinality(Keys)
  <2> DEFINE S == 1 .. n + 1
             f == [i \in S |-> a[i].key]
  <2>1. IsFiniteSet(S) /\ Cardinality(S) = n + 1
    <3>1. 1 \in Int /\ n + 1 \in Int
      BY <1>3
    <3>2. IsFiniteSet(S) /\ Cardinality(S) = IF 1 > n + 1 THEN 0 ELSE (n + 1) - 1 + 1
      <4> HIDE DEF n
      <4> QED BY <3>1, FS_Interval
    <3> QED BY <1>3, <3>2
  <2>2. IsFiniteSet(Keys) /\ Cardinality(Keys) \in Nat
    BY ListingAssumption, FS_CardinalityType
  <2>3. f \in [S -> Keys]
    <3>1. \A i \in S : a[i] \in SoundRow
      BY <1>4, ElementOfSeq
    <3> QED BY <3>1 DEF SoundRow
  <2>4. \A x, y \in S : f[x] = f[y] => x = y
    BY <1>4, <1>5 DEF Distinct
  <2> HIDE DEF S, f
  <2>5. ~ (Cardinality(Keys) < Cardinality(S))
    BY <2>1, <2>2, <2>3, <2>4, FS_PigeonHole
  <2> QED BY <1>3, <2>1, <2>2, <2>5
<1> QED BY <1>4, <1>5, <1>6, AccountRows DEF a, r

\* What is left of an account when a row goes is an account.
LEMMA UnregisterKeepsAccount ==
  ASSUME account \in Accounts, NEW i \in DOMAIN account
  PROVE  RemoveAt(account, i) \in Accounts
<1> DEFINE a == RemoveAt(account, i)
           n == Len(account)
<1>1. account \in Seq(SoundRow) /\ n <= Cardinality(Keys) /\ Distinct(account)
  BY AccountRows
<1>2. n \in Nat /\ i \in 1 .. n
  BY <1>1, LenProperties
<1>3. /\ a \in Seq(SoundRow) /\ Len(a) = n - 1
      /\ \A j \in 1 .. n - 1 : a[j] = account[IF j < i THEN j ELSE j + 1]
  BY <1>1, <1>2, RemoveOne
<1>4. Distinct(a)
  <2> SUFFICES ASSUME NEW j \in 1 .. n - 1, NEW l \in 1 .. n - 1, a[j].key = a[l].key
               PROVE  j = l
    BY <1>3 DEF Distinct
  <2> DEFINE jj == IF j < i THEN j ELSE j + 1
             ll == IF l < i THEN l ELSE l + 1
  <2>1. jj \in 1 .. n /\ ll \in 1 .. n /\ (jj = ll => j = l)
    BY <1>2
  <2>2. a[j] = account[jj] /\ a[l] = account[ll]
    BY <1>3
  <2> HIDE DEF jj, ll, a
  <2> QED BY <1>1, <2>1, <2>2 DEF Distinct
<1>5. n - 1 <= Cardinality(Keys)
  <2>1. Cardinality(Keys) \in Nat
    BY ListingAssumption, FS_CardinalityType
  <2> QED BY <1>1, <1>2, <2>1
<1> QED BY <1>3, <1>4, <1>5, AccountRows

\* The next page is a number or none.
LEMMA NextCursorType ==
  ASSUME NEW r \in Answer
  PROVE  NextCursor(r) \in Nat \cup {None}
<1>1. r.current \in AnyCounter
  BY DEF Answer
<1>2. r.current.n + 1 \in Nat
  BY <1>1 DEF AnyCounter
<1> QED BY <1>2 DEF NextCursor, nextWebhookPageCursor

\* The evidence that comes with a page says two things, each true or false.
LEMMA ProvenanceType ==
  ASSUME NEW r
  PROVE  Provenance(r) \in [validated : BOOLEAN, complete : BOOLEAN]
BY ProvenanceIs DEF Provenance, NoEvidence

LEMMA ObserveType ==
  ASSUME TypeOK, NEW r \in Answer, NEW empty \in {0, 1}, ObserveAnswer(r, empty)
  PROVE  TypeOK'
<1>1. /\ response' = r /\ evidence' = Provenance(r) /\ collected' = collected \o r.rows
      /\ pc' \in {"ask", "ended"} /\ page' \in {page, NextCursor(r)}
      /\ NextCursor(r) = None => page' = page
      /\ proved' = (proved /\ evidence'.validated)
      /\ Admitted
      /\ UNCHANGED <<account, changes, resource, first, size, stable>>
  BY DEF ObserveAnswer, Observe
<1>2. page' \in Nat
  BY <1>1, NextCursorType DEF TypeOK
<1>3. evidence' \in [validated : BOOLEAN, complete : BOOLEAN]
  BY <1>1, ProvenanceType
<1>4. proved' \in BOOLEAN
  BY <1>1, <1>3 DEF TypeOK
<1>5. collected' \in Seq(Row)
  <2>1. collected \in Seq(Row) /\ r.rows \in Seq(Row)
    BY DEF TypeOK, Answer
  <2> QED BY <1>1, <2>1, ConcatProperties
<1>6. faults' \in 0 .. MaxFaults
  BY ListingAssumption DEF ObserveAnswer, TypeOK
<1>7. Webhooks' => size \in {None} \cup 1 .. MaxPageSize
  BY <1>1 DEF Webhooks, Admitted, SizeInRange
<1> QED BY <1>1, <1>2, <1>3, <1>4, <1>5, <1>6, <1>7 DEF TypeOK

\* Another writer's step leaves the walk alone.
LEMMA ChangeType ==
  ASSUME TypeOK, NEW rows \in Accounts, Change(rows)
  PROVE  TypeOK'
BY ListingAssumption DEF TypeOK, Change, Webhooks

LEMMA InitType == Init => TypeOK
<1> SUFFICES ASSUME Init PROVE TypeOK
  OBVIOUS
<1>1. <<>> \in Seq(Row)
  BY EmptySeq
<1> QED BY <1>1, ListingAssumption DEF Init, TypeOK, NoEvidence

LEMMA NextType == TypeOK /\ [Next]_vars => TypeOK'
<1> SUFFICES ASSUME TypeOK, [Next]_vars PROVE TypeOK'
  OBVIOUS
<1>1. CASE Refuse \/ ProviderRefuses
  BY <1>1 DEF Refuse, ProviderRefuses, Refused, TypeOK, Webhooks
<1>2. CASE ObserveHonest \/ ObserveFaulty
  BY <1>2, ObserveStep, ObserveType
<1>3. CASE \E k \in Keys, t \in Times : Register(k, t)
  BY <1>3, RegisterKeepsAccount, ChangeType DEF Register, TypeOK
<1>4. CASE \E i \in DOMAIN account : Unregister(i)
  BY <1>4, UnregisterKeepsAccount, ChangeType DEF Unregister, TypeOK
<1>5. CASE UNCHANGED vars
  BY <1>5 DEF vars, TypeOK, Webhooks
<1> QED BY <1>1, <1>2, <1>3, <1>4, <1>5 DEF Next, Quiescent

\* Type invariant of the walk; no page of webhooks is asked for with a size out of
\* range.
THEOREM TypeCorrect == Spec => []TypeOK
BY InitType, NextType, PTL DEF Spec

------------------------------------------------------------------------------
(* The evidence of a page *)

\* In an observation with evidence the answer passed the checks.
LEMMA ObservedEvidence ==
  ASSUME TypeOK, NEW r \in Answer, NEW empty \in {0, 1}, ObserveAnswer(r, empty)
  PROVE  /\ response' = r /\ evidence' = Provenance(r)
         /\ resource = "webhooks" =>
              /\ evidence'.validated <=> Checked(page, r)
              /\ evidence'.complete <=>
                   Checked(page, r) /\ r.current.n = 0 /\ r.pages.n = 1
                     /\ r.total.n = Len(r.rows)
         /\ resource # "webhooks" => ~ evidence'.validated /\ ~ evidence'.complete
<1>1. response' = r /\ evidence' = Provenance(r)
  BY DEF ObserveAnswer, Observe
<1>2. CASE resource = "webhooks"
  BY <1>1, <1>2, ProvenanceIs DEF Provenance
<1>3. CASE resource # "webhooks"
  BY <1>1, <1>3 DEF Provenance, NoEvidence
<1> QED BY <1>1, <1>2, <1>3

\* What a validated observation is known to have seen.
LEMMA ValidatedStep ==
  ASSUME TypeOK, NEW r \in Answer, NEW empty \in {0, 1}, ObserveAnswer(r, empty),
         evidence'.validated
  PROVE  /\ resource = "webhooks" /\ Checked(page, r)
         /\ account \in Accounts /\ page \in Nat /\ size \in Nat \ {0} /\ Asked = size
         /\ LET h == HonestAnswer(page, size, empty) IN r = h \/ OneFault(h, r)
<1>1. resource = "webhooks" /\ Checked(page, r)
  BY ObservedEvidence
<1>2. size # None /\ Admitted /\ Webhooks
  BY <1>1 DEF Checked, ObserveAnswer, Observe, Webhooks
<1>3. Asked = size /\ Asked \in Nat \ {0}
  BY <1>2, AskedIs
<1> QED BY <1>1, <1>3 DEF TypeOK, ObserveAnswer

\* A validated page is the requested page of what the account held when it was
\* answered, and a complete one all it held in the window, whichever one thing of
\* the answer is wrong.
LEMMA EvidenceStep ==
  ASSUME TypeOK, [Next]_vars, Observed, evidence'.validated
  PROVE  /\ response'.rows = Slice(Window, page, size)
         /\ evidence'.complete => response'.rows = Window
<1>1. ObserveHonest \/ ObserveFaulty
  BY WalkSteps DEF Observed, Refused
<1>2. PICK r \in Answer, empty \in {0, 1} : ObserveAnswer(r, empty)
  BY <1>1, ObserveStep
<1>3. /\ Checked(page, r) /\ resource = "webhooks"
      /\ account \in Accounts /\ page \in Nat /\ size \in Nat \ {0}
      /\ LET h == HonestAnswer(page, size, empty) IN r = h \/ OneFault(h, r)
  BY <1>2, ValidatedStep
<1>4. r.rows = Slice(Window, page, size)
  BY <1>3, CheckedPage
<1>5. ASSUME evidence'.complete PROVE r.rows = Window
  <2>1. r.current.n = 0 /\ r.pages.n = 1
    BY <1>2, <1>3, <1>5, ObservedEvidence
  <2> QED BY <1>3, <2>1, CompletePage
<1> QED BY <1>2, <1>4, <1>5, ObservedEvidence

THEOREM EvidenceTrue == Spec => EvidenceIsTrue
<1>1. TypeOK /\ [Next]_vars =>
        (Observed /\ evidence'.validated =>
           /\ response'.rows = Slice(Window, page, size)
           /\ evidence'.complete => response'.rows = Window)
  BY EvidenceStep
<1> QED BY <1>1, TypeCorrect, PTL DEF Spec, EvidenceIsTrue

\* A right answer is validated exactly if its page exists or the list is empty, and
\* if its counters can hold the list; it is complete exactly if it is the only page.
LEMMA RightPageStep ==
  ASSUME TypeOK, [Next]_vars, Observed, faults' = faults,
         resource = "webhooks", size # None
  PROVE  /\ evidence'.validated <=>
              /\ page * size < Len(Window) \/ (page = 0 /\ Window = <<>>)
              /\ Len(Window) <= MaxInt32
         /\ evidence'.complete <=>
              evidence'.validated /\ page = 0 /\ response'.pages = Number(1)
<1>1. ObserveHonest \/ ObserveFaulty
  BY WalkSteps DEF Observed, Refused
<1>2. PICK r \in Answer, empty \in {0, 1} : ObserveAnswer(r, empty)
  BY <1>1, ObserveStep
<1>3. Admitted /\ Webhooks
  BY <1>2 DEF ObserveAnswer, Observe, Webhooks
<1>4. size \in 1 .. MaxPageSize /\ size \in Nat \ {0} /\ Asked = size
  BY <1>3, AskedIs, ListingAssumption
<1>5. account \in Accounts /\ page \in Nat
  BY DEF TypeOK
<1>6. r = HonestAnswer(page, size, empty)
  <2>1. faults \in Nat /\ faults + 1 # faults
    BY ListingAssumption DEF TypeOK
  <2> QED BY <1>2, <1>4, <2>1 DEF ObserveAnswer
<1>7. Checked(page, r) <=>
        /\ page * size < Len(Window) \/ (page = 0 /\ Window = <<>>)
        /\ Len(Window) <= MaxInt32
  BY <1>4, <1>5, <1>6, RightAnswerChecked
<1>8. /\ response' = r
      /\ evidence'.validated <=> Checked(page, r)
      /\ evidence'.complete <=>
           Checked(page, r) /\ r.current.n = 0 /\ r.pages.n = 1 /\ r.total.n = Len(r.rows)
  BY <1>2, ObservedEvidence
<1>9. ASSUME Checked(page, r)
      PROVE  r.current.n = 0 /\ r.pages.n = 1 /\ r.total.n = Len(r.rows) <=>
               page = 0 /\ r.pages = Number(1)
  <2>1. r.current.n = page /\ r.pages.form = "number"
    <3>1. r.current = Number(page) /\ r.pages.form = "number"
      BY <1>5, <1>9, CheckedCounters
    <3> QED BY <3>1 DEF Number
  <2>2. r.pages = Number(1) <=> r.pages.n = 1
    <3>1. r.pages \in AnyCounter
      BY DEF Answer
    <3> QED BY <2>1, <3>1 DEF AnyCounter, Number
  <2>3. ASSUME page = 0, r.pages.n = 1 PROVE r.total.n = Len(r.rows)
    <3>1. r.current.n = 0
      BY <2>1, <2>3
    <3>2. r.rows = Window
      BY <1>4, <1>5, <1>6, <1>9, <2>3, <3>1, CompletePage
    <3>3. r.total = Number(Len(Window))
      BY <1>4, <1>5, <1>6, HonestAnswerIs
    <3> QED BY <3>2, <3>3 DEF Number
  <2> QED BY <2>1, <2>2, <2>3
<1> QED BY <1>7, <1>8, <1>9

THEOREM RightPagesProved == Spec => RightPageIsProved
<1>1. TypeOK /\ [Next]_vars =>
        (Observed /\ faults' = faults /\ resource = "webhooks" /\ size # None =>
           /\ evidence'.validated <=>
                /\ page * size < Len(Window) \/ (page = 0 /\ Window = <<>>)
                /\ Len(Window) <= MaxInt32
           /\ evidence'.complete <=>
                evidence'.validated /\ page = 0 /\ response'.pages = Number(1))
  BY RightPageStep
<1> QED BY <1>1, TypeCorrect, PTL DEF Spec, RightPageIsProved

------------------------------------------------------------------------------
(* The walk *)

\* Before the first page nothing has been collected and the walk is where it began.
Fresh ==
  response = None =>
    /\ pc # "ended" /\ collected = <<>>
    /\ page = IF first = None THEN 0 ELSE first

\* The walks that are known to see all: of an account nobody changed meanwhile,
\* from its first page, by pages that were all validated or all right.
Judged == Webhooks /\ first # 1 /\ stable /\ (proved \/ faults = 0)

\* Such a walk has, while it goes on, the pages up to the one it asks for next,
\* which exists unless it is the first; and the whole list when it has ended.
Prefix ==
  Judged =>
    /\ pc = "ask" => /\ collected = SubSeq(Window, 1, page * Asked)
                     /\ page = 0 \/ page * Asked < Len(Window)
    /\ pc = "ended" => collected = Window

WalkInv == TypeOK /\ Fresh /\ Prefix

\* A walk with no page is a prefix of any list.
LEMMA NoPages ==
  ASSUME TypeOK
  PROVE  SubSeq(Window, 1, 0 * Asked) = <<>>
<1>1. Asked \in Nat
  BY ListingAssumption DEF TypeOK, Asked
<1>2. 0 * Asked = 0
  BY <1>1, PageStarts
<1> QED BY <1>2, SubSeqEmpty

LEMMA InitWalk == Init => WalkInv
<1> SUFFICES ASSUME Init PROVE WalkInv
  OBVIOUS
<1>1. TypeOK
  BY InitType
<1>2. Fresh
  BY DEF Init, Fresh
<1>3. Prefix
  <2>1. Judged => page = 0
    BY DEF Init, Judged
  <2>2. Judged => collected = SubSeq(Window, 1, page * Asked)
    BY <1>1, <2>1, NoPages DEF Init
  <2> QED BY <2>1, <2>2 DEF Init, Prefix
<1> QED BY <1>1, <1>2, <1>3 DEF WalkInv

\* A page of a judged walk is the page that was asked for, and its counters tell
\* the right number of pages: it was validated, or the answer was right.
LEMMA JudgedPage ==
  ASSUME TypeOK, NEW r \in Answer, NEW empty \in {0, 1}, ObserveAnswer(r, empty), Judged'
  PROVE  LET n == Len(Window) IN
         /\ Judged
         /\ r.rows = Slice(Window, page, Asked)
         /\ r.current = Number(page) /\ r.pages.form = "number" /\ r.pages.n \in Nat
         /\ IF n = 0 THEN r.pages.n \in {0, 1} ELSE r.pages.n = PageCount(n, Asked)
<1>1. /\ Admitted /\ proved' = (proved /\ evidence'.validated)
      /\ UNCHANGED <<resource, first, stable>>
  BY DEF ObserveAnswer, Observe
<1>2. /\ faults \in Nat /\ account \in Accounts /\ page \in Nat
      /\ Asked \in Nat \ {0}
  BY <1>1, AskedIs, ListingAssumption DEF TypeOK
<1>3. proved' \/ faults' = 0
  BY DEF Judged
<1>4. CASE proved'
  <2>1. proved /\ evidence'.validated
    BY <1>1, <1>4
  <2>2. /\ Checked(page, r) /\ size \in Nat \ {0} /\ Asked = size
        /\ LET h == HonestAnswer(page, size, empty) IN r = h \/ OneFault(h, r)
    BY <2>1, ValidatedStep
  <2>3. /\ r.rows = Slice(Window, page, size)
        /\ LET n == Len(Window) IN
           IF n = 0 THEN r.pages.n \in {0, 1} ELSE r.pages.n = PageCount(n, size)
    BY <1>2, <2>2, CheckedPage
  <2>4. r.current = Number(page) /\ r.pages.form = "number" /\ r.pages.n \in Nat
    BY <1>2, <2>2, CheckedCounters
  <2> QED BY <1>1, <2>1, <2>2, <2>3, <2>4 DEF Judged, Webhooks
<1>5. CASE faults' = 0
  <2>1. r = HonestAnswer(page, Asked, empty) /\ faults = 0
    BY <1>2, <1>5 DEF ObserveAnswer
  <2> DEFINE n == Len(Window)
             m == IF n = 0 THEN empty ELSE PageCount(n, Asked)
  <2>2. /\ r.current = Number(page) /\ r.rows = Slice(Window, page, Asked)
        /\ n \in Nat /\ r.pages = Number(m)
    BY <1>2, <2>1, HonestAnswerIs
  <2>3. m \in Nat
    BY <1>2, <2>2, PageExists
  <2> HIDE DEF m
  <2>4. r.pages.form = "number" /\ r.pages.n = m
    BY <2>2 DEF Number
  <2> QED BY <1>1, <2>1, <2>2, <2>3, <2>4 DEF Judged, Webhooks, m
<1> QED BY <1>3, <1>4, <1>5

LEMMA ObserveWalk ==
  ASSUME WalkInv, NEW r \in Answer, NEW empty \in {0, 1}, ObserveAnswer(r, empty)
  PROVE  WalkInv'
<1>1. /\ TypeOK /\ Fresh /\ Prefix
      /\ Admitted /\ pc = "ask" /\ response' = r /\ collected' = collected \o r.rows
      /\ pc' = (IF NextCursor(r) = None THEN "ended" ELSE "ask")
      /\ page' = IF NextCursor(r) = None THEN page ELSE NextCursor(r)
      /\ UNCHANGED <<account, resource, first, size, stable>>
  BY DEF WalkInv, ObserveAnswer, Observe
<1>2. TypeOK'
  BY <1>1, ObserveType
<1>3. Fresh'
  BY <1>1, ListingAssumption DEF Fresh
<1>4. Prefix'
  <2> SUFFICES ASSUME Judged'
               PROVE  /\ pc' = "ask" =>
                           /\ collected' = SubSeq(Window, 1, page' * Asked)
                           /\ page' * Asked < Len(Window)
                      /\ pc' = "ended" => collected' = Window
    <3>1. Asked' = Asked /\ Window' = Window
      BY <1>1 DEF Asked, Window
    <3> QED BY <3>1 DEF Prefix
  <2> DEFINE n == Len(Window)
             e == (page + 1) * Asked
  <2>1. /\ Judged
        /\ r.rows = Slice(Window, page, Asked)
        /\ r.current = Number(page) /\ r.pages.form = "number" /\ r.pages.n \in Nat
        /\ IF n = 0 THEN r.pages.n \in {0, 1} ELSE r.pages.n = PageCount(n, Asked)
    BY <1>1, JudgedPage
  <2>2. page \in Nat /\ account \in Accounts /\ Asked \in Nat \ {0}
    BY <1>1, AskedIs DEF TypeOK
  <2>3. collected = SubSeq(Window, 1, page * Asked) /\ (page = 0 \/ page * Asked < n)
    BY <1>1, <2>1 DEF Prefix
  <2>4. Window \in Seq(Row) /\ n \in Nat /\ e \in Nat /\ page + 1 \in Nat
    BY <2>2, WindowRows, LenProperties, PageStarts DEF Window
  <2>5. NextCursor(r) = IF e < n THEN page + 1 ELSE None
    BY <2>1, <2>2, CursorIs DEF NextCursor, Judged
  <2>6. /\ e < n => collected' = SubSeq(Window, 1, e)
        /\ n <= e => collected' = Window
    <3>1. LET all == SubSeq(Window, 1, page * Asked) \o Slice(Window, page, Asked)
          IN  /\ e < n => all = SubSeq(Window, 1, e)
              /\ n <= e => all = Window
      BY <2>2, <2>3, <2>4, NextSlice
    <3>2. collected' = SubSeq(Window, 1, page * Asked) \o Slice(Window, page, Asked)
      BY <1>1, <2>1, <2>3
    <3> HIDE DEF n, e
    <3> QED BY <3>1, <3>2
  <2>7. CASE e < n
    <3>1. NextCursor(r) = page + 1 /\ page + 1 # None
      BY <2>4, <2>5, <2>7, ListingAssumption
    <3>2. pc' = "ask" /\ page' = page + 1
      BY <1>1, <3>1
    <3> QED BY <2>6, <2>7, <3>2
  <2>8. CASE ~ (e < n)
    <3>1. pc' = "ended"
      BY <1>1, <2>5, <2>8
    <3>2. n <= e
      BY <2>4, <2>8
    <3> QED BY <2>6, <3>1, <3>2
  <2> QED BY <2>7, <2>8
<1> QED BY <1>2, <1>3, <1>4 DEF WalkInv

\* A change of the account ends what is known of a walk that has begun.
LEMMA ChangeWalk ==
  ASSUME WalkInv, NEW rows \in Accounts, Change(rows)
  PROVE  WalkInv'
<1>1. TypeOK'
  BY ChangeType DEF WalkInv
<1>2. Fresh'
  BY DEF WalkInv, Fresh, Change
<1>3. Prefix'
  <2> SUFFICES ASSUME Judged' PROVE Prefix'
    BY DEF Prefix
  <2>1. /\ pc = "ask" /\ UNCHANGED <<pc, page, collected, first, response>>
        /\ response = None /\ first # 1
    BY DEF Change, Judged
  <2>2. page' = 0 /\ collected' = <<>>
    BY <2>1 DEF WalkInv, TypeOK, Fresh
  <2>3. SubSeq(Window', 1, 0 * Asked') = <<>>
    <3>1. Asked' \in Nat
      BY <1>1, ListingAssumption DEF TypeOK, Asked
    <3>2. 0 * Asked' = 0
      BY <3>1, PageStarts
    <3> QED BY <3>2, SubSeqEmpty
  <2> QED BY <2>1, <2>2, <2>3 DEF Prefix
<1> QED BY <1>1, <1>2, <1>3 DEF WalkInv

LEMMA NextWalk == WalkInv /\ [Next]_vars => WalkInv'
<1> SUFFICES ASSUME WalkInv, [Next]_vars PROVE WalkInv'
  OBVIOUS
<1>1. TypeOK
  BY DEF WalkInv
<1>2. CASE Refuse \/ ProviderRefuses
  <2>1. TypeOK'
    BY <1>1, NextType
  <2>2. Fresh'
    BY <1>2 DEF Refuse, ProviderRefuses, Refused, WalkInv, Fresh
  <2>3. Prefix'
    BY <1>2 DEF Refuse, ProviderRefuses, Refused, Prefix
  <2> QED BY <2>1, <2>2, <2>3 DEF WalkInv
<1>3. CASE ObserveHonest \/ ObserveFaulty
  BY <1>1, <1>3, ObserveStep, ObserveWalk
<1>4. CASE \E k \in Keys, t \in Times : Register(k, t)
  BY <1>1, <1>4, RegisterKeepsAccount, ChangeWalk DEF Register, TypeOK
<1>5. CASE \E i \in DOMAIN account : Unregister(i)
  BY <1>1, <1>5, UnregisterKeepsAccount, ChangeWalk DEF Unregister, TypeOK
<1>6. CASE UNCHANGED vars
  <2>1. TypeOK'
    BY <1>1, NextType
  <2>2. Window' = Window /\ Asked' = Asked /\ (Judged' <=> Judged)
    BY <1>6 DEF vars, Window, Asked, Judged, Webhooks
  <2>3. Fresh'
    BY <1>6 DEF vars, WalkInv, Fresh
  <2>4. Prefix'
    <3>1. /\ UNCHANGED <<pc, page, collected>>
          /\ Prefix
      BY <1>6 DEF vars, WalkInv
    <3> QED BY <2>2, <3>1 DEF Prefix
  <2> QED BY <2>1, <2>3, <2>4 DEF WalkInv
<1> QED BY <1>2, <1>3, <1>4, <1>5, <1>6 DEF Next, Quiescent

THEOREM WalkInvariant == Spec => []WalkInv
BY InitWalk, NextWalk, PTL DEF Spec

\* A walk from the first page to the empty cursor, of an account that nobody
\* changed meanwhile, has every row once, if every page was validated or right.
THEOREM ProvedWalksComplete == Spec => []ProvedWalkIsComplete
<1>1. WalkInv => ProvedWalkIsComplete
  BY DEF WalkInv, Prefix, Judged, ProvedWalkIsComplete
<1> QED BY <1>1, WalkInvariant, PTL

\* Every row of the account that lies in the window has one place in rows.
EveryRowOnce(rows) ==
  \A j \in 1 .. Len(account) : InWindow(account[j]) =>
    \E i \in 1 .. Len(rows) :
      /\ rows[i] = account[j]
      /\ \A k \in 1 .. Len(rows) : rows[k].key = account[j].key => k = i

\* What such a walk, or one complete page, is good for: a row it does not have is
\* not in the account, and no row is taken for two.
THEOREM ProvedWalksMissNothing ==
  Spec => [](/\ pc = "ended" /\ Webhooks /\ first # 1 /\ stable /\ (proved \/ faults = 0)
             => EveryRowOnce(collected))
<1>1. TypeOK => EveryRowOnce(Window)
  <2> SUFFICES ASSUME TypeOK PROVE EveryRowOnce(Window)
    OBVIOUS
  <2>1. account \in Seq(SoundRow) /\ Distinct(account)
    BY AccountRows DEF TypeOK
  <2>2. SoundRow \subseteq Row
    BY DEF SoundRow, Row
  <2>3. account \in Seq(Row)
    BY <2>1, <2>2, SeqMonotonic
  <2>4. Kept(account, Len(account), Window)
    BY <2>1, <2>3, InWindowOfAccount DEF Window
  <2>5. ASSUME NEW j \in 1 .. Len(account), InWindow(account[j])
        PROVE  \E i \in 1 .. Len(Window) :
                 /\ Window[i] = account[j]
                 /\ \A k \in 1 .. Len(Window) : Window[k].key = account[j].key => k = i
    <3>1. PICK i \in 1 .. Len(Window) : Window[i] = account[j]
      BY <2>4, <2>5 DEF Kept
    <3>2. \A k \in 1 .. Len(Window) : Window[k].key = account[j].key => k = i
      BY <2>4, <3>1 DEF Kept
    <3> QED BY <3>1, <3>2
  <2> QED BY <2>5 DEF EveryRowOnce
<1>2. TypeOK /\ ProvedWalkIsComplete =>
        (/\ pc = "ended" /\ Webhooks /\ first # 1 /\ stable /\ (proved \/ faults = 0)
         => EveryRowOnce(collected))
  BY <1>1 DEF ProvedWalkIsComplete
<1> QED BY <1>2, TypeCorrect, ProvedWalksComplete, PTL
===============================================================================
