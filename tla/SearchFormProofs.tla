-------------------------- MODULE SearchFormProofs --------------------------
(***************************************************************************)
(* What holds of the search form for every set of dates and links, however  *)
(* often it is edited and however often the server loses its keys, and of   *)
(* the keys pressed in its date field, for every text there and every       *)
(* clipboard.                                                              *)
(*                                                                         *)
(* What the mask does to a text is proved first, by induction on its length: *)
(* it keeps the digits.  The argument about the form is then about its three *)
(* copies, on the page, in sessionStorage and under way, and about the       *)
(* digits in them; the one about the field is where the n-th digit is in a   *)
(* text and in its mask.                                                    *)
(***************************************************************************)
EXTENDS SearchForm, DateMask, WellFoundedInduction, TLAPS

\* What a date field may hold.
Texts == Seq(0..Hyphen)

-----------------------------------------------------------------------------
(***************************************************************************)
(* Induction, for a set in place of a predicate.                            *)
(***************************************************************************)
LEMMA LeastNumber ==
    ASSUME NEW T \in SUBSET Nat, T # {}
    PROVE  \E n \in T : \A m \in T : n <= m
<1>1. IsWellFoundedOn(OpToRel(<, Nat), Nat)
  BY NatLessThanWellFounded
<1>2. \E n \in T : \A m \in T : ~(<<m, n>> \in OpToRel(<, Nat))
  BY <1>1, WFMin
<1>3. \E n \in T : \A m \in T : ~(m < n)
  BY <1>2 DEF OpToRel
<1>4. QED
  BY <1>3

LEMMA Induction ==
    ASSUME NEW T \in SUBSET Nat, 0 \in T, \A n \in T : n + 1 \in T
    PROVE  T = Nat
<1>1. SUFFICES ASSUME Nat \ T # {} PROVE FALSE
  OBVIOUS
<1>2. PICK n \in Nat \ T : \A m \in Nat \ T : n <= m
  BY <1>1, LeastNumber
<1>3. n - 1 \in T /\ (n - 1) + 1 = n
  BY <1>2
<1>4. QED
  BY <1>2, <1>3

LEMMA PrefixStep ==
    ASSUME NEW s \in Seq(0..Hyphen)
    PROVE  /\ PrefixDigits(s)[0] = <<>>
           /\ \A n \in 1..Len(s) :
                PrefixDigits(s)[n] = IF s[n] = Hyphen THEN PrefixDigits(s)[n - 1]
                                     ELSE Append(PrefixDigits(s)[n - 1], s[n])
<1> DEFINE Extend(f, n) == IF n = 0 THEN <<>>
                         ELSE IF s[n] = Hyphen THEN f[n - 1] ELSE Append(f[n - 1], s[n])
           Scan(f, k) == f = [n \in 0..k |-> Extend(f, n)]
           T == {k \in Nat : \E f : Scan(f, k)}
<1>1. 0 \in T
  <2>1. Scan([n \in 0..0 |-> <<>>], 0)
    OBVIOUS
  <2>2. QED
    BY <2>1
<1>2. ASSUME NEW k \in T
      PROVE  k + 1 \in T
  <2>1. k \in Nat
    OBVIOUS
  <2>2. PICK f : f = [n \in 0..k |-> Extend(f, n)]
    OBVIOUS
  <2> DEFINE g == [n \in 0..(k + 1) |-> IF n = k + 1 THEN Extend(f, n) ELSE f[n]]
  <2>3. \A n \in 0..k : g[n] = f[n]
    BY <2>1
  <2>4. \A n \in 0..(k + 1) : Extend(g, n) = Extend(f, n)
    <3> HIDE DEF g
    <3>1. \A n \in 0..(k + 1) : n # 0 => g[n - 1] = f[n - 1]
      <4>1. \A n \in 0..(k + 1) : n # 0 => n - 1 \in 0..k
        BY <2>1
      <4>2. QED
        BY <2>3, <4>1
    <3>2. QED
      BY <3>1
  <2>5. \A n \in 0..(k + 1) : g[n] = Extend(f, n)
    <3>1. \A n \in 0..k : f[n] = Extend(f, n)
      BY <2>2
    <3>2. \A n \in 0..(k + 1) : n = k + 1 \/ n \in 0..k
      BY <2>1
    <3>3. QED
      BY <3>1, <3>2
  <2>6. g = [n \in 0..(k + 1) |-> Extend(g, n)]
    <3> HIDE DEF Extend
    <3>1. \A n \in 0..(k + 1) : g[n] = Extend(g, n)
      BY <2>4, <2>5
    <3>2. g = [n \in 0..(k + 1) |-> g[n]]
      OBVIOUS
    <3> HIDE DEF g
    <3>3. QED
      BY <3>1, <3>2
  <2>7. QED
    <3> HIDE DEF g, Extend
    <3>1. QED
      BY <2>1, <2>6
<1>3. T = Nat
  <2> HIDE DEF T
  <2>1. T \in SUBSET Nat
    BY DEF T
  <2>2. QED
    BY <1>1, <1>2, <2>1, Induction
<1>4. Len(s) \in T
  <2> HIDE DEF T
  <2>1. Len(s) \in Nat
    OBVIOUS
  <2>2. QED
    BY <1>3, <2>1
<1>5. \E f : Scan(f, Len(s))
  BY <1>4
<1>6. PrefixDigits(s) = CHOOSE f : Scan(f, Len(s))
  BY DEF PrefixDigits
<1>7. Scan(PrefixDigits(s), Len(s))
  <2> HIDE DEF Scan
  <2>1. QED
    BY <1>5, <1>6
<1> DEFINE p == PrefixDigits(s)
<1>8. p = [n \in 0..Len(s) |-> Extend(p, n)]
  BY <1>7
<1> HIDE DEF p
<1>9. QED
  <2>1. \A n \in 0..Len(s) : p[n] = Extend(p, n)
    <3> HIDE DEF Extend
    <3>1. QED
      BY <1>8
  <2>2. QED
    BY <2>1 DEF p

LEMMA DigitsType ==
    ASSUME NEW s \in Texts
    PROVE  \A n \in 0..Len(s) : /\ PrefixDigits(s)[n] \in Seq(0..9)
                                /\ Len(PrefixDigits(s)[n]) <= n
<1> DEFINE p == PrefixDigits(s)
           P(n) == p[n] \in Seq(0..9) /\ Len(p[n]) <= n
           T == {n \in Nat : n <= Len(s) => P(n)}
<1>0. /\ p[0] = <<>>
      /\ \A n \in 1..Len(s) :
            p[n] = IF s[n] = Hyphen THEN p[n - 1] ELSE Append(p[n - 1], s[n])
  BY PrefixStep DEF Texts
<1> HIDE DEF p
<1>1. 0 \in T
  <2>1. <<>> \in Seq(0..9) /\ Len(<<>>) <= 0
    OBVIOUS
  <2>2. P(0)
    BY <1>0, <2>1
  <2>3. QED
    BY <2>2
<1>2. ASSUME NEW n \in T
      PROVE  n + 1 \in T
  <2>1. SUFFICES ASSUME n + 1 <= Len(s)
                 PROVE  P(n + 1)
    OBVIOUS
  <2>2. n + 1 \in 1..Len(s) /\ (n + 1) - 1 = n /\ P(n)
    BY <2>1 DEF Texts
  <2>3. p[n + 1] = IF s[n + 1] = Hyphen THEN p[n] ELSE Append(p[n], s[n + 1])
    BY <1>0, <2>2
  <2>4. s[n + 1] # Hyphen => s[n + 1] \in 0..9
    BY <2>2 DEF Texts, Hyphen
  <2>5. QED
    BY <2>2, <2>3, <2>4
<1>3. T = Nat
  <2> HIDE DEF P
  <2>1. QED
    BY <1>1, <1>2, Induction
<1>4. \A n \in 0..Len(s) : n \in T
  <2> HIDE DEF T
  <2>1. QED
    BY <1>3 DEF Texts
<1>5. QED
  BY <1>4 DEF p

LEMMA DigitsAreDigits ==
    ASSUME NEW s \in Texts
    PROVE  DigitsOnly(s) \in Seq(0..9) /\ Count(s) \in 0..Len(s)
<1>1. Len(s) \in 0..Len(s)
  BY DEF Texts
<1>2. DigitsOnly(s) \in Seq(0..9) /\ Len(DigitsOnly(s)) <= Len(s)
  BY <1>1, DigitsType DEF DigitsOnly
<1>3. QED
  BY <1>2 DEF Count, Texts

LEMMA Associative ==
    ASSUME NEW a \in Seq(0..9), NEW b \in Seq(0..9), NEW e
    PROVE  a \o Append(b, e) = Append(a \o b, e)
  OBVIOUS

LEMMA ConcatOfTexts ==
    ASSUME NEW s \in Texts, NEW t \in Texts
    PROVE  /\ s \o t \in Texts
           /\ Len(s \o t) = Len(s) + Len(t)
           /\ \A i \in 1..Len(s) : (s \o t)[i] = s[i]
           /\ \A i \in 1..Len(t) : (s \o t)[Len(s) + i] = t[i]
  BY DEF Texts

LEMMA DigitsOfConcat ==
    ASSUME NEW s \in Texts, NEW t \in Texts
    PROVE  DigitsOnly(s \o t) = DigitsOnly(s) \o DigitsOnly(t)
<1> DEFINE u == s \o t
           p == PrefixDigits(s)
           q == PrefixDigits(t)
           r == PrefixDigits(u)
           m == Len(s)
           S == {n \in Nat : n <= m => r[n] = p[n]}
           J(n) == p[m] \o q[n]
           T == {n \in Nat : n <= Len(t) => r[m + n] = J(n)}
<1>1. /\ u \in Texts /\ Len(u) = m + Len(t) /\ m \in Nat /\ Len(t) \in Nat
      /\ \A i \in 1..m : u[i] = s[i]
      /\ \A i \in 1..Len(t) : u[m + i] = t[i]
  BY ConcatOfTexts DEF Texts
<1>2. /\ p[0] = <<>>
      /\ \A n \in 1..m :
            p[n] = IF s[n] = Hyphen THEN p[n - 1] ELSE Append(p[n - 1], s[n])
  BY PrefixStep DEF Texts
<1>3. /\ q[0] = <<>>
      /\ \A n \in 1..Len(t) :
            q[n] = IF t[n] = Hyphen THEN q[n - 1] ELSE Append(q[n - 1], t[n])
  BY PrefixStep DEF Texts
<1> HIDE DEF u
<1>4. /\ r[0] = <<>>
      /\ \A n \in 1..Len(u) :
            r[n] = IF u[n] = Hyphen THEN r[n - 1] ELSE Append(r[n - 1], u[n])
  BY <1>1, PrefixStep DEF Texts
<1>5. /\ p[m] \in Seq(0..9)
      /\ \A n \in 0..Len(t) : q[n] \in Seq(0..9)
  <2>1. m \in 0..Len(s)
    BY <1>1
  <2>2. PrefixDigits(s)[m] \in Seq(0..9)
    BY <2>1, DigitsType
  <2>3. \A n \in 0..Len(t) : PrefixDigits(t)[n] \in Seq(0..9)
    BY DigitsType
  <2>4. QED
    BY <2>2, <2>3
<1> HIDE DEF p, q, r, m
<1>6. S = Nat
  <2>1. 0 \in S
    BY <1>2, <1>4
  <2>2. ASSUME NEW n \in S
        PROVE  n + 1 \in S
    <3>1. SUFFICES ASSUME n + 1 <= m
                   PROVE  r[n + 1] = p[n + 1]
      OBVIOUS
    <3>2. /\ n + 1 \in 1..m /\ n + 1 \in 1..Len(u) /\ (n + 1) - 1 = n
          /\ r[n] = p[n]
      BY <1>1, <3>1
    <3>3. QED
      BY <1>1, <1>2, <1>4, <3>2
  <2>3. QED
    BY <2>1, <2>2, Induction
<1>7. r[m] = p[m]
  <2>1. m \in S
    BY <1>1, <1>6
  <2>2. QED
    BY <1>1, <2>1
<1>8. J(0) = p[m]
  BY <1>3, <1>5
<1>9. \A n \in 1..Len(t) :
        J(n) = IF t[n] = Hyphen THEN J(n - 1) ELSE Append(J(n - 1), t[n])
  <2>1. SUFFICES ASSUME NEW n \in 1..Len(t)
                 PROVE  J(n) = IF t[n] = Hyphen THEN J(n - 1) ELSE Append(J(n - 1), t[n])
    OBVIOUS
  <2>2. q[n] = IF t[n] = Hyphen THEN q[n - 1] ELSE Append(q[n - 1], t[n])
    BY <1>3
  <2>3. n - 1 \in 0..Len(t)
    BY <1>1
  <2>4. p[m] \o Append(q[n - 1], t[n]) = Append(p[m] \o q[n - 1], t[n])
    BY <1>5, <2>3, Associative
  <2>5. QED
    BY <2>2, <2>4
<1> HIDE DEF J
<1>10. T = Nat
  <2>1. 0 \in T
    BY <1>1, <1>7, <1>8
  <2>2. ASSUME NEW n \in T
        PROVE  n + 1 \in T
    <3>1. CASE n + 1 <= Len(t)
      <4>1. /\ n + 1 \in 1..Len(t) /\ (n + 1) - 1 = n
            /\ m + (n + 1) \in 1..Len(u) /\ (m + (n + 1)) - 1 = m + n
            /\ r[m + n] = J(n)
        BY <1>1, <3>1
      <4>2. u[m + (n + 1)] = t[n + 1]
        BY <1>1, <4>1
      <4>3. r[m + (n + 1)] = IF t[n + 1] = Hyphen THEN r[m + n]
                             ELSE Append(r[m + n], t[n + 1])
        BY <1>4, <4>1, <4>2
      <4>4. r[m + (n + 1)] = J(n + 1)
        BY <1>9, <4>1, <4>3
      <4>5. QED
        BY <4>4
    <3>2. QED
      BY <3>1
  <2>3. QED
    BY <2>1, <2>2, Induction
<1>11. r[m + Len(t)] = J(Len(t))
  <2>1. Len(t) \in T
    BY <1>1, <1>10
  <2>2. QED
    BY <1>1, <2>1
<1>12. QED
  BY <1>1, <1>11 DEF DigitsOnly, J, p, q, r, m, u

LEMMA DigitsOfHyphen ==
    /\ <<>> \in Texts /\ DigitsOnly(<<>>) = <<>>
    /\ <<Hyphen>> \in Texts /\ DigitsOnly(<<Hyphen>>) = <<>>
<1>1. <<>> \in Texts /\ <<Hyphen>> \in Texts
  BY DEF Texts, Hyphen
<1>2. PrefixDigits(<<>>)[0] = <<>>
  BY <1>1, PrefixStep DEF Texts
<1>3. PrefixDigits(<<Hyphen>>)[0] = <<>> /\ PrefixDigits(<<Hyphen>>)[1] = <<>>
  <2> DEFINE h == <<Hyphen>>
  <2>1. /\ PrefixDigits(h)[0] = <<>>
        /\ \A n \in 1..Len(h) :
              PrefixDigits(h)[n] = IF h[n] = Hyphen THEN PrefixDigits(h)[n - 1]
                                   ELSE Append(PrefixDigits(h)[n - 1], h[n])
    BY <1>1, PrefixStep, Zenon DEF Texts
  <2>2. h[1] = Hyphen /\ 1 \in 1..Len(h) /\ 1 - 1 = 0
    OBVIOUS
  <2> HIDE DEF h
  <2>3. PrefixDigits(h)[1] = PrefixDigits(h)[0]
    BY <2>1, <2>2
  <2>4. QED
    BY <2>1, <2>3 DEF h
<1>4. Len(<<>>) = 0 /\ Len(<<Hyphen>>) = 1
  OBVIOUS
<1>5. QED
  BY <1>1, <1>2, <1>3, <1>4 DEF DigitsOnly

LEMMA DigitsOfDigits ==
    ASSUME NEW d \in Seq(0..9)
    PROVE  d \in Texts /\ DigitsOnly(d) = d
<1> DEFINE p == PrefixDigits(d)
           T == {n \in Nat : n <= Len(d) => p[n] = SubSeq(d, 1, n)}
<1>1. d \in Texts
  BY DEF Texts, Hyphen
<1>2. /\ p[0] = <<>>
      /\ \A n \in 1..Len(d) :
            p[n] = IF d[n] = Hyphen THEN p[n - 1] ELSE Append(p[n - 1], d[n])
  BY <1>1, PrefixStep DEF Texts
<1> HIDE DEF p
<1>3. T = Nat
  <2>1. 0 \in T
    <3>1. SubSeq(d, 1, 0) = <<>>
      OBVIOUS
    <3>2. QED
      BY <1>2, <3>1
  <2>2. ASSUME NEW n \in T
        PROVE  n + 1 \in T
    <3>1. SUFFICES ASSUME n + 1 <= Len(d)
                   PROVE  p[n + 1] = SubSeq(d, 1, n + 1)
      OBVIOUS
    <3>2. /\ n + 1 \in 1..Len(d) /\ (n + 1) - 1 = n /\ n \in Nat
          /\ p[n] = SubSeq(d, 1, n)
      BY <3>1
    <3>3. d[n + 1] # Hyphen
      BY <3>2 DEF Hyphen
    <3>4. p[n + 1] = Append(p[n], d[n + 1])
      BY <1>2, <3>2, <3>3
    <3>5. Append(SubSeq(d, 1, n), d[n + 1]) = SubSeq(d, 1, n + 1)
      BY <3>1, <3>2
    <3>6. QED
      BY <3>2, <3>4, <3>5
  <2>3. QED
    BY <2>1, <2>2, Induction
<1>4. p[Len(d)] = SubSeq(d, 1, Len(d))
  <2> HIDE DEF T
  <2>1. Len(d) \in T
    BY <1>3
  <2>2. QED
    BY <2>1 DEF T
<1>5. SubSeq(d, 1, Len(d)) = d
  OBVIOUS
<1>6. QED
  BY <1>1, <1>4, <1>5 DEF DigitsOnly, p

LEMMA SliceOfSeq ==
    ASSUME NEW R, NEW s \in Seq(R), NEW a \in Nat, NEW b \in Nat, a <= b
    PROVE  /\ Slice(s, a, b) \in Seq(R)
           /\ b <= Len(s) => Len(Slice(s, a, b)) = b - a
           /\ b > Len(s) /\ a <= Len(s) => Len(Slice(s, a, b)) = Len(s) - a
           /\ a > Len(s) => Len(Slice(s, a, b)) = 0
           /\ \A i \in 1..Len(Slice(s, a, b)) :
                 a + i \in 1..Len(s) /\ Slice(s, a, b)[i] = s[a + i]
<1> DEFINE e == Least(b, Len(s))
           t == SubSeq(s, a + 1, e)
<1>1. /\ Len(s) \in Nat /\ e \in Nat /\ e <= Len(s)
      /\ e = IF b <= Len(s) THEN b ELSE Len(s)
  BY DEF Least
<1> HIDE DEF e
<1>2. /\ t \in Seq(R)
      /\ Len(t) = IF a + 1 <= e THEN e - a ELSE 0
      /\ \A i \in 1..Len(t) : a + i \in 1..Len(s) /\ t[i] = s[a + i]
  BY <1>1
<1>3. t = Slice(s, a, b)
  BY DEF Slice, e
<1> HIDE DEF t
<1>4. QED
  BY <1>1, <1>2, <1>3

LEMMA SameSeq ==
    ASSUME NEW R, NEW s \in Seq(R), NEW t \in Seq(R), Len(s) = Len(t),
           \A i \in 1..Len(s) : s[i] = t[i]
    PROVE  s = t
  OBVIOUS

LEMMA JoinedSeqs ==
    ASSUME NEW R, NEW s \in Seq(R), NEW t \in Seq(R)
    PROVE  /\ s \o t \in Seq(R)
           /\ Len(s \o t) = Len(s) + Len(t)
           /\ \A i \in 1..Len(s) : (s \o t)[i] = s[i]
           /\ \A i \in 1..Len(t) : (s \o t)[Len(s) + i] = t[i]
  OBVIOUS

LEMMA SliceOfTexts ==
    ASSUME NEW s \in Texts, NEW a \in Nat, NEW b \in Nat, a <= b
    PROVE  /\ Slice(s, a, b) \in Texts
           /\ b <= Len(s) => Len(Slice(s, a, b)) = b - a
           /\ b > Len(s) /\ a <= Len(s) => Len(Slice(s, a, b)) = Len(s) - a
           /\ a > Len(s) => Len(Slice(s, a, b)) = 0
           /\ \A i \in 1..Len(Slice(s, a, b)) : Slice(s, a, b)[i] = s[a + i]
<1> DEFINE R == 0..Hyphen
<1>1. s \in Seq(R) /\ Texts = Seq(R)
  BY DEF Texts
<1> HIDE DEF R
<1>2. QED
  BY <1>1, SliceOfSeq

\* Where a text is cut in two, the parts make it up again.
LEMMA TwoParts ==
    ASSUME NEW s \in Texts, NEW a \in Nat, NEW b \in Nat, NEW c \in Nat,
           a <= b, b <= c
    PROVE  Slice(s, a, b) \o Slice(s, b, c) = Slice(s, a, c)
<1> DEFINE x == Slice(s, a, b)
           y == Slice(s, b, c)
           z == Slice(s, a, c)
           n == Len(s)
<1>1. /\ x \in Texts
      /\ b <= n => Len(x) = b - a
      /\ b > n /\ a <= n => Len(x) = n - a
      /\ a > n => Len(x) = 0
      /\ \A i \in 1..Len(x) : x[i] = s[a + i]
  BY SliceOfTexts
<1>2. /\ y \in Texts
      /\ c <= n => Len(y) = c - b
      /\ c > n /\ b <= n => Len(y) = n - b
      /\ b > n => Len(y) = 0
      /\ \A i \in 1..Len(y) : y[i] = s[b + i]
  BY SliceOfTexts
<1>0. a <= c
  OBVIOUS
<1>3. /\ z \in Texts
      /\ c <= n => Len(z) = c - a
      /\ c > n /\ a <= n => Len(z) = n - a
      /\ a > n => Len(z) = 0
      /\ \A i \in 1..Len(z) : z[i] = s[a + i]
  BY <1>0, SliceOfTexts
<1>4. n \in Nat
  BY DEF Texts
<1> DEFINE u == x \o y
<1> HIDE DEF x, y, z, n
<1>5. /\ u \in Texts /\ Len(u) = Len(x) + Len(y)
      /\ \A i \in 1..Len(x) : u[i] = x[i]
      /\ \A i \in 1..Len(y) : u[Len(x) + i] = y[i]
  BY <1>1, <1>2, ConcatOfTexts
<1> HIDE DEF u
<1>6. Len(x) \in Nat /\ Len(y) \in Nat /\ Len(u) = Len(z)
  BY <1>1, <1>2, <1>3, <1>4, <1>5
<1>7. ASSUME NEW i \in 1..Len(z)
      PROVE  u[i] = z[i]
  <2>1. CASE i <= Len(x)
    <3>1. i \in 1..Len(x)
      BY <1>6, <2>1
    <3>2. QED
      BY <1>1, <1>3, <1>5, <3>1
  <2>2. CASE i > Len(x)
    <3>1. /\ i - Len(x) \in 1..Len(y) /\ Len(x) + (i - Len(x)) = i
          /\ i - Len(x) \in Nat
      BY <1>5, <1>6, <2>2
    <3>2. Len(x) = b - a
      BY <1>1, <1>2, <1>4, <3>1
    <3>3. u[i] = s[b + (i - Len(x))]
      BY <1>2, <1>5, <3>1
    <3>4. b + (i - Len(x)) = a + i
      BY <3>1, <3>2, <1>6
    <3>5. QED
      BY <1>3, <3>3, <3>4
  <2>3. QED
    BY <1>6, <2>1, <2>2
<1>8. u = z
  BY <1>3, <1>5, <1>6, <1>7, SameSeq DEF Texts
<1>9. QED
  BY <1>8 DEF u, x, y, z

LEMMA WholeSlice ==
    ASSUME NEW R, NEW s \in Seq(R), NEW n \in Nat, Len(s) <= n
    PROVE  Slice(s, 0, n) = s /\ Slice(s, n, n) = <<>>
<1>1. Slice(s, 0, n) \in Seq(R) /\ Len(Slice(s, 0, n)) = Len(s)
  BY SliceOfSeq
<1>2. \A i \in 1..Len(s) : Slice(s, 0, n)[i] = s[i]
  <2>1. \A i \in 1..Len(s) : Slice(s, 0, n)[i] = s[0 + i] /\ 0 + i = i
    BY <1>1, SliceOfSeq
  <2>2. QED
    BY <2>1
<1>3. Slice(s, 0, n) = s
  BY <1>1, <1>2, SameSeq
<1>4. Slice(s, n, n) = <<>>
  BY DEF Slice, Least
<1>5. QED
  BY <1>3, <1>4

-----------------------------------------------------------------------------

LEMMA CutsAre ==
    ASSUME NEW l
    PROVE  /\ Cuts(l)[1] \in Nat /\ Cuts(l)[2] \in Nat
           /\ Cuts(l)[1] > 0 /\ Cuts(l)[1] < Cuts(l)[2] /\ Cuts(l)[2] < 8
  BY DEF Cuts

LEMMA DigitsOfPart ==
    ASSUME NEW d \in Seq(0..9)
    PROVE  Part(d) \in Texts /\ DigitsOnly(Part(d)) = d
<1>1. CASE d = <<>>
  BY <1>1, DigitsOfHyphen DEF Part
<1>2. CASE d # <<>>
  <2>1. Part(d) = <<Hyphen>> \o d
    BY <1>2 DEF Part
  <2>2. d \in Texts /\ DigitsOnly(d) = d
    BY DigitsOfDigits
  <2>3. DigitsOnly(<<Hyphen>> \o d) = <<>> \o d
    BY <2>2, DigitsOfHyphen, DigitsOfConcat
  <2>4. QED
    BY <2>1, <2>2, <2>3, DigitsOfHyphen, ConcatOfTexts
<1>3. QED
  BY <1>1, <1>2

\* The mask puts in hyphens and takes away no digit of a date.
LEMMA DigitsOfMask ==
    ASSUME NEW d \in Seq(0..9), Len(d) <= 8, NEW l
    PROVE  formatFromDigits(d, l) \in Texts /\ DigitsOnly(formatFromDigits(d, l)) = d
<1> DEFINE c == Cuts(l)
           x == Slice(d, 0, c[1])
           y == Slice(d, c[1], c[2])
           z == Slice(d, c[2], 8)
<1>1. /\ c[1] \in Nat /\ c[2] \in Nat /\ c[1] > 0 /\ c[1] < c[2] /\ c[2] < 8
  BY CutsAre
<1>2. formatFromDigits(d, l) = (x \o Part(y)) \o Part(z)
  BY DEF formatFromDigits
<1> HIDE DEF c
<1>3. x \in Seq(0..9) /\ y \in Seq(0..9) /\ z \in Seq(0..9)
  BY <1>1, SliceOfSeq
<1>4. (x \o y) \o z = d
  <2>0. d \in Texts
    BY DigitsOfDigits
  <2>4. 0 \in Nat /\ 8 \in Nat /\ 0 <= c[1] /\ 0 <= c[2] /\ c[1] <= c[2] /\ c[2] <= 8
    BY <1>1
  <2>1. x \o y = Slice(d, 0, c[2])
    BY <1>1, <2>0, <2>4, TwoParts, Zenon
  <2>2. Slice(d, 0, c[2]) \o z = Slice(d, 0, 8)
    BY <1>1, <2>0, <2>4, TwoParts, Zenon
  <2>3. QED
    BY <2>1, <2>2, WholeSlice
<1> HIDE DEF x, y, z
<1>5. /\ x \in Texts /\ DigitsOnly(x) = x
      /\ Part(y) \in Texts /\ DigitsOnly(Part(y)) = y
      /\ Part(z) \in Texts /\ DigitsOnly(Part(z)) = z
  BY <1>3, DigitsOfDigits, DigitsOfPart
<1>6. x \o Part(y) \in Texts /\ DigitsOnly(x \o Part(y)) = x \o y
  <2>1. x \o Part(y) \in Texts
    BY <1>5, ConcatOfTexts
  <2>2. DigitsOnly(x \o Part(y)) = DigitsOnly(x) \o DigitsOnly(Part(y))
    BY <1>5, DigitsOfConcat
  <2>3. QED
    BY <1>5, <2>1, <2>2
<1> DEFINE xy == x \o Part(y)
           m == xy \o Part(z)
<1>7. m \in Texts
  BY <1>5, <1>6, ConcatOfTexts
<1>8. DigitsOnly(m) = DigitsOnly(xy) \o DigitsOnly(Part(z))
  BY <1>5, <1>6, DigitsOfConcat
<1>9. QED
  BY <1>2, <1>4, <1>5, <1>6, <1>7, <1>8

LEMMA Clamped ==
    ASSUME NEW d \in Seq(0..9)
    PROVE  /\ clampDigits(d) \in Seq(0..9)
           /\ Len(clampDigits(d)) <= 8
           /\ Len(d) > 8 => Len(clampDigits(d)) = 8
           /\ Len(d) <= 8 => clampDigits(d) = d
<1>1. Len(d) \in Nat /\ 0 \in Nat
  OBVIOUS
<1>2. clampDigits(d) = SubSeq(d, 1, IF Len(d) <= 8 THEN Len(d) ELSE 8)
  BY <1>1 DEF clampDigits, Slice, Least
<1>3. CASE Len(d) <= 8
  BY <1>2, <1>3
<1>4. CASE Len(d) > 8
  <2>1. clampDigits(d) = SubSeq(d, 1, 8)
    BY <1>1, <1>2, <1>4
  <2>2. SubSeq(d, 1, 8) \in Seq(0..9) /\ Len(SubSeq(d, 1, 8)) = 8
    BY <1>4
  <2>3. QED
    BY <1>4, <2>1, <2>2
<1>5. QED
  BY <1>1, <1>3, <1>4

LEMMA DigitsOfMasked ==
    ASSUME NEW s \in Texts, NEW l
    PROVE  /\ Masked(s, l) \in Texts
           /\ DigitsOnly(Masked(s, l)) = clampDigits(DigitsOnly(s))
           /\ Count(Masked(s, l)) <= 8
           /\ Count(s) > 8 => Count(Masked(s, l)) = 8
           /\ Count(s) <= 8 => DigitsOnly(Masked(s, l)) = DigitsOnly(s)
<1> DEFINE d == DigitsOnly(s)
           e == clampDigits(d)
<1>1. d \in Seq(0..9)
  BY DigitsAreDigits
<1>2. /\ e \in Seq(0..9) /\ Len(e) <= 8
      /\ Len(d) > 8 => Len(e) = 8
      /\ Len(d) <= 8 => e = d
  BY <1>1, Clamped
<1> HIDE DEF d, e
<1>3. /\ formatFromDigits(e, l) \in Texts
      /\ DigitsOnly(formatFromDigits(e, l)) = e
  BY <1>2, DigitsOfMask
<1>4. QED
  BY <1>2, <1>3 DEF Masked, Count, d, e

-----------------------------------------------------------------------------
\* Without sessionStorage nothing is kept.
NothingKept == ~canStore => kept = None

\* What has changed since it was sent has changed since the last result.
SentIsShown == "sent" \in touched => "shown" \in touched

SearchUnderWay == pending # None /\ pending.to = "search"

\* While a search is under way, and until the form is edited again, what was
\* sent, the form and the kept form are the same criteria.
SentIsForm ==
    SearchUnderWay /\ "sent" \notin touched =>
        /\ pending.who = who /\ pending.text = text
        /\ kept = None \/ (kept.who = pending.who /\ kept.text = pending.text)

\* Nothing that is under way after Clear brings criteria back.
NothingReturns ==
    pending # None /\ cleared # "no" => pending.to # "search" /\ ~BringsQuery(pending)

\* After Clear no copy of the form survives, and the token on the page is the
\* one that it was rendered with.
ClearForgets ==
    cleared # "no" =>
        /\ kept = None
        /\ cleared = "done" /\ page = "form" =>
              who = "none" /\ text = <<>> /\ token = drawn

IInv ==
    /\ NothingKept
    /\ SentIsShown
    /\ SentIsForm
    /\ NothingReturns
    /\ ClearForgets
    /\ ResultIsOfForm

LEMMA InitHolds == Init => IInv
  BY DEF Init, IInv, NothingKept, SentIsShown, SentIsForm, SearchUnderWay,
         NothingReturns, ClearForgets, ResultIsOfForm, NoAnswer

-----------------------------------------------------------------------------
(* The page, before it is left *)

\* An edit touches the form, and forgets a Clear.
LEMMA EditHolds == IInv /\ (EnterDate \/ EnterWho) => IInv'
  <1> SUFFICES ASSUME IInv, EnterDate \/ EnterWho PROVE IInv'
    OBVIOUS
  <1>1. /\ touched' = {"shown", "sent"} /\ cleared' = "no"
        /\ canStore' = canStore
        /\ ~canStore => kept' = kept
    BY DEF EnterDate, EnterWho, Edited, Saved
  <1> QED
    BY <1>1 DEF IInv, NothingKept, SentIsShown, SentIsForm, SearchUnderWay,
                NothingReturns, ClearForgets, ResultIsOfForm

\* The mask leaves an empty field empty.
LEMMA EmptyStays ==
    ASSUME NEW l
    PROVE  Masked(<<>>, l) = <<>>
  <1>1. clampDigits(DigitsOnly(<<>>)) = <<>>
    BY DigitsOfHyphen DEF clampDigits, Slice, Least
  <1>2. Slice(<<>>, 0, Cuts(l)[1]) = <<>>
    BY CutsAre DEF Slice, Least
  <1>3. Slice(<<>>, Cuts(l)[1], Cuts(l)[2]) = <<>>
    BY CutsAre DEF Slice, Least
  <1>4. Slice(<<>>, Cuts(l)[2], 8) = <<>>
    BY CutsAre DEF Slice, Least
  <1>5. formatFromDigits(<<>>, l) = (<<>> \o Part(<<>>)) \o Part(<<>>)
    BY <1>2, <1>3, <1>4 DEF formatFromDigits
  <1> QED
    BY <1>1, <1>5 DEF Masked, Part

LEMMA LeaveHolds == IInv /\ Leave => IInv'
  <1> SUFFICES ASSUME IInv, Leave PROVE IInv'
    OBVIOUS
  <1>2. text = <<>> => text' = <<>>
    BY EmptyStays DEF Leave
  <1>1. \/ touched' = {"shown", "sent"}
        \/ text' = text /\ touched' = touched
    BY DEF Leave
  <1> QED
    BY <1>1, <1>2 DEF Leave, server, IInv, NothingKept, SentIsShown, SentIsForm,
                SearchUnderWay, NothingReturns, BringsQuery, ClearForgets, ResultIsOfForm

\* What is submitted is what is kept.
LEMMA SubmitHolds == IInv /\ Submit => IInv'
  <1> SUFFICES ASSUME IInv, Submit PROVE IInv'
    OBVIOUS
  <1>1. /\ canStore' = canStore /\ cleared' = "no"
        /\ who' = who /\ text' = text /\ page' = page /\ answer' = answer
        /\ touched' = touched \ {"sent"}
        /\ pending'.who = who /\ pending'.text = text
    BY DEF Submit, form, server
  <1>2. /\ ~canStore => kept' = None
        /\ kept' = None \/ (kept'.who = who /\ kept'.text = text)
    BY DEF Submit, SubmitSaved, Saved, IInv, NothingKept
  <1>3. NothingKept' /\ SentIsShown' /\ SentIsForm'
    BY <1>1, <1>2 DEF NothingKept, SentIsShown, SentIsForm, SearchUnderWay
  <1>4. NothingReturns' /\ ClearForgets' /\ ResultIsOfForm'
    BY <1>1 DEF IInv, NothingReturns, ClearForgets, ResultIsOfForm
  <1> QED
    BY <1>3, <1>4 DEF IInv

LEMMA ClearHolds == IInv /\ Clear => IInv'
  <1> SUFFICES ASSUME IInv, Clear PROVE IInv'
    OBVIOUS
  <1>1. /\ pending'.to = "clear" /\ kept' = None /\ cleared' = "asked"
        /\ UNCHANGED <<text, who, page, answer, canStore, touched>>
    BY DEF Clear, ClearSaved, form, server, IInv, NothingKept
  <1> QED
    BY <1>1 DEF IInv, NothingKept, SentIsShown, SentIsForm, SearchUnderWay,
                NothingReturns, BringsQuery, ClearForgets, ResultIsOfForm

\* Any other navigation replaces what was under way by what is no search.
LEMMA GoesHolds == IInv /\ (Visit \/ SwitchLanguage \/ FollowLink) => IInv'
  <1> SUFFICES ASSUME IInv, Visit \/ SwitchLanguage \/ FollowLink PROVE IInv'
    OBVIOUS
  <1>1. /\ pending'.to \in {"page", "language", "link"}
        /\ cleared' # "no" => cleared = cleared' /\ ~BringsQuery(pending')
        /\ UNCHANGED <<text, who, token, drawn, url>>
        /\ UNCHANGED <<page, answer, canStore, kept, touched>>
    BY DEF Visit, SwitchLanguage, FollowLink, Goes, BringsQuery, form, server
  <1> QED
    BY <1>1 DEF IInv, NothingKept, SentIsShown, SentIsForm, SearchUnderWay,
                NothingReturns, BringsQuery, ClearForgets, ResultIsOfForm

LEMMA RedeployHolds == IInv /\ Redeploy => IInv'
  BY DEF Redeploy, form, history, IInv, NothingKept, SentIsShown, SentIsForm,
         SearchUnderWay, NothingReturns, BringsQuery, ClearForgets, ResultIsOfForm

-----------------------------------------------------------------------------
(* The answers *)

\* What an answer to a navigation keeps, whichever it is.
LEMMA AnswerKeeps ==
  ASSUME IInv, Answer
  PROVE  pending' = None /\ kept' = kept /\ NothingKept' /\ NothingReturns'
  <1>1. pending' = None /\ canStore' = canStore /\ kept' = kept
    BY DEF Answer, Refused, OnPost, OnGet, OnGetPrefilled, SetCulture
  <1> QED
    BY <1>1 DEF IInv, NothingKept, NothingReturns

\* A page that is rendered with no criteria and no result.
LEMMA BlankHolds ==
  ASSUME IInv, Answer, NEW l, Get(None, l)
  PROVE  IInv'
  <1>1. /\ touched' = touched
        /\ answer'.kind = "none"
        /\ cleared' = IF cleared = "asked" THEN "done" ELSE cleared
        /\ kept = None => who' = "none" /\ text' = <<>> /\ token' = drawn'
    BY DEF Get, Arrive, Blank, NoAnswer
  <1> QED
    BY <1>1, AnswerKeeps DEF IInv, SentIsShown, SentIsForm, SearchUnderWay,
                             ClearForgets, ResultIsOfForm

\* The result of a search stands beside the criteria of the search.
LEMMA ResultHolds ==
  ASSUME IInv, Answer, OnPost
  PROVE  IInv'
  <1>1. touched' = IF "sent" \in touched THEN touched ELSE {}
    BY DEF OnPost
  <1>2. SearchUnderWay
    BY DEF Answer, OnPost, SearchUnderWay
  <1>3. cleared = "no" /\ cleared' = "no"
    BY <1>2 DEF OnPost, Arrive, IInv, NothingReturns, SearchUnderWay
  <1>4. answer'.kind = "found" => answer'.who = pending.who /\ answer'.text = pending.text
    BY DEF OnPost, Searched, Errors
  <1>5. "sent" \notin touched => who' = pending.who /\ text' = pending.text
    BY <1>2 DEF OnPost, Arrive, IInv, SentIsForm
  <1>6. ResultIsOfForm'
    <2>1. CASE "sent" \in touched
      BY <2>1, <1>1 DEF IInv, SentIsShown, ResultIsOfForm
    <2>2. CASE "sent" \notin touched
      BY <2>2, <1>4, <1>5 DEF ResultIsOfForm
    <2> QED
      BY <2>1, <2>2
  <1>7. SentIsShown' /\ SentIsForm' /\ ClearForgets'
    BY <1>1, <1>3, AnswerKeeps DEF IInv, SentIsShown, SentIsForm, SearchUnderWay, ClearForgets
  <1> QED
    BY <1>6, <1>7, AnswerKeeps DEF IInv

\* The result of a link is no result of the form.
LEMMA LinkHolds ==
  ASSUME IInv, Answer, BringsQuery(pending), NEW c, c # None, NEW l, Get(c, l)
  PROVE  IInv'
  <1>1. touched' = {}
    BY DEF Get
  <1>2. answer'.kind = "found" => answer'.to = "link"
    BY DEF Get, Searched, Errors
  <1>3. cleared = "no" /\ cleared' = "no"
    BY DEF Answer, Get, Arrive, IInv, NothingReturns
  <1> QED
    BY <1>1, <1>2, <1>3, AnswerKeeps
       DEF IInv, SentIsShown, SentIsForm, SearchUnderWay, ClearForgets, ResultIsOfForm

\* A page that is asked for, with the query of its address or without.
LEMMA GetHolds ==
  ASSUME IInv, Answer, OnGet \/ OnGetPrefilled \/ SetCulture
  PROVE  IInv'
  <1>1. CASE OnGet
    BY <1>1, BlankHolds DEF OnGet
  <1>2. CASE OnGetPrefilled
    <2> DEFINE c == [who |-> pending.who, text |-> pending.text]
    <2>1. Get(c, lang) /\ BringsQuery(pending)
      BY <1>2 DEF OnGetPrefilled, BringsQuery
    <2> QED
      BY <2>1, BlankHolds, LinkHolds
  <1>3. CASE SetCulture
    <2>1. Get(url, lang') /\ (url # None => BringsQuery(pending))
      BY <1>3 DEF SetCulture, BringsQuery
    <2> QED
      BY <2>1, BlankHolds, LinkHolds
  <1> QED
    BY <1>1, <1>2, <1>3

LEMMA RefusedHolds ==
  ASSUME IInv, Answer, Refused
  PROVE  IInv'
  <1>1. page' = "refused" /\ UNCHANGED <<touched, cleared>>
    BY DEF Refused
  <1> QED
    BY <1>1, AnswerKeeps DEF IInv, SentIsShown, SentIsForm, SearchUnderWay,
                             ClearForgets, ResultIsOfForm

LEMMA AnswerHolds == IInv /\ Answer => IInv'
  BY GetHolds, ResultHolds, RefusedHolds DEF Answer

-----------------------------------------------------------------------------

LEMMA StepHolds == IInv /\ [Next]_vars => IInv'
  <1> SUFFICES ASSUME IInv, [Next]_vars PROVE IInv'
    OBVIOUS
  <1>1. CASE Navigate
    BY <1>1, SubmitHolds, ClearHolds, GoesHolds DEF Navigate
  <1>2. CASE UNCHANGED vars
    BY <1>2 DEF vars, form, server, history, IInv, NothingKept, SentIsShown,
                SentIsForm, SearchUnderWay, NothingReturns, BringsQuery, ClearForgets,
                ResultIsOfForm
  <1> QED
    BY <1>1, <1>2, EditHolds, LeaveHolds, AnswerHolds, RedeployHolds DEF Next

THEOREM Invariance == Spec => []IInv
  BY InitHolds, StepHolds, PTL DEF Spec

\* Until it is edited, the form beside the result of a search shows what was
\* searched for (OnPostAsync, load() of index-form-state.js).
THEOREM ResultStandsByForm == Spec => []ResultIsOfForm
  <1>1. IInv => ResultIsOfForm
    BY DEF IInv
  <1> QED
    BY <1>1, Invariance, PTL

\* Once the form has been cleared, no page that loads brings the SSN, the names
\* or the date back, and none restores a token older than itself.
THEOREM ClearedStaysClear == Spec => []ClearStaysClear
  <1>1. IInv => ClearStaysClear
    BY DEF IInv, ClearForgets, ClearStaysClear, Form, Blank
  <1> QED
    BY <1>1, Invariance, PTL

-----------------------------------------------------------------------------
(***************************************************************************)
(* The days that eight digits read as: what follows is about the digits of  *)
(* a text and not about its hyphens, which the mask moves.                  *)
(***************************************************************************)
Ymd(d) == DayOf(100 * Pair(d, 1) + Pair(d, 3), Pair(d, 5), Pair(d, 7))
Dmy(d) == DayOf(100 * Pair(d, 5) + Pair(d, 7), Pair(d, 3), Pair(d, 1))
Mdy(d) == DayOf(100 * Pair(d, 5) + Pair(d, 7), Pair(d, 1), Pair(d, 3))

Readings(d) ==
    {InRange(Ymd(d)), InRange(Dmy(d)),
     InRange(IF Dmy(d) # NoDay THEN Dmy(d) ELSE Mdy(d))} \ {NoDay}

\* A text that is empty, or that reads as the day m or as none in any format.
Agrees(t, m) ==
    m # NoDay => \/ Count(t) = 0
                 \/ Count(t) = 8 /\ Readings(DigitsOnly(t)) \subseteq {m}

LEMMA DayOfType ==
    ASSUME NEW y \in Nat, NEW m \in Nat, NEW d \in Nat
    PROVE  /\ DayOf(y, m, d) \in Nat
           /\ DayOf(y, m, d) # NoDay =>
                m \in 1..12 /\ d \in 1..31 /\ DayOf(y, m, d) = 10000 * y + 100 * m + d
<1>1. DaysIn(y, m) \in 28..31
  BY DEF DaysIn
<1>2. QED
  BY <1>1 DEF DayOf, NoDay

LEMMA PairType ==
    ASSUME NEW d \in Seq(0..9), NEW i \in Nat, 0 < i, i < Len(d)
    PROVE  Pair(d, i) \in 0..99
<1>1. d[i] \in 0..9 /\ d[i + 1] \in 0..9
  OBVIOUS
<1>2. \A x \in 0..9, y \in 0..9 : 10 * x + y \in 0..99
  OBVIOUS
<1>3. Pair(d, i) = 10 * d[i] + d[i + 1]
  BY DEF Pair
<1>4. QED
  BY <1>1, <1>2, <1>3, Zenon

\* A date is a day of 1900 or later, in a month up to the twelfth.
LEMMA DayInRange ==
    ASSUME NEW y \in Nat, NEW m \in Nat, NEW d \in Nat,
           InRange(DayOf(y, m, d)) # NoDay
    PROVE  y > 1299 /\ m <= 12
<1>1. DayOf(y, m, d) >= 19000101 /\ DayOf(y, m, d) # NoDay
  BY DEF InRange, NoDay
<1>2. m \in 1..12 /\ d \in 1..31 /\ DayOf(y, m, d) = 10000 * y + 100 * m + d
  BY <1>1, DayOfType
<1>3. QED
  BY <1>1, <1>2

\* Of the years that eight digits may start and end with, one is before 1900.
LEMMA OneReading ==
    ASSUME NEW d \in Seq(0..9), Len(d) = 8,
           NEW a \in Readings(d), NEW b \in Readings(d)
    PROVE  a = b
<1> DEFINE p == Pair(d, 1)
           q == Pair(d, 3)
           r == Pair(d, 5)
           s == Pair(d, 7)
           y == 100 * p + q
           z == 100 * r + s
<1>1. p \in 0..99 /\ q \in 0..99 /\ r \in 0..99 /\ s \in 0..99
  <2>1. \A i \in {1, 3, 5, 7} : i \in Nat /\ 0 < i /\ i < Len(d)
    OBVIOUS
  <2>2. \A i \in {1, 3, 5, 7} : Pair(d, i) \in 0..99
    BY <2>1, PairType, Zenon
  <2>3. QED
    BY <2>2
<1>2. Ymd(d) = DayOf(y, r, s) /\ Dmy(d) = DayOf(z, q, p) /\ Mdy(d) = DayOf(z, p, q)
  BY DEF Ymd, Dmy, Mdy
<1> HIDE DEF p, q, r, s
<1>3. y \in Nat /\ z \in Nat /\ z = 100 * r + s
  BY <1>1
<1> HIDE DEF y, z
<1>4. InRange(Ymd(d)) # NoDay => InRange(Dmy(d)) = NoDay /\ InRange(Mdy(d)) = NoDay
  <2>1. SUFFICES ASSUME InRange(DayOf(y, r, s)) # NoDay
                 PROVE  InRange(DayOf(z, q, p)) = NoDay /\ InRange(DayOf(z, p, q)) = NoDay
    BY <1>2
  <2>2. p \in Nat /\ q \in Nat /\ r \in Nat /\ s \in 0..99
    BY <1>1
  <2>3. \A m \in Nat, e \in Nat : InRange(DayOf(y, m, e)) # NoDay => m <= 12
    BY <1>3, DayInRange
  <2>4. \A m \in Nat, e \in Nat : InRange(DayOf(z, m, e)) # NoDay => z > 1299
    BY <1>3, DayInRange
  <2>5. r <= 12
    BY <2>1, <2>2, <2>3
  <2>6. ~(z > 1299)
    BY <1>3, <2>2, <2>5
  <2>7. QED
    BY <2>2, <2>4, <2>6
<1>5. InRange(NoDay) = NoDay
  BY DEF InRange, NoDay
<1>6. QED
  BY <1>4, <1>5 DEF Readings

\* A whole date is read in one of the three ways, or not at all.
LEMMA ReadAsWritten ==
    ASSUME NEW t \in Texts, NEW l
    PROVE  /\ Count(t) = 0 => TryParseDob(t, l) = {NoDay}
           /\ Count(t) = 8 => /\ TryParseDob(t, l) = {WholeDay(t, l)}
                              /\ WholeDay(t, l) \in {NoDay} \cup Readings(DigitsOnly(t))
<1> DEFINE d == DigitsOnly(t)
           mdy == IF l = "en" THEN Mdy(d) ELSE NoDay
           x == IF t = formatFromDigits(d, "en") THEN InRange(Ymd(d))
                ELSE IF t = formatFromDigits(d, "fo")
                  THEN InRange(IF Dmy(d) # NoDay THEN Dmy(d) ELSE mdy)
                ELSE NoDay
<1>1. Len(d) = Count(t) /\ Len(d) \in Nat
  BY DigitsAreDigits DEF Count
<1>2. CASE Count(t) = 0
  <2>1. TryParseDob(t, l) = {NoDay}
    BY <1>1, <1>2 DEF TryParseDob
  <2>2. QED
    BY <1>2, <2>1
<1>3. CASE Count(t) = 8
  <2>1. TryParseDob(t, l) = {x}
    BY <1>1, <1>3 DEF TryParseDob, Ymd, Dmy, Mdy
  <2>2. WholeDay(t, l) = CHOOSE day \in {x} : TRUE
    BY <1>3, <2>1 DEF WholeDay
  <2>3. InRange(NoDay) = NoDay
    BY DEF InRange, NoDay
  <2>4. x \in {NoDay} \cup Readings(d)
    BY <2>3 DEF Readings
  <2> HIDE DEF x
  <2>5. WholeDay(t, l) = x
    BY <2>2
  <2>6. QED
    BY <1>3, <2>1, <2>4, <2>5
<1>4. QED
  BY <1>2, <1>3

LEMMA ReadAsMeant ==
    ASSUME NEW t \in Texts, NEW l, NEW m, m # NoDay, Agrees(t, m)
    PROVE  /\ TryParseDob(t, l) \subseteq {NoDay, m}
           /\ WholeDay(t, l) \in {NoDay, m}
<1>1. CASE Count(t) = 0
  BY <1>1, ReadAsWritten DEF WholeDay
<1>2. CASE Count(t) = 8
  BY <1>2, ReadAsWritten DEF Agrees
<1>3. QED
  BY <1>1, <1>2 DEF Agrees

LEMMA DayAgrees ==
    ASSUME NEW t \in Texts, NEW l
    PROVE  Agrees(t, WholeDay(t, l))
<1>1. SUFFICES ASSUME WholeDay(t, l) # NoDay
               PROVE  Count(t) = 8 /\ Readings(DigitsOnly(t)) \subseteq {WholeDay(t, l)}
  BY DEF Agrees
<1>2. Count(t) = 8
  BY <1>1 DEF WholeDay
<1>3. DigitsOnly(t) \in Seq(0..9) /\ Len(DigitsOnly(t)) = 8
  BY <1>2, DigitsAreDigits DEF Count
<1>4. WholeDay(t, l) \in Readings(DigitsOnly(t))
  BY <1>1, <1>2, ReadAsWritten
<1>5. QED
  BY <1>2, <1>3, <1>4, OneReading

LEMMA MaskedAgrees ==
    ASSUME NEW t \in Texts, NEW l, NEW m, Agrees(t, m)
    PROVE  Agrees(Masked(t, l), m)
<1>1. Count(t) = 0 \/ Count(t) = 8 =>
        DigitsOnly(Masked(t, l)) = DigitsOnly(t) /\ Count(Masked(t, l)) = Count(t)
  BY DigitsOfMasked DEF Count
<1>2. QED
  BY <1>1 DEF Agrees

LEMMA EmptyAgrees ==
    ASSUME NEW m
    PROVE  <<>> \in Texts /\ Agrees(<<>>, m)
<1>1. Len(<<>>) = 0
  OBVIOUS
<1>2. QED
  BY <1>1, DigitsOfHyphen DEF Agrees, Count

-----------------------------------------------------------------------------
(* The copies of the date *)

TextInv ==
    /\ text \in Texts
    /\ kept # None => kept.text \in Texts
    /\ pending # None /\ pending.to \in {"search", "link"} => pending.text \in Texts
    /\ url # None => url.text \in Texts

\* Wherever the date is kept or under way, its digits are those of the day that
\* was meant, whatever language cut them last.
MeantInv ==
    /\ Agrees(text, meant)
    /\ kept # None => Agrees(kept.text, meant)
    /\ SearchUnderWay => Agrees(pending.text, pending.meant)

FoundAsMeant ==
    answer.kind = "found" => answer.meant = NoDay \/ answer.day \in {NoDay, answer.meant}

DayInv == TextInv /\ MeantInv /\ FoundAsMeant

LEMMA InitDay == Init => DayInv
<1>1. ASSUME Init
      PROVE  TextInv /\ MeantInv
  BY <1>1, EmptyAgrees DEF Init, TextInv, MeantInv, SearchUnderWay
<1>2. Init => FoundAsMeant
  BY DEF Init, FoundAsMeant, NoAnswer
<1>3. QED
  BY <1>1, <1>2 DEF DayInv

\* The form on the page and the kept form, when the server is not asked.
LEMMA FormDay ==
    ASSUME DayInv, text' \in Texts, Agrees(text', meant'),
           kept' # None => kept'.text = text' \/ (kept' = kept /\ meant' = meant),
           UNCHANGED <<pending, url, answer>>
    PROVE  DayInv'
<1>1. TextInv'
  BY DEF DayInv, TextInv
<1>2. MeantInv'
  BY DEF DayInv, MeantInv, SearchUnderWay
<1>3. FoundAsMeant'
  BY DEF DayInv, FoundAsMeant
<1>4. QED
  BY <1>1, <1>2, <1>3 DEF DayInv

LEMMA EditDay ==
    ASSUME DayInv, IInv, EnterDate \/ EnterWho \/ Leave
    PROVE  DayInv'
<1>1. UNCHANGED <<pending, url, answer>>
  BY DEF EnterDate, EnterWho, Leave, Edited, server
<1>2. text \in Texts /\ Agrees(text, meant)
  BY DEF DayInv, TextInv, MeantInv
<1>3. CASE EnterDate
  <2>1. PICK d \in Entries : text' = Masked(d, lang)
    BY <1>3 DEF EnterDate
  <2>2. d \in Texts
    BY FormAssumption, DigitsOfDigits
  <2>3. text' \in Texts
    BY <2>1, <2>2, DigitsOfMasked
  <2>4. meant' = WholeDay(text', lang)
    BY <1>3 DEF EnterDate
  <2>5. Agrees(text', meant')
    BY <2>3, <2>4, DayAgrees
  <2>6. kept' # None => kept'.text = text'
    BY <1>3 DEF EnterDate, Saved, IInv, NothingKept
  <2>7. QED
    BY <1>1, <2>3, <2>5, <2>6, FormDay
<1>4. CASE EnterWho
  <2>1. text' = text /\ meant' = meant
    BY <1>4 DEF EnterWho
  <2>2. kept' # None => kept'.text = text'
    BY <1>4, <2>1 DEF EnterWho, Saved, IInv, NothingKept
  <2>3. text' \in Texts /\ Agrees(text', meant')
    BY <1>2, <2>1
  <2>4. QED
    BY <1>1, <2>2, <2>3, FormDay
<1>5. CASE Leave
  <2>1. text' = Masked(text, lang) /\ meant' = meant /\ kept' = kept
    BY <1>5 DEF Leave
  <2>2. text' \in Texts /\ Agrees(text', meant')
    BY <1>2, <2>1, DigitsOfMasked, MaskedAgrees
  <2>3. QED
    BY <1>1, <2>1, <2>2, FormDay
<1>6. QED
  BY <1>3, <1>4, <1>5

LEMMA NavigateDay ==
    ASSUME DayInv, IInv, Navigate
    PROVE  DayInv'
<1>1. UNCHANGED <<text, url, answer, meant>>
  BY DEF Navigate, Submit, Clear, Visit, SwitchLanguage, FollowLink, Goes, form, server
<1>2. kept' # None => kept'.text = text \/ kept' = kept
  <2>1. CASE Submit
    BY <2>1 DEF Submit, SubmitSaved, Saved
  <2>2. CASE Clear
    BY <2>2 DEF Clear, ClearSaved
  <2>3. CASE Visit \/ SwitchLanguage \/ FollowLink
    BY <2>3 DEF Visit, SwitchLanguage, FollowLink, Goes
  <2>4. QED
    BY <2>1, <2>2, <2>3 DEF Navigate
<1>3. /\ pending'.to \in {"search", "link"} => pending'.text \in Texts
      /\ pending'.to = "search" => pending'.text = text /\ pending'.meant = meant
  <2>1. CASE Submit
    BY <2>1 DEF Submit, DayInv, TextInv
  <2>2. CASE Clear
    BY <2>2 DEF Clear
  <2>3. CASE Visit \/ SwitchLanguage
    <3>1. Visit => pending'.to = "page"
      BY DEF Visit, Goes
    <3>2. SwitchLanguage => pending'.to = "language"
      BY DEF SwitchLanguage, Goes
    <3>3. QED
      BY <2>3, <3>1, <3>2
  <2>4. CASE FollowLink
    BY <2>4, FormAssumption DEF FollowLink, Goes, Texts
  <2>5. QED
    BY <2>1, <2>2, <2>3, <2>4 DEF Navigate
<1>4. TextInv'
  BY <1>1, <1>2, <1>3 DEF DayInv, TextInv
<1>5. MeantInv'
  BY <1>1, <1>2, <1>3 DEF DayInv, MeantInv, SearchUnderWay
<1>6. FoundAsMeant'
  BY <1>1 DEF DayInv, FoundAsMeant
<1>7. QED
  BY <1>4, <1>5, <1>6 DEF DayInv

\* load() leaves the day of the kept form, or of the fields as rendered.
LEMMA ArriveDay ==
    ASSUME DayInv, Answer, NEW c, Arrive(c), c.text \in Texts,
           kept # None => meant' = meant, kept = None => Agrees(c.text, meant'),
           url' # None => url'.text \in Texts, FoundAsMeant'
    PROVE  DayInv'
<1>1. kept' = kept /\ pending' = None
  BY DEF Answer, Refused, OnPost, OnGet, OnGetPrefilled, SetCulture
<1>2. text' \in Texts /\ Agrees(text', meant')
  BY DEF Arrive, DayInv, TextInv, MeantInv
<1>3. TextInv'
  BY <1>1, <1>2 DEF DayInv, TextInv
<1>4. MeantInv'
  BY <1>1, <1>2 DEF DayInv, MeantInv, SearchUnderWay
<1>5. QED
  BY <1>3, <1>4 DEF DayInv

LEMMA PostDay ==
    ASSUME DayInv, Answer, OnPost
    PROVE  DayInv'
<1> DEFINE c == [who |-> pending.who, text |-> pending.text]
<1>1. /\ pending.text \in Texts
      /\ Agrees(pending.text, pending.meant)
  BY DEF Answer, OnPost, DayInv, TextInv, MeantInv, SearchUnderWay
<1>2. Arrive(c) /\ c.text = pending.text
  BY DEF OnPost
<1>3. /\ kept # None => meant' = meant
      /\ kept = None => meant' = pending.meant
      /\ url' = url
  BY DEF OnPost
<1>4. FoundAsMeant'
  <2>1. PICK day \in TryParseDob(pending.text, lang) :
          answer'.kind = "found" =>
            answer'.meant = pending.meant /\ answer'.day \in {NoDay, day}
    BY DEF OnPost, Searched, Errors
  <2>2. pending.meant # NoDay => day \in {NoDay, pending.meant}
    BY <1>1, ReadAsMeant
  <2>3. QED
    BY <2>1, <2>2 DEF FoundAsMeant
<1> HIDE DEF c
<1>5. url' # None => url'.text \in Texts
  BY <1>3 DEF DayInv, TextInv
<1>6. QED
  BY <1>1, <1>2, <1>3, <1>4, <1>5, ArriveDay

LEMMA GetDay ==
    ASSUME DayInv, Answer, NEW c, NEW l, Get(c, l), c # None => c.text \in Texts
    PROVE  DayInv'
<1>1. CASE c = None
  <2>1. Arrive(Blank) /\ meant' = meant /\ url' = None /\ answer' = NoAnswer
    BY <1>1 DEF Get
  <2>2. Blank.text \in Texts /\ Agrees(Blank.text, meant')
    BY EmptyAgrees DEF Blank
  <2>3. FoundAsMeant'
    BY <2>1 DEF FoundAsMeant, NoAnswer
  <2>4. QED
    BY <2>1, <2>2, <2>3, ArriveDay
<1>2. CASE c # None
  <2>1. /\ Arrive(c) /\ url' = c
        /\ meant' = IF kept = None THEN WholeDay(c.text, l) ELSE meant
    BY <1>2 DEF Get
  <2>2. c.text \in Texts /\ Agrees(c.text, WholeDay(c.text, l))
    BY <1>2, DayAgrees
  <2>3. FoundAsMeant'
    BY <1>2 DEF Get, Searched, Errors, FoundAsMeant
  <2>4. QED
    BY <2>1, <2>2, <2>3, ArriveDay
<1>3. QED
  BY <1>1, <1>2

LEMMA AnswerDay ==
    ASSUME DayInv, Answer
    PROVE  DayInv'
<1>1. CASE Refused
  <2>1. UNCHANGED <<text, url, answer, kept, meant>> /\ pending' = None
    BY <1>1 DEF Answer, Refused, form
  <2>2. QED
    BY <2>1 DEF DayInv, TextInv, MeantInv, SearchUnderWay, FoundAsMeant
<1>2. CASE OnPost
  BY <1>2, PostDay
<1>3. CASE OnGet
  BY <1>3, GetDay DEF OnGet
<1>4. CASE OnGetPrefilled
  <2> DEFINE c == [who |-> pending.who, text |-> pending.text]
  <2>1. Get(c, lang) /\ c.text \in Texts
    BY <1>4 DEF OnGetPrefilled, Answer, DayInv, TextInv
  <2> HIDE DEF c
  <2>2. QED
    BY <2>1, GetDay
<1>5. CASE SetCulture
  <2>1. Get(url, lang') /\ (url # None => url.text \in Texts)
    BY <1>5 DEF SetCulture, DayInv, TextInv
  <2>2. QED
    BY <2>1, GetDay
<1>6. QED
  BY <1>1, <1>2, <1>3, <1>4, <1>5 DEF Answer

LEMMA StepDay == DayInv /\ IInv /\ [Next]_vars => DayInv'
<1> SUFFICES ASSUME DayInv, IInv, [Next]_vars PROVE DayInv'
  OBVIOUS
<1>1. CASE Redeploy \/ UNCHANGED vars
  <2>1. UNCHANGED <<text, url, answer, kept, pending, meant>>
    BY <1>1 DEF Redeploy, vars, form, server, history
  <2>2. QED
    BY <2>1 DEF DayInv, TextInv, MeantInv, SearchUnderWay, FoundAsMeant
<1>2. QED
  BY <1>1, EditDay, NavigateDay, AnswerDay DEF Next

THEOREM DateInvariance == Spec => []DayInv
<1>1. QED
  BY InitDay, StepDay, Invariance, PTL DEF Spec

\* However the pages, sessionStorage and the switch of the language pass a whole
\* date on, the field and the searches read it as the day it was or not at all
\* (TryParseDob of InputValidation.cs on what date-mask.js has cut anew).
THEOREM DayIsNeverMisread == Spec => []NeverMisread
<1>1. ASSUME DayInv
      PROVE  NeverMisread
  <2>1. meant # NoDay => WholeDay(text, lang) \in {NoDay, meant}
    BY <1>1, ReadAsMeant DEF DayInv, TextInv, MeantInv
  <2>2. QED
    BY <1>1, <2>1 DEF DayInv, FoundAsMeant, NeverMisread
<1>2. QED
  BY <1>1, DateInvariance, PTL

-----------------------------------------------------------------------------
(***************************************************************************)
(* Keystrokes in the date field.  The caret is found by counting digits:    *)
(* the count of a prefix grows by one at most from one offset to the next.  *)
(***************************************************************************)
LEMMA SliceOfText ==
    ASSUME NEW t \in Texts, NEW a \in Nat, NEW b \in Nat, a <= b, b <= Len(t)
    PROVE  /\ Slice(t, a, b) \in Texts
           /\ Len(Slice(t, a, b)) = b - a
           /\ \A i \in 1..Len(Slice(t, a, b)) : Slice(t, a, b)[i] = t[a + i]
<1> DEFINE u == Slice(t, a, b)
<1>1. t \in Seq(0..Hyphen)
  BY DEF Texts
<1>2. /\ u \in Seq(0..Hyphen)
      /\ b <= Len(t) => Len(u) = b - a
      /\ \A i \in 1..Len(u) : a + i \in 1..Len(t) /\ u[i] = t[a + i]
  BY <1>1, SliceOfSeq
<1> HIDE DEF u
<1>3. u \in Texts /\ Len(u) = b - a /\ \A i \in 1..Len(u) : u[i] = t[a + i]
  BY <1>2 DEF Texts
<1>4. QED
  BY <1>3 DEF u

LEMMA PartsOfText ==
    ASSUME NEW t \in Texts, NEW i \in Nat, i <= Len(t)
    PROVE  /\ Slice(t, 0, i) \in Texts /\ Len(Slice(t, 0, i)) = i
           /\ Slice(t, i, Len(t)) \in Texts /\ Len(Slice(t, i, Len(t))) = Len(t) - i
           /\ Slice(t, 0, i) \o Slice(t, i, Len(t)) = t
           /\ DigitsOnly(t) = DigitsOnly(Slice(t, 0, i)) \o DigitsOnly(Slice(t, i, Len(t)))
<1> DEFINE a == Slice(t, 0, i)
           b == Slice(t, i, Len(t))
<1>1. Len(t) \in Nat /\ 0 \in Nat /\ 0 <= i
  BY DEF Texts
<1>2. a \in Texts /\ Len(a) = i - 0
  BY <1>1, SliceOfSeq DEF Texts
<1>3. b \in Texts /\ Len(b) = Len(t) - i
  BY <1>1, SliceOfSeq DEF Texts
<1>4. a \o b = Slice(t, 0, Len(t))
  BY <1>1, TwoParts
<1>5. Slice(t, 0, Len(t)) = t
  BY <1>1, WholeSlice DEF Texts
<1>6. DigitsOnly(a \o b) = DigitsOnly(a) \o DigitsOnly(b)
  BY <1>2, <1>3, DigitsOfConcat
<1>7. i - 0 = i
  OBVIOUS
<1> HIDE DEF a, b
<1>8. /\ a \in Texts /\ Len(a) = i
      /\ b \in Texts /\ Len(b) = Len(t) - i
      /\ a \o b = t
      /\ DigitsOnly(t) = DigitsOnly(a) \o DigitsOnly(b)
  BY <1>2, <1>3, <1>4, <1>5, <1>6, <1>7, Zenon
<1>9. QED
  BY <1>8 DEF a, b

\* The digits up to an offset, and one character on.
LEMMA CountStep ==
    ASSUME NEW t \in Texts, NEW i \in Nat, i < Len(t)
    PROVE  /\ Count(Slice(t, 0, i + 1)) = IF t[i + 1] = Hyphen THEN Count(Slice(t, 0, i))
                                        ELSE Count(Slice(t, 0, i)) + 1
<1> DEFINE j == i + 1
           s == Slice(t, 0, i)
           e == Slice(t, i, j)
<1>1. /\ Len(t) \in Nat /\ j \in Nat /\ 0 \in Nat /\ 0 <= i
      /\ i <= j /\ j <= Len(t) /\ i <= Len(t) /\ j - i = 1
  BY DEF Texts
<1> HIDE DEF j
<1>2. s \in Texts
  BY <1>1, PartsOfText
<1>3. /\ e \in Texts /\ Len(e) = 1
      /\ \A k \in 1..Len(e) : e[k] = t[i + k]
  <2>1. /\ e \in Texts /\ Len(e) = j - i
        /\ \A k \in 1..Len(e) : e[k] = t[i + k]
    BY <1>1, SliceOfText, Zenon
  <2>2. QED
    BY <1>1, <2>1
<1>4. s \o e = Slice(t, 0, i + 1)
  BY <1>1, TwoParts, ZenonT(40) DEF j
<1> HIDE DEF s, e
<1>5. e[1] = t[i + 1] /\ e = <<t[i + 1]>>
  BY <1>3 DEF Texts
<1>6. DigitsOnly(s \o e) = DigitsOnly(s) \o DigitsOnly(e)
  BY <1>2, <1>3, DigitsOfConcat
<1>7. DigitsOnly(s) \in Seq(0..9)
  BY <1>2, DigitsAreDigits
<1>8. CASE t[i + 1] = Hyphen
  <2>1. DigitsOnly(e) = <<>>
    BY <1>5, <1>8, DigitsOfHyphen
  <2>2. DigitsOnly(s \o e) = DigitsOnly(s)
    BY <1>6, <1>7, <2>1
  <2>3. QED
    BY <1>4, <1>8, <2>2 DEF Count, s
<1>9. CASE t[i + 1] # Hyphen
  <2>1. t[i + 1] \in 0..9
    BY <1>1, <1>9 DEF Texts, Hyphen
  <2>2. e \in Seq(0..9)
    BY <1>5, <2>1
  <2>3. DigitsOnly(e) = e
    BY <2>2, DigitsOfDigits
  <2>4. Len(DigitsOnly(s) \o e) = Len(DigitsOnly(s)) + Len(e)
    BY <1>7, <2>2, JoinedSeqs, Zenon
  <2>5. QED
    BY <1>3, <1>4, <1>6, <1>9, <2>3, <2>4 DEF Count, s
<1>10. QED
  BY <1>8, <1>9

LEMMA CountOfConcat ==
    ASSUME NEW s \in Texts, NEW t \in Texts
    PROVE  /\ Count(s) \in Nat /\ Count(t) \in Nat
           /\ Count(s \o t) = Count(s) + Count(t)
<1>1. DigitsOnly(s) \in Seq(0..9) /\ DigitsOnly(t) \in Seq(0..9)
  BY DigitsAreDigits
<1>2. Len(DigitsOnly(s) \o DigitsOnly(t)) = Len(DigitsOnly(s)) + Len(DigitsOnly(t))
  BY <1>1, JoinedSeqs, Zenon
<1>3. Count(s) \in Nat /\ Count(t) \in Nat
  BY <1>1 DEF Count
<1>4. QED
  BY <1>2, <1>3, DigitsOfConcat DEF Count

LEMMA CountGrows ==
    ASSUME NEW t \in Texts, NEW i \in Nat, NEW j \in Nat, i <= j, j <= Len(t)
    PROVE  /\ Count(Slice(t, 0, i)) \in Nat
           /\ Count(Slice(t, 0, i)) <= Count(Slice(t, 0, j))
<1>1. 0 \in Nat /\ 0 <= i /\ i <= Len(t) /\ Len(t) \in Nat
  BY DEF Texts
<1>2. Slice(t, 0, i) \in Texts /\ Slice(t, i, j) \in Texts
  BY <1>1, SliceOfText
<1>3. Slice(t, 0, i) \o Slice(t, i, j) = Slice(t, 0, j)
  BY <1>1, TwoParts
<1> DEFINE a == Slice(t, 0, i)
           b == Slice(t, i, j)
<1>4. Count(a) \in Nat /\ Count(b) \in Nat /\ Count(a \o b) = Count(a) + Count(b)
  BY <1>2, CountOfConcat, Zenon
<1>5. a \o b = Slice(t, 0, j)
  BY <1>3
<1> HIDE DEF a, b
<1>6. Count(a) \in Nat /\ Count(a) <= Count(Slice(t, 0, j))
  BY <1>4, <1>5
<1>7. QED
  BY <1>6 DEF a

\* The offsets right behind a digit that is the n-th, or a hyphen after it.
Behind(t, n) == {i \in 1..Len(t) : Count(Slice(t, 0, i)) = n}

LEMMA CaretIsLeast ==
    ASSUME NEW t \in Texts, NEW n \in Nat, n > 0
    PROVE  /\ Behind(t, n) = {} => caretIndexForDigits(t, n) = Len(t)
           /\ Behind(t, n) # {} => /\ caretIndexForDigits(t, n) \in Behind(t, n)
                                   /\ \A i \in Behind(t, n) : caretIndexForDigits(t, n) <= i
<1> DEFINE S == Behind(t, n)
<1>1. caretIndexForDigits(t, n) =
        IF S = {} THEN Len(t) ELSE CHOOSE i \in S : \A j \in S : i <= j
  BY DEF caretIndexForDigits, Behind
<1>2. S \in SUBSET Nat
  BY DEF Behind
<1> HIDE DEF S
<1>3. S # {} => \E i \in S : \A j \in S : i <= j
  BY <1>2, LeastNumber
<1>4. QED
  BY <1>1, <1>3 DEF S

LEMMA CaretType ==
    ASSUME NEW t \in Texts, NEW n \in Nat
    PROVE  caretIndexForDigits(t, n) \in 0..Len(t)
<1>1. Len(t) \in Nat
  BY DEF Texts
<1>2. n = 0 => caretIndexForDigits(t, n) = 0
  BY DEF caretIndexForDigits
<1>3. Behind(t, n) \subseteq 1..Len(t)
  BY DEF Behind
<1>4. QED
  BY <1>1, <1>2, <1>3, CaretIsLeast

\* No digit is skipped: a text with n digits has an offset right behind n.
LEMMA CaretIsBehind ==
    ASSUME NEW t \in Texts, NEW n \in Nat, n > 0, n <= Count(t)
    PROVE  Behind(t, n) # {}
<1> DEFINE C(i) == Count(Slice(t, 0, i))
           T == {i \in 0..Len(t) : C(i) >= n}
<1>1. Len(t) \in Nat /\ t \in Seq(0..Hyphen)
  BY DEF Texts
<1>2. Slice(t, 0, Len(t)) = t
  BY <1>1, WholeSlice
<1>3. Slice(t, 0, 0) = <<>>
  BY <1>1 DEF Slice, Least
<1>4. C(0) = 0
  BY <1>3, DigitsOfHyphen DEF Count
<1>5. \A i \in 0..Len(t) : C(i) \in Nat
  <2>1. \A i \in 0..Len(t) : i \in Nat /\ i <= Len(t) /\ i <= i
    BY <1>1
  <2>2. QED
    BY <2>1, CountGrows, Zenon
<1>6. \A i \in Nat : i < Len(t) => C(i + 1) <= C(i) + 1
  <2>1. SUFFICES ASSUME NEW i \in Nat, i < Len(t)
                 PROVE  C(i + 1) <= C(i) + 1
    OBVIOUS
  <2>2. C(i + 1) = IF t[i + 1] = Hyphen THEN C(i) ELSE C(i) + 1
    BY <2>1, CountStep
  <2>3. C(i) \in Nat
    BY <1>1, <1>5, <2>1
  <2> HIDE DEF C
  <2>4. QED
    BY <2>2, <2>3
<1>7. Len(t) \in T
  BY <1>1, <1>2
<1> HIDE DEF C
<1>8. T \in SUBSET Nat
  BY <1>1
<1>9. PICK i \in T : \A j \in T : i <= j
  <2> HIDE DEF T
  <2>1. QED
    BY <1>7, <1>8, LeastNumber
<1>10. i # 0
  BY <1>4
<1>11. i - 1 \in Nat /\ i - 1 < Len(t) /\ (i - 1) + 1 = i /\ i - 1 \in 0..Len(t)
  BY <1>1, <1>10
<1>12. ~(i - 1 \in T)
  BY <1>9, <1>11
<1>13. C(i - 1) \in Nat /\ C(i) \in Nat /\ C(i - 1) < n /\ C(i) <= C(i - 1) + 1
  BY <1>5, <1>6, <1>11, <1>12
<1>14. C(i) = n
  BY <1>9, <1>13
<1>15. QED
  BY <1>10, <1>14 DEF Behind, C

LEMMA SliceOfConcat ==
    ASSUME NEW s \in Texts, NEW t \in Texts
    PROVE  Slice(s \o t, 0, Len(s)) = s
<1> DEFINE u == s \o t
           n == Len(s)
           v == Slice(u, 0, n)
<1>1. u \in Texts /\ Len(u) = n + Len(t) /\ \A i \in 1..n : u[i] = s[i]
  BY ConcatOfTexts
<1>2. n \in Nat /\ Len(t) \in Nat /\ 0 \in Nat /\ 0 <= n /\ n - 0 = n
  BY DEF Texts
<1>3. \A i \in 1..n : 0 + i = i
  BY <1>2
<1> HIDE DEF u, n
<1>4. n <= Len(u)
  BY <1>1, <1>2
<1>5. /\ v \in Texts /\ Len(v) = n - 0
      /\ \A i \in 1..Len(v) : v[i] = u[0 + i]
  BY <1>1, <1>2, <1>4, SliceOfText
<1> HIDE DEF v
<1>6. \A i \in 1..n : v[i] = s[i]
  BY <1>1, <1>2, <1>3, <1>5
<1>7. v = s
  BY <1>2, <1>5, <1>6, SameSeq DEF Texts, n
<1>8. QED
  BY <1>7 DEF v, u, n

LEMMA JoinedDigits ==
    ASSUME NEW s \in Seq(0..9), NEW t \in Seq(0..9)
    PROVE  /\ Len(s \o t) = Len(s) + Len(t)
           /\ \A i \in 1..Len(s) : (s \o t)[i] = s[i]
           /\ \A i \in 1..Len(t) : (s \o t)[Len(s) + i] = t[i]
  OBVIOUS

LEMMA CutAlike ==
    ASSUME NEW a \in Seq(0..9), NEW b \in Seq(0..9), NEW c \in Seq(0..9), NEW e \in Seq(0..9),
           a \o b = c \o e, Len(a) = Len(c)
    PROVE  a = c /\ b = e
<1> DEFINE u == a \o b
           v == c \o e
<1>1. /\ Len(u) = Len(a) + Len(b)
      /\ \A i \in 1..Len(a) : u[i] = a[i]
      /\ \A i \in 1..Len(b) : u[Len(a) + i] = b[i]
  BY JoinedDigits, Zenon
<1>2. /\ Len(v) = Len(c) + Len(e)
      /\ \A i \in 1..Len(c) : v[i] = c[i]
      /\ \A i \in 1..Len(e) : v[Len(c) + i] = e[i]
  BY JoinedDigits, Zenon
<1>3. u = v
  OBVIOUS
<1> HIDE DEF u, v
<1>4. Len(b) = Len(e)
  BY <1>1, <1>2, <1>3
<1>5. \A i \in 1..Len(a) : a[i] = c[i]
  BY <1>1, <1>2, <1>3
<1>6. \A i \in 1..Len(b) : b[i] = e[i]
  BY <1>1, <1>2, <1>3, <1>4
<1>7. QED
  BY <1>4, <1>5, <1>6, SameSeq

\* The caret behind the n-th digit cuts the digits of a text after the n-th.
LEMMA CaretCuts ==
    ASSUME NEW t \in Texts, NEW a \in Seq(0..9), NEW b \in Seq(0..9),
           DigitsOnly(t) = a \o b
    PROVE  /\ DigitsOnly(Slice(t, 0, caretIndexForDigits(t, Len(a)))) = a
           /\ DigitsOnly(Slice(t, caretIndexForDigits(t, Len(a)), Len(t))) = b
<1> DEFINE k == caretIndexForDigits(t, Len(a))
           u == Slice(t, 0, k)
           v == Slice(t, k, Len(t))
<1>1. Len(a) \in Nat /\ Len(b) \in Nat /\ Count(t) = Len(a) + Len(b)
  BY JoinedSeqs DEF Count
<1>2. k \in Nat /\ k <= Len(t)
  <2>1. k \in 0..Len(t)
    BY <1>1, CaretType
  <2>2. Len(t) \in Nat
    BY DEF Texts
  <2> HIDE DEF k
  <2>3. QED
    BY <2>1, <2>2
<1>3. Len(a) > 0 => k \in Behind(t, Len(a))
  BY <1>1, CaretIsBehind, CaretIsLeast
<1>4. Len(a) = 0 => k = 0
  BY DEF caretIndexForDigits
<1> HIDE DEF k
<1>5. u \in Texts /\ v \in Texts /\ DigitsOnly(t) = DigitsOnly(u) \o DigitsOnly(v)
  BY <1>2, PartsOfText
<1>6. Count(u) = Len(a)
  <2>1. CASE Len(a) = 0
    <3>1. u = <<>>
      BY <1>4, <2>1 DEF Slice, Least, Texts
    <3>2. QED
      BY <2>1, <3>1, DigitsOfHyphen DEF Count
  <2>2. CASE Len(a) > 0
    BY <1>3, <2>2 DEF Behind
  <2>3. QED
    BY <1>1, <2>1, <2>2
<1> HIDE DEF u, v
<1>7. DigitsOnly(u) \in Seq(0..9) /\ DigitsOnly(v) \in Seq(0..9)
  BY <1>5, DigitsAreDigits
<1>8. DigitsOnly(u) \o DigitsOnly(v) = a \o b /\ Len(DigitsOnly(u)) = Len(a)
  BY <1>5, <1>6 DEF Count
<1>9. DigitsOnly(u) = a /\ DigitsOnly(v) = b
  BY <1>7, <1>8, CutAlike
<1>10. QED
  BY <1>9 DEF k, u, v

-----------------------------------------------------------------------------

\* The selection lies in the text.
FieldInv ==
    /\ text \in Texts
    /\ from \in Nat /\ to \in Nat
    /\ from <= to /\ to <= Len(text)

\* The parts that the selection makes of the text.
LEMMA Selection ==
    ASSUME FieldInv
    PROVE  /\ Slice(text, 0, from) \in Texts /\ Slice(text, from, to) \in Texts
           /\ Slice(text, to, Len(text)) \in Texts
           /\ Len(Slice(text, 0, from)) = from
           /\ Count(text) = Count(Slice(text, 0, from)) + Count(Slice(text, from, to))
                              + Count(Slice(text, to, Len(text)))
<1> DEFINE a == Slice(text, 0, from)
           b == Slice(text, from, to)
           c == Slice(text, to, Len(text))
<1>1. /\ text \in Texts /\ from \in Nat /\ to \in Nat /\ 0 \in Nat /\ Len(text) \in Nat
      /\ 0 <= from /\ from <= to /\ to <= Len(text) /\ from <= Len(text)
  BY DEF FieldInv, Texts
<1>2. /\ a \in Texts /\ Len(a) = from
      /\ b \in Texts
  BY <1>1, SliceOfText, PartsOfText
<1>3. /\ Slice(text, 0, to) \in Texts /\ c \in Texts
      /\ Slice(text, 0, to) \o c = text
  BY <1>1, PartsOfText
<1>4. a \o b = Slice(text, 0, to)
  BY <1>1, TwoParts
<1> HIDE DEF a, b, c
<1>5. Count(a) \in Nat /\ Count(b) \in Nat /\ Count(a \o b) = Count(a) + Count(b)
  BY <1>2, CountOfConcat, Zenon
<1>6. Count(a \o b) \in Nat /\ Count(c) \in Nat /\ Count((a \o b) \o c) = Count(a \o b) + Count(c)
  BY <1>3, <1>4, CountOfConcat, Zenon
<1>7. Count(text) = Count(a) + Count(b) + Count(c)
  BY <1>3, <1>4, <1>5, <1>6
<1>8. QED
  BY <1>2, <1>3, <1>7 DEF a, b, c

LEMMA CaretOfInput ==
    ASSUME NEW t \in Texts, NEW a \in Seq(0..9), NEW b \in Seq(0..9),
           DigitsOnly(t) = a \o b, NEW k, k = caretIndexForDigits(t, Len(a))
    PROVE  DigitsOnly(Slice(t, 0, k)) = a
  BY CaretCuts

\* onInput() with the caret behind what has been put in the place of a part.
LEMMA InputCuts ==
    ASSUME NEW a \in Texts, NEW s \in Texts, NEW c \in Texts,
           OnInput((a \o s) \o c, Len(a) + Len(s)), Count(a) + Count(s) + Count(c) <= 8
    PROVE  /\ DigitsOnly(text') = (DigitsOnly(a) \o DigitsOnly(s)) \o DigitsOnly(c)
           /\ DigitsOnly(Slice(text', 0, from')) = DigitsOnly(a) \o DigitsOnly(s)
<1> DEFINE u == a \o s
           raw == u \o c
           before == DigitsOnly(a) \o DigitsOnly(s)
<1>1. u \in Texts /\ Len(u) = Len(a) + Len(s) /\ raw \in Texts
  BY ConcatOfTexts
<1>2. DigitsOnly(u) = before /\ DigitsOnly(raw) = DigitsOnly(u) \o DigitsOnly(c)
  BY <1>1, DigitsOfConcat
<1>3. Count(raw) <= 8
  <2>1. Count(a) \in Nat /\ Count(s) \in Nat /\ Count(u) = Count(a) + Count(s)
    BY CountOfConcat, Zenon
  <2>2. Count(raw) = Count(u) + Count(c)
    BY <1>1, CountOfConcat, Zenon
  <2> HIDE DEF u, raw
  <2>3. QED
    BY <2>1, <2>2
<1>4. Slice(raw, 0, Len(u)) = u
  BY <1>1, SliceOfConcat
<1> HIDE DEF u, raw, before
<1>5. text' = Masked(raw, lang) /\ from' = newCaret(raw, Len(u))
  BY <1>1 DEF OnInput, u, raw
<1> DEFINE m == Masked(raw, lang)
           k == newCaret(raw, Len(u))
           after == DigitsOnly(c)
<1>6. m \in Texts /\ DigitsOnly(m) = before \o after
  BY <1>1, <1>2, <1>3, DigitsOfMasked
<1>7. k = caretIndexForDigits(m, Len(before))
  BY <1>2, <1>4 DEF newCaret, Count
<1>8. before \in Seq(0..9) /\ after \in Seq(0..9)
  BY <1>1, <1>2, DigitsAreDigits
<1> HIDE DEF m, k, after
<1>9. DigitsOnly(Slice(m, 0, k)) = before
  BY <1>6, <1>7, <1>8, CaretOfInput
<1>10. text' = m /\ from' = k
  BY <1>5 DEF m, k
<1>11. QED
  BY <1>6, <1>9, <1>10 DEF before, after

LEMMA DigitAlone ==
    ASSUME NEW d \in 0..9
    PROVE  <<d>> \in Texts /\ Len(<<d>>) = 1 /\ DigitsOnly(<<d>>) = <<d>> /\ Count(<<d>>) = 1
<1>1. <<d>> \in Seq(0..9) /\ Len(<<d>>) = 1
  OBVIOUS
<1>2. QED
  BY <1>1, DigitsOfDigits DEF Count

\* A digit goes where the caret is, and the caret behind it.
LEMMA TypedDigit ==
    ASSUME FieldInv, NEW d \in Digits, Type(d), Count(text) <= 8
    PROVE  LET before == Append(DigitsOnly(Slice(text, 0, from)), d)
           IN  /\ DigitsOnly(text') = before \o DigitsOnly(Slice(text, to, Len(text)))
               /\ DigitsOnly(Slice(text', 0, from')) = before
<1> DEFINE a == Slice(text, 0, from)
           b == Slice(text, from, to)
           c == Slice(text, to, Len(text))
           s == <<d>>
<1>1. s \in Texts /\ Len(s) = 1 /\ DigitsOnly(s) = <<d>> /\ Count(s) = 1
  BY MaskAssumption, DigitAlone
<1>2. /\ a \in Texts /\ b \in Texts /\ c \in Texts
      /\ Len(a) = from
      /\ Count(text) = Count(a) + Count(b) + Count(c)
  BY Selection
<1>3. ~(Count(text) >= 8 /\ Count(b) = 0) /\ OnInput((a \o s) \o c, from + 1)
  BY DEF Type, Blocked, Replaced
<1> HIDE DEF a, b, c, s
<1>4. Count(a) \in Nat /\ Count(b) \in Nat /\ Count(c) \in Nat
  BY <1>2, CountOfConcat
<1>5. Count(a) + Count(s) + Count(c) <= 8
  BY <1>1, <1>2, <1>3, <1>4
<1>6. OnInput((a \o s) \o c, Len(a) + Len(s))
  BY <1>1, <1>2, <1>3
<1>7. /\ DigitsOnly(text') = (DigitsOnly(a) \o <<d>>) \o DigitsOnly(c)
      /\ DigitsOnly(Slice(text', 0, from')) = DigitsOnly(a) \o <<d>>
  <2>1. /\ DigitsOnly(text') = (DigitsOnly(a) \o DigitsOnly(s)) \o DigitsOnly(c)
        /\ DigitsOnly(Slice(text', 0, from')) = DigitsOnly(a) \o DigitsOnly(s)
    BY <1>1, <1>2, <1>5, <1>6, InputCuts, Zenon
  <2>2. QED
    BY <1>1, <2>1
<1>8. DigitsOnly(a) \o <<d>> = Append(DigitsOnly(a), d)
  <2>1. DigitsOnly(a) \in Seq(0..9)
    BY <1>2, DigitsAreDigits
  <2> DEFINE x == DigitsOnly(a)
  <2> HIDE DEF x
  <2>2. x \o <<d>> = Append(x, d)
    BY <2>1, MaskAssumption DEF x
  <2>3. QED
    BY <2>2 DEF x
<1>9. QED
  BY <1>7, <1>8 DEF a, c

\* What replaces a part of the text.
LEMMA ReplacedType ==
    ASSUME FieldInv, NEW i \in Nat, NEW j \in Nat, i <= Len(text), j <= Len(text), NEW s \in Texts
    PROVE  Replaced(i, j, s) \in Texts
<1>1. text \in Texts
  BY DEF FieldInv
<1>2. Slice(text, 0, i) \in Texts /\ Slice(text, j, Len(text)) \in Texts
  BY <1>1, PartsOfText
<1>3. Slice(text, 0, i) \o s \in Texts
  BY <1>2, ConcatOfTexts
<1>4. QED
  BY <1>2, <1>3, ConcatOfTexts DEF Replaced

LEMMA InputType ==
    ASSUME NEW raw \in Texts, NEW c \in Nat, OnInput(raw, c)
    PROVE  FieldInv'
<1> DEFINE m == Masked(raw, lang)
           n == Count(Slice(raw, 0, c))
           k == caretIndexForDigits(m, n)
<1>1. m \in Texts
  BY DigitsOfMasked
<1>2. Slice(raw, 0, c) \in Texts
  BY SliceOfSeq DEF Texts
<1>3. n \in Nat
  BY <1>2, DigitsAreDigits DEF Texts
<1> HIDE DEF m, n
<1>4. k \in 0..Len(m) /\ Len(m) \in Nat
  <2>1. Len(m) \in Nat
    BY <1>1 DEF Texts
  <2>2. QED
    BY <1>1, <1>3, <2>1, CaretType
<1>5. text' = m /\ from' = k /\ to' = k
  BY DEF OnInput, newCaret, m, n
<1> HIDE DEF k
<1>6. k \in Nat /\ k <= Len(m)
  BY <1>4
<1>7. QED
  BY <1>1, <1>5, <1>6 DEF FieldInv

LEMMA FieldInit == MaskInit => FieldInv
  BY MaskAssumption DEF MaskInit, FieldInv, Texts

LEMMA FieldStep == FieldInv /\ [MaskNext]_maskVars => FieldInv'
<1> SUFFICES ASSUME FieldInv, [MaskNext]_maskVars PROVE FieldInv'
  OBVIOUS
<1>0. /\ text \in Texts /\ Len(text) \in Nat /\ from \in Nat /\ to \in Nat
      /\ from <= to /\ to <= Len(text) /\ from <= Len(text) /\ <<>> \in Texts
  BY DigitsOfHyphen DEF FieldInv, Texts
<1>1. ASSUME NEW d \in Digits, Type(d) PROVE FieldInv'
  <2>1. Replaced(from, to, <<d>>) \in Texts
    BY <1>0, MaskAssumption, DigitAlone, ReplacedType
  <2>2. QED
    BY <1>0, <1>1, <2>1, InputType DEF Type
<1>2. ASSUME NEW s \in Pastes, Paste(s) PROVE FieldInv'
  <2>1. s \in Texts /\ Len(s) \in Nat
    BY MaskAssumption DEF Texts
  <2>2. Replaced(from, to, s) \in Texts /\ from + Len(s) \in Nat
    BY <1>0, <2>1, ReplacedType
  <2>3. QED
    BY <1>2, <2>2, InputType DEF Paste
<1>3. CASE Erase
  BY <1>0, <1>3, ReplacedType, InputType DEF Erase
<1>4. CASE Backspace
  <2>1. from - 1 \in Nat /\ from - 1 <= Len(text)
    BY <1>0, <1>4 DEF Backspace
  <2>2. QED
    BY <1>0, <1>4, <2>1, ReplacedType, InputType DEF Backspace, Backspaced
<1>5. CASE Delete
  <2>1. to + 1 \in Nat /\ to + 1 <= Len(text)
    BY <1>0, <1>5 DEF Delete
  <2>2. QED
    BY <1>0, <1>5, <2>1, ReplacedType, InputType DEF Delete
<1>6. CASE Select
  BY <1>0, <1>6 DEF Select, FieldInv
<1>7. CASE Blur
  <2>1. text' \in Texts /\ Len(text') \in Nat
    BY <1>0, <1>7, DigitsOfMasked DEF Blur, Texts
  <2>2. QED
    BY <1>0, <1>7, <2>1 DEF Blur, FieldInv
<1>8. CASE UNCHANGED maskVars
  BY <1>8 DEF maskVars, FieldInv
<1>9. QED
  BY <1>1, <1>2, <1>3, <1>4, <1>5, <1>6, <1>7, <1>8 DEF MaskNext

THEOREM FieldInvariance == MaskSpec => []FieldInv
<1>1. QED
  BY FieldInit, FieldStep, PTL DEF MaskSpec

\* Whatever is selected, a digit that is typed takes the place of the selection
\* and no other digit is lost or moved (onKeyDown and onInput of date-mask.js).
THEOREM DigitsStayInPlace == MaskSpec => TypedInPlace
<1> DEFINE Placed ==
       \A d \in Digits : Type(d) /\ Count(text) <= 8 =>
         LET before == Append(DigitsOnly(Slice(text, 0, from)), d)
         IN  /\ DigitsOnly(text') = before \o DigitsOnly(Slice(text, to, Len(text)))
             /\ DigitsOnly(Slice(text', 0, from')) = before
<1>1. FieldInv => Placed
  BY TypedDigit
<1> HIDE DEF Placed
<1>2. FieldInv /\ [MaskNext]_maskVars => [Placed]_maskVars
  BY <1>1
<1>3. MaskSpec => [][Placed]_maskVars
  BY <1>2, FieldInvariance, PTL DEF MaskSpec
<1>4. QED
  BY <1>3 DEF TypedInPlace, Placed

-----------------------------------------------------------------------------
(***************************************************************************)
(* Where the mask puts the n-th digit does not depend on what follows it:   *)
(* the mask of the first n digits is a prefix of the mask of them all, and   *)
(* it ends in a digit.                                                      *)
(***************************************************************************)
LEMMA CaretAfter ==
    ASSUME NEW w \in Texts, NEW u \in Seq(0..9), NEW v \in Texts, u # <<>>
    PROVE  caretIndexForDigits((w \o u) \o v, Count(w \o u)) = Len(w \o u)
<1> DEFINE p == w \o u
           t == p \o v
           k == Len(p)
           n == Count(p)
           C(i) == Count(Slice(t, 0, i))
<1>1. u \in Texts /\ Count(u) = Len(u) /\ Len(u) \in Nat /\ Len(u) > 0
  BY DigitsOfDigits DEF Count
<1>2. /\ p \in Texts /\ Len(p) = Len(w) + Len(u)
      /\ \A i \in 1..Len(u) : p[Len(w) + i] = u[i]
  BY <1>1, ConcatOfTexts
<1>3. n \in Nat /\ n > 0
  <2>1. Count(w) \in Nat /\ Count(u) \in Nat /\ Count(w \o u) = Count(w) + Count(u)
    BY <1>1, CountOfConcat, Zenon
  <2>2. QED
    BY <1>1, <2>1
<1>4. Len(w) \in Nat /\ Len(v) \in Nat
  BY DEF Texts
<1>5. p[k] # Hyphen
  <2>1. p[Len(w) + Len(u)] = u[Len(u)]
    BY <1>1, <1>2
  <2>2. u[Len(u)] \in 0..9
    BY <1>1
  <2>3. u[Len(u)] # Hyphen
    BY <2>2 DEF Hyphen
  <2>4. QED
    BY <1>2, <2>1, <2>3
<1>6. k \in Nat /\ k > 0
  BY <1>1, <1>2, <1>4
<1> HIDE DEF p
<1>7. /\ t \in Texts /\ Len(t) = k + Len(v)
      /\ \A i \in 1..k : t[i] = p[i]
  BY <1>2, ConcatOfTexts
<1>8. C(k) = n
  BY <1>2, SliceOfConcat
<1> HIDE DEF t, k, n
<1>9. k <= Len(t) /\ t[k] # Hyphen
  BY <1>4, <1>5, <1>6, <1>7
<1>10. k - 1 \in Nat /\ k - 1 < Len(t) /\ (k - 1) + 1 = k /\ k - 1 <= Len(t)
  BY <1>4, <1>6, <1>9, <1>7
<1>11. C(k) = C(k - 1) + 1
  <2>1. C((k - 1) + 1) = IF t[(k - 1) + 1] = Hyphen THEN C(k - 1) ELSE C(k - 1) + 1
    BY <1>7, <1>10, CountStep
  <2> HIDE DEF C
  <2>2. QED
    BY <1>9, <1>10, <2>1
<1>12. k \in Behind(t, n)
  BY <1>6, <1>7, <1>8, <1>9, <1>4 DEF Behind
<1>13. ASSUME NEW j \in Behind(t, n)
       PROVE  ~(j < k)
  <2>1. SUFFICES ASSUME j < k PROVE FALSE
    OBVIOUS
  <2>2. j \in Nat /\ C(j) = n
    BY <1>7 DEF Behind, Texts
  <2>3. j <= k - 1
    BY <1>6, <2>1, <2>2
  <2>4. C(j) \in Nat /\ C(j) <= C(k - 1)
    BY <1>7, <1>10, <2>2, <2>3, CountGrows
  <2>5. C(k - 1) \in Nat
    BY <1>7, <1>10, CountGrows
  <2> DEFINE m == C(k - 1)
  <2>6. m \in Nat /\ n <= m /\ n = m + 1
    <3> HIDE DEF C
    <3>1. QED
      BY <1>8, <1>11, <2>2, <2>4, <2>5
  <2> HIDE DEF m
  <2>7. QED
    BY <1>3, <2>6
<1>14. /\ caretIndexForDigits(t, n) \in Behind(t, n)
       /\ \A i \in Behind(t, n) : caretIndexForDigits(t, n) <= i
  BY <1>3, <1>7, <1>12, CaretIsLeast
<1> DEFINE x == caretIndexForDigits(t, n)
<1>15. x \in Nat
  BY <1>14, <1>7 DEF Behind, Texts
<1> HIDE DEF x
<1>16. x = k
  <2>1. x <= k /\ ~(x < k)
    BY <1>12, <1>13, <1>14 DEF x
  <2>2. QED
    BY <1>6, <1>15, <2>1
<1>17. QED
  BY <1>16 DEF x, t, k, n, p

LEMMA ConcatAssociates ==
    ASSUME NEW a \in Texts, NEW b \in Texts, NEW c \in Texts
    PROVE  (a \o b) \o c = a \o (b \o c)
  BY DEF Texts

LEMMA EmptyConcat ==
    ASSUME NEW a \in Texts
    PROVE  a \o <<>> = a /\ <<>> \o a = a
  BY DEF Texts

LEMMA SliceOfSlice ==
    ASSUME NEW d \in Texts, NEW n \in Nat, NEW a \in Nat, NEW b \in Nat,
           a <= b, b <= n, n <= Len(d)
    PROVE  Slice(Slice(d, 0, n), a, b) = Slice(d, a, b)
<1> DEFINE e == Slice(d, 0, n)
           x == Slice(e, a, b)
           y == Slice(d, a, b)
<1>1. 0 \in Nat /\ 0 <= n /\ b <= Len(d) /\ n - 0 = n /\ Len(d) \in Nat
  BY DEF Texts
<1>2. /\ e \in Texts /\ Len(e) = n - 0
      /\ \A i \in 1..Len(e) : e[i] = d[0 + i]
  BY <1>1, SliceOfText
<1>3. /\ y \in Texts /\ Len(y) = b - a
      /\ \A i \in 1..Len(y) : y[i] = d[a + i]
  BY <1>1, SliceOfText
<1> HIDE DEF e, y
<1>4. b <= Len(e)
  BY <1>1, <1>2
<1>5. /\ x \in Texts /\ Len(x) = b - a
      /\ \A i \in 1..Len(x) : x[i] = e[a + i]
  BY <1>2, <1>4, SliceOfText
<1> HIDE DEF x
<1>6. \A i \in 1..(b - a) : a + i \in 1..n /\ 0 + (a + i) = a + i
  OBVIOUS
<1>7. ASSUME NEW i \in 1..(b - a)
      PROVE  x[i] = y[i]
  <2>1. a + i \in 1..n /\ 0 + (a + i) = a + i
    BY <1>6
  <2>2. x[i] = e[a + i] /\ y[i] = d[a + i]
    BY <1>3, <1>5
  <2>3. e[a + i] = d[a + i]
    BY <1>1, <1>2, <2>1
  <2>4. QED
    BY <2>2, <2>3
<1>8. x = y
  BY <1>3, <1>5, <1>7, SameSeq DEF Texts
<1>9. QED
  BY <1>8 DEF x, y, e

LEMMA SliceBeyond ==
    ASSUME NEW s \in Texts, NEW a \in Nat, NEW b \in Nat
    PROVE  /\ Len(s) <= b => Slice(s, a, b) = Slice(s, a, Len(s))
           /\ a <= b /\ Len(s) <= a => Slice(s, a, b) = <<>>
<1>1. Len(s) \in Nat
  BY DEF Texts
<1>2. Len(s) <= b => Least(b, Len(s)) = Len(s) /\ Least(Len(s), Len(s)) = Len(s)
  BY <1>1 DEF Least
<1>3. Len(s) <= b => Slice(s, a, b) = Slice(s, a, Len(s))
  BY <1>2 DEF Slice
<1>4. a <= b /\ Len(s) <= a => Slice(s, a, b) = <<>>
  BY <1>1 DEF Slice, Least, Texts
<1>5. QED
  BY <1>3, <1>4

\* What Part() makes of digits, and of digits with more behind them.
LEMMA PartOfDigits ==
    ASSUME NEW a \in Seq(0..9), NEW b \in Seq(0..9), a # <<>>
    PROVE  /\ Part(a) = <<Hyphen>> \o a
           /\ Part(a \o b) = (<<Hyphen>> \o a) \o b
<1>1. Part(a) = <<Hyphen>> \o a
  BY DEF Part
<1>2. a \o b # <<>>
  OBVIOUS
<1>3. Part(a \o b) = <<Hyphen>> \o (a \o b)
  BY <1>2 DEF Part
<1>4. a \in Texts /\ b \in Texts /\ <<Hyphen>> \in Texts
  BY DigitsOfDigits, DigitsOfHyphen
<1>5. QED
  BY <1>1, <1>3, <1>4, ConcatAssociates

LEMMA ThreeTexts ==
    ASSUME NEW x \in Texts, NEW h \in Texts, NEW f \in Texts
    PROVE  x \o (h \o f) = (x \o h) \o f
  BY ConcatAssociates

Begins(p, m) ==
    \E w \in Texts, u \in Seq(0..9), v \in Texts :
        u # <<>> /\ p = w \o u /\ m = (w \o u) \o v

LEMMA MaskGrows ==
    ASSUME NEW d \in Seq(0..9), Len(d) <= 8, NEW n \in 1..Len(d), NEW l
    PROVE  Begins(formatFromDigits(Slice(d, 0, n), l), formatFromDigits(d, l))
<1> DEFINE a == Cuts(l)[1]
           b == Cuts(l)[2]
           e == Slice(d, 0, n)
           x == Slice(d, 0, a)
           y == Slice(d, a, b)
           z == Slice(d, b, 8)
           q == formatFromDigits(e, l)
           m == formatFromDigits(d, l)
<1>1. /\ a \in Nat /\ b \in Nat /\ 0 \in Nat /\ 8 \in Nat /\ 0 <= a /\ 0 <= b
      /\ a > 0 /\ a < b /\ b < 8 /\ a <= b /\ b <= 8
  BY CutsAre
<1>2. /\ n \in Nat /\ 0 <= n /\ n > 0 /\ n <= Len(d) /\ n <= 8 /\ n - 0 = n /\ Len(d) \in Nat
      /\ d \in Texts
  BY DigitsOfDigits
<1>3. m = (x \o Part(y)) \o Part(z)
  BY DEF formatFromDigits
<1>4. q = (Slice(e, 0, a) \o Part(Slice(e, a, b))) \o Part(Slice(e, b, 8))
  BY DEF formatFromDigits
<1> HIDE DEF a, b, m, q
<1>5. x \in Seq(0..9) /\ y \in Seq(0..9) /\ z \in Seq(0..9)
  BY <1>1, SliceOfSeq
<1>6. e \in Seq(0..9) /\ e \in Texts /\ Len(e) = n
  <2>1. e \in Texts /\ Len(e) = n
    BY <1>2, PartsOfText
  <2>2. e \in Seq(0..9)
    BY <1>2, SliceOfSeq
  <2>3. QED
    BY <2>1, <2>2
<1>7. /\ x \in Texts /\ Part(y) \in Texts /\ Part(z) \in Texts
      /\ <<Hyphen>> \in Texts /\ <<>> \in Texts /\ Part(<<>>) = <<>>
  BY <1>5, DigitsOfDigits, DigitsOfPart, DigitsOfHyphen DEF Part
<1>8. CASE n <= a
  <2> DEFINE r == Slice(d, n, a)
             v == (r \o Part(y)) \o Part(z)
  <2>1. Slice(e, 0, a) = e
    BY <1>1, <1>6, <1>8, WholeSlice
  <2>2. Slice(e, a, b) = <<>>
    BY <1>1, <1>6, <1>8, SliceBeyond
  <2>3. Slice(e, b, 8) = <<>>
    <3>1. Len(e) <= b
      BY <1>1, <1>2, <1>6, <1>8
    <3>2. QED
      BY <1>1, <1>6, <3>1, SliceBeyond
  <2>4. q = <<>> \o e
    BY <1>4, <1>6, <1>7, <2>1, <2>2, <2>3, EmptyConcat
  <2>5. r \in Texts
    <3>1. r \in Seq(0..9)
      BY <1>1, <1>2, <1>8, SliceOfSeq
    <3>2. QED
      BY <3>1, DigitsOfDigits
  <2>6. x = e \o r
    BY <1>1, <1>2, <1>8, TwoParts, SMTT(30)
  <2> HIDE DEF x, e, r
  <2>7. r \o Part(y) \in Texts /\ v \in Texts
    BY <1>7, <2>5, ConcatOfTexts
  <2>8. (e \o r) \o Part(y) = e \o (r \o Part(y))
    <3> DEFINE k == Part(y)
    <3>1. e \in Texts /\ r \in Texts /\ k \in Texts
      BY <1>6, <1>7, <2>5
    <3> HIDE DEF k
    <3>2. (e \o r) \o k = e \o (r \o k)
      BY <3>1, ConcatAssociates, ZenonT(60)
    <3>3. QED
      BY <3>2 DEF k
  <2>9. (e \o (r \o Part(y))) \o Part(z) = e \o v
    <3> DEFINE j == r \o Part(y)
               k == Part(z)
    <3>1. e \in Texts /\ j \in Texts /\ k \in Texts
      BY <1>6, <1>7, <2>7
    <3> HIDE DEF j, k
    <3>2. (e \o j) \o k = e \o (j \o k)
      BY <3>1, ConcatAssociates, ZenonT(60)
    <3>3. QED
      BY <3>2 DEF j, k
  <2>10. m = (<<>> \o e) \o v
    BY <1>3, <1>6, <2>6, <2>8, <2>9, EmptyConcat
  <2>11. e # <<>>
    BY <1>2, <1>6
  <2> HIDE DEF v
  <2>12. QED
    BY <1>6, <1>7, <2>4, <2>7, <2>10, <2>11 DEF Begins, q, m, e
<1>9. CASE a < n /\ n <= b
  <2> DEFINE f == Slice(d, a, n)
             g == Slice(d, n, b)
             w == x \o <<Hyphen>>
             v == g \o Part(z)
  <2>0. a <= n /\ n <= b
    BY <1>1, <1>2, <1>9
  <2>1. Slice(e, 0, a) = x
    BY <1>1, <1>2, <2>0, SliceOfSlice
  <2>2. Slice(e, a, b) = f
    <3>1. Slice(e, a, b) = Slice(e, a, n)
      BY <1>1, <1>6, <2>0, SliceBeyond
    <3>2. Slice(e, a, n) = f
      BY <1>1, <1>2, <2>0, SliceOfSlice
    <3>3. QED
      BY <3>1, <3>2
  <2>3. Slice(e, b, 8) = <<>>
    BY <1>1, <1>6, <2>0, SliceBeyond
  <2>4. f \in Seq(0..9) /\ g \in Seq(0..9)
    BY <1>1, <1>2, <2>0, SliceOfSeq
  <2>5. f # <<>>
    <3>1. Len(f) = n - a
      BY <1>1, <1>2, <2>0, SliceOfText
    <3>2. QED
      BY <1>1, <1>2, <1>9, <3>1
  <2>6. y = f \o g
    BY <1>1, <1>2, <2>0, TwoParts, SMTT(30)
  <2> HIDE DEF x, y, e, f, g
  <2>7. Part(f) = <<Hyphen>> \o f /\ Part(y) = (<<Hyphen>> \o f) \o g
    BY <2>4, <2>5, <2>6, PartOfDigits
  <2>8. f \in Texts /\ g \in Texts /\ <<Hyphen>> \o f \in Texts
    BY <1>7, <2>4, DigitsOfDigits, ConcatOfTexts
  <2> DEFINE o == <<Hyphen>>
             py == Part(y)
             pz == Part(z)
  <2>9. /\ x \in Texts /\ o \in Texts /\ py \in Texts /\ pz \in Texts
        /\ Part(f) = o \o f /\ py = (o \o f) \o g
        /\ w = x \o o /\ v = g \o pz
        /\ m = (x \o py) \o pz
        /\ q = (x \o (o \o f)) \o <<>>
    BY <1>3, <1>4, <1>7, <2>1, <2>2, <2>3, <2>7
  <2> HIDE DEF o, py, pz, w, v
  <2>10. /\ x \o o \in Texts /\ (x \o o) \o f \in Texts
         /\ x \o (o \o f) = (x \o o) \o f
         /\ x \o ((o \o f) \o g) = ((x \o o) \o f) \o g
    <3>1. x \in Texts /\ o \in Texts /\ f \in Texts /\ g \in Texts
      BY <2>8, <2>9
    <3>2. x \o o \in Texts
      BY <3>1, ConcatOfTexts
    <3>3. (x \o o) \o f \in Texts
      BY <3>1, <3>2, ConcatOfTexts
    <3>4. x \o (o \o f) = (x \o o) \o f
      BY <3>1, ThreeTexts, ZenonT(60)
    <3>5. x \o ((o \o f) \o g) = ((x \o o) \o f) \o g
      <4> DEFINE j == o \o f
      <4>1. j \in Texts
        BY <3>1, ConcatOfTexts
      <4> HIDE DEF j
      <4>2. x \o (j \o g) = (x \o j) \o g
        BY <3>1, <4>1, ThreeTexts, ZenonT(60)
      <4>3. QED
        BY <3>4, <4>2 DEF j
    <3>6. QED
      BY <3>2, <3>3, <3>4, <3>5
  <2>11. q = w \o f
    <3>1. ((x \o o) \o f) \o <<>> = (x \o o) \o f
      BY <2>10, EmptyConcat
    <3>2. QED
      BY <2>9, <2>10, <3>1
  <2>12. (((x \o o) \o f) \o g) \o pz = ((x \o o) \o f) \o (g \o pz)
    <3>1. (x \o o) \o f \in Texts /\ g \in Texts /\ pz \in Texts
      BY <2>8, <2>9, <2>10
    <3>2. QED
      BY <3>1, ConcatAssociates
  <2>13. v \in Texts
    <3>1. g \o pz \in Texts
      BY <2>8, <2>9, ConcatOfTexts
    <3>2. QED
      BY <2>9, <3>1
  <2>14. m = (w \o f) \o v /\ w \in Texts
    BY <2>9, <2>10, <2>12
  <2>15. QED
    BY <2>4, <2>5, <2>11, <2>13, <2>14 DEF Begins, q, m, e
<1>10. CASE b < n
  <2> DEFINE h == Slice(d, b, n)
             k == Slice(d, n, 8)
             w == (x \o Part(y)) \o <<Hyphen>>
  <2>0. a <= n /\ b <= n /\ n <= n
    BY <1>1, <1>2, <1>10
  <2>1. Slice(e, 0, a) = x
    BY <1>1, <1>2, <2>0, SliceOfSlice
  <2>2. Slice(e, a, b) = y
    BY <1>1, <1>2, <2>0, SliceOfSlice
  <2>3. Slice(e, b, 8) = h
    <3>1. Slice(e, b, 8) = Slice(e, b, n)
      BY <1>1, <1>2, <1>6, SliceBeyond
    <3>2. Slice(e, b, n) = h
      BY <1>1, <1>2, <2>0, SliceOfSlice
    <3>3. QED
      BY <3>1, <3>2
  <2>4. h \in Seq(0..9) /\ k \in Seq(0..9)
    BY <1>1, <1>2, <2>0, SliceOfSeq
  <2>5. h # <<>>
    <3>1. Len(h) = n - b
      BY <1>1, <1>2, <2>0, SliceOfText
    <3>2. QED
      BY <1>1, <1>2, <1>10, <3>1
  <2>6. z = h \o k
    BY <1>1, <1>2, <2>0, TwoParts, SMTT(30)
  <2> HIDE DEF x, y, z, e, h, k
  <2>7. Part(h) = <<Hyphen>> \o h /\ Part(z) = (<<Hyphen>> \o h) \o k
    BY <2>4, <2>5, <2>6, PartOfDigits
  <2>8. h \in Texts /\ k \in Texts /\ <<Hyphen>> \o h \in Texts
    BY <1>7, <2>4, DigitsOfDigits, ConcatOfTexts
  <2>9. x \o Part(y) \in Texts
    BY <1>7, ConcatOfTexts
  <2> DEFINE o == <<Hyphen>>
             xy == x \o Part(y)
  <2>10. /\ xy \in Texts /\ o \in Texts
         /\ w = xy \o o
         /\ m = xy \o ((o \o h) \o k)
         /\ q = xy \o (o \o h)
    BY <1>3, <1>4, <1>7, <2>1, <2>2, <2>3, <2>7, <2>9
  <2> HIDE DEF o, xy, w
  <2>11. /\ xy \o o \in Texts /\ (xy \o o) \o h \in Texts
         /\ xy \o (o \o h) = (xy \o o) \o h
         /\ xy \o ((o \o h) \o k) = ((xy \o o) \o h) \o k
    <3>1. xy \in Texts /\ o \in Texts /\ h \in Texts /\ k \in Texts
      BY <2>8, <2>10
    <3>2. xy \o o \in Texts
      BY <3>1, ConcatOfTexts
    <3>3. (xy \o o) \o h \in Texts
      BY <3>1, <3>2, ConcatOfTexts
    <3>4. xy \o (o \o h) = (xy \o o) \o h
      BY <3>1, ThreeTexts, ZenonT(60)
    <3>5. xy \o ((o \o h) \o k) = ((xy \o o) \o h) \o k
      <4> DEFINE j == o \o h
      <4>1. j \in Texts
        BY <3>1, ConcatOfTexts
      <4> HIDE DEF j
      <4>2. xy \o (j \o k) = (xy \o j) \o k
        BY <3>1, <4>1, ThreeTexts, ZenonT(60)
      <4>3. QED
        BY <3>4, <4>2 DEF j
    <3>6. QED
      BY <3>2, <3>3, <3>4, <3>5
  <2>12. w \in Texts /\ q = w \o h /\ m = (w \o h) \o k
    BY <2>10, <2>11
  <2>13. QED
    BY <2>4, <2>5, <2>8, <2>12 DEF Begins, q, m, e
<1>11. QED
  BY <1>1, <1>2, <1>8, <1>9, <1>10

\* The caret behind the n-th digit of a date.
LEMMA CaretOfMask ==
    ASSUME NEW d \in Seq(0..9), Len(d) <= 8, NEW n \in 1..Len(d), NEW l
    PROVE  caretIndexForDigits(formatFromDigits(d, l), n)
             = Len(formatFromDigits(Slice(d, 0, n), l))
<1> DEFINE e == Slice(d, 0, n)
           q == formatFromDigits(e, l)
           m == formatFromDigits(d, l)
<1>1. Begins(q, m)
  BY MaskGrows
<1>2. e \in Seq(0..9) /\ Len(e) = n
  <2>1. /\ n \in Nat /\ 0 \in Nat /\ 0 <= n /\ n <= Len(d) /\ n - 0 = n
    OBVIOUS
  <2>2. e \in Seq(0..9) /\ Len(e) = n - 0
    BY <2>1, SliceOfSeq
  <2>3. QED
    BY <2>1, <2>2
<1> HIDE DEF e
<1>3. Count(q) = n
  BY <1>2, DigitsOfMask DEF Count
<1> HIDE DEF q, m
<1>4. PICK w \in Texts, u \in Seq(0..9), v \in Texts :
        u # <<>> /\ q = w \o u /\ m = (w \o u) \o v
  BY <1>1 DEF Begins
<1>5. caretIndexForDigits((w \o u) \o v, Count(w \o u)) = Len(w \o u)
  BY <1>4, CaretAfter
<1>6. caretIndexForDigits(m, n) = Len(q)
  BY <1>3, <1>4, <1>5
<1>7. QED
  BY <1>6 DEF q, m, e

LEMMA SameCaret ==
    ASSUME NEW a \in Seq(0..9), NEW b \in Seq(0..9), Len(a \o b) <= 8, Len(a) > 0, NEW l
    PROVE  caretIndexForDigits(formatFromDigits(a \o b, l), Len(a)) = Len(formatFromDigits(a, l))
<1> DEFINE d == a \o b
           n == Len(a)
<1>1. d \in Seq(0..9) /\ Len(d) = Len(a) + Len(b) /\ Len(a) \in Nat /\ Len(b) \in Nat
  OBVIOUS
<1>2. Slice(d, 0, n) = a
  <2>1. a \in Texts /\ b \in Texts
    BY DigitsOfDigits
  <2>2. QED
    BY <2>1, SliceOfConcat
<1>3. Len(d) <= 8 /\ n > 0
  OBVIOUS
<1> HIDE DEF d
<1>4. n \in 1..Len(d)
  BY <1>1, <1>3
<1>5. caretIndexForDigits(formatFromDigits(d, l), n)
        = Len(formatFromDigits(Slice(d, 0, n), l))
  BY <1>1, <1>3, <1>4, CaretOfMask
<1>6. QED
  BY <1>2, <1>5 DEF d

\* The caret lies before an offset that follows as many digits and a further
\* character.
LEMMA CaretBefore ==
    ASSUME NEW t \in Texts, NEW i \in Nat, i <= Len(t)
    PROVE  caretIndexForDigits(t, Count(Slice(t, 0, i))) <= i
<1> DEFINE n == Count(Slice(t, 0, i))
           k == caretIndexForDigits(t, n)
<1>1. n \in Nat
  BY CountGrows
<1>2. CASE n = 0
  <2>1. k = 0
    BY <1>2 DEF caretIndexForDigits
  <2>2. QED
    BY <2>1
<1>3. CASE n # 0
  <2>1. i # 0
    <3>1. SUFFICES ASSUME i = 0 PROVE FALSE
      OBVIOUS
    <3>2. Slice(t, 0, i) = <<>>
      BY <3>1 DEF Slice, Least, Texts
    <3>3. QED
      BY <1>3, <3>2, DigitsOfHyphen DEF Count
  <2>2. i \in Behind(t, n)
    <3>1. i \in 1..Len(t)
      BY <2>1 DEF Texts
    <3> HIDE DEF n
    <3>2. QED
      BY <3>1 DEF Behind, n
  <2>3. k <= i
    <3>1. n > 0
      BY <1>1, <1>3
    <3> HIDE DEF n
    <3>2. QED
      BY <1>1, <2>2, <3>1, CaretIsLeast
  <2>4. QED
    BY <2>3
<1>4. QED
  BY <1>2, <1>3

\* What the text is after Backspace, and where the caret.
LEMMA BackspaceMoves ==
    ASSUME FieldInv, from = to, from > 0, text = Masked(text, lang)
    PROVE  LET new == Masked(Backspaced, lang)
               c   == newCaret(Backspaced, from - 1)
           IN  /\ c < from
               /\ DigitsOnly(Slice(new, c, Len(new))) = DigitsOnly(Slice(text, from, Len(text)))
<1> DEFINE f == from
           g == from - 1
           p == Slice(text, 0, g)
           x == Slice(text, g, f)
           q == Slice(text, f, Len(text))
           a == DigitsOnly(p)
           y == DigitsOnly(x)
           b == DigitsOnly(q)
           raw == p \o q
           new == Masked(raw, lang)
           c == caretIndexForDigits(new, Len(a))
<1>1. /\ text \in Texts /\ f \in Nat /\ g \in Nat /\ 0 \in Nat /\ Len(text) \in Nat
      /\ 0 <= g /\ g <= f /\ f <= Len(text) /\ g <= Len(text) /\ g < f
  BY DEF FieldInv, Texts
<1>2. /\ p \in Texts /\ Len(p) = g
      /\ x \in Texts
  BY <1>1, SliceOfText, PartsOfText
<1>3. q \in Texts /\ Slice(text, 0, f) \in Texts /\ Slice(text, 0, f) \o q = text
  BY <1>1, PartsOfText
<1>4. p \o x = Slice(text, 0, f)
  <2> HIDE DEF f, g
  <2>1. QED
    BY <1>1, TwoParts
<1>5. Backspaced = raw
  <2>1. Backspaced = (p \o <<>>) \o q
    BY DEF Backspaced, Replaced
  <2>2. p \o <<>> = p
    BY <1>2, EmptyConcat
  <2> HIDE DEF p, q
  <2>3. QED
    BY <2>1, <2>2
<1>6. c = caretIndexForDigits(new, Count(p))
  BY DEF Count
<1> HIDE DEF p, x, q, f, g
<1>7. a \in Seq(0..9) /\ y \in Seq(0..9) /\ b \in Seq(0..9)
  BY <1>2, <1>3, DigitsAreDigits
<1>8. DigitsOnly(text) = (a \o y) \o b
  <2>1. DigitsOnly(p \o x) = a \o y
    BY <1>2, DigitsOfConcat
  <2>2. p \o x \in Texts
    BY <1>3, <1>4
  <2>3. DigitsOnly((p \o x) \o q) = DigitsOnly(p \o x) \o b
    BY <1>3, <2>2, DigitsOfConcat
  <2>4. QED
    BY <1>3, <1>4, <2>1, <2>3
<1>9. raw \in Texts /\ DigitsOnly(raw) = a \o b /\ Slice(raw, 0, g) = p
  BY <1>2, <1>3, ConcatOfTexts, DigitsOfConcat, SliceOfConcat
<1>10. newCaret(Backspaced, g) = c
  BY <1>5, <1>9, <1>6 DEF newCaret
<1>11. DigitsOnly(text) \in Seq(0..9) /\ Len(DigitsOnly(text)) <= 8
  BY <1>1, DigitsAreDigits, DigitsOfMasked DEF Count
<1> HIDE DEF a, y, b, raw
<1>12. text = formatFromDigits(DigitsOnly(text), lang)
  <2>1. clampDigits(DigitsOnly(text)) = DigitsOnly(text)
    BY <1>11, Clamped
  <2>2. QED
    BY <2>1 DEF Masked
<1>13. /\ a \o y \in Seq(0..9) /\ y \o b \in Seq(0..9) /\ a \o b \in Seq(0..9)
       /\ (a \o y) \o b = a \o (y \o b)
       /\ Len((a \o y) \o b) = Len(a) + Len(y) + Len(b)
       /\ Len(a \o b) = Len(a) + Len(b)
       /\ Len(a) \in Nat /\ Len(y) \in Nat /\ Len(b) \in Nat
  BY <1>7
<1>14. Len(a \o b) <= 8 /\ Len(a \o (y \o b)) <= 8
  BY <1>8, <1>11, <1>13
<1>15. new = formatFromDigits(a \o b, lang) /\ new \in Texts /\ DigitsOnly(new) = a \o b
  <2>1. clampDigits(a \o b) = a \o b
    BY <1>13, <1>14, Clamped
  <2>2. new = formatFromDigits(a \o b, lang)
    BY <1>9, <2>1 DEF Masked
  <2>3. QED
    BY <1>13, <1>14, <2>2, DigitsOfMask
<1>16. DigitsOnly(Slice(new, c, Len(new))) = b
  BY <1>7, <1>15, CaretCuts
<1>17. c <= g
  <2>1. CASE Len(a) = 0
    <3>1. c = 0
      BY <2>1 DEF caretIndexForDigits
    <3>2. QED
      BY <1>1, <3>1
  <2>2. CASE Len(a) > 0
    <3>1. c = Len(formatFromDigits(a, lang))
      BY <1>7, <1>14, <1>15, <2>2, SameCaret
    <3>2. caretIndexForDigits(text, Len(a)) = Len(formatFromDigits(a, lang))
      <4>1. caretIndexForDigits(formatFromDigits(a \o (y \o b), lang), Len(a))
              = Len(formatFromDigits(a, lang))
        BY <1>7, <1>13, <1>14, <2>2, SameCaret
      <4>2. QED
        BY <1>8, <1>12, <1>13, <4>1
    <3>3. caretIndexForDigits(text, Len(a)) <= g
      <4>1. caretIndexForDigits(text, Count(Slice(text, 0, g))) <= g
        BY <1>1, CaretBefore
      <4>2. QED
        BY <4>1 DEF Count, a, p
    <3> HIDE DEF c
    <3>4. QED
      BY <3>1, <3>2, <3>3
  <2>3. QED
    BY <1>13, <2>1, <2>2
<1>18. c < f
  <2>1. c \in Nat
    <3>1. c \in 0..Len(new)
      BY <1>13, <1>15, CaretType
    <3> HIDE DEF c
    <3>2. QED
      BY <3>1
  <2> HIDE DEF c
  <2>2. QED
    BY <1>1, <1>17, <2>1
<1>19. QED
  BY <1>5, <1>10, <1>16, <1>18 DEF f, g, b, q

\* Backspace always brings the caret forward, across the hyphens that the mask
\* puts back, and leaves the digits behind it (onInput and
\* caretIndexForDigits of date-mask.js).
THEOREM BackspaceComesForward == MaskSpec => []BackspaceAdvances
<1>1. FieldInv => BackspaceAdvances
  BY BackspaceMoves DEF BackspaceAdvances
<1>2. QED
  BY <1>1, FieldInvariance, PTL

=============================================================================
