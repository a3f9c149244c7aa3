--------------------------- MODULE SequenceLemmas ---------------------------
(***************************************************************************)
(* Lemmas about sequences, and about induction and recursion over them,    *)
(* that the proofs about the tables of the daemon share.                   *)
(***************************************************************************)
EXTENDS Integers, Sequences, Functions, TLAPS, SequenceTheorems, WellFoundedInduction

-----------------------------------------------------------------------------
(* Induction and recursion.                                                *)

LEMMA Least ==
  ASSUME NEW S, S \subseteq Nat, S # {}
  PROVE  \E m \in S : \A n \in S : m <= n
<1>1. \A m, n \in Nat : <<n, m>> \notin OpToRel(<, Nat) => m <= n
  BY DEF OpToRel
<1>2. PICK m \in S : \A n \in S : <<n, m>> \notin OpToRel(<, Nat)
  BY NatLessThanWellFounded, WFMin, Zenon
<1>3. QED
  BY <1>1, <1>2

LEMMA Induction ==
  ASSUME NEW S, 0 \in S, \A n \in Nat : n \in S => n + 1 \in S
  PROVE  Nat \subseteq S
<1> SUFFICES ASSUME Nat \ S # {} PROVE FALSE
  OBVIOUS
<1>1. PICK m \in Nat \ S : \A n \in Nat \ S : m <= n
  BY Least
<1>2. m # 0 /\ m - 1 \in Nat /\ m - 1 \in S
  BY <1>1
<1>3. QED
  BY <1>1, <1>2

\* A function on 0 .. k that is defined by recursion.
Recursive(f, T, k, base, step) ==
  /\ f \in [0 .. k -> T] /\ f[0] = base
  /\ \A i \in 1 .. k : f[i] = step[<<i, f[i - 1]>>]

LEMMA Recursion ==
  ASSUME NEW T, NEW N \in Nat, NEW base \in T, NEW step \in [(1 .. N) \X T -> T]
  PROVE  \E f : Recursive(f, T, N, base, step)
<1> DEFINE S == {k \in Nat : k <= N => \E f : Recursive(f, T, k, base, step)}
<1>1. \E f : Recursive(f, T, 0, base, step)
  <2> DEFINE g == [i \in 0 .. 0 |-> base]
  <2>1. g \in [0 .. 0 -> T] /\ g[0] = base /\ 1 .. 0 = {}
    OBVIOUS
  <2>2. QED
    BY <2>1 DEF Recursive
<1>2. ASSUME NEW k \in Nat, \E f : Recursive(f, T, k, base, step), k + 1 <= N
      PROVE  \E f : Recursive(f, T, k + 1, base, step)
  <2>1. PICK f : Recursive(f, T, k, base, step)
    BY <1>2
  <2>2. f \in [0 .. k -> T] /\ f[0] = base /\ \A i \in 1 .. k : f[i] = step[<<i, f[i - 1]>>]
    BY <2>1 DEF Recursive
  <2> DEFINE g == [i \in 0 .. k + 1 |-> IF i = k + 1 THEN step[<<i, f[k]>>] ELSE f[i]]
  <2>3. step[<<k + 1, f[k]>>] \in T
    BY <1>2, <2>2
  <2>4. g \in [0 .. k + 1 -> T] /\ g[0] = base
    BY <2>2, <2>3
  <2>5. ASSUME NEW i \in 1 .. k + 1 PROVE g[i] = step[<<i, g[i - 1]>>]
    <3>1. CASE i = k + 1
      <4>1. g[k] = f[k] /\ i - 1 = k
        BY <3>1
      <4>2. QED
        BY <3>1, <4>1
    <3>2. CASE i \in 1 .. k
      <4>1. g[i] = f[i] /\ g[i - 1] = f[i - 1]
        BY <3>2
      <4>2. QED
        BY <2>2, <3>2, <4>1
    <3>3. QED
      BY <3>1, <3>2
  <2> HIDE DEF g
  <2>6. Recursive(g, T, k + 1, base, step)
    BY <2>4, <2>5 DEF Recursive
  <2>7. QED
    BY <2>6
<1>3. 0 \in S /\ \A k \in Nat : k \in S => k + 1 \in S
  BY <1>1, <1>2
<1> HIDE DEF S
<1>4. N \in S
  BY <1>3, Induction
<1>5. QED
  BY <1>4 DEF S

-----------------------------------------------------------------------------
(* Sequences.                                                              *)

\* A sequence without its n-th element: RemoveAt of SequencesExt.
Shortened(s, n) == SubSeq(s, 1, n - 1) \o SubSeq(s, n + 1, Len(s))

\* What is left of a sequence without repetitions when one element is removed.
LEMMA Removed ==
  ASSUME NEW S, NEW s \in Seq(S), IsInjective(s), NEW n \in 1 .. Len(s)
  PROVE  /\ Shortened(s, n) \in Seq(S) /\ IsInjective(Shortened(s, n))
         /\ Range(Shortened(s, n)) = Range(s) \ {s[n]}
         /\ Len(Shortened(s, n)) = Len(s) - 1
         /\ \A k \in 1 .. Len(s) - 1 :
              Shortened(s, n)[k] = IF k < n THEN s[k] ELSE s[k + 1]
<1> DEFINE a == SubSeq(s, 1, n - 1)
           b == SubSeq(s, n + 1, Len(s))
           r == Shortened(s, n)
<1>1. Len(s) \in Nat /\ n \in Nat /\ n <= Len(s) /\ DOMAIN s = 1 .. Len(s)
  BY LenProperties
<1>2. /\ a \in Seq(S) /\ Len(a) = n - 1
      /\ \A k \in 1 .. n - 1 : a[k] = s[k]
  <2>1. 1 \in Int /\ n - 1 \in Int /\ \A k \in 1 .. n - 1 : s[k] \in S
    BY <1>1, ElementOfSeq
  <2>2. /\ a \in Seq(S)
        /\ Len(a) = IF 1 <= n - 1 THEN n - 1 - 1 + 1 ELSE 0
        /\ \A k \in 1 .. n - 1 - 1 + 1 : a[k] = s[1 + k - 1]
    BY <2>1, SubSeqProperties
  <2> HIDE DEF a
  <2> QED BY <1>1, <2>2
<1>3. /\ b \in Seq(S) /\ Len(b) = Len(s) - n
      /\ \A k \in 1 .. Len(s) - n : b[k] = s[n + k]
  <2>1. n + 1 \in Int /\ Len(s) \in Int /\ \A k \in n + 1 .. Len(s) : s[k] \in S
    BY <1>1, ElementOfSeq
  <2>2. /\ b \in Seq(S)
        /\ Len(b) = IF n + 1 <= Len(s) THEN Len(s) - (n + 1) + 1 ELSE 0
        /\ \A k \in 1 .. Len(s) - (n + 1) + 1 : b[k] = s[n + 1 + k - 1]
    BY <2>1, SubSeqProperties
  <2> HIDE DEF a, b, r
  <2>3. Len(b) = Len(s) - n
    <3>1. CASE n + 1 <= Len(s)
      BY <1>1, <2>2, <3>1
    <3>2. CASE ~(n + 1 <= Len(s))
      <4>1. \A l, m \in Nat : m <= l /\ ~(m + 1 <= l) => l - m = 0
        OBVIOUS
      <4>2. Len(s) - n = 0
        BY <1>1, <3>2, <4>1
      <4> QED BY <2>2, <3>2, <4>2
    <3> QED BY <3>1, <3>2
  <2>4. ASSUME NEW k \in 1 .. Len(s) - n PROVE b[k] = s[n + k]
    <3>1. k \in 1 .. Len(s) - (n + 1) + 1 /\ n + 1 + k - 1 = n + k
      BY <1>1
    <3> QED BY <2>2, <3>1
  <2> QED BY <2>2, <2>3, <2>4
<1>4. r = a \o b
  BY DEF Shortened
<1> HIDE DEF a, b, r
<1>5. /\ r \in Seq(S) /\ Len(r) = Len(s) - 1 /\ DOMAIN r = 1 .. Len(s) - 1
      /\ \A k \in 1 .. Len(s) - 1 : r[k] = IF k < n THEN s[k] ELSE s[k + 1]
  <2>1. r \in Seq(S) /\ Len(r) = Len(a) + Len(b)
    BY <1>2, <1>3, <1>4, ConcatProperties
  <2>2. \A k \in 1 .. Len(a) + Len(b) : r[k] = IF k <= Len(a) THEN a[k] ELSE b[k - Len(a)]
    BY <1>2, <1>3, <1>4
  <2>3. DOMAIN r = 1 .. Len(r)
    BY <2>1, LenProperties
  <2>4. Len(a) + Len(b) = Len(s) - 1
    BY <1>1, <1>2, <1>3
  <2>5. ASSUME NEW k \in 1 .. Len(s) - 1
        PROVE  r[k] = IF k < n THEN s[k] ELSE s[k + 1]
    <3>1. r[k] = IF k <= Len(a) THEN a[k] ELSE b[k - Len(a)]
      BY <2>2, <2>4
    <3>2. CASE k < n
      BY <1>1, <1>2, <3>1, <3>2
    <3>3. CASE ~(k < n)
      <4>1. k - Len(a) \in 1 .. Len(s) - n /\ n + (k - Len(a)) = k + 1 /\ ~(k <= Len(a))
        BY <1>1, <1>2, <3>3
      <4> QED BY <1>3, <3>1, <3>3, <4>1
    <3> QED BY <3>2, <3>3
  <2> QED BY <2>1, <2>3, <2>4, <2>5
<1> DEFINE old(k) == IF k < n THEN k ELSE k + 1
<1>8. \A k \in 1 .. Len(s) - 1 : old(k) \in DOMAIN s /\ old(k) # n /\ r[k] = s[old(k)]
  BY <1>1, <1>5
<1>9. \A k, l \in 1 .. Len(s) - 1 : old(k) = old(l) => k = l
  BY <1>1
<1> HIDE DEF old
<1>6. IsInjective(r)
  <2>1. ASSUME NEW k \in 1 .. Len(s) - 1, NEW l \in 1 .. Len(s) - 1, r[k] = r[l] PROVE k = l
    <3>1. /\ old(k) \in DOMAIN s /\ r[k] = s[old(k)]
          /\ old(l) \in DOMAIN s /\ r[l] = s[old(l)]
      BY <1>8
    <3>2. s[old(k)] = s[old(l)]
      BY <2>1, <3>1
    <3>3. old(k) = old(l)
      BY <3>1, <3>2 DEF IsInjective
    <3> QED BY <1>9, <3>3
  <2> QED BY <1>5, <2>1 DEF IsInjective
<1>7. Range(r) = Range(s) \ {s[n]}
  <2>1. ASSUME NEW e \in Range(r) PROVE e \in Range(s) \ {s[n]}
    <3>1. PICK k \in 1 .. Len(s) - 1 : e = r[k]
      BY <1>5 DEF Range
    <3> QED BY <1>1, <1>8, <3>1 DEF IsInjective, Range
  <2>2. ASSUME NEW e \in Range(s), e # s[n] PROVE e \in Range(r)
    <3>1. PICK k \in 1 .. Len(s) : s[k] = e /\ k # n
      BY <1>1, <2>2 DEF Range
    <3>2. CASE k < n
      <4>1. k \in 1 .. Len(s) - 1 /\ r[k] = e
        BY <1>1, <1>5, <3>1, <3>2
      <4> QED BY <1>5, <4>1 DEF Range
    <3>3. CASE k > n
      <4>1. k - 1 \in 1 .. Len(s) - 1 /\ ~(k - 1 < n) /\ k - 1 + 1 = k
        BY <1>1, <3>1, <3>3
      <4>2. r[k - 1] = e
        BY <1>5, <3>1, <4>1
      <4> QED BY <1>5, <4>1, <4>2 DEF Range
    <3> QED BY <1>1, <3>1, <3>2, <3>3
  <2> QED BY <2>1, <2>2
<1> QED BY <1>5, <1>6, <1>7 DEF r

\* What is added to the end of a sequence without repetitions.
LEMMA Added ==
  ASSUME NEW S, NEW s \in Seq(S), IsInjective(s), NEW e \in S
  PROVE  /\ Append(s, e) \in Seq(S) /\ Len(Append(s, e)) = Len(s) + 1
         /\ \A k \in 1 .. Len(s) : Append(s, e)[k] = s[k]
         /\ Append(s, e)[Len(s) + 1] = e
         /\ Range(Append(s, e)) = Range(s) \cup {e}
         /\ e \notin Range(s) => IsInjective(Append(s, e))
<1>1. DOMAIN s = 1 .. Len(s) /\ Len(s) \in Nat
  BY LenProperties
<1>2. /\ Append(s, e) \in Seq(S) /\ Len(Append(s, e)) = Len(s) + 1
      /\ \A k \in 1 .. Len(s) : Append(s, e)[k] = s[k]
      /\ Append(s, e)[Len(s) + 1] = e
  BY AppendProperties
<1>3. DOMAIN Append(s, e) = 1 .. Len(s) + 1
  BY <1>2, LenProperties
<1> DEFINE r == Append(s, e)
<1> HIDE DEF r
<1>4. Range(r) = Range(s) \cup {e}
  BY <1>1, <1>2, <1>3 DEF Range, r
<1>5. ASSUME e \notin Range(s) PROVE IsInjective(r)
  BY <1>1, <1>2, <1>3, <1>5 DEF IsInjective, Range, r
<1> QED BY <1>2, <1>4, <1>5 DEF r

\* What is added to its front.
LEMMA Prepended ==
  ASSUME NEW S, NEW s \in Seq(S), NEW e \in S
  PROVE  /\ <<e>> \o s \in Seq(S) /\ Len(<<e>> \o s) = Len(s) + 1
         /\ Range(<<e>> \o s) = Range(s) \cup {e}
         /\ IsInjective(s) /\ e \notin Range(s) => IsInjective(<<e>> \o s)
<1> DEFINE r == <<e>> \o s
<1>1. DOMAIN s = 1 .. Len(s) /\ Len(s) \in Nat
  BY LenProperties
<1>2. <<e>> \in Seq(S) /\ Len(<<e>>) = 1 /\ <<e>>[1] = e
  OBVIOUS
<1>3. /\ r \in Seq(S) /\ Len(r) = 1 + Len(s)
      /\ \A k \in 1 .. 1 + Len(s) : r[k] = IF k <= 1 THEN e ELSE s[k - 1]
  <2>1. /\ r \in Seq(S) /\ Len(r) = Len(<<e>>) + Len(s)
        /\ \A k \in 1 .. Len(<<e>>) + Len(s) :
             r[k] = IF k <= Len(<<e>>) THEN <<e>>[k] ELSE s[k - Len(<<e>>)]
    BY <1>2, ConcatProperties
  <2> HIDE DEF r
  <2>2. QED
    BY <1>2, <2>1
<1> HIDE DEF r
<1>4. DOMAIN r = 1 .. 1 + Len(s)
  BY <1>3, LenProperties
<1>5. Range(r) = Range(s) \cup {e}
  <2>1. ASSUME NEW k \in 1 .. 1 + Len(s) PROVE r[k] \in Range(s) \cup {e}
    BY <1>1, <1>3 DEF Range
  <2>2. ASSUME NEW k \in 1 .. Len(s) PROVE s[k] \in Range(r)
    <3>1. k + 1 \in 1 .. 1 + Len(s) /\ r[k + 1] = s[k]
      BY <1>1, <1>3
    <3>2. QED
      BY <1>4, <3>1 DEF Range
  <2>3. r[1] = e /\ 1 \in DOMAIN r
    BY <1>1, <1>3, <1>4
  <2>4. QED
    BY <1>1, <1>4, <2>1, <2>2, <2>3 DEF Range
<1>6. ASSUME IsInjective(s), e \notin Range(s) PROVE IsInjective(r)
  <2>1. ASSUME NEW k \in 1 .. 1 + Len(s), NEW l \in 1 .. 1 + Len(s), r[k] = r[l]
        PROVE  k = l
    <3>1. \A m \in 1 .. 1 + Len(s) :
            (m = 1 /\ r[m] = e) \/ (m - 1 \in DOMAIN s /\ r[m] = s[m - 1] /\ r[m] # e)
      <4> SUFFICES ASSUME NEW m \in 1 .. 1 + Len(s), m # 1
                   PROVE  m - 1 \in DOMAIN s /\ r[m] = s[m - 1] /\ r[m] # e
        BY <1>1, <1>3
      <4>1. m - 1 \in DOMAIN s /\ r[m] = s[m - 1]
        BY <1>1, <1>3
      <4>2. QED
        BY <1>6, <4>1 DEF Range
    <3>2. r[k] # e => k - 1 \in DOMAIN s /\ l - 1 \in DOMAIN s /\ s[k - 1] = s[l - 1]
      BY <2>1, <3>1
    <3>3. r[k] # e => k - 1 = l - 1
      BY <1>6, <3>2 DEF IsInjective
    <3>4. r[k] = e => k = 1 /\ l = 1
      BY <2>1, <3>1
    <3>5. QED
      BY <1>1, <3>3, <3>4
  <2>2. QED
    BY <1>4, <2>1 DEF IsInjective
<1>7. QED
  BY <1>1, <1>3, <1>5, <1>6 DEF r
=============================================================================
