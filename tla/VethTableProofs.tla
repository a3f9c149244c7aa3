-------------------------- MODULE VethTableProofs --------------------------
(***************************************************************************)
(* Theorems about module VethTable, for every hash function, any number of *)
(* entries and of buckets.  What HASH_EXPAND_BUCKETS makes of a chain is   *)
(* defined by recursion over its length; Recursion and Induction of        *)
(* SequenceLemmas say what such a definition means.                        *)
(***************************************************************************)
EXTENDS VethTable, SequenceLemmas

-----------------------------------------------------------------------------
(* Arithmetic of the buckets.                                              *)

LEMMA Division ==
  ASSUME NEW h \in Nat, NEW n \in Nat \ {0}
  PROVE  /\ h \div n \in Nat /\ h % n \in 0 .. n - 1
         /\ h = (n * (h \div n)) + (h % n)
OBVIOUS

LEMMA ModUnique ==
  ASSUME NEW h \in Nat, NEW n \in Nat \ {0}, NEW q \in Nat, NEW r \in 0 .. n - 1, h = n * q + r
  PROVE  h % n = r
OBVIOUS

\* Doubling the buckets splits each: an entry of bucket b comes from b % n.
LEMMA ModMod ==
  ASSUME NEW h \in Nat, NEW n \in Nat \ {0}
  PROVE  (h % (2 * n)) % n = h % n
<1> DEFINE q == h \div (2 * n)
           r == h % (2 * n)
<1>1. 2 * n \in Nat \ {0}
  OBVIOUS
<1>2. q \in Nat /\ r \in 0 .. 2 * n - 1 /\ h = ((2 * n) * q) + r
  BY <1>1, Division
<1> HIDE DEF q, r
<1>3. CASE r < n
  <2>1. h = n * (2 * q) + r /\ r = n * 0 + r /\ 2 * q \in Nat /\ r \in 0 .. n - 1 /\ r \in Nat
    BY <1>2, <1>3
  <2>2. h % n = r
    BY <2>1, ModUnique
  <2>3. r % n = r
    BY <2>1, ModUnique
  <2>4. QED
    BY <2>2, <2>3 DEF r
<1>4. CASE r >= n
  <2>1. /\ h = n * (2 * q + 1) + (r - n) /\ r = n * 1 + (r - n)
        /\ 2 * q + 1 \in Nat /\ r - n \in 0 .. n - 1 /\ r \in Nat
    BY <1>2, <1>4
  <2>2. h % n = r - n
    BY <2>1, ModUnique
  <2>3. r % n = r - n
    <3>1. \A k \in Nat : r = n * k + (r - n) => r % n = r - n
      BY <2>1, ModUnique
    <3>2. QED
      BY <2>1, <3>1
  <2>4. QED
    BY <2>2, <2>3 DEF r
<1>5. QED
  BY <1>2, <1>3, <1>4

LEMMA Product ==
  ASSUME NEW a \in Nat, NEW b \in Nat, NEW c \in Nat, b <= c
  PROVE  a * b \in Nat /\ a * c \in Nat /\ a * b <= a * c
<1>1. c = b + (c - b) /\ c - b \in Nat
  OBVIOUS
<1>2. a * c = a * b + a * (c - b)
  OBVIOUS
<1>3. a * (c - b) \in Nat
  BY <1>1
<1>4. QED
  BY <1>2, <1>3

LEMMA MaxOfTwo ==
  ASSUME NEW a \in Nat, NEW b \in Nat
  PROVE  Max({a, b}) \in Nat /\ Max({a, b}) >= a /\ Max({a, b}) >= b
<1>1. \E m \in {a, b} : \A n \in {a, b} : m >= n
  OBVIOUS
<1>2. QED
  BY <1>1 DEF Max

\* Every entry has a share as soon as there is one.
LEMMA ShareIsPositive ==
  ASSUME NEW items \in Nat \ {0}, NEW n \in Nat \ {0}
  PROVE  (items \div n) + (IF items % n # 0 THEN 1 ELSE 0) \in Nat \ {0}
<1>1. items \div n \in Nat /\ items % n \in Nat /\ items = (n * (items \div n)) + (items % n)
  BY Division
<1>2. items \div n = 0 => items % n # 0
  BY <1>1
<1>3. QED
  BY <1>1, <1>2

-----------------------------------------------------------------------------
(* Entries in a sequence.                                                  *)

\* The place of an element of a sequence is the only one.
LEMMA PositionOf ==
  ASSUME NEW S, NEW s \in Seq(S), IsInjective(s), NEW e \in Range(s)
  PROVE  /\ Position(s, e) \in 1 .. Len(s) /\ s[Position(s, e)] = e
         /\ \A i \in DOMAIN s : s[i] = e => i = Position(s, e)
<1>1. DOMAIN s = 1 .. Len(s)
  BY LenProperties
<1>2. \E i \in DOMAIN s : s[i] = e
  BY DEF Range
<1>3. Position(s, e) \in DOMAIN s /\ s[Position(s, e)] = e
  BY <1>2 DEF Position
<1>4. ASSUME NEW i \in DOMAIN s, s[i] = e PROVE i = Position(s, e)
  <2>1. \A j, k \in DOMAIN s : s[j] = s[k] => j = k
    BY DEF IsInjective
  <2>2. QED
    BY <1>3, <1>4, <2>1
<1>5. Position(s, e) \in 1 .. Len(s)
  BY <1>1, <1>3
<1>6. QED
  BY <1>3, <1>4, <1>5

LEMMA WithoutOf ==
  ASSUME NEW S, NEW s \in Seq(S), IsInjective(s), NEW e \in Range(s)
  PROVE  /\ Without(s, e) \in Seq(S) /\ IsInjective(Without(s, e))
         /\ Range(Without(s, e)) = Range(s) \ {e}
         /\ Len(Without(s, e)) = Len(s) - 1
         /\ \A k \in 1 .. Len(s) - 1 :
              Without(s, e)[k] = IF k < Position(s, e) THEN s[k] ELSE s[k + 1]
<1>1. Without(s, e) = Shortened(s, Position(s, e))
  BY DEF Without, Shortened, Sq!RemoveAt
<1>2. Position(s, e) \in 1 .. Len(s) /\ s[Position(s, e)] = e
  BY PositionOf
<1> DEFINE p == Position(s, e)
<1> HIDE DEF p
<1>3. /\ Shortened(s, p) \in Seq(S) /\ IsInjective(Shortened(s, p))
      /\ Range(Shortened(s, p)) = Range(s) \ {s[p]}
      /\ Len(Shortened(s, p)) = Len(s) - 1
      /\ \A k \in 1 .. Len(s) - 1 :
           Shortened(s, p)[k] = IF k < p THEN s[k] ELSE s[k + 1]
  BY <1>2, Removed DEF p
<1>4. QED
  BY <1>1, <1>2, <1>3, Zenon DEF p

-----------------------------------------------------------------------------
(* What a bucket gets when the buckets are doubled.                        *)

Bucket == [chain : Seq(Entries), expand_mult : Nat]

LEMMA PutTyped ==
  ASSUME NEW bkt \in Bucket, NEW e \in Entries, NEW ideal \in Nat
  PROVE  /\ Put(bkt, e, ideal) \in Bucket
         /\ Put(bkt, e, ideal).chain = <<e>> \o bkt.chain
         /\ Put(bkt, e, ideal).expand_mult \in {bkt.expand_mult, bkt.expand_mult + 1}
         /\ Len(bkt.chain) + 1 > ideal /\ Len(bkt.chain) + 1 > bkt.expand_mult * ideal
             => Put(bkt, e, ideal).expand_mult = bkt.expand_mult + 1
<1>1. bkt.chain \in Seq(Entries) /\ bkt.expand_mult \in Nat
  BY DEF Bucket
<1>2. <<e>> \o bkt.chain \in Seq(Entries)
  BY <1>1, Prepended
<1>3. /\ Put(bkt, e, ideal).chain = <<e>> \o bkt.chain
      /\ Put(bkt, e, ideal).expand_mult =
           IF Len(bkt.chain) + 1 > ideal /\ Len(bkt.chain) + 1 > bkt.expand_mult * ideal
           THEN bkt.expand_mult + 1 ELSE bkt.expand_mult
  BY Zenon DEF Put
<1>4. bkt.expand_mult + 1 \in Nat
  BY <1>1
<1>5. Put(bkt, e, ideal) \in Bucket
  <2>1. \A c \in Seq(Entries), m \in Nat : [chain |-> c, expand_mult |-> m] \in Bucket
    BY DEF Bucket
  <2>2. QED
    BY <1>1, <1>2, <1>4, <2>1 DEF Put
<1>6. QED
  BY <1>3, <1>5

\* The threshold of a bucket keeps up with its chain, once a share is an entry.
LEMMA Raised ==
  ASSUME NEW l \in Nat, NEW m \in Nat, NEW new \in {m, m + 1}, NEW ideal \in Nat \ {0},
         NEW granted, granted = m * ideal, l <= granted + ideal,
         l + 1 > ideal /\ l + 1 > granted => new = m + 1
  PROVE  l + 1 <= (new + 1) * ideal
<1>1. granted \in Nat /\ (m + 1) * ideal = granted + ideal
  OBVIOUS
<1>2. (m + 1 + 1) * ideal = (m + 1) * ideal + ideal
  OBVIOUS
<1>3. CASE new = m + 1
  BY <1>1, <1>2, <1>3
<1>4. CASE new = m
  BY <1>1, <1>4
<1>5. QED
  BY <1>3, <1>4

LEMMA PutBounded ==
  ASSUME NEW bkt \in Bucket, NEW e \in Entries, NEW ideal \in Nat \ {0},
         Len(bkt.chain) <= (bkt.expand_mult + 1) * ideal
  PROVE  LET new == Put(bkt, e, ideal)
         IN Len(new.chain) <= (new.expand_mult + 1) * ideal
<1> DEFINE l == Len(bkt.chain)
           m == bkt.expand_mult
           new == Put(bkt, e, ideal)
<1>1. bkt.chain \in Seq(Entries) /\ m \in Nat /\ l \in Nat
  BY LenProperties DEF Bucket
<1>2. ideal \in Nat
  OBVIOUS
<1>3. /\ new.chain = <<e>> \o bkt.chain /\ new.expand_mult \in {m, m + 1}
      /\ l + 1 > ideal /\ l + 1 > m * ideal => new.expand_mult = m + 1
  BY <1>2, PutTyped, Zenon
<1>4. Len(new.chain) = l + 1
  <2>1. Len(<<e>> \o bkt.chain) = l + 1
    BY <1>1, Prepended
  <2>2. QED
    BY <1>3, <2>1, Zenon
<1>5. l <= (m + 1) * ideal
  OBVIOUS
<1> HIDE DEF l, m, new
<1>6. (m + 1) * ideal = m * ideal + ideal
  BY <1>1
<1>7. l + 1 <= (new.expand_mult + 1) * ideal
  BY <1>1, <1>3, <1>5, <1>6, Raised
<1>8. QED
  BY <1>4, <1>7 DEF new

\* The walk over a chain is a sequence of buckets, each made from the one before.
Walked(chain, key, n, b, ideal, bkt) ==
  /\ bkt \in [0 .. Len(chain) -> Bucket]
  /\ bkt[0] = [chain |-> <<>>, expand_mult |-> 0]
  /\ \A i \in 1 .. Len(chain) :
       bkt[i] = IF HASH_TO_BKT(key[chain[i]], n) = b THEN Put(bkt[i - 1], chain[i], ideal)
                ELSE bkt[i - 1]
  /\ Moved(chain, key, n, b, ideal) = bkt[Len(chain)]

LEMMA WalkedIs ==
  ASSUME NEW chain \in Seq(Entries), NEW key, NEW n, NEW b, NEW ideal \in Nat
  PROVE  \E bkt : Walked(chain, key, n, b, ideal, bkt)
<1> DEFINE N == Len(chain)
           base == [chain |-> <<>>, expand_mult |-> 0]
           In(i) == HASH_TO_BKT(key[chain[i]], n) = b
           step == [x \in (1 .. N) \X Bucket |->
                      IF In(x[1]) THEN Put(x[2], chain[x[1]], ideal) ELSE x[2]]
           bkt[i \in 0 .. N] == IF i = 0 THEN base
                                ELSE IF In(i) THEN Put(bkt[i - 1], chain[i], ideal)
                                ELSE bkt[i - 1]
<1>1. N \in Nat /\ \A i \in 1 .. N : chain[i] \in Entries
  BY LenProperties, ElementOfSeq
<1>2. base \in Bucket
  BY DEF Bucket
<1> HIDE DEF base, N
<1>3. step \in [(1 .. N) \X Bucket -> Bucket]
  <2>1. ASSUME NEW x \in (1 .. N) \X Bucket
        PROVE  (IF In(x[1]) THEN Put(x[2], chain[x[1]], ideal) ELSE x[2]) \in Bucket
    <3>1. x[2] \in Bucket /\ chain[x[1]] \in Entries
      BY <1>1
    <3>2. QED
      BY <3>1, PutTyped
  <2>2. QED
    BY <2>1
<1> HIDE DEF step
<1>found. PICK f : Recursive(f, Bucket, N, base, step)
  BY <1>1, <1>2, <1>3, Recursion
<1>4. /\ f \in [0 .. N -> Bucket] /\ f[0] = base
      /\ \A i \in 1 .. N : f[i] = step[<<i, f[i - 1]>>]
  BY <1>found DEF Recursive
<1>5. ASSUME NEW i \in 1 .. N
      PROVE  f[i] = IF In(i) THEN Put(f[i - 1], chain[i], ideal) ELSE f[i - 1]
  <2>1. <<i, f[i - 1]>> \in (1 .. N) \X Bucket
    <3>1. i - 1 \in 0 .. N
      BY <1>1
    <3>2. QED
      BY <1>4, <3>1
  <2>2. step[<<i, f[i - 1]>>] = IF In(i) THEN Put(f[i - 1], chain[i], ideal) ELSE f[i - 1]
    BY <2>1, Zenon DEF step
  <2>3. QED
    BY <1>4, <2>2
<1> HIDE DEF In
<1> DEFINE body(g) == [i \in 0 .. N |-> IF i = 0 THEN base
                                ELSE IF In(i) THEN Put(g[i - 1], chain[i], ideal)
                                ELSE g[i - 1]]
<1>6. f = body(f)
  <2>1. ASSUME NEW i \in 0 .. N
        PROVE  f[i] = IF i = 0 THEN base
                      ELSE IF In(i) THEN Put(f[i - 1], chain[i], ideal) ELSE f[i - 1]
    <3>1. i = 0 \/ i \in 1 .. N
      BY <1>1
    <3>2. 0 \notin 1 .. N
      BY <1>1
    <3>3. QED
      BY <1>4, <1>5, <3>1, <3>2, Zenon
  <2>2. f = [i \in 0 .. N |-> f[i]]
    BY <1>4
  <2>3. QED
    BY <2>1, <2>2, Zenon
<1>7. bkt = body(bkt)
  <2>1. bkt = CHOOSE g : g = body(g)
    OBVIOUS
  <2> HIDE DEF bkt, body
  <2>2. QED
    BY <1>6, <2>1
<1> HIDE DEF bkt
<1>8. bkt[0] = base /\ \A i \in 1 .. N :
        bkt[i] = IF In(i) THEN Put(bkt[i - 1], chain[i], ideal) ELSE bkt[i - 1]
  BY <1>1, <1>7
<1>9. bkt \in [0 .. N -> Bucket]
  <2> DEFINE S == {k \in Nat : k <= N => bkt[k] \in Bucket}
  <2>1. 0 \in S
    BY <1>2, <1>8
  <2>2. ASSUME NEW k \in Nat, k \in S PROVE k + 1 \in S
    <3>1. ASSUME k + 1 <= N PROVE bkt[k + 1] \in Bucket
      <4>1. bkt[k] \in Bucket /\ k + 1 \in 1 .. N /\ (k + 1) - 1 = k
        BY <1>1, <2>2, <3>1
      <4>2. Put(bkt[k], chain[k + 1], ideal) \in Bucket
        BY <1>1, <4>1, PutTyped
      <4>3. QED
        BY <1>8, <4>1, <4>2
    <3>2. QED
      BY <3>1
  <2> HIDE DEF S
  <2>3. Nat \subseteq S
    BY <2>1, <2>2, Induction
  <2>4. \A i \in 0 .. N : bkt[i] \in Bucket
    BY <1>1, <2>3 DEF S
  <2>5. QED
    BY <1>7, <2>4
<1>10. Moved(chain, key, n, b, ideal) = bkt[N]
  BY Zenon DEF Moved, bkt, N, base, In
<1>11. QED
  BY <1>8, <1>9, <1>10, Zenon DEF Walked, base, In, N

\* What a bucket has got after i entries of the chain.
Got(chain, key, n, b, ideal, bkt, i) ==
  /\ IsInjective(bkt[i].chain)
  /\ Range(bkt[i].chain) = {chain[k] : k \in {j \in 1 .. i : HASH_TO_BKT(key[chain[j]], n) = b}}
  /\ ideal > 0 => Len(bkt[i].chain) <= (bkt[i].expand_mult + 1) * ideal

LEMMA WalkStep ==
  ASSUME NEW chain \in Seq(Entries), IsInjective(chain), NEW key, NEW n, NEW b,
         NEW ideal \in Nat, NEW bkt, Walked(chain, key, n, b, ideal, bkt),
         NEW i \in 0 .. Len(chain) - 1, Got(chain, key, n, b, ideal, bkt, i)
  PROVE  Got(chain, key, n, b, ideal, bkt, i + 1)
<1> DEFINE In(j) == HASH_TO_BKT(key[chain[j]], n) = b
           Gets(l) == {chain[k] : k \in {j \in 1 .. l : In(j)}}
           old == bkt[i]
           e == chain[i + 1]
<1>1. /\ DOMAIN chain = 1 .. Len(chain) /\ Len(chain) \in Nat
      /\ i + 1 \in 1 .. Len(chain) /\ i \in 0 .. Len(chain) /\ (i + 1) - 1 = i
  BY LenProperties
<1>2. e \in Entries
  BY <1>1, ElementOfSeq
<1>3. old \in Bucket /\ bkt[i + 1] = IF In(i + 1) THEN Put(old, e, ideal) ELSE old
  BY <1>1 DEF Walked
<1>4. /\ IsInjective(old.chain) /\ Range(old.chain) = Gets(i)
      /\ ideal > 0 => Len(old.chain) <= (old.expand_mult + 1) * ideal
  BY DEF Got
<1> HIDE DEF In, e, old
<1>5. Gets(i + 1) = IF In(i + 1) THEN Gets(i) \cup {e} ELSE Gets(i)
  <2>1. 1 .. i + 1 = (1 .. i) \cup {i + 1}
    BY <1>1
  <2>2. {j \in 1 .. i + 1 : In(j)}
          = {j \in 1 .. i : In(j)} \cup (IF In(i + 1) THEN {i + 1} ELSE {})
    BY <2>1
  <2>3. QED
    BY <2>2 DEF e
<1>6. e \notin Gets(i)
  <2>1. \A k \in 1 .. i : k \in DOMAIN chain /\ k # i + 1
    BY <1>1
  <2>2. \A k \in 1 .. i : chain[k] # e
    BY <1>1, <2>1 DEF IsInjective, e
  <2>3. QED
    BY <2>2
<1> HIDE DEF Gets
<1>7. CASE ~In(i + 1)
  BY <1>3, <1>4, <1>5, <1>7 DEF Got, Gets, In
<1>8. CASE In(i + 1)
  <2> DEFINE new == Put(old, e, ideal)
  <2>1. old.chain \in Seq(Entries)
    BY <1>3 DEF Bucket
  <2>2. new.chain = <<e>> \o old.chain
    BY <1>2, <1>3, PutTyped
  <2>3. IsInjective(<<e>> \o old.chain) /\ Range(<<e>> \o old.chain) = Gets(i) \cup {e}
    BY <1>2, <1>4, <1>6, <2>1, Prepended
  <2>4. ideal > 0 => Len(new.chain) <= (new.expand_mult + 1) * ideal
    BY <1>2, <1>3, <1>4, PutBounded
  <2>5. bkt[i + 1] = new /\ Gets(i + 1) = Gets(i) \cup {e}
    BY <1>3, <1>5, <1>8
  <2> HIDE DEF new
  <2>6. QED
    BY <2>2, <2>3, <2>4, <2>5, Zenon DEF Got, Gets, In
<1>9. QED
  BY <1>7, <1>8

\* A bucket of the doubled table gets the entries of the chain that belong there.
LEMMA MovedIs ==
  ASSUME NEW chain \in Seq(Entries), IsInjective(chain), NEW key, NEW n, NEW b,
         NEW ideal \in Nat
  PROVE  LET bkt == Moved(chain, key, n, b, ideal) IN
         /\ bkt \in Bucket /\ IsInjective(bkt.chain)
         /\ Range(bkt.chain) = {e \in Range(chain) : HASH_TO_BKT(key[e], n) = b}
         /\ ideal > 0 => Len(bkt.chain) <= (bkt.expand_mult + 1) * ideal
<1>1. PICK bkt : Walked(chain, key, n, b, ideal, bkt)
  BY WalkedIs
<1>2. Len(chain) \in Nat /\ DOMAIN chain = 1 .. Len(chain)
  BY LenProperties
<1>3. /\ bkt[0] = [chain |-> <<>>, expand_mult |-> 0] /\ bkt[Len(chain)] \in Bucket
      /\ Moved(chain, key, n, b, ideal) = bkt[Len(chain)]
  BY <1>1, <1>2 DEF Walked
<1> DEFINE P(i) == Got(chain, key, n, b, ideal, bkt, i)
           S == {i \in Nat : i <= Len(chain) => P(i)}
<1>4. P(0)
  <2>1. bkt[0].chain = <<>> /\ bkt[0].expand_mult = 0
    BY <1>3
  <2>2. IsInjective(<<>>) /\ Range(<<>>) = {}
    BY DEF IsInjective, Range
  <2>3. {j \in 1 .. 0 : HASH_TO_BKT(key[chain[j]], n) = b} = {}
    OBVIOUS
  <2>4. Len(<<>>) <= (0 + 1) * ideal
    OBVIOUS
  <2>5. QED
    BY <2>1, <2>2, <2>3, <2>4 DEF Got
<1>5. ASSUME NEW i \in Nat, i \in S PROVE i + 1 \in S
  <2>1. ASSUME i + 1 <= Len(chain) PROVE P(i + 1)
    <3>1. i \in 0 .. Len(chain) - 1 /\ P(i)
      BY <1>2, <1>5, <2>1
    <3>2. QED
      BY <1>1, <3>1, WalkStep
  <2> HIDE DEF P
  <2>2. QED
    BY <2>1
<1>6. 0 \in S
  BY <1>4
<1> HIDE DEF S
<1>7. Nat \subseteq S
  BY <1>5, <1>6, Induction
<1>8. P(Len(chain))
  BY <1>2, <1>7 DEF S
<1>9. {chain[k] : k \in {j \in 1 .. Len(chain) : HASH_TO_BKT(key[chain[j]], n) = b}}
        = {e \in Range(chain) : HASH_TO_BKT(key[e], n) = b}
  BY <1>2 DEF Range
<1>10. QED
  BY <1>3, <1>8, <1>9 DEF Got

-----------------------------------------------------------------------------
(* The table: the parts of Consistent and ChainsBounded, of any table t    *)
(* whose entries have the keys that key gives.                             *)

Shaped(t) ==
  t = [list |-> t.list, num_buckets |-> t.num_buckets, chain |-> t.chain,
       expand_mult |-> t.expand_mult, ideal_chain_maxlen |-> t.ideal_chain_maxlen,
       ineff_expands |-> t.ineff_expands, noexpand |-> t.noexpand]

BucketsOf(t) == 0 .. t.num_buckets - 1

TableTyped(t) ==
  /\ Shaped(t)
  /\ t.list \in Seq(Entries) /\ IsInjective(t.list)
  /\ t.num_buckets \in Nat \ {0}
  /\ t.chain \in [BucketsOf(t) -> Seq(Entries)]
  /\ t.expand_mult \in [BucketsOf(t) -> Nat]
  /\ t.ideal_chain_maxlen \in Nat
  /\ t.ineff_expands \in 0 .. 2
  /\ t.noexpand \in BOOLEAN /\ (t.noexpand <=> t.ineff_expands > 1)

Chained(t, key) ==
  /\ \A e \in Range(t.list) : key[e] \in Prefixes
  /\ \A b \in BucketsOf(t) :
       /\ IsInjective(t.chain[b])
       /\ Range(t.chain[b]) = {e \in Range(t.list) : HASH_TO_BKT(key[e], t.num_buckets) = b}

Limit(t) == Max({HASH_BKT_CAPACITY_THRESH, t.ideal_chain_maxlen})

Bounded(t) ==
  ~t.noexpand => \A b \in BucketsOf(t) : Len(t.chain[b]) <= (t.expand_mult[b] + 1) * Limit(t)

LEMMA BucketOf ==
  ASSUME NEW p \in Prefixes, NEW n \in Nat \ {0}
  PROVE  /\ HASH_FUNCTION[p] \in Nat /\ HASH_TO_BKT(p, n) \in 0 .. n - 1
         /\ HASH_TO_BKT(p, 2 * n) % n = HASH_TO_BKT(p, n)
<1>1. HASH_FUNCTION[p] \in Nat
  BY VethTableAssumption
<1>2. QED
  BY <1>1, Division, ModMod DEF HASH_TO_BKT

LEMMA NewTable ==
  ASSUME NEW key
  PROVE  /\ TableTyped(HASH_MAKE_TABLE) /\ Chained(HASH_MAKE_TABLE, key)
         /\ Bounded(HASH_MAKE_TABLE) /\ HASH_MAKE_TABLE.list = <<>>
<1> DEFINE t == HASH_MAKE_TABLE
           n == HASH_INITIAL_NUM_BUCKETS
<1>1. /\ t.list = <<>> /\ t.num_buckets = n /\ t.ideal_chain_maxlen = 0
      /\ t.ineff_expands = 0 /\ t.noexpand = FALSE
      /\ t.chain = [b \in 0 .. n - 1 |-> <<>>] /\ t.expand_mult = [b \in 0 .. n - 1 |-> 0]
      /\ Shaped(t)
  BY DEF HASH_MAKE_TABLE, Shaped
<1>2. n \in Nat \ {0} /\ HASH_BKT_CAPACITY_THRESH \in Nat
  BY VethTableAssumption
<1> HIDE DEF t, n
<1>3. <<>> \in Seq(Entries) /\ IsInjective(<<>>) /\ Range(<<>>) = {} /\ Len(<<>>) = 0
  BY DEF IsInjective, Range
<1>4. TableTyped(t)
  BY <1>1, <1>2, <1>3 DEF TableTyped, BucketsOf
<1>5. Chained(t, key)
  BY <1>1, <1>3 DEF Chained, BucketsOf
<1>6. Bounded(t)
  <2>1. Limit(t) \in Nat
    BY <1>1, <1>2, MaxOfTwo DEF Limit
  <2>2. (0 + 1) * Limit(t) \in Nat
    BY <2>1
  <2>3. QED
    BY <1>1, <1>3, <2>2 DEF Bounded, BucketsOf
<1>7. QED
  BY <1>1, <1>4, <1>5, <1>6 DEF t

\* The table with another list and another chain in bucket b.
Edited(t, list, b, c) ==
  [list |-> list, num_buckets |-> t.num_buckets, chain |-> [t.chain EXCEPT ![b] = c],
   expand_mult |-> t.expand_mult, ideal_chain_maxlen |-> t.ideal_chain_maxlen,
   ineff_expands |-> t.ineff_expands, noexpand |-> t.noexpand]

LEMMA EditedIs ==
  ASSUME NEW t, TableTyped(t), NEW key, NEW list \in Seq(Entries), IsInjective(list),
         NEW b \in BucketsOf(t), NEW c \in Seq(Entries), IsInjective(c),
         \A e \in Range(list) : key[e] \in Prefixes,
         Range(c) = {e \in Range(list) : HASH_TO_BKT(key[e], t.num_buckets) = b},
         \A a \in BucketsOf(t) \ {b} :
           /\ IsInjective(t.chain[a])
           /\ Range(t.chain[a]) = {e \in Range(list) : HASH_TO_BKT(key[e], t.num_buckets) = a}
  PROVE  TableTyped(Edited(t, list, b, c)) /\ Chained(Edited(t, list, b, c), key)
<1> DEFINE u == Edited(t, list, b, c)
<1>1. /\ u.list = list /\ u.num_buckets = t.num_buckets /\ u.chain = [t.chain EXCEPT ![b] = c]
      /\ u.expand_mult = t.expand_mult /\ u.ideal_chain_maxlen = t.ideal_chain_maxlen
      /\ u.ineff_expands = t.ineff_expands /\ u.noexpand = t.noexpand
  BY DEF Edited
<1>2. Shaped(u)
  BY DEF Shaped, Edited
<1> HIDE DEF u
<1>3. BucketsOf(u) = BucketsOf(t)
  BY <1>1 DEF BucketsOf
<1>4. TableTyped(u)
  BY <1>1, <1>2, <1>3 DEF TableTyped
<1>5. \A a \in BucketsOf(t) : u.chain[a] = IF a = b THEN c ELSE t.chain[a]
  BY <1>1 DEF TableTyped
<1>6. Chained(u, key)
  BY <1>1, <1>3, <1>5 DEF Chained
<1>7. QED
  BY <1>4, <1>6 DEF u

\* Edited as the model writes it.
Excepted(t, list, b, c) == [t EXCEPT !.list = list, !.chain[b] = c]

LEMMA EditedByExcept ==
  ASSUME NEW t, Shaped(t), NEW list, NEW b, NEW c
  PROVE  Excepted(t, list, b, c) = Edited(t, list, b, c)
<1> DEFINE Rec(l, c1) ==
             [list |-> l, num_buckets |-> t.num_buckets, chain |-> c1,
              expand_mult |-> t.expand_mult, ideal_chain_maxlen |-> t.ideal_chain_maxlen,
              ineff_expands |-> t.ineff_expands, noexpand |-> t.noexpand]
           d == [t.chain EXCEPT ![b] = c]
<1>1. t = Rec(t.list, t.chain)
  BY DEF Shaped
<1> HIDE DEF d
<1>2. [Rec(t.list, t.chain) EXCEPT !.list = list] = Rec(list, t.chain)
  OBVIOUS
<1>3. [Rec(list, t.chain) EXCEPT !.chain = d] = Rec(list, d)
  OBVIOUS
<1>4. Rec(list, t.chain).chain = t.chain
  OBVIOUS
<1>5. [t EXCEPT !.list = list, !.chain[b] = c] = [[t EXCEPT !.list = list] EXCEPT !.chain[b] = c]
  BY Zenon
<1> HIDE DEF Rec
<1>6. [Rec(list, t.chain) EXCEPT !.chain[b] = c]
        = [Rec(list, t.chain) EXCEPT !.chain = [Rec(list, t.chain).chain EXCEPT ![b] = c]]
  BY Zenon
<1>7. [t EXCEPT !.list = list, !.chain[b] = c] = Rec(list, d)
  BY <1>1, <1>2, <1>3, <1>4, <1>5, <1>6, Zenon DEF d
<1>8. QED
  BY <1>7, Zenon DEF Rec, Edited, Excepted, d

\* An entry that is new goes to the end of the list and to the front of its chain.
LEMMA Adding ==
  ASSUME NEW t, TableTyped(t), NEW key, Chained(t, key),
         NEW e \in Entries, e \notin Range(t.list), key[e] \in Prefixes,
         NEW b, b = HASH_TO_BKT(key[e], t.num_buckets)
  PROVE  LET u == Edited(t, Append(t.list, e), b, <<e>> \o t.chain[b]) IN
         /\ b \in BucketsOf(t) /\ TableTyped(u) /\ Chained(u, key)
         /\ Len(<<e>> \o t.chain[b]) = Len(t.chain[b]) + 1
<1> DEFINE l == Append(t.list, e)
           c == <<e>> \o t.chain[b]
<1>1. b \in BucketsOf(t)
  BY BucketOf DEF TableTyped, BucketsOf
<1>2. t.chain[b] \in Seq(Entries) /\ IsInjective(t.chain[b])
  BY <1>1 DEF TableTyped, Chained
<1>3. e \notin Range(t.chain[b])
  BY <1>1 DEF Chained
<1>4. /\ c \in Seq(Entries) /\ IsInjective(c) /\ Range(c) = Range(t.chain[b]) \cup {e}
      /\ Len(c) = Len(t.chain[b]) + 1
  BY <1>2, <1>3, Prepended
<1>5. l \in Seq(Entries) /\ IsInjective(l) /\ Range(l) = Range(t.list) \cup {e}
  BY Added DEF TableTyped
<1> HIDE DEF l, c
<1>6. \A d \in Range(l) : key[d] \in Prefixes
  BY <1>5 DEF Chained
<1>7. Range(c) = {d \in Range(l) : HASH_TO_BKT(key[d], t.num_buckets) = b}
  BY <1>1, <1>4, <1>5 DEF Chained
<1>8. \A a \in BucketsOf(t) \ {b} :
        /\ IsInjective(t.chain[a])
        /\ Range(t.chain[a]) = {d \in Range(l) : HASH_TO_BKT(key[d], t.num_buckets) = a}
  BY <1>5 DEF Chained
<1>9. TableTyped(Edited(t, l, b, c)) /\ Chained(Edited(t, l, b, c), key)
  BY <1>1, <1>4, <1>5, <1>6, <1>7, <1>8, EditedIs
<1>10. QED
  BY <1>1, <1>4, <1>9 DEF l, c

\* What HASH_EXPAND_BUCKETS returns.
LEMMA Expanded ==
  ASSUME NEW t, TableTyped(t), ~t.noexpand, NEW key, Chained(t, key), t.list # <<>>
  PROVE  LET u == HASH_EXPAND_BUCKETS(t, key) IN
         TableTyped(u) /\ Chained(u, key) /\ Bounded(u) /\ u.list = t.list
<1> DEFINE n == 2 * t.num_buckets
           items == Len(t.list)
           ideal == (items \div n) + (IF items % n # 0 THEN 1 ELSE 0)
           moved(b) == Moved(t.chain[b % t.num_buckets], key, n, b, ideal)
           bkts == [b \in 0 .. n - 1 |-> moved(b)]
           ineff == IF NonidealItems(bkts, ideal) > items \div 2 THEN t.ineff_expands + 1 ELSE 0
           u == HASH_EXPAND_BUCKETS(t, key)
<1>1. u = [list |-> t.list, num_buckets |-> n,
           chain |-> [b \in 0 .. n - 1 |-> bkts[b].chain],
           expand_mult |-> [b \in 0 .. n - 1 |-> bkts[b].expand_mult],
           ideal_chain_maxlen |-> ideal, ineff_expands |-> ineff, noexpand |-> ineff > 1]
  BY Zenon DEF HASH_EXPAND_BUCKETS
<1>2. /\ t.num_buckets \in Nat \ {0} /\ n \in Nat \ {0}
      /\ t.list \in Seq(Entries) /\ IsInjective(t.list)
  BY DEF TableTyped
<1>3. items \in Nat \ {0}
  BY <1>2, LenProperties, EmptySeq
<1>4. ideal \in Nat \ {0}
  <2> HIDE DEF n, items
  <2>1. QED
    BY <1>2, <1>3, ShareIsPositive
<1>5. ineff \in 0 .. 2
  <2>1. t.ineff_expands \in 0 .. 1
    BY DEF TableTyped
  <2>2. ineff \in {t.ineff_expands + 1, 0}
    OBVIOUS
  <2> HIDE DEF ineff
  <2>3. QED
    BY <2>1, <2>2
<1> HIDE DEF ineff, ideal, items, u, n
<1>6. ASSUME NEW b \in 0 .. n - 1
      PROVE  /\ moved(b) \in Bucket /\ IsInjective(moved(b).chain)
             /\ Range(moved(b).chain) = {e \in Range(t.list) : HASH_TO_BKT(key[e], n) = b}
             /\ Len(moved(b).chain) <= (moved(b).expand_mult + 1) * ideal
  <2> DEFINE a == b % t.num_buckets
  <2>1. a \in BucketsOf(t)
    BY <1>2 DEF BucketsOf
  <2>2. /\ t.chain[a] \in Seq(Entries) /\ IsInjective(t.chain[a])
        /\ Range(t.chain[a]) = {e \in Range(t.list) : HASH_TO_BKT(key[e], t.num_buckets) = a}
    BY <2>1, Zenon DEF TableTyped, Chained
  <2>3. \A e \in Range(t.list) :
          HASH_TO_BKT(key[e], n) = b => HASH_TO_BKT(key[e], t.num_buckets) = a
    BY <1>2, BucketOf, Zenon DEF Chained, n
  <2> HIDE DEF a
  <2>4. ideal \in Nat /\ ideal > 0
    BY <1>4
  <2> DEFINE m == Moved(t.chain[a], key, n, b, ideal)
  <2>5. /\ m \in Bucket /\ IsInjective(m.chain)
        /\ Range(m.chain) = {e \in Range(t.chain[a]) : HASH_TO_BKT(key[e], n) = b}
        /\ ideal > 0 => Len(m.chain) <= (m.expand_mult + 1) * ideal
    BY <2>2, <2>4, MovedIs
  <2>6. {e \in Range(t.chain[a]) : HASH_TO_BKT(key[e], n) = b}
          = {e \in Range(t.list) : HASH_TO_BKT(key[e], n) = b}
    BY <2>2, <2>3
  <2> HIDE DEF m
  <2>7. m \in Bucket /\ IsInjective(m.chain)
        /\ Range(m.chain) = {e \in Range(t.list) : HASH_TO_BKT(key[e], n) = b}
        /\ Len(m.chain) <= (m.expand_mult + 1) * ideal
    BY <2>4, <2>5, <2>6
  <2>8. QED
    BY <2>7 DEF m, a
<1>7. /\ u.list = t.list /\ u.num_buckets = n /\ u.ideal_chain_maxlen = ideal
      /\ u.ineff_expands = ineff /\ u.noexpand = (ineff > 1) /\ Shaped(u)
      /\ u.chain = [b \in 0 .. n - 1 |-> bkts[b].chain]
      /\ u.expand_mult = [b \in 0 .. n - 1 |-> bkts[b].expand_mult]
  BY <1>1, Zenon DEF Shaped
<1>expands. u.noexpand \in BOOLEAN /\ (u.noexpand <=> ineff > 1)
  <2>1. u.noexpand = (ineff > 1)
    BY <1>7, Zenon
  <2>2. (ineff > 1) \in BOOLEAN
    OBVIOUS
  <2>3. QED
    BY <2>1, <2>2, Zenon
<1>8. /\ u.chain = [b \in 0 .. n - 1 |-> moved(b).chain]
      /\ u.expand_mult = [b \in 0 .. n - 1 |-> moved(b).expand_mult]
  BY <1>7, Zenon
<1> HIDE DEF bkts, moved
<1>9. BucketsOf(u) = 0 .. n - 1
  BY <1>7 DEF BucketsOf
<1>10. \A b \in 0 .. n - 1 : moved(b).chain \in Seq(Entries) /\ moved(b).expand_mult \in Nat
  BY <1>6 DEF Bucket
<1>11. TableTyped(u)
  <2>1. u.chain \in [BucketsOf(u) -> Seq(Entries)]
    BY <1>8, <1>9, <1>10
  <2>2. u.expand_mult \in [BucketsOf(u) -> Nat]
    BY <1>8, <1>9, <1>10
  <2>3. ideal \in Nat
    BY <1>4
  <2>4. QED
    BY <1>2, <1>5, <1>7, <1>expands, <2>1, <2>2, <2>3, Zenon DEF TableTyped
<1>12. Chained(u, key)
  BY <1>6, <1>7, <1>8, <1>9 DEF Chained
<1>13. Bounded(u)
  <2>1. Limit(u) \in Nat /\ ideal <= Limit(u)
    BY <1>4, <1>7, VethTableAssumption, MaxOfTwo DEF Limit
  <2>2. ASSUME NEW b \in 0 .. n - 1
        PROVE  Len(moved(b).chain) <= (moved(b).expand_mult + 1) * Limit(u)
    <3>1. /\ Len(moved(b).chain) \in Nat /\ moved(b).expand_mult + 1 \in Nat
          /\ Len(moved(b).chain) <= (moved(b).expand_mult + 1) * ideal
      BY <1>6, <1>10, LenProperties
    <3> DEFINE x == Len(moved(b).chain)
               y == moved(b).expand_mult + 1
    <3> HIDE DEF x, y
    <3>2. x \in Nat /\ y \in Nat /\ x <= y * ideal
      BY <3>1 DEF x, y
    <3>3. y * ideal \in Nat /\ y * Limit(u) \in Nat /\ y * ideal <= y * Limit(u)
      BY <1>4, <2>1, <3>2, Product
    <3>4. x <= y * Limit(u)
      BY <3>2, <3>3
    <3>5. QED
      BY <3>4 DEF x, y
  <2>3. QED
    BY <1>8, <1>9, <2>2 DEF Bounded
<1>14. QED
  BY <1>7, <1>11, <1>12, <1>13 DEF u

LEMMA HashAdd ==
  ASSUME NEW t, TableTyped(t), Bounded(t), NEW key, Chained(t, key),
         NEW e \in Entries, e \notin Range(t.list), key[e] \in Prefixes
  PROVE  LET u == HASH_ADD(t, key, e) IN
         TableTyped(u) /\ Chained(u, key) /\ Bounded(u) /\ u.list = Append(t.list, e)
<1> DEFINE b == HASH_TO_BKT(key[e], t.num_buckets)
           c == <<e>> \o t.chain[b]
           added == Edited(t, Append(t.list, e), b, c)
           full == Len(added.chain[b]) >= (t.expand_mult[b] + 1) * HASH_BKT_CAPACITY_THRESH
           u == HASH_ADD(t, key, e)
<1>1. /\ b \in BucketsOf(t) /\ TableTyped(added) /\ Chained(added, key)
      /\ Len(c) = Len(t.chain[b]) + 1
  BY Adding
<1>2. [t EXCEPT !.list = Append(t.list, e), !.chain[b] = <<e>> \o t.chain[b]] = added
  <2>1. Shaped(t)
    BY DEF TableTyped
  <2>2. Excepted(t, Append(t.list, e), b, c) = added
    BY <2>1, EditedByExcept
  <2>3. QED
    BY <2>2, Zenon DEF Excepted
<1>added. [t EXCEPT !.list = Append(@, e), !.chain[b] = <<e>> \o @] = added
  BY <1>2, Zenon
<1> DEFINE grown(a) == IF Len(a.chain[b]) >= (t.expand_mult[b] + 1) * HASH_BKT_CAPACITY_THRESH /\ ~t.noexpand
                       THEN HASH_EXPAND_BUCKETS(a, key) ELSE a
<1>grown. u = grown([t EXCEPT !.list = Append(@, e), !.chain[b] = <<e>> \o @])
  BY Zenon DEF HASH_ADD
<1>3. u = IF full /\ ~t.noexpand THEN HASH_EXPAND_BUCKETS(added, key) ELSE added
  <2> HIDE DEF added
  <2>1. u = grown(added)
    BY <1>added, <1>grown, Zenon
  <2>2. QED
    BY <2>1, Zenon
<1>4. /\ added.list = Append(t.list, e) /\ added.noexpand = t.noexpand
      /\ added.num_buckets = t.num_buckets /\ added.expand_mult = t.expand_mult
      /\ added.ideal_chain_maxlen = t.ideal_chain_maxlen
      /\ added.chain = [t.chain EXCEPT ![b] = c]
  BY DEF Edited
<1>5. added.list # <<>>
  <2>1. t.list \in Seq(Entries)
    BY DEF TableTyped
  <2>2. Len(added.list) = Len(t.list) + 1 /\ Len(t.list) \in Nat /\ Len(<<>>) = 0
    <3>1. Len(Append(t.list, e)) = Len(t.list) + 1 /\ Len(t.list) \in Nat
      BY <2>1, AppendProperties, LenProperties
    <3>2. Len(<<>>) = 0
      OBVIOUS
    <3> HIDE DEF added
    <3>3. QED
      BY <1>4, <3>1, <3>2, Zenon
  <2> HIDE DEF added
  <2>3. QED
    BY <2>2
<1> HIDE DEF added, u
<1>6. CASE full /\ ~t.noexpand
  <2>1. ~added.noexpand
    BY <1>4, <1>6
  <2>2. u = HASH_EXPAND_BUCKETS(added, key)
    BY <1>3, <1>6
  <2>3. QED
    BY <1>1, <1>4, <1>5, <2>1, <2>2, Expanded DEF u
<1>7. CASE ~(full /\ ~t.noexpand)
  <2>1. u = added
    BY <1>3, <1>7
  <2>2. Bounded(added)
    <3> SUFFICES ASSUME ~t.noexpand, NEW a \in BucketsOf(t)
                 PROVE  Len(added.chain[a]) <= (t.expand_mult[a] + 1) * Limit(t)
      <4>1. Limit(added) = Limit(t) /\ BucketsOf(added) = BucketsOf(t)
        BY <1>4 DEF Limit, BucketsOf
      <4>2. QED
        BY <1>4, <4>1 DEF Bounded
    <3>1. CASE a # b
      <4>1. added.chain[a] = t.chain[a]
        BY <1>4, <3>1 DEF TableTyped
      <4>2. QED
        BY <4>1 DEF Bounded
    <3>2. CASE a = b
      <4> DEFINE x == Len(added.chain[b])
                 y == t.expand_mult[b] + 1
                 T == HASH_BKT_CAPACITY_THRESH
      <4>1. y \in Nat /\ T \in Nat
        BY <1>1, VethTableAssumption DEF TableTyped
      <4>2. Limit(t) \in Nat /\ T <= Limit(t)
        BY VethTableAssumption, MaxOfTwo DEF Limit, TableTyped
      <4>3. ~(x >= y * T) /\ x \in Nat
        <5>1. added.chain[b] \in Seq(Entries)
          BY <1>1, <1>4 DEF TableTyped, BucketsOf
        <5>2. QED
          BY <1>7, <5>1, LenProperties
      <4> HIDE DEF x, y, T
      <4>4. y * T \in Nat /\ y * Limit(t) \in Nat /\ y * T <= y * Limit(t)
        BY <4>1, <4>2, Product
      <4>5. x <= y * Limit(t)
        BY <4>3, <4>4
      <4>6. QED
        BY <3>2, <4>5 DEF x, y
    <3>3. QED
      BY <3>1, <3>2
  <2>3. QED
    BY <1>1, <1>4, <2>1, <2>2 DEF u
<1>8. QED
  BY <1>6, <1>7

LEMMA HashDel ==
  ASSUME NEW t, TableTyped(t), Bounded(t), Chained(t, prefix), NEW e \in Range(t.list),
         NEW key, \A d \in Range(t.list) \ {e} : key[d] = prefix[d]
  PROVE  LET u == HASH_DEL(t, e) IN
         TableTyped(u) /\ Chained(u, key) /\ Bounded(u) /\ u.list = Without(t.list, e)
<1> DEFINE b == HASH_TO_BKT(prefix[e], t.num_buckets)
           l == Without(t.list, e)
           c == Without(t.chain[b], e)
           v == Edited(t, l, b, c)
           u == HASH_DEL(t, e)
<1>1. /\ t.list \in Seq(Entries) /\ IsInjective(t.list) /\ t.num_buckets \in Nat \ {0}
      /\ prefix[e] \in Prefixes
  BY DEF TableTyped, Chained
<1>2. /\ l \in Seq(Entries) /\ IsInjective(l) /\ Range(l) = Range(t.list) \ {e}
      /\ Len(l) = Len(t.list) - 1
  BY <1>1, WithoutOf
<1>3. b \in BucketsOf(t)
  BY <1>1, BucketOf DEF BucketsOf
<1>4. /\ t.chain[b] \in Seq(Entries) /\ IsInjective(t.chain[b]) /\ e \in Range(t.chain[b])
      /\ Range(t.chain[b]) = {d \in Range(t.list) : HASH_TO_BKT(prefix[d], t.num_buckets) = b}
  BY <1>3 DEF TableTyped, Chained
<1>5. /\ c \in Seq(Entries) /\ IsInjective(c) /\ Range(c) = Range(t.chain[b]) \ {e}
      /\ Len(c) = Len(t.chain[b]) - 1
  BY <1>4, WithoutOf
<1>6. CASE t.list = <<e>>
  <2>1. u = HASH_MAKE_TABLE
    BY <1>6 DEF HASH_DEL
  <2>2. Len(l) = 0
    BY <1>2, <1>6
  <2> HIDE DEF l, u
  <2>3. l = <<>>
    BY <1>2, <2>2, EmptySeq
  <2>4. QED
    BY <2>1, <2>3, NewTable DEF u, l
<1>7. CASE t.list # <<e>>
  <2>1. u = v
    <3>1. [t EXCEPT !.list = l, !.chain[b] = c] = v
      <4>1. Shaped(t)
        BY DEF TableTyped
      <4>2. Excepted(t, l, b, c) = v
        BY <4>1, EditedByExcept
      <4>3. QED
        BY <4>2, Zenon DEF Excepted
    <3>2. QED
      BY <1>7, <3>1, Zenon DEF HASH_DEL
  <2>2. /\ v.list = l /\ v.noexpand = t.noexpand /\ v.num_buckets = t.num_buckets
        /\ v.expand_mult = t.expand_mult /\ v.ideal_chain_maxlen = t.ideal_chain_maxlen
        /\ v.chain = [t.chain EXCEPT ![b] = c]
    BY DEF Edited
  <2> HIDE DEF l, c
  <2>3. \A d \in Range(l) : key[d] = prefix[d] /\ key[d] \in Prefixes
    BY <1>2 DEF Chained
  <2>4. Range(c) = {d \in Range(l) : HASH_TO_BKT(key[d], t.num_buckets) = b}
    BY <1>2, <1>4, <1>5, <2>3
  <2>5. ASSUME NEW a \in BucketsOf(t) \ {b}
        PROVE  /\ IsInjective(t.chain[a])
               /\ Range(t.chain[a]) = {d \in Range(l) : HASH_TO_BKT(key[d], t.num_buckets) = a}
    <3>1. /\ IsInjective(t.chain[a])
          /\ Range(t.chain[a]) = {d \in Range(t.list) : HASH_TO_BKT(prefix[d], t.num_buckets) = a}
      BY DEF Chained
    <3>2. HASH_TO_BKT(prefix[e], t.num_buckets) # a
      OBVIOUS
    <3> HIDE DEF b
    <3>3. QED
      BY <1>2, <2>3, <3>1, <3>2
  <2>6. TableTyped(v) /\ Chained(v, key)
    BY <1>2, <1>3, <1>5, <2>3, <2>4, <2>5, EditedIs
  <2> HIDE DEF v
  <2>7. Bounded(v)
    <3> SUFFICES ASSUME ~t.noexpand, NEW a \in BucketsOf(t)
                 PROVE  Len(v.chain[a]) <= (t.expand_mult[a] + 1) * Limit(t)
      <4>1. Limit(v) = Limit(t) /\ BucketsOf(v) = BucketsOf(t)
        BY <2>2 DEF Limit, BucketsOf
      <4>2. QED
        BY <2>2, <4>1 DEF Bounded
    <3>1. Len(t.chain[a]) <= (t.expand_mult[a] + 1) * Limit(t)
      BY DEF Bounded
    <3>2. v.chain[a] = IF a = b THEN c ELSE t.chain[a]
      BY <2>2 DEF TableTyped
    <3> DEFINE x == (t.expand_mult[a] + 1) * Limit(t)
    <3>3. x \in Int
      <4>1. Limit(t) \in Nat
        BY VethTableAssumption, MaxOfTwo DEF Limit, TableTyped
      <4>2. t.expand_mult[a] \in Nat
        BY DEF TableTyped
      <4>3. QED
        BY <4>1, <4>2
    <3> HIDE DEF x
    <3>4. Len(t.chain[a]) \in Nat
      BY LenProperties DEF TableTyped
    <3>5. Len(v.chain[a]) \in Int /\ Len(v.chain[a]) <= Len(t.chain[a])
      BY <1>5, <3>2, <3>4
    <3>6. Len(v.chain[a]) <= x
      BY <3>1, <3>3, <3>4, <3>5 DEF x
    <3>7. QED
      BY <3>6 DEF x
  <2>8. QED
    BY <2>1, <2>2, <2>6, <2>7 DEF l, u
<1>8. QED
  BY <1>6, <1>7

-----------------------------------------------------------------------------
(* The calls keep the table.                                               *)

\* The inductive invariant.
IInv ==
  /\ TableTyped(veths) /\ Chained(veths, prefix) /\ Bounded(veths)
  /\ prefix \in [Entries -> Prefixes \cup {NULL}]
  /\ mode \in {"serve", "unload", "exited"}
  /\ {current, tmp} \subseteq Entries \cup {NULL}

LEMMA NullIsNoEntry == NULL \notin Entries /\ NULL \notin Prefixes
  BY VethTableAssumption

LEMMA LiveEntries == ASSUME IInv PROVE Live \subseteq Entries
<1>1. veths.list \in Seq(Entries)
  BY DEF IInv, TableTyped
<1>2. QED
  BY <1>1, RangeOfSeq DEF Live

\* HASH_FIND returns an entry with the key if there is one.
LEMMA HashFind ==
  ASSUME IInv, NEW p \in Prefixes
  PROVE  LET e == HASH_FIND(veths, p) IN
         \/ e = NULL /\ \A d \in Live : prefix[d] # p
         \/ e # NULL /\ e \in Live /\ prefix[e] = p
<1> DEFINE b == HASH_TO_BKT(p, veths.num_buckets)
           chain == veths.chain[b]
           found == {i \in DOMAIN chain : prefix[chain[i]] = p}
           e == HASH_FIND(veths, p)
<1>1. b \in BucketsOf(veths)
  BY BucketOf DEF IInv, TableTyped, BucketsOf
<1>2. /\ chain \in Seq(Entries)
      /\ Range(chain) = {d \in Live : HASH_TO_BKT(prefix[d], veths.num_buckets) = b}
  BY <1>1 DEF IInv, TableTyped, Chained, Live
<1>3. e = IF found = {} THEN NULL ELSE chain[Min(found)]
  BY Zenon DEF HASH_FIND
<1>4. DOMAIN chain = 1 .. Len(chain) /\ Len(chain) \in Nat
  BY <1>2, LenProperties
<1>5. CASE found = {}
  <2>1. ASSUME NEW d \in Live, prefix[d] = p PROVE FALSE
    <3>1. d \in Range(chain)
      BY <1>2, <2>1
    <3>2. QED
      BY <1>5, <2>1, <3>1 DEF Range
  <2>2. QED
    BY <1>3, <1>5, <2>1
<1>6. CASE found # {}
  <2>1. found \subseteq Nat
    BY <1>4
  <2> HIDE DEF found, chain
  <2>2. \E m \in found : \A n \in found : m <= n
    BY <1>6, <2>1, Least
  <2>3. Min(found) \in found
    BY <2>2 DEF Min
  <2>4. e = chain[Min(found)]
    BY <1>3, <1>6
  <2>5. e \in Range(chain) /\ prefix[e] = p
    BY <2>3, <2>4 DEF found, Range
  <2>6. e \in Live
    BY <1>2, <2>5
  <2>7. e # NULL
    BY <2>6, LiveEntries, NullIsNoEntry
  <2>8. QED
    BY <2>5, <2>6, <2>7
<1>7. QED
  BY <1>5, <1>6

\* What HASH_ITER goes on to.
LEMMA SuccessorOf ==
  ASSUME NEW t, TableTyped(t), NEW e \in Range(t.list)
  PROVE  /\ Successor(t, e) = IF Position(t.list, e) = Len(t.list) THEN NULL
                              ELSE t.list[Position(t.list, e) + 1]
         /\ Successor(t, e) \in Entries \cup {NULL}
<1> DEFINE i == Position(t.list, e)
<1>1. t.list \in Seq(Entries) /\ IsInjective(t.list)
  BY DEF TableTyped
<1>2. i \in 1 .. Len(t.list) /\ Len(t.list) \in Nat
  BY <1>1, PositionOf, LenProperties
<1>3. Successor(t, e) = IF i = Len(t.list) THEN NULL ELSE t.list[i + 1]
  BY Zenon DEF Successor
<1> HIDE DEF i
<1>4. i # Len(t.list) => t.list[i + 1] \in Entries
  BY <1>1, <1>2, ElementOfSeq
<1>5. QED
  BY <1>3, <1>4 DEF i

LEMMA InitIInv == Init => IInv
<1> SUFFICES ASSUME Init PROVE IInv
  OBVIOUS
<1>1. TableTyped(veths) /\ Chained(veths, prefix) /\ Bounded(veths)
  BY NewTable DEF Init
<1>2. QED
  BY <1>1 DEF Init, IInv

LEMMA AddEntry ==
  ASSUME IInv, NEW p \in Prefixes, NEW e \in Entries \ Live,
         prefix' = [prefix EXCEPT ![e] = Cut[p]], veths' = HASH_ADD(veths, prefix', e)
  PROVE  /\ TableTyped(veths') /\ Chained(veths', prefix') /\ Bounded(veths')
         /\ prefix' \in [Entries -> Prefixes \cup {NULL}]
         /\ veths'.list = Append(veths.list, e)
<1>1. Cut[p] \in Prefixes
  BY VethTableAssumption
<1>2. prefix' \in [Entries -> Prefixes \cup {NULL}] /\ prefix'[e] = Cut[p]
  BY <1>1 DEF IInv
<1>3. \A d \in Range(veths.list) : prefix'[d] = prefix[d]
  BY LiveEntries DEF IInv, Live
<1>4. TableTyped(veths) /\ Bounded(veths) /\ Chained(veths, prefix')
  <2>1. TableTyped(veths) /\ Bounded(veths) /\ Chained(veths, prefix)
    BY DEF IInv
  <2>2. QED
    BY <1>3, <2>1 DEF Chained
<1>5. e \in Entries /\ e \notin Range(veths.list) /\ prefix'[e] \in Prefixes
  BY <1>1, <1>2 DEF Live
<1> DEFINE key == prefix'
           u == HASH_ADD(veths, key, e)
<1> HIDE DEF key
<1>6. TableTyped(u) /\ Chained(u, key) /\ Bounded(u) /\ u.list = Append(veths.list, e)
  BY <1>4, <1>5, HashAdd DEF key
<1>7. QED
  BY <1>2, <1>6 DEF key

LEMMA RemoveEntry ==
  ASSUME IInv, NEW p \in Prefixes, RemoveFound(p)
  PROVE  /\ TableTyped(veths') /\ Chained(veths', prefix') /\ Bounded(veths')
         /\ prefix' \in [Entries -> Prefixes \cup {NULL}]
         /\ \/ /\ \A d \in Live : prefix[d] # p
               /\ UNCHANGED <<veths, prefix>> /\ Return("remove", p, -1)
            \/ \E e \in Live :
                 /\ prefix[e] = p /\ veths'.list = Without(veths.list, e)
                 /\ prefix' = [prefix EXCEPT ![e] = NULL] /\ Return("remove", p, 0)
<1> DEFINE e == HASH_FIND(veths, p)
<1>1. \/ e = NULL /\ \A d \in Live : prefix[d] # p
      \/ e # NULL /\ e \in Live /\ prefix[e] = p
  BY HashFind
<1>2. CASE e = NULL
  <2>1. UNCHANGED <<veths, prefix>> /\ Return("remove", p, -1)
    BY <1>2 DEF RemoveFound
  <2>2. QED
    BY <1>1, <1>2, <2>1, NullIsNoEntry DEF IInv
<1>3. CASE e # NULL
  <2>1. /\ veths' = HASH_DEL(veths, e) /\ prefix' = [prefix EXCEPT ![e] = NULL]
        /\ Return("remove", p, 0)
    BY <1>3 DEF RemoveFound
  <2>2. e \in Live /\ prefix[e] = p
    BY <1>1, <1>3
  <2> HIDE DEF e
  <2>3. prefix' \in [Entries -> Prefixes \cup {NULL}]
    BY <2>1 DEF IInv
  <2>4. \A d \in Range(veths.list) \ {e} : prefix'[d] = prefix[d]
    BY <2>1, LiveEntries DEF IInv, Live
  <2> DEFINE key == prefix'
             u == HASH_DEL(veths, e)
  <2> HIDE DEF key
  <2>5. TableTyped(u) /\ Chained(u, key) /\ Bounded(u) /\ u.list = Without(veths.list, e)
    BY <2>2, <2>4, HashDel DEF key, IInv, Live
  <2>6. QED
    BY <2>1, <2>2, <2>3, <2>5 DEF key
<1>4. QED
  BY <1>2, <1>3

LEMMA AddStep == ASSUME IInv, NEW p \in Prefixes, veth_list_add(p) PROVE IInv'
<1>1. UNCHANGED <<mode, current, tmp>>
  BY DEF veth_list_add
<1>2. CASE \E e \in Entries \ Live : /\ prefix' = [prefix EXCEPT ![e] = Cut[p]]
                                     /\ veths' = HASH_ADD(veths, prefix', e)
  BY <1>1, <1>2, AddEntry DEF IInv
<1>3. CASE UNCHANGED <<veths, prefix>>
  BY <1>1, <1>3 DEF IInv
<1>4. QED
  BY <1>2, <1>3 DEF veth_list_add

LEMMA RemoveStep == ASSUME IInv, NEW p \in Prefixes, veth_list_remove(p) PROVE IInv'
<1>1. UNCHANGED <<mode, current, tmp>> /\ RemoveFound(p)
  BY DEF veth_list_remove
<1>2. QED
  BY <1>1, RemoveEntry DEF IInv

LEMMA UnloadStep == ASSUME IInv, Unload PROVE IInv'
<1>1. /\ UNCHANGED <<veths, prefix>> /\ mode' = "unload"
      /\ current' = IF veths.list = <<>> THEN NULL ELSE Head(veths.list)
      /\ tmp' = IF current' = NULL THEN NULL ELSE Successor(veths, current')
  BY DEF Unload
<1>2. TableTyped(veths) /\ veths.list \in Seq(Entries)
  BY DEF IInv, TableTyped
<1>3. veths.list # <<>> => current' \in Entries /\ current' \in Range(veths.list)
  <2>1. ASSUME veths.list # <<>> PROVE 1 \in 1 .. Len(veths.list) /\ Head(veths.list) = veths.list[1]
    BY <1>2, <2>1, EmptySeq, LenProperties
  <2>2. QED
    BY <1>1, <1>2, <2>1, ElementOfSeq DEF Range
<1>4. current' \in Entries \cup {NULL}
  BY <1>1, <1>3
<1>5. tmp' \in Entries \cup {NULL}
  BY <1>1, <1>2, <1>3, SuccessorOf
<1>6. QED
  BY <1>1, <1>4, <1>5 DEF IInv

\* What a step of unload_list removes.
LEMMA CurrentPrefix ==
  ASSUME IInv, current \in Live
  PROVE  prefix[current] \in Prefixes
  BY DEF IInv, Chained, Live

LEMMA UnloadNextStep == ASSUME IInv, UnloadNext PROVE IInv'
<1>1. /\ current \in Live /\ RemoveFound(prefix[current])
      /\ current' = tmp /\ mode' = mode
      /\ tmp' \in IF tmp = NULL THEN {NULL}
                  ELSE IF tmp \in Range(veths'.list) THEN {Successor(veths', tmp)}
                  ELSE Entries \cup {NULL}
  BY DEF UnloadNext
<1>2. /\ TableTyped(veths') /\ Chained(veths', prefix') /\ Bounded(veths')
      /\ prefix' \in [Entries -> Prefixes \cup {NULL}]
  BY <1>1, CurrentPrefix, RemoveEntry
<1>3. tmp' \in Entries \cup {NULL}
  <2> DEFINE t == veths'
  <2>1. tmp \in Range(t.list) => Successor(t, tmp) \in Entries \cup {NULL}
    BY <1>2, SuccessorOf
  <2>2. QED
    BY <1>1, <2>1
<1>4. QED
  BY <1>1, <1>2, <1>3 DEF IInv

LEMMA NextIInv == ASSUME IInv, [Next]_vars PROVE IInv'
<1>1. CASE OutOfMemory
  BY <1>1 DEF OutOfMemory, IInv
<1>2. CASE Unloaded
  BY <1>2 DEF Unloaded, IInv
<1>3. CASE Over \/ UNCHANGED vars
  BY <1>3 DEF Over, vars, IInv
<1>4. QED
  BY <1>1, <1>2, <1>3, AddStep, RemoveStep, UnloadStep, UnloadNextStep DEF Next

LEMMA Inductive == Spec => []IInv
<1>1. Init => IInv
  BY InitIInv
<1>2. IInv /\ [Next]_vars => IInv'
  BY NextIInv
<1>3. QED
  BY <1>1, <1>2, PTL DEF Spec

\* List and chains always hold the same entries, each once and in the bucket of
\* its key: what HASH_ADD, HASH_DEL and HASH_EXPAND_BUCKETS make of the table,
\* for every hash function and however long it gets.
THEOREM TableConsistent == Spec => []Consistent
<1>1. IInv => Consistent
  BY DEF IInv, TableTyped, Chained, BucketsOf, Consistent, TypeOK, Buckets, Live
<1>2. QED
  BY <1>1, Inductive, PTL

\* Until doubling is given up, no chain outgrows what was granted to its bucket.
THEOREM ChainsAreBounded == Spec => []ChainsBounded
<1>1. IInv => ChainsBounded
  BY DEF IInv, Bounded, BucketsOf, ChainsBounded, Buckets, Limit
<1>2. QED
  BY <1>1, Inductive, PTL

-----------------------------------------------------------------------------
(* Prefixes that fit into their entries.  A longer one is cut when it is   *)
(* added but not when it is looked for, and may be added twice.            *)

Short == \A p \in Prefixes : Cut[p] = p

\* No two entries have the same prefix.
Unique == \A d, e \in Live : prefix[d] = prefix[e] => d = e

LEMMA AddKeepsUnique ==
  ASSUME IInv, Unique, Short, NEW p \in Prefixes, veth_list_add(p)
  PROVE  Unique'
<1>1. CASE UNCHANGED <<veths, prefix>>
  BY <1>1 DEF Unique, Live
<1>2. ASSUME HASH_FIND(veths, p) = NULL, NEW e \in Entries \ Live,
             prefix' = [prefix EXCEPT ![e] = Cut[p]], veths' = HASH_ADD(veths, prefix', e)
      PROVE  Unique'
  <2>1. Cut[p] = p /\ \A d \in Live : prefix[d] # p
    BY <1>2, HashFind DEF Short
  <2>2. veths.list \in Seq(Entries) /\ veths'.list = Append(veths.list, e)
    <3>1. veths.list \in Seq(Entries)
      BY DEF IInv, TableTyped
    <3>2. veths'.list = Append(veths.list, e)
      BY <1>2, AddEntry, Zenon
    <3>3. QED
      BY <3>1, <3>2
  <2>3. Live' = Live \cup {e}
    <3>1. IsInjective(veths.list) /\ e \in Entries
      BY DEF IInv, TableTyped
    <3>2. Range(Append(veths.list, e)) = Range(veths.list) \cup {e}
      BY <2>2, <3>1, Added
    <3>3. QED
      BY <2>2, <3>2, Zenon DEF Live
  <2>4. prefix'[e] = p /\ \A d \in Live : prefix'[d] = prefix[d]
    BY <1>2, <2>1, LiveEntries DEF IInv
  <2>5. QED
    BY <2>1, <2>3, <2>4 DEF Unique
<1>3. QED
  BY <1>1, <1>2 DEF veth_list_add

LEMMA RemoveKeepsUnique ==
  ASSUME IInv, Unique, NEW p \in Prefixes, RemoveFound(p)
  PROVE  Unique'
<1>1. CASE UNCHANGED <<veths, prefix>>
  BY <1>1 DEF Unique, Live
<1>2. ASSUME NEW e \in Live, veths'.list = Without(veths.list, e),
             prefix' = [prefix EXCEPT ![e] = NULL]
      PROVE  Unique'
  <2>1. veths.list \in Seq(Entries) /\ IsInjective(veths.list)
    BY DEF IInv, TableTyped
  <2>2. Live' = Live \ {e}
    BY <1>2, <2>1, WithoutOf DEF Live
  <2>3. \A d \in Live' : prefix'[d] = prefix[d]
    BY <1>2, <2>2, LiveEntries DEF IInv
  <2>4. QED
    BY <2>2, <2>3 DEF Unique
<1>3. QED
  BY <1>1, <1>2, RemoveEntry

LEMMA NextUnique == ASSUME IInv, Unique, Short, [Next]_vars PROVE Unique'
<1>1. CASE UNCHANGED <<veths, prefix>>
  BY <1>1 DEF Unique, Live
<1>2. ASSUME NEW p \in Prefixes, veth_list_remove(p) PROVE Unique'
  BY <1>2, RemoveKeepsUnique DEF veth_list_remove
<1>3. CASE UnloadNext
  BY <1>3, CurrentPrefix, RemoveKeepsUnique DEF UnloadNext
<1>4. CASE OutOfMemory \/ Unload \/ Unloaded \/ Over \/ UNCHANGED vars
  BY <1>1, <1>4 DEF OutOfMemory, Unload, Unloaded, Over, vars
<1>5. QED
  BY <1>2, <1>3, <1>4, AddKeepsUnique DEF Next

LEMMA UniqueKeys == ASSUME Short PROVE Spec => [](IInv /\ Unique)
<1>1. Init => IInv /\ Unique
  <2>1. Init => veths.list = <<>>
    BY NewTable DEF Init
  <2>2. Range(<<>>) = {}
    BY DEF Range
  <2>3. Init => Unique
    BY <2>1, <2>2 DEF Unique, Live
  <2>4. QED
    BY <2>3, InitIInv
<1>2. IInv /\ Unique /\ [Next]_vars => (IInv /\ Unique)'
  BY NextIInv, NextUnique
<1>3. QED
  BY <1>1, <1>2, PTL DEF Spec

\* unload_list deletes the entry it is at, the first one, and goes on to the one
\* after it, which is the first of those that are left.
LEMMA UnloadNextKeepsWalk ==
  ASSUME IInv, IInv', Unique, WalkInStep, UnloadNext
  PROVE  WalkInStep'
<1> DEFINE l == veths.list
           m == veths'.list
<1>1. /\ mode = "unload" /\ current \in Live /\ RemoveFound(prefix[current])
      /\ current' = tmp /\ mode' = mode
      /\ tmp' \in IF tmp = NULL THEN {NULL}
                  ELSE IF tmp \in Range(veths'.list) THEN {Successor(veths', tmp)}
                  ELSE Entries \cup {NULL}
  BY DEF UnloadNext
<1>2. l \in Seq(Entries) /\ IsInjective(l) /\ m \in Seq(Entries) /\ TableTyped(veths)
  BY DEF IInv, TableTyped
<1>3. current # NULL /\ l # <<>> /\ current = Head(l) /\ tmp = Successor(veths, current)
  <2>1. current # NULL
    BY <1>1, LiveEntries, NullIsNoEntry
  <2>2. QED
    BY <1>1, <2>1 DEF WalkInStep
<1>4. Len(l) \in Nat \ {0} /\ l[1] = current /\ DOMAIN l = 1 .. Len(l)
  BY <1>2, <1>3, EmptySeq, LenProperties
<1>5. Position(l, current) = 1
  <2>1. 1 \in DOMAIN l /\ current \in Range(l)
    BY <1>1, <1>4 DEF Live
  <2>2. QED
    BY <1>2, <1>4, <2>1, PositionOf
<1>6. m = Without(l, current)
  <2>1. \E e \in Live : prefix[e] = prefix[current] /\ m = Without(l, e)
    BY <1>1, CurrentPrefix, RemoveEntry
  <2>2. QED
    BY <1>1, <2>1 DEF Unique
<1>7. Len(m) = Len(l) - 1 /\ \A k \in 1 .. Len(l) - 1 : m[k] = l[k + 1]
  <2>1. /\ Len(m) = Len(l) - 1
        /\ \A k \in 1 .. Len(l) - 1 : m[k] = IF k < Position(l, current) THEN l[k] ELSE l[k + 1]
    BY <1>1, <1>2, <1>6, WithoutOf DEF Live
  <2>2. QED
    BY <1>5, <2>1
<1>8. tmp = IF Len(l) = 1 THEN NULL ELSE l[2]
  <2>1. Successor(veths, current) = IF Position(l, current) = Len(l) THEN NULL
                                    ELSE l[Position(l, current) + 1]
    <3>1. current \in Range(veths.list)
      BY <1>1 DEF Live
    <3>2. QED
      BY <1>2, <3>1, SuccessorOf, Zenon
  <2>2. tmp = IF 1 = Len(l) THEN NULL ELSE l[1 + 1]
    BY <1>3, <1>5, <2>1, Zenon
  <2>3. QED
    BY <1>4, <2>2
<1> HIDE DEF l, m
<1>9. CASE Len(l) = 1
  <2>1. m = <<>>
    BY <1>2, <1>7, <1>9, EmptySeq
  <2>2. current' = NULL /\ tmp' = NULL
    BY <1>1, <1>8, <1>9
  <2>3. QED
    BY <2>1, <2>2 DEF WalkInStep, m
<1>10. CASE Len(l) # 1
  <2>1. Len(m) \in Nat \ {0} /\ m[1] = l[2] /\ tmp = l[2]
    BY <1>4, <1>7, <1>8, <1>10
  <2>2. m # <<>> /\ Head(m) = tmp
    BY <1>2, <2>1, EmptySeq
  <2>3. tmp \in Range(m) /\ tmp \in Entries
    <3>1. 1 \in 1 .. Len(m) /\ DOMAIN m = 1 .. Len(m)
      BY <1>2, <2>1, LenProperties
    <3>2. QED
      BY <1>2, <2>1, <3>1, ElementOfSeq DEF Range
  <2>4. tmp # NULL
    BY <2>3, NullIsNoEntry
  <2>5. tmp' = Successor(veths', tmp)
    BY <1>1, <2>3, <2>4 DEF m
  <2>6. QED
    BY <1>1, <2>2, <2>4, <2>5 DEF WalkInStep, m
<1>11. QED
  BY <1>9, <1>10

LEMMA NextWalk == ASSUME IInv, IInv', Unique, WalkInStep, [Next]_vars PROVE WalkInStep'
<1>1. ASSUME NEW p \in Prefixes, veth_list_add(p) \/ veth_list_remove(p) PROVE WalkInStep'
  BY <1>1 DEF veth_list_add, veth_list_remove, WalkInStep
<1>2. CASE OutOfMemory
  BY <1>2 DEF OutOfMemory, WalkInStep
<1>3. CASE Unload
  BY <1>3 DEF Unload, WalkInStep
<1>4. CASE Unloaded
  BY <1>4 DEF Unloaded, WalkInStep
<1>5. CASE Over \/ UNCHANGED vars
  BY <1>5 DEF Over, vars, WalkInStep
<1>6. QED
  BY <1>1, <1>2, <1>3, <1>4, <1>5, UnloadNextKeepsWalk DEF Next

\* unload_list never touches an entry that it has freed, and leaves none, when
\* the prefixes fit into their entries.
THEOREM WalkStaysInStep == ASSUME Short PROVE Spec => []WalkInStep
<1>1. Init => WalkInStep
  BY DEF Init, WalkInStep
<1>2. WalkInStep /\ (IInv /\ Unique) /\ (IInv /\ Unique)' /\ [Next]_vars => WalkInStep'
  BY NextWalk
<1>3. QED
  BY <1>1, <1>2, UniqueKeys, PTL DEF Spec

-----------------------------------------------------------------------------
(* The table of prefixes that the daemon is written against.               *)

\* The prefixes of the entries, in the order of the list.
PrefixesOf(list, key) == [i \in DOMAIN list |-> key[list[i]]]

LEMMA PrefixesTyped ==
  ASSUME NEW list \in Seq(Entries), NEW key, \A e \in Range(list) : key[e] \in Prefixes
  PROVE  /\ PrefixesOf(list, key) \in Seq(Prefixes)
         /\ Len(PrefixesOf(list, key)) = Len(list)
         /\ DOMAIN PrefixesOf(list, key) = 1 .. Len(list)
         /\ \A i \in 1 .. Len(list) : PrefixesOf(list, key)[i] = key[list[i]]
         /\ Range(PrefixesOf(list, key)) = {key[e] : e \in Range(list)}
<1> DEFINE n == Len(list)
           s == PrefixesOf(list, key)
<1>1. n \in Nat /\ DOMAIN list = 1 .. n
  BY LenProperties
<1>2. \A i \in 1 .. n : key[list[i]] \in Prefixes
  BY <1>1 DEF Range
<1>3. s = [i \in 1 .. n |-> key[list[i]]]
  BY <1>1 DEF PrefixesOf
<1> HIDE DEF s, n
<1>4. s \in [1 .. n -> Prefixes]
  BY <1>2, <1>3
<1>5. s \in Seq(Prefixes) /\ Len(s) = n
  BY <1>1, <1>4
<1>6. DOMAIN s = 1 .. n /\ \A i \in 1 .. n : s[i] = key[list[i]]
  BY <1>3
<1>7. Range(s) = {key[e] : e \in Range(list)}
  BY <1>1, <1>6 DEF Range
<1>8. QED
  BY <1>5, <1>6, <1>7 DEF s, n

Table == PrefixesOf(veths.list, prefix)

LEMMA TableTypes ==
  ASSUME IInv
  PROVE  /\ Table \in Seq(Prefixes) /\ Len(Table) = Len(veths.list)
         /\ DOMAIN Table = 1 .. Len(veths.list) /\ veths.list \in Seq(Entries)
         /\ \A i \in 1 .. Len(veths.list) : Table[i] = prefix[veths.list[i]]
         /\ Range(Table) = {prefix[e] : e \in Live}
<1>1. veths.list \in Seq(Entries) /\ \A e \in Range(veths.list) : prefix[e] \in Prefixes
  BY DEF IInv, TableTyped, Chained
<1>2. QED
  BY <1>1, PrefixesTyped DEF Table, Live

LEMMA TableTypesPrime ==
  ASSUME IInv'
  PROVE  /\ Table' \in Seq(Prefixes) /\ Len(Table') = Len(veths'.list)
         /\ DOMAIN Table' = 1 .. Len(veths'.list) /\ veths'.list \in Seq(Entries)
         /\ \A i \in 1 .. Len(veths'.list) : Table'[i] = prefix'[veths'.list[i]]
<1> DEFINE l == veths'.list
           k == prefix'
<1>1. l \in Seq(Entries) /\ \A e \in Range(l) : k[e] \in Prefixes
  BY DEF IInv, TableTyped, Chained
<1>2. Table' = PrefixesOf(l, k)
  BY DEF Table, PrefixesOf
<1> HIDE DEF l, k
<1>3. /\ PrefixesOf(l, k) \in Seq(Prefixes) /\ Len(PrefixesOf(l, k)) = Len(l)
      /\ DOMAIN PrefixesOf(l, k) = 1 .. Len(l)
      /\ \A i \in 1 .. Len(l) : PrefixesOf(l, k)[i] = k[l[i]]
  BY <1>1, PrefixesTyped
<1>4. QED
  BY <1>1, <1>2, <1>3 DEF l, k

\* An entry that is added adds its prefix to the end.
LEMMA TableAdds ==
  ASSUME IInv, IInv', NEW p \in Prefixes, NEW e \in Entries \ Live,
         prefix' = [prefix EXCEPT ![e] = p], veths'.list = Append(veths.list, e)
  PROVE  Table' = Append(Table, p)
<1> DEFINE n == Len(veths.list)
<1>1. veths.list \in Seq(Entries) /\ n \in Nat
  BY TableTypes, LenProperties
<1>2. /\ Len(veths'.list) = n + 1 /\ veths'.list[n + 1] = e
      /\ \A i \in 1 .. n : veths'.list[i] = veths.list[i]
  BY <1>1, AppendProperties
<1>3. prefix'[e] = p /\ \A d \in Live : prefix'[d] = prefix[d]
  BY LiveEntries DEF IInv
<1>4. \A i \in 1 .. n : veths.list[i] \in Live
  BY <1>1, LenProperties DEF Live, Range
<1>5. /\ Append(Table, p) \in Seq(Prefixes) /\ Len(Append(Table, p)) = n + 1
      /\ Append(Table, p)[n + 1] = p
      /\ \A i \in 1 .. n : Append(Table, p)[i] = Table[i]
  BY TableTypes, AppendProperties
<1>6. Table' \in Seq(Prefixes) /\ Len(Table') = n + 1
  BY <1>2, TableTypesPrime
<1> DEFINE a == Append(Table, p)
<1>7. ASSUME NEW i \in 1 .. n + 1 PROVE Table'[i] = a[i]
  <2>1. Table'[i] = prefix'[veths'.list[i]]
    BY <1>2, TableTypesPrime
  <2>2. CASE i \in 1 .. n
    <3>1. Table'[i] = prefix[veths.list[i]]
      BY <1>2, <1>3, <1>4, <2>1, <2>2
    <3>2. QED
      BY <1>5, <2>2, <3>1, TableTypes
  <2>3. CASE i = n + 1
    BY <1>2, <1>3, <1>5, <2>1, <2>3
  <2> HIDE DEF n, a
  <2>4. i \in 1 .. n \/ i = n + 1
    BY <1>1
  <2>5. QED
    BY <2>2, <2>3, <2>4
<1> HIDE DEF a, n
<1>8. Table' = a
  BY <1>5, <1>6, <1>7, SeqEqual DEF a
<1>9. QED
  BY <1>8 DEF a

\* An entry that is deleted takes its prefix from its place.
LEMMA TableRemoves ==
  ASSUME IInv, IInv', Unique, NEW e \in Live,
         prefix' = [prefix EXCEPT ![e] = NULL], veths'.list = Without(veths.list, e)
  PROVE  \E n \in DOMAIN Table : Table[n] = prefix[e] /\ Table' = Shortened(Table, n)
<1> DEFINE l == veths.list
           n == Position(l, e)
           s == Shortened(Table, n)
<1>1. l \in Seq(Entries) /\ IsInjective(l) /\ e \in Range(l)
  BY DEF IInv, TableTyped, Live
<1>2. /\ n \in 1 .. Len(l) /\ l[n] = e /\ DOMAIN l = 1 .. Len(l) /\ Len(l) \in Nat
      /\ \A i \in DOMAIN l : l[i] = e => i = n
  BY <1>1, PositionOf, LenProperties
<1>3. /\ Len(veths'.list) = Len(l) - 1
      /\ \A k \in 1 .. Len(l) - 1 : veths'.list[k] = IF k < n THEN l[k] ELSE l[k + 1]
  BY <1>1, WithoutOf
<1>4. Table[n] = prefix[e] /\ n \in DOMAIN Table
  BY <1>2, TableTypes
<1>5. IsInjective(Table)
  <2>1. \A i \in 1 .. Len(l) : l[i] \in Live
    BY <1>2 DEF Live, Range
  <2>2. ASSUME NEW i \in 1 .. Len(l), NEW j \in 1 .. Len(l), Table[i] = Table[j] PROVE i = j
    <3>1. prefix[l[i]] = prefix[l[j]]
      BY <2>2, TableTypes
    <3>2. l[i] = l[j]
      BY <2>1, <3>1 DEF Unique
    <3>3. \A a, b \in DOMAIN l : l[a] = l[b] => a = b
      BY <1>1 DEF IsInjective
    <3>4. QED
      BY <1>2, <3>2, <3>3
  <2>3. DOMAIN Table = 1 .. Len(l)
    BY TableTypes
  <2>4. QED
    BY <2>2, <2>3 DEF IsInjective
<1> HIDE DEF n
<1>6. /\ s \in Seq(Prefixes) /\ Len(s) = Len(l) - 1
      /\ \A k \in 1 .. Len(l) - 1 : s[k] = IF k < n THEN Table[k] ELSE Table[k + 1]
  <2>1. Table \in Seq(Prefixes) /\ Len(Table) = Len(l) /\ n \in 1 .. Len(Table)
    BY <1>2, TableTypes
  <2>2. QED
    BY <1>5, <2>1, Removed
<1>7. Table' \in Seq(Prefixes) /\ Len(Table') = Len(l) - 1
  BY <1>3, TableTypesPrime
<1>8. ASSUME NEW k \in 1 .. Len(l) - 1 PROVE Table'[k] = s[k]
  <2> DEFINE j == IF k < n THEN k ELSE k + 1
  <2>1. j \in 1 .. Len(l) /\ j # n
    BY <1>2
  <2>2. veths'.list[k] = l[j] /\ s[k] = Table[j]
    BY <1>3, <1>6
  <2>3. Table'[k] = prefix'[veths'.list[k]]
    BY <1>3, TableTypesPrime
  <2> HIDE DEF j
  <2>4. l[j] # e /\ l[j] \in Live
    BY <1>2, <2>1 DEF Live, Range
  <2>5. prefix'[l[j]] = prefix[l[j]]
    BY <2>4, LiveEntries DEF IInv
  <2>6. Table[j] = prefix[l[j]]
    BY <2>1, TableTypes
  <2>7. QED
    BY <2>2, <2>3, <2>5, <2>6
<1> HIDE DEF s, l
<1>9. Table' = s
  BY <1>6, <1>7, <1>8, SeqEqual
<1>10. QED
  BY <1>4, <1>9 DEF s

LEMMA PortsAre == Ports!Range([i \in DOMAIN veths.list |-> prefix[veths.list[i]]]) = Range(Table)
  BY DEF Ports!Range, Range, Table, PrefixesOf

LEMMA TableInit == Init => Ports!Init
<1> SUFFICES ASSUME Init PROVE Ports!Init
  OBVIOUS
<1>1. IInv /\ veths.list = <<>>
  BY InitIInv, NewTable DEF Init
<1>2. Table \in Seq(Prefixes) /\ Len(Table) = 0
  BY <1>1, TableTypes
<1>3. Table = <<>>
  BY <1>2, EmptySeq
<1>4. QED
  BY <1>3 DEF Ports!Init, Init, Table, PrefixesOf

LEMMA AddIsAdd ==
  ASSUME IInv, IInv', Short, NEW p \in Prefixes, veth_list_add(p)
  PROVE  Ports!Add(p)
<1> USE DEF Table, PrefixesOf
<1>1. CASE UNCHANGED <<veths, prefix>> /\ Return("add", p, -1)
  BY <1>1 DEF Ports!Add, Return
<1>2. ASSUME HASH_FIND(veths, p) = NULL, NEW e \in Entries \ Live,
             prefix' = [prefix EXCEPT ![e] = Cut[p]], veths' = HASH_ADD(veths, prefix', e),
             Return("add", p, 0)
      PROVE  Ports!Add(p)
  <2>1. Cut[p] = p /\ \A d \in Live : prefix[d] # p
    BY <1>2, HashFind DEF Short
  <2>2. p \notin Range(Table)
    BY <2>1, TableTypes
  <2>3. veths'.list = Append(veths.list, e)
    BY <1>2, AddEntry, Zenon
  <2>4. Table' = Append(Table, p)
    BY <1>2, <2>1, <2>3, TableAdds
  <2>5. QED
    BY <1>2, <2>2, <2>4, PortsAre DEF Ports!Add, Return
<1>3. QED
  BY <1>1, <1>2 DEF veth_list_add

LEMMA RemoveIsRemove ==
  ASSUME IInv, IInv', Unique, NEW p \in Prefixes, RemoveFound(p)
  PROVE  Ports!Remove(p)
<1>1. ASSUME \A d \in Live : prefix[d] # p, UNCHANGED <<veths, prefix>>, Return("remove", p, -1)
      PROVE  Ports!Remove(p)
  <2>1. p \notin Range(Table)
    BY <1>1, TableTypes
  <2>2. QED
    BY <1>1, <2>1, PortsAre DEF Ports!Remove, Return
<1>2. ASSUME NEW e \in Live, prefix[e] = p, veths'.list = Without(veths.list, e),
             prefix' = [prefix EXCEPT ![e] = NULL], Return("remove", p, 0)
      PROVE  Ports!Remove(p)
  <2>1. \E n \in DOMAIN Table : Table[n] = p /\ Table' = Shortened(Table, n)
    BY <1>2, TableRemoves
  <2>2. p \in Range(Table)
    BY <2>1 DEF Range
  <2>3. QED
    BY <1>2, <2>1, <2>2, PortsAre DEF Ports!Remove, Ports!Sq!RemoveAt, Shortened, Return, Table, PrefixesOf
<1>3. QED
  BY <1>1, <1>2, RemoveEntry

LEMMA NextIsPorts ==
  ASSUME IInv, IInv', Unique, Short, [Next]_vars
  PROVE  [Ports!Next]_(<<[i \in DOMAIN veths.list |-> prefix[veths.list[i]]], last>>)
<1>1. ASSUME NEW p \in Prefixes, veth_list_add(p) PROVE Ports!Next
  BY <1>1, AddIsAdd DEF Ports!Next
<1>2. ASSUME NEW p \in Prefixes, veth_list_remove(p) PROVE Ports!Next
  BY <1>2, RemoveIsRemove DEF Ports!Next, veth_list_remove
<1>3. CASE UnloadNext
  BY <1>3, CurrentPrefix, RemoveIsRemove DEF Ports!Next, UnloadNext
<1>4. CASE OutOfMemory \/ Unload \/ Unloaded \/ Over \/ UNCHANGED vars
  BY <1>4 DEF OutOfMemory, Unload, Unloaded, Over, vars
<1>5. QED
  BY <1>1, <1>2, <1>3, <1>4 DEF Next

\* veth_list_add and veth_list_remove on the hash table are the operations of the
\* plain list of prefixes that the daemon is written against, when the prefixes
\* fit into their entries.
THEOREM ImplementsPortTable == ASSUME Short PROVE Spec => IsPortTable
<1>1. Init => Ports!Init
  BY TableInit
<1>2. (IInv /\ Unique) /\ (IInv /\ Unique)' /\ [Next]_vars
        => [Ports!Next]_(<<[i \in DOMAIN veths.list |-> prefix[veths.list[i]]], last>>)
  BY NextIsPorts
<1>3. QED
  BY <1>1, <1>2, UniqueKeys, PTL DEF Spec, IsPortTable, Ports!Spec
=============================================================================
