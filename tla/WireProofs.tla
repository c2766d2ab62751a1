----------------------------- MODULE WireProofs -----------------------------
(* That a reader reads what was written: any number, text, array or message, and whatever
   follows it is left.  The theorems about the modules that use the codecs rest on these. *)
EXTENDS Wire, SequenceTheorems, WellFoundedInduction, TLAPS

\* A reader that has not failed, with these bytes left, flags, fields and value.
Holds(r, rest, flags, m, val) ==
  /\ DOMAIN r = {"ok", "rest", "flags", "m", "val"}
  /\ r.ok = TRUE /\ r.rest = rest /\ r.flags = flags /\ r.m = m /\ r.val = val

(* A reader starts before the first byte, with nothing read. *)
LEMMA ReaderHolds == \A bytes : Holds(Reader(bytes), bytes, 0, <<>>, None)
BY DEF Reader, Holds

\* A reader that fails says so.
LEMMA FailsHolds ==
  ASSUME NEW r, DOMAIN r = {"ok", "rest", "flags", "m", "val"}
  PROVE  DOMAIN Fails(r) = {"ok", "rest", "flags", "m", "val"} /\ Fails(r).ok = FALSE
<1>1. DOMAIN [r EXCEPT !.ok = FALSE] = {"ok", "rest", "flags", "m", "val"}
  BY Zenon
<1>2. "ok" \in DOMAIN r
  OBVIOUS
<1>3. [r EXCEPT !.ok = FALSE].ok = FALSE
  BY <1>2, Zenon
<1> QED
  BY <1>1, <1>3 DEF Fails

\* What an update of a reader's value and bytes leaves.
LEMMA UpdateHolds ==
  ASSUME NEW r, NEW rest, NEW fl, NEW m, NEW v, Holds(r, rest, fl, m, v), NEW x, NEW y
  PROVE  Holds([r EXCEPT !.val = x, !.rest = y], y, fl, m, x)
<1>1. DOMAIN r = {"ok", "rest", "flags", "m", "val"}
  BY DEF Holds
<1>2. DOMAIN [r EXCEPT !.val = x, !.rest = y] = {"ok", "rest", "flags", "m", "val"}
  BY <1>1, Zenon
<1>3. /\ [r EXCEPT !.val = x, !.rest = y].val = x /\ [r EXCEPT !.val = x, !.rest = y].rest = y
      /\ [r EXCEPT !.val = x, !.rest = y].ok = r.ok
      /\ [r EXCEPT !.val = x, !.rest = y].flags = r.flags
      /\ [r EXCEPT !.val = x, !.rest = y].m = r.m
  BY <1>1, Zenon
<1> QED
  BY <1>2, <1>3 DEF Holds

\* A concatenation comes apart where its parts met.
LEMMA HeadOfConcat ==
  ASSUME NEW S, NEW s \in Seq(S), NEW t \in Seq(S)
  PROVE  /\ SubSeq(s \o t, 1, Len(s)) = s /\ Rest(s \o t, Len(s)) = t
         /\ Len(s \o t) = Len(s) + Len(t)
         /\ \A i \in 1..Len(s) : (s \o t)[i] = s[i]
<1>1. /\ s \o t \in Seq(S) /\ Len(s) \in Nat /\ Len(t) \in Nat /\ Len(s \o t) = Len(s) + Len(t)
      /\ \A i \in 1..(Len(s) + Len(t)) : (s \o t)[i] = IF i <= Len(s) THEN s[i] ELSE t[i - Len(s)]
  BY ConcatProperties
<1>2. \A i \in 1..Len(s) : (s \o t)[i] = s[i]
  BY <1>1
<1>3. SubSeq(s \o t, 1, Len(s)) = s
  <2> DEFINE p == SubSeq(s \o t, 1, Len(s))
  <2>1. \A i \in 1..Len(s) : (s \o t)[i] \in S
    BY <1>2, ElementOfSeq
  <2>2. p \in Seq(S) /\ Len(p) = Len(s) /\ \A i \in 1..Len(s) : p[i] = (s \o t)[i]
    <3>1. Len(s) \in Int /\ 1 \in Int /\ Len(s) - 1 + 1 = Len(s) /\ (1 <= Len(s) \/ Len(s) = 0)
      BY <1>1
    <3>2. /\ p \in Seq(S) /\ Len(p) = IF 1 <= Len(s) THEN Len(s) - 1 + 1 ELSE 0
          /\ \A i \in 1..(Len(s) - 1 + 1) : p[i] = (s \o t)[1 + i - 1]
      BY <2>1, <3>1, SubSeqProperties
    <3> QED
      BY <3>1, <3>2
  <2> HIDE DEF p
  <2>3. p = s
    BY <1>2, <2>2, SeqEqual
  <2> QED
    BY <2>3 DEF p
<1>4. Rest(s \o t, Len(s)) = t
  <2> DEFINE l == Len(s)
             k == Len(t)
             z == l + k
             a == l + 1
             p == SubSeq(s \o t, a, z)
  <2>1. \A i \in a..z : (s \o t)[i] = t[i - l] /\ i - l \in 1..k
    BY <1>1
  <2>2. \A i \in a..z : (s \o t)[i] \in S
    BY <2>1, ElementOfSeq
  <2>3. /\ a \in Int /\ z \in Int /\ z - a + 1 = k /\ (a <= z \/ k = 0)
        /\ \A i \in 1..k : a + i - 1 \in a..z /\ a + i - 1 - l = i
    BY <1>1
  <2> HIDE DEF a, z
  <2>4. /\ p \in Seq(S) /\ Len(p) = IF a <= z THEN z - a + 1 ELSE 0
        /\ \A i \in 1..(z - a + 1) : p[i] = (s \o t)[a + i - 1]
    <3> DEFINE q == s \o t
    <3>1. \A i \in a..z : q[i] \in S
      BY <2>2
    <3>2. a \in Int /\ z \in Int
      BY <2>3
    <3> HIDE DEF q
    <3>3. /\ SubSeq(q, a, z) \in Seq(S) /\ Len(SubSeq(q, a, z)) = IF a <= z THEN z - a + 1 ELSE 0
          /\ \A i \in 1..(z - a + 1) : SubSeq(q, a, z)[i] = q[a + i - 1]
      BY <3>1, <3>2, SubSeqProperties
    <3> QED
      BY <3>3 DEF q
  <2> HIDE DEF p
  <2>5. Len(p) = k /\ \A i \in 1..k : p[i] = (s \o t)[a + i - 1]
    BY <1>1, <2>3, <2>4
  <2>6. ASSUME NEW i \in 1..k
        PROVE  p[i] = t[i]
    <3> DEFINE j == a + i - 1
    <3>1. j \in a..z /\ j - l = i /\ p[i] = (s \o t)[j]
      BY <2>3, <2>5
    <3> HIDE DEF j
    <3> QED
      BY <2>1, <3>1
  <2>7. p = t
    BY <2>4, <2>5, <2>6, SeqEqual
  <2> QED
    BY <1>1, <2>7 DEF Rest, a, z, p
<1> QED
  BY <1>1, <1>2, <1>3, <1>4

\* A number's bytes, of which the last is small, make the number again.
LEMMA Digits ==
  ASSUME NEW n \in Nat
  PROVE  /\ n % 256 \in Byte /\ n \div 256 \in Nat
         /\ (n % 256) + 256 * (n \div 256) = n
         /\ n < 256 * 256 => n \div 256 \in Byte
         /\ n < 253 => n \in Byte
BY DEF Byte

(* The highest digit of a number below Width is a byte. *)
LEMMA LongDigits ==
  ASSUME NEW n \in Nat, n < Width
  PROVE  ((n \div 256) \div 256) \div 256 \in Byte
<1> DEFINE q == n \div 256
           p == q \div 256
<1>1. n < 127 * 256 * 256 * 256
  BY DEF Width
<1>2. q \in Nat /\ q < 127 * 256 * 256
  BY <1>1
<1> HIDE DEF q
<1>3. p \in Nat /\ p < 127 * 256
  BY <1>2
<1> HIDE DEF p
<1>4. p \div 256 \in 0..255
  BY <1>3
<1> QED
  BY <1>4 DEF Byte, p, q

(* A number is written in bytes, in one or more. *)
LEMMA UintTyped ==
  ASSUME NEW n \in Nat, n < Width
  PROVE  Uint(n) \in Seq(Byte) /\ Len(Uint(n)) >= 1
<1> DEFINE q == n \div 256
           p == q \div 256
           z == p \div 256
           a == n % 256
           b == q % 256
           c == p % 256
<1>1. 253 \in Byte /\ 254 \in Byte
  BY DEF Byte
<1>2. q \in Nat /\ p \in Nat
  BY Digits
<1>3. a \in Byte /\ b \in Byte /\ c \in Byte
  <2>1. \A k \in Nat : k % 256 \in Byte
    BY Digits
  <2> HIDE DEF p, q
  <2> QED
    BY <1>2, <2>1
<1>4. z \in Byte
  BY LongDigits
<1>5. Uint(n) = IF n < 253 THEN <<n>> ELSE IF n < 256 * 256 THEN <<253, a, q>>
                ELSE <<254, a, b, c, z>>
  BY DEF Uint
<1>6. (n < 253 => n \in Byte) /\ (n < 256 * 256 => q \in Byte)
  BY Digits
<1> HIDE DEF q, p, z, a, b, c
<1>7. CASE n < 253
  BY <1>5, <1>6, <1>7
<1>8. CASE ~ (n < 253) /\ n < 256 * 256
  <2>1. Uint(n) = <<253, a, q>> /\ q \in Byte
    BY <1>5, <1>6, <1>8, Zenon
  <2> QED
    BY <1>1, <1>3, <2>1
<1>9. CASE ~ (n < 253) /\ ~ (n < 256 * 256)
  <2>1. Uint(n) = <<254, a, b, c, z>>
    BY <1>5, <1>9, Zenon
  <2> QED
    BY <1>1, <1>3, <1>4, <2>1
<1> QED
  BY <1>7, <1>8, <1>9

\* A number that was written is read, and what follows it is left.
LEMMA UintRead ==
  ASSUME NEW n \in Nat, n < Width, NEW t \in Seq(Byte),
         NEW r, NEW fl, NEW m, NEW v, Holds(r, Uint(n) \o t, fl, m, v)
  PROVE  Holds(TakeUint(r), t, fl, m, n)
<1> DEFINE u == Uint(n)
           b == u \o t
<1>1. /\ u \in Seq(Byte) /\ Rest(b, Len(u)) = t /\ Len(b) = Len(u) + Len(t) /\ Len(t) \in Nat
      /\ \A i \in 1..Len(u) : b[i] = u[i]
  BY UintTyped, HeadOfConcat
<1>2. r.ok = TRUE /\ r.rest = b
  BY DEF Holds
<1>3. Holds([r EXCEPT !.val = n, !.rest = t], t, fl, m, n)
  BY UpdateHolds, Zenon
<1>4. TakeUint(r) = [r EXCEPT !.val = n, !.rest = t]
  <2>1. CASE n < 253
    <3>1. Len(u) = 1 /\ u[1] = n
      BY <2>1 DEF Uint
    <3>2. b # <<>> /\ b[1] = n /\ Rest(b, 1) = t
      <4> HIDE DEF u, b
      <4> QED
        BY <1>1, <3>1
    <3> HIDE DEF b
    <3> QED
      BY <1>2, <2>1, <3>2 DEF TakeUint
  <2>2. CASE ~ (n < 253) /\ n < 256 * 256
    <3> DEFINE x == n % 256
               q == n \div 256
    <3>1. u = <<253, x, q>> /\ x + 256 * q = n
      BY <2>2, Digits DEF Uint
    <3> HIDE DEF x, q
    <3>2. Len(u) = 3 /\ u[1] = 253 /\ u[2] = x /\ u[3] = q
      BY <3>1
    <3>3. b # <<>> /\ b[1] = 253 /\ b[2] = x /\ b[3] = q /\ Rest(b, 3) = t /\ Len(b) >= 3
      <4> HIDE DEF u, b
      <4> QED
        BY <1>1, <3>2
    <3>4. b[2] + 256 * b[3] = n
      BY <3>1, <3>3
    <3> HIDE DEF b
    <3>5. TakeUint(r) = [r EXCEPT !.val = b[2] + 256 * b[3], !.rest = Rest(b, 3)]
      BY <1>2, <3>3 DEF TakeUint
    <3> QED
      BY <3>3, <3>4, <3>5, Zenon
  <2>3. CASE ~ (n < 253) /\ ~ (n < 256 * 256)
    <3> DEFINE q == n \div 256
               p == q \div 256
               x == n % 256
               y == q % 256
               z == p % 256
               e == p \div 256
    <3>1. u = <<254, x, y, z, e>>
      BY <2>3 DEF Uint
    <3>2. x + 256 * (y + 256 * (z + 256 * e)) = n
      <4>1. \A k \in Nat : k \div 256 \in Nat /\ (k % 256) + 256 * (k \div 256) = k
        BY Digits
      <4>2. q \in Nat /\ x + 256 * q = n
        BY <4>1
      <4> HIDE DEF q, x
      <4>3. p \in Nat /\ y + 256 * p = q
        BY <4>1, <4>2
      <4> HIDE DEF p, y
      <4>4. z + 256 * e = p
        BY <4>1, <4>3
      <4> HIDE DEF z, e
      <4> QED
        BY <4>2, <4>3, <4>4
    <3> HIDE DEF x, y, z, e, p, q
    <3>3. Len(u) = 5 /\ u[1] = 254 /\ u[2] = x /\ u[3] = y /\ u[4] = z /\ u[5] = e
      BY <3>1
    <3>4. /\ b # <<>> /\ b[1] = 254 /\ b[2] = x /\ b[3] = y /\ b[4] = z /\ b[5] = e
          /\ Rest(b, 5) = t /\ Len(b) >= 5
      <4> HIDE DEF u, b
      <4> QED
        BY <1>1, <3>3
    <3> HIDE DEF b
    <3> DEFINE k == b[2] + 256 * (b[3] + 256 * (b[4] + 256 * b[5]))
    <3>5. k = n
      BY <3>2, <3>4
    <3>6. TakeUint(r) = [r EXCEPT !.val = k, !.rest = Rest(b, 5)]
      BY <1>2, <3>4 DEF TakeUint
    <3> HIDE DEF k
    <3> QED
      BY <3>4, <3>5, <3>6, Zenon
  <2> QED
    BY <2>1, <2>2, <2>3
<1> QED
  BY <1>3, <1>4, Zenon

(* A block is a length and bytes. *)
LEMMA BlockTyped ==
  \A b \in Bytes : /\ Block(b) \in Seq(Byte) /\ b \in Seq(Byte)
                   /\ Len(b) \in Nat /\ Len(b) < Width
<1> TAKE b \in Bytes
<1>1. b \in Seq(Byte) /\ Len(b) \in Nat /\ Len(b) < Width /\ b # None
  BY NoneAssumption DEF Bytes
<1> QED
  BY <1>1, UintTyped, ConcatProperties DEF Block

\* A text, or none, takes a byte at least.
LEMMA BlockSize ==
  \A b \in Bytes \cup {None} : Block(b) \in Seq(Byte) /\ Len(Block(b)) >= 1
<1>1. ASSUME NEW b \in Bytes PROVE Block(b) \in Seq(Byte) /\ Len(Block(b)) >= 1
  <2> DEFINE u == Uint(Len(b))
  <2>1. b \in Seq(Byte) /\ Len(b) \in Nat /\ Len(b) < Width /\ b # None /\ Block(b) \in Seq(Byte)
    BY BlockTyped, NoneAssumption
  <2>2. u \in Seq(Byte) /\ Len(u) >= 1
    <3>1. Len(u) >= 1
      BY DEF Uint
    <3> QED
      BY <2>1, <3>1, UintTyped
  <2>3. Block(b) = u \o b
    BY <2>1 DEF Block
  <2> HIDE DEF u
  <2>4. Len(Block(b)) = Len(u) + Len(b) /\ Len(u) \in Nat
    BY <2>1, <2>2, <2>3, ConcatProperties
  <2> QED
    BY <2>1, <2>2, <2>4
<1>2. Block(None) \in Seq(Byte) /\ Len(Block(None)) >= 1
  <2>1. 0 \in Byte
    BY DEF Byte
  <2> QED
    BY <2>1 DEF Block
<1> QED
  BY <1>1, <1>2

\* A text that was written is read, and what follows it is left: no length shifts the next
\* field (encodeWith and tryDecode in p2p.js, the generated codecs).
THEOREM BlockRead ==
  ASSUME NEW b \in Bytes, NEW t \in Seq(Byte),
         NEW r, NEW fl, NEW m, NEW v, Holds(r, Block(b) \o t, fl, m, v)
  PROVE  Holds(TakeBlock(r), t, fl, m, b)
<1>1. b \in Seq(Byte) /\ Len(b) \in Nat /\ Len(b) < Width /\ b # None
  BY BlockTyped, NoneAssumption
<1>2. Uint(Len(b)) \in Seq(Byte) /\ b \o t \in Seq(Byte)
  BY <1>1, UintTyped, ConcatProperties
<1>3. Block(b) \o t = Uint(Len(b)) \o (b \o t)
  <2>1. Block(b) = Uint(Len(b)) \o b
    BY <1>1 DEF Block
  <2> QED
    BY <1>1, <1>2, <2>1, ConcatAssociative
<1> DEFINE u == TakeUint(r)
<1>4. Holds(u, b \o t, fl, m, Len(b))
  <2>1. Holds(r, Uint(Len(b)) \o (b \o t), fl, m, v)
    BY <1>3, Zenon
  <2> QED
    BY <1>1, <1>2, <2>1, UintRead
<1>5. SubSeq(b \o t, 1, Len(b)) = b /\ Rest(b \o t, Len(b)) = t /\ ~ (Len(b \o t) < Len(b))
  <2>1. Len(t) \in Nat /\ Len(b) \in Nat
    BY <1>1
  <2> QED
    BY <1>1, <2>1, HeadOfConcat
<1> HIDE DEF u
<1>6. u.ok = TRUE /\ u.rest = b \o t /\ u.val = Len(b)
  BY <1>4 DEF Holds
<1>7. TakeBlock(r) = [u EXCEPT !.val = b, !.rest = t]
  BY <1>5, <1>6 DEF TakeBlock, u
<1>8. Holds([u EXCEPT !.val = b, !.rest = t], t, fl, m, b)
  BY <1>4, UpdateHolds, Zenon
<1> QED
  BY <1>7, <1>8, Zenon
-----------------------------------------------------------------------------
(* Induction up to n, over the set of the numbers for which a claim holds. *)
LEMMA UpTo ==
  ASSUME NEW n \in Nat, NEW T, T \subseteq 0..n, 0 \in T,
         \A i \in T : i < n => i + 1 \in T
  PROVE  T = 0..n
<1> SUFFICES ASSUME T # 0..n PROVE FALSE
  OBVIOUS
<1> DEFINE U == (0..n) \ T
           R == OpToRel(<, Nat)
<1> HIDE DEF R
<1>1. U \subseteq Nat /\ U # {}
  <2>1. \E x \in 0..n : x \notin T
    BY Zenon
  <2> QED
    BY <2>1
<1>2. \A x, y \in Nat : <<y, x>> \in R <=> y < x
  BY DEF OpToRel, R
<1>3. \E x \in U : \A y \in U : ~ (<<y, x>> \in R)
  <2> HIDE DEF U
  <2> QED
    BY <1>1, NatLessThanWellFounded, WFMin DEF R
<1>4. PICK x \in U : \A y \in U : ~ (<<y, x>> \in R)
  BY <1>3
<1>5. x # 0 /\ x \in 1..n /\ x - 1 \in 0..n
  OBVIOUS
<1>6. x - 1 \in Nat /\ x \in Nat /\ x - 1 < x /\ x - 1 < n /\ (x - 1) + 1 = x
  BY <1>5
<1>7. x - 1 \notin U
  <2> HIDE DEF U, R
  <2> QED
    BY <1>2, <1>4, <1>6
<1>8. x - 1 \in T
  BY <1>5, <1>7
<1> QED
  BY <1>6, <1>8

(* Sequences of sequences, laid end to end. *)
LEMMA Shifted ==
  ASSUME NEW x \in Seq(Byte), NEW y \in Seq(Byte), NEW z \in Seq(Byte), NEW b, b = (x \o y) \o z
  PROVE  b = x \o (y \o z) /\ y \o z \in Seq(Byte) /\ Rest(b, Len(x)) = y \o z
<1>1. b = x \o (y \o z)
  BY ConcatAssociative
<1>2. y \o z \in Seq(Byte)
  BY ConcatProperties
<1>3. Rest(x \o (y \o z), Len(x)) = y \o z
  BY <1>2, HeadOfConcat
<1> QED
  BY <1>1, <1>2, <1>3

\* What is left of them from each on.
LEMMA Flattened ==
  ASSUME NEW ps, Len(ps) \in Nat, \A i \in 1..Len(ps) : ps[i] \in Seq(Byte)
  PROVE  \E C \in [1..(Len(ps) + 1) -> Seq(Byte)] :
           /\ FlattenSeq(ps) = C[1] /\ C[Len(ps) + 1] = <<>>
           /\ \A i \in 1..Len(ps) : C[i] = ps[i] \o C[i + 1]
<1> DEFINE n == Len(ps)
<1>0. n \in Nat /\ \A i \in 1..n : ps[i] \in Seq(Byte)
  OBVIOUS
<1>1. CASE n = 0
  <2> DEFINE C == [i \in 1..1 |-> <<>>]
  <2>1. FlattenSeq(ps) = <<>>
    BY <1>1 DEF FlattenSeq
  <2>2. C \in [1..(n + 1) -> Seq(Byte)] /\ C[1] = <<>> /\ C[n + 1] = <<>> /\ 1..n = {}
    BY <1>1
  <2> HIDE DEF C
  <2> QED
    BY <2>1, <2>2
<1>2. CASE n > 0
  <2> DEFINE Eq(F, k) == /\ F \in [1..k -> Seq(Byte)]
                         /\ \A i \in 1..k : F[i] = IF i = 1 THEN ps[i] ELSE F[i - 1] \o ps[i]
             K == {k \in 0..n : \E F : Eq(F, k)}
             Step(F) == [i \in 1..n |-> IF i = 1 THEN ps[i] ELSE F[i - 1] \o ps[i]]
             F == CHOOSE F : F = Step(F)
  <2> HIDE DEF Eq, K, Step, F
  <2>1. 0 \in K
    <3>1. Eq([i \in 1..0 |-> <<>>], 0)
      BY DEF Eq
    <3> QED
      BY <1>0, <3>1 DEF K
  <2>2. ASSUME NEW k \in K, k < n PROVE k + 1 \in K
    <3>1. PICK G : Eq(G, k)
      BY DEF K
    <3> DEFINE H == [i \in 1..(k + 1) |-> IF i <= k THEN G[i]
                                          ELSE IF k = 0 THEN ps[1] ELSE G[k] \o ps[k + 1]]
    <3>2. k \in Nat /\ k + 1 \in 1..n /\ ps[k + 1] \in Seq(Byte) /\ ps[1] \in Seq(Byte) /\ k \in 0..n
      <4>1. k \in 0..n
        BY DEF K
      <4> QED
        BY <1>0, <2>2, <4>1
    <3>a. G \in [1..k -> Seq(Byte)] /\ \A i \in 1..k : G[i] = IF i = 1 THEN ps[i] ELSE G[i - 1] \o ps[i]
      BY <3>1 DEF Eq
    <3>3. H \in [1..(k + 1) -> Seq(Byte)]
      <4>1. k # 0 => G[k] \o ps[k + 1] \in Seq(Byte)
        BY <3>a, <3>2, ConcatProperties
      <4> QED
        BY <3>a, <3>2, <4>1
    <3>4. ASSUME NEW i \in 1..(k + 1)
          PROVE  H[i] = IF i = 1 THEN ps[i] ELSE H[i - 1] \o ps[i]
      <4>1. CASE i <= k
        <5>1. i \in 1..k /\ H[i] = G[i] /\ (i # 1 => H[i - 1] = G[i - 1])
          BY <3>2, <4>1
        <5> HIDE DEF H
        <5> QED
          BY <3>a, <5>1
      <4>2. CASE i = k + 1
        BY <3>2, <4>2
      <4> QED
        BY <3>2, <4>1, <4>2
    <3>5. Eq(H, k + 1)
      <4> HIDE DEF H
      <4> QED
        BY <3>3, <3>4 DEF Eq
    <3>6. k + 1 \in 0..n
      BY <1>0, <3>2
    <3> HIDE DEF H
    <3> QED
      BY <3>5, <3>6 DEF K
  <2>3. n \in K
    <3>1. K = 0..n
      <4>1. K \subseteq 0..n
        BY DEF K
      <4> QED
        BY <1>0, <2>1, <2>2, <4>1, UpTo
    <3> QED
      BY <1>0, <3>1
  <2>a. PICK G : Eq(G, n)
    BY <2>3 DEF K
  <2>4. G \in [1..n -> Seq(Byte)] /\ \A i \in 1..n : G[i] = IF i = 1 THEN ps[i] ELSE G[i - 1] \o ps[i]
    BY <2>a DEF Eq
  <2>5. G = Step(G)
    BY <2>4 DEF Step
  <2>6. F = Step(F)
    BY <2>5 DEF F
  <2>7. \A i \in 1..n : F[i] = IF i = 1 THEN ps[i] ELSE F[i - 1] \o ps[i]
    BY <2>6 DEF Step
  <2>8. \A i \in 1..n : F[i] = G[i]
    <3> DEFINE T == {i \in 0..n : i = 0 \/ F[i] = G[i]}
    <3>1. ASSUME NEW i \in T, i < n PROVE i + 1 \in T
      <4>0. i \in 0..n
        OBVIOUS
      <4>1. i + 1 \in 1..n /\ (i + 1) - 1 = i /\ i + 1 \in 0..n /\ (i + 1 = 1 <=> i = 0)
        BY <1>0, <3>1, <4>0
      <4>2. F[i + 1] = IF i + 1 = 1 THEN ps[i + 1] ELSE F[(i + 1) - 1] \o ps[i + 1]
        BY <2>7, <4>1, Zenon
      <4>3. G[i + 1] = IF i + 1 = 1 THEN ps[i + 1] ELSE G[(i + 1) - 1] \o ps[i + 1]
        BY <2>4, <4>1, Zenon
      <4> QED
        BY <4>1, <4>2, <4>3
    <3>2. T = 0..n
      <4>1. 0 \in T /\ T \subseteq 0..n
        BY <1>0
      <4> HIDE DEF T
      <4> QED
        BY <1>0, <3>1, <4>1, UpTo
    <3>3. ASSUME NEW i \in 1..n PROVE F[i] = G[i]
      <4>1. i \in 0..n /\ i # 0
        BY <1>0
      <4>2. i \in T
        BY <3>2, <4>1, Zenon
      <4> QED
        BY <4>1, <4>2
    <3> QED
      BY <3>3
  <2>9. FlattenSeq(ps) = G[n]
    <3>1. FlattenSeq(ps) = F[n]
      BY <1>2 DEF FlattenSeq, F, Step
    <3> QED
      BY <1>0, <1>2, <2>8, <3>1
  <2>10. ASSUME NEW i \in 1..n PROVE G[i] \in Seq(Byte)
    BY <2>4
  <2> DEFINE B == G[n]
             From(i) == IF i = 1 THEN B ELSE Rest(B, Len(G[i - 1]))
             Is(i) == B = G[i] \o From(i + 1) /\ From(i + 1) \in Seq(Byte)
  <2>11. B \in Seq(Byte)
    BY <1>0, <1>2, <2>10
  <2>12. From(1) = B /\ \A i \in 1..n : From(i + 1) = Rest(B, Len(G[i]))
    <3>1. ASSUME NEW i \in 1..n PROVE From(i + 1) = Rest(B, Len(G[i]))
      <4>1. i + 1 # 1 /\ (i + 1) - 1 = i
        OBVIOUS
      <4> QED
        BY <4>1
    <3> QED
      BY <3>1
  <2>13. B = G[n]
    OBVIOUS
  <2> HIDE DEF From, B, Is
  <2>14. Is(n)
    <3>1. n \in 1..n /\ B \o <<>> = B /\ <<>> \in Seq(Byte)
      BY <1>0, <1>2, <2>11
    <3>2. Rest(B \o <<>>, Len(B)) = <<>>
      BY <2>11, <3>1, HeadOfConcat
    <3>3. From(n + 1) = <<>>
      BY <2>12, <2>13, <3>1, <3>2, Zenon
    <3> QED
      BY <2>13, <3>1, <3>3, Zenon DEF Is
  <2>15. ASSUME NEW i \in 2..n, Is(i) PROVE Is(i - 1) /\ From(i) = ps[i] \o From(i + 1)
    <3> DEFINE c == From(i + 1)
               p == G[i - 1]
    <3>1. i \in 1..n /\ i - 1 \in 1..n /\ i # 1 /\ (i - 1) + 1 = i
      BY <1>0
    <3>2. p \in Seq(Byte) /\ ps[i] \in Seq(Byte) /\ G[i] = p \o ps[i]
      BY <1>0, <2>4, <2>10, <3>1
    <3>3. B = G[i] \o c /\ c \in Seq(Byte)
      BY <2>15 DEF Is
    <3>4. From(i) = Rest(B, Len(p))
      BY <2>12, <3>1
    <3> HIDE DEF c, p
    <3>5. B = p \o (ps[i] \o c) /\ ps[i] \o c \in Seq(Byte) /\ Rest(B, Len(p)) = ps[i] \o c
      <4> DEFINE q == ps[i]
      <4>1. p \in Seq(Byte) /\ q \in Seq(Byte) /\ c \in Seq(Byte)
        BY <3>2, <3>3
      <4>2. B = (p \o q) \o c
        BY <3>2, <3>3
      <4> HIDE DEF q
      <4>5. B = p \o (q \o c) /\ q \o c \in Seq(Byte) /\ Rest(B, Len(p)) = q \o c
        <5>1. \A b : b = (p \o q) \o c =>
                b = p \o (q \o c) /\ q \o c \in Seq(Byte) /\ Rest(b, Len(p)) = q \o c
          BY <4>1, Shifted
        <5> QED
          BY <4>2, <5>1
      <4> QED
        BY <4>5 DEF q
    <3>7. From(i) = ps[i] \o c /\ From(i) \in Seq(Byte)
      BY <3>4, <3>5
    <3>8. Is(i - 1)
      BY <3>1, <3>5, <3>7 DEF Is, p
    <3> QED
      BY <3>7, <3>8 DEF c
  <2>16. ASSUME NEW i \in 1..n PROVE Is(i)
    <3> DEFINE T == {j \in 0..(n - 1) : Is(n - j)}
    <3>1. 0 \in T /\ n - 1 \in Nat /\ T \subseteq 0..(n - 1)
      BY <1>0, <1>2, <2>14
    <3>2. ASSUME NEW j \in T, j < n - 1 PROVE j + 1 \in T
      <4>1. j \in 0..(n - 1) /\ Is(n - j)
        OBVIOUS
      <4>2. n - j \in 2..n /\ (n - j) - 1 = n - (j + 1) /\ j + 1 \in 0..(n - 1)
        BY <1>0, <3>2, <4>1
      <4>3. Is((n - j) - 1)
        BY <2>15, <4>1, <4>2
      <4> QED
        BY <4>2, <4>3
    <3>3. T = 0..(n - 1)
      <4> HIDE DEF T
      <4> QED
        BY <3>1, <3>2, UpTo
    <3>a. n - i \in 0..(n - 1) /\ n - (n - i) = i
      BY <1>0
    <3>4. n - i \in T /\ n - (n - i) = i
      BY <3>a, <3>3, Zenon
    <3>5. Is(n - (n - i))
      BY <3>4
    <3> QED
      BY <3>4, <3>5
  <2>17. ASSUME NEW i \in 1..n PROVE From(i) = ps[i] \o From(i + 1) /\ From(i + 1) \in Seq(Byte)
    <3>1. Is(i)
      BY <2>16
    <3>2. CASE i = 1
      BY <2>4, <2>12, <3>1, <3>2 DEF Is
    <3>3. CASE i # 1
      <4>1. i \in 2..n
        BY <3>3
      <4> QED
        BY <2>15, <3>1, <4>1 DEF Is
    <3> QED
      BY <3>2, <3>3
  <2> DEFINE C == [i \in 1..(n + 1) |-> From(i)]
  <2>18. C \in [1..(n + 1) -> Seq(Byte)]
    <3>1. ASSUME NEW i \in 1..(n + 1) PROVE From(i) \in Seq(Byte)
      <4>1. CASE i = 1
        BY <2>11, <2>12, <4>1
      <4>2. CASE i # 1
        <5>1. i - 1 \in 1..n /\ (i - 1) + 1 = i
          BY <1>0, <4>2
        <5>2. From((i - 1) + 1) \in Seq(Byte)
          BY <2>17, <5>1
        <5> QED
          BY <5>1, <5>2
      <4> QED
        BY <4>1, <4>2
    <3> QED
      BY <3>1
  <2>19. C[1] = B /\ C[n + 1] = <<>> /\ \A i \in 1..n : C[i] = ps[i] \o C[i + 1]
    <3>1. From(n + 1) = <<>>
      <4>1. B \o <<>> = B /\ <<>> \in Seq(Byte) /\ n \in 1..n
        BY <1>0, <1>2, <2>11
      <4>2. Rest(B \o <<>>, Len(B)) = <<>>
        BY <2>11, <4>1, HeadOfConcat
      <4> QED
        BY <2>12, <2>13, <4>1, <4>2, Zenon
    <3>2. /\ 1 \in 1..(n + 1) /\ n + 1 \in 1..(n + 1)
          /\ \A i \in 1..n : i \in 1..(n + 1) /\ i + 1 \in 1..(n + 1)
      BY <1>0
    <3> QED
      BY <2>12, <2>17, <3>1, <3>2
  <2> HIDE DEF C
  <2> QED
    BY <2>9, <2>13, <2>18, <2>19
<1>3. n = 0 \/ n > 0
  BY <1>0
<1> QED
  BY <1>1, <1>2, <1>3, Zenon

-----------------------------------------------------------------------------
(* Updates of a reader, field by field. *)
LEMMA ValHolds ==
  ASSUME NEW r, NEW rest, NEW fl, NEW m, NEW v, Holds(r, rest, fl, m, v), NEW x
  PROVE  Holds([r EXCEPT !.val = x], rest, fl, m, x)
<1>1. DOMAIN r = {"ok", "rest", "flags", "m", "val"}
  BY DEF Holds
<1>2. DOMAIN [r EXCEPT !.val = x] = {"ok", "rest", "flags", "m", "val"}
  BY <1>1, Zenon
<1>3. /\ [r EXCEPT !.val = x].val = x /\ [r EXCEPT !.val = x].rest = r.rest
      /\ [r EXCEPT !.val = x].ok = r.ok
      /\ [r EXCEPT !.val = x].flags = r.flags
      /\ [r EXCEPT !.val = x].m = r.m
  BY <1>1, Zenon
<1> QED
  BY <1>2, <1>3 DEF Holds

(* Reading the flags changes only the flags. *)
LEMMA FlagsHolds ==
  ASSUME NEW r, NEW rest, NEW fl, NEW m, NEW v, Holds(r, rest, fl, m, v), NEW x
  PROVE  Holds([r EXCEPT !.flags = x], rest, x, m, v)
<1>1. DOMAIN r = {"ok", "rest", "flags", "m", "val"}
  BY DEF Holds
<1>2. DOMAIN [r EXCEPT !.flags = x] = {"ok", "rest", "flags", "m", "val"}
  BY <1>1, Zenon
<1>3. /\ [r EXCEPT !.flags = x].flags = x /\ [r EXCEPT !.flags = x].rest = r.rest
      /\ [r EXCEPT !.flags = x].ok = r.ok
      /\ [r EXCEPT !.flags = x].val = r.val
      /\ [r EXCEPT !.flags = x].m = r.m
  BY <1>1, Zenon
<1> QED
  BY <1>2, <1>3 DEF Holds

(* Setting a field changes only the message. *)
LEMMA FieldsHolds ==
  ASSUME NEW r, NEW rest, NEW fl, NEW m, NEW v, Holds(r, rest, fl, m, v), NEW x
  PROVE  Holds([r EXCEPT !.m = x], rest, fl, x, v)
<1>1. DOMAIN r = {"ok", "rest", "flags", "m", "val"}
  BY DEF Holds
<1>2. DOMAIN [r EXCEPT !.m = x] = {"ok", "rest", "flags", "m", "val"}
  BY <1>1, Zenon
<1>3. /\ [r EXCEPT !.m = x].m = x /\ [r EXCEPT !.m = x].rest = r.rest
      /\ [r EXCEPT !.m = x].ok = r.ok
      /\ [r EXCEPT !.m = x].val = r.val
      /\ [r EXCEPT !.m = x].flags = r.flags
  BY <1>1, Zenon
<1> QED
  BY <1>2, <1>3 DEF Holds

-----------------------------------------------------------------------------
(* Arrays. *)
LEMMA ManyParts ==
  ASSUME NEW x \in Seq(Bytes), Len(x) < Width, NEW t \in Seq(Byte)
  PROVE  \E C \in [1..(Len(x) + 1) -> Seq(Byte)] :
           /\ PutMany(x) \o t = Uint(Len(x)) \o C[1] /\ C[Len(x) + 1] = t
           /\ \A i \in 1..Len(x) : C[i] = Block(x[i]) \o C[i + 1]
           /\ Len(C[1]) >= Len(x)
<1> DEFINE n == Len(x)
           ps == [j \in DOMAIN x |-> Block(x[j])]
<1>1. n \in Nat /\ \A j \in 1..n : Block(x[j]) \in Seq(Byte) /\ Len(Block(x[j])) >= 1
  <2>1. n \in Nat /\ DOMAIN x = 1..n
    OBVIOUS
  <2>2. ASSUME NEW j \in 1..n PROVE Block(x[j]) \in Seq(Byte) /\ Len(Block(x[j])) >= 1
    <3>1. x[j] \in Bytes
      BY ElementOfSeq
    <3> QED
      BY <3>1, BlockSize
  <2> QED
    BY <2>1, <2>2
<1>2. Len(ps) = n /\ (\A j \in 1..n : ps[j] = Block(x[j])) /\ PutMany(x) = Uint(n) \o FlattenSeq(ps)
  BY DEF PutMany
<1> HIDE DEF ps
<1>3. PICK D \in [1..(n + 1) -> Seq(Byte)] :
        /\ FlattenSeq(ps) = D[1] /\ D[n + 1] = <<>>
        /\ \A i \in 1..n : D[i] = Block(x[i]) \o D[i + 1]
  <2>1. Len(ps) \in Nat /\ \A i \in 1..Len(ps) : ps[i] \in Seq(Byte)
    BY <1>1, <1>2
  <2>2. \E C \in [1..(Len(ps) + 1) -> Seq(Byte)] :
           /\ FlattenSeq(ps) = C[1] /\ C[Len(ps) + 1] = <<>>
           /\ \A i \in 1..Len(ps) : C[i] = ps[i] \o C[i + 1]
    BY <2>1, Flattened
  <2> QED
    BY <1>2, <2>2
<1> DEFINE C == [i \in 1..(n + 1) |-> D[i] \o t]
<1> HIDE DEF n
<1>4. ASSUME NEW i \in 1..(n + 1) PROVE D[i] \in Seq(Byte) /\ C[i] \in Seq(Byte) /\ C[i] = D[i] \o t
  <2>1. D[i] \in Seq(Byte)
    BY <1>3
  <2> QED
    BY <2>1, ConcatProperties
<1>5. C \in [1..(n + 1) -> Seq(Byte)]
  BY <1>4
<1> HIDE DEF C
<1>6. ASSUME NEW i \in 1..n PROVE C[i] = Block(x[i]) \o C[i + 1]
  <2> DEFINE c == C[i]
             b == Block(x[i])
             d == D[i + 1]
  <2>1. i \in 1..(n + 1) /\ i + 1 \in 1..(n + 1)
    BY <1>1 DEF n
  <2>2. b \in Seq(Byte) /\ d \in Seq(Byte) /\ D[i] = b \o d /\ c = D[i] \o t /\ C[i + 1] = d \o t
    BY <1>1, <1>3, <1>4, <2>1
  <2> HIDE DEF b, c, d
  <2>3. \A y : y = (b \o d) \o t => y = b \o (d \o t)
    BY <2>2, Shifted
  <2>4. c = b \o (d \o t)
    BY <2>2, <2>3
  <2> QED
    BY <2>2, <2>4 DEF b, c
<1>7. PutMany(x) \o t = Uint(n) \o C[1]
  <2> DEFINE p == PutMany(x) \o t
             u == Uint(n)
             d == D[1]
  <2>1. 1 \in 1..(n + 1) /\ n \in Nat /\ n < Width
    BY <1>1 DEF n
  <2>2. u \in Seq(Byte) /\ d \in Seq(Byte) /\ p = (u \o d) \o t /\ C[1] = d \o t
    BY <1>2, <1>3, <1>4, <2>1, UintTyped
  <2> HIDE DEF p, u, d
  <2>3. \A y : y = (u \o d) \o t => y = u \o (d \o t)
    BY <2>2, Shifted
  <2>4. p = u \o (d \o t)
    BY <2>2, <2>3
  <2> QED
    BY <2>2, <2>4 DEF p, u
<1>8. C[n + 1] = t
  <2>1. n + 1 \in 1..(n + 1)
    BY <1>1 DEF n
  <2> QED
    BY <1>3, <1>4, <2>1, ConcatEmptySeq
<1>9. Len(C[1]) >= n
  <2> DEFINE T == {j \in 0..n : Len(C[n + 1 - j]) >= j}
  <2>0. n \in Nat
    BY <1>1 DEF n
  <2>1. 0 \in T
    BY <1>8, <2>0
  <2>2. ASSUME NEW j \in T, j < n PROVE j + 1 \in T
    <3> DEFINE i == n - j
    <3>1. j \in 0..n /\ Len(C[n + 1 - j]) >= j
      OBVIOUS
    <3>2. /\ i \in 1..n /\ i + 1 \in 1..(n + 1) /\ j + 1 \in 0..n
          /\ n + 1 - j = i + 1 /\ n + 1 - (j + 1) = i
      BY <2>0, <2>2, <3>1
    <3> HIDE DEF i
    <3> DEFINE b == Block(x[i])
               c == C[i + 1]
    <3>3. b \in Seq(Byte) /\ c \in Seq(Byte) /\ C[i] = b \o c /\ Len(b) >= 1 /\ Len(c) >= j
      <4>1. b \in Seq(Byte) /\ Len(b) >= 1
        BY <1>1, <3>2 DEF n
      <4> QED
        BY <1>4, <1>6, <3>1, <3>2, <4>1
    <3> HIDE DEF b, c
    <3>4. Len(C[i]) >= j + 1
      <4>1. Len(C[i]) = Len(b) + Len(c) /\ Len(b) \in Nat /\ Len(c) \in Nat
        BY <3>3, ConcatProperties
      <4> QED
        BY <3>1, <3>3, <4>1
    <3> QED
      BY <3>2, <3>4
  <2>3. T = 0..n
    <3>1. T \subseteq 0..n
      OBVIOUS
    <3> HIDE DEF T
    <3> QED
      BY <2>0, <2>1, <2>2, <3>1, UpTo
  <2>4. n \in T
    <3>1. n \in 0..n
      BY <2>0
    <3> QED
      BY <2>3, <3>1, Zenon
  <2>5. n + 1 - n = 1
    BY <2>0
  <2> QED
    BY <2>4, <2>5
<1> QED
  BY <1>5, <1>6, <1>7, <1>8, <1>9 DEF n

(* An array is written in bytes, in one or more. *)
LEMMA ManyTyped ==
  ASSUME NEW x \in Seq(Bytes), Len(x) < Width
  PROVE  PutMany(x) \in Seq(Byte) /\ Len(PutMany(x)) >= 1
<1> DEFINE ps == [j \in DOMAIN x |-> Block(x[j])]
           u == Uint(Len(x))
<1>1. Len(ps) = Len(x) /\ Len(x) \in Nat /\ DOMAIN ps = 1..Len(x)
  OBVIOUS
<1>2. ASSUME NEW j \in 1..Len(x) PROVE ps[j] \in Seq(Byte)
  <2>1. x[j] \in Bytes
    BY ElementOfSeq
  <2>2. Block(x[j]) \in Seq(Byte)
    BY <2>1, BlockTyped
  <2> QED
    BY <2>2
<1>3. PutMany(x) = u \o FlattenSeq(ps)
  BY DEF PutMany
<1>4. u \in Seq(Byte) /\ Len(u) >= 1
  <2>1. Len(u) >= 1
    BY DEF Uint
  <2> QED
    BY <1>1, <2>1, UintTyped
<1> HIDE DEF ps, u
<1>5. FlattenSeq(ps) \in Seq(Byte)
  <2>1. Len(ps) \in Nat /\ \A j \in 1..Len(ps) : ps[j] \in Seq(Byte)
    BY <1>1, <1>2
  <2>2. PICK C \in [1..(Len(ps) + 1) -> Seq(Byte)] : FlattenSeq(ps) = C[1]
    BY <2>1, Flattened
  <2>3. 1 \in 1..(Len(ps) + 1)
    BY <2>1
  <2> QED
    BY <2>2, <2>3
<1> DEFINE z == FlattenSeq(ps)
<1> HIDE DEF z
<1>6. z \in Seq(Byte) /\ PutMany(x) = u \o z
  BY <1>3, <1>5 DEF z
<1>7. Len(u \o z) = Len(u) + Len(z) /\ u \o z \in Seq(Byte) /\ Len(u) \in Nat /\ Len(z) \in Nat
  BY <1>4, <1>6, ConcatProperties
<1> QED
  BY <1>4, <1>6, <1>7

\* The element of a singleton.
LEMMA TheOne == \A x : The({x}) = x
BY DEF The

\* An array that was written is read, and what follows it is left.
LEMMA ManyRead ==
  ASSUME NEW x \in Seq(Bytes), Len(x) < Width, Len(x) <= MaxArrayLength, NEW t \in Seq(Byte),
         NEW r, NEW fl, NEW m, NEW v, Holds(r, PutMany(x) \o t, fl, m, v)
  PROVE  Holds(TakeMany(r), t, fl, m, x)
<1> DEFINE n == Len(x)
           u == TakeUint(r)
           One(a) == [TakeBlock(a) EXCEPT !.val = Append(a.val, @)]
           Item(a) == The({[TakeBlock(b) EXCEPT !.val = Append(b.val, @)] : b \in {a}})
           First == [u EXCEPT !.val = <<>>]
           Step(A) == [i \in 0..u.val |-> IF i = 0 THEN First ELSE Item(A[i - 1])]
           A == CHOOSE A : A = Step(A)
<1>0. n \in Nat
  OBVIOUS
<1>1. PICK C \in [1..(n + 1) -> Seq(Byte)] :
        /\ PutMany(x) \o t = Uint(n) \o C[1] /\ C[n + 1] = t
        /\ \A i \in 1..n : C[i] = Block(x[i]) \o C[i + 1]
        /\ Len(C[1]) >= n
  BY ManyParts
<1>2. Holds(u, C[1], fl, m, n)
  <2>1. Holds(r, Uint(n) \o C[1], fl, m, v)
    BY <1>1, Zenon
  <2>2. C[1] \in Seq(Byte)
    BY <1>0, <1>1
  <2> QED
    BY <1>0, <2>1, <2>2, UintRead
<1> HIDE DEF u
<1>3. u.ok = TRUE /\ u.rest = C[1] /\ u.val = n
  BY <1>2 DEF Holds
<1>4. \A a : Item(a) = One(a)
  <2>1. \A a : {[TakeBlock(b) EXCEPT !.val = Append(b.val, @)] : b \in {a}} = {One(a)}
    BY Zenon
  <2> QED
    BY <2>1, TheOne, Zenon
<1> HIDE DEF n, One, Item, First, Step, A
<1>5. \E F : F = Step(F)
  <2> DEFINE Upto(F, k) == F = [i \in 0..k |-> IF i = 0 THEN First ELSE Item(F[i - 1])]
             K == {k \in 0..n : \E F : Upto(F, k)}
  <2> HIDE DEF Upto
  <2>1. 0 \in K
    <3>1. Upto([i \in 0..0 |-> First], 0)
      BY DEF Upto
    <3> QED
      BY <1>0, <3>1 DEF n
  <2>2. ASSUME NEW k \in K, k < n PROVE k + 1 \in K
    <3>1. k \in 0..n /\ k + 1 \in 0..n
      BY <1>0, <2>2 DEF n
    <3>2. PICK F : Upto(F, k)
      OBVIOUS
    <3> DEFINE G == [i \in 0..(k + 1) |-> IF i = k + 1 THEN Item(F[k]) ELSE F[i]]
    <3>3. Upto(G, k + 1)
      <4>1. F = [i \in 0..k |-> IF i = 0 THEN First ELSE Item(F[i - 1])]
        BY <3>2 DEF Upto
      <4>2. ASSUME NEW i \in 0..(k + 1) PROVE G[i] = IF i = 0 THEN First ELSE Item(G[i - 1])
        <5>1. CASE i = k + 1
          <6>1. i # 0 /\ i - 1 = k /\ k \in 0..(k + 1) /\ k # k + 1
            BY <3>1, <5>1
          <6>2. G[k] = F[k] /\ G[i] = Item(F[k])
            BY <5>1, <6>1
          <6> QED
            BY <6>1, <6>2
        <5>2. CASE i \in 0..k
          <6>1. i # k + 1 /\ (i # 0 => i - 1 \in 0..(k + 1) /\ i - 1 # k + 1)
            BY <3>1, <5>2
          <6>2. G[i] = F[i] /\ (i # 0 => G[i - 1] = F[i - 1])
            BY <6>1
          <6>3. F[i] = IF i = 0 THEN First ELSE Item(F[i - 1])
            BY <4>1, <5>2
          <6> QED
            BY <6>2, <6>3
        <5> QED
          BY <3>1, <5>1, <5>2
      <4>3. G = [i \in 0..(k + 1) |-> G[i]]
        OBVIOUS
      <4> HIDE DEF G
      <4> QED
        BY <4>2, <4>3 DEF Upto
    <3> QED
      BY <3>1, <3>3
  <2>3. K = 0..n
    <3>1. K \subseteq 0..n
      OBVIOUS
    <3> HIDE DEF K
    <3> QED
      BY <1>0, <2>1, <2>2, <3>1, UpTo DEF n
  <2>4. n \in K
    <3>1. n \in 0..n
      BY <1>0 DEF n
    <3> QED
      BY <2>3, <3>1, Zenon
  <2> QED
    BY <1>3, <2>4 DEF Upto, Step
<1>6. A = Step(A)
  BY <1>5 DEF A
<1>7. A[0] = First /\ \A i \in 1..n : A[i] = One(A[i - 1])
  <2>1. A = [i \in 0..n |-> IF i = 0 THEN First ELSE Item(A[i - 1])]
    BY <1>3, <1>6 DEF Step
  <2>2. 0 \in 0..n /\ \A i \in 1..n : i \in 0..n /\ i # 0
    BY <1>0 DEF n
  <2> QED
    BY <1>4, <2>1, <2>2
<1> DEFINE Beginning(w, i) == w \in Seq(Bytes) /\ Len(w) = i /\ \A j \in 1..i : w[j] = x[j]
           Good(i) == \E w : Beginning(w, i) /\ Holds(A[i], C[i + 1], fl, m, w)
           T == {i \in 0..n : Good(i)}
<1>8. 0 \in T
  <2>1. Holds(First, C[1], fl, m, <<>>)
    BY <1>2, ValHolds DEF First
  <2>2. Beginning(<<>>, 0)
    OBVIOUS
  <2>3. 0 + 1 = 1 /\ 0 \in 0..n
    BY <1>0 DEF n
  <2> HIDE DEF Beginning
  <2> QED
    BY <1>7, <2>1, <2>2, <2>3
<1>9. ASSUME NEW i \in T, i < n PROVE i + 1 \in T
  <2>1. i \in 0..n /\ Good(i)
    OBVIOUS
  <2>2. PICK w : Beginning(w, i) /\ Holds(A[i], C[i + 1], fl, m, w)
    BY <2>1
  <2> DEFINE b == x[i + 1]
             c == C[i + 2]
             a == A[i]
  <2>3. /\ i + 1 \in 1..n /\ i + 2 \in 1..(n + 1) /\ i + 1 \in 0..n
        /\ (i + 1) + 1 = i + 2 /\ (i + 1) - 1 = i
    BY <1>0, <1>9, <2>1 DEF n
  <2>4. b \in Bytes /\ c \in Seq(Byte)
    BY <1>1, <2>3, ElementOfSeq DEF n
  <2>5. Holds(a, Block(b) \o c, fl, m, w)
    <3>1. C[i + 1] = Block(x[i + 1]) \o C[(i + 1) + 1]
      BY <1>1, <2>3
    <3> QED
      BY <2>2, <2>3, <3>1, Zenon
  <2>6. A[i + 1] = One(a)
    BY <1>7, <2>3
  <2> HIDE DEF a, b, c
  <2>7. Holds(TakeBlock(a), c, fl, m, b)
    BY <2>4, <2>5, BlockRead
  <2>8. TakeBlock(a).val = b /\ a.val = w
    BY <2>5, <2>7 DEF Holds
  <2>9. One(a) = [TakeBlock(a) EXCEPT !.val = Append(w, b)]
    BY <2>8, Zenon DEF One
  <2>10. Holds(One(a), c, fl, m, Append(w, b))
    <3>1. Holds([TakeBlock(a) EXCEPT !.val = Append(w, b)], c, fl, m, Append(w, b))
      BY <2>7, ValHolds, Zenon
    <3> QED
      BY <2>9, <3>1, Zenon
  <2>11. Beginning(Append(w, b), i + 1)
    <3>1. w \in Seq(Bytes) /\ Len(w) = i /\ \A j \in 1..i : w[j] = x[j]
      BY <2>2
    <3>2. /\ Append(w, b) \in Seq(Bytes) /\ Len(Append(w, b)) = i + 1 /\ Append(w, b)[i + 1] = b
          /\ \A j \in 1..i : Append(w, b)[j] = w[j]
      BY <2>4, <3>1, AppendProperties
    <3>3. \A j \in 1..(i + 1) : j \in 1..i \/ j = i + 1
      BY <2>1
    <3> QED
      BY <3>1, <3>2, <3>3 DEF b
  <2> HIDE DEF Beginning
  <2>12. Good(i + 1)
    BY <2>3, <2>6, <2>10, <2>11 DEF c
  <2> HIDE DEF Good
  <2> QED
    BY <2>3, <2>12
<1>10. Good(n)
  <2>1. T = 0..n
    <3>1. T \subseteq 0..n
      OBVIOUS
    <3> HIDE DEF T
    <3> QED
      BY <1>0, <1>8, <1>9, <3>1, UpTo DEF n
  <2>2. n \in T
    <3>1. n \in 0..n
      BY <1>0 DEF n
    <3> QED
      BY <2>1, <3>1, Zenon
  <2> QED
    BY <2>2
<1>11. Holds(A[n], t, fl, m, x)
  <2>1. PICK w : Beginning(w, n) /\ Holds(A[n], C[n + 1], fl, m, w)
    BY <1>10
  <2>2. w = x
    BY <2>1, SeqEqual DEF n
  <2> QED
    BY <1>1, <2>1, <2>2
<1>12. TakeMany(r) = A[n]
  <2>1. ~ (n > MaxArrayLength)
    BY <1>0, MaxArrayAssumption DEF n
  <2>2. u.ok = TRUE /\ ~ (u.val > MaxArrayLength)
    BY <1>3, <2>1
  <2>3. TakeMany(r) = A[u.val]
    BY <2>2 DEF TakeMany, A, Step, Item, First, u
  <2> QED
    BY <1>3, <2>3
<1> QED
  BY <1>11, <1>12

\* An array that is too long is refused at its length.
LEMMA ManyRefused ==
  ASSUME NEW x \in Seq(Bytes), Len(x) < Width, Len(x) > MaxArrayLength, NEW t \in Seq(Byte),
         NEW r, NEW fl, NEW m, NEW v, Holds(r, PutMany(x) \o t, fl, m, v)
  PROVE  TakeMany(r) = Fails(r)
<1> DEFINE n == Len(x)
           u == TakeUint(r)
<1>1. PICK C \in [1..(n + 1) -> Seq(Byte)] : PutMany(x) \o t = Uint(n) \o C[1]
  BY ManyParts
<1>2. n \in Nat /\ C[1] \in Seq(Byte) /\ n > MaxArrayLength
  BY MaxArrayAssumption
<1>3. Holds(r, Uint(n) \o C[1], fl, m, v)
  BY <1>1, Zenon
<1>4. Holds(u, C[1], fl, m, n)
  BY <1>2, <1>3, UintRead
<1> HIDE DEF u
<1>5. u.val = n
  BY <1>4 DEF Holds
<1>6. ~ u.ok \/ u.val > MaxArrayLength
  BY <1>2, <1>5
<1> QED
  BY <1>6, Zenon DEF TakeMany, u

-----------------------------------------------------------------------------
(* Flags. *)
Language == {"js", "go"}

\* What the generated codecs have in common: a field's bit is its own, and the flags come
\* before the fields that they are about.
Sound(fs) ==
  /\ Len(fs) \in Nat /\ DOMAIN fs = 1..Len(fs)
  /\ \A i \in 1..Len(fs) :
       /\ fs[i].bit \in {0, 1, 2, 4, 8}
       /\ fs[i].kind \in {"flags", "text", "data", "texts", "chunkType", "stateField"}
       /\ fs[i].bit # 0 => /\ fs[i].kind \in {"text", "data"}
                           /\ \E j \in 1..(i - 1) : fs[j].kind = "flags"
                           /\ \A j \in 1..Len(fs) : fs[j].bit = fs[i].bit => j = i

(* The flags of a message fit in half a byte, so in one. *)
LEMMA FlagsTyped == \A w, fs, msg : FlagsOf(w, fs, msg) \in 0..15
BY DEF FlagsOf

\* The flags that were written have the bit of a field just when the field follows.
LEMMA FlagsTell ==
  ASSUME NEW w, NEW fs, Sound(fs), NEW msg, NEW i \in 1..Len(fs), fs[i].bit # 0
  PROVE  (FlagsOf(w, fs, msg) \div fs[i].bit) % 2 = 0 <=> ~ Present(w, fs[i], msg[fs[i].name])
<1> DEFINE Has(bit) == \E j \in DOMAIN fs : fs[j].bit = bit /\ Present(w, fs[j], msg[fs[j].name])
           On(bit)  == IF Has(bit) THEN bit ELSE 0
           b == fs[i].bit
<1>1. b \in {1, 2, 4, 8} /\ i \in DOMAIN fs /\ \A j \in DOMAIN fs : fs[j].bit = b => j = i
  BY DEF Sound
<1>2. Has(b) <=> Present(w, fs[i], msg[fs[i].name])
  BY <1>1
<1>3. FlagsOf(w, fs, msg) = On(1) + On(2) + On(4) + On(8)
  BY DEF FlagsOf
<1> HIDE DEF Has
<1>4. On(1) \in {0, 1} /\ On(2) \in {0, 2} /\ On(4) \in {0, 4} /\ On(8) \in {0, 8}
  OBVIOUS
<1>5. On(b) = 0 <=> ~ Has(b)
  BY <1>1
<1> HIDE DEF On, b
<1>6. (FlagsOf(w, fs, msg) \div b) % 2 = 0 <=> On(b) = 0
  <2>1. \A p \in {0, 1}, q \in {0, 2}, r \in {0, 4}, s \in {0, 8} :
          /\ ((p + q + r + s) \div 1) % 2 = 0 <=> p = 0
          /\ ((p + q + r + s) \div 2) % 2 = 0 <=> q = 0
          /\ ((p + q + r + s) \div 4) % 2 = 0 <=> r = 0
          /\ ((p + q + r + s) \div 8) % 2 = 0 <=> s = 0
    OBVIOUS
  <2>2. /\ (FlagsOf(w, fs, msg) \div 1) % 2 = 0 <=> On(1) = 0
        /\ (FlagsOf(w, fs, msg) \div 2) % 2 = 0 <=> On(2) = 0
        /\ (FlagsOf(w, fs, msg) \div 4) % 2 = 0 <=> On(4) = 0
        /\ (FlagsOf(w, fs, msg) \div 8) % 2 = 0 <=> On(8) = 0
    BY <1>3, <1>4, <2>1
  <2> QED
    BY <1>1, <2>2
<1> QED
  BY <1>2, <1>5, <1>6 DEF b

-----------------------------------------------------------------------------
(* Fields. *)
\* One value in two languages: absent and empty are one.
Alike(x, y) == x = y \/ (x \in {None, <<>>} /\ y \in {None, <<>>})

(* JavaScript and Go number the members of an enumeration alike. *)
LEMMA EnumsAgree == \A kind : Enum("js", kind) = Enum("go", kind)
BY DEF Enum, JsChunkTypes, GoChunkTypes, JsStateFields, GoStateFields

(* An enumeration has two members, or four. *)
LEMMA EnumLength ==
  \A w, kind : /\ Len(Enum(w, kind)) \in {2, 4}
               /\ DOMAIN Enum(w, kind) = 1..Len(Enum(w, kind))
<1> DEFINE Fine(e) == Len(e) \in {2, 4} /\ DOMAIN e = 1..Len(e)
<1>1. \A w, kind : \/ Enum(w, kind) = JsChunkTypes \/ Enum(w, kind) = GoChunkTypes
                   \/ Enum(w, kind) = JsStateFields \/ Enum(w, kind) = GoStateFields
  BY Zenon DEF Enum
<1>2. Fine(JsChunkTypes) /\ Fine(GoChunkTypes)
  BY DEF JsChunkTypes, GoChunkTypes
<1>3. Fine(JsStateFields) /\ Fine(GoStateFields)
  BY DEF JsStateFields, GoStateFields
<1> HIDE DEF Fine
<1>4. \A w, kind : Fine(Enum(w, kind))
  BY <1>1, <1>2, <1>3, Zenon
<1> QED
  BY <1>4 DEF Fine

\* A buffer that is null is written as an empty one.
LEMMA NullRead ==
  ASSUME NEW b \in Bytes \cup {None}, NEW t \in Seq(Byte),
         NEW r, NEW fl, NEW m, NEW v, Holds(r, Block(b) \o t, fl, m, v)
  PROVE  \E x : x \in Bytes /\ Holds(TakeBlock(r), t, fl, m, x) /\ Alike(x, b)
<1>1. CASE b \in Bytes
  BY <1>1, BlockRead DEF Alike
<1>2. CASE b = None
  <2>1. <<>> \in Bytes
    BY DEF Bytes, Width
  <2>2. Block(<<>>) = Block(None)
    <3>1. <<>> # None
      <4>1. <<>> \in Seq(Byte)
        OBVIOUS
      <4> QED
        BY <4>1, NoneAssumption
    <3>2. Block(<<>>) = Uint(0) \o <<>> /\ Uint(0) = <<0>>
      BY <3>1 DEF Block, Uint
    <3>3. \A u : u = <<0>> => u \o <<>> = <<0>>
      OBVIOUS
    <3> QED
      BY <3>2, <3>3, Zenon DEF Block
  <2>3. Holds(r, Block(<<>>) \o t, fl, m, v)
    BY <1>2, <2>2
  <2>4. Holds(TakeBlock(r), t, fl, m, <<>>)
    BY <2>1, <2>3, BlockRead
  <2> QED
    BY <1>2, <2>1, <2>4 DEF Alike
<1> QED
  BY <1>1, <1>2

\* A field that one language wrote is read by the other, and what follows it is left.
LEMMA ValueRead ==
  ASSUME NEW w \in Language, NEW s \in Language, NEW fs, NEW f, NEW msg, NEW t \in Seq(Byte),
         f.bit # 0 => f.kind \in {"text", "data"},
         f.kind \in {"text", "data", "texts", "chunkType", "stateField"},
         msg[f.name] \in Writable(w, f),
         f.kind = "texts" => Len(msg[f.name]) <= MaxArrayLength,
         NEW r, NEW fl, NEW m, NEW v, Holds(r, PutField(w, fs, msg, f) \o t, fl, m, v),
         f.bit # 0 => ((fl \div f.bit) % 2 = 0 <=> ~ Present(w, f, msg[f.name]))
  PROVE  \E x : Holds(TakeValue(s, f, r), t, fl, m, x) /\ Alike(x, msg[f.name])
<1> DEFINE y == msg[f.name]
           piece == PutField(w, fs, msg, f)
           absent == f.bit # 0 /\ (fl \div f.bit) % 2 = 0
<1>1. r.flags = fl
  BY DEF Holds
<1>2. CASE absent
  <2>1. TakeValue(s, f, r) = [r EXCEPT !.val = Missing(s, f.kind)]
    BY <1>1, <1>2 DEF TakeValue
  <2>2. piece = <<>>
    BY <1>2 DEF PutField
  <2>3. Holds(r, t, fl, m, v)
    <3>1. \A e : e = <<>> => e \o t = t
      BY ConcatEmptySeq
    <3> HIDE DEF piece
    <3>2. piece \o t = t
      BY <2>2, <3>1
    <3>3. Holds(r, piece \o t, fl, m, v)
      BY DEF piece
    <3> QED
      BY <3>2, <3>3, Zenon
  <2>4. Holds([r EXCEPT !.val = Missing(s, f.kind)], t, fl, m, Missing(s, f.kind))
    BY <2>3, ValHolds
  <2>5. Alike(Missing(s, f.kind), y)
    <3>1. Missing(s, f.kind) \in {None, <<>>}
      BY DEF Missing
    <3>2. y \in {None, <<>>}
      BY <1>2 DEF Present, JsPresent, GoPresent, Writable, Language
    <3> QED
      BY <3>1, <3>2 DEF Alike
  <2> QED
    BY <2>1, <2>4, <2>5, Zenon
<1>3. CASE ~ absent
  <2>0. /\ ~ (f.bit # 0 /\ (r.flags \div f.bit) % 2 = 0)
        /\ ~ (f.bit # 0 /\ ~ Present(w, f, msg[f.name]))
    BY <1>1, <1>3
  <2>1. CASE f.kind = "text"
    <3>1. piece = Block(y) /\ TakeValue(s, f, r) = TakeBlock(r)
      BY <2>0, <2>1 DEF PutField, TakeValue
    <3>2. y \in Bytes \cup {None}
      BY <2>1 DEF Writable
    <3> HIDE DEF piece, y
    <3>3. \E x : x \in Bytes /\ Holds(TakeBlock(r), t, fl, m, x) /\ Alike(x, y)
      <4>1. Holds(r, Block(y) \o t, fl, m, v)
        BY <3>1 DEF piece
      <4> QED
        BY <3>2, <4>1, NullRead
    <3> QED
      BY <3>1, <3>3 DEF y
  <2>2. CASE f.kind = "data"
    <3> DEFINE b == TakeBlock(r)
               z(x) == IF s = "js" /\ x = <<>> THEN None ELSE x
    <3>1. piece = Block(y)
      BY <2>0, <2>2 DEF PutField
    <3>2. y \in Bytes \cup {None}
      BY <2>2 DEF Writable
    <3> HIDE DEF piece, y
    <3>3. PICK x : x \in Bytes /\ Holds(b, t, fl, m, x) /\ Alike(x, y)
      <4>1. Holds(r, Block(y) \o t, fl, m, v)
        BY <3>1 DEF piece
      <4> QED
        BY <3>2, <4>1, NullRead
    <3>4. TakeValue(s, f, r) = [b EXCEPT !.val = IF b.ok /\ s = "js" /\ @ = <<>> THEN None ELSE @]
      BY <2>0, <2>2 DEF TakeValue
    <3> HIDE DEF b
    <3>5. b.ok = TRUE /\ b.val = x
      BY <3>3 DEF Holds
    <3>6. TakeValue(s, f, r) = [b EXCEPT !.val = z(x)]
      BY <3>4, <3>5
    <3>7. Holds([b EXCEPT !.val = z(x)], t, fl, m, z(x))
      BY <3>3, ValHolds
    <3>8. Alike(z(x), y)
      BY <3>3 DEF Alike
    <3> HIDE DEF z
    <3> QED
      BY <3>6, <3>7, <3>8 DEF y
  <2>3. CASE f.kind = "texts"
    <3>1. piece = PutMany(y) /\ TakeValue(s, f, r) = TakeMany(r)
      BY <2>0, <2>3 DEF PutField, TakeValue
    <3>2. y \in Seq(Bytes) /\ Len(y) < Width /\ Len(y) <= MaxArrayLength
      BY <2>3 DEF Writable
    <3> HIDE DEF piece, y
    <3>3. Holds(r, PutMany(y) \o t, fl, m, v)
      BY <3>1 DEF piece
    <3>4. Holds(TakeMany(r), t, fl, m, y)
      BY <3>2, <3>3, ManyRead
    <3> QED
      BY <3>1, <3>4 DEF y, Alike
  <2>4. CASE f.kind \in {"chunkType", "stateField"}
    <3> DEFINE enum == Enum(w, f.kind)
               n == IndexOf(enum, y)
               u == TakeUint(r)
    <3>1. piece = Uint(n)
      BY <2>0, <2>4 DEF PutField
    <3>2. n \in DOMAIN enum /\ enum[n] = y
      <4>1. y \in ToSet(enum)
        BY <2>4 DEF Writable
      <4>2. \E i \in DOMAIN enum : enum[i] = y
        BY <4>1 DEF ToSet
      <4> HIDE DEF enum, y
      <4> QED
        BY <4>2 DEF IndexOf
    <3>3. enum = Enum(s, f.kind)
      BY EnumsAgree DEF Language
    <3>4. n \in Nat /\ n < Width
      <4>1. Len(enum) \in {2, 4} /\ DOMAIN enum = 1..Len(enum)
        BY EnumLength
      <4> HIDE DEF n, enum
      <4>2. n \in 1..4
        BY <3>2, <4>1
      <4> QED
        BY <4>2 DEF Width
    <3>5. TakeValue(s, f, r) = [u EXCEPT !.val = IF u.ok /\ @ \in DOMAIN enum THEN enum[@] ELSE None]
      BY <2>0, <2>4, <3>3 DEF TakeValue
    <3> HIDE DEF piece, y, enum, n
    <3>6. Holds(u, t, fl, m, n)
      <4>1. Holds(r, Uint(n) \o t, fl, m, v)
        BY <3>1 DEF piece
      <4> QED
        BY <3>4, <4>1, UintRead
    <3> HIDE DEF u
    <3>7. u.ok = TRUE /\ u.val = n
      BY <3>6 DEF Holds
    <3>8. TakeValue(s, f, r) = [u EXCEPT !.val = y]
      BY <3>2, <3>5, <3>7
    <3>9. Holds([u EXCEPT !.val = y], t, fl, m, y)
      BY <3>6, ValHolds
    <3> QED
      BY <3>8, <3>9 DEF y, Alike
  <2> QED
    BY <2>1, <2>2, <2>3, <2>4
<1> QED
  BY <1>2, <1>3

-----------------------------------------------------------------------------
(* Whole messages. *)
LEMMA PieceTyped ==
  ASSUME NEW w \in Language, NEW fs, NEW msg, NEW f,
         f.kind # "flags" => msg[f.name] \in Writable(w, f),
         f.kind \in {"flags", "text", "data", "texts", "chunkType", "stateField"}
  PROVE  /\ PutField(w, fs, msg, f) \in Seq(Byte)
         /\ f.bit = 0 => Len(PutField(w, fs, msg, f)) >= 1
<1> DEFINE y == msg[f.name]
<1>1. <<>> \in Seq(Byte) /\ \A n : Len(Uint(n)) >= 1
  BY DEF Uint
<1>2. CASE f.kind = "flags"
  <2>1. FlagsOf(w, fs, msg) \in 0..15
    BY FlagsTyped
  <2>2. \A n \in 0..15 : n \in Nat /\ n < Width
    BY DEF Width
  <2>3. Uint(FlagsOf(w, fs, msg)) \in Seq(Byte)
    BY <2>1, <2>2, UintTyped
  <2> QED
    BY <1>1, <1>2, <2>3 DEF PutField
<1>3. CASE f.kind \in {"text", "data"}
  <2>1. y \in Bytes \cup {None}
    BY <1>3 DEF Writable
  <2>2. Block(y) \in Seq(Byte) /\ Len(Block(y)) >= 1
    BY <2>1, BlockSize
  <2> QED
    BY <1>1, <1>3, <2>2 DEF PutField
<1>4. CASE f.kind = "texts"
  <2>1. y \in Seq(Bytes) /\ Len(y) < Width
    BY <1>4 DEF Writable
  <2> HIDE DEF y
  <2>2. PutMany(y) \in Seq(Byte) /\ Len(PutMany(y)) >= 1
    BY <2>1, ManyTyped
  <2> QED
    BY <1>1, <1>4, <2>2 DEF PutField, y
<1>5. CASE f.kind \in {"chunkType", "stateField"}
  <2> DEFINE enum == Enum(w, f.kind)
             n == IndexOf(enum, y)
  <2>1. y \in ToSet(enum)
    BY <1>5 DEF Writable
  <2>2. \E i \in DOMAIN enum : enum[i] = y
    BY <2>1 DEF ToSet
  <2>3. Len(enum) \in {2, 4} /\ DOMAIN enum = 1..Len(enum)
    BY EnumLength
  <2>4. \/ f.bit # 0 /\ PutField(w, fs, msg, f) = <<>>
        \/ PutField(w, fs, msg, f) = Uint(n)
    BY <1>5 DEF PutField
  <2>5. n \in DOMAIN enum
    <3> HIDE DEF enum, y
    <3> QED
      BY <2>2 DEF IndexOf
  <2> HIDE DEF n, enum
  <2>6. n \in 1..4
    BY <2>3, <2>5
  <2>7. n \in Nat /\ n < Width
    BY <2>6 DEF Width
  <2>8. Uint(n) \in Seq(Byte)
    BY <2>7, UintTyped
  <2> QED
    BY <1>1, <2>4, <2>8
<1> QED
  BY <1>2, <1>3, <1>4, <1>5

\* After the first i fields the reader has their values, and the flags once these are read.
\* No array among the fields is too long for a reader.
FitsFlat(fs, msg) ==
  \A i \in 1..Len(fs) : fs[i].kind = "texts" => Len(msg[fs[i].name]) <= MaxArrayLength

NamesUpTo(fs, i) == {fs[j].name : j \in {k \in 1..i : fs[k].kind # "flags"}}
ReadUpTo(w, fs, msg, i, flags, m) ==
  /\ DOMAIN m = NamesUpTo(fs, i) /\ m = [x \in DOMAIN m |-> m[x]]
  /\ \A x \in DOMAIN m : Alike(m[x], msg[x])
  /\ (\E j \in 1..i : fs[j].kind = "flags") => flags = FlagsOf(w, fs, msg)

(* One field: a reader that stands before it, with the fields before it read, reads it and
   stands after it. *)
LEMMA FieldRead ==
  ASSUME NEW w \in Language, NEW s \in Language, NEW fs, Sound(fs), NEW msg, IsFlat(w, fs, msg),
         FitsFlat(fs, msg), NEW i \in 1..Len(fs), NEW t \in Seq(Byte), NEW r, NEW fl, NEW m, NEW v,
         Holds(r, PutField(w, fs, msg, fs[i]) \o t, fl, m, v),
         ReadUpTo(w, fs, msg, i - 1, fl, m)
  PROVE  \E fl2, m2, v2 : /\ Holds(TakeField(s, fs[i], r), t, fl2, m2, v2)
                          /\ ReadUpTo(w, fs, msg, i, fl2, m2)
<1> DEFINE f == fs[i]
           F == FlagsOf(w, fs, msg)
<1>0. Len(fs) \in Nat /\ i \in DOMAIN fs /\ i \in 1..i /\ \A j \in 1..i : j \in 1..(i - 1) \/ j = i
  BY DEF Sound
<1>f. /\ f.bit \in {0, 1, 2, 4, 8}
      /\ f.kind \in {"flags", "text", "data", "texts", "chunkType", "stateField"}
      /\ f.bit # 0 => /\ f.kind \in {"text", "data"}
                      /\ \E j \in 1..(i - 1) : fs[j].kind = "flags"
  BY DEF Sound
<1>1. CASE f.kind = "flags"
  <2> DEFINE u == TakeUint(r)
  <2>1. PutField(w, fs, msg, f) = Uint(F)
    BY <1>1 DEF PutField
  <2>2. F \in Nat /\ F < Width
    <3>1. F \in 0..15
      BY FlagsTyped
    <3> HIDE DEF F
    <3> QED
      BY <3>1 DEF Width
  <2>3. Holds(r, Uint(F) \o t, fl, m, v)
    BY <2>1, Zenon
  <2> HIDE DEF F
  <2>4. Holds(u, t, fl, m, F)
    BY <2>2, <2>3, UintRead
  <2>5. TakeField(s, f, r) = [u EXCEPT !.flags = IF u.ok THEN u.val ELSE 0]
    BY <1>1 DEF TakeField
  <2> HIDE DEF u
  <2>6. u.ok = TRUE /\ u.val = F
    BY <2>4 DEF Holds
  <2>7. TakeField(s, f, r) = [u EXCEPT !.flags = F]
    BY <2>5, <2>6
  <2>8. Holds([u EXCEPT !.flags = F], t, F, m, F)
    BY <2>4, FlagsHolds
  <2>9. ReadUpTo(w, fs, msg, i, F, m)
    <3>1. NamesUpTo(fs, i) = NamesUpTo(fs, i - 1)
      <4>1. \A k : k \in 1..i /\ fs[k].kind # "flags" <=> k \in 1..(i - 1) /\ fs[k].kind # "flags"
        BY <1>0, <1>1
      <4> QED
        BY <4>1, Zenon DEF NamesUpTo
    <3> QED
      BY <3>1, Zenon DEF ReadUpTo, F
  <2>10. Holds(TakeField(s, f, r), t, F, m, F)
    BY <2>7, <2>8, Zenon
  <2> QED
    BY <2>9, <2>10
<1>2. CASE f.kind # "flags"
  <2> DEFINE T == TakeValue(s, f, r)
             with(x) == [n \in DOMAIN m \cup {f.name} |-> IF n = f.name THEN x ELSE m[n]]
  <2>1. msg[f.name] \in Writable(w, f)
    BY <1>0, <1>2 DEF IsFlat
  <2>2. f.bit # 0 => ((fl \div f.bit) % 2 = 0 <=> ~ Present(w, f, msg[f.name]))
    <3>1. f.bit # 0 => fl = F
      BY <1>0, <1>f DEF ReadUpTo
    <3>2. f.bit # 0 => ((F \div f.bit) % 2 = 0 <=> ~ Present(w, f, msg[f.name]))
      BY FlagsTell
    <3> HIDE DEF F
    <3> QED
      BY <3>1, <3>2, Zenon
  <2>3. PICK x : Holds(T, t, fl, m, x) /\ Alike(x, msg[f.name])
    <3> HIDE DEF f, T
    <3>0. Holds(r, PutField(w, fs, msg, f) \o t, fl, m, v)
      BY DEF f
    <3>f. f.kind = "texts" => Len(msg[f.name]) <= MaxArrayLength
      BY DEF FitsFlat, f
    <3>1. \E x : Holds(TakeValue(s, f, r), t, fl, m, x) /\ Alike(x, msg[f.name])
      BY <1>f, <1>2, <2>1, <2>2, <3>0, <3>f, ValueRead
    <3> QED
      BY <3>1 DEF T
  <2>4. r.m = m
    BY DEF Holds
  <2>5. TakeField(s, f, r) =
          [T EXCEPT !.m = [n \in DOMAIN r.m \cup {f.name} |-> IF n = f.name THEN T.val ELSE r.m[n]]]
    BY <1>2 DEF TakeField
  <2> HIDE DEF T
  <2>6. T.val = x
    BY <2>3 DEF Holds
  <2>7. TakeField(s, f, r) = [T EXCEPT !.m = with(x)]
    BY <2>4, <2>5, <2>6, Zenon
  <2>8. Holds([T EXCEPT !.m = with(x)], t, fl, with(x), x)
    BY <2>3, FieldsHolds, Zenon
  <2>9. ReadUpTo(w, fs, msg, i, fl, with(x))
    <3>1. DOMAIN with(x) = NamesUpTo(fs, i)
      <4>1. DOMAIN m = NamesUpTo(fs, i - 1)
        BY DEF ReadUpTo
      <4>2. NamesUpTo(fs, i) = NamesUpTo(fs, i - 1) \cup {f.name}
        <5>1. \A k : k \in 1..i /\ fs[k].kind # "flags"
                       <=> (k \in 1..(i - 1) /\ fs[k].kind # "flags") \/ k = i
          BY <1>0, <1>2
        <5> QED
          BY <5>1, Zenon DEF NamesUpTo
      <4> QED
        BY <4>1, <4>2
    <3>2. ASSUME NEW n \in DOMAIN with(x) PROVE Alike(with(x)[n], msg[n])
      <4>1. CASE n = f.name
        BY <2>3, <4>1
      <4>2. CASE n # f.name
        <5>1. n \in DOMAIN m /\ with(x)[n] = m[n]
          BY <4>2
        <5>2. Alike(m[n], msg[n])
          BY <5>1 DEF ReadUpTo
        <5> QED
          BY <5>1, <5>2
      <4> QED
        BY <4>1, <4>2
    <3>3. (\E j \in 1..i : fs[j].kind = "flags") => (\E j \in 1..(i - 1) : fs[j].kind = "flags")
      BY <1>0, <1>2
    <3>4. (\E j \in 1..(i - 1) : fs[j].kind = "flags") => fl = FlagsOf(w, fs, msg)
      BY DEF ReadUpTo
    <3>5. with(x) = [n \in DOMAIN with(x) |-> with(x)[n]]
      OBVIOUS
    <3> HIDE DEF with
    <3> QED
      BY <3>1, <3>2, <3>3, <3>4, <3>5, Zenon DEF ReadUpTo
  <2> HIDE DEF with
  <2>10. Holds(TakeField(s, f, r), t, fl, with(x), x)
    BY <2>7, <2>8, Zenon
  <2> QED
    BY <2>9, <2>10
<1> QED
  BY <1>1, <1>2

\* What is left of a message from each field on.
Parted(w, fs, msg, C) ==
  /\ C \in [1..(Len(fs) + 1) -> Seq(Byte)]
  /\ PutFlat(w, fs, msg) = C[1] /\ C[Len(fs) + 1] = <<>>
  /\ \A i \in 1..Len(fs) : C[i] = PutField(w, fs, msg, fs[i]) \o C[i + 1]

(* The body of a flat message is its fields one after the other. *)
LEMMA FlatParts ==
  ASSUME NEW w \in Language, NEW fs, Sound(fs), NEW msg, IsFlat(w, fs, msg)
  PROVE  \E C : Parted(w, fs, msg, C)
<1> DEFINE n == Len(fs)
           ps == [i \in DOMAIN fs |-> PutField(w, fs, msg, fs[i])]
<1>0. n \in Nat /\ DOMAIN fs = 1..n
  BY DEF Sound
<1>1. Len(ps) = n /\ PutFlat(w, fs, msg) = FlattenSeq(ps)
  BY <1>0 DEF PutFlat
<1>2. ASSUME NEW i \in 1..n PROVE ps[i] \in Seq(Byte) /\ ps[i] = PutField(w, fs, msg, fs[i])
  <2> DEFINE f == fs[i]
  <2>1. f.kind # "flags" => msg[f.name] \in Writable(w, f)
    BY <1>0 DEF IsFlat
  <2>2. f.kind \in {"flags", "text", "data", "texts", "chunkType", "stateField"}
    BY DEF Sound
  <2> HIDE DEF f
  <2>3. PutField(w, fs, msg, f) \in Seq(Byte)
    BY <2>1, <2>2, PieceTyped
  <2> QED
    BY <1>0, <2>3 DEF f
<1> HIDE DEF ps
<1>3. Len(ps) \in Nat /\ \A i \in 1..Len(ps) : ps[i] \in Seq(Byte)
  BY <1>0, <1>1, <1>2
<1>4. PICK C \in [1..(Len(ps) + 1) -> Seq(Byte)] :
         /\ FlattenSeq(ps) = C[1] /\ C[Len(ps) + 1] = <<>>
         /\ \A i \in 1..Len(ps) : C[i] = ps[i] \o C[i + 1]
  BY <1>3, Flattened
<1> QED
  BY <1>1, <1>2, <1>4 DEF Parted

\* Only a message of no fields has no bytes.
LEMMA FlatSize ==
  ASSUME NEW w \in Language, NEW fs, Sound(fs), NEW msg, IsFlat(w, fs, msg), Len(fs) >= 1
  PROVE  PutFlat(w, fs, msg) # <<>>
<1> DEFINE f == fs[1]
           x == PutField(w, fs, msg, f)
<1>1. Len(fs) \in Nat /\ 1 \in DOMAIN fs /\ 1 \in 1..Len(fs) /\ 1..0 = {} /\ 1 - 1 = 0
  BY DEF Sound
<1>2. f.bit = 0 /\ f.kind \in {"flags", "text", "data", "texts", "chunkType", "stateField"}
  BY <1>1 DEF Sound
<1>3. f.kind # "flags" => msg[f.name] \in Writable(w, f)
  BY <1>1 DEF IsFlat
<1> HIDE DEF f
<1>4. x \in Seq(Byte) /\ Len(x) >= 1
  BY <1>2, <1>3, PieceTyped
<1>5. \E y : y \in Seq(Byte) /\ PutFlat(w, fs, msg) = x \o y
  <2>1. PICK C : Parted(w, fs, msg, C)
    BY FlatParts
  <2>2. C[1 + 1] \in Seq(Byte) /\ C[1] = PutField(w, fs, msg, f) \o C[1 + 1]
    <3>1. 1 + 1 \in 1..(Len(fs) + 1)
      BY <1>1
    <3>2. C \in [1..(Len(fs) + 1) -> Seq(Byte)]
      BY <2>1, Zenon DEF Parted
    <3>3. C[1] = PutField(w, fs, msg, fs[1]) \o C[1 + 1]
      BY <1>1, <2>1, Zenon DEF Parted
    <3>4. C[1 + 1] \in Seq(Byte)
      BY <3>1, <3>2, Zenon
    <3> QED
      BY <3>3, <3>4, Zenon DEF f
  <2>3. PutFlat(w, fs, msg) = C[1]
    BY <2>1 DEF Parted
  <2> QED
    BY <2>2, <2>3
<1> HIDE DEF x
<1>6. PICK y : y \in Seq(Byte) /\ PutFlat(w, fs, msg) = x \o y
  BY <1>5
<1>7. Len(x \o y) = Len(x) + Len(y) /\ Len(x) \in Nat /\ Len(y) \in Nat
  BY <1>4, <1>6, ConcatProperties
<1>8. \A z : Len(z) >= 1 => z # <<>>
  OBVIOUS
<1>9. Len(x \o y) >= 1
  BY <1>4, <1>7
<1> QED
  BY <1>6, <1>8, <1>9

\* One message in two languages.
AlikeFlat(a, b) == a = [x \in DOMAIN b |-> a[x]] /\ \A x \in DOMAIN b : Alike(a[x], b[x])

\* A message that one language wrote is read by the other.
LEMMA FlatRead ==
  ASSUME NEW w \in Language, NEW s \in Language, NEW fs, Sound(fs), NEW msg, IsFlat(w, fs, msg),
         FitsFlat(fs, msg)
  PROVE  LET d == TakeFields(s, fs, Reader(PutFlat(w, fs, msg)))
         IN  d.ok = TRUE /\ AlikeFlat(d.m, msg)
<1> DEFINE n == Len(fs)
           first == Reader(PutFlat(w, fs, msg))
           One(i, a) == TakeField(s, fs[i], a)
           Item(i, a) == The({TakeField(s, fs[i], d) : d \in {a}})
           Step(D) == [i \in 0..n |-> IF i = 0 THEN first ELSE Item(i, D[i - 1])]
           D == CHOOSE D : D = Step(D)
<1>0. n \in Nat /\ DOMAIN fs = 1..n
  BY DEF Sound
<1>p. PICK C : Parted(w, fs, msg, C)
  BY FlatParts
<1>1. /\ C \in [1..(n + 1) -> Seq(Byte)]
      /\ PutFlat(w, fs, msg) = C[1] /\ C[n + 1] = <<>>
      /\ \A i \in 1..n : C[i] = PutField(w, fs, msg, fs[i]) \o C[i + 1]
  BY <1>p DEF Parted
<1>4. \A i, a : Item(i, a) = One(i, a)
  <2>1. \A i, a : {TakeField(s, fs[i], d) : d \in {a}} = {One(i, a)}
    BY Zenon
  <2> QED
    BY <2>1, TheOne, Zenon
<1> HIDE DEF n, One, Item, first, Step, D
<1>5. \E F : F = Step(F)
  <2> DEFINE Upto(F, k) == F = [i \in 0..k |-> IF i = 0 THEN first ELSE Item(i, F[i - 1])]
             K == {k \in 0..n : \E F : Upto(F, k)}
  <2> HIDE DEF Upto
  <2>1. 0 \in K
    <3>1. Upto([i \in 0..0 |-> first], 0)
      BY DEF Upto
    <3> QED
      BY <1>0, <3>1 DEF n
  <2>2. ASSUME NEW k \in K, k < n PROVE k + 1 \in K
    <3>1. k \in 0..n /\ k + 1 \in 0..n
      BY <1>0, <2>2 DEF n
    <3>2. PICK F : Upto(F, k)
      OBVIOUS
    <3> DEFINE G == [i \in 0..(k + 1) |-> IF i = k + 1 THEN Item(i, F[k]) ELSE F[i]]
    <3>3. Upto(G, k + 1)
      <4>1. F = [i \in 0..k |-> IF i = 0 THEN first ELSE Item(i, F[i - 1])]
        BY <3>2 DEF Upto
      <4>2. ASSUME NEW i \in 0..(k + 1) PROVE G[i] = IF i = 0 THEN first ELSE Item(i, G[i - 1])
        <5>1. CASE i = k + 1
          <6>1. i # 0 /\ i - 1 = k /\ k \in 0..(k + 1) /\ k # k + 1
            BY <3>1, <5>1
          <6>2. G[k] = F[k] /\ G[i] = Item(i, F[k])
            BY <5>1, <6>1
          <6> QED
            BY <6>1, <6>2
        <5>2. CASE i \in 0..k
          <6>1. i # k + 1 /\ (i # 0 => i - 1 \in 0..(k + 1) /\ i - 1 # k + 1)
            BY <3>1, <5>2
          <6>2. G[i] = F[i] /\ (i # 0 => G[i - 1] = F[i - 1])
            BY <6>1
          <6>3. F[i] = IF i = 0 THEN first ELSE Item(i, F[i - 1])
            BY <4>1, <5>2
          <6> QED
            BY <6>2, <6>3
        <5> QED
          BY <3>1, <5>1, <5>2
      <4>3. G = [i \in 0..(k + 1) |-> G[i]]
        OBVIOUS
      <4> HIDE DEF G
      <4> QED
        BY <4>2, <4>3 DEF Upto
    <3> QED
      BY <3>1, <3>3
  <2>3. K = 0..n
    <3>1. K \subseteq 0..n
      OBVIOUS
    <3> HIDE DEF K
    <3> QED
      BY <1>0, <2>1, <2>2, <3>1, UpTo DEF n
  <2>4. n \in K
    <3>1. n \in 0..n
      BY <1>0 DEF n
    <3> QED
      BY <2>3, <3>1, Zenon
  <2> QED
    BY <2>4 DEF Upto, Step
<1>6. D = Step(D)
  BY <1>5 DEF D
<1>7. D[0] = first /\ \A i \in 1..n : D[i] = One(i, D[i - 1])
  <2>1. D = [i \in 0..n |-> IF i = 0 THEN first ELSE Item(i, D[i - 1])]
    BY <1>6 DEF Step
  <2>2. 0 \in 0..n /\ \A i \in 1..n : i \in 0..n /\ i # 0
    BY <1>0 DEF n
  <2> QED
    BY <1>4, <2>1, <2>2
<1> DEFINE Good(i) == \E fl, m, v : Holds(D[i], C[i + 1], fl, m, v) /\ ReadUpTo(w, fs, msg, i, fl, m)
           T == {i \in 0..n : Good(i)}
<1>8. 0 \in T
  <2>1. Holds(first, C[1], 0, <<>>, None)
    <3>1. Holds(Reader(C[1]), C[1], 0, <<>>, None)
      BY ReaderHolds, Zenon
    <3> QED
      BY <1>1, <3>1, Zenon DEF first
  <2>2. ReadUpTo(w, fs, msg, 0, 0, <<>>)
    BY DEF ReadUpTo, NamesUpTo
  <2>3. 0 + 1 = 1 /\ 0 \in 0..n
    BY <1>0 DEF n
  <2> QED
    BY <1>7, <2>1, <2>2, <2>3
<1>9. ASSUME NEW j \in T, j < n PROVE j + 1 \in T
  <2> DEFINE i == j + 1
             a == D[j]
             c == C[i + 1]
  <2>1. j \in 0..n /\ Good(j)
    OBVIOUS
  <2>2. PICK fl, m, v : Holds(a, C[i], fl, m, v) /\ ReadUpTo(w, fs, msg, j, fl, m)
    BY <2>1
  <2>3. i \in 1..n /\ i + 1 \in 1..(n + 1) /\ i - 1 = j /\ i \in 0..n
    BY <1>0, <1>9, <2>1 DEF n
  <2>4. c \in Seq(Byte) /\ C[i] = PutField(w, fs, msg, fs[i]) \o c /\ D[i] = TakeField(s, fs[i], a)
    BY <1>1, <1>7, <2>3 DEF n, One
  <2> HIDE DEF i, a, c
  <2>5. Holds(a, PutField(w, fs, msg, fs[i]) \o c, fl, m, v) /\ ReadUpTo(w, fs, msg, i - 1, fl, m)
    BY <2>2, <2>3, <2>4, Zenon
  <2>6. \E fl2, m2, v2 : /\ Holds(TakeField(s, fs[i], a), c, fl2, m2, v2)
                         /\ ReadUpTo(w, fs, msg, i, fl2, m2)
    <3>1. i \in 1..Len(fs)
      BY <2>3 DEF n
    <3> QED
      BY <2>4, <2>5, <3>1, FieldRead
  <2>7. Good(i)
    BY <2>4, <2>6, Zenon DEF c
  <2> HIDE DEF Good
  <2>8. i \in T
    BY <2>3, <2>7
  <2> HIDE DEF T
  <2> QED
    BY <2>8 DEF i
<1>10. Good(n)
  <2>1. T = 0..n
    <3>1. T \subseteq 0..n
      OBVIOUS
    <3> HIDE DEF T
    <3> QED
      BY <1>0, <1>8, <1>9, <3>1, UpTo DEF n
  <2>2. n \in T
    <3>1. n \in 0..n
      BY <1>0 DEF n
    <3> QED
      BY <2>1, <3>1, Zenon
  <2> QED
    BY <2>2
<1>11. TakeFields(s, fs, Reader(PutFlat(w, fs, msg))) = D[n]
  BY DEF TakeFields, D, Step, Item, first, n
<1>12. PICK fl, m, v : Holds(D[n], C[n + 1], fl, m, v) /\ ReadUpTo(w, fs, msg, n, fl, m)
  BY <1>10
<1>13. D[n].ok = TRUE /\ D[n].m = m
  BY <1>12 DEF Holds
<1>14. AlikeFlat(m, msg)
  <2>1. NamesUpTo(fs, n) = DOMAIN msg
    BY <1>0, Zenon DEF NamesUpTo, IsFlat, n
  <2> QED
    BY <1>12, <2>1 DEF ReadUpTo, AlikeFlat
<1> QED
  BY <1>11, <1>13, <1>14, Zenon

-----------------------------------------------------------------------------
(* The messages of the two codecs. *)
Flat == {"empty", "chatRequest", "chatChunk", "sessionScope", "sessionKey", "sessionList",
         "sessionBlob", "toolDef", "toolCall", "toolResult", "stateChunk"}

(* JavaScript and Go write the same fields in the same order. *)
LEMMA EncodingsAgree == \A type \in Flat : Fields("js", type) = Fields("go", type)
<1>1. /\ JsEmpty = GoEmpty /\ JsChatRequest = GoChatRequest /\ JsChatChunk = GoChatChunk
      /\ JsSessionScope = GoSessionScope /\ JsSessionKey = GoSessionKey
      /\ JsSessionList = GoSessionList /\ JsSessionBlob = GoSessionBlob
      /\ JsToolDef = GoToolDef /\ JsToolCall = GoToolCall /\ JsToolResult = GoToolResult
      /\ JsStateChunk = GoStateChunk
  BY Zenon DEF JsEmpty, GoEmpty, JsChatRequest, GoChatRequest, JsChatChunk, GoChatChunk,
       JsSessionScope, GoSessionScope, JsSessionKey, GoSessionKey, JsSessionList, GoSessionList,
       JsSessionBlob, GoSessionBlob, JsToolDef, GoToolDef, JsToolCall, GoToolCall,
       JsToolResult, GoToolResult, JsStateChunk, GoStateChunk
<1> QED
  BY <1>1 DEF Fields, JsEncoding, GoEncoding, Flat

(* An optional field has a bit of its own, and the flags come before it. *)
LEMMA EncodingsSound == \A s \in Language, type \in Flat : Sound(Fields(s, type))
<1>1. Sound(JsEmpty)
  BY DEF JsEmpty, Sound
<1>2. Sound(JsChatRequest)
  BY DEF JsChatRequest, Sound, Req, Opt, Flags
<1>3. Sound(JsChatChunk)
  BY DEF JsChatChunk, Sound, Req, Opt, Flags
<1>4. Sound(JsSessionScope)
  BY DEF JsSessionScope, Sound, Req, Opt, Flags
<1>5. Sound(JsSessionKey) /\ Sound(JsSessionList) /\ Sound(JsSessionBlob)
  BY DEF JsSessionKey, JsSessionList, JsSessionBlob, Sound, Req
<1>6. Sound(JsToolDef)
  BY DEF JsToolDef, Sound, Req, Opt, Flags
<1>7. Sound(JsToolCall)
  BY DEF JsToolCall, Sound, Req
<1>8. Sound(JsToolResult)
  BY DEF JsToolResult, Sound, Req, Opt, Flags
<1>9. Sound(JsStateChunk)
  BY DEF JsStateChunk, Sound, Req
<1>10. ASSUME NEW type \in Flat PROVE Sound(Fields("js", type))
  BY <1>1, <1>2, <1>3, <1>4, <1>5, <1>6, <1>7, <1>8, <1>9 DEF Fields, JsEncoding, Flat
<1> QED
  BY <1>10, EncodingsAgree DEF Language

(* The one type with an array of texts is the list of sessions. *)
LEMMA FlatFits ==
  ASSUME NEW w \in Language, NEW type \in Flat, NEW m, Fits(type, m)
  PROVE  FitsFlat(Fields(w, type), m)
<1> USE DEF FitsFlat, Req, Opt, Flags
<1>1. FitsFlat(JsEmpty, m) /\ FitsFlat(JsChatRequest, m) /\ FitsFlat(JsChatChunk, m)
  BY DEF JsEmpty, JsChatRequest, JsChatChunk
<1>2. FitsFlat(JsSessionScope, m) /\ FitsFlat(JsSessionKey, m) /\ FitsFlat(JsSessionBlob, m)
  BY DEF JsSessionScope, JsSessionKey, JsSessionBlob
<1>3. FitsFlat(JsToolDef, m) /\ FitsFlat(JsToolCall, m)
  BY DEF JsToolDef, JsToolCall
<1>4. FitsFlat(JsToolResult, m) /\ FitsFlat(JsStateChunk, m)
  BY DEF JsToolResult, JsStateChunk
<1>5. type = "sessionList" => FitsFlat(JsSessionList, m)
  BY DEF Fits, JsSessionList
<1> HIDE DEF FitsFlat, Req, Opt, Flags
<1>6. FitsFlat(Fields("js", type), m)
  BY <1>1, <1>2, <1>3, <1>4, <1>5 DEF Fields, JsEncoding, Flat
<1> QED
  BY <1>6, EncodingsAgree DEF Language

AlikeMessage(type, a, b) ==
  IF type # "stateBlob" THEN AlikeFlat(a, b)
  ELSE /\ DOMAIN a.sessions = DOMAIN b.sessions
       /\ \A j \in DOMAIN b.sessions : AlikeFlat(a.sessions[j], b.sessions[j])

(* A flat message, written by one language, is read by the other as it was. *)
LEMMA FlatMessageRead ==
  ASSUME NEW w \in Language, NEW s \in Language, NEW type \in Flat, NEW m, IsMessage(w, type, m),
         Fits(type, m)
  PROVE  LET d == Decode(s, type, Encode(w, type, m))
         IN  d.ok = TRUE /\ AlikeMessage(type, d.m, m)
<1> DEFINE fs == Fields(w, type)
<1>1. type # "stateBlob"
  BY DEF Flat
<1>2. fs = Fields(s, type) /\ Sound(fs)
  BY EncodingsAgree, EncodingsSound DEF Language
<1>3. IsFlat(w, fs, m) /\ FitsFlat(fs, m)
  BY <1>1, FlatFits DEF IsMessage
<1>4. Decode(s, type, Encode(w, type, m)) = TakeFields(s, Fields(s, type), Reader(PutFlat(w, fs, m)))
  BY <1>1, Zenon DEF Decode, Encode
<1> HIDE DEF fs
<1>5. LET d == TakeFields(s, fs, Reader(PutFlat(w, fs, m)))
      IN  d.ok = TRUE /\ AlikeFlat(d.m, m)
  BY <1>2, <1>3, FlatRead
<1>6. Decode(s, type, Encode(w, type, m)) = TakeFields(s, fs, Reader(PutFlat(w, fs, m)))
  BY <1>2, <1>4
<1> QED
  BY <1>1, <1>5, <1>6, Zenon DEF AlikeMessage

(* So is a state blob, whose sessions are framed messages. *)
LEMMA StateBlobRead ==
  ASSUME NEW w \in Language, NEW s \in Language, NEW m, IsMessage(w, "stateBlob", m),
         Fits("stateBlob", m)
  PROVE  LET d == Decode(s, "stateBlob", Encode(w, "stateBlob", m))
         IN  d.ok = TRUE /\ AlikeMessage("stateBlob", d.m, m)
<1> DEFINE fs == Fields(w, "sessionBlob")
           x == Frames(w, m)
           n == Len(m.sessions)
           t == TakeMany(Reader(PutMany(x)))
           F(j) == TakeFrame(s, x[j])
<1>1. /\ m.sessions \in Seq(ToSet(m.sessions))
      /\ \A b \in ToSet(m.sessions) : IsFlat(w, fs, b)
      /\ x \in Seq(Bytes) /\ n < Width /\ n <= MaxArrayLength
  BY DEF IsMessage, Fits
<1>2. n \in Nat /\ DOMAIN m.sessions = 1..n
  BY <1>1
<1>3. DOMAIN x = 1..n /\ Len(x) = n /\ \A j \in 1..n : x[j] = PutFlat(w, fs, m.sessions[j])
  BY <1>2 DEF Frames
<1> HIDE DEF x, n
<1>4. Holds(t, <<>>, 0, <<>>, x)
  <2> DEFINE b == PutMany(x)
  <2>1. Len(x) < Width /\ Len(x) <= MaxArrayLength /\ b \in Seq(Byte)
    BY <1>1, <1>3, ManyTyped
  <2>2. \A z : z = <<>> => b \o z = b
    <3> HIDE DEF b
    <3> QED
      BY <2>1, ConcatEmptySeq
  <2>3. Holds(Reader(b), b, 0, <<>>, None)
    BY ReaderHolds, Zenon
  <2>4. Holds(Reader(b), b \o <<>>, 0, <<>>, None)
    BY <2>2, <2>3, Zenon
  <2>5. <<>> \in Seq(Byte)
    OBVIOUS
  <2>6. \A z \in Seq(Byte) : \A r, fl, mm, v :
          Holds(r, PutMany(x) \o z, fl, mm, v) => Holds(TakeMany(r), z, fl, mm, x)
    BY <1>1, <2>1, ManyRead
  <2> QED
    BY <2>4, <2>5, <2>6, Zenon
<1>5. ASSUME NEW j \in 1..n PROVE F(j).ok = TRUE /\ AlikeFlat(F(j).m, m.sessions[j])
  <2> DEFINE b == m.sessions[j]
  <2>1. IsFlat(w, fs, b) /\ FitsFlat(fs, b)
    BY <1>1, <1>2, FlatFits DEF ToSet, Flat, Fits
  <2>2. fs = Fields(s, "sessionBlob") /\ Sound(fs)
    BY EncodingsAgree, EncodingsSound DEF Language, Flat
  <2>3. F(j) = TakeFields(s, fs, Reader(PutFlat(w, fs, b)))
    BY <1>3, <2>2 DEF TakeFrame
  <2> HIDE DEF fs, b, F
  <2>4. LET d == TakeFields(s, fs, Reader(PutFlat(w, fs, b)))
        IN  d.ok = TRUE /\ AlikeFlat(d.m, b)
    BY <2>1, <2>2, FlatRead
  <2>5. F(j).ok = TRUE /\ AlikeFlat(F(j).m, b)
    BY <2>3, <2>4, Zenon
  <2> QED
    BY <2>5 DEF b
<1> DEFINE frames == [j \in DOMAIN t.val |-> TakeFrame(s, t.val[j])]
           msg == [sessions |-> [j \in DOMAIN frames |-> frames[j].m]]
           d == Decode(s, "stateBlob", Encode(w, "stateBlob", m))
<1>6. d = IF t.ok /\ \A j \in DOMAIN frames : frames[j].ok THEN [t EXCEPT !.m = msg] ELSE Fails(t)
  BY Zenon DEF Decode, Encode, x
<1> HIDE DEF t
<1>7. t.ok = TRUE /\ t.val = x
  BY <1>4 DEF Holds
<1>8. DOMAIN frames = 1..n /\ \A j \in 1..n : frames[j] = F(j)
  BY <1>3, <1>7
<1> HIDE DEF frames, d
<1>9. d = [t EXCEPT !.m = msg]
  <2>1. \A j \in DOMAIN frames : frames[j].ok
    BY <1>5, <1>8
  <2> HIDE DEF msg
  <2> QED
    BY <1>6, <1>7, <2>1
<1>10. DOMAIN msg.sessions = 1..n /\ \A j \in 1..n : msg.sessions[j] = F(j).m
  BY <1>8
<1> HIDE DEF msg
<1>11. d.ok = TRUE /\ d.m = msg
  <2>1. Holds([t EXCEPT !.m = msg], <<>>, 0, msg, x)
    BY <1>4, FieldsHolds
  <2> QED
    BY <1>9, <2>1 DEF Holds
<1>12. AlikeMessage("stateBlob", msg, m)
  <2> HIDE DEF F
  <2> QED
    BY <1>2, <1>5, <1>10 DEF AlikeMessage
<1> QED
  BY <1>11, <1>12 DEF d

(* A list of sessions that is too long is refused, as its one field is. *)
LEMMA LongListRefused ==
  ASSUME NEW w \in Language, NEW s \in Language, NEW m, IsMessage(w, "sessionList", m),
         ~ Fits("sessionList", m)
  PROVE  Decode(s, "sessionList", Encode(w, "sessionList", m)).ok = FALSE
<1> DEFINE f == Req("keys", "texts")
           fs == <<f>>
           x == m.keys
           b == PutMany(x)
           r == Reader(b)
<1>1. Fields(w, "sessionList") = fs /\ Fields(s, "sessionList") = fs
  <2>1. \A z \in Language : Fields(z, "sessionList") = fs
    BY DEF Fields, JsEncoding, GoEncoding, JsSessionList, GoSessionList, Language
  <2> QED
    BY <2>1
<1>2. x \in Seq(Bytes) /\ Len(x) < Width /\ Len(x) > MaxArrayLength
  <2>1. IsFlat(w, fs, m)
    BY <1>1 DEF IsMessage
  <2>2. 1 \in DOMAIN fs /\ fs[1] = f /\ f.kind = "texts" /\ f.name = "keys"
    BY DEF Req
  <2>3. x \in Writable(w, f)
    BY <2>1, <2>2 DEF IsFlat
  <2>4. x \in Seq(Bytes) /\ Len(x) < Width
    BY <2>2, <2>3 DEF Writable
  <2> QED
    BY <2>4, MaxArrayAssumption DEF Fits
<1>3. b \in Seq(Byte)
  BY <1>2, ManyTyped
<1>4. Encode(w, "sessionList", m) = b
  <2>1. Encode(w, "sessionList", m) = PutFlat(w, fs, m)
    BY <1>1 DEF Encode
  <2>2. Sound(fs)
    BY <1>1, EncodingsSound DEF Flat
  <2>3. IsFlat(w, fs, m)
    BY <1>1 DEF IsMessage
  <2> HIDE DEF fs
  <2>4. PICK C : Parted(w, fs, m, C)
    BY <2>2, <2>3, FlatParts
  <2> USE DEF fs
  <2>5. Len(fs) = 1 /\ fs[1] = f
    OBVIOUS
  <2>6. PutFlat(w, fs, m) = C[1] /\ C[2] = <<>> /\ C[1] = PutField(w, fs, m, f) \o C[2]
    <3> HIDE DEF fs, f
    <3>1. 1 \in 1..1
      OBVIOUS
    <3> QED
      BY <2>4, <2>5, <3>1 DEF Parted
  <2>7. PutField(w, fs, m, f) = b
    BY DEF PutField, Req
  <2>8. b \o <<>> = b
    <3> HIDE DEF b
    <3> QED
      BY <1>3, ConcatEmptySeq
  <2> HIDE DEF b, fs, f
  <2> QED
    BY <2>1, <2>6, <2>7, <2>8, Zenon
<1>5. TakeMany(r) = Fails(r)
  <2>1. b \o <<>> = b
    <3> HIDE DEF b
    <3> QED
      BY <1>3, ConcatEmptySeq
  <2>2. Holds(r, b \o <<>>, 0, <<>>, None)
    BY <2>1, ReaderHolds, Zenon
  <2>3. <<>> \in Seq(Byte)
    OBVIOUS
  <2>4. \A z \in Seq(Byte) : \A q, fl, mm, v :
          Holds(q, PutMany(x) \o z, fl, mm, v) => TakeMany(q) = Fails(q)
    BY <1>2, ManyRefused
  <2> QED
    BY <2>2, <2>3, <2>4, Zenon
<1>6. TakeField(s, f, r).ok = FALSE
  <2>1. TakeValue(s, f, r) = TakeMany(r) /\ f.kind # "flags"
    BY DEF TakeValue, Req
  <2>2. DOMAIN r = {"ok", "rest", "flags", "m", "val"}
    BY ReaderHolds DEF Holds
  <2> DEFINE t == TakeValue(s, f, r)
             msg == [n \in DOMAIN r.m \cup {f.name} |-> IF n = f.name THEN t.val ELSE r.m[n]]
  <2>3. TakeField(s, f, r) = [t EXCEPT !.m = msg]
    BY <2>1, Zenon DEF TakeField
  <2>4. t = Fails(r)
    BY <1>5, <2>1, Zenon
  <2> HIDE DEF t, r, f, msg
  <2>5. DOMAIN t = {"ok", "rest", "flags", "m", "val"} /\ t.ok = FALSE
    BY <2>2, <2>4, FailsHolds, Zenon
  <2>6. [t EXCEPT !.m = msg].ok = t.ok
    BY <2>5, Zenon
  <2> QED
    BY <2>3, <2>5, <2>6, Zenon
<1> DEFINE Item(i, a) == The({TakeField(s, fs[i], d) : d \in {a}})
           Step(D) == [i \in 0..Len(fs) |-> IF i = 0 THEN r ELSE Item(i, D[i - 1])]
           D == CHOOSE D : D = Step(D)
<1>7. TakeFields(s, fs, r) = D[Len(fs)]
  BY DEF TakeFields, D, Step, Item
<1>8. Len(fs) = 1 /\ fs[1] = f
  OBVIOUS
<1> HIDE DEF D, f, r
<1>9. Item(1, r) = TakeField(s, f, r)
  <2>1. {TakeField(s, fs[1], d) : d \in {r}} = {TakeField(s, f, r)}
    BY <1>8
  <2> QED
    BY <2>1, TheOne, Zenon
<1> HIDE DEF Item, fs
<1>10. D = Step(D)
  <2> DEFINE F == [i \in 0..1 |-> IF i = 0 THEN r ELSE Item(1, r)]
  <2>1. F = Step(F)
    <3>1. \A i \in 0..1 : i = 0 \/ i = 1
      OBVIOUS
    <3>2. F[0] = r /\ F[1] = Item(1, r)
      OBVIOUS
    <3>3. \A i \in 0..1 : F[i] = IF i = 0 THEN r ELSE Item(i, F[i - 1])
      BY <3>1, <3>2
    <3>4. F = [i \in 0..1 |-> F[i]]
      OBVIOUS
    <3> HIDE DEF F
    <3> QED
      BY <1>8, <3>3, <3>4
  <2>2. \E G : G = Step(G)
    BY <2>1
  <2> HIDE DEF Step
  <2> QED
    BY <2>2 DEF D
<1>11. D[1] = Item(1, r)
  <2>1. D = [i \in 0..1 |-> IF i = 0 THEN r ELSE Item(i, D[i - 1])]
    BY <1>8, <1>10
  <2>2. D[0] = r /\ D[1] = Item(1, D[0])
    BY <2>1
  <2> QED
    BY <2>2
<1>12. Decode(s, "sessionList", b) = TakeFields(s, fs, r)
  BY <1>1 DEF Decode, r
<1> QED
  BY <1>4, <1>6, <1>7, <1>8, <1>9, <1>11, <1>12

(* So is a state blob with too many sessions. *)
LEMMA LongBlobRefused ==
  ASSUME NEW w \in Language, NEW s \in Language, NEW m, IsMessage(w, "stateBlob", m),
         ~ Fits("stateBlob", m)
  PROVE  Decode(s, "stateBlob", Encode(w, "stateBlob", m)).ok = FALSE
<1> DEFINE x == Frames(w, m)
           b == PutMany(x)
           r == Reader(b)
           t == TakeMany(r)
           frames == [j \in DOMAIN t.val |-> TakeFrame(s, t.val[j])]
           msg == [sessions |-> [j \in DOMAIN frames |-> frames[j].m]]
<1>1. /\ x \in Seq(Bytes) /\ Len(m.sessions) < Width /\ Len(m.sessions) \in Nat
      /\ DOMAIN m.sessions = 1..Len(m.sessions) /\ Len(m.sessions) > MaxArrayLength
  <2>1. m.sessions \in Seq(ToSet(m.sessions)) /\ x \in Seq(Bytes) /\ Len(m.sessions) < Width
    BY DEF IsMessage
  <2>2. Len(m.sessions) \in Nat /\ DOMAIN m.sessions = 1..Len(m.sessions)
    BY <2>1
  <2> QED
    BY <2>1, <2>2, MaxArrayAssumption DEF Fits
<1>2. Len(x) = Len(m.sessions)
  BY <1>1 DEF Frames
<1> HIDE DEF x
<1>3. t = Fails(r)
  <2>1. b \in Seq(Byte)
    BY <1>1, <1>2, ManyTyped
  <2>2. b \o <<>> = b
    <3> HIDE DEF b
    <3> QED
      BY <2>1, ConcatEmptySeq
  <2>3. Holds(r, b \o <<>>, 0, <<>>, None)
    BY <2>2, ReaderHolds, Zenon
  <2>4. <<>> \in Seq(Byte)
    OBVIOUS
  <2>5. \A z \in Seq(Byte) : \A q, fl, mm, v :
          Holds(q, PutMany(x) \o z, fl, mm, v) => TakeMany(q) = Fails(q)
    BY <1>1, <1>2, ManyRefused
  <2> QED
    BY <2>3, <2>4, <2>5, Zenon
<1>4. DOMAIN r = {"ok", "rest", "flags", "m", "val"}
  BY ReaderHolds DEF Holds
<1>5. Decode(s, "stateBlob", Encode(w, "stateBlob", m))
        = IF t.ok /\ \A j \in DOMAIN frames : frames[j].ok THEN [t EXCEPT !.m = msg] ELSE Fails(t)
  BY Zenon DEF Decode, Encode, x
<1> HIDE DEF t, frames, msg, b, r
<1>6. DOMAIN t = {"ok", "rest", "flags", "m", "val"} /\ t.ok = FALSE
  BY <1>3, <1>4, FailsHolds, Zenon
<1>7. Fails(t).ok = FALSE
  BY <1>6, FailsHolds, Zenon
<1> QED
  BY <1>5, <1>6, <1>7

\* A message that either side writes is read by either side, whole and without a mistake, if no
\* array in it is over compact-encoding's limit: no field is swapped, cut or shifted, and what
\* differs is only that what is absent and what is empty are one to the other language
\* (messages.js and schema.go).
THEOREM MessageRead ==
  ASSUME NEW w \in Language, NEW s \in Language, NEW type \in Flat \cup {"stateBlob"},
         NEW m, IsMessage(w, type, m), Fits(type, m)
  PROVE  LET d == Decode(s, type, Encode(w, type, m))
         IN  d.ok = TRUE /\ AlikeMessage(type, d.m, m)
BY FlatMessageRead, StateBlobRead

\* A message with an array over the limit, which either side can write, is read by neither
\* (schema.go:360, 433).
THEOREM LongArraysRefused ==
  ASSUME NEW w \in Language, NEW s \in Language, NEW type \in Flat \cup {"stateBlob"},
         NEW m, IsMessage(w, type, m), ~ Fits(type, m)
  PROVE  Decode(s, type, Encode(w, type, m)).ok = FALSE
<1>1. type \in {"sessionList", "stateBlob"}
  BY DEF Fits
<1> QED
  BY <1>1, LongListRefused, LongBlobRefused

\* Only a message of no fields has no bytes.
LEMMA MessageSize ==
  ASSUME NEW w \in Language, NEW type \in Flat \cup {"stateBlob"}, NEW m, IsMessage(w, type, m),
         Encode(w, type, m) = <<>>
  PROVE  type = "empty"
<1> SUFFICES ASSUME type # "empty" PROVE FALSE
  OBVIOUS
<1>1. CASE type = "stateBlob"
  <2> DEFINE x == Frames(w, m)
  <2>1. x \in Seq(Bytes) /\ Len(m.sessions) < Width
    BY <1>1 DEF IsMessage
  <2>2. Len(x) = Len(m.sessions)
    <3>1. m.sessions \in Seq(ToSet(m.sessions))
      BY <1>1 DEF IsMessage
    <3>2. Len(m.sessions) \in Nat /\ DOMAIN m.sessions = 1..Len(m.sessions)
      BY <3>1
    <3> QED
      BY <3>2 DEF Frames
  <2>3. Encode(w, type, m) = PutMany(x)
    BY <1>1 DEF Encode
  <2> HIDE DEF x
  <2>4. Len(PutMany(x)) >= 1
    BY <2>1, <2>2, ManyTyped
  <2>5. Len(<<>>) = 0
    OBVIOUS
  <2>6. PutMany(x) = <<>>
    BY <2>3
  <2> QED
    BY <2>4, <2>5, <2>6
<1>2. CASE type # "stateBlob"
  <2> DEFINE fs == Fields(w, type)
  <2>1. IsFlat(w, fs, m) /\ Encode(w, type, m) = PutFlat(w, fs, m) /\ type \in Flat
    BY <1>2 DEF IsMessage, Encode
  <2>2. Sound(fs)
    BY <2>1, EncodingsSound
  <2>3. Len(fs) >= 1
    <3>1. Len(Fields("js", type)) >= 1
      <4>1. Len(JsChatRequest) >= 1 /\ Len(JsChatChunk) >= 1 /\ Len(JsSessionScope) >= 1
        BY DEF JsChatRequest, JsChatChunk, JsSessionScope
      <4>2. Len(JsSessionKey) >= 1 /\ Len(JsSessionList) >= 1 /\ Len(JsSessionBlob) >= 1
        BY DEF JsSessionKey, JsSessionList, JsSessionBlob
      <4>3. Len(JsToolDef) >= 1 /\ Len(JsToolCall) >= 1
        BY DEF JsToolDef, JsToolCall
      <4>4. Len(JsToolResult) >= 1 /\ Len(JsStateChunk) >= 1
        BY DEF JsToolResult, JsStateChunk
      <4> QED
        BY <2>1, <4>1, <4>2, <4>3, <4>4 DEF Fields, Flat, JsEncoding
    <3> QED
      BY <2>1, <3>1, EncodingsAgree DEF Language
  <2> HIDE DEF fs
  <2> QED
    BY <2>1, <2>2, <2>3, FlatSize
<1> QED
  BY <1>1, <1>2

=============================================================================
