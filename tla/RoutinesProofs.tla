--------------------------- MODULE RoutinesProofs ---------------------------
(***************************************************************************)
(* Proofs about the routines of Routines, for operands of every width, any *)
(* number of digits and both ways of working out the carry: sums,          *)
(* differences, negations, products and quotients of several digits are    *)
(* exact, the decimal ones included, and so are single quotients and the   *)
(* conditions after a comparison; a shift by any count is that many shifts *)
(* by one place.                                                           *)
(*                                                                         *)
(* The first lemmas are about single instructions of Alu: the result and   *)
(* every flag of a sum, a difference and a negation, as numbers. Then      *)
(* comes the step of each routine, that a digit more keeps it right, and   *)
(* the inductive invariant IInv with the theorems it implies. The shifts   *)
(* are last: what n places leave, for every n, instruction by instruction, *)
(* and that the handlers, with their tables and their branches for large   *)
(* counts, give the same (ShiftInv).                                       *)
(***************************************************************************)
EXTENDS Routines, FiniteSetTheorems, TLAPS

(* Quotient and remainder, when the quotient is known.                     *)
LEMMA DivUnique ==
    ASSUME NEW w \in Nat \ {0}, NEW q \in Int, NEW a \in Int,
           q * w <= a, a < q * w + w
    PROVE  a \div w = q /\ a % w = a - q * w
<1> DEFINE k == a \div w
           r == a % w
<1>1. k \in Int /\ r \in 0..(w - 1) /\ a = w * k + r
    OBVIOUS
<1> HIDE DEF k, r
<1>2. CASE k >= q + 1
  <2>1. w * (k - (q + 1)) >= 0
      BY <1>1, <1>2
  <2>2. w * (k - (q + 1)) = w * k - q * w - w
      BY <1>1
  <2> QED
      BY <1>1, <2>1, <2>2
<1>3. CASE q >= k + 1
  <2>1. w * (q - (k + 1)) >= 0
      BY <1>1, <1>3
  <2>2. w * (q - (k + 1)) = q * w - w * k - w
      BY <1>1
  <2> QED
      BY <1>1, <2>1, <2>2
<1>4. k = q
    BY <1>1, <1>2, <1>3
<1>5. r = a - q * w
    BY <1>1, <1>4
<1> QED
    BY <1>4, <1>5 DEF k, r

(* The sign bit of a number of the width of h.                             *)
LEMMA NegativeFacts ==
    ASSUME NEW h \in Nat \ {0}, NEW a \in 0..(2 * h - 1)
    PROVE  Negative(h, a) <=> a >= h
<1>1. CASE a < h
  <2>1. a \div h = 0
      BY <1>1, DivUnique, 0 * h = 0
  <2> QED
      BY <1>1, <2>1 DEF Negative
<1>2. CASE a >= h
  <2>1. a \div h = 1
      BY <1>2, DivUnique, 1 * h = h
  <2> QED
      BY <1>2, <2>1 DEF Negative
<1> QED
    BY <1>1, <1>2

(* The bit above the operand, and what is left below it, of a sum or a     *)
(* difference of two numbers and X.                                        *)
LEMMA AboveFacts ==
    ASSUME NEW h \in Nat \ {0}, NEW t \in Int, -(2 * h) <= t, t < 4 * h
    PROVE  /\ t % (2 * h) = IF t < 0 THEN t + 2 * h ELSE IF t < 2 * h THEN t ELSE t - 2 * h
           /\ Above(h, t) <=> t < 0 \/ t >= 2 * h
           /\ t % (2 * h) \in 0..(2 * h - 1)
<1> DEFINE w == 2 * h
<1>1. w \in Nat \ {0} /\ w = 2 * h /\ t \in Int
    OBVIOUS
<1> HIDE DEF w
<1>2. CASE t < 0
  <2>1. t \div w = -1 /\ t % w = t - (-1) * w
      BY <1>1, <1>2, DivUnique, (-1) * w = -w
  <2> QED
      BY <1>1, <1>2, <2>1 DEF Above, w
<1>3. CASE t \in 0..(w - 1)
  <2>1. t \div w = 0 /\ t % w = t - 0 * w
      BY <1>1, <1>3, DivUnique, 0 * w = 0
  <2> QED
      BY <1>1, <1>3, <2>1 DEF Above, w
<1>4. CASE t >= w
  <2>1. t \div w = 1 /\ t % w = t - 1 * w
      BY <1>1, <1>4, DivUnique, 1 * w = w
  <2> QED
      BY <1>1, <1>4, <2>1 DEF Above, w
<1> QED
    BY <1>1, <1>2, <1>3, <1>4
(* The value of a number of the width of h as a signed one.                *)
Value(h, a) == IF a >= h THEN a - 2 * h ELSE a

(* What an instruction must give for the result t, of which v says whether *)
(* it is too large for a signed number.                                    *)
Exact(h, q, t, v, z) ==
    /\ q.res \in 0..(2 * h - 1)
    /\ q.f \in Flags
    /\ q.f.c = q.f.x
    /\ q.f.z = (z /\ q.res = 0)
    /\ q.f.n <=> q.res >= h
    /\ q.f.v <=> v \notin (-h)..(h - 1)
    /\ q.res = t

(* Sums: X and C carry, whichever way they were computed.                  *)
LEMMA SumFacts ==
    ASSUME NEW h \in Nat \ {0}, NEW s \in 0..(2 * h - 1), NEW d \in 0..(2 * h - 1),
           NEW x \in BOOLEAN, NEW z \in BOOLEAN, NEW long \in BOOLEAN,
           NEW q, q = SumOf(long, h, s, d, x, z),
           NEW t, t = s + d + Bit(x)
    PROVE  Exact(h, q, t - Bit(q.f.x) * (2 * h), Value(h, s) + Value(h, d) + Bit(x), z)
<1> DEFINE r == t % (2 * h)
           c == IF long THEN CFlagAdd(h, s, d, r) ELSE Above(h, t)
           v == VFlagAdd(h, s, d, r)
<1>1. Bit(x) \in 0..1
    BY DEF Bit
<1>2. t \in Int /\ 0 <= t /\ t < 4 * h
    BY <1>1
<1>3. /\ r \in 0..(2 * h - 1)
      /\ r = IF t < 2 * h THEN t ELSE t - 2 * h
      /\ Above(h, t) <=> t >= 2 * h
  <2>1. -(2 * h) <= t /\ t < 4 * h
      BY <1>2
  <2>2. /\ t % (2 * h) = IF t < 0 THEN t + 2 * h ELSE IF t < 2 * h THEN t ELSE t - 2 * h
        /\ Above(h, t) <=> t < 0 \/ t >= 2 * h
        /\ t % (2 * h) \in 0..(2 * h - 1)
      BY <1>2, <2>1, AboveFacts
  <2> QED
      BY <1>2, <2>2
<1>4. q = [res |-> r, f |-> [x |-> c, n |-> Negative(h, r), z |-> z /\ r = 0, v |-> v, c |-> c]]
    BY DEF SumOf, WithFlags
<1>5. Negative(h, s) <=> s >= h
    BY NegativeFacts
<1>6. Negative(h, d) <=> d >= h
    BY NegativeFacts
<1>7. Negative(h, r) <=> r >= h
    BY <1>3, NegativeFacts
<1> HIDE DEF r
<1>8. CFlagAdd(h, s, d, r) <=> t >= 2 * h
    BY <1>1, <1>3, <1>5, <1>6, <1>7 DEF CFlagAdd
<1>9. c \in BOOLEAN /\ (c <=> t >= 2 * h)
    BY <1>3, <1>8 DEF CFlagAdd, Above
<1>10. v \in BOOLEAN /\ (v <=> Value(h, s) + Value(h, d) + Bit(x) \notin (-h)..(h - 1))
  <2>1. v \in BOOLEAN
      BY DEF VFlagAdd, Negative
  <2>2. v <=> ((s >= h) <=> ~(r >= h)) /\ ((d >= h) <=> ~(r >= h))
      BY <1>5, <1>6, <1>7, Zenon DEF VFlagAdd, Negative
  <2> HIDE DEF v
  <2>3. v <=> Value(h, s) + Value(h, d) + Bit(x) \notin (-h)..(h - 1)
      BY <1>1, <1>3, <2>2 DEF Value
  <2> QED
      BY <2>1, <2>3
<1> HIDE DEF c, v
<1>11. /\ q.res = r /\ q.f.x = c /\ q.f.c = c /\ q.f.v = v /\ q.f.n = Negative(h, r)
       /\ q.f.z = (z /\ r = 0)
    BY <1>4
<1>12. q.f \in Flags
    BY <1>4, <1>9, <1>10 DEF Flags, Negative
<1>13. r = t - Bit(c) * (2 * h)
  <2>1. CASE c
      BY <2>1, <1>3, <1>2, <1>9, 1 * (2 * h) = 2 * h DEF Bit
  <2>2. CASE ~c
      BY <2>2, <1>3, <1>2, <1>9, 0 * (2 * h) = 0 DEF Bit
  <2> QED
      BY <2>1, <2>2
<1>14. q.f.v <=> Value(h, s) + Value(h, d) + Bit(x) \notin (-h)..(h - 1)
    BY <1>10, <1>11
<1>15. q.f.n <=> q.res >= h
    BY <1>7, <1>11
<1>16. q.f.z = (z /\ q.res = 0)
    BY <1>11
<1>17. q.res \in 0..(2 * h - 1) /\ q.res = t - Bit(q.f.x) * (2 * h)
    BY <1>3, <1>11, <1>13
<1> QED
    BY <1>11, <1>12, <1>14, <1>15, <1>16, <1>17 DEF Exact
(* Differences: X and C borrow.                                            *)
LEMMA DifferenceFacts ==
    ASSUME NEW h \in Nat \ {0}, NEW s \in 0..(2 * h - 1), NEW d \in 0..(2 * h - 1),
           NEW x \in BOOLEAN, NEW z \in BOOLEAN, NEW long \in BOOLEAN,
           NEW q, q = DifferenceOf(long, h, s, d, x, z),
           NEW t, t = d - s - Bit(x)
    PROVE  Exact(h, q, t + Bit(q.f.x) * (2 * h), Value(h, d) - Value(h, s) - Bit(x), z)
<1> DEFINE r == t % (2 * h)
           c == IF long THEN CFlagSub(h, s, d, r) ELSE Above(h, t)
           v == VFlagSub(h, s, d, r)
<1>1. Bit(x) \in 0..1
    BY DEF Bit
<1>2. t \in Int /\ -(2 * h) <= t /\ t < 2 * h
    BY <1>1
<1>3. /\ r \in 0..(2 * h - 1)
      /\ r = IF t < 0 THEN t + 2 * h ELSE t
      /\ Above(h, t) <=> t < 0
  <2>1. -(2 * h) <= t /\ t < 4 * h
      BY <1>2
  <2>2. /\ t % (2 * h) = IF t < 0 THEN t + 2 * h ELSE IF t < 2 * h THEN t ELSE t - 2 * h
        /\ Above(h, t) <=> t < 0 \/ t >= 2 * h
        /\ t % (2 * h) \in 0..(2 * h - 1)
      BY <1>2, <2>1, AboveFacts
  <2> QED
      BY <1>2, <2>2
<1>4. q = [res |-> r, f |-> [x |-> c, n |-> Negative(h, r), z |-> z /\ r = 0, v |-> v, c |-> c]]
    BY DEF DifferenceOf, WithFlags
<1>5. Negative(h, s) <=> s >= h
    BY NegativeFacts
<1>6. Negative(h, d) <=> d >= h
    BY NegativeFacts
<1>7. Negative(h, r) <=> r >= h
    BY <1>3, NegativeFacts
<1> HIDE DEF r
<1>8. CFlagSub(h, s, d, r) <=> t < 0
    BY <1>1, <1>3, <1>5, <1>6, <1>7 DEF CFlagSub
<1>9. c \in BOOLEAN /\ (c <=> t < 0)
    BY <1>3, <1>8 DEF CFlagSub, Above
<1>10. v \in BOOLEAN /\ (v <=> Value(h, d) - Value(h, s) - Bit(x) \notin (-h)..(h - 1))
  <2>1. v \in BOOLEAN
      BY DEF VFlagSub, Negative
  <2>2. v <=> ((s >= h) <=> ~(d >= h)) /\ ((r >= h) <=> ~(d >= h))
      BY <1>5, <1>6, <1>7, Zenon DEF VFlagSub, Negative
  <2> HIDE DEF v
  <2>3. v <=> Value(h, d) - Value(h, s) - Bit(x) \notin (-h)..(h - 1)
      BY <1>1, <1>3, <2>2 DEF Value
  <2> QED
      BY <2>1, <2>3
<1> HIDE DEF c, v
<1>11. /\ q.res = r /\ q.f.x = c /\ q.f.c = c /\ q.f.v = v /\ q.f.n = Negative(h, r)
       /\ q.f.z = (z /\ r = 0)
    BY <1>4
<1>12. q.f \in Flags
    BY <1>4, <1>9, <1>10 DEF Flags, Negative
<1>13. r = t + Bit(c) * (2 * h)
  <2>1. CASE c
      BY <2>1, <1>3, <1>2, <1>9, 1 * (2 * h) = 2 * h DEF Bit
  <2>2. CASE ~c
      BY <2>2, <1>3, <1>2, <1>9, 0 * (2 * h) = 0 DEF Bit
  <2> QED
      BY <2>1, <2>2
<1>14. q.f.v <=> Value(h, d) - Value(h, s) - Bit(x) \notin (-h)..(h - 1)
    BY <1>10, <1>11
<1>15. q.f.n <=> q.res >= h
    BY <1>7, <1>11
<1>16. q.f.z = (z /\ q.res = 0)
    BY <1>11
<1>17. q.res \in 0..(2 * h - 1) /\ q.res = t + Bit(q.f.x) * (2 * h)
    BY <1>3, <1>11, <1>13
<1> QED
    BY <1>11, <1>12, <1>14, <1>15, <1>16, <1>17 DEF Exact
(* Negations are differences from 0.                                       *)
LEMMA NegationFacts ==
    ASSUME NEW h \in Nat \ {0}, NEW s \in 0..(2 * h - 1),
           NEW x \in BOOLEAN, NEW z \in BOOLEAN, NEW long \in BOOLEAN,
           NEW q, q = NegationOf(long, h, s, x, z),
           NEW t, t = 0 - s - Bit(x)
    PROVE  Exact(h, q, t + Bit(q.f.x) * (2 * h), 0 - Value(h, s) - Bit(x), z)
<1> DEFINE r == t % (2 * h)
           c == IF long THEN CFlagSub(h, s, 0, r) ELSE Above(h, t)
           v == Negative(h, s) /\ Negative(h, r)
<1>1. Bit(x) \in 0..1
    BY DEF Bit
<1>2. t \in Int /\ -(2 * h) <= t /\ t < 2 * h
    BY <1>1
<1>3. /\ r \in 0..(2 * h - 1)
      /\ r = IF t < 0 THEN t + 2 * h ELSE t
      /\ Above(h, t) <=> t < 0
  <2>1. -(2 * h) <= t /\ t < 4 * h
      BY <1>2
  <2>2. /\ t % (2 * h) = IF t < 0 THEN t + 2 * h ELSE IF t < 2 * h THEN t ELSE t - 2 * h
        /\ Above(h, t) <=> t < 0 \/ t >= 2 * h
        /\ t % (2 * h) \in 0..(2 * h - 1)
      BY <1>2, <2>1, AboveFacts
  <2> QED
      BY <1>2, <2>2
<1>4. q = [res |-> r, f |-> [x |-> c, n |-> Negative(h, r), z |-> z /\ r = 0, v |-> v, c |-> c]]
    BY DEF NegationOf, WithFlags
<1>5. Negative(h, s) <=> s >= h
    BY NegativeFacts
<1>6. ~Negative(h, 0)
    BY NegativeFacts, 0 < h
<1>7. Negative(h, r) <=> r >= h
    BY <1>3, NegativeFacts
<1> HIDE DEF r
<1>8. CFlagSub(h, s, 0, r) <=> t < 0
    BY <1>1, <1>3, <1>5, <1>6, <1>7 DEF CFlagSub
<1>9. c \in BOOLEAN /\ (c <=> t < 0)
    BY <1>3, <1>8 DEF CFlagSub, Above
<1>10. v \in BOOLEAN /\ (v <=> 0 - Value(h, s) - Bit(x) \notin (-h)..(h - 1))
  <2>1. v \in BOOLEAN
      BY DEF Negative
  <2>2. v <=> (s >= h) /\ (r >= h)
      BY <1>5, <1>6, <1>7, Zenon DEF Negative
  <2> HIDE DEF v
  <2>3. v <=> 0 - Value(h, s) - Bit(x) \notin (-h)..(h - 1)
      BY <1>1, <1>3, <2>2 DEF Value
  <2> QED
      BY <2>1, <2>3
<1> HIDE DEF c, v
<1>11. /\ q.res = r /\ q.f.x = c /\ q.f.c = c /\ q.f.v = v /\ q.f.n = Negative(h, r)
       /\ q.f.z = (z /\ r = 0)
    BY <1>4
<1>12. q.f \in Flags
    BY <1>4, <1>9, <1>10 DEF Flags, Negative
<1>13. r = t + Bit(c) * (2 * h)
  <2>1. CASE c
      BY <2>1, <1>3, <1>2, <1>9, 1 * (2 * h) = 2 * h DEF Bit
  <2>2. CASE ~c
      BY <2>2, <1>3, <1>2, <1>9, 0 * (2 * h) = 0 DEF Bit
  <2> QED
      BY <2>1, <2>2
<1>14. q.f.v <=> 0 - Value(h, s) - Bit(x) \notin (-h)..(h - 1)
    BY <1>10, <1>11
<1>15. q.f.n <=> q.res >= h
    BY <1>7, <1>11
<1>16. q.f.z = (z /\ q.res = 0)
    BY <1>11
<1>17. q.res \in 0..(2 * h - 1) /\ q.res = t + Bit(q.f.x) * (2 * h)
    BY <1>3, <1>11, <1>13
<1> QED
    BY <1>11, <1>12, <1>14, <1>15, <1>16, <1>17 DEF Exact

(* A digit r, below w, put above the number res of the weight W.           *)
LEMMA NumberAbove ==
    ASSUME NEW w \in Nat \ {0}, NEW W \in Nat \ {0}, NEW res \in 0..(W - 1),
           NEW r \in 0..(w - 1)
    PROVE  /\ W * w \in Nat \ {0}
           /\ res + r * W \in 0..(W * w - 1)
           /\ res + r * W = 0 <=> res = 0 /\ r = 0
<1> DEFINE P == r * W
           Q == W * w
<1>1. P \in Nat /\ Q \in Nat \ {0} /\ (P = 0 <=> r = 0)
    OBVIOUS
<1>2. Q - W - P = W * (w - 1 - r) /\ W * (w - 1 - r) >= 0
    OBVIOUS
<1>3. Q - W - P >= 0
    BY <1>2
<1> HIDE DEF P, Q
<1>4. res + P \in 0..(Q - 1) /\ (res + P = 0 <=> res = 0 /\ r = 0)
    BY <1>1, <1>3
<1> QED
    BY <1>1, <1>4 DEF P, Q

(* The equation of a routine, with a turn more: k is carried into the      *)
(* turn, k2 out of it.                                                     *)
LEMMA EquationAbove ==
    ASSUME NEW W \in Int, NEW w \in Int, NEW res \in Int, NEW r \in Int, NEW k \in Int,
           NEW k2 \in Int, NEW T \in Int, NEW u \in Int,
           res + k * W = T, r + k2 * w = u + k
    PROVE  res + r * W + k2 * (W * w) = T + u * W
<1>1. (r + k2 * w) * W = (u + k) * W
    OBVIOUS
<1>2. (r + k2 * w) * W = r * W + k2 * (W * w)
    OBVIOUS
<1>3. (u + k) * W = u * W + k * W
    OBVIOUS
<1>4. r * W \in Int /\ u * W \in Int /\ k * W \in Int /\ k2 * (W * w) \in Int
    OBVIOUS
<1>5. r * W + k2 * (W * w) = u * W + k * W
    BY <1>1, <1>2, <1>3
<1> DEFINE P1 == r * W
           P2 == k2 * (W * w)
           P3 == u * W
           P4 == k * W
<1> HIDE DEF P1, P2, P3, P4
<1>6. res + P1 + P2 = T + P3
  <2>1. P1 \in Int /\ P2 \in Int /\ P3 \in Int /\ P4 \in Int /\ P1 + P2 = P3 + P4
        /\ res + P4 = T /\ res \in Int /\ T \in Int
      BY <1>4, <1>5 DEF P1, P2, P3, P4
  <2> QED
      BY ONLY <2>1
<1> QED
    BY <1>6 DEF P1, P2, P3

LEMMA DigitAbove ==
    ASSUME NEW h \in Nat \ {0}, NEW W \in Nat \ {0}, NEW res \in 0..(W - 1),
           NEW r \in 0..(2 * h - 1)
    PROVE  /\ W * (2 * h) \in Nat \ {0}
           /\ res + r * W \in 0..(W * (2 * h) - 1)
           /\ res + r * W = 0 <=> res = 0 /\ r = 0
           /\ 2 * (res + r * W) >= W * (2 * h) <=> r >= h
<1> DEFINE P == r * W
           Q == W * (2 * h)
           w == 2 * h
<1>1. Q \in Nat \ {0} /\ res + P \in 0..(Q - 1) /\ (res + P = 0 <=> res = 0 /\ r = 0)
  <2>1. w \in Nat \ {0} /\ r \in 0..(w - 1)
      OBVIOUS
  <2> HIDE DEF w
  <2>2. W * w \in Nat \ {0} /\ res + r * W \in 0..(W * w - 1)
        /\ (res + r * W = 0 <=> res = 0 /\ r = 0)
      BY <2>1, NumberAbove
  <2> QED
      BY <2>2 DEF w
<1>2. P \in Nat
    OBVIOUS
<1>3. CASE r >= h
  <2>1. 2 * P - Q = 2 * (W * (r - h)) /\ W * (r - h) >= 0
      BY <1>3
  <2>2. 2 * P >= Q
      BY <1>1, <1>2, <2>1
  <2> HIDE DEF P, Q
  <2>3. 2 * (res + P) >= Q
      BY <1>1, <1>2, <2>2
  <2> QED
      BY <1>1, <1>3, <2>3 DEF P, Q
<1>4. CASE r < h
  <2>1. 2 * P - Q + 2 * W = 2 * (W * (r - h + 1)) /\ W * (r - h + 1) <= 0
      BY <1>4
  <2>2. 2 * P + 2 * W <= Q
      BY <1>1, <1>2, <2>1
  <2> HIDE DEF P, Q
  <2>3. ~(2 * (res + P) >= Q)
      BY <1>1, <1>2, <2>2
  <2> QED
      BY <1>1, <1>4, <2>3 DEF P, Q
<1> QED
    BY <1>3, <1>4

(* The same number and digit as signed ones, and when a sum of them is too *)
(* large or too small: res + (k + u) * W, with res below W.                *)
LEMMA SignAbove ==
    ASSUME NEW h \in Nat \ {0}, NEW W \in Nat \ {0}, NEW res \in 0..(W - 1), NEW e \in Int
    PROVE  /\ 2 * (res + e * W) >= W * (2 * h) <=> e >= h
           /\ 2 * (res + e * W) < -(W * (2 * h)) <=> e < -h
<1> DEFINE P == e * W
           Q == W * h
<1>1. P \in Int /\ Q \in Int /\ W * (2 * h) = 2 * Q
    OBVIOUS
<1>2. P - Q = W * (e - h) /\ P + Q = W * (e + h)
    OBVIOUS
<1>3. e >= h => W * (e - h) >= 0
    OBVIOUS
<1>4. e < h => W * (e - h) <= -W
    OBVIOUS
<1>5. e < -h => W * (e + h) <= -W
    OBVIOUS
<1>6. e >= -h => W * (e + h) >= 0
    OBVIOUS
<1> HIDE DEF P, Q
<1>7. P >= Q <=> e >= h
    BY <1>1, <1>2, <1>3, <1>4
<1>8. P <= Q - W <=> e < h
    BY <1>1, <1>2, <1>3, <1>4
<1>9. P <= -Q - W <=> e < -h
    BY <1>1, <1>2, <1>5, <1>6
<1>10. P >= -Q <=> e >= -h
    BY <1>1, <1>2, <1>5, <1>6
<1>11. 2 * (res + P) >= 2 * Q <=> e >= h
    BY <1>1, <1>7, <1>8
<1>12. 2 * (res + P) < -(2 * Q) <=> e < -h
    BY <1>1, <1>9, <1>10
<1> QED
    BY <1>1, <1>11, <1>12 DEF P

-----------------------------------------------------------------------------
(* The jobs that add, subtract or negate.                                  *)
BinaryJobs ==
    [kind : BinaryKinds, long : BOOLEAN, size : Sizes, n : Nat, weight : Nat \ {0},
     src : Nat, dst : Nat, res : Nat, x : BOOLEAN, f : Flags]

(* What X adds to the total of a routine, and the totals of its numbers as *)
(* unsigned and as signed ones.                                            *)
CarryOf(j, b) == IF j.kind \in {"add", "abcd"} THEN Bit(b) ELSE -Bit(b)
Signless(j, a) == IF j.kind \in {"add", "abcd"} THEN a ELSE -a
SignedIn(W, a) == IF 2 * a >= W THEN a - W ELSE a
Total(j) == j.dst + Signless(j, j.src) + CarryOf(j, j.x)
SignedTotal(j) ==
    SignedIn(j.weight, j.dst) + Signless(j, SignedIn(j.weight, j.src)) + CarryOf(j, j.x)

(* What is so of such a job after any number of digits.                    *)
Right(j) ==
    /\ j.src \in 0..(j.weight - 1)
    /\ j.dst \in 0..(j.weight - 1)
    /\ j.res \in 0..(j.weight - 1)
    /\ j.kind = "neg" => j.dst = 0
    /\ j.res + CarryOf(j, j.f.x) * j.weight = Total(j)
    /\ j.f.z <=> j.res = 0
    /\ j.f.c = j.f.x
    /\ j.n > 0 =>
         /\ j.f.n <=> 2 * j.res >= j.weight
         /\ j.f.v <=> \/ 2 * SignedTotal(j) < -j.weight
                      \/ 2 * SignedTotal(j) >= j.weight

(* A number with a digit above it, as a signed one.                        *)
LEMMA SignedAbove ==
    ASSUME NEW h \in Nat \ {0}, NEW W \in Nat \ {0}, NEW a \in 0..(W - 1),
           NEW s \in 0..(2 * h - 1)
    PROVE  SignedIn(W * (2 * h), a + s * W) = a + Value(h, s) * W
<1>1. 2 * (a + s * W) >= W * (2 * h) <=> s >= h
    BY DigitAbove
<1>2. (s - 2 * h) * W = s * W - W * (2 * h)
    OBVIOUS
<1> QED
    BY <1>1, <1>2 DEF SignedIn, Value

(* A digit more, added, subtracted or negated as Exact has it, keeps the   *)
(* job right: its equation, Z, and the sign flags of the longer numbers.   *)
LEMMA RightTurn ==
    ASSUME NEW j \in BinaryJobs, Right(j),
           NEW h, h = j.size.h,
           NEW s \in 0..(2 * h - 1), NEW d \in 0..(2 * h - 1), j.kind = "neg" => d = 0,
           NEW q,
           Exact(h, q, (d + Signless(j, s) + CarryOf(j, j.f.x)) - CarryOf(j, q.f.x) * (2 * h),
                 Value(h, d) + Signless(j, Value(h, s)) + CarryOf(j, j.f.x), j.f.z),
           NEW j2, j2 = [j EXCEPT !.n = @ + 1, !.weight = @ * (2 * h),
                                  !.src = @ + s * j.weight, !.dst = @ + d * j.weight,
                                  !.res = @ + q.res * j.weight, !.f = q.f]
    PROVE  j2 \in BinaryJobs /\ Right(j2)
<1> DEFINE W == j.weight
           w == 2 * h
           k == CarryOf(j, j.f.x)
           k2 == CarryOf(j, q.f.x)
           u == d + Signless(j, s)
           e == Value(h, d) + Signless(j, Value(h, s))
<1>1. /\ h \in Nat \ {0} /\ W \in Nat \ {0} /\ j.n \in Nat
      /\ j.x \in BOOLEAN /\ j.f \in Flags /\ j.kind \in BinaryKinds
  <2>1. j.size \in Sizes
      BY DEF BinaryJobs
  <2>2. j.size.h \in Nat \ {0}
      BY <2>1, SizesAssumption
  <2> QED
      BY <2>2 DEF BinaryJobs
<1>2. /\ q.res \in 0..(w - 1) /\ q.f \in Flags /\ q.f.c = q.f.x
      /\ q.f.z = (j.f.z /\ q.res = 0)
      /\ q.f.n <=> q.res >= h
      /\ q.f.v <=> e + k \notin (-h)..(h - 1)
      /\ q.res = (u + k) - k2 * w
    BY DEF Exact
<1>3. k \in Int /\ k2 \in Int /\ CarryOf(j, j.x) \in Int
    BY DEF CarryOf, Bit
<1>4. u \in Int /\ e \in Int /\ Value(h, s) \in Int /\ Value(h, d) \in Int
    BY <1>1 DEF Signless, Value
<1>5. /\ j.src \in 0..(W - 1) /\ j.dst \in 0..(W - 1) /\ j.res \in 0..(W - 1)
      /\ j.kind = "neg" => j.dst = 0
      /\ j.res + k * W = Total(j)
      /\ j.f.z <=> j.res = 0
    BY DEF Right
<1>6. /\ j2.kind = j.kind /\ j2.x = j.x /\ j2.n = j.n + 1 /\ j2.weight = W * w
      /\ j2.src = j.src + s * W /\ j2.dst = j.dst + d * W
      /\ j2.res = j.res + q.res * W /\ j2.f = q.f
    BY DEF BinaryJobs
<1> HIDE DEF k, k2, u, e
<1>7. /\ W * w \in Nat \ {0}
      /\ j2.res \in 0..(W * w - 1)
      /\ j2.res = 0 <=> j.res = 0 /\ q.res = 0
      /\ 2 * j2.res >= W * w <=> q.res >= h
  <2>1. /\ h \in Nat \ {0} /\ W \in Nat \ {0}
        /\ j.res \in 0..(W - 1) /\ q.res \in 0..(2 * h - 1)
      BY <1>1, <1>2, <1>5
  <2>2. /\ W * (2 * h) \in Nat \ {0}
        /\ j.res + q.res * W \in 0..(W * (2 * h) - 1)
        /\ j.res + q.res * W = 0 <=> j.res = 0 /\ q.res = 0
        /\ 2 * (j.res + q.res * W) >= W * (2 * h) <=> q.res >= h
      BY <2>1, DigitAbove
  <2>3. j2.res = j.res + q.res * W
      BY <1>6
  <2> HIDE DEF W
  <2> QED
      BY <2>2, <2>3
<1>8. j2.src \in 0..(W * w - 1)
    BY <1>1, <1>5, <1>6, DigitAbove
<1>9. j2.dst \in 0..(W * w - 1)
    BY <1>1, <1>5, <1>6, DigitAbove
<1>10. j2 \in BinaryJobs
  <2>1. j2.res \in Nat /\ j2.src \in Nat /\ j2.dst \in Nat /\ j.n + 1 \in Nat
      BY <1>1, <1>7, <1>8, <1>9
  <2>2. W * (2 * h) \in Nat \ {0}
      BY <1>7
  <2> QED
      BY <2>1, <2>2, <1>2, <1>6 DEF BinaryJobs
<1>11. j.kind = "neg" => j2.dst = 0
    BY <1>1, <1>5, <1>6, 0 * W = 0
<1>12. Total(j2) = Total(j) + u * W
  <2>1. (d + s) * W = d * W + s * W /\ (d + (-s)) * W = d * W - s * W
      BY <1>1
  <2>2. d * W \in Int /\ s * W \in Int
      BY <1>1
  <2> QED
      BY <1>3, <1>5, <1>6, <2>1, <2>2 DEF Total, Signless, CarryOf, u
<1>13. j2.res + CarryOf(j2, j2.f.x) * j2.weight = Total(j2)
  <2>1. q.res + k2 * w = u + k
    <3>1. k2 * w \in Int
        BY <1>1, <1>3
    <3> QED
        BY <1>2, <1>3, <1>4, <3>1
  <2>2. Total(j) \in Int /\ q.res \in Int /\ j.res \in Int /\ W \in Int /\ w \in Int
      BY <1>1, <1>2, <1>3, <1>5
  <2>3. j.res + q.res * W + k2 * (W * w) = Total(j) + u * W
    <3> DEFINE res == j.res
               r == q.res
               T == Total(j)
    <3>1. /\ W \in Int /\ w \in Int /\ res \in Int /\ r \in Int /\ k \in Int
          /\ k2 \in Int /\ T \in Int /\ u \in Int
          /\ res + k * W = T /\ r + k2 * w = u + k
        BY <1>3, <1>4, <1>5, <2>1, <2>2
    <3> HIDE DEF W, w, res, r, T
    <3>2. res + r * W + k2 * (W * w) = T + u * W
        BY ONLY <3>1, EquationAbove
    <3> QED
        BY <3>2 DEF res, r, T
  <2>4. CarryOf(j2, j2.f.x) = k2
      BY <1>6 DEF CarryOf, k2
  <2> QED
      BY <1>6, <1>12, <2>3, <2>4
<1>14. SignedTotal(j2) = j.res + (e + k) * W
  <2>1. SignedIn(W * w, j2.src) = j.src + Value(h, s) * W
      BY <1>1, <1>5, <1>6, SignedAbove
  <2>2. SignedIn(W * w, j2.dst) = j.dst + Value(h, d) * W
      BY <1>1, <1>5, <1>6, SignedAbove
  <2>3. SignedTotal(j2) = Total(j) + e * W
    <3> DEFINE a == Value(h, s)
               b == Value(h, d)
    <3>1. a \in Int /\ b \in Int
        BY <1>4
    <3> HIDE DEF a, b
    <3>2. (b + a) * W = b * W + a * W /\ (b + (-a)) * W = b * W - a * W
        BY <1>1, <3>1
    <3>3. a * W \in Int /\ b * W \in Int
        BY <1>1, <3>1
    <3>4. e = b + Signless(j, a)
        BY DEF e, a, b
    <3>5. SignedTotal(j2) = j.dst + b * W + Signless(j, j.src + a * W) + CarryOf(j, j.x)
        BY <1>6, <2>1, <2>2 DEF SignedTotal, Signless, CarryOf, a, b
    <3> QED
        BY <1>3, <1>5, <3>1, <3>2, <3>3, <3>4, <3>5 DEF Total, Signless
  <2>4. (e + k) * W = e * W + k * W /\ e * W \in Int /\ k * W \in Int
      BY <1>1, <1>3, <1>4
  <2> QED
      BY <1>3, <1>5, <2>3, <2>4
<1>15. j2.f.v <=> \/ 2 * SignedTotal(j2) < -j2.weight
                  \/ 2 * SignedTotal(j2) >= j2.weight
  <2>1. e + k \in Int
      BY <1>3, <1>4
  <2>2. /\ 2 * SignedTotal(j2) >= W * w <=> e + k >= h
        /\ 2 * SignedTotal(j2) < -(W * w) <=> e + k < -h
      BY <1>1, <1>5, <1>14, <2>1, SignAbove
  <2>3. q.f.v <=> (e + k >= h \/ e + k < -h)
      BY <1>1, <1>2, <2>1
  <2> QED
      BY <1>6, <2>2, <2>3
<1>16. /\ j2.f.z <=> j2.res = 0
       /\ j2.f.c = j2.f.x
       /\ j2.f.n <=> 2 * j2.res >= j2.weight
    BY <1>1, <1>2, <1>5, <1>6, <1>7 DEF Flags
<1> QED
    BY <1>6, <1>7, <1>8, <1>9, <1>10, <1>11, <1>13, <1>15, <1>16 DEF Right

-----------------------------------------------------------------------------
(* The part of the invariant for sums, differences and negations.          *)
BinaryInv == job.kind \in BinaryKinds => job \in BinaryJobs /\ Right(job)

HasKind == "kind" \in DOMAIN job

(* Starts are right: nothing is summed up yet.                             *)
LEMMA BinaryStart ==
    ASSUME NEW j \in BinaryStarts
    PROVE  j \in BinaryJobs /\ Right(j)
<1>1. PICK k \in BinaryKinds, l \in BOOLEAN, z \in Sizes, x \in BOOLEAN :
        j = [kind |-> k, long |-> l, size |-> z, n |-> 0, weight |-> 1,
             src |-> 0, dst |-> 0, res |-> 0, x |-> x, f |-> StartFlags(x)]
    BY DEF BinaryStarts, BinaryKinds
<1>2. StartFlags(x) \in Flags /\ StartFlags(x).x = x /\ StartFlags(x).z = TRUE
      /\ StartFlags(x).c = x
    BY DEF StartFlags, Flags
<1>3. j \in BinaryJobs
    BY <1>1, <1>2 DEF BinaryJobs
<1>4. /\ j.weight = 1 /\ j.src = 0 /\ j.dst = 0 /\ j.res = 0 /\ j.n = 0 /\ j.x = x
      /\ j.f = StartFlags(x)
    BY <1>1
<1>5. CarryOf(j, j.f.x) = CarryOf(j, j.x) /\ CarryOf(j, j.x) \in Int
    BY <1>2, <1>4 DEF CarryOf, Bit
<1>6. j.res + CarryOf(j, j.f.x) * j.weight = Total(j)
  <2> DEFINE c == CarryOf(j, j.x)
  <2>1. c * 1 = c /\ c \in Int
      BY <1>5
  <2>2. Total(j) = c
      BY <1>4, <1>5 DEF Total, Signless
  <2> HIDE DEF c
  <2>3. CarryOf(j, j.f.x) = c
      BY <1>5 DEF c
  <2> QED
      BY <1>4, <2>1, <2>2, <2>3
<1> QED
    BY <1>2, <1>3, <1>4, <1>6 DEF Right

(* A turn of the loop keeps what BinaryInv says of the job.                *)
LEMMA BinaryStep ==
    ASSUME HasKind, BinaryInv, AddDigit \/ SubDigit \/ NegDigit
    PROVE  job' \in BinaryJobs /\ Right(job')
<1> DEFINE h == job.size.h
<1>1. job.kind \in BinaryKinds
    BY DEF AddDigit, SubDigit, NegDigit, Running, BinaryKinds
<1>2. job \in BinaryJobs /\ Right(job)
    BY <1>1 DEF BinaryInv
<1>3. h \in Nat \ {0} /\ job.f \in Flags /\ job.long \in BOOLEAN
  <2>1. job.size \in Sizes
      BY <1>2 DEF BinaryJobs
  <2>2. job.size.h \in Nat \ {0}
      BY <2>1, SizesAssumption
  <2> QED
      BY <1>2, <2>2 DEF BinaryJobs
<1>4. job.f.x \in BOOLEAN /\ job.f.z \in BOOLEAN
    BY <1>3 DEF Flags
<1>5. Digits = 0..(2 * h - 1)
    BY DEF Digits
<1> HIDE DEF h
<1>6. ASSUME NEW s \in Digits, NEW d \in Digits, job.kind = "neg" => d = 0,
             NEW q, BinaryTurn(s, d, q),
             Exact(h, q, (d + Signless(job, s) + CarryOf(job, job.f.x))
                           - CarryOf(job, q.f.x) * (2 * h),
                   Value(h, d) + Signless(job, Value(h, s)) + CarryOf(job, job.f.x), job.f.z)
      PROVE  job' \in BinaryJobs /\ Right(job')
  <2>1. job' = [job EXCEPT !.n = @ + 1, !.weight = @ * (2 * h),
                           !.src = @ + s * job.weight, !.dst = @ + d * job.weight,
                           !.res = @ + q.res * job.weight, !.f = q.f]
      BY <1>6 DEF BinaryTurn, h
  <2>2. h = job.size.h
      BY DEF h
  <2> QED
      BY <1>2, <1>5, <1>6, <2>1, <2>2, RightTurn
<1>7. CASE AddDigit
  <2>1. job.kind = "add"
      BY <1>7 DEF AddDigit, Running
  <2>2. PICK s \in Digits, d \in Digits :
            BinaryTurn(s, d, Addx(job.long, h, s, d, job.f))
      BY <1>7 DEF AddDigit, h
  <2> DEFINE q == Addx(job.long, h, s, d, job.f)
             t == s + d + Bit(job.f.x)
  <2>3. q = SumOf(job.long, h, s, d, job.f.x, job.f.z)
      BY DEF Addx
  <2> HIDE DEF q
  <2>4. Exact(h, q, t - Bit(q.f.x) * (2 * h), Value(h, s) + Value(h, d) + Bit(job.f.x), job.f.z)
      BY <1>3, <1>4, <1>5, <2>3, SumFacts
  <2>5. Exact(h, q, (d + Signless(job, s) + CarryOf(job, job.f.x))
                      - CarryOf(job, q.f.x) * (2 * h),
              Value(h, d) + Signless(job, Value(h, s)) + CarryOf(job, job.f.x), job.f.z)
    <3>1. /\ CarryOf(job, job.f.x) = Bit(job.f.x) /\ CarryOf(job, q.f.x) = Bit(q.f.x)
          /\ Signless(job, s) = s /\ Signless(job, Value(h, s)) = Value(h, s)
        BY <2>1 DEF CarryOf, Signless
    <3>2. d + s + Bit(job.f.x) = t
        BY <1>3, <1>5 DEF Bit
    <3>3. Value(h, d) + Value(h, s) = Value(h, s) + Value(h, d)
        BY <1>3, <1>5 DEF Value
    <3> HIDE DEF t
    <3>4. (d + Signless(job, s) + CarryOf(job, job.f.x)) - CarryOf(job, q.f.x) * (2 * h)
            = t - Bit(q.f.x) * (2 * h)
        BY <3>1, <3>2
    <3>5. Value(h, d) + Signless(job, Value(h, s)) + CarryOf(job, job.f.x)
            = Value(h, s) + Value(h, d) + Bit(job.f.x)
        BY <3>1, <3>3, Zenon
    <3> QED
        BY <2>4, <3>4, <3>5, Zenon
  <2>6. BinaryTurn(s, d, q)
      BY <2>2 DEF q
  <2>7. job.kind = "neg" => d = 0
      BY <2>1
  <2> QED
      BY <1>6, <2>5, <2>6, <2>7, Zenon
<1>8. CASE SubDigit
  <2>1. job.kind = "sub"
      BY <1>8 DEF SubDigit, Running
  <2>2. PICK s \in Digits, d \in Digits :
            BinaryTurn(s, d, Subx(job.long, h, s, d, job.f))
      BY <1>8 DEF SubDigit, h
  <2> DEFINE q == Subx(job.long, h, s, d, job.f)
             t == d - s - Bit(job.f.x)
  <2>3. q = DifferenceOf(job.long, h, s, d, job.f.x, job.f.z)
      BY DEF Subx
  <2> HIDE DEF q
  <2>4. Exact(h, q, t + Bit(q.f.x) * (2 * h), Value(h, d) - Value(h, s) - Bit(job.f.x), job.f.z)
      BY <1>3, <1>4, <1>5, <2>3, DifferenceFacts
  <2>5. Exact(h, q, (d + Signless(job, s) + CarryOf(job, job.f.x))
                      - CarryOf(job, q.f.x) * (2 * h),
              Value(h, d) + Signless(job, Value(h, s)) + CarryOf(job, job.f.x), job.f.z)
    <3>1. /\ CarryOf(job, job.f.x) = -Bit(job.f.x) /\ CarryOf(job, q.f.x) = -Bit(q.f.x)
          /\ Signless(job, s) = -s /\ Signless(job, Value(h, s)) = -Value(h, s)
        BY <2>1 DEF CarryOf, Signless
    <3>2. d + (-s) + (-Bit(job.f.x)) = t
        BY <1>3, <1>5 DEF Bit
    <3>3. Value(h, d) + (-Value(h, s)) + (-Bit(job.f.x)) = Value(h, d) - Value(h, s) - Bit(job.f.x)
        BY <1>3, <1>5 DEF Value, Bit
    <3>4. t - (-Bit(q.f.x)) * (2 * h) = t + Bit(q.f.x) * (2 * h)
      <4>1. t \in Int
          BY <1>3, <1>5 DEF Bit
      <4> HIDE DEF t
      <4>2. CASE q.f.x
          BY <1>3, <4>1, <4>2, 1 * (2 * h) = 2 * h, (-1) * (2 * h) = -(2 * h) DEF Bit
      <4>3. CASE ~q.f.x
          BY <1>3, <4>1, <4>3, 0 * (2 * h) = 0, (-0) * (2 * h) = 0 DEF Bit
      <4> QED
          BY <4>2, <4>3
    <3> HIDE DEF t
    <3>5. (d + Signless(job, s) + CarryOf(job, job.f.x)) - CarryOf(job, q.f.x) * (2 * h)
            = t + Bit(q.f.x) * (2 * h)
        BY <3>1, <3>2, <3>4
    <3>6. Value(h, d) + Signless(job, Value(h, s)) + CarryOf(job, job.f.x)
            = Value(h, d) - Value(h, s) - Bit(job.f.x)
        BY <3>1, <3>3, Zenon
    <3> QED
        BY <2>4, <3>5, <3>6, Zenon
  <2>6. BinaryTurn(s, d, q)
      BY <2>2 DEF q
  <2>7. job.kind = "neg" => d = 0
      BY <2>1
  <2> QED
      BY <1>6, <2>5, <2>6, <2>7, Zenon
<1>9. CASE NegDigit
  <2>1. job.kind = "neg"
      BY <1>9 DEF NegDigit, Running
  <2>2. PICK s \in Digits : BinaryTurn(s, 0, Negx(job.long, h, s, job.f))
      BY <1>9 DEF NegDigit, h
  <2> DEFINE q == Negx(job.long, h, s, job.f)
             t == 0 - s - Bit(job.f.x)
  <2>3. q = NegationOf(job.long, h, s, job.f.x, job.f.z)
      BY DEF Negx
  <2> HIDE DEF q
  <2>4. Exact(h, q, t + Bit(q.f.x) * (2 * h), 0 - Value(h, s) - Bit(job.f.x), job.f.z)
      BY <1>3, <1>4, <1>5, <2>3, NegationFacts
  <2>5. Exact(h, q, (0 + Signless(job, s) + CarryOf(job, job.f.x))
                      - CarryOf(job, q.f.x) * (2 * h),
              Value(h, 0) + Signless(job, Value(h, s)) + CarryOf(job, job.f.x), job.f.z)
    <3>1. /\ CarryOf(job, job.f.x) = -Bit(job.f.x) /\ CarryOf(job, q.f.x) = -Bit(q.f.x)
          /\ Signless(job, s) = -s /\ Signless(job, Value(h, s)) = -Value(h, s)
        BY <2>1 DEF CarryOf, Signless
    <3>2. 0 + (-s) + (-Bit(job.f.x)) = t
        BY <1>3, <1>5 DEF Bit
    <3>3. Value(h, 0) + (-Value(h, s)) + (-Bit(job.f.x)) = 0 - Value(h, s) - Bit(job.f.x)
        BY <1>3, <1>5 DEF Value, Bit
    <3>4. t - (-Bit(q.f.x)) * (2 * h) = t + Bit(q.f.x) * (2 * h)
      <4>1. t \in Int
          BY <1>3, <1>5 DEF Bit
      <4> HIDE DEF t
      <4>2. CASE q.f.x
          BY <1>3, <4>1, <4>2, 1 * (2 * h) = 2 * h, (-1) * (2 * h) = -(2 * h) DEF Bit
      <4>3. CASE ~q.f.x
          BY <1>3, <4>1, <4>3, 0 * (2 * h) = 0, (-0) * (2 * h) = 0 DEF Bit
      <4> QED
          BY <4>2, <4>3
    <3> HIDE DEF t
    <3>5. (0 + Signless(job, s) + CarryOf(job, job.f.x)) - CarryOf(job, q.f.x) * (2 * h)
            = t + Bit(q.f.x) * (2 * h)
        BY <3>1, <3>2, <3>4
    <3>6. Value(h, 0) + Signless(job, Value(h, s)) + CarryOf(job, job.f.x)
            = 0 - Value(h, s) - Bit(job.f.x)
        BY <3>1, <3>3, Zenon
    <3> QED
        BY <2>4, <3>5, <3>6, Zenon
  <2>6. 0 \in Digits
      BY <1>3, <1>5
  <2>7. BinaryTurn(s, 0, q)
      BY <2>2 DEF q
  <2> QED
      BY <1>6, <2>5, <2>6, <2>7, Zenon
<1> QED
    BY <1>7, <1>8, <1>9

-----------------------------------------------------------------------------
(* Multiplications: what is so after any number of digits.                 *)
ProductJobs ==
    [kind : {"mul"}, size : Sizes, n : Nat, weight : Nat, src : Nat, by : Nat,
     res : Nat, carry : Nat]

ProductRight(j) ==
    /\ j.by \in 0..(2 * j.size.h - 1)
    /\ j.carry \in 0..(2 * j.size.h - 1)
    /\ j.res + j.carry * j.weight = j.src * j.by

ProductInv == job.kind = "mul" => job \in ProductJobs /\ ProductRight(job)

(* Divisions: what is so after any number of digits.                       *)
DivisionJobs ==
    [kind : {"div"}, size : Sizes, n : Nat, src : Nat, by : Nat, res : Nat, rem : Nat, f : Flags]

DivisionRight(j) ==
    /\ j.by \in 1..(2 * j.size.h - 1)
    /\ j.rem \in 0..(j.by - 1)
    /\ j.src = j.res * j.by + j.rem
    /\ ~j.f.v

DivisionInv == job.kind = "div" => job \in DivisionJobs /\ DivisionRight(job)

(* What fits in two digits of w.                                           *)
LEMMA TwoDigits ==
    ASSUME NEW w \in Nat \ {0}, NEW a \in Nat, a <= w * w - w
    PROVE  /\ a % (w * w) = a
           /\ a % w \in Nat
           /\ a \div w \in 0..(w - 1)
           /\ a = (a % w) + w * (a \div w)
<1> DEFINE W == w * w
           k == a \div w
           r == a % w
<1>1. W \in Nat \ {0} /\ a <= W - w
    OBVIOUS
<1>2. k \in Int /\ r \in 0..(w - 1) /\ a = w * k + r
    OBVIOUS
<1>3. a % W = a
  <2> HIDE DEF W
  <2>1. 0 * W = 0
      BY <1>1
  <2>2. a < W
      BY <1>1
  <2> QED
      BY <1>1, <2>1, <2>2, DivUnique
<1> HIDE DEF k, r
<1>4. ASSUME k < 0 PROVE FALSE
  <2>1. w * (-k - 1) >= 0 /\ w * (-k - 1) = -(w * k) - w
      BY <1>2, <1>4
  <2> QED
      BY <1>2, <2>1
<1>5. ASSUME k >= w PROVE FALSE
  <2>1. w * (k - w) >= 0 /\ w * (k - w) = w * k - W
      BY <1>2, <1>5
  <2> HIDE DEF W
  <2> QED
      BY <1>1, <1>2, <2>1
<1>6. k \in 0..(w - 1) /\ r \in Nat /\ a = r + w * k
    BY <1>2, <1>4, <1>5
<1> QED
    BY <1>3, <1>6 DEF k, r, W

(* One digit of a product: with the carry it fits in two digits.           *)
LEMMA ProductDigit ==
    ASSUME NEW w \in Nat \ {0}, NEW b \in 0..(w - 1), NEW d \in 0..(w - 1),
           NEW c \in 0..(w - 1)
    PROVE  c + b * d \in Nat /\ c + b * d <= w * w - w
<1>1. b * d <= (w - 1) * d
  <2>1. (w - 1) * d - b * d = (w - 1 - b) * d
      OBVIOUS
  <2>2. (w - 1 - b) * d >= 0
      OBVIOUS
  <2> QED
      BY <2>1, <2>2
<1>2. (w - 1) * d <= (w - 1) * (w - 1)
  <2>1. (w - 1) * (w - 1) - (w - 1) * d = (w - 1) * (w - 1 - d)
      OBVIOUS
  <2>2. (w - 1) * (w - 1 - d) >= 0
      OBVIOUS
  <2> QED
      BY <2>1, <2>2
<1>3. (w - 1) * (w - 1) = w * w - 2 * w + 1 /\ w * w \in Nat
    OBVIOUS
<1> QED
    BY <1>1, <1>2, <1>3

(* A turn of the multiplication keeps the product right.                   *)
LEMMA ProductStep ==
    ASSUME HasKind, ProductInv, MultiplyDigit
    PROVE  job' \in ProductJobs /\ ProductRight(job')
<1> DEFINE h == job.size.h
<1>1. job \in ProductJobs /\ ProductRight(job)
    BY DEF MultiplyDigit, Running, ProductInv
<1>2. h \in Nat \ {0} /\ job.weight \in Nat /\ job.src \in Nat /\ job.res \in Nat /\ job.n \in Nat
  <2>1. job.size \in Sizes
      BY <1>1 DEF ProductJobs
  <2>2. job.size.h \in Nat \ {0}
      BY <2>1, SizesAssumption
  <2> QED
      BY <1>1, <2>2 DEF ProductJobs
<1>3. /\ job.by \in 0..(2 * h - 1) /\ job.carry \in 0..(2 * h - 1)
      /\ job.res + job.carry * job.weight = job.src * job.by
    BY <1>1, SMTT(40) DEF ProductRight
<1>4. PICK d \in 0..(2 * h - 1) :
        LET p == Mulu(h, job.by, d, StartFlags(FALSE))
            q == Add(TRUE, LongSign(h), job.carry, p.res, p.f)
        IN job' = [job EXCEPT !.n = @ + 1, !.weight = @ * (2 * h),
                              !.src = @ + d * job.weight,
                              !.res = @ + (q.res % (2 * h)) * job.weight,
                              !.carry = q.res \div (2 * h)]
    BY DEF MultiplyDigit, Digits
<1> DEFINE p == Mulu(h, job.by, d, StartFlags(FALSE))
           q == Add(TRUE, LongSign(h), job.carry, p.res, p.f)
           low == q.res % (2 * h)
           W == job.weight
<1>5. job' = [job EXCEPT !.n = @ + 1, !.weight = @ * (2 * h), !.src = @ + d * W,
                         !.res = @ + low * W, !.carry = q.res \div (2 * h)]
    BY <1>4
<1>6. d \in 0..(2 * h - 1)
    BY <1>4
<1> HIDE DEF h
<1>7. /\ q.res \in Nat /\ q.res = job.carry + job.by * d
      /\ low \in Nat /\ q.res \div (2 * h) \in 0..(2 * h - 1)
      /\ q.res = low + (2 * h) * (q.res \div (2 * h))
  <2> DEFINE w == 2 * h
             a == job.carry + job.by * d
  <2>1. w \in Nat \ {0} /\ a \in Nat /\ a <= w * w - w
    <3> DEFINE b == job.by
               c == job.carry
    <3>1. w \in Nat \ {0} /\ b \in 0..(w - 1) /\ c \in 0..(w - 1) /\ d \in 0..(w - 1)
        BY <1>2, <1>3, <1>6
    <3> HIDE DEF w, b, c
    <3>2. c + b * d \in Nat /\ c + b * d <= w * w - w
        BY <3>1, ProductDigit, Zenon
    <3> QED
        BY <3>1, <3>2 DEF b, c
  <2>2. 2 * LongSign(h) = w * w
      BY <1>2 DEF LongSign
  <2>3. q.res = (job.carry + job.by * d + Bit(FALSE)) % (2 * LongSign(h))
      BY DEF Mulu, Logical, WithFlags, Add, SumOf
  <2>4. job.carry + job.by * d + Bit(FALSE) = a
      BY <2>1 DEF Bit
  <2> HIDE DEF w, a, q
  <2>5. q.res = a % (w * w)
      BY <2>2, <2>3, <2>4, Zenon
  <2>6. a % (w * w) = a /\ a % w \in Nat /\ a \div w \in 0..(w - 1) /\ a = (a % w) + w * (a \div w)
      BY <2>1, TwoDigits
  <2>7. /\ q.res \in Nat /\ q.res = a
        /\ q.res % w \in Nat /\ q.res \div w \in 0..(w - 1)
        /\ q.res = (q.res % w) + w * (q.res \div w)
      BY <2>1, <2>5, <2>6, Zenon
  <2> QED
      BY <2>7, Zenon DEF a, w
<1> HIDE DEF p, q, low
<1>8. /\ job'.kind = "mul" /\ job'.size = job.size /\ job'.by = job.by
      /\ job'.weight = W * (2 * h) /\ job'.src = job.src + d * W
      /\ job'.res = job.res + low * W /\ job'.carry = q.res \div (2 * h)
    BY <1>1, <1>5 DEF ProductJobs
<1>9. job' \in ProductJobs
  <2>1. /\ W * (2 * h) \in Nat /\ job.src + d * W \in Nat /\ job.res + low * W \in Nat
        /\ q.res \div (2 * h) \in Nat /\ job.n + 1 \in Nat
      BY <1>2, <1>7
  <2> QED
      BY <1>1, <1>5, <2>1 DEF ProductJobs
<1>10. job'.res + job'.carry * job'.weight = job'.src * job'.by
  <2> DEFINE k == q.res \div (2 * h)
             w == 2 * h
             b == job.by
             c == job.carry
  <2>1. k \in Nat /\ w \in Nat /\ b \in Nat /\ c \in Nat /\ W \in Nat /\ low \in Nat /\ d \in Nat
        /\ low + w * k = c + b * d
      BY <1>2, <1>3, <1>7
  <2>2. job.res + c * W = job.src * b
      BY <1>3
  <2> HIDE DEF k, w, b, c, W
  <2>3. (low + w * k) * W = (c + b * d) * W
      BY <2>1
  <2>4. (low + w * k) * W = low * W + k * (W * w)
      BY <2>1
  <2>5. (c + b * d) * W = c * W + d * W * b
      BY <2>1
  <2>6. (job.src + d * W) * b = job.src * b + d * W * b
      BY <1>2, <2>1
  <2>7. /\ low * W \in Int /\ k * (W * w) \in Int /\ c * W \in Int /\ d * W * b \in Int
        /\ job.src * b \in Int
      BY <1>2, <2>1
  <2>8. job.res + low * W + k * (W * w) = (job.src + d * W) * b
      BY <1>2, <2>2, <2>3, <2>4, <2>5, <2>6, <2>7
  <2> QED
      BY <1>8, <2>8 DEF k, w, b, c, W
<1>11. job'.by \in 0..(2 * job'.size.h - 1) /\ job'.carry \in 0..(2 * job'.size.h - 1)
    BY <1>3, <1>7, <1>8 DEF h
<1> QED
    BY <1>9, <1>10, <1>11 DEF ProductRight

-----------------------------------------------------------------------------
(* One digit of a long division: the quotient fits in a digit.             *)
LEMMA DivisionDigit ==
    ASSUME NEW w \in Nat \ {0}, NEW b \in 1..(w - 1), NEW m \in 0..(b - 1),
           NEW d \in 0..(w - 1), NEW a, a = m * w + d
    PROVE  /\ a \in Nat
           /\ a \div b \in 0..(w - 1)
           /\ a % b \in 0..(b - 1)
           /\ a = b * (a \div b) + (a % b)
<1> DEFINE k == a \div b
           r == a % b
<1>1. a \in Nat /\ b \in Nat \ {0}
    OBVIOUS
<1>2. k \in Int /\ r \in 0..(b - 1) /\ a = b * k + r
    BY <1>1
<1>3. a < b * w
  <2>1. b * w - m * w = (b - m) * w
      OBVIOUS
  <2>2. (b - m) * w = w + (b - m - 1) * w
      OBVIOUS
  <2>3. (b - m - 1) * w >= 0
      OBVIOUS
  <2>4. m * w \in Int /\ b * w \in Int
      OBVIOUS
  <2> QED
      BY <2>1, <2>2, <2>3, <2>4
<1> HIDE DEF k, r
<1>4. ASSUME k < 0 PROVE FALSE
  <2>1. b * (-k - 1) >= 0 /\ b * (-k - 1) = -(b * k) - b
      BY <1>2, <1>4
  <2> QED
      BY <1>1, <1>2, <2>1
<1>5. ASSUME k >= w PROVE FALSE
  <2>1. b * (k - w) >= 0 /\ b * (k - w) = b * k - b * w
      BY <1>2, <1>5
  <2>2. b * k \in Int /\ b * w \in Int
      BY <1>2
  <2> QED
      BY <1>1, <1>2, <1>3, <2>1, <2>2
<1>6. k \in 0..(w - 1)
    BY <1>2, <1>4, <1>5
<1> QED
    BY <1>1, <1>2, <1>6 DEF k, r

(* Quotient and remainder packed as two digits of w.                       *)
LEMMA Packing ==
    ASSUME NEW w \in Nat \ {0}, NEW k \in 0..(w - 1), NEW r \in 0..(w - 1)
    PROVE  /\ k % w = k /\ r % w = r
           /\ (k + w * r) \div w = r
           /\ (k + w * r) % w = k
<1>1. k % w = k /\ r % w = r
    BY 0 * w = 0, DivUnique
<1>2. r * w = w * r /\ w * r \in Int
    OBVIOUS
<1>3. r * w <= k + w * r /\ k + w * r < r * w + w /\ k + w * r \in Int
    BY <1>2
<1>4. (k + w * r) \div w = r /\ (k + w * r) % w = (k + w * r) - r * w
    BY <1>3, DivUnique
<1> QED
    BY <1>1, <1>2, <1>4

(* A turn of the division keeps quotient and remainder right.              *)
LEMMA DivisionStep ==
    ASSUME HasKind, DivisionInv, DivideDigit
    PROVE  job' \in DivisionJobs /\ DivisionRight(job')
<1> DEFINE w == 2 * job.size.h
           b == job.by
           m == job.rem
<1>1. job \in DivisionJobs /\ DivisionRight(job)
    BY DEF DivideDigit, Running, DivisionInv
<1>2. w \in Nat \ {0} /\ job.src \in Nat /\ job.res \in Nat /\ job.n \in Nat /\ job.f \in Flags
  <2>1. job.size \in Sizes
      BY <1>1 DEF DivisionJobs
  <2>2. job.size.h \in Nat \ {0}
      BY <2>1, SizesAssumption
  <2> QED
      BY <1>1, <2>2 DEF DivisionJobs
<1>3. b \in 1..(w - 1) /\ m \in 0..(b - 1) /\ job.src = job.res * b + m
    BY <1>1, SMTT(40) DEF DivisionRight
<1>4. PICK d \in 0..(w - 1) :
        LET q == Divu(job.size.h, job.by, job.rem * w + d, job.f)
        IN job' = [job EXCEPT !.n = @ + 1, !.src = @ * w + d,
                              !.res = @ * w + (q.res % w), !.rem = q.res \div w,
                              !.f = q.f]
    BY DEF DivideDigit, Digits
<1> DEFINE a == m * w + d
           q == Divu(job.size.h, b, a, job.f)
           k == a \div b
           r == a % b
<1>5. job' = [job EXCEPT !.n = @ + 1, !.src = @ * w + d, !.res = @ * w + (q.res % w),
                         !.rem = q.res \div w, !.f = q.f]
    BY <1>4
<1>6. d \in 0..(w - 1)
    BY <1>4
<1>7. /\ a \in Nat /\ k \in 0..(w - 1) /\ r \in 0..(b - 1) /\ a = b * k + r
  <2> HIDE DEF w, b, m
  <2>1. w \in Nat \ {0} /\ b \in 1..(w - 1) /\ m \in 0..(b - 1) /\ d \in 0..(w - 1)
      BY <1>2, <1>3, <1>6
  <2>2. a = m * w + d
      OBVIOUS
  <2> HIDE DEF a
  <2> QED
      BY <2>1, <2>2, DivisionDigit
<1>8. q = [res |-> (k % w) + w * (r % w),
           f |-> [job.f EXCEPT !.z = k = 0, !.n = Negative(job.size.h, k),
                               !.v = FALSE, !.c = FALSE]]
  <2>1. k < 2 * job.size.h
      BY <1>2, <1>7
  <2> HIDE DEF k, r, a
  <2>2. q = Quotient(job.size.h, k, r, job.f)
      BY <2>1 DEF Divu, k, r
  <2> HIDE DEF q
  <2> QED
      BY <2>2 DEF Quotient
<1>9. q.f \in Flags /\ ~q.f.v
  <2> HIDE DEF k, r, a
  <2>1. q.f = [job.f EXCEPT !.z = k = 0, !.n = Negative(job.size.h, k), !.v = FALSE, !.c = FALSE]
      BY <1>8
  <2>2. (k = 0) \in BOOLEAN /\ Negative(job.size.h, k) \in BOOLEAN
      BY DEF Negative
  <2> QED
      BY <1>2, <2>1, <2>2 DEF Flags
<1>10. q.res % w = k /\ q.res \div w = r
  <2> HIDE DEF k, r, a, w, b, m
  <2>1. k \in 0..(w - 1) /\ r \in 0..(w - 1) /\ w \in Nat \ {0}
      BY <1>2, <1>3, <1>7
  <2>2. q.res = (k % w) + w * (r % w)
      BY <1>8
  <2> HIDE DEF q
  <2>3. q.res = k + w * r
      BY <2>1, <2>2, Packing
  <2> QED
      BY <2>1, <2>3, Packing
<1> HIDE DEF q, k, r
<1>11. /\ job'.kind = "div" /\ job'.size = job.size /\ job'.by = b
       /\ job'.n = job.n + 1 /\ job'.src = job.src * w + d
       /\ job'.res = job.res * w + k /\ job'.rem = r /\ job'.f = q.f
    BY <1>1, <1>5, <1>10 DEF DivisionJobs
<1>12. job' \in DivisionJobs
  <2>1. /\ job.n + 1 \in Nat /\ job.src * w + d \in Nat /\ job.res * w + k \in Nat /\ r \in Nat
      BY <1>2, <1>3, <1>6, <1>7
  <2>2. job' = [job EXCEPT !.n = @ + 1, !.src = @ * w + d, !.res = @ * w + k,
                           !.rem = r, !.f = q.f]
      BY <1>5, <1>10
  <2> HIDE DEF w
  <2> QED
      BY <1>1, <1>9, <2>1, <2>2 DEF DivisionJobs
<1>13. job.src * w + d = (job.res * w + k) * b + r
  <2> HIDE DEF w, b, m
  <2>1. w \in Int /\ b \in Int /\ m \in Int /\ k \in Int /\ r \in Int /\ d \in Int
        /\ job.src \in Int /\ job.res \in Int
      BY <1>2, <1>3, <1>6, <1>7
  <2>2. job.src * w = (job.res * b + m) * w
      BY <1>3
  <2>3. (job.res * b + m) * w = job.res * w * b + m * w
      BY <2>1
  <2>4. (job.res * w + k) * b = job.res * w * b + b * k
      BY <2>1
  <2>5. m * w + d = b * k + r
      BY <1>7
  <2>6. job.res * w * b \in Int /\ m * w \in Int /\ b * k \in Int
      BY <2>1
  <2> QED
      BY <2>1, <2>2, <2>3, <2>4, <2>5, <2>6
<1>14. job'.by \in 1..(2 * job'.size.h - 1) /\ job'.rem \in 0..(job'.by - 1)
    BY <1>3, <1>7, <1>11
<1> QED
    BY <1>9, <1>11, <1>12, <1>13, <1>14 DEF DivisionRight

-----------------------------------------------------------------------------
(* Decimal numbers. A byte is a pair of digits, i above j.                 *)
LEMMA BelowIsSame ==
    ASSUME NEW w \in Nat \ {0}, NEW a \in 0..(w - 1)
    PROVE  a % w = a /\ a \div w = 0
<1>1. 0 * w = 0 /\ a \in Int /\ 0 <= a /\ a < w
    OBVIOUS
<1> QED
    BY <1>1, DivUnique

Pair(nib, ten, i, j, a) ==
    /\ a \in Nat /\ a % (nib * nib) = a
    /\ a % nib = j /\ a \div nib = i
    /\ ten * i + j \in 0..(ten * ten - 1)
    /\ ten * i + j = 0 <=> a = 0

LEMMA PairFacts ==
    ASSUME NEW nib \in Nat, NEW ten \in 2..nib, NEW i \in 0..(ten - 1),
           NEW j \in 0..(ten - 1), NEW a, a = nib * i + j
    PROVE  Pair(nib, ten, i, j, a)
<1>1. nib \in Nat \ {0} /\ i * nib = nib * i /\ nib * i \in Nat /\ ten \in Nat /\ a \in Nat
    OBVIOUS
<1>2. a \div nib = i /\ a % nib = j
    BY <1>1, DivUnique
<1>3. a % (nib * nib) = a
  <2> DEFINE W == nib * nib
             P == nib * i
  <2>1. W \in Nat \ {0} /\ P \in Nat /\ nib * (nib - 1 - i) = W - nib - P
      BY <1>1
  <2>2. nib * (nib - 1 - i) >= 0
      BY <1>1
  <2>3. W - nib - P >= 0 /\ a = P + j
      BY <2>1, <2>2
  <2> HIDE DEF W, P
  <2>4. a < W
      BY <1>1, <2>1, <2>3
  <2>5. a \in 0..(W - 1)
      BY <1>1, <2>1, <2>4
  <2>6. a % W = a
      BY <2>1, <2>5, BelowIsSame
  <2> QED
      BY <2>6 DEF W
<1>4. ten * i + j \in 0..(ten * ten - 1)
  <2> DEFINE W == ten * ten
             P == ten * i
  <2>1. W \in Nat \ {0} /\ P \in Nat /\ ten * (ten - 1 - i) = W - ten - P
      BY <1>1
  <2>2. ten * (ten - 1 - i) >= 0
      BY <1>1
  <2>3. W - ten - P >= 0
      BY <2>1, <2>2
  <2> HIDE DEF W, P
  <2>4. P + j \in 0..(W - 1)
      BY <1>1, <2>1, <2>3
  <2> QED
      BY <2>4 DEF W, P
<1>5. ten * i + j = 0 <=> a = 0
  <2>1. ten * i \in Nat /\ (ten * i = 0 <=> i = 0) /\ (nib * i = 0 <=> i = 0)
      BY <1>1
  <2> DEFINE P == ten * i
             Q == nib * i
  <2>2. P \in Nat /\ Q \in Nat /\ a = Q + j /\ (P = 0 <=> i = 0) /\ (Q = 0 <=> i = 0)
      BY <1>1, <2>1
  <2> HIDE DEF P, Q
  <2>3. P + j = 0 <=> a = 0
      BY <2>2
  <2> QED
      BY <2>3 DEF P
<1> QED
    BY <1>1, <1>2, <1>3, <1>4, <1>5 DEF Pair

LEMMA PackedPair ==
    ASSUME NEW r, NEW b \in Packed(r)
    PROVE  \E i \in 0..(r.ten - 1), j \in 0..(r.ten - 1) : b = r.nib * i + j
    BY SMT DEF Packed

(* The high digit of a sum or a difference, of which the low one is right, *)
(* overflows or borrows as the comparison with 0x99 or the sign says.      *)
LEMMA HighDigit ==
    ASSUME NEW nib \in Nat, NEW ten \in 2..(nib - 1), NEW i \in Int, NEW j \in 0..(ten - 1)
    PROVE  /\ nib * i + j > Nines(nib, ten) <=> i >= ten
           /\ nib * i + j < 0 <=> i < 0
<1> DEFINE P == nib * i
           N == (ten - 1) * nib
<1>1. P \in Int /\ N \in Int /\ ten \in Int
    OBVIOUS
<1>2. CASE i >= ten
  <2>1. nib * (i - ten) >= 0 /\ nib * (i - ten) = P - N - nib /\ N >= 0
      BY <1>2
  <2> HIDE DEF P, N
  <2>2. P + j > N + (ten - 1) /\ ~(P + j < 0)
      BY <1>1, <2>1
  <2> QED
      BY <1>2, <2>2 DEF P, N, Nines
<1>3. CASE i \in 0..(ten - 1)
  <2>1. nib * (ten - 1 - i) >= 0 /\ nib * (ten - 1 - i) = N - P /\ P >= 0
      BY <1>3
  <2> HIDE DEF P, N
  <2>2. ~(P + j > N + (ten - 1)) /\ ~(P + j < 0)
      BY <1>1, <2>1
  <2> QED
      BY <1>3, <2>2 DEF P, N, Nines
<1>4. CASE i < 0
  <2>1. nib * (-1 - i) >= 0 /\ nib * (-1 - i) = -nib - P /\ N >= 0
      BY <1>4
  <2> HIDE DEF P, N
  <2>2. ~(P + j > N + (ten - 1)) /\ P + j < 0
      BY <1>1, <2>1
  <2> QED
      BY <1>4, <2>2 DEF P, N, Nines
<1> QED
    BY <1>1, <1>2, <1>3, <1>4

(* What a decimal instruction must give for a number t of two digits.      *)
Decimal(r, q, t, z) ==
    /\ q.f \in Flags
    /\ Unpacked(r, q.res) = t
    /\ t \in 0..(r.ten * r.ten - 1)
    /\ q.f.z = (z /\ t = 0)

DigitsOf(r, q, i, j, c, z) == Decimal(r, q, r.ten * i + j, z) /\ q.f.x = c

(* The result that DecimalFlags makes of digits i and j.                   *)
LEMMA DecimalResult ==
    ASSUME NEW r, NEW nib \in Nat, NEW ten \in 2..(nib - 1), r.nib = nib, r.ten = ten,
           NEW i \in 0..(ten - 1), NEW j \in 0..(ten - 1), NEW before, NEW c \in BOOLEAN,
           NEW f \in Flags, NEW q, q = DecimalFlags(nib, before, nib * i + j, c, f)
    PROVE  DigitsOf(r, q, i, j, c, f.z)
<1> DEFINE a == nib * i + j
           h == SignBit(nib)
<1>0. Pair(nib, ten, i, j, a)
    BY PairFacts
<1> HIDE DEF a
<1>1. /\ a \in Nat /\ a % (nib * nib) = a /\ a % nib = j /\ a \div nib = i
      /\ ten * i + j \in 0..(ten * ten - 1)
      /\ ten * i + j = 0 <=> a = 0
    BY <1>0 DEF Pair
<1>2. q = [res |-> a, f |-> [x |-> c, n |-> Negative(h, a), z |-> f.z /\ a = 0,
                             v |-> ~Negative(h, before) /\ Negative(h, a), c |-> c]]
    BY <1>1 DEF DecimalFlags, WithFlags, a
<1>3. q.f \in Flags
  <2> DEFINE n == Negative(h, a)
             z == f.z /\ a = 0
             v == ~Negative(h, before) /\ Negative(h, a)
  <2>1. n \in BOOLEAN /\ z \in BOOLEAN /\ v \in BOOLEAN
      BY DEF Negative
  <2>2. q.f = [x |-> c, n |-> n, z |-> z, v |-> v, c |-> c]
      BY <1>2
  <2> HIDE DEF n, z, v
  <2> QED
      BY <2>1, <2>2 DEF Flags
<1>4. q.res = a /\ q.f.x = c /\ q.f.z = (f.z /\ a = 0)
    BY <1>2
<1>5. Unpacked(r, q.res) = ten * i + j
    BY <1>1, <1>4 DEF Unpacked
<1>6. q.f.z = (f.z /\ ten * i + j = 0)
    BY <1>1, <1>4
<1> QED
    BY <1>1, <1>3, <1>4, <1>5, <1>6 DEF Decimal, DigitsOf

(* abcd                                                                    *)
LEMMA AbcdFacts ==
    ASSUME NEW r, NEW nib \in Nat, NEW ten \in 2..(nib - 1), r.nib = nib, r.ten = ten,
           NEW s \in Packed(r), NEW d \in Packed(r), NEW f \in Flags,
           NEW q, q = Abcd(nib, ten, s, d, f)
    PROVE  Decimal(r, q, Unpacked(r, d) + Unpacked(r, s) + Bit(f.x) - Bit(q.f.x) * (ten * ten), f.z)
<1>1. PICK si \in 0..(ten - 1), sj \in 0..(ten - 1) : s = nib * si + sj
    BY PackedPair
<1>2. PICK di \in 0..(ten - 1), dj \in 0..(ten - 1) : d = nib * di + dj
    BY PackedPair
<1>3. /\ Low(nib, s) = sj /\ High(nib, s) = nib * si /\ Unpacked(r, s) = ten * si + sj
      /\ Low(nib, d) = dj /\ High(nib, d) = nib * di /\ Unpacked(r, d) = ten * di + dj
  <2>1. Pair(nib, ten, si, sj, s)
      BY <1>1, PairFacts
  <2>2. Pair(nib, ten, di, dj, d)
      BY <1>2, PairFacts
  <2>3. s - sj = nib * si /\ d - dj = nib * di
      BY <1>1, <1>2
  <2> QED
      BY <2>1, <2>2, <2>3 DEF Low, High, Unpacked, Pair
<1> DEFINE lows == sj + dj + Bit(f.x)
           up == IF lows > ten - 1 THEN 1 ELSE 0
           j == lows - ten * up
           hi == si + di + up
           over == IF hi >= ten THEN 1 ELSE 0
           i == hi - ten * over
<1>4. Bit(f.x) \in 0..1 /\ f.z \in BOOLEAN
    BY DEF Bit, Flags
<1>5. /\ up \in 0..1 /\ j \in 0..(ten - 1) /\ lows \in Nat
      /\ lows > ten - 1 <=> up = 1
    BY <1>4
<1>6. /\ over \in 0..1 /\ i \in 0..(ten - 1) /\ hi \in Nat
      /\ hi >= ten <=> over = 1
    BY <1>5
<1> DEFINE low == IF lows > ten - 1 THEN lows + (nib - ten) ELSE lows
           sum == low + nib * si + nib * di
           c == sum > Nines(nib, ten)
<1>7. q = DecimalFlags(nib, lows, IF c THEN sum - ten * nib ELSE sum, c, f)
    BY <1>3 DEF Abcd
<1>8. sum = nib * hi + j
  <2>1. low = nib * up + j
      BY <1>5
  <2>2. nib * hi = nib * si + nib * di + nib * up
      BY <1>5
  <2> HIDE DEF hi, up, j, low
  <2>3. nib * si \in Int /\ nib * di \in Int /\ nib * up \in Int /\ j \in Int
      BY <1>5
  <2> QED
      BY <2>1, <2>2, <2>3
<1>9. c <=> over = 1
  <2>1. hi \in Int /\ j \in 0..(ten - 1) /\ (hi >= ten <=> over = 1) /\ sum = nib * hi + j
      BY <1>5, <1>6, <1>8
  <2> HIDE DEF hi, j, over, sum
  <2>2. nib * hi + j > Nines(nib, ten) <=> hi >= ten
      BY <2>1, HighDigit
  <2> QED
      BY <2>1, <2>2
<1>10. (IF c THEN sum - ten * nib ELSE sum) = nib * i + j
  <2>1. nib * i = nib * hi - (nib * ten) * over /\ ten * nib = nib * ten
      BY <1>6
  <2>2. (nib * ten) * 1 = nib * ten /\ (nib * ten) * 0 = 0 /\ nib * hi \in Int /\ nib * ten \in Int
      BY <1>6
  <2> HIDE DEF hi, j, i, c, sum, over
  <2> QED
      BY <1>5, <1>6, <1>8, <1>9, <2>1, <2>2
<1>11. DigitsOf(r, q, i, j, c, f.z)
  <2>1. c \in BOOLEAN /\ i \in 0..(ten - 1) /\ j \in 0..(ten - 1)
      BY <1>5, <1>6
  <2>2. q = DecimalFlags(nib, lows, nib * i + j, c, f)
      BY <1>7, <1>10
  <2> HIDE DEF i, j, c, lows
  <2> QED
      BY <2>1, <2>2, DecimalResult
<1>12. ten * i + j = Unpacked(r, d) + Unpacked(r, s) + Bit(f.x) - Bit(q.f.x) * (ten * ten)
  <2>1. Bit(q.f.x) = over
      BY <1>6, <1>9, <1>11 DEF Bit, DigitsOf
  <2> DEFINE S == ten * si
             D == ten * di
             U == ten * up
             O == over * (ten * ten)
             I == ten * i
  <2>2. I = S + D + U - O
      BY <1>5, <1>6
  <2>3. S \in Int /\ D \in Int /\ U \in Int /\ O \in Int /\ I \in Int
      BY <1>5, <1>6
  <2>4. j = (sj + dj + Bit(f.x)) - U
      OBVIOUS
  <2>5. Unpacked(r, s) = S + sj /\ Unpacked(r, d) = D + dj
      BY <1>3
  <2> HIDE DEF S, D, U, O, I, j
  <2>6. I + j = Unpacked(r, d) + Unpacked(r, s) + Bit(f.x) - O
      BY <1>4, <2>2, <2>3, <2>4, <2>5
  <2> QED
      BY <2>1, <2>6 DEF I, O
<1> QED
    BY <1>11, <1>12 DEF DigitsOf

(* sbcd                                                                    *)
LEMMA SbcdFacts ==
    ASSUME NEW r, NEW nib \in Nat, NEW ten \in 2..(nib - 1), r.nib = nib, r.ten = ten,
           NEW s \in Packed(r), NEW d \in Packed(r), NEW f \in Flags,
           NEW q, q = Sbcd(nib, ten, s, d, f)
    PROVE  Decimal(r, q, Unpacked(r, d) - Unpacked(r, s) - Bit(f.x) + Bit(q.f.x) * (ten * ten), f.z)
<1>1. PICK si \in 0..(ten - 1), sj \in 0..(ten - 1) : s = nib * si + sj
    BY PackedPair
<1>2. PICK di \in 0..(ten - 1), dj \in 0..(ten - 1) : d = nib * di + dj
    BY PackedPair
<1>3. /\ Low(nib, s) = sj /\ High(nib, s) = nib * si /\ Unpacked(r, s) = ten * si + sj
      /\ Low(nib, d) = dj /\ High(nib, d) = nib * di /\ Unpacked(r, d) = ten * di + dj
  <2>1. Pair(nib, ten, si, sj, s)
      BY <1>1, PairFacts
  <2>2. Pair(nib, ten, di, dj, d)
      BY <1>2, PairFacts
  <2>3. s - sj = nib * si /\ d - dj = nib * di
      BY <1>1, <1>2
  <2> QED
      BY <2>1, <2>2, <2>3 DEF Low, High, Unpacked, Pair
<1> DEFINE lows == dj - sj - Bit(f.x)
           down == IF lows < 0 THEN 1 ELSE 0
           j == lows + ten * down
           hi == di - si - down
           under == IF hi < 0 THEN 1 ELSE 0
           i == hi + ten * under
<1>4. Bit(f.x) \in 0..1 /\ f.z \in BOOLEAN
    BY DEF Bit, Flags
<1>5. /\ down \in 0..1 /\ j \in 0..(ten - 1) /\ lows \in Int /\ lows <= ten - 1
      /\ lows < 0 <=> down = 1
    BY <1>4
<1>6. /\ under \in 0..1 /\ i \in 0..(ten - 1) /\ hi \in Int /\ hi < ten
      /\ hi < 0 <=> under = 1
    BY <1>5
<1> DEFINE low == IF lows < 0 \/ lows > ten - 1 THEN lows - (nib - ten) ELSE lows
           diff == low + nib * di - nib * si
           c == diff < 0 \/ diff > Nines(nib, ten)
<1>7. q = DecimalFlags(nib, lows, IF c THEN diff + ten * nib ELSE diff, c, f)
    BY <1>3 DEF Sbcd
<1>8. diff = nib * hi + j
  <2>1. low = j - nib * down
      BY <1>5
  <2>2. nib * hi = nib * di - nib * si - nib * down
      BY <1>5
  <2> HIDE DEF hi, down, j, low
  <2>3. nib * si \in Int /\ nib * di \in Int /\ nib * down \in Int /\ j \in Int
      BY <1>5
  <2> QED
      BY <2>1, <2>2, <2>3
<1>9. c <=> under = 1
  <2>1. hi \in Int /\ j \in 0..(ten - 1) /\ hi < ten /\ (hi < 0 <=> under = 1)
        /\ diff = nib * hi + j
      BY <1>5, <1>6, <1>8
  <2> HIDE DEF hi, j, under, diff
  <2>2. /\ nib * hi + j > Nines(nib, ten) <=> hi >= ten
        /\ nib * hi + j < 0 <=> hi < 0
      BY <2>1, HighDigit
  <2> QED
      BY <2>1, <2>2
<1>10. (IF c THEN diff + ten * nib ELSE diff) = nib * i + j
  <2>1. nib * i = nib * hi + (nib * ten) * under /\ ten * nib = nib * ten
      BY <1>6
  <2>2. (nib * ten) * 1 = nib * ten /\ (nib * ten) * 0 = 0 /\ nib * hi \in Int /\ nib * ten \in Int
      BY <1>6
  <2> HIDE DEF hi, j, i, c, diff, under
  <2> QED
      BY <1>5, <1>6, <1>8, <1>9, <2>1, <2>2
<1>11. DigitsOf(r, q, i, j, c, f.z)
  <2>1. c \in BOOLEAN /\ i \in 0..(ten - 1) /\ j \in 0..(ten - 1)
      BY <1>5, <1>6
  <2>2. q = DecimalFlags(nib, lows, nib * i + j, c, f)
      BY <1>7, <1>10
  <2> HIDE DEF i, j, c, lows
  <2> QED
      BY <2>1, <2>2, DecimalResult
<1>12. ten * i + j = Unpacked(r, d) - Unpacked(r, s) - Bit(f.x) + Bit(q.f.x) * (ten * ten)
  <2>1. Bit(q.f.x) = under
      BY <1>6, <1>9, <1>11 DEF Bit, DigitsOf
  <2> DEFINE S == ten * si
             D == ten * di
             U == ten * down
             O == under * (ten * ten)
             I == ten * i
  <2>2. I = D - S - U + O
      BY <1>5, <1>6
  <2>3. S \in Int /\ D \in Int /\ U \in Int /\ O \in Int /\ I \in Int
      BY <1>5, <1>6
  <2>4. j = (dj - sj - Bit(f.x)) + U
      OBVIOUS
  <2>5. Unpacked(r, s) = S + sj /\ Unpacked(r, d) = D + dj
      BY <1>3
  <2> HIDE DEF S, D, U, O, I, j
  <2>6. I + j = Unpacked(r, d) - Unpacked(r, s) - Bit(f.x) + O
      BY <1>4, <2>2, <2>3, <2>4, <2>5
  <2> QED
      BY <2>1, <2>6 DEF I, O
<1> QED
    BY <1>11, <1>12 DEF DigitsOf

(* nbcd, which subtracts from 0x9a and corrects a low nibble of ten.       *)
LEMMA NbcdFacts ==
    ASSUME NEW r, NEW nib \in Nat, NEW ten \in 2..(nib - 1), r.nib = nib, r.ten = ten,
           NEW s \in Packed(r), NEW f \in Flags,
           NEW q, q = Nbcd(nib, ten, s, f)
    PROVE  Decimal(r, q, Bit(q.f.x) * (ten * ten) - Unpacked(r, s) - Bit(f.x), f.z)
<1>1. PICK si \in 0..(ten - 1), sj \in 0..(ten - 1) : s = nib * si + sj
    BY PackedPair
<1>2. Pair(nib, ten, si, sj, s)
    BY <1>1, PairFacts
<1>3. s \in Nat /\ Unpacked(r, s) = ten * si + sj
    BY <1>2 DEF Unpacked, Pair
<1>4. Bit(f.x) \in 0..1 /\ f.z \in BOOLEAN /\ f.x \in BOOLEAN
    BY DEF Bit, Flags
<1> DEFINE start == (ten - 1) * nib + ten
           t == start - s - Bit(f.x)
           hi == ten - 1 - si
           l == ten - sj - Bit(f.x)
           up == IF l = ten THEN 1 ELSE 0
           i == hi + up
           j == l - ten * up
<1>5. hi \in 0..(ten - 1) /\ l \in 0..ten /\ up \in 0..1 /\ j \in 0..(ten - 1)
      /\ (l = ten <=> up = 1)
    BY <1>4
<1>6. t = nib * hi + l
  <2> DEFINE T == nib * (ten - 1)
             S == nib * si
  <2>1. nib * hi = T - S /\ T \in Int /\ S \in Int /\ start = T + ten /\ s = S + sj
      BY <1>1
  <2> HIDE DEF T, S, start
  <2> QED
      BY <1>4, <2>1
<1>7. start \in Int /\ t \in Int
    BY <1>3, <1>4
<1>8. Pair(nib, ten + 1, hi, l, t)
  <2>1. ten + 1 \in 2..nib /\ hi \in 0..((ten + 1) - 1) /\ l \in 0..((ten + 1) - 1)
      BY <1>5
  <2> HIDE DEF hi, l, t
  <2> QED
      BY <1>6, <2>1, PairFacts
<1> DEFINE diff == (start - s - Bit(f.x)) % (nib * nib)
           fixed == IF Low(nib, diff) = ten THEN High(nib, diff) + nib ELSE diff
<1>9. diff = t /\ Low(nib, diff) = l /\ High(nib, diff) = t - l
  <2> HIDE DEF start, l
  <2> QED
      BY <1>8 DEF Low, High, Pair
<1>10. t = start <=> s = 0 /\ ~f.x
  <2>1. f.x <=> Bit(f.x) = 1
      BY <1>4 DEF Bit
  <2> HIDE DEF start
  <2> QED
      BY <1>3, <1>4, <1>7, <2>1
<1> HIDE DEF start, t
<1>11. CASE t = start
  <2> DEFINE n == Negative(SignBit(nib), diff)
             g == [f EXCEPT !.x = FALSE, !.c = FALSE, !.v = FALSE, !.n = n]
  <2>1. q = [res |-> s, f |-> g]
      BY <1>9, <1>11 DEF Nbcd, start
  <2>2. n \in BOOLEAN
      BY DEF Negative
  <2> HIDE DEF n
  <2>3. q.f \in Flags /\ q.f.x = FALSE /\ q.f.z = f.z /\ q.res = s
    <3>1. g \in Flags /\ g.x = FALSE /\ g.z = f.z
        BY <2>2 DEF Flags
    <3>2. q.f = g /\ q.res = s
        BY <2>1
    <3> HIDE DEF g
    <3> QED
        BY <3>1, <3>2
  <2>4. Unpacked(r, s) = 0
      BY <1>2, <1>3, <1>10, <1>11 DEF Pair
  <2>5. Bit(f.x) = 0 /\ Bit(q.f.x) = 0
      BY <1>10, <1>11, <2>3 DEF Bit
  <2>6. ten * ten \in Nat \ {0}
      OBVIOUS
  <2> DEFINE W == ten * ten
  <2> HIDE DEF W
  <2>7. 0 \in 0..(W - 1) /\ 0 * W = 0
      BY <2>6 DEF W
  <2>8. Bit(q.f.x) * W - Unpacked(r, s) - Bit(f.x) = 0
      BY <2>4, <2>5, <2>7
  <2> QED
      BY <1>4, <2>3, <2>4, <2>7, <2>8 DEF Decimal, W
<1>12. CASE t # start
  <2>1. i \in 0..(ten - 1)
    <3>1. CASE up = 0
        BY <1>5, <3>1
    <3>2. CASE up = 1
      <4>1. sj = 0 /\ Bit(f.x) = 0
          BY <1>4, <1>5, <3>2
      <4>2. ~f.x
          BY <1>4, <4>1 DEF Bit
      <4>3. si # 0
        <5>1. si = 0 => nib * si = 0
            OBVIOUS
        <5> QED
            BY <1>1, <1>10, <1>12, <4>1, <4>2, <5>1
      <4> QED
          BY <3>2, <4>3
    <3> QED
        BY <1>5, <3>1, <3>2
  <2>2. fixed = nib * i + j
    <3>1. nib * i = nib * hi + nib * up /\ nib * hi \in Int
        BY <1>5
    <3>2. CASE up = 1
      <4>1. fixed = (t - l) + nib
          BY <1>5, <1>9, <3>2
      <4> HIDE DEF fixed, i, hi
      <4>2. nib * up = nib /\ j = 0 /\ l = ten
          BY <1>5, <3>2
      <4> QED
          BY <1>6, <3>1, <4>1, <4>2
    <3>3. CASE up = 0
      <4>1. fixed = t
          BY <1>5, <1>9, <3>3
      <4> HIDE DEF fixed, i, hi
      <4>2. nib * up = 0 /\ j = l
          BY <1>5, <3>3
      <4> QED
          BY <1>6, <3>1, <4>1, <4>2
    <3> QED
        BY <1>5, <3>2, <3>3
  <2>3. fixed % (nib * nib) = fixed
    <3> HIDE DEF i, j, fixed
    <3>1. Pair(nib, ten, i, j, fixed)
        BY <1>5, <2>1, <2>2, PairFacts
    <3> QED
        BY <3>1 DEF Pair
  <2>4. q = DecimalFlags(nib, diff, fixed % (nib * nib), TRUE, f)
      BY <1>9, <1>12 DEF Nbcd, start
  <2>5. DigitsOf(r, q, i, j, TRUE, f.z)
    <3>1. q = DecimalFlags(nib, diff, nib * i + j, TRUE, f)
        BY <2>2, <2>3, <2>4
    <3> HIDE DEF i, j, diff
    <3> QED
        BY <1>5, <2>1, <3>1, DecimalResult
  <2>6. ten * i + j = Bit(q.f.x) * (ten * ten) - Unpacked(r, s) - Bit(f.x)
    <3>1. Bit(q.f.x) = 1 /\ q.f.x = TRUE
        BY <2>5 DEF DigitsOf, Bit
    <3> DEFINE W == ten * ten
               S == ten * si
               U == ten * up
               I == ten * i
    <3>2. W \in Int /\ S \in Int /\ U \in Int /\ I \in Int
        BY <1>5
    <3>3. I = (W - ten - S) + U
        BY <1>5
    <3>4. j = (ten - sj - Bit(f.x)) - U
        OBVIOUS
    <3>5. Unpacked(r, s) = S + sj
        BY <1>3
    <3> HIDE DEF W, S, U, I, j
    <3>6. 1 * W = W
        BY <3>2
    <3>7. I + j = Bit(q.f.x) * W - Unpacked(r, s) - Bit(f.x)
        BY <1>4, <3>1, <3>2, <3>3, <3>4, <3>5, <3>6
    <3> QED
        BY <3>7 DEF W, I
  <2> QED
      BY <2>5, <2>6 DEF DigitsOf
<1> QED
    BY <1>11, <1>12

(* Decimal routines: what is so after any number of bytes.                 *)
DecimalJobs ==
    [kind : DecimalKinds, size : Radices, n : Nat, weight : Nat \ {0},
     src : Nat, dst : Nat, res : Nat, x : BOOLEAN, f : Flags]

DecimalRight(j) ==
    /\ j.res \in 0..(j.weight - 1)
    /\ j.kind = "nbcd" => j.dst = 0
    /\ j.res + CarryOf(j, j.f.x) * j.weight = Total(j)
    /\ j.f.z <=> j.res = 0

DecimalInv == job.kind \in DecimalKinds => job \in DecimalJobs /\ DecimalRight(job)

(* A byte more, as Decimal has it, keeps the job right.                    *)
LEMMA DecimalAbove ==
    ASSUME NEW j \in DecimalJobs, DecimalRight(j),
           NEW s \in Nat, NEW d \in Nat, j.kind = "nbcd" => d = 0,
           NEW g \in Flags,
           NEW t, t = (d + Signless(j, s) + CarryOf(j, j.f.x))
                         - CarryOf(j, g.x) * (j.size.ten * j.size.ten),
           t \in 0..(j.size.ten * j.size.ten - 1), g.z = (j.f.z /\ t = 0),
           NEW j2, j2 = [j EXCEPT !.n = @ + 1, !.weight = @ * (j.size.ten * j.size.ten),
                                  !.src = @ + s * j.weight, !.dst = @ + d * j.weight,
                                  !.res = @ + t * j.weight, !.f = g]
    PROVE  j2 \in DecimalJobs /\ DecimalRight(j2)
<1> DEFINE W == j.weight
           w == j.size.ten * j.size.ten
           k == CarryOf(j, j.f.x)
           k2 == CarryOf(j, g.x)
           u == d + Signless(j, s)
<1>1. /\ w \in Nat \ {0} /\ W \in Nat \ {0} /\ j.n \in Nat
      /\ j.src \in Nat /\ j.dst \in Nat /\ j.f \in Flags /\ j.kind \in DecimalKinds
  <2>1. j.size \in Radices
      BY DEF DecimalJobs
  <2>2. j.size.ten \in Nat \ {0}
      BY <2>1, RadicesAssumption
  <2> QED
      BY <2>2 DEF DecimalJobs
<1>2. /\ j.res \in 0..(W - 1)
      /\ j.kind = "nbcd" => j.dst = 0
      /\ j.res + k * W = Total(j)
      /\ j.f.z <=> j.res = 0
    BY DEF DecimalRight
<1>3. k \in Int /\ k2 \in Int /\ CarryOf(j, j.x) \in Int /\ u \in Int
    BY DEF CarryOf, Bit, Signless
<1>4. t \in 0..(w - 1) /\ t = (u + k) - k2 * w
    OBVIOUS
<1>5. /\ j2.kind = j.kind /\ j2.x = j.x /\ j2.n = j.n + 1 /\ j2.weight = W * w
      /\ j2.src = j.src + s * W /\ j2.dst = j.dst + d * W
      /\ j2.res = j.res + t * W /\ j2.f = g
    BY DEF DecimalJobs
<1> HIDE DEF k, k2, u, w
<1>6. /\ W * w \in Nat \ {0} /\ j.res + t * W \in 0..(W * w - 1)
      /\ (j.res + t * W = 0 <=> j.res = 0 /\ t = 0)
  <2> DEFINE res == j.res
  <2>1. W \in Nat \ {0} /\ w \in Nat \ {0} /\ res \in 0..(W - 1) /\ t \in 0..(w - 1)
      BY <1>1, <1>2, <1>4
  <2> HIDE DEF res, W
  <2>2. W * w \in Nat \ {0} /\ res + t * W \in 0..(W * w - 1)
        /\ (res + t * W = 0 <=> res = 0 /\ t = 0)
      BY ONLY <2>1, NumberAbove
  <2> QED
      BY <2>2 DEF res
<1>7. j2 \in DecimalJobs
  <2>1. j.res + t * W \in Nat /\ j.src + s * W \in Nat /\ j.dst + d * W \in Nat /\ j.n + 1 \in Nat
      BY <1>1, <1>6
  <2>2. j2 = [j EXCEPT !.n = @ + 1, !.weight = W * w, !.src = @ + s * W,
                       !.dst = @ + d * W, !.res = @ + t * W, !.f = g]
      BY DEF w
  <2> HIDE DEF W
  <2> QED
      BY <1>6, <2>1, <2>2, ZenonT(40) DEF DecimalJobs
<1>8. j2.kind = "nbcd" => j2.dst = 0
    BY <1>1, <1>2, <1>5, 0 * W = 0
<1>9. Total(j2) = Total(j) + u * W
  <2>1. (d + s) * W = d * W + s * W /\ (d + (-s)) * W = d * W - s * W
      BY <1>1
  <2>2. d * W \in Int /\ s * W \in Int
      BY <1>1
  <2> QED
      BY <1>1, <1>3, <1>5, <2>1, <2>2 DEF Total, Signless, CarryOf, u
<1>10. j2.res + CarryOf(j2, j2.f.x) * j2.weight = Total(j2)
  <2> DEFINE res == j.res
             T == Total(j)
  <2>1. T \in Int
      BY <1>1, <1>2, <1>3
  <2>2. t + k2 * w = u + k
    <3>1. k2 * w \in Int
        BY <1>1, <1>3
    <3> QED
        BY <1>3, <1>4, <3>1
  <2>3. /\ W \in Int /\ w \in Int /\ res \in Int /\ t \in Int /\ k \in Int
        /\ k2 \in Int /\ T \in Int /\ u \in Int
        /\ res + k * W = T /\ t + k2 * w = u + k
      BY <1>1, <1>2, <1>3, <1>4, <2>1, <2>2
  <2>4. CarryOf(j2, j2.f.x) = k2
      BY <1>5 DEF CarryOf, k2
  <2> HIDE DEF W, res, T
  <2>5. res + t * W + k2 * (W * w) = T + u * W
      BY ONLY <2>3, EquationAbove
  <2> QED
      BY <1>5, <1>9, <2>4, <2>5 DEF res, T
<1>11. j2.f.z <=> j2.res = 0
    BY <1>2, <1>5, <1>6
<1> QED
    BY <1>5, <1>6, <1>7, <1>8, <1>10, <1>11 DEF DecimalRight

(* Starts are right.                                                       *)
LEMMA DecimalStart ==
    ASSUME NEW j \in DecimalStarts
    PROVE  j \in DecimalJobs /\ DecimalRight(j)
<1>1. PICK k \in DecimalKinds, z \in Radices, x \in BOOLEAN :
        j = [kind |-> k, size |-> z, n |-> 0, weight |-> 1,
             src |-> 0, dst |-> 0, res |-> 0, x |-> x, f |-> StartFlags(x)]
    BY DEF DecimalStarts, DecimalKinds
<1>2. StartFlags(x) \in Flags /\ StartFlags(x).x = x /\ StartFlags(x).z = TRUE
    BY DEF StartFlags, Flags
<1>3. j \in DecimalJobs
    BY <1>1, <1>2 DEF DecimalJobs
<1>4. /\ j.weight = 1 /\ j.src = 0 /\ j.dst = 0 /\ j.res = 0 /\ j.x = x
      /\ j.f = StartFlags(x)
    BY <1>1
<1>5. CarryOf(j, j.f.x) = CarryOf(j, j.x) /\ CarryOf(j, j.x) \in Int
    BY <1>2, <1>4 DEF CarryOf, Bit
<1>6. j.res + CarryOf(j, j.f.x) * j.weight = Total(j)
  <2> DEFINE c == CarryOf(j, j.x)
  <2>1. c * 1 = c /\ c \in Int
      BY <1>5
  <2>2. Total(j) = c
      BY <1>4, <1>5 DEF Total, Signless
  <2> HIDE DEF c
  <2>3. CarryOf(j, j.f.x) = c
      BY <1>5 DEF c
  <2> QED
      BY <1>4, <2>1, <2>2, <2>3
<1> QED
    BY <1>2, <1>3, <1>4, <1>6 DEF DecimalRight

(* A turn of the loop keeps what DecimalInv says of the job.               *)
LEMMA DecimalStep ==
    ASSUME HasKind, DecimalInv, AbcdDigits \/ SbcdDigits \/ NbcdDigits
    PROVE  job' \in DecimalJobs /\ DecimalRight(job')
<1> DEFINE z == job.size
           nib == job.size.nib
           ten == job.size.ten
<1>1. job.kind \in DecimalKinds
    BY DEF AbcdDigits, SbcdDigits, NbcdDigits, Running, DecimalKinds
<1>2. job \in DecimalJobs /\ DecimalRight(job)
    BY <1>1 DEF DecimalInv
<1>3. nib \in Nat /\ ten \in 2..(nib - 1) /\ job.f \in Flags
  <2>1. job.size \in Radices
      BY <1>2 DEF DecimalJobs
  <2> QED
      BY <1>2, <2>1, RadicesAssumption DEF DecimalJobs
<1>4. \A b \in Packed(z) : Unpacked(z, b) \in Nat
  <2> SUFFICES ASSUME NEW b \in Packed(z) PROVE Unpacked(z, b) \in Nat
      OBVIOUS
  <2>1. PICK i \in 0..(ten - 1), j \in 0..(ten - 1) : b = nib * i + j
      BY PackedPair
  <2> HIDE DEF nib, ten
  <2>2. Pair(nib, ten, i, j, b)
      BY <1>3, <2>1, PairFacts
  <2>3. ten * (b \div nib) + (b % nib) \in Nat
      BY <2>2 DEF Pair
  <2> QED
      BY <2>3 DEF Unpacked, nib, ten
<1>5. ASSUME NEW s \in Packed(z), NEW d, NEW q, DecimalTurn(s, d, q),
             Unpacked(z, d) \in Nat, job.kind = "nbcd" => Unpacked(z, d) = 0,
             Decimal(z, q, (Unpacked(z, d) + Signless(job, Unpacked(z, s)) + CarryOf(job, job.f.x))
                             - CarryOf(job, q.f.x) * (ten * ten), job.f.z)
      PROVE  job' \in DecimalJobs /\ DecimalRight(job')
  <2> DEFINE S == Unpacked(z, s)
             D == Unpacked(z, d)
             t == (D + Signless(job, S) + CarryOf(job, job.f.x)) - CarryOf(job, q.f.x) * (ten * ten)
  <2>1. q.f \in Flags /\ Unpacked(z, q.res) = t /\ t \in 0..(ten * ten - 1)
        /\ q.f.z = (job.f.z /\ t = 0)
      BY <1>5 DEF Decimal
  <2>2. job' = [job EXCEPT !.n = @ + 1, !.weight = @ * (job.size.ten * job.size.ten),
                           !.src = @ + S * job.weight, !.dst = @ + D * job.weight,
                           !.res = @ + t * job.weight, !.f = q.f]
      BY <1>5, <2>1 DEF DecimalTurn
  <2>3. S \in Nat /\ D \in Nat /\ (job.kind = "nbcd" => D = 0)
      BY <1>4, <1>5
  <2> HIDE DEF S, D
  <2> QED
      BY <1>2, <2>1, <2>2, <2>3, DecimalAbove
<1>6. 0 \in Packed(z) /\ Unpacked(z, 0) = 0
  <2>1. 0 \in 0..(ten - 1) /\ nib * 0 + 0 = 0
      BY <1>3
  <2>2. 0 \in Packed(z)
      BY <2>1 DEF Packed
  <2>3. Pair(nib, ten, 0, 0, 0)
    <3> HIDE DEF nib, ten
    <3> QED
        BY <1>3, <2>1, PairFacts
  <2>4. ten * 0 + 0 = 0
      BY <1>3
  <2> QED
      BY <2>2, <2>3, <2>4 DEF Pair, Unpacked
<1>7. CASE AbcdDigits
  <2>1. PICK s \in Packed(z), d \in Packed(z) :
            DecimalTurn(s, d, Abcd(nib, ten, s, d, job.f)) /\ job.kind = "abcd"
      BY <1>7 DEF AbcdDigits, Running
  <2> DEFINE q == Abcd(nib, ten, s, d, job.f)
  <2> HIDE DEF nib, ten
  <2>2. Decimal(z, q, Unpacked(z, d) + Unpacked(z, s) + Bit(job.f.x)
                        - Bit(q.f.x) * (ten * ten), job.f.z)
      BY <1>3, AbcdFacts DEF nib, ten
  <2> HIDE DEF q
  <2>3. Unpacked(z, d) + Unpacked(z, s) + Bit(job.f.x) - Bit(q.f.x) * (ten * ten)
          = (Unpacked(z, d) + Signless(job, Unpacked(z, s)) + CarryOf(job, job.f.x))
                             - CarryOf(job, q.f.x) * (ten * ten)
    <3> DEFINE P == Bit(q.f.x) * (ten * ten)
    <3>1. P \in Int /\ Bit(job.f.x) \in Int /\ Unpacked(z, d) \in Nat /\ Unpacked(z, s) \in Nat
        BY <1>3, <1>4 DEF Bit
    <3>2. /\ CarryOf(job, job.f.x) = Bit(job.f.x) /\ CarryOf(job, q.f.x) = Bit(q.f.x)
          /\ Signless(job, Unpacked(z, s)) = Unpacked(z, s)
        BY <2>1 DEF CarryOf, Signless
    <3>3. CarryOf(job, q.f.x) * (ten * ten) = P
        BY <3>2
    <3> HIDE DEF P
    <3> QED
        BY <3>1, <3>2, <3>3 DEF P
  <2>4. Unpacked(z, d) \in Nat /\ job.kind # "nbcd"
      BY <1>4, <2>1
  <2> QED
      BY <1>5, <2>1, <2>2, <2>3, <2>4 DEF q
<1>8. CASE SbcdDigits
  <2>1. PICK s \in Packed(z), d \in Packed(z) :
            DecimalTurn(s, d, Sbcd(nib, ten, s, d, job.f)) /\ job.kind = "sbcd"
      BY <1>8 DEF SbcdDigits, Running
  <2> DEFINE q == Sbcd(nib, ten, s, d, job.f)
  <2> HIDE DEF nib, ten
  <2>2. Decimal(z, q, Unpacked(z, d) - Unpacked(z, s) - Bit(job.f.x)
                        + Bit(q.f.x) * (ten * ten), job.f.z)
      BY <1>3, SbcdFacts DEF nib, ten
  <2> HIDE DEF q
  <2>3. Unpacked(z, d) - Unpacked(z, s) - Bit(job.f.x) + Bit(q.f.x) * (ten * ten)
          = (Unpacked(z, d) + Signless(job, Unpacked(z, s)) + CarryOf(job, job.f.x))
                             - CarryOf(job, q.f.x) * (ten * ten)
    <3> DEFINE P == Bit(q.f.x) * (ten * ten)
    <3>1. P \in Int /\ Bit(job.f.x) \in Int /\ Unpacked(z, d) \in Nat /\ Unpacked(z, s) \in Nat
        BY <1>3, <1>4 DEF Bit
    <3>2. /\ CarryOf(job, job.f.x) = -Bit(job.f.x) /\ CarryOf(job, q.f.x) = -Bit(q.f.x)
          /\ Signless(job, Unpacked(z, s)) = -Unpacked(z, s)
        BY <2>1 DEF CarryOf, Signless
    <3>3. CarryOf(job, q.f.x) * (ten * ten) = -P
        BY <1>3, <3>2 DEF Bit
    <3> HIDE DEF P
    <3> QED
        BY <3>1, <3>2, <3>3 DEF P
  <2>4. Unpacked(z, d) \in Nat /\ job.kind # "nbcd"
      BY <1>4, <2>1
  <2> QED
      BY <1>5, <2>1, <2>2, <2>3, <2>4 DEF q
<1>9. CASE NbcdDigits
  <2>1. PICK s \in Packed(z) :
            DecimalTurn(s, 0, Nbcd(nib, ten, s, job.f)) /\ job.kind = "nbcd"
      BY <1>9 DEF NbcdDigits, Running
  <2> DEFINE q == Nbcd(nib, ten, s, job.f)
  <2> HIDE DEF nib, ten
  <2>2. Decimal(z, q, Bit(q.f.x) * (ten * ten) - Unpacked(z, s) - Bit(job.f.x), job.f.z)
      BY <1>3, NbcdFacts DEF nib, ten
  <2> HIDE DEF q
  <2>3. Bit(q.f.x) * (ten * ten) - Unpacked(z, s) - Bit(job.f.x)
          = (Unpacked(z, 0) + Signless(job, Unpacked(z, s)) + CarryOf(job, job.f.x))
                             - CarryOf(job, q.f.x) * (ten * ten)
    <3> DEFINE P == Bit(q.f.x) * (ten * ten)
    <3>1. P \in Int /\ Bit(job.f.x) \in Int /\ Unpacked(z, 0) = 0 /\ Unpacked(z, s) \in Nat
        BY <1>3, <1>4, <1>6 DEF Bit
    <3>2. /\ CarryOf(job, job.f.x) = -Bit(job.f.x) /\ CarryOf(job, q.f.x) = -Bit(q.f.x)
          /\ Signless(job, Unpacked(z, s)) = -Unpacked(z, s)
        BY <2>1 DEF CarryOf, Signless
    <3>3. CarryOf(job, q.f.x) * (ten * ten) = -P
        BY <1>3, <3>2 DEF Bit
    <3> HIDE DEF P
    <3> QED
        BY <3>1, <3>2, <3>3 DEF P
  <2> QED
      BY <1>5, <1>6, <2>1, <2>2, <2>3 DEF q
<1> QED
    BY <1>7, <1>8, <1>9

-----------------------------------------------------------------------------
(* Comparisons and divisions that have not been made.                      *)
SingleJobs == [kind : {"cmp", "divu", "divs"}, size : Sizes, f : Flags]

SingleInv == job.kind \in {"cmp", "divu", "divs"} => job \in SingleJobs

(* Both readings of an operand as a signed number are one.                 *)
LEMMA SignedIsValue ==
    ASSUME NEW h \in Nat \ {0}, NEW a \in 0..(2 * h - 1)
    PROVE  Signed(h, a) = Value(h, a)
<1>1. a % (2 * h) = a
  <2> DEFINE w == 2 * h
  <2>1. w \in Nat \ {0} /\ 0 * w = 0 /\ a \in Nat /\ a < w
      OBVIOUS
  <2> HIDE DEF w
  <2>2. a % w = a
      BY <2>1, DivUnique
  <2> QED
      BY <2>2 DEF w
<1>2. Negative(h, a) <=> a >= h
    BY NegativeFacts
<1> QED
    BY <1>1, <1>2 DEF Signed, Value

(* The flags of a comparison, by what they say of the operands.            *)
LEMMA CompareFlags ==
    ASSUME NEW h \in Nat \ {0}, NEW s \in 0..(2 * h - 1), NEW d \in 0..(2 * h - 1),
           NEW long \in BOOLEAN, NEW f \in Flags, NEW q, q = Cmp(long, h, s, d, f)
    PROVE  /\ q.f \in Flags /\ q.f.x = f.x
           /\ q.f.c <=> d < s
           /\ q.f.z <=> d = s
           /\ (q.f.n = q.f.v) <=> Signed(h, d) >= Signed(h, s)
<1> DEFINE p == Sub(long, h, s, d, f)
           t == d - s - Bit(FALSE)
           e == Value(h, d) - Value(h, s) - Bit(FALSE)
<1>1. p = DifferenceOf(long, h, s, d, FALSE, TRUE)
    BY DEF Sub
<1>2. q.f = [p.f EXCEPT !.x = f.x]
    BY DEF Cmp
<1> HIDE DEF p
<1>3. Exact(h, p, t + Bit(p.f.x) * (2 * h), e, TRUE)
    BY <1>1, DifferenceFacts
<1>4. /\ p.res \in 0..(2 * h - 1) /\ p.f \in Flags /\ p.f.c = p.f.x
      /\ p.f.z = (TRUE /\ p.res = 0)
      /\ p.f.n <=> p.res >= h
      /\ p.f.v <=> e \notin (-h)..(h - 1)
      /\ p.res = t + Bit(p.f.x) * (2 * h)
    BY <1>3 DEF Exact
<1>5. t = d - s /\ e = Value(h, d) - Value(h, s)
    BY DEF Bit, Value
<1> HIDE DEF t, e
<1>6. p.res = IF p.f.x THEN d - s + 2 * h ELSE d - s
  <2>1. CASE p.f.x
      BY <1>4, <1>5, <2>1, 1 * (2 * h) = 2 * h DEF Bit
  <2>2. CASE ~p.f.x
      BY <1>4, <1>5, <2>2, 0 * (2 * h) = 0 DEF Bit
  <2> QED
      BY <2>1, <2>2
<1>7. p.f.x <=> d < s
    BY <1>4, <1>6
<1>8. p.res = 0 <=> d = s
    BY <1>6, <1>7
<1>9. Signed(h, d) = Value(h, d) /\ Signed(h, s) = Value(h, s)
    BY SignedIsValue
<1>10. ((p.res >= h) <=> (e \notin (-h)..(h - 1))) <=> Signed(h, d) >= Signed(h, s)
    BY <1>5, <1>6, <1>7, <1>9 DEF Value
<1>11. /\ p.f.x \in BOOLEAN /\ p.f.n \in BOOLEAN /\ p.f.z \in BOOLEAN
       /\ p.f.v \in BOOLEAN /\ p.f.c \in BOOLEAN
       /\ f.x \in BOOLEAN
    BY <1>4 DEF Flags
<1>12. /\ q.f \in Flags /\ q.f.x = f.x /\ q.f.n = p.f.n /\ q.f.z = p.f.z
       /\ q.f.v = p.f.v /\ q.f.c = p.f.c
    BY <1>2, <1>4, <1>11 DEF Flags
<1>13. q.f.c <=> d < s
    BY <1>4, <1>7, <1>12
<1>14. q.f.z <=> d = s
    BY <1>4, <1>8, <1>12
<1>15. (p.f.n = p.f.v) <=> ((p.res >= h) <=> (e \notin (-h)..(h - 1)))
    BY <1>4, <1>11, Zenon
<1>16. (q.f.n = q.f.v) <=> Signed(h, d) >= Signed(h, s)
    BY <1>10, <1>12, <1>15, Zenon
<1> QED
    BY <1>12, <1>13, <1>14, <1>16

(* A comparison gives the conditions their meaning.                        *)
LEMMA CompareStep ==
    ASSUME HasKind, SingleInv, Compare
    PROVE  job'.kind = "compared" /\ ConditionsCompare'
<1>1. job.kind = "cmp" /\ job \in SingleJobs
    BY DEF Compare, SingleInv
<1> DEFINE h == job.size.h
<1>2. h \in Nat \ {0} /\ job.f \in Flags
  <2>1. job.size \in Sizes
      BY <1>1 DEF SingleJobs
  <2>2. job.size.h \in Nat \ {0}
      BY <2>1, SizesAssumption
  <2> QED
      BY <1>1, <2>2 DEF SingleJobs
<1>3. PICK long \in BOOLEAN, s \in 0..(2 * h - 1), d \in 0..(2 * h - 1) :
        Single("compared", s, d, Cmp(long, job.size.h, s, d, job.f))
    BY DEF Compare, Digits
<1> DEFINE q == Cmp(long, h, s, d, job.f)
<1>4. job' = [kind |-> "compared", size |-> job.size, src |-> s, dst |-> d,
              was |-> job.f, res |-> q.res, f |-> q.f]
    BY <1>3 DEF Single
<1>5. /\ q.f \in Flags /\ q.f.x = job.f.x
      /\ q.f.c <=> d < s
      /\ q.f.z <=> d = s
      /\ (q.f.n = q.f.v) <=> Signed(h, d) >= Signed(h, s)
  <2> HIDE DEF h
  <2>1. long \in BOOLEAN /\ s \in 0..(2 * h - 1) /\ d \in 0..(2 * h - 1)
      BY <1>3
  <2>2. q = Cmp(long, h, s, d, job.f)
      OBVIOUS
  <2> HIDE DEF q
  <2> QED
      BY <1>2, <2>1, <2>2, CompareFlags
<1> HIDE DEF q
<1> DEFINE g == q.f
<1>6. /\ job'.kind = "compared" /\ job'.src = s /\ job'.dst = d /\ job'.size.h = h
      /\ job'.was = job.f /\ job'.f = g
    BY <1>4
<1>7. /\ g.x = job.f.x
      /\ g.c \in BOOLEAN /\ g.z \in BOOLEAN /\ g.n \in BOOLEAN /\ g.v \in BOOLEAN
      /\ g.c <=> d < s
      /\ g.z <=> d = s
      /\ (g.n = g.v) <=> Signed(h, d) >= Signed(h, s)
    BY <1>5 DEF Flags
<1>8. /\ Cond(g, "hi") <=> ~g.c /\ ~g.z
      /\ Cond(g, "ls") <=> g.c \/ g.z
      /\ Cond(g, "cc") <=> ~g.c
      /\ Cond(g, "cs") <=> g.c
      /\ Cond(g, "gt") <=> g.n = g.v /\ ~g.z
      /\ Cond(g, "le") <=> g.n # g.v \/ g.z
      /\ Cond(g, "ge") <=> g.n = g.v
      /\ Cond(g, "lt") <=> g.n # g.v
      /\ Cond(g, "eq") <=> g.z
      /\ Cond(g, "ne") <=> ~g.z
    BY <1>7, Zenon DEF Cond, CondOf
<1>9. Signed(h, d) = Value(h, d) /\ Signed(h, s) = Value(h, s)
    BY <1>2, <1>3, SignedIsValue
<1>10. /\ Signed(h, d) \in Int /\ Signed(h, s) \in Int
       /\ d = s <=> Signed(h, d) = Signed(h, s)
    BY <1>2, <1>3, <1>9 DEF Value
<1> HIDE DEF g, h
<1>11. /\ Cond(g, "hi") <=> d > s
       /\ Cond(g, "ls") <=> d <= s
       /\ Cond(g, "cc") <=> d >= s
       /\ Cond(g, "cs") <=> d < s
       /\ Cond(g, "eq") <=> d = s
       /\ Cond(g, "ne") <=> d # s
  <2>1. s \in Int /\ d \in Int
      BY <1>2, <1>3
  <2> QED
      BY <1>7, <1>8, <2>1
<1>12. /\ Cond(g, "gt") <=> Signed(h, d) > Signed(h, s)
       /\ Cond(g, "le") <=> Signed(h, d) <= Signed(h, s)
       /\ Cond(g, "ge") <=> Signed(h, d) >= Signed(h, s)
       /\ Cond(g, "lt") <=> Signed(h, d) < Signed(h, s)
    BY <1>7, <1>8, <1>10
<1>13. ConditionsCompare'
    BY <1>6, <1>7, <1>11, <1>12 DEF ConditionsCompare
<1> QED
    BY <1>6, <1>13

-----------------------------------------------------------------------------
(* Division that truncates: k is the quotient of n by s.                   *)
QuotientOf(n, s, k) ==
    /\ Magnitude(n - k * s) < Magnitude(s)
    /\ n - k * s # 0 => ((n - k * s < 0) = (n < 0))

Truncated(n, s) ==
    IF (n < 0) = (s < 0) THEN Magnitude(n) \div Magnitude(s)
                         ELSE -(Magnitude(n) \div Magnitude(s))

(* The quotient of C is one, and there is no other.                        *)
LEMMA Truncation ==
    ASSUME NEW n \in Int, NEW s \in Int \ {0}
    PROVE  /\ Truncated(n, s) \in Int
           /\ \A k \in Int : QuotientOf(n, s, k) <=> k = Truncated(n, s)
<1> DEFINE a == Magnitude(n)
           b == Magnitude(s)
           K(k) == IF (n < 0) = (s < 0) THEN k ELSE -k
<1>1. a \in Nat /\ b \in Nat \ {0}
    BY DEF Magnitude
<1>2. a \div b \in Int
  <2> HIDE DEF a, b
  <2> QED
      BY <1>1
<1>3. ASSUME NEW k \in Int
      PROVE  QuotientOf(n, s, k) <=> k = Truncated(n, s)
  <2> DEFINE P == k * s
             Q == K(k) * b
  <2>1. P \in Int /\ Q \in Int
      BY <1>1
  <2>2. Q = IF n < 0 THEN -P ELSE P
    <3>1. k * (-s) = -(k * s) /\ (-k) * s = -(k * s) /\ (-k) * (-s) = k * s
        OBVIOUS
    <3> QED
        BY <3>1 DEF Magnitude
  <2>3. QuotientOf(n, s, k) <=> Q <= a /\ a < Q + b
    <3>1. QuotientOf(n, s, k) <=> /\ Magnitude(n - P) < b
                                  /\ n - P # 0 => ((n - P < 0) = (n < 0))
        BY DEF QuotientOf
    <3> HIDE DEF P, Q
    <3> QED
        BY <2>1, <2>2, <3>1 DEF Magnitude
  <2>4. K(k) \in Int
      OBVIOUS
  <2>5. Q <= a /\ a < Q + b <=> K(k) = a \div b
    <3> DEFINE c == K(k)
    <3>0. c \in Int
        BY <2>4
    <3> HIDE DEF a, b, c
    <3>1. ASSUME c * b <= a, a < c * b + b PROVE c = a \div b
      <4>1. a \in Int /\ b \in Nat \ {0}
          BY <1>1
      <4> QED
          BY ONLY <3>0, <3>1, <4>1, DivUnique
    <3>2. ASSUME c = a \div b PROVE c * b <= a /\ a < c * b + b
      <4>1. a = b * c + (a % b) /\ a % b \in 0..(b - 1)
          BY <1>1, <3>2
      <4>2. b * c = c * b /\ b * c \in Int
          BY <1>1, <1>2, <3>2
      <4> QED
          BY <1>1, <4>1, <4>2
    <3> QED
        BY <3>1, <3>2 DEF c
  <2>6. K(k) = a \div b <=> k = Truncated(n, s)
    <3> DEFINE t == a \div b
    <3>1. Truncated(n, s) = IF (n < 0) = (s < 0) THEN t ELSE -t
        BY DEF Truncated
    <3>2. t \in Int
        BY <1>2
    <3> HIDE DEF t, a, b
    <3> QED
        BY <3>1, <3>2 DEF t
  <2> QED
      BY <2>3, <2>5, <2>6
<1>4. Truncated(n, s) \in Int
  <2> HIDE DEF a, b
  <2>1. Truncated(n, s) = IF (n < 0) = (s < 0) THEN a \div b ELSE -(a \div b)
      BY DEF Truncated, a, b
  <2> QED
      BY <1>2, <2>1
<1> QED
    BY <1>3, <1>4

(* What the low bits of a signed number mean.                              *)
LEMMA SignedBits ==
    ASSUME NEW h \in Nat \ {0}, NEW v \in (-h)..(h - 1)
    PROVE  v % (2 * h) \in 0..(2 * h - 1) /\ Signed(h, v % (2 * h)) = v
<1> DEFINE w == 2 * h
<1>1. w \in Nat \ {0} /\ v \in Int
    OBVIOUS
<1>2. v % w = IF v < 0 THEN v + w ELSE v
  <2>1. -(2 * h) <= v /\ v < 4 * h /\ v < 2 * h /\ v \in Int
      OBVIOUS
  <2>2. v % (2 * h) = IF v < 0 THEN v + 2 * h ELSE IF v < 2 * h THEN v ELSE v - 2 * h
      BY <2>1, AboveFacts
  <2> QED
      BY <2>1, <2>2
<1> DEFINE a == v % w
<1> HIDE DEF a
<1>3. a = (IF v < 0 THEN v + 2 * h ELSE v) /\ a \in 0..(2 * h - 1)
    BY <1>2 DEF a
<1>4. Signed(h, a) = Value(h, a)
    BY <1>3, SignedIsValue
<1>5. Signed(h, a) = v
    BY <1>3, <1>4 DEF Value
<1> QED
    BY <1>3, <1>5 DEF a

(* A division of n by s: "range" has the quotients that fit, Num reads a    *)
(* word of the result.                                                     *)
Divided(w, n, s, range, Num(_), dst, was, q) ==
    LET k == Num(q.res % w)
        r == Num(q.res \div w)
    IN IF \E i \in range : QuotientOf(n, s, i)
       THEN /\ k * s + r = n /\ Magnitude(r) < Magnitude(s)
            /\ r # 0 => ((r < 0) = (n < 0))
            /\ ~q.f.v /\ (q.f.z <=> k = 0)
       ELSE q.res = dst /\ q.f = [was EXCEPT !.v = TRUE]

Same(a) == a

(* divu, read as a division of integers.                                   *)
LEMMA DivuFacts ==
    ASSUME NEW h \in Nat \ {0}, NEW s \in 1..(2 * h - 1), NEW d \in Nat,
           NEW f \in Flags
    PROVE  Divided(2 * h, d, s, 0..(2 * h - 1), Same, d, f, Divu(h, s, d, f))
<1> DEFINE w == 2 * h
           k == d \div s
           r == d % s
           q == Divu(h, s, d, f)
<1>1. w \in Nat \ {0} /\ s \in 1..(w - 1) /\ s \in Int \ {0} /\ d \in Int
    OBVIOUS
<1>2. k \in Nat /\ r \in 0..(s - 1) /\ d = s * k + r
    BY <1>1
<1>3. Truncated(d, s) = k
    BY DEF Truncated, Magnitude
<1> HIDE DEF k, r
<1>4. \A i \in Int : QuotientOf(d, s, i) <=> i = k
    BY <1>1, <1>3, Truncation
<1>5. (\E i \in 0..(w - 1) : QuotientOf(d, s, i)) <=> k < w
    BY <1>1, <1>2, <1>4
<1>6. CASE k < w
  <2>1. q = [res |-> (k % w) + w * (r % w),
             f |-> [f EXCEPT !.z = k = 0, !.n = Negative(h, k), !.v = FALSE, !.c = FALSE]]
      BY <1>6 DEF Divu, Quotient, k, r
  <2> HIDE DEF q, w
  <2>2. k \in 0..(w - 1) /\ r \in 0..(w - 1)
      BY <1>1, <1>2, <1>6
  <2>3. q.res % w = k /\ q.res \div w = r
    <3>1. q.res = k + w * r
        BY <1>1, <2>1, <2>2, Packing
    <3> QED
        BY <1>1, <2>2, <3>1, Packing
  <2>4. ~q.f.v /\ (q.f.z <=> k = 0)
    <3>1. (k = 0) \in BOOLEAN
        OBVIOUS
    <3> QED
        BY <2>1, <3>1 DEF Flags
  <2>5. k * s = s * k /\ k * s \in Int
      BY <1>1, <1>2
  <2>6. k * s + r = d /\ Magnitude(r) < Magnitude(s) /\ ~(r < 0) /\ ~(d < 0)
      BY <1>1, <1>2, <2>5 DEF Magnitude
  <2>7. \E i \in 0..(w - 1) : QuotientOf(d, s, i)
      BY <1>5, <1>6
  <2>8. Divided(w, d, s, 0..(w - 1), Same, d, f, q)
      BY <2>3, <2>4, <2>6, <2>7 DEF Divided, Same
  <2> QED
      BY <2>8 DEF q, w
<1>7. CASE ~(k < w)
  <2>1. q = [res |-> d, f |-> [f EXCEPT !.v = TRUE]]
      BY <1>7 DEF Divu, Overflow, k
  <2> HIDE DEF q, w
  <2>2. ~ \E i \in 0..(w - 1) : QuotientOf(d, s, i)
      BY <1>5, <1>7
  <2>3. Divided(w, d, s, 0..(w - 1), Same, d, f, q)
      BY <2>1, <2>2 DEF Divided
  <2> QED
      BY <2>3 DEF q, w
<1> QED
    BY <1>6, <1>7

(* divs but for the dividend with a case of its own.                       *)
LEMMA DivsFacts ==
    ASSUME NEW h \in Nat \ {0}, NEW s \in 1..(2 * h - 1), NEW d \in Nat,
           NEW f \in Flags, ~(d = LongSign(h) /\ Signed(h, s) = -1)
    PROVE  LET Num(a) == Signed(h, a)
           IN Divided(2 * h, Signed(LongSign(h), d), Signed(h, s), (-h)..(h - 1), Num,
                      d, f, Divs(h, s, d, f))
<1> DEFINE w == 2 * h
           num == Signed(LongSign(h), d)
           den == Signed(h, s)
           k == Truncated(num, den)
           r == num - k * den
           q == Divs(h, s, d, f)
           Num(a) == Signed(h, a)
<1>1. den = Value(h, s)
    BY SignedIsValue
<1>2. den \in Int \ {0} /\ den \in (-h)..(h - 1)
    BY <1>1 DEF Value
<1>3. num \in Int
  <2> DEFINE H == LongSign(h)
  <2>1. H \in Nat \ {0}
      BY DEF LongSign
  <2> HIDE DEF H
  <2>2. d % (2 * H) \in Int
      BY <2>1
  <2>3. Signed(H, d) \in Int
      BY <2>1, <2>2 DEF Signed
  <2> QED
      BY <2>3 DEF H
<1>4. q = IF k \in (-h)..(h - 1) THEN Quotient(h, k, r, f) ELSE Overflow(d, f)
    BY DEF Divs, Truncated
<1> HIDE DEF q, num, den
<1>5. k \in Int /\ \A i \in Int : QuotientOf(num, den, i) <=> i = k
    BY <1>2, <1>3, Truncation
<1> HIDE DEF k
<1>6. (\E i \in (-h)..(h - 1) : QuotientOf(num, den, i)) <=> k \in (-h)..(h - 1)
    BY <1>5
<1>7. CASE k \in (-h)..(h - 1)
  <2>1. q = [res |-> (k % w) + w * (r % w),
             f |-> [f EXCEPT !.z = k = 0, !.n = Negative(h, k), !.v = FALSE, !.c = FALSE]]
      BY <1>4, <1>7 DEF Quotient
  <2>2. Magnitude(r) < Magnitude(den) /\ (r # 0 => ((r < 0) = (num < 0)))
      BY <1>5 DEF QuotientOf
  <2>3. k * den \in Int
      BY <1>2, <1>5
  <2>4. r \in Int /\ k * den + r = num
      BY <1>3, <2>3
  <2> HIDE DEF r
  <2>5. r \in (-h)..(h - 1)
      BY <1>2, <2>2, <2>4 DEF Magnitude
  <2>6. /\ k % w \in 0..(w - 1) /\ Signed(h, k % w) = k
        /\ r % w \in 0..(w - 1) /\ Signed(h, r % w) = r
      BY <1>7, <2>5, SignedBits
  <2>7. w \in Nat \ {0}
      OBVIOUS
  <2>8. q.res % w = k % w /\ q.res \div w = r % w
    <3> DEFINE a == k % w
               b == r % w
    <3>1. q.res = a + w * b
        BY <2>1
    <3>2. a \in 0..(w - 1) /\ b \in 0..(w - 1)
        BY <2>6
    <3> HIDE DEF a, b, w
    <3>3. q.res % w = a /\ q.res \div w = b
        BY <2>7, <3>1, <3>2, Packing
    <3> QED
        BY <3>3 DEF a, b
  <2>9. ~q.f.v /\ (q.f.z <=> k = 0)
    <3>1. (k = 0) \in BOOLEAN
        OBVIOUS
    <3> QED
        BY <2>1, <3>1 DEF Flags
  <2>10. \E i \in (-h)..(h - 1) : QuotientOf(num, den, i)
      BY <1>6, <1>7
  <2>11. Signed(h, q.res % w) = k /\ Signed(h, q.res \div w) = r
      BY <2>6, <2>8
  <2> HIDE DEF w
  <2>12. Divided(w, num, den, (-h)..(h - 1), Num, d, f, q)
      BY <2>2, <2>4, <2>9, <2>10, <2>11 DEF Divided
  <2> QED
      BY <2>12 DEF q, w, num, den
<1>8. CASE k \notin (-h)..(h - 1)
  <2>1. q = [res |-> d, f |-> [f EXCEPT !.v = TRUE]]
      BY <1>4, <1>8 DEF Overflow
  <2>2. ~ \E i \in (-h)..(h - 1) : QuotientOf(num, den, i)
      BY <1>6, <1>8
  <2>3. Divided(w, num, den, (-h)..(h - 1), Num, d, f, q)
      BY <2>1, <2>2 DEF Divided
  <2> QED
      BY <2>3 DEF q, num, den
<1> QED
    BY <1>7, <1>8

(* The smallest dividend by -1 gives zero.                                 *)
LEMMA DivsSmallest ==
    ASSUME NEW h \in Nat \ {0}, NEW s, NEW f \in Flags, Signed(h, s) = -1
    PROVE  LET q == Divs(h, s, LongSign(h), f) IN q.res = 0 /\ q.f.z
<1> DEFINE w == 2 * h
           q == Divs(h, s, LongSign(h), f)
<1>1. q = Quotient(h, 0, 0, f)
    BY DEF Divs
<1>2. q = [res |-> (0 % w) + w * (0 % w),
           f |-> [f EXCEPT !.z = 0 = 0, !.n = Negative(h, 0), !.v = FALSE, !.c = FALSE]]
    BY <1>1 DEF Quotient
<1>3. 0 % w = 0 /\ w * 0 = 0
  <2>1. w \in Nat \ {0} /\ 0 \in 0..(w - 1)
      OBVIOUS
  <2> HIDE DEF w
  <2> QED
      BY <2>1, BelowIsSame
<1> HIDE DEF q, w
<1>4. q.res = 0
    BY <1>2, <1>3
<1>5. q.f.z
    BY <1>2 DEF Flags
<1> QED
    BY <1>4, <1>5 DEF q

(* A division gives the quotient, or leaves things as they were.           *)
LEMMA DivideStep ==
    ASSUME SingleInv, DivideUnsigned \/ DivideSigned
    PROVE  job'.kind \in {"dividedu", "divideds"} /\ QuotientOrKept'
<1>1. job \in SingleJobs
    BY DEF DivideUnsigned, DivideSigned, SingleInv
<1> DEFINE h == job.size.h
<1>2. h \in Nat \ {0} /\ job.f \in Flags
  <2>1. job.size \in Sizes
      BY <1>1 DEF SingleJobs
  <2>2. job.size.h \in Nat \ {0}
      BY <2>1, SizesAssumption
  <2> QED
      BY <1>1, <2>2 DEF SingleJobs
<1>3. CASE DivideUnsigned
  <2>1. PICK s \in 1..(2 * h - 1), d \in Nat :
          Single("dividedu", s, d, Divu(job.size.h, s, d, job.f))
      BY <1>2, <1>3 DEF DivideUnsigned, Digits, Longs
  <2> DEFINE q == Divu(h, s, d, job.f)
  <2>2. /\ job'.kind = "dividedu" /\ job'.src = s /\ job'.dst = d /\ job'.size.h = h
        /\ job'.was = job.f /\ job'.res = q.res /\ job'.f = q.f
      BY <2>1 DEF Single
  <2> HIDE DEF h
  <2>3. Divided(2 * h, d, s, 0..(2 * h - 1), Same, d, job.f, q)
      BY <1>2, DivuFacts
  <2> HIDE DEF q
  <2>4. QuotientOrKept'
      BY <2>2, <2>3 DEF QuotientOrKept, Divided, Same, QuotientOf
  <2> QED
      BY <2>2, <2>4
<1>4. CASE DivideSigned
  <2>1. PICK s \in 1..(2 * h - 1), d \in Nat :
          Single("divideds", s, d, Divs(job.size.h, s, d, job.f))
      BY <1>2, <1>4 DEF DivideSigned, Digits, Longs
  <2> DEFINE q == Divs(h, s, d, job.f)
             Num(a) == Signed(h, a)
  <2>2. /\ job'.kind = "divideds" /\ job'.src = s /\ job'.dst = d /\ job'.size.h = h
        /\ job'.was = job.f /\ job'.res = q.res /\ job'.f = q.f
      BY <2>1 DEF Single
  <2> HIDE DEF h
  <2>3. CASE d = LongSign(h) /\ Signed(h, s) = -1
    <3>1. q.res = 0 /\ q.f.z
        BY <1>2, <2>3, DivsSmallest
    <3> HIDE DEF q
    <3> QED
        BY <2>2, <2>3, <3>1 DEF QuotientOrKept
  <2>4. CASE ~(d = LongSign(h) /\ Signed(h, s) = -1)
    <3>1. Divided(2 * h, Signed(LongSign(h), d), Signed(h, s), (-h)..(h - 1), Num, d, job.f, q)
        BY <1>2, <2>4, DivsFacts
    <3> HIDE DEF q
    <3> QED
        BY <2>2, <2>4, <3>1 DEF QuotientOrKept, Divided, QuotientOf
  <2> QED
      BY <2>2, <2>3, <2>4
<1> QED
    BY <1>3, <1>4

-----------------------------------------------------------------------------
(* The inductive invariant: every job has a kind, and those of the sorts   *)
(* that the theorems are about are typed and right so far.                 *)
IInv ==
    /\ HasKind
    /\ BinaryInv
    /\ DecimalInv
    /\ ProductInv
    /\ DivisionInv
    /\ SingleInv
    /\ ConditionsCompare
    /\ QuotientOrKept

(* A job that starts has done nothing wrong yet.                           *)
LEMMA InitInv == Init => IInv
<1> SUFFICES ASSUME Init PROVE IInv
    OBVIOUS
<1> USE DEF IInv, HasKind, BinaryInv, DecimalInv, ProductInv, DivisionInv, SingleInv,
            ConditionsCompare, QuotientOrKept, BinaryKinds, DecimalKinds
<1>1. CASE job \in BinaryStarts
  <2>1. job \in BinaryJobs /\ Right(job)
      BY <1>1, BinaryStart
  <2> QED
      BY <2>1 DEF BinaryJobs
<1>2. CASE job \in DecimalStarts
  <2>1. job \in DecimalJobs /\ DecimalRight(job)
      BY <1>2, DecimalStart
  <2> QED
      BY <2>1 DEF DecimalJobs
<1>3. CASE job \in ProductStarts
  <2>0. PICK z \in Sizes : \E b \in 0..(2 * z.h - 1) :
            job = [kind |-> "mul", size |-> z, n |-> 0, weight |-> 1, src |-> 0,
                   by |-> b, res |-> 0, carry |-> 0]
      BY <1>3 DEF ProductStarts
  <2>1. PICK b \in 0..(2 * z.h - 1) :
            job = [kind |-> "mul", size |-> z, n |-> 0, weight |-> 1, src |-> 0,
                   by |-> b, res |-> 0, carry |-> 0]
      BY <2>0
  <2>2. z.h \in Nat \ {0}
      BY SizesAssumption
  <2>3. b \in Nat /\ 0 * 1 = 0 /\ 0 * b = 0 /\ 0 \in 0..(2 * z.h - 1)
      BY <2>2
  <2>4. job \in ProductJobs
      BY <2>1, <2>3 DEF ProductJobs
  <2>5. ProductRight(job)
      BY <2>1, <2>2, <2>3 DEF ProductRight
  <2> QED
      BY <2>1, <2>4, <2>5
<1>4. CASE job \in DivisionStarts
  <2>0. PICK z \in Sizes : \E b \in 1..(2 * z.h - 1) :
            job = [kind |-> "div", size |-> z, n |-> 0, src |-> 0, by |-> b,
                   res |-> 0, rem |-> 0, f |-> StartFlags(FALSE)]
      BY <1>4 DEF DivisionStarts
  <2>1. PICK b \in 1..(2 * z.h - 1) :
            job = [kind |-> "div", size |-> z, n |-> 0, src |-> 0, by |-> b,
                   res |-> 0, rem |-> 0, f |-> StartFlags(FALSE)]
      BY <2>0
  <2>2. z.h \in Nat \ {0}
      BY SizesAssumption
  <2>3. b \in Nat /\ 0 * b = 0 /\ 0 \in 0..(b - 1)
      BY <2>2
  <2>4. StartFlags(FALSE) \in Flags /\ StartFlags(FALSE).v = FALSE
      BY DEF StartFlags, Flags
  <2>5. job \in DivisionJobs
      BY <2>1, <2>3, <2>4 DEF DivisionJobs
  <2>6. DivisionRight(job)
    <3>1. /\ job.by = b /\ job.size = z /\ job.rem = 0 /\ job.src = 0 /\ job.res = 0
          /\ job.f = StartFlags(FALSE)
        BY <2>1
    <3>2. job.src = job.res * job.by + job.rem
        BY <2>3, <3>1
    <3>3. ~job.f.v
        BY <2>4, <3>1, Zenon
    <3> QED
        BY <2>3, <3>1, <3>2, <3>3 DEF DivisionRight
  <2> QED
      BY <2>1, <2>5, <2>6
<1>5. CASE job \in SingleStarts
  <2>1. PICK k \in {"cmp", "divu", "divs"}, z \in Sizes, x \in BOOLEAN :
            job = [kind |-> k, size |-> z, f |-> StartFlags(x)]
      BY <1>5 DEF SingleStarts
  <2>2. StartFlags(x) \in Flags
      BY DEF StartFlags, Flags
  <2>3. job \in SingleJobs
      BY <2>1, <2>2 DEF SingleJobs
  <2> QED
      BY <2>1, <2>3
<1>6. CASE job \in ShiftStarts
    BY <1>6 DEF ShiftStarts
<1> QED
    BY <1>1, <1>2, <1>3, <1>4, <1>5, <1>6 DEF Init

(* A job of another kind is no business of the invariant.                  *)
LEMMA OtherKind ==
    ASSUME HasKind', job'.kind \notin BinaryKinds \cup DecimalKinds \cup
                {"mul", "div", "cmp", "divu", "divs", "compared", "dividedu", "divideds"}
    PROVE  IInv'
BY DEF IInv, BinaryInv, DecimalInv, ProductInv, DivisionInv, SingleInv, ConditionsCompare,
       QuotientOrKept

(* Every turn of every routine keeps the invariant.                        *)
LEMMA NextInv == IInv /\ [Next]_job => IInv'
<1> SUFFICES ASSUME IInv, [Next]_job PROVE IInv'
    OBVIOUS
<1>1. HasKind /\ BinaryInv /\ DecimalInv /\ ProductInv /\ DivisionInv /\ SingleInv
    BY DEF IInv
<1>2. CASE AddDigit \/ SubDigit \/ NegDigit
  <2>1. job' \in BinaryJobs /\ Right(job')
      BY <1>1, <1>2, BinaryStep
  <2> QED
      BY <2>1 DEF IInv, HasKind, BinaryInv, DecimalInv, ProductInv, DivisionInv, SingleInv,
                  ConditionsCompare, QuotientOrKept, BinaryJobs, BinaryKinds, DecimalKinds
<1>3. CASE AbcdDigits \/ SbcdDigits \/ NbcdDigits
  <2>1. job' \in DecimalJobs /\ DecimalRight(job')
      BY <1>1, <1>3, DecimalStep
  <2> QED
      BY <2>1 DEF IInv, HasKind, BinaryInv, DecimalInv, ProductInv, DivisionInv, SingleInv,
                  ConditionsCompare, QuotientOrKept, DecimalJobs, BinaryKinds, DecimalKinds
<1>4. CASE MultiplyDigit
  <2>1. job' \in ProductJobs /\ ProductRight(job')
      BY <1>1, <1>4, ProductStep
  <2> QED
      BY <2>1 DEF IInv, HasKind, BinaryInv, DecimalInv, ProductInv, DivisionInv, SingleInv,
                  ConditionsCompare, QuotientOrKept, ProductJobs, BinaryKinds, DecimalKinds
<1>5. CASE DivideDigit
  <2>1. job' \in DivisionJobs /\ DivisionRight(job')
      BY <1>1, <1>5, DivisionStep
  <2> QED
      BY <2>1 DEF IInv, HasKind, BinaryInv, DecimalInv, ProductInv, DivisionInv, SingleInv,
                  ConditionsCompare, QuotientOrKept, DivisionJobs, BinaryKinds, DecimalKinds
<1>6. CASE Compare
  <2>1. job'.kind = "compared" /\ ConditionsCompare'
      BY <1>1, <1>6, CompareStep
  <2>2. HasKind'
      BY <1>6 DEF Compare, Single, HasKind
  <2> QED
      BY <2>1, <2>2 DEF IInv, BinaryInv, DecimalInv, ProductInv, DivisionInv, SingleInv,
                        QuotientOrKept, BinaryKinds, DecimalKinds
<1>7. CASE DivideUnsigned \/ DivideSigned
  <2>1. job'.kind \in {"dividedu", "divideds"} /\ QuotientOrKept'
      BY <1>1, <1>7, DivideStep
  <2>2. HasKind'
      BY <1>7 DEF DivideUnsigned, DivideSigned, Single, HasKind
  <2> QED
      BY <2>1, <2>2 DEF IInv, BinaryInv, DecimalInv, ProductInv, DivisionInv, SingleInv,
                        ConditionsCompare, BinaryKinds, DecimalKinds
<1>8. CASE ShiftPlace
  <2>1. HasKind' /\ job'.kind = job.kind /\ job.kind = "shift"
      BY <1>1, <1>8 DEF ShiftPlace, HasKind
  <2> QED
      BY <2>1, OtherKind DEF BinaryKinds, DecimalKinds
<1>9. CASE UNCHANGED job
    BY <1>9 DEF IInv, HasKind, BinaryInv, DecimalInv, ProductInv, DivisionInv, SingleInv,
                ConditionsCompare, QuotientOrKept
<1> QED
    BY <1>2, <1>3, <1>4, <1>5, <1>6, <1>7, <1>8, <1>9 DEF Next

(* The invariant holds throughout.                                         *)
THEOREM Invariance == Spec => []IInv
BY InitInv, NextInv, PTL DEF Spec

(* Sums, differences and negations of any length are exact: X carries from *)
(* digit to digit, and Z is that of the whole number (addx, subx, negx).   *)
THEOREM MultiwordIsExact == Spec => []MultiwordExact
<1>1. IInv => MultiwordExact
  <2> SUFFICES ASSUME IInv, job.kind \in BinaryKinds
               PROVE  /\ Produced = Wanted
                      /\ job.f.z <=> job.res = 0
                      /\ job.f.c = job.f.x
      BY DEF MultiwordExact
  <2>1. job \in BinaryJobs /\ Right(job)
      BY DEF IInv, BinaryInv
  <2>2. /\ job.res + CarryOf(job, job.f.x) * job.weight = Total(job)
        /\ job.f.z <=> job.res = 0
        /\ job.f.c = job.f.x
      BY <2>1 DEF Right
  <2>3. /\ job.weight \in Nat /\ job.res \in Nat /\ job.src \in Nat /\ job.dst \in Nat
        /\ job.kind \in {"add", "sub", "neg"}
        /\ job.kind = "neg" => job.dst = 0
      BY <2>1 DEF BinaryJobs, BinaryKinds, Right
  <2>4. Total(job) = Wanted
      BY <2>3 DEF Total, Wanted, Signless, CarryOf, Bit
  <2>5. job.res + CarryOf(job, job.f.x) * job.weight = Produced
    <3>1. 0 * job.weight = 0 /\ (-0) * job.weight = 0 /\ 1 * job.weight = job.weight
          /\ (-1) * job.weight = -job.weight
        BY <2>3
    <3> QED
        BY <2>3, <3>1 DEF Produced, CarryOf, Bit
  <2> QED
      BY <2>2, <2>4, <2>5
<1> QED
    BY <1>1, Invariance, PTL

(* N and V after the last digit are those of the whole signed numbers.     *)
THEOREM MultiwordSignsAreExact == Spec => []MultiwordSign
<1>1. IInv => MultiwordSign
  <2> SUFFICES ASSUME IInv, job.kind \in BinaryKinds, job.n > 0
               PROVE  LET s == AsSigned(job.src)
                          d == AsSigned(job.dst)
                          r == CASE job.kind = "add" -> d + s + Bit(job.x)
                                 [] job.kind = "sub" -> d - s - Bit(job.x)
                                 [] job.kind = "neg" -> -s - Bit(job.x)
                      IN /\ job.f.n <=> AsSigned(job.res) < 0
                         /\ job.f.v <=> (2 * r < -job.weight \/ 2 * r >= job.weight)
      BY DEF MultiwordSign
  <2> DEFINE s == AsSigned(job.src)
             d == AsSigned(job.dst)
             r == CASE job.kind = "add" -> d + s + Bit(job.x)
                    [] job.kind = "sub" -> d - s - Bit(job.x)
                    [] job.kind = "neg" -> -s - Bit(job.x)
  <2>1. job \in BinaryJobs /\ Right(job)
      BY DEF IInv, BinaryInv
  <2>2. /\ job.weight \in Nat \ {0} /\ job.src \in Nat /\ job.dst \in Nat
        /\ job.res \in 0..(job.weight - 1)
        /\ job.kind \in {"add", "sub", "neg"}
        /\ job.kind = "neg" => job.dst = 0
      BY <2>1 DEF BinaryJobs, BinaryKinds, Right
  <2>3. /\ job.f.n <=> 2 * job.res >= job.weight
        /\ job.f.v <=> \/ 2 * SignedTotal(job) < -job.weight
                       \/ 2 * SignedTotal(job) >= job.weight
      BY <2>1 DEF Right
  <2>4. job.f.n <=> AsSigned(job.res) < 0
      BY <2>2, <2>3 DEF AsSigned
  <2>5. s = SignedIn(job.weight, job.src) /\ d = SignedIn(job.weight, job.dst)
        /\ s \in Int /\ d \in Int
      BY <2>2 DEF AsSigned, SignedIn
  <2>6. job.kind = "neg" => d = 0
      BY <2>2 DEF AsSigned
  <2> HIDE DEF s, d
  <2>7. r = SignedTotal(job)
      BY <2>2, <2>5, <2>6 DEF SignedTotal, Signless, CarryOf, Bit
  <2> HIDE DEF r
  <2>8. job.f.v <=> (2 * r < -job.weight \/ 2 * r >= job.weight)
      BY <2>3, <2>7
  <2> QED
      BY <2>4, <2>8 DEF r, s, d
<1> QED
    BY <1>1, Invariance, PTL

(* Decimal sums, differences and negations of any number of bytes are      *)
(* exact: the carry out of the low digit reaches the high one and X the    *)
(* next byte, and every byte of the result holds two digits (abcd, sbcd,   *)
(* nbcd).                                                                  *)
THEOREM DecimalsAreExact == Spec => []DecimalExact
<1>1. IInv => DecimalExact
  <2> SUFFICES ASSUME IInv, job.kind \in DecimalKinds
               PROVE  /\ Produced = Wanted
                      /\ job.res \in 0..(job.weight - 1)
                      /\ job.f.z <=> job.res = 0
      BY DEF DecimalExact
  <2>1. job \in DecimalJobs /\ DecimalRight(job)
      BY DEF IInv, DecimalInv
  <2>2. /\ job.res + CarryOf(job, job.f.x) * job.weight = Total(job)
        /\ job.res \in 0..(job.weight - 1)
        /\ job.f.z <=> job.res = 0
      BY <2>1 DEF DecimalRight
  <2>3. /\ job.weight \in Nat /\ job.res \in Nat /\ job.src \in Nat /\ job.dst \in Nat
        /\ job.kind \in {"abcd", "sbcd", "nbcd"}
        /\ job.kind = "nbcd" => job.dst = 0
      BY <2>1 DEF DecimalJobs, DecimalKinds, DecimalRight
  <2>4. Total(job) = Wanted
      BY <2>3 DEF Total, Wanted, Signless, CarryOf, Bit
  <2>5. job.res + CarryOf(job, job.f.x) * job.weight = Produced
    <3>1. 0 * job.weight = 0 /\ (-0) * job.weight = 0 /\ 1 * job.weight = job.weight
          /\ (-1) * job.weight = -job.weight
        BY <2>3
    <3> QED
        BY <2>3, <3>1 DEF Produced, CarryOf, Bit
  <2> QED
      BY <2>2, <2>4, <2>5
<1> QED
    BY <1>1, Invariance, PTL

(* A product worked out digit by digit loses no carry (mulu, add.l).       *)
THEOREM ProductsAreExact == Spec => []ProductExact
<1>1. IInv => ProductExact
    BY DEF IInv, ProductInv, ProductRight, ProductExact
<1> QED
    BY <1>1, Invariance, PTL

(* A long division by a digit never overflows and leaves the remainder     *)
(* below the divisor (divu).                                               *)
THEOREM DivisionsAreExact == Spec => []DivisionExact
<1>1. IInv => DivisionExact
    BY DEF IInv, DivisionInv, DivisionRight, DivisionExact
<1> QED
    BY <1>1, Invariance, PTL

(* After cmp the conditions of bcc, scc and dbcc are the relations of the  *)
(* integers that they are named for.                                       *)
THEOREM ConditionsAreRelations == Spec => []ConditionsCompare
<1>1. IInv => ConditionsCompare
    BY DEF IInv
<1> QED
    BY <1>1, Invariance, PTL

(* A division truncates, the remainder having the sign of the dividend, or *)
(* leaves operand and flags but V as they were (divu, divs).               *)
THEOREM QuotientsAreExact == Spec => []QuotientOrKept
<1>1. IInv => QuotientOrKept
    BY DEF IInv
<1> QED
    BY <1>1, Invariance, PTL

-----------------------------------------------------------------------------
(* Shifts. The proofs need the powers of two, of which the library of the  *)
(* prover only knows that 2^i is the number of subsets of a set of i: the  *)
(* sum of two exponents is the product of the powers because the subsets   *)
(* of a union are the pairs of subsets of its disjoint parts.              *)
LEMMA PowerIsSubsets ==
    ASSUME NEW i \in Nat
    PROVE  /\ IsFiniteSet(SUBSET (1..i)) /\ Cardinality(SUBSET (1..i)) = 2^i
           /\ 2^i \in Nat \ {0}
<1>1. IsFiniteSet(1..i) /\ Cardinality(1..i) = i
    BY FS_Interval
<1>2. IsFiniteSet(SUBSET (1..i)) /\ Cardinality(SUBSET (1..i)) = 2^i
    BY <1>1, FS_SUBSET
<1>3. 2^i \in Nat
    BY <1>2, FS_CardinalityType
<1>4. SUBSET (1..i) # {}
    OBVIOUS
<1>5. 2^i # 0
    BY <1>2, <1>4, FS_EmptySet
<1> QED
    BY <1>2, <1>3, <1>5

(* The subsets of two intervals are the pairs of their subsets.            *)
LEMMA PowerOfSum ==
    ASSUME NEW i \in Nat, NEW j \in Nat
    PROVE  2^(i + j) = 2^i * 2^j
<1> DEFINE S == SUBSET (1..i)
           T == SUBSET ((i + 1)..(i + j))
           U == SUBSET (1..(i + j))
           g == [p \in S \X T |-> p[1] \cup p[2]]
<1>1. IsFiniteSet(S) /\ Cardinality(S) = 2^i /\ IsFiniteSet(U) /\ Cardinality(U) = 2^(i + j)
    BY PowerIsSubsets, i + j \in Nat
<1>2. IsFiniteSet((i + 1)..(i + j)) /\ Cardinality((i + 1)..(i + j)) = j
    BY FS_Interval, i + 1 \in Int, i + j \in Int
<1>3. IsFiniteSet(T) /\ Cardinality(T) = 2^j
    BY <1>2, FS_SUBSET
<1>4. IsFiniteSet(S \X T) /\ Cardinality(S \X T) = 2^i * 2^j
  <2> HIDE DEF S, T
  <2> QED
      BY <1>1, <1>3, FS_Product
<1>5. g \in Bijection(S \X T, U)
  <2>1. g \in [S \X T -> U]
    <3> SUFFICES ASSUME NEW p \in S \X T PROVE p[1] \cup p[2] \in U
        OBVIOUS
    <3> QED
        OBVIOUS
  <2>2. ASSUME NEW p \in S \X T, NEW q \in S \X T, g[p] = g[q] PROVE p = q
    <3>1. p[1] = (p[1] \cup p[2]) \cap (1..i) /\ p[2] = (p[1] \cup p[2]) \cap ((i + 1)..(i + j))
        OBVIOUS
    <3>2. q[1] = (q[1] \cup q[2]) \cap (1..i) /\ q[2] = (q[1] \cup q[2]) \cap ((i + 1)..(i + j))
        OBVIOUS
    <3>3. p[1] \cup p[2] = q[1] \cup q[2]
        BY <2>2
    <3>4. p[1] = q[1] /\ p[2] = q[2]
        BY <3>1, <3>2, <3>3
    <3> QED
        BY <3>4
  <2>3. ASSUME NEW u \in U PROVE \E p \in S \X T : g[p] = u
    <3>1. <<u \cap (1..i), u \cap ((i + 1)..(i + j))>> \in S \X T
        OBVIOUS
    <3>2. u = (u \cap (1..i)) \cup (u \cap ((i + 1)..(i + j)))
      <4>1. \A k \in u : k \in 1..i \/ k \in (i + 1)..(i + j)
          OBVIOUS
      <4> QED
          BY <4>1
    <3>3. g[<<u \cap (1..i), u \cap ((i + 1)..(i + j))>>] = u
        BY <3>1, <3>2
    <3> QED
        BY <3>1, <3>3
  <2> QED
    <3> HIDE DEF S, T, U, g
    <3>1. DOMAIN g = S \X T
        BY <2>1
    <3> QED
        BY <2>1, <2>2, <2>3, <3>1 DEF Bijection, Injection, Surjection, IsInjective
<1>6. ExistsBijection(S \X T, U)
    BY <1>5 DEF ExistsBijection
<1> QED
    BY <1>1, <1>4, <1>6, FS_Bijection

(* What the following lemmas use of the powers of two.                     *)
LEMMA Powers ==
    ASSUME NEW i \in Nat
    PROVE  2^i \in Nat \ {0} /\ 2^(i + 1) = 2 * 2^i
<1>1. 2^(i + 1) = 2^i * 2^1
    BY PowerOfSum
<1>2. 2^1 = 2
    OBVIOUS
<1>3. 2^i \in Nat \ {0}
    BY PowerIsSubsets
<1> DEFINE p == 2^i
<1> HIDE DEF p
<1>4. p * 2 = 2 * p
    BY <1>3 DEF p
<1> QED
    BY <1>1, <1>2, <1>3, <1>4 DEF p

(* The weights around place n of w: p below it, q above it.                *)
Weights(w, n, p, q) ==
    /\ p = 2^n /\ q = 2^(w - n - 1)
    /\ p \in Nat \ {0} /\ q \in Nat \ {0} /\ p * q \in Nat \ {0}
    /\ 2^(n + 1) = 2 * p /\ 2^(w - n) = 2 * q
    /\ 2^(w - 1) = p * q /\ 2^w = 2 * (p * q)

(* The weights a place of a shift has to do with.                          *)
LEMMA PlaceWeights ==
    ASSUME NEW w \in Nat \ {0}, NEW n \in 0..(w - 1)
    PROVE  Weights(w, n, 2^n, 2^(w - n - 1))
<1>1. /\ n \in Nat /\ w - n - 1 \in Nat /\ w - 1 \in Nat
      /\ n + (w - n - 1) = w - 1 /\ (w - n - 1) + 1 = w - n /\ (w - 1) + 1 = w
    OBVIOUS
<1>2. 2^n \in Nat \ {0} /\ 2^(n + 1) = 2 * 2^n
    BY <1>1, Powers
<1>3. 2^(w - n - 1) \in Nat \ {0} /\ 2^(w - n) = 2 * 2^(w - n - 1)
    BY <1>1, Powers
<1>4. 2^(w - 1) = 2^n * 2^(w - n - 1)
    BY <1>1, PowerOfSum
<1>5. 2^(w - 1) \in Nat \ {0} /\ 2^w = 2 * 2^(w - 1)
    BY <1>1, Powers
<1> QED
    BY <1>2, <1>3, <1>4, <1>5 DEF Weights

(* A number cut at the place of weight p: what is above it, the bit there  *)
(* and what is below.                                                      *)
LEMMA Cut ==
    ASSUME NEW p \in Nat \ {0}, NEW q \in Nat \ {0}, NEW a \in 0..(2 * (p * q) - 1)
    PROVE  /\ (a \div (2 * p)) \in 0..(q - 1)
           /\ ((a \div p) % 2) \in 0..1
           /\ (a % p) \in 0..(p - 1)
           /\ (a \div p) = 2 * (a \div (2 * p)) + ((a \div p) % 2)
           /\ (a % (2 * p)) = ((a \div p) % 2) * p + (a % p)
<1> DEFINE hi == a \div (2 * p)
           b  == (a \div p) % 2
           lo == a % p
           u == a \div p
           k == u \div 2
           c == u % 2
           r == a % p
<1>1. u \in Int /\ r \in 0..(p - 1) /\ a = p * u + r
    OBVIOUS
<1> HIDE DEF u, r
<1>2. k \in Int /\ c \in 0..1 /\ u = 2 * k + c
    BY <1>1
<1> HIDE DEF k, c
<1>3. p * u = 2 * (k * p) + c * p
  <2>1. p * (2 * k + c) = 2 * (k * p) + c * p
      BY <1>1, <1>2
  <2> QED
      BY <1>2, <2>1
<1>4. c * p + r \in 0..(2 * p - 1)
  <2>1. 0 * p = 0 /\ 1 * p = p
      OBVIOUS
  <2> QED
      BY <1>1, <1>2, <2>1
<1>5. k * (2 * p) = 2 * (k * p)
    BY <1>2
<1>6. 2 * p \in Nat \ {0} /\ k * p \in Int /\ c * p \in Int
    BY <1>2
<1>7. k * (2 * p) <= a /\ a < k * (2 * p) + 2 * p /\ a - k * (2 * p) = c * p + r
    BY <1>1, <1>3, <1>4, <1>5, <1>6
<1>8. a \div (2 * p) = k /\ a % (2 * p) = c * p + r
  <2> DEFINE m == 2 * p
  <2>1. /\ m \in Nat \ {0} /\ k \in Int /\ a \in Int
        /\ k * m <= a /\ a < k * m + m /\ a - k * m = c * p + r
      BY <1>2, <1>6, <1>7
  <2> HIDE DEF m
  <2>2. a \div m = k /\ (a % m) = a - k * m
      BY ONLY <2>1, DivUnique
  <2> QED
      BY <2>1, <2>2 DEF m
<1>9. k >= 0
  <2> SUFFICES ASSUME k <= -1 PROVE FALSE
      BY <1>2
  <2>1. p * (-1 - k) >= 0
      BY <1>2
  <2>2. p * (-1 - k) = -p - k * p
      BY <1>2
  <2> QED
      BY <1>4, <1>5, <1>6, <1>7, <2>1, <2>2
<1>10. k < q
  <2> SUFFICES ASSUME k >= q PROVE FALSE
      BY <1>2
  <2>1. p * (k - q) >= 0
      BY <1>2
  <2>2. p * (k - q) = k * p - p * q
      BY <1>2
  <2>3. p * q \in Nat
      OBVIOUS
  <2> QED
      BY <1>4, <1>5, <1>6, <1>7, <2>1, <2>2, <2>3
<1>11. hi = k /\ b = c /\ lo = r
    BY <1>8 DEF k, c, u, r
<1> QED
    BY <1>1, <1>2, <1>3, <1>8, <1>9, <1>10, <1>11 DEF u

(* A number doubled: c has the bit b on top, x below it and t at the foot. *)
LEMMA Doubled ==
    ASSUME NEW p \in Nat \ {0}, NEW q \in Nat \ {0}, NEW b \in 0..1,
           NEW x \in 0..(q - 1), NEW t \in 0..(p - 1),
           NEW c, c = (b * q + x) * p + t
    PROVE  /\ c \in 0..(2 * (p * q) - 1)
           /\ c >= p * q <=> b = 1
           /\ (2 * c) % (2 * (p * q)) = x * (2 * p) + 2 * t
<1>1. p * q \in Nat \ {0} /\ x * p \in Nat
    OBVIOUS
<1>2. x * p + t \in 0..(p * q - 1)
  <2>1. p * (q - 1 - x) >= 0
      OBVIOUS
  <2>2. p * (q - 1 - x) = p * q - p - x * p
      OBVIOUS
  <2> QED
      BY <1>1, <2>1, <2>2
<1>3. c = b * (p * q) + (x * p + t)
  <2>1. (b * q + x) * p = b * (p * q) + x * p
      OBVIOUS
  <2> QED
      BY <1>1, <2>1
<1> DEFINE m == p * q
           y == x * p + t
<1>4. x * (2 * p) + 2 * t = 2 * y
    BY <1>1
<1>5. m \in Nat \ {0} /\ y \in 0..(m - 1)
    BY <1>1, <1>2
<1>6. c = b * m + y
    BY <1>3
<1> SUFFICES /\ c \in 0..(2 * m - 1)
             /\ c >= m <=> b = 1
             /\ (2 * c) % (2 * m) = 2 * y
    BY <1>4
<1> HIDE DEF m, y
<1>7. b * m = IF b = 1 THEN m ELSE 0
    BY <1>5
<1>8. b * (2 * m) = IF b = 1 THEN 2 * m ELSE 0
    BY <1>5
<1>9. (2 * c) % (2 * m) = 2 * c - b * (2 * m)
  <2> DEFINE W == 2 * m
             e == 2 * c
  <2>1. W \in Nat \ {0} /\ e \in Int /\ b \in Int /\ b * W <= e /\ e < b * W + W
      BY <1>5, <1>6, <1>7, <1>8
  <2> HIDE DEF W, e
  <2>2. (e % W) = e - b * W
      BY ONLY <2>1, DivUnique
  <2> QED
      BY <2>2 DEF W, e
<1> QED
    BY <1>5, <1>6, <1>7, <1>8, <1>9

(* One place to the left: the value has been shifted by n, with t at the   *)
(* foot.                                                                   *)
LEMMA LeftPlace ==
    ASSUME NEW w \in Nat \ {0}, NEW n \in 0..(w - 1), NEW a \in 0..(2^w - 1),
           NEW t \in 0..(2^n - 1), NEW c, c = Left(w, a, n) + t
    PROVE  /\ c \in 0..(2^w - 1)
           /\ c >= 2^(w - 1) <=> BitOf(a, w - n - 1)
           /\ ((2 * c) % 2^w) = Left(w, a, n + 1) + 2 * t
<1> DEFINE p  == 2^n
           q  == 2^(w - n - 1)
           hi == a \div (2 * q)
           b  == (a \div q) % 2
           lo == a % q
<1>1. Weights(w, n, p, q)
    BY PlaceWeights
<1>2. w - (n + 1) = w - n - 1 /\ w - n - 1 >= 0
    OBVIOUS
<1>3. Left(w, a, n + 1) = lo * (2 * p) /\ Left(w, a, n) = (a % (2 * q)) * p
    BY <1>1, <1>2 DEF Left, Weights
<1>4. BitOf(a, w - n - 1) <=> b = 1
    BY <1>2 DEF BitOf
<1> HIDE DEF p, q
<1>5. /\ p \in Nat \ {0} /\ q \in Nat \ {0} /\ t \in 0..(p - 1)
      /\ 2^(w - 1) = p * q /\ 2^w = 2 * (p * q) /\ q * p = p * q
    BY <1>1 DEF Weights, p
<1>6. a \in 0..(2 * (q * p) - 1)
    BY <1>5
<1>7. /\ hi \in 0..(p - 1) /\ b \in 0..1 /\ lo \in 0..(q - 1)
      /\ (a % (2 * q)) = b * q + lo
    BY <1>5, <1>6, Cut, Zenon DEF hi, b, lo
<1> HIDE DEF hi, b, lo
<1>8. c = (b * q + lo) * p + t
    BY <1>3, <1>7
<1>9. /\ c \in 0..(2 * (p * q) - 1)
      /\ c >= p * q <=> b = 1
      /\ ((2 * c) % (2 * (p * q))) = lo * (2 * p) + 2 * t
    BY ONLY <1>5, <1>7, <1>8, Doubled
<1> QED
    BY <1>3, <1>4, <1>5, <1>9

(* One place to the right: the value has been shifted by n, with m on top. *)
LEMMA RightPlace ==
    ASSUME NEW w \in Nat \ {0}, NEW n \in 0..(w - 1), NEW a \in 0..(2^w - 1),
           NEW m \in 0..(2^n - 1), NEW c, c = (a \div 2^n) + m * 2^(w - n)
    PROVE  /\ c \in 0..(2^w - 1)
           /\ (c % 2) = 1 <=> BitOf(a, n)
           /\ (c \div 2) = (a \div 2^(n + 1)) + m * 2^(w - n - 1)
<1> DEFINE p  == 2^n
           q  == 2^(w - n - 1)
           hi == a \div (2 * p)
           b  == (a \div p) % 2
           lo == a % p
<1>1. Weights(w, n, p, q)
    BY PlaceWeights
<1>2. a \div 2^(n + 1) = hi /\ 2^(w - n) = 2 * q
    BY <1>1 DEF Weights
<1>3. BitOf(a, n) <=> b = 1
    BY DEF BitOf
<1>4. c = (a \div p) + m * (2 * q)
    BY <1>2
<1>5. m * 2^(w - n - 1) = m * q
    OBVIOUS
<1> HIDE DEF p, q
<1>6. /\ p \in Nat \ {0} /\ q \in Nat \ {0} /\ m \in 0..(p - 1) /\ 2^w = 2 * (p * q)
    BY <1>1 DEF Weights, p
<1>7. a \in 0..(2 * (p * q) - 1)
    BY <1>6
<1>8. /\ hi \in 0..(q - 1) /\ b \in 0..1 /\ lo \in 0..(p - 1)
      /\ (a \div p) = 2 * hi + b
    BY <1>6, <1>7, Cut, Zenon DEF hi, b, lo
<1> HIDE DEF hi, b, lo
<1>9. m * (2 * q) = 2 * (m * q) /\ m * q \in Nat
    BY <1>6
<1>10. (c \div 2) = hi + m * q /\ (c % 2) = b
    BY <1>4, <1>8, <1>9
<1>11. m * q <= p * q - q
  <2>1. (p - 1 - m) * q >= 0
      BY <1>6
  <2>2. (p - 1 - m) * q = p * q - q - m * q
      BY <1>6
  <2> QED
      BY <1>6, <1>9, <2>1, <2>2
<1>12. c \in 0..(2 * (p * q) - 1)
  <2>1. p * q \in Nat
      BY <1>6
  <2> QED
      BY <1>4, <1>6, <1>8, <1>9, <1>11, <2>1
<1> QED
    BY <1>2, <1>3, <1>5, <1>6, <1>10, <1>12

(* Powers at the ends.                                                     *)
LEMMA WidthPowers ==
    ASSUME NEW w \in Nat \ {0}
    PROVE  /\ 2^(w - 1) \in Nat \ {0} /\ 2^w \in Nat \ {0} /\ 2^w = 2 * 2^(w - 1)
           /\ 2^0 = 1
<1>1. w - 1 \in Nat /\ (w - 1) + 1 = w
    OBVIOUS
<1>2. 2^0 = 1
    OBVIOUS
<1> QED
    BY <1>1, <1>2, Powers

(* Rotations by one place: k places become k + 1.                          *)
LEMMA RolPlace ==
    ASSUME NEW w \in Nat \ {0}, NEW k \in 0..(w - 1), NEW a \in 0..(2^w - 1),
           NEW c, c = Rol(w, a, k)
    PROVE  /\ c \in 0..(2^w - 1)
           /\ c >= 2^(w - 1) <=> BitOf(a, w - k - 1)
           /\ ((2 * c) % 2^w) + Bit(c >= 2^(w - 1)) = Rol(w, a, k + 1)
<1> DEFINE p  == 2^k
           q  == 2^(w - k - 1)
           hi == a \div (2 * q)
           b  == (a \div q) % 2
<1>1. Weights(w, k, p, q)
    BY PlaceWeights
<1>2. w - (k + 1) = w - k - 1 /\ w - k - 1 >= 0
    OBVIOUS
<1>3. Rol(w, a, k + 1) = Left(w, a, k + 1) + (a \div q) /\ Rol(w, a, k) = Left(w, a, k) + hi
    BY <1>1, <1>2 DEF Rol, Weights
<1>4. BitOf(a, w - k - 1) <=> b = 1
    BY <1>2 DEF BitOf
<1> HIDE DEF p, q
<1>5. /\ p \in Nat \ {0} /\ q \in Nat \ {0} /\ 2^w = 2 * (p * q) /\ q * p = p * q
    BY <1>1 DEF Weights
<1>6. a \in 0..(2 * (q * p) - 1)
    BY <1>5
<1>7. hi \in 0..(p - 1) /\ b \in 0..1 /\ (a \div q) = 2 * hi + b
    BY <1>5, <1>6, Cut, Zenon DEF hi, b
<1> HIDE DEF hi, b
<1>8. hi \in 0..(2^k - 1) /\ c = Left(w, a, k) + hi
    BY <1>3, <1>7 DEF p
<1>9. /\ c \in 0..(2^w - 1)
      /\ c >= 2^(w - 1) <=> BitOf(a, w - k - 1)
      /\ ((2 * c) % 2^w) = Left(w, a, k + 1) + 2 * hi
    BY <1>8, LeftPlace
<1>10. Bit(c >= 2^(w - 1)) = b
    BY <1>4, <1>7, <1>9 DEF Bit
<1>11. Left(w, a, k + 1) \in Int
  <2>1. 2^w \in Nat \ {0} /\ c \in Int
      BY <1>9, WidthPowers
  <2>2. ((2 * c) % 2^w) \in Int
      BY <2>1
  <2>3. Left(w, a, k + 1) = (a % q) * (2 * p)
      BY <1>1, <1>2 DEF Left, Weights, q
  <2> QED
      BY <1>5, <2>3
<1> QED
    BY <1>3, <1>7, <1>9, <1>10, <1>11

RorMoves(w, a, k, c) ==
    /\ c \in 0..(2^w - 1)
    /\ (c % 2) = 1 <=> BitOf(a, k)
    /\ (c \div 2) + 2^(w - 1) * Bit((c % 2) = 1) = Ror(w, a, k + 1)

(* One place more of a rotation to the right.                              *)
LEMMA RorPlace ==
    ASSUME NEW w \in Nat \ {0}, NEW k \in 0..(w - 1), NEW a \in 0..(2^w - 1),
           NEW c, c = Ror(w, a, k)
    PROVE  RorMoves(w, a, k, c)
<1> DEFINE p  == 2^k
           q  == 2^(w - k - 1)
           b  == (a \div p) % 2
           lo == a % p
<1>1. Weights(w, k, p, q)
    BY PlaceWeights
<1>2. w - (k + 1) = w - k - 1 /\ w - (w - k) = k /\ w - (w - (k + 1)) = k + 1
    OBVIOUS
<1>3. /\ Ror(w, a, k) = (a \div 2^k) + lo * 2^(w - k)
      /\ Ror(w, a, k + 1) = (a \div 2^(k + 1)) + (a % (2 * p)) * q
    BY <1>1, <1>2 DEF Ror, Left, Weights
<1>4. BitOf(a, k) <=> b = 1
    BY DEF BitOf
<1> HIDE DEF p, q
<1>5. /\ p \in Nat \ {0} /\ q \in Nat \ {0} /\ 2^w = 2 * (p * q) /\ 2^(w - 1) = p * q
    BY <1>1 DEF Weights
<1>6. a \in 0..(2 * (p * q) - 1)
    BY <1>5
<1>7. lo \in 0..(p - 1) /\ b \in 0..1 /\ (a % (2 * p)) = b * p + lo
    BY <1>5, <1>6, Cut, Zenon DEF lo, b
<1> HIDE DEF lo, b
<1>8. lo \in 0..(2^k - 1)
    BY <1>7 DEF p
<1>9. /\ c \in 0..(2^w - 1)
      /\ (c % 2) = 1 <=> BitOf(a, k)
      /\ (c \div 2) = (a \div 2^(k + 1)) + lo * 2^(w - k - 1)
    BY <1>3, <1>8, RightPlace
<1>10. Bit((c % 2) = 1) = b
    BY <1>4, <1>7, <1>9 DEF Bit
<1>11. (a % (2 * p)) * q = lo * q + (p * q) * b
  <2>1. (b * p + lo) * q = lo * q + (p * q) * b
      BY <1>5, <1>7
  <2> QED
      BY <1>7, <2>1
<1>12. (a \div 2^(k + 1)) \in Int /\ lo * q \in Int /\ (p * q) * b \in Int
  <2>1. 2^(k + 1) \in Nat \ {0}
      BY Powers
  <2>2. (a \div 2^(k + 1)) \in Int
      BY <2>1
  <2> QED
      BY <1>5, <1>7, <2>2
<1>13. lo * 2^(w - k - 1) = lo * q
    BY DEF q
<1>14. 2^(w - 1) * Bit((c % 2) = 1) = (p * q) * b
    BY <1>5, <1>10
<1> HIDE DEF p, q
<1> QED
    BY <1>3, <1>9, <1>11, <1>12, <1>13, <1>14 DEF RorMoves

(* No place, and as many as there are.                                     *)
LEMMA RotationEnds ==
    ASSUME NEW w \in Nat \ {0}, NEW a \in 0..(2^w - 1)
    PROVE  /\ Rol(w, a, 0) = a /\ Rol(w, a, w) = a
           /\ Ror(w, a, 0) = a /\ Ror(w, a, w) = a
           /\ Left(w, a, 0) = a /\ Left(w, a, w) = 0
           /\ (a \div 2^0) = a /\ (a \div 2^w) = 0
<1> DEFINE W == 2^w
<1>1. W \in Nat \ {0} /\ 2^0 = 1 /\ w - 0 = w /\ w - w = 0
    BY WidthPowers
<1>2. /\ Left(w, a, 0) = (a % W) * 1 /\ Left(w, a, w) = (a % 1) * W
    BY <1>1 DEF Left
<1>3. a \in 0..(W - 1)
    OBVIOUS
<1> HIDE DEF W
<1>4. (a % W) = a /\ (a \div W) = 0
    BY <1>1, <1>3, DivUnique, 0 * W = 0
<1>5. (a % 1) = 0 /\ (a \div 1) = a
    BY <1>3
<1>6. (a % W) * 1 = a /\ (a % 1) * W = 0
    BY <1>1, <1>3, <1>4, <1>5
<1> QED
    BY <1>1, <1>2, <1>3, <1>4, <1>5, <1>6 DEF Rol, Ror, W

(* What n places of a shift leave, and the last bit that they put out.     *)
Top(w, a) == a >= 2^(w - 1)

LslOf(w, a, n) == IF n < w THEN Left(w, a, n) ELSE 0
LsrOf(w, a, n) == IF n < w THEN a \div 2^n ELSE 0
AsrOf(w, a, n) ==
    IF n < w THEN (a \div 2^n) + (IF Top(w, a) THEN 2^w - 2^(w - n) ELSE 0)
             ELSE IF Top(w, a) THEN 2^w - 1 ELSE 0

LeftOut(w, a, n)  == n <= w /\ BitOf(a, w - n)
RightOut(w, a, n) == n <= w /\ BitOf(a, n - 1)
AsrOut(w, a, n)   == IF n <= w THEN BitOf(a, n - 1) ELSE Top(w, a)

(* The signs seen on the way differ: the n + 1 highest bits do.            *)
SignsDiffer(w, a, n) ==
    IF n < w THEN (a \div 2^(w - n - 1)) \notin {0, 2^(n + 1) - 1} ELSE a # 0

(* One place more of each shift, for counts beyond the width too.          *)
LEMMA LslPlace ==
    ASSUME NEW w \in Nat \ {0}, NEW n \in Nat, NEW a \in 0..(2^w - 1),
           NEW c, c = LslOf(w, a, n)
    PROVE  /\ c \in 0..(2^w - 1)
           /\ Top(w, c) <=> LeftOut(w, a, n + 1)
           /\ ((2 * c) % 2^w) = LslOf(w, a, n + 1)
<1>1. 2^w \in Nat \ {0} /\ 2^(w - 1) \in Nat \ {0}
    BY WidthPowers
<1>2. CASE n < w
  <2>1. n \in 0..(w - 1) /\ c = Left(w, a, n) + 0 /\ w - (n + 1) = w - n - 1
    <3>1. 2^n \in Nat \ {0} /\ 2^(w - n) \in Nat \ {0}
        BY <1>2, Powers
    <3>2. Left(w, a, n) \in Int
        BY <3>1 DEF Left
    <3> QED
        BY <1>2, <3>2 DEF LslOf
  <2>2. 0 \in 0..(2^n - 1)
      BY <1>2, Powers
  <2>3. /\ c \in 0..(2^w - 1)
        /\ c >= 2^(w - 1) <=> BitOf(a, w - n - 1)
        /\ ((2 * c) % 2^w) = Left(w, a, n + 1) + 2 * 0
      BY <2>1, <2>2, LeftPlace
  <2>4. Left(w, a, n + 1) \in Int
    <3>1. 2^(n + 1) \in Nat \ {0} /\ 2^(w - (n + 1)) \in Nat \ {0}
        BY <2>1, Powers
    <3> QED
        BY <3>1 DEF Left
  <2>5. ((2 * c) % 2^w) = LslOf(w, a, n + 1)
    <3>1. CASE n + 1 < w
        BY <2>3, <2>4, <3>1 DEF LslOf
    <3>2. CASE n + 1 = w
        BY <2>3, <2>4, <3>2, RotationEnds DEF LslOf
    <3> QED
        BY <2>1, <3>1, <3>2
  <2> QED
      BY <1>2, <2>1, <2>3, <2>5 DEF Top, LeftOut
<1>3. CASE n >= w
  <2>1. c = 0 /\ LslOf(w, a, n + 1) = 0 /\ ~LeftOut(w, a, n + 1)
      BY <1>3 DEF LslOf, LeftOut
  <2>2. (0 % 2^w) = 0
      BY <1>1
  <2> QED
      BY <1>1, <2>1, <2>2 DEF Top
<1> QED
    BY <1>2, <1>3

LEMMA LsrPlace ==
    ASSUME NEW w \in Nat \ {0}, NEW n \in Nat, NEW a \in 0..(2^w - 1),
           NEW c, c = LsrOf(w, a, n)
    PROVE  /\ c \in 0..(2^w - 1)
           /\ (c % 2) = 1 <=> RightOut(w, a, n + 1)
           /\ (c \div 2) = LsrOf(w, a, n + 1)
<1>1. 2^w \in Nat \ {0}
    BY WidthPowers
<1>2. CASE n < w
  <2>0. /\ 2^n \in Nat \ {0} /\ 2^(w - n) \in Nat \ {0}
        /\ 2^(n + 1) \in Nat \ {0} /\ 2^(w - n - 1) \in Nat \ {0}
      BY <1>2, Powers
  <2>1. n \in 0..(w - 1) /\ c = (a \div 2^n) + 0 * 2^(w - n) /\ 0 \in 0..(2^n - 1)
      BY <1>2, <2>0 DEF LsrOf
  <2>2. /\ c \in 0..(2^w - 1)
        /\ (c % 2) = 1 <=> BitOf(a, n)
        /\ (c \div 2) = (a \div 2^(n + 1)) + 0 * 2^(w - n - 1)
      BY <2>1, RightPlace
  <2>3. (c \div 2) = (a \div 2^(n + 1))
      BY <2>0, <2>2
  <2>4. (a \div 2^(n + 1)) = LsrOf(w, a, n + 1)
    <3>1. CASE n + 1 < w
        BY <3>1 DEF LsrOf
    <3>2. CASE n + 1 = w
        BY <3>2, RotationEnds DEF LsrOf
    <3> QED
        BY <2>1, <3>1, <3>2
  <2> QED
      BY <1>2, <2>2, <2>3, <2>4 DEF RightOut
<1>3. CASE n >= w
  <2>1. c = 0 /\ LsrOf(w, a, n + 1) = 0 /\ ~RightOut(w, a, n + 1)
      BY <1>3 DEF LsrOf, RightOut
  <2> QED
      BY <1>1, <2>1
<1> QED
    BY <1>2, <1>3

LEMMA AsrPlace ==
    ASSUME NEW w \in Nat \ {0}, NEW n \in Nat, NEW a \in 0..(2^w - 1),
           NEW c, c = AsrOf(w, a, n)
    PROVE  /\ c \in 0..(2^w - 1)
           /\ Top(w, c) <=> Top(w, a)
           /\ (c % 2) = 1 <=> AsrOut(w, a, n + 1)
           /\ (c \div 2) + 2^(w - 1) * Bit(Top(w, c)) = AsrOf(w, a, n + 1)
<1> DEFINE h == 2^(w - 1)
<1>1. h \in Nat \ {0} /\ 2^w = 2 * h
    BY WidthPowers
<1>2. CASE n < w
  <2> DEFINE p == 2^n
             q == 2^(w - n - 1)
             m == IF Top(w, a) THEN p - 1 ELSE 0
             x == a \div 2^(n + 1)
  <2>1. Weights(w, n, p, q)
      BY <1>2, PlaceWeights
  <2>2. /\ p \in Nat \ {0} /\ q \in Nat \ {0} /\ p * q \in Nat \ {0} /\ h = p * q
        /\ 2^(w - n) = 2 * q
      BY <2>1 DEF Weights
  <2>3. m \in 0..(2^n - 1) /\ n \in 0..(w - 1) /\ w - (n + 1) = w - n - 1
      BY <1>2, <2>2
  <2>4. c = (a \div p) + (IF Top(w, a) THEN 2 * (p * q) - 2 * q ELSE 0)
      BY <1>1, <1>2, <2>2 DEF AsrOf
  <2>5. x = a \div (2 * p)
      BY <2>1 DEF Weights
  <2> HIDE DEF p, q
  <2>6. m * (2 * q) = IF Top(w, a) THEN 2 * (p * q) - 2 * q ELSE 0
    <3>1. (p - 1) * (2 * q) = 2 * (p * q) - 2 * q /\ 0 * (2 * q) = 0
        BY <2>2
    <3> QED
        BY <3>1
  <2>7. m * q = IF Top(w, a) THEN p * q - q ELSE 0
    <3>1. (p - 1) * q = p * q - q /\ 0 * q = 0
        BY <2>2
    <3> QED
        BY <3>1
  <2>8. c = (a \div 2^n) + m * 2^(w - n)
      BY <2>2, <2>4, <2>6 DEF p
  <2> HIDE DEF m
  <2>9. /\ c \in 0..(2^w - 1)
        /\ (c % 2) = 1 <=> BitOf(a, n)
        /\ (c \div 2) = x + m * 2^(w - n - 1)
      BY <2>3, <2>8, RightPlace
  <2>10. /\ (a \div p) = 2 * (a \div (2 * p)) + ((a \div p) % 2)
         /\ (a \div (2 * p)) \in 0..(q - 1) /\ ((a \div p) % 2) \in 0..1
    <3>1. a \in 0..(2 * (p * q) - 1)
        BY <1>1, <2>2
    <3> QED
        BY <2>2, <3>1, Cut, Zenon
  <2> DEFINE y == a \div p
             r == a % p
  <2>11. y \in 0..(2 * q - 1) /\ r \in 0..(p - 1) /\ a = p * y + r
    <3>1. r \in 0..(p - 1) /\ a = p * y + r
        BY <2>2
    <3> HIDE DEF r
    <3> QED
        BY <2>2, <2>5, <2>10, <3>1
  <2>12. c = y + (IF Top(w, a) THEN 2 * (p * q) - 2 * q ELSE 0)
      BY <2>4
  <2> HIDE DEF y, r
  <2>13. q <= p * q
    <3>1. (p - 1) * q >= 0 /\ (p - 1) * q = p * q - q
        BY <2>2
    <3> QED
        BY <2>2, <3>1
  <2>14. Top(w, c) <=> Top(w, a)
    <3>1. CASE Top(w, a)
      <4>1. y >= q
        <5> SUFFICES ASSUME y <= q - 1 PROVE FALSE
            BY <2>2, <2>11
        <5>1. p * (q - 1 - y) >= 0 /\ p * (q - 1 - y) = p * q - p - p * y
            BY <2>2, <2>11
        <5> QED
            BY <2>2, <2>11, <3>1, <5>1 DEF Top
      <4> QED
          BY <2>2, <2>11, <2>12, <2>13, <3>1, <4>1 DEF Top
    <3>2. CASE ~Top(w, a)
      <4>1. y <= q - 1
        <5> SUFFICES ASSUME y >= q PROVE FALSE
            BY <2>2, <2>11
        <5>1. p * (y - q) >= 0 /\ p * (y - q) = p * y - p * q
            BY <2>2, <2>11
        <5> QED
            BY <2>2, <2>11, <3>2, <5>1 DEF Top
      <4> QED
          BY <2>2, <2>11, <2>12, <2>13, <3>2, <4>1 DEF Top
    <3> QED
        BY <3>1, <3>2
  <2>15. (c % 2) = 1 <=> AsrOut(w, a, n + 1)
      BY <2>3, <2>9 DEF AsrOut
  <2>16. h * Bit(Top(w, c)) = IF Top(w, a) THEN p * q ELSE 0
      BY <1>1, <2>2, <2>14 DEF Bit
  <2>17. m * 2^(w - n - 1) = m * q
      BY DEF q
  <2>18. (c \div 2) + h * Bit(Top(w, c)) = x + (IF Top(w, a) THEN 2 * (p * q) - q ELSE 0)
    <3>1. x \in Int
        BY <2>5, <2>10
    <3> QED
        BY <2>2, <2>7, <2>9, <2>16, <2>17, <3>1
  <2>19. x + (IF Top(w, a) THEN 2 * (p * q) - q ELSE 0) = AsrOf(w, a, n + 1)
    <3>1. CASE n + 1 < w
        BY <1>1, <2>2, <2>3, <3>1 DEF AsrOf, q
    <3>2. CASE n + 1 = w
      <4>1. q = 1
        <5>1. w - n - 1 = 0 /\ 2^0 = 1
            BY <3>2
        <5> QED
            BY <5>1 DEF q
      <4>2. x = 0
          BY <3>2, RotationEnds
      <4> QED
          BY <1>1, <2>2, <3>2, <4>1, <4>2 DEF AsrOf
    <3> QED
        BY <2>3, <3>1, <3>2
  <2> QED
      BY <2>9, <2>14, <2>15, <2>18, <2>19
<1>3. CASE n >= w
  <2>1. c = (IF Top(w, a) THEN 2 * h - 1 ELSE 0) /\ AsrOf(w, a, n + 1) = c
        /\ (AsrOut(w, a, n + 1) <=> Top(w, a))
      BY <1>1, <1>3 DEF AsrOf, AsrOut
  <2>2. Top(w, c) <=> c >= h
      BY DEF Top
  <2> HIDE DEF h
  <2>3. CASE Top(w, a)
    <3>1. c = 2 * h - 1 /\ (c % 2) = 1 /\ (c \div 2) = h - 1 /\ Top(w, c)
        BY <1>1, <2>1, <2>2, <2>3
    <3>2. Bit(Top(w, c)) = 1
        BY <3>1 DEF Bit
    <3>3. (c \div 2) + h * Bit(Top(w, c)) = 2 * h - 1
      <4> DEFINE u == c \div 2
                 v == h * Bit(Top(w, c))
      <4>1. u = h - 1 /\ v = h
        <5>1. u = h - 1
            BY <3>1
        <5>2. v = h * 1
            BY <3>2
        <5>3. h * 1 = h
            BY ONLY <1>1
        <5> QED
            BY ONLY <5>1, <5>2, <5>3
      <4> HIDE DEF u, v
      <4>2. u + v = 2 * h - 1
          BY ONLY <1>1, <4>1
      <4> QED
          BY <4>2 DEF u, v
    <3> QED
        BY <1>1, <2>1, <2>3, <3>1, <3>3 DEF h
  <2>4. CASE ~Top(w, a)
    <3>1. c = 0 /\ (c % 2) = 0 /\ (c \div 2) = 0 /\ ~Top(w, c)
        BY <1>1, <2>1, <2>2, <2>4
    <3>2. Bit(Top(w, c)) = 0
        BY <3>1 DEF Bit
    <3>3. (c \div 2) + h * Bit(Top(w, c)) = 0
        BY <1>1, <3>1, <3>2
    <3> QED
        BY <1>1, <2>1, <2>4, <3>1, <3>3 DEF h
  <2> QED
      BY <2>3, <2>4
<1> QED
    BY <1>2, <1>3

(* V of asl.                                                               *)
LEMMA AslPlace ==
    ASSUME NEW w \in Nat \ {0}, NEW n \in Nat, NEW a \in 0..(2^w - 1)
    PROVE  /\ ~SignsDiffer(w, a, 0)
           /\ SignsDiffer(w, a, n + 1) <=>
                 \/ SignsDiffer(w, a, n)
                 \/ ~(Top(w, LslOf(w, a, n + 1)) <=> Top(w, LslOf(w, a, n)))
<1>1. /\ Top(w, LslOf(w, a, n)) <=> LeftOut(w, a, n + 1)
      /\ Top(w, LslOf(w, a, n + 1)) <=> LeftOut(w, a, n + 2)
  <2>1. n + 1 \in Nat /\ (n + 1) + 1 = n + 2
      OBVIOUS
  <2> QED
      BY <2>1, LslPlace
<1>2. ~SignsDiffer(w, a, 0)
  <2> DEFINE h == 2^(w - 1)
  <2>1. h \in Nat \ {0} /\ 2^w = 2 * h /\ 2^(0 + 1) = 2 /\ w - 0 - 1 = w - 1
      BY WidthPowers
  <2> HIDE DEF h
  <2>2. a \div h \in {0, 1}
    <3>1. CASE a < h
        BY <2>1, <3>1, DivUnique, 0 * h = 0
    <3>2. CASE a >= h
        BY <2>1, <3>2, DivUnique, 1 * h = h
    <3> QED
        BY <2>1, <3>1, <3>2
  <2> QED
      BY <2>1, <2>2 DEF SignsDiffer, h
<1>3. CASE n + 1 < w
  <2> DEFINE p == 2^(n + 1)
             q == 2^(w - n - 2)
             u == a \div (2 * q)
             b == (a \div q) % 2
             v == a \div q
  <2>1. Weights(w, n + 1, p, q)
    <3>1. n + 1 \in 0..(w - 1) /\ w - (n + 1) - 1 = w - n - 2
        BY <1>3
    <3> QED
        BY <3>1, PlaceWeights
  <2>2. /\ p \in Nat \ {0} /\ q \in Nat \ {0} /\ 2^w = 2 * (q * p)
        /\ 2^(n + 2) = 2 * p /\ 2^(w - n - 1) = 2 * q
    <3>1. (n + 1) + 1 = n + 2 /\ w - (n + 1) = w - n - 1
        BY <1>3
    <3>2. p * q = q * p
        BY <2>1 DEF Weights
    <3> QED
        BY <2>1, <3>1, <3>2 DEF Weights
  <2>3. /\ SignsDiffer(w, a, n) <=> u \notin {0, p - 1}
        /\ SignsDiffer(w, a, n + 1) <=> v \notin {0, 2 * p - 1}
    <3>1. w - (n + 1) - 1 = w - n - 2 /\ (n + 1) + 1 = n + 2 /\ n < w
        BY <1>3
    <3> QED
        BY <1>3, <2>2, <3>1 DEF SignsDiffer
  <2>4. /\ LeftOut(w, a, n + 1) <=> (u % 2) = 1
        /\ LeftOut(w, a, n + 2) <=> b = 1
    <3>1. /\ w - (n + 1) = w - n - 1 /\ w - (n + 2) = w - n - 2 /\ n + 1 <= w /\ n + 2 <= w
          /\ w - n - 1 >= 0 /\ w - n - 2 >= 0
        BY <1>3
    <3> QED
        BY <2>2, <3>1 DEF LeftOut, BitOf
  <2> HIDE DEF p, q
  <2>5. a \in 0..(2 * (q * p) - 1)
      BY <2>2
  <2>6. u \in 0..(p - 1) /\ b \in 0..1 /\ v = 2 * u + b
      BY <2>2, <2>5, Cut, Zenon DEF u, b, v
  <2> HIDE DEF u, b, v
  <2>7. \E k \in Nat : p = 2 * k
      BY Powers DEF p
  <2> QED
      BY <1>1, <1>2, <2>2, <2>3, <2>4, <2>6, <2>7
<1>4. CASE n + 1 = w
  <2> DEFINE h == 2^(w - 1)
  <2>1. h \in Nat \ {0} /\ 2^w = 2 * h
      BY WidthPowers
  <2>2. (a \div 2^0) = a /\ w - n - 1 = 0 /\ n + 1 <= w /\ w - (n + 1) = 0 /\ ~(n + 2 <= w)
      BY <1>4, RotationEnds
  <2>3. /\ SignsDiffer(w, a, n) <=> a \notin {0, 2 * h - 1}
        /\ SignsDiffer(w, a, n + 1) <=> a # 0
    <3>1. 2^(w - n - 1) = 2^0 /\ 2^(n + 1) = 2^w /\ n < w /\ ~(n + 1 < w)
        BY <1>4, <2>2
    <3> QED
        BY <2>1, <2>2, <3>1 DEF SignsDiffer
  <2>4. (LeftOut(w, a, n + 1) <=> (a % 2) = 1) /\ ~LeftOut(w, a, n + 2)
      BY <2>2 DEF LeftOut, BitOf
  <2> HIDE DEF h
  <2> QED
      BY <1>1, <1>2, <2>1, <2>3, <2>4
<1>5. CASE n >= w
  <2>1. ~LeftOut(w, a, n + 1) /\ ~LeftOut(w, a, n + 2)
      BY <1>5 DEF LeftOut
  <2>2. (SignsDiffer(w, a, n) <=> a # 0) /\ (SignsDiffer(w, a, n + 1) <=> a # 0)
      BY <1>5 DEF SignsDiffer
  <2> QED
      BY <1>1, <1>2, <2>1, <2>2
<1> QED
    BY <1>3, <1>4, <1>5

(* A rotation counts modulo its width.                                     *)
RolOf(w, a, n)  == Rol(w, a, n % w)
RorOf(w, a, n)  == Ror(w, a, n % w)
RolOut(w, a, n) == BitOf(a, (w - (n % w)) % w)
RorOut(w, a, n) == BitOf(a, ((n % w) - 1) % w)

(* Counts and bit numbers go round with the width.                         *)
LEMMA TurnsModulo ==
    ASSUME NEW w \in Nat \ {0}, NEW n \in Nat, NEW k, k = (n % w)
    PROVE  /\ k \in 0..(w - 1)
           /\ ((n + 1) % w) = IF k + 1 < w THEN k + 1 ELSE 0
           /\ ((w - ((n + 1) % w)) % w) = w - k - 1
           /\ ((((n + 1) % w) - 1) % w) = k
           /\ n < w => (n % w) = n
<1> DEFINE t == n \div w
<1>1. k \in 0..(w - 1) /\ t \in Int /\ n = w * t + k
    OBVIOUS
<1> HIDE DEF t
<1>2. w * t = t * w /\ w * (t + 1) = t * w + w /\ (t + 1) * w = t * w + w
      /\ t * w \in Int /\ t + 1 \in Int
    BY <1>1
<1> DEFINE next == (n + 1) % w
<1>3. next = IF k + 1 < w THEN k + 1 ELSE 0
  <2>1. CASE k + 1 < w
    <3>1. n + 1 \in Int /\ t * w <= n + 1 /\ n + 1 < t * w + w /\ (n + 1) - t * w = k + 1
        BY <1>1, <1>2, <2>1
    <3>2. ((n + 1) % w) = (n + 1) - t * w
        BY ONLY <1>1, <3>1, DivUnique, w \in Nat \ {0}
    <3> QED
        BY <2>1, <3>1, <3>2
  <2>2. CASE k + 1 = w
    <3>1. /\ n + 1 \in Int /\ (t + 1) * w <= n + 1 /\ n + 1 < (t + 1) * w + w
          /\ (n + 1) - (t + 1) * w = 0
        BY <1>1, <1>2, <2>2
    <3>2. ((n + 1) % w) = (n + 1) - (t + 1) * w
        BY ONLY <1>2, <3>1, DivUnique, w \in Nat \ {0}
    <3> QED
        BY <2>2, <3>1, <3>2
  <2> QED
      BY <1>1, <2>1, <2>2
<1>4. \A i \in 0..(w - 1) : (i % w) = i
  <2> SUFFICES ASSUME NEW i \in 0..(w - 1) PROVE (i % w) = i
      OBVIOUS
  <2>1. i \in Int /\ 0 * w <= i /\ i < 0 * w + w /\ i - 0 * w = i
      OBVIOUS
  <2>2. (i % w) = i - 0 * w
      BY ONLY <2>1, DivUnique, w \in Nat \ {0}, 0 \in Int
  <2> QED
      BY <2>1, <2>2
<1>5. (w % w) = 0 /\ ((-1) % w) = w - 1
  <2> DEFINE g == -1
  <2>1. 1 * w = w /\ g * w = -w /\ g \in Int /\ g * w <= g /\ g < g * w + w /\ g = -1
      OBVIOUS
  <2>2. (w % w) = w - 1 * w
      BY <2>1, DivUnique
  <2> HIDE DEF g
  <2>3. (g % w) = g - g * w
      BY ONLY <2>1, DivUnique, w \in Nat \ {0}
  <2>4. (g % w) = w - 1
      BY <2>1, <2>3
  <2> QED
      BY <2>1, <2>2, <2>4 DEF g
<1> HIDE DEF next
<1>6. ((w - next) % w) = w - k - 1
  <2>1. CASE k + 1 < w
      BY <1>1, <1>3, <1>4, <2>1
  <2>2. CASE k + 1 = w
      BY <1>1, <1>3, <1>5, <2>2
  <2> QED
      BY <1>1, <2>1, <2>2
<1>7. ((next - 1) % w) = k
  <2>1. CASE k + 1 < w
      BY <1>1, <1>3, <1>4, <2>1
  <2>2. CASE k + 1 = w
      BY <1>1, <1>3, <1>5, <2>2
  <2> QED
      BY <1>1, <2>1, <2>2
<1>8. n < w => (n % w) = n
    BY <1>4
<1> QED
    BY <1>1, <1>3, <1>6, <1>7, <1>8 DEF next

(* One place more of a rotation by any count.                              *)
LEMMA RolTurn ==
    ASSUME NEW w \in Nat \ {0}, NEW n \in Nat, NEW a \in 0..(2^w - 1),
           NEW c, c = RolOf(w, a, n)
    PROVE  /\ c \in 0..(2^w - 1)
           /\ Top(w, c) <=> RolOut(w, a, n + 1)
           /\ ((2 * c) % 2^w) + Bit(Top(w, c)) = RolOf(w, a, n + 1)
<1> DEFINE k == n % w
<1>1. /\ k \in 0..(w - 1)
      /\ ((n + 1) % w) = IF k + 1 < w THEN k + 1 ELSE 0
      /\ ((w - ((n + 1) % w)) % w) = w - k - 1
    BY TurnsModulo
<1>2. c = Rol(w, a, k)
    BY DEF RolOf
<1> HIDE DEF k
<1>3. /\ c \in 0..(2^w - 1)
      /\ c >= 2^(w - 1) <=> BitOf(a, w - k - 1)
      /\ ((2 * c) % 2^w) + Bit(c >= 2^(w - 1)) = Rol(w, a, k + 1)
    BY <1>1, <1>2, RolPlace
<1>4. Rol(w, a, k + 1) = RolOf(w, a, n + 1)
  <2>1. CASE k + 1 < w
      BY <1>1, <2>1 DEF RolOf
  <2>2. CASE k + 1 = w
      BY <1>1, <2>2, RotationEnds DEF RolOf
  <2> QED
      BY <1>1, <2>1, <2>2
<1> QED
    BY <1>1, <1>3, <1>4 DEF Top, RolOut

LEMMA RorTurn ==
    ASSUME NEW w \in Nat \ {0}, NEW n \in Nat, NEW a \in 0..(2^w - 1),
           NEW c, c = RorOf(w, a, n)
    PROVE  /\ c \in 0..(2^w - 1)
           /\ (c % 2) = 1 <=> RorOut(w, a, n + 1)
           /\ (c \div 2) + 2^(w - 1) * Bit((c % 2) = 1) = RorOf(w, a, n + 1)
<1> DEFINE k == n % w
<1>1. /\ k \in 0..(w - 1)
      /\ ((n + 1) % w) = IF k + 1 < w THEN k + 1 ELSE 0
      /\ ((((n + 1) % w) - 1) % w) = k
    BY TurnsModulo
<1>2. c = Ror(w, a, k)
    BY DEF RorOf
<1> HIDE DEF k
<1>3. /\ c \in 0..(2^w - 1)
      /\ (c % 2) = 1 <=> BitOf(a, k)
      /\ (c \div 2) + 2^(w - 1) * Bit((c % 2) = 1) = Ror(w, a, k + 1)
  <2>1. RorMoves(w, a, k, c)
      BY <1>1, <1>2, RorPlace
  <2> QED
      BY <2>1 DEF RorMoves
<1>4. Ror(w, a, k + 1) = RorOf(w, a, n + 1)
  <2>1. CASE k + 1 < w
      BY <1>1, <2>1 DEF RorOf
  <2>2. CASE k + 1 = w
      BY <1>1, <2>2, RotationEnds DEF RorOf
  <2> QED
      BY <1>1, <2>1, <2>2
<1> QED
    BY <1>1, <1>3, <1>4 DEF RorOut

(* A rotation through X of w bits is a rotation of w + 1.                  *)
WithX(w, a, x) == a + 2^w * Bit(x)

Extends(w, c, x, e) ==
    /\ e \in 0..(2^(w + 1) - 1)
    /\ Top(w + 1, e) <=> x
    /\ ((2 * e) % 2^(w + 1)) + Bit(Top(w + 1, e))
         = ((2 * c) % 2^w) + Bit(x) + 2^w * Bit(Top(w, c))
    /\ ((2 * c) % 2^w) + Bit(x) \in 0..(2^w - 1)
    /\ (e % 2) = 1 <=> (c % 2) = 1
    /\ (e \div 2) + 2^w * Bit((e % 2) = 1)
         = (c \div 2) + 2^(w - 1) * Bit(x) + 2^w * Bit((c % 2) = 1)
    /\ (c \div 2) + 2^(w - 1) * Bit(x) \in 0..(2^w - 1)

(* A rotation through X is one of the operand with X above it.             *)
LEMMA ThroughExtend ==
    ASSUME NEW w \in Nat \ {0}, NEW c \in 0..(2^w - 1), NEW x \in BOOLEAN,
           NEW e, e = WithX(w, c, x)
    PROVE  Extends(w, c, x, e)
<1> DEFINE h == 2^(w - 1)
           W == 2^w
           V == 2^(w + 1)
<1>1. h \in Nat \ {0} /\ W = 2 * h /\ V = 4 * h /\ (w + 1) - 1 = w
  <2>1. (w - 1) + 1 = w /\ w - 1 \in Nat /\ w \in Nat
      OBVIOUS
  <2> QED
      BY <2>1, Powers
<1>2. Top(w + 1, e) <=> e >= 2 * h
    BY <1>1 DEF Top
<1>3. Top(w, c) <=> c >= h
    BY DEF Top
<1>4. c \in 0..(2 * h - 1)
    BY <1>1
<1> HIDE DEF h, W, V
<1>5. e = IF x THEN c + 2 * h ELSE c
    BY <1>1 DEF WithX, Bit, W
<1>6. e \in 0..(4 * h - 1) /\ (e >= 2 * h <=> x)
    BY <1>1, <1>4, <1>5
<1>7. ((2 * c) % W) = IF c >= h THEN 2 * c - 2 * h ELSE 2 * c
  <2> DEFINE d == 2 * c
  <2>1. d \in Int /\ 0 * W = 0 /\ 1 * W = W /\ d = 2 * c /\ W \in Nat \ {0}
      BY <1>1, <1>4
  <2> HIDE DEF d
  <2>2. CASE c >= h
    <3>1. 1 * W <= d /\ d < 1 * W + W
        BY <1>1, <1>4, <2>1, <2>2
    <3>2. (d % W) = d - 1 * W
        BY ONLY <2>1, <3>1, DivUnique, 1 \in Int
    <3> QED
        BY <1>1, <2>1, <2>2, <3>2
  <2>3. CASE c < h
    <3>1. 0 * W <= d /\ d < 0 * W + W
        BY <1>1, <1>4, <2>1, <2>3
    <3>2. (d % W) = d - 0 * W
        BY ONLY <2>1, <3>1, DivUnique, 0 \in Int
    <3> QED
        BY <1>1, <1>4, <2>1, <2>3, <3>2
  <2> QED
      BY <1>1, <1>4, <2>2, <2>3
<1>8. ((2 * e) % V) = 2 * c
  <2> DEFINE d == 2 * e
  <2>1. d \in Int /\ 0 * V = 0 /\ 1 * V = V /\ d = 2 * e /\ V \in Nat \ {0}
      BY <1>1, <1>6
  <2> HIDE DEF d
  <2>2. CASE x
    <3>1. 1 * V <= d /\ d < 1 * V + V /\ d - V = 2 * c
        BY ONLY <1>1, <1>4, <1>5, <2>1, <2>2
    <3>2. (d % V) = d - 1 * V
        BY ONLY <2>1, <3>1, DivUnique, 1 \in Int
    <3>3. (d % V) = 2 * c
        BY ONLY <2>1, <3>1, <3>2
    <3> QED
        BY <3>3 DEF d
  <2>3. CASE ~x
    <3>1. 0 * V <= d /\ d < 0 * V + V /\ d = 2 * c
        BY ONLY <1>1, <1>4, <1>5, <2>1, <2>3
    <3>2. (d % V) = d - 0 * V
        BY ONLY <2>1, <3>1, DivUnique, 0 \in Int
    <3>3. (d % V) = 2 * c
        BY ONLY <2>1, <3>1, <3>2
    <3> QED
        BY <3>3 DEF d
  <2> QED
      BY <2>2, <2>3
<1>9. ((2 * e) % V) + Bit(Top(w + 1, e)) = ((2 * c) % W) + Bit(x) + W * Bit(Top(w, c))
      /\ ((2 * c) % W) + Bit(x) \in 0..(W - 1)
  <2>1. W * 0 = 0 /\ W * 1 = 2 * h
      BY <1>1
  <2> QED
      BY <1>1, <1>2, <1>3, <1>4, <1>6, <1>7, <1>8, <2>1 DEF Bit
<1>10. (e % 2) = (c % 2) /\ (e \div 2) = IF x THEN (c \div 2) + h ELSE c \div 2
    BY <1>1, <1>4, <1>5
<1>11. h * Bit(x) = IF x THEN h ELSE 0
  <2>1. h * 0 = 0 /\ h * 1 = h
      BY <1>1
  <2> QED
      BY <2>1 DEF Bit
<1>12. (c \div 2) \in 0..(h - 1)
    BY <1>1, <1>4
<1> DEFINE y == c \div 2
<1>13. (e \div 2) = y + h * Bit(x) /\ y + h * Bit(x) \in 0..(W - 1)
  <2> HIDE DEF y
  <2>1. y \in 0..(h - 1) /\ (e \div 2) = IF x THEN y + h ELSE y
      BY <1>10, <1>12 DEF y
  <2> QED
      BY <1>1, <1>11, <2>1
<1>14. (e % 2) = 1 <=> (c % 2) = 1
    BY <1>10
<1>15. (e \div 2) + W * Bit((e % 2) = 1) = y + h * Bit(x) + W * Bit((c % 2) = 1)
    BY <1>10, <1>13
<1> QED
    BY <1>1, <1>2, <1>6, <1>9, <1>13, <1>14, <1>15 DEF Extends, h, W, V

-----------------------------------------------------------------------------
(* The routine of shifts by one place.                                     *)
ShiftJobs ==
    [kind : {"shift"}, op : ShiftNames, form : {"s", "r"}, long : BOOLEAN, w : Nat \ {0},
     count : Nat, start : Nat, n : Nat, a : Nat, changed : BOOLEAN, out : BOOLEAN,
     was : {StartFlags(x) : x \in BOOLEAN}, x : BOOLEAN]

(* The value so far, and the last bit out.                                 *)
ValueRight(j) ==
    /\ j.op \in {"asl", "lsl"} => j.a = LslOf(j.w, j.start, j.n)
    /\ j.op = "lsr" => j.a = LsrOf(j.w, j.start, j.n)
    /\ j.op = "asr" => j.a = AsrOf(j.w, j.start, j.n)
    /\ j.op = "rol" => j.a = RolOf(j.w, j.start, j.n)
    /\ j.op = "ror" => j.a = RorOf(j.w, j.start, j.n)
    /\ j.op = "roxl" =>
          WithX(j.w, j.a, j.x) = RolOf(j.w + 1, WithX(j.w, j.start, j.was.x), j.n)
    /\ j.op = "roxr" =>
          WithX(j.w, j.a, j.x) = RorOf(j.w + 1, WithX(j.w, j.start, j.was.x), j.n)

OutRight(j) ==
    /\ j.op \in {"asl", "lsl"} => (j.out <=> LeftOut(j.w, j.start, j.n))
    /\ j.op = "lsr" => (j.out <=> RightOut(j.w, j.start, j.n))
    /\ j.op = "asr" => (j.out <=> AsrOut(j.w, j.start, j.n))
    /\ j.op = "rol" => (j.out <=> RolOut(j.w, j.start, j.n))
    /\ j.op = "ror" => (j.out <=> RorOut(j.w, j.start, j.n))

XRight(j) == j.x = IF j.op \in {"rol", "ror"} \/ j.n = 0 THEN j.was.x ELSE j.out

ShiftRight(j) ==
    /\ j.n <= j.count
    /\ j.form = "s" => j.count \in 1..j.w
    /\ j.start \in 0..(2^j.w - 1) /\ j.a \in 0..(2^j.w - 1)
    /\ j.n = 0 => j.a = j.start
    /\ ValueRight(j)
    /\ j.n > 0 => OutRight(j)
    /\ XRight(j)
    /\ j.op = "asl" => (j.changed <=> SignsDiffer(j.w, j.start, j.n))

ShiftInv == job.kind = "shift" => job \in ShiftJobs /\ ShiftRight(job)

(* What one place is, in the fields of the job.                            *)
Placed(j, k, new, out, x, ch) ==
    /\ k \in ShiftJobs
    /\ k.kind = j.kind /\ k.op = j.op /\ k.form = j.form /\ k.long = j.long
    /\ k.w = j.w /\ k.count = j.count /\ k.start = j.start /\ k.was = j.was
    /\ k.n = j.n + 1 /\ k.a = new /\ k.out = out /\ k.x = x /\ k.changed = ch

LEMMA PlacedFields ==
    ASSUME NEW j \in ShiftJobs, NEW new \in Nat, NEW out \in BOOLEAN, NEW x \in BOOLEAN,
           NEW ch \in BOOLEAN, NEW k,
           k = [j EXCEPT !.n = @ + 1, !.a = new, !.out = out, !.x = x, !.changed = ch]
    PROVE  Placed(j, k, new, out, x, ch)
<1>1. /\ j.kind = "shift" /\ j.op \in ShiftNames /\ j.form \in {"s", "r"} /\ j.long \in BOOLEAN
      /\ j.w \in Nat \ {0} /\ j.count \in Nat /\ j.start \in Nat /\ j.n \in Nat
      /\ j.was \in {StartFlags(y) : y \in BOOLEAN}
      /\ j = [kind |-> j.kind, op |-> j.op, form |-> j.form, long |-> j.long, w |-> j.w,
              count |-> j.count, start |-> j.start, n |-> j.n, a |-> j.a,
              changed |-> j.changed, out |-> j.out, was |-> j.was, x |-> j.x]
    BY DEF ShiftJobs
<1>2. k = [kind |-> j.kind, op |-> j.op, form |-> j.form, long |-> j.long, w |-> j.w,
           count |-> j.count, start |-> j.start, n |-> j.n + 1, a |-> new,
           changed |-> ch, out |-> out, was |-> j.was, x |-> x]
    BY <1>1
<1>3. j.n + 1 \in Nat
    BY <1>1
<1>4. /\ k.kind = j.kind /\ k.op = j.op /\ k.form = j.form /\ k.long = j.long
      /\ k.w = j.w /\ k.count = j.count /\ k.start = j.start /\ k.was = j.was
      /\ k.n = j.n + 1 /\ k.a = new /\ k.out = out /\ k.x = x /\ k.changed = ch
    BY <1>2
<1>5. k \in ShiftJobs
    BY <1>1, <1>2, <1>3 DEF ShiftJobs
<1> QED
    BY <1>4, <1>5 DEF Placed

PlaceOf(j, k) ==
    /\ k.kind = j.kind /\ k.op = j.op /\ k.form = j.form /\ k.long = j.long
    /\ k.w = j.w /\ k.count = j.count /\ k.start = j.start /\ k.was = j.was
    /\ k.n = j.n + 1
    /\ j.op \in {"asl", "lsl", "rol", "roxl"} => (k.out <=> Top(j.w, j.a))
    /\ j.op \in {"asr", "lsr", "ror", "roxr"} => (k.out <=> (j.a % 2) = 1)
    /\ j.op \in {"asl", "lsl"} => k.a = ((2 * j.a) % 2^j.w)
    /\ j.op = "rol" => k.a = ((2 * j.a) % 2^j.w) + Bit(Top(j.w, j.a))
    /\ j.op = "roxl" => k.a = ((2 * j.a) % 2^j.w) + Bit(j.x)
    /\ j.op = "lsr" => k.a = (j.a \div 2)
    /\ j.op = "asr" => k.a = (j.a \div 2) + 2^(j.w - 1) * Bit(Top(j.w, j.a))
    /\ j.op = "ror" => k.a = (j.a \div 2) + 2^(j.w - 1) * Bit((j.a % 2) = 1)
    /\ j.op = "roxr" => k.a = (j.a \div 2) + 2^(j.w - 1) * Bit(j.x)
    /\ k.x = IF j.op \in {"rol", "ror"} THEN j.x ELSE k.out
    /\ k.changed <=> (j.changed \/ ~(Top(j.w, k.a) <=> Top(j.w, j.a)))

(* A step of the routine is such a place.                                  *)
LEMMA PlaceFacts ==
    ASSUME ShiftInv, ShiftPlace
    PROVE  job \in ShiftJobs /\ ShiftRight(job) /\ job.n < job.count
           /\ job' \in ShiftJobs /\ PlaceOf(job, job')
<1> DEFINE h   == 2^(job.w - 1)
           W   == 2^job.w
           top == job.a >= h
           out == IF ToTheLeft THEN top ELSE job.a % 2 = 1
           in  == CASE KeepsX         -> out
                    [] ThroughX       -> job.x
                    [] job.op = "asr" -> top
                    [] OTHER          -> FALSE
           new == IF ToTheLeft THEN ((2 * job.a) % W) + Bit(in)
                               ELSE (job.a \div 2) + h * Bit(in)
           x   == IF KeepsX THEN job.x ELSE out
           ch  == job.changed \/ (new >= h) # top
<1>1. job.kind = "shift" /\ job \in ShiftJobs /\ ShiftRight(job) /\ job.n < job.count
    BY DEF ShiftPlace, ShiftInv
<1>2. job' = [job EXCEPT !.n = @ + 1, !.a = new, !.out = out, !.x = x, !.changed = ch]
    BY DEF ShiftPlace
<1>3. /\ job.w \in Nat \ {0} /\ job.a \in Nat /\ job.x \in BOOLEAN /\ job.changed \in BOOLEAN
      /\ job.op \in ShiftNames
    BY <1>1 DEF ShiftJobs
<1>4. h \in Nat \ {0} /\ W \in Nat \ {0}
    BY <1>3, WidthPowers
<1>5. out \in BOOLEAN /\ top \in BOOLEAN
  <2>1. top \in BOOLEAN /\ (job.a % 2 = 1) \in BOOLEAN
      OBVIOUS
  <2> HIDE DEF top
  <2>2. \A c, u, v : u \in BOOLEAN /\ v \in BOOLEAN => (IF c THEN u ELSE v) \in BOOLEAN
      OBVIOUS
  <2>3. out \in BOOLEAN
      BY <2>1, <2>2, Zenon
  <2> QED
      BY <2>1, <2>3
<1>6. /\ top <=> Top(job.w, job.a)
      /\ job.op \in {"asl", "lsl", "rol", "roxl"} => (out <=> Top(job.w, job.a))
      /\ job.op \in {"asr", "lsr", "ror", "roxr"} => (out <=> (job.a % 2) = 1)
    BY DEF Top, ToTheLeft
<1> HIDE DEF out
<1>7. in = IF KeepsX THEN out ELSE IF ThroughX THEN job.x ELSE IF job.op = "asr" THEN top ELSE FALSE
  <2>1. ~(KeepsX /\ ThroughX) /\ ~(KeepsX /\ job.op = "asr") /\ ~(ThroughX /\ job.op = "asr")
      BY DEF KeepsX, ThroughX
  <2> HIDE DEF top
  <2>2. CASE KeepsX
      BY <2>1, <2>2, Zenon
  <2>3. CASE ThroughX
      BY <2>1, <2>3, Zenon
  <2>4. CASE job.op = "asr"
      BY <2>1, <2>4, Zenon
  <2>5. CASE ~KeepsX /\ ~ThroughX /\ job.op # "asr"
      BY <2>5, Zenon
  <2> QED
      BY <2>2, <2>3, <2>4, <2>5, Zenon
<1>8. in \in BOOLEAN
    BY <1>3, <1>5, <1>7
<1> HIDE DEF in
<1>9. Bit(in) \in 0..1
    BY <1>8 DEF Bit
<1>10. new \in Nat
  <2>1. ((2 * job.a) % W) \in Nat /\ (job.a \div 2) \in Nat
    <3> HIDE DEF W
    <3> QED
        BY <1>3, <1>4
  <2>2. h * Bit(in) \in Nat
    <3> HIDE DEF h
    <3>1. h * 0 = 0 /\ h * 1 = h
        BY <1>4
    <3> QED
        BY <1>4, <1>9, <3>1
  <2> HIDE DEF h, W
  <2> QED
      BY <1>9, <2>1, <2>2
<1>11. ((2 * job.a) % W) + 0 = ((2 * job.a) % W) /\ (job.a \div 2) + h * 0 = job.a \div 2
  <2> HIDE DEF h, W
  <2> QED
      BY <1>3, <1>4
<1>12. ch \in BOOLEAN /\ x \in BOOLEAN
    BY <1>3, <1>5
<1>13. ch <=> (job.changed \/ ~(Top(job.w, new) <=> Top(job.w, job.a)))
  <2>1. \A u, v : u \in BOOLEAN /\ v \in BOOLEAN => ((u # v) <=> ~(u <=> v))
      OBVIOUS
  <2>2. (new >= h) \in BOOLEAN /\ top \in BOOLEAN
      OBVIOUS
  <2>3. (new >= h) # top <=> ~((new >= h) <=> top)
      BY <2>1, <2>2, Zenon
  <2> QED
      BY <2>3, Zenon DEF Top
<1> HIDE DEF new, ch, x
<1>14. /\ job' \in ShiftJobs
       /\ job'.kind = job.kind /\ job'.op = job.op /\ job'.form = job.form
       /\ job'.long = job.long /\ job'.w = job.w /\ job'.count = job.count
       /\ job'.start = job.start /\ job'.was = job.was /\ job'.n = job.n + 1
       /\ job'.a = new /\ job'.out = out /\ job'.x = x /\ job'.changed = ch
  <2> HIDE DEF h, W, top
  <2>1. Placed(job, job', new, out, x, ch)
      BY ONLY <1>1, <1>2, <1>5, <1>10, <1>12, PlacedFields
  <2> QED
      BY <2>1 DEF Placed
<1>15. x = IF job.op \in {"rol", "ror"} THEN job.x ELSE out
    BY DEF x, KeepsX
<1>16. /\ job.op \in {"asl", "lsl"} => Bit(in) = 0
       /\ job.op = "lsr" => Bit(in) = 0
       /\ job.op = "rol" => Bit(in) = Bit(Top(job.w, job.a))
       /\ job.op = "ror" => Bit(in) = Bit((job.a % 2) = 1)
       /\ job.op \in {"roxl", "roxr"} => Bit(in) = Bit(job.x)
       /\ job.op = "asr" => Bit(in) = Bit(Top(job.w, job.a))
    BY <1>6, <1>7 DEF Bit, KeepsX, ThroughX
<1>17. /\ job.op \in {"asl", "lsl"} => new = ((2 * job.a) % W)
       /\ job.op = "rol" => new = ((2 * job.a) % W) + Bit(Top(job.w, job.a))
       /\ job.op = "roxl" => new = ((2 * job.a) % W) + Bit(job.x)
       /\ job.op = "lsr" => new = (job.a \div 2)
       /\ job.op = "asr" => new = (job.a \div 2) + h * Bit(Top(job.w, job.a))
       /\ job.op = "ror" => new = (job.a \div 2) + h * Bit((job.a % 2) = 1)
       /\ job.op = "roxr" => new = (job.a \div 2) + h * Bit(job.x)
    BY <1>11, <1>16 DEF new, ToTheLeft
<1> QED
    BY <1>1, <1>6, <1>13, <1>14, <1>15, <1>17 DEF PlaceOf

(* A job that is right stays right, instruction by instruction.            *)
LEMMA PlaceKeeps ==
    ASSUME NEW j \in ShiftJobs, ShiftRight(j), j.n < j.count, NEW k \in ShiftJobs, PlaceOf(j, k)
    PROVE  ShiftRight(k)
<1> DEFINE w == j.w
           a == j.start
           n == j.n
<1>1. /\ w \in Nat \ {0} /\ n \in Nat /\ n + 1 \in Nat /\ a \in 0..(2^w - 1)
      /\ j.a \in 0..(2^w - 1) /\ j.op \in ShiftNames /\ j.x \in BOOLEAN
      /\ k.w = w /\ k.start = a /\ k.n = n + 1 /\ k.op = j.op /\ k.was = j.was
      /\ ValueRight(j)
    BY DEF ShiftJobs, ShiftRight, PlaceOf
<1>2. XRight(k)
  <2>1. XRight(j) /\ n + 1 # 0
      BY <1>1 DEF ShiftRight
  <2> QED
      BY <1>1, <2>1 DEF XRight, PlaceOf
<1>3. k.n <= k.count /\ (k.form = "s" => k.count \in 1..k.w) /\ k.n # 0
  <2>1. k.count = j.count /\ k.form = j.form /\ j.count \in Nat
      BY DEF PlaceOf, ShiftJobs
  <2> QED
      BY <1>1, <2>1 DEF ShiftRight
<1> HIDE DEF w, a, n
<1>4. CASE j.op \in {"asl", "lsl"}
  <2>1. j.a = LslOf(w, a, n)
      BY <1>1, <1>4 DEF ValueRight, w, a, n
  <2>2. (Top(w, j.a) <=> LeftOut(w, a, n + 1)) /\ ((2 * j.a) % 2^w) = LslOf(w, a, n + 1)
      BY <1>1, <2>1, LslPlace
  <2>3. k.a = LslOf(w, a, n + 1) /\ (k.out <=> LeftOut(w, a, n + 1))
      BY <1>4, <2>2 DEF PlaceOf, w
  <2>4. k.a \in 0..(2^w - 1)
      BY <1>1, <2>3, LslPlace
  <2>5. ValueRight(k) /\ OutRight(k)
      BY <1>1, <1>4, <2>3 DEF ValueRight, OutRight
  <2>6. j.op = "asl" => (k.changed <=> SignsDiffer(w, a, n + 1))
    <3>1. SUFFICES ASSUME j.op = "asl" PROVE k.changed <=> SignsDiffer(w, a, n + 1)
        OBVIOUS
    <3>2. j.changed <=> SignsDiffer(w, a, n)
        BY <3>1 DEF ShiftRight, w, a, n
    <3>3. k.changed <=> (j.changed \/ ~(Top(w, k.a) <=> Top(w, j.a)))
        BY DEF PlaceOf, w
    <3>4. SignsDiffer(w, a, n + 1) <=>
             \/ SignsDiffer(w, a, n)
             \/ ~(Top(w, LslOf(w, a, n + 1)) <=> Top(w, LslOf(w, a, n)))
        BY <1>1, AslPlace
    <3> QED
        BY <2>1, <2>3, <3>2, <3>3, <3>4
  <2> QED
      BY <1>1, <1>2, <1>3, <2>4, <2>5, <2>6 DEF ShiftRight
<1>5. CASE j.op = "lsr"
  <2>1. j.a = LsrOf(w, a, n)
      BY <1>1, <1>5 DEF ValueRight, w, a, n
  <2>2. ((j.a % 2) = 1 <=> RightOut(w, a, n + 1)) /\ (j.a \div 2) = LsrOf(w, a, n + 1)
      BY <1>1, <2>1, LsrPlace
  <2>3. k.a = LsrOf(w, a, n + 1) /\ (k.out <=> RightOut(w, a, n + 1))
      BY <1>5, <2>2 DEF PlaceOf
  <2>4. k.a \in 0..(2^w - 1)
      BY <1>1, <2>3, LsrPlace
  <2>5. ValueRight(k) /\ OutRight(k)
      BY <1>1, <1>5, <2>3 DEF ValueRight, OutRight
  <2> QED
      BY <1>1, <1>2, <1>3, <1>5, <2>4, <2>5 DEF ShiftRight
<1>6. CASE j.op = "asr"
  <2>1. j.a = AsrOf(w, a, n)
      BY <1>1, <1>6 DEF ValueRight, w, a, n
  <2>2. /\ (j.a % 2) = 1 <=> AsrOut(w, a, n + 1)
        /\ (j.a \div 2) + 2^(w - 1) * Bit(Top(w, j.a)) = AsrOf(w, a, n + 1)
      BY <1>1, <2>1, AsrPlace
  <2>3. k.a = AsrOf(w, a, n + 1) /\ (k.out <=> AsrOut(w, a, n + 1))
      BY <1>6, <2>2 DEF PlaceOf, w
  <2>4. k.a \in 0..(2^w - 1)
      BY <1>1, <2>3, AsrPlace
  <2>5. ValueRight(k) /\ OutRight(k)
      BY <1>1, <1>6, <2>3 DEF ValueRight, OutRight
  <2> QED
      BY <1>1, <1>2, <1>3, <1>6, <2>4, <2>5 DEF ShiftRight
<1>7. CASE j.op = "rol"
  <2>1. j.a = RolOf(w, a, n)
      BY <1>1, <1>7 DEF ValueRight, w, a, n
  <2>2. /\ Top(w, j.a) <=> RolOut(w, a, n + 1)
        /\ ((2 * j.a) % 2^w) + Bit(Top(w, j.a)) = RolOf(w, a, n + 1)
      BY <1>1, <2>1, RolTurn
  <2>3. k.a = RolOf(w, a, n + 1) /\ (k.out <=> RolOut(w, a, n + 1))
      BY <1>7, <2>2 DEF PlaceOf, w
  <2>4. k.a \in 0..(2^w - 1)
      BY <1>1, <2>3, RolTurn
  <2>5. ValueRight(k) /\ OutRight(k)
      BY <1>1, <1>7, <2>3 DEF ValueRight, OutRight
  <2> QED
      BY <1>1, <1>2, <1>3, <1>7, <2>4, <2>5 DEF ShiftRight
<1>8. CASE j.op = "ror"
  <2>1. j.a = RorOf(w, a, n)
      BY <1>1, <1>8 DEF ValueRight, w, a, n
  <2>2. /\ (j.a % 2) = 1 <=> RorOut(w, a, n + 1)
        /\ (j.a \div 2) + 2^(w - 1) * Bit((j.a % 2) = 1) = RorOf(w, a, n + 1)
      BY <1>1, <2>1, RorTurn
  <2>3. k.a = RorOf(w, a, n + 1) /\ (k.out <=> RorOut(w, a, n + 1))
      BY <1>8, <2>2 DEF PlaceOf, w
  <2>4. k.a \in 0..(2^w - 1)
      BY <1>1, <2>3, RorTurn
  <2>5. ValueRight(k) /\ OutRight(k)
      BY <1>1, <1>8, <2>3 DEF ValueRight, OutRight
  <2> QED
      BY <1>1, <1>2, <1>3, <1>8, <2>4, <2>5 DEF ShiftRight
<1>9. CASE j.op \in {"roxl", "roxr"}
  <2> DEFINE e == WithX(w, j.a, j.x)
             s == WithX(w, a, j.was.x)
  <2>1. /\ Top(w + 1, e) <=> j.x
        /\ ((2 * e) % 2^(w + 1)) + Bit(Top(w + 1, e))
             = ((2 * j.a) % 2^w) + Bit(j.x) + 2^w * Bit(Top(w, j.a))
        /\ ((2 * j.a) % 2^w) + Bit(j.x) \in 0..(2^w - 1)
        /\ (e \div 2) + 2^w * Bit((e % 2) = 1)
             = (j.a \div 2) + 2^(w - 1) * Bit(j.x) + 2^w * Bit((j.a % 2) = 1)
        /\ (j.a \div 2) + 2^(w - 1) * Bit(j.x) \in 0..(2^w - 1)
    <3>1. Extends(w, j.a, j.x, e)
        BY <1>1, ThroughExtend
    <3> QED
        BY <3>1 DEF Extends
  <2>2. s \in 0..(2^(w + 1) - 1)
    <3>1. j.was.x \in BOOLEAN
        BY DEF ShiftJobs, StartFlags
    <3> QED
        BY <1>1, <3>1, ThroughExtend DEF Extends
  <2>3. w + 1 \in Nat \ {0} /\ (w + 1) - 1 = w
      BY <1>1
  <2> HIDE DEF s, e
  <2>4. CASE j.op = "roxl"
    <3>1. e = RolOf(w + 1, s, n)
        BY <1>1, <2>4 DEF ValueRight, w, a, n, e, s
    <3>2. ((2 * e) % 2^(w + 1)) + Bit(Top(w + 1, e)) = RolOf(w + 1, s, n + 1)
        BY <1>1, <2>2, <2>3, <3>1, RolTurn
    <3>3. /\ k.a = ((2 * j.a) % 2^w) + Bit(j.x)
          /\ k.out <=> Top(w, j.a)
          /\ k.x = k.out
        BY <2>4 DEF PlaceOf, w
    <3>4. WithX(w, k.a, k.x) = RolOf(w + 1, s, n + 1)
      <4>1. Bit(k.x) = Bit(Top(w, j.a))
          BY <3>3 DEF Bit
      <4> QED
          BY <2>1, <3>2, <3>3, <4>1 DEF WithX
    <3>5. ValueRight(k) /\ OutRight(k)
        BY <1>1, <2>4, <3>4 DEF ValueRight, OutRight, s
    <3> QED
        BY <1>1, <1>2, <1>3, <2>1, <2>4, <3>3, <3>5 DEF ShiftRight
  <2>5. CASE j.op = "roxr"
    <3>1. e = RorOf(w + 1, s, n)
        BY <1>1, <2>5 DEF ValueRight, w, a, n, e, s
    <3>2. (e \div 2) + 2^w * Bit((e % 2) = 1) = RorOf(w + 1, s, n + 1)
        BY <1>1, <2>2, <2>3, <3>1, RorTurn
    <3>3. /\ k.a = (j.a \div 2) + 2^(w - 1) * Bit(j.x)
          /\ k.out <=> (j.a % 2) = 1
          /\ k.x = k.out
        BY <2>5 DEF PlaceOf, w
    <3>4. WithX(w, k.a, k.x) = RorOf(w + 1, s, n + 1)
      <4>1. Bit(k.x) = Bit((j.a % 2) = 1)
          BY <3>3 DEF Bit
      <4> QED
          BY <2>1, <3>2, <3>3, <4>1 DEF WithX
    <3>5. ValueRight(k) /\ OutRight(k)
        BY <1>1, <2>5, <3>4 DEF ValueRight, OutRight, s
    <3> QED
        BY <1>1, <1>2, <1>3, <2>1, <2>5, <3>3, <3>5 DEF ShiftRight
  <2> QED
      BY <1>9, <2>4, <2>5
<1> QED
    BY <1>1, <1>4, <1>5, <1>6, <1>7, <1>8, <1>9 DEF ShiftNames

(* The routine starts right.                                               *)
LEMMA ShiftStart ==
    ASSUME job \in ShiftStarts, job.form = "s" => job.count \in 1..job.w
    PROVE  job \in ShiftJobs /\ ShiftRight(job)
<1>1. PICK w \in Widths : job \in
          {[kind |-> "shift", op |-> op, form |-> form, long |-> l, w |-> w,
            count |-> n, start |-> a, n |-> 0, a |-> a, changed |-> FALSE,
            out |-> FALSE, was |-> StartFlags(x), x |-> x] :
                op \in ShiftNames, form \in {"s", "r"}, l \in BOOLEAN,
                n \in 0..(2 * w + 2), a \in 0..(2^w - 1), x \in BOOLEAN}
    BY DEF ShiftStarts
<1>2. PICK op \in ShiftNames, form \in {"s", "r"}, l \in BOOLEAN,
           n \in 0..(2 * w + 2), a \in 0..(2^w - 1), x \in BOOLEAN :
          job = [kind |-> "shift", op |-> op, form |-> form, long |-> l, w |-> w,
                 count |-> n, start |-> a, n |-> 0, a |-> a, changed |-> FALSE,
                 out |-> FALSE, was |-> StartFlags(x), x |-> x]
    BY <1>1
<1>3. /\ w \in Nat \ {0} /\ n \in Nat /\ a \in Nat
      /\ 2^w \in Nat \ {0} /\ 2^(w + 1) = 2 * 2^w
  <2>1. w \in Nat \ {0}
      BY WidthsAssumption
  <2>2. 2^w \in Nat \ {0} /\ 2^(w + 1) = 2 * 2^w
      BY <2>1, Powers
  <2> HIDE DEF StartFlags
  <2> QED
      BY <2>1, <2>2
<1>4. job \in ShiftJobs
  <2>1. StartFlags(x) \in {StartFlags(y) : y \in BOOLEAN}
      OBVIOUS
  <2> QED
      BY <1>2, <1>3, <2>1 DEF ShiftJobs
<1>5. /\ job.op = op /\ job.form = form /\ job.w = w /\ job.count = n /\ job.start = a
      /\ job.n = 0 /\ job.a = a /\ job.was = StartFlags(x) /\ job.x = x /\ job.changed = FALSE
    BY <1>2
<1>6. job.was.x = x
    BY <1>5 DEF StartFlags
<1>7. a = LslOf(w, a, 0) /\ a = LsrOf(w, a, 0)
    BY <1>3, RotationEnds DEF LslOf, LsrOf
<1>8. a = AsrOf(w, a, 0)
  <2>1. (a \div 2^0) = a /\ 2^w - 2^(w - 0) = 0
      BY <1>3, RotationEnds
  <2> QED
      BY <1>3, <2>1 DEF AsrOf
<1>9. \A W \in Nat \ {0} : (0 % W) = 0
    OBVIOUS
<1>10. a = RolOf(w, a, 0) /\ a = RorOf(w, a, 0)
    BY <1>3, <1>9, RotationEnds DEF RolOf, RorOf
<1>11. /\ WithX(w, a, x) = RolOf(w + 1, WithX(w, a, x), 0)
       /\ WithX(w, a, x) = RorOf(w + 1, WithX(w, a, x), 0)
  <2> DEFINE e == WithX(w, a, x)
  <2>1. e \in 0..(2^(w + 1) - 1)
      BY <1>3, ThroughExtend DEF Extends
  <2> HIDE DEF e
  <2>2. w + 1 \in Nat \ {0}
      BY <1>3
  <2>3. e = RolOf(w + 1, e, 0) /\ e = RorOf(w + 1, e, 0)
      BY <1>9, <2>1, <2>2, RotationEnds DEF RolOf, RorOf
  <2> QED
      BY <2>3 DEF e
<1>12. ValueRight(job)
    BY <1>5, <1>6, <1>7, <1>8, <1>10, <1>11 DEF ValueRight
<1>13. ~SignsDiffer(w, a, 0)
    BY <1>3, AslPlace
<1>14. XRight(job)
    BY <1>5, <1>6 DEF XRight
<1> QED
    BY <1>3, <1>4, <1>5, <1>12, <1>13, <1>14 DEF ShiftRight

-----------------------------------------------------------------------------
(* A result of the width w and its flags, as relations.                    *)
Gives(q, w, r, x, v, c) ==
    /\ q.res = r
    /\ q.f = [x |-> q.f.x, n |-> q.f.n, z |-> q.f.z, v |-> q.f.v, c |-> q.f.c]
    /\ q.f.x \in BOOLEAN /\ q.f.n \in BOOLEAN /\ q.f.z \in BOOLEAN
    /\ q.f.v \in BOOLEAN /\ q.f.c \in BOOLEAN
    /\ q.f.x <=> x
    /\ q.f.n <=> r >= 2^(w - 1)
    /\ q.f.z <=> r = 0
    /\ q.f.v <=> v
    /\ q.f.c <=> c

(* N is the top bit.                                                       *)
LEMMA SignIsTop ==
    ASSUME NEW w \in Nat \ {0}, NEW r \in 0..(2^w - 1)
    PROVE  /\ Negative(Sign(w), r) <=> r >= 2^(w - 1)
           /\ Negative(Sign(w), r) <=> Top(w, r)
<1>1. 2^(w - 1) \in Nat \ {0} /\ 2^w = 2 * 2^(w - 1)
    BY WidthPowers
<1>2. Negative(2^(w - 1), r) <=> r >= 2^(w - 1)
  <2> DEFINE h == 2^(w - 1)
  <2>1. h \in Nat \ {0} /\ r \in 0..(2 * h - 1)
      BY <1>1
  <2> HIDE DEF h
  <2>2. Negative(h, r) <=> r >= h
      BY <2>1, NegativeFacts
  <2> QED
      BY <2>2 DEF h
<1> QED
    BY <1>2 DEF Sign, Top

(* The flags of a shift and of a rotation.                                 *)
LEMMA ShiftedGives ==
    ASSUME NEW w \in Nat \ {0}, NEW r \in 0..(2^w - 1), NEW out \in BOOLEAN, NEW v \in BOOLEAN
    PROVE  Gives(Shifted(w, r, out, v), w, r, out, v, out)
<1>1. Negative(Sign(w), r) <=> r >= 2^(w - 1)
    BY SignIsTop
<1>2. Negative(Sign(w), r) \in BOOLEAN /\ (r = 0) \in BOOLEAN
    BY DEF Negative
<1> QED
    BY <1>1, <1>2 DEF Gives, Shifted, WithFlags

LEMMA RotatedGives ==
    ASSUME NEW w \in Nat \ {0}, NEW r \in 0..(2^w - 1), NEW c \in BOOLEAN,
           NEW x \in BOOLEAN, NEW f, x = f.x
    PROVE  /\ Gives(Unshifted(w, r, c, f), w, r, x, FALSE, c)
           /\ Gives(Rotated(w, r, c, f), w, r, x, FALSE, c)
<1>1. Negative(Sign(w), r) <=> r >= 2^(w - 1)
    BY SignIsTop
<1>2. Negative(Sign(w), r) \in BOOLEAN /\ (r = 0) \in BOOLEAN
    BY DEF Negative
<1> QED
    BY <1>1, <1>2 DEF Gives, Unshifted, Rotated, WithFlags

LEMMA BitsAreBoolean ==
    /\ \A a, i : BitOf(a, i) \in BOOLEAN
    /\ \A h, a : Negative(h, a) \in BOOLEAN
BY DEF BitOf, Negative

(* Two truth values that agree are the same value.                         *)
LEMMA SameBoolean ==
    ASSUME NEW u \in BOOLEAN, NEW v \in BOOLEAN, u <=> v
    PROVE  u = v
OBVIOUS

(* After n places each instruction with a count of n gives what the places *)
(* left: in its first form, whose counts are no larger than the width, and *)
(* in its second one, whose branches for larger counts are treated here.   *)
LEMMA AsrEnds ==
    ASSUME NEW w \in Nat \ {0}, NEW a \in 0..(2^w - 1), NEW n \in Nat \ {0}, NEW f,
           NEW r, r = AsrOf(w, a, n), NEW c \in BOOLEAN, c <=> AsrOut(w, a, n)
    PROVE  /\ n <= w => Gives(AsrS(w, a, n, f), w, r, c, FALSE, c)
           /\ Gives(AsrR(w, a, n, f), w, r, c, FALSE, c)
<1>1. r \in 0..(2^w - 1)
    BY AsrPlace
<1>2. Negative(Sign(w), a) <=> Top(w, a)
    BY SignIsTop
<1>3. 2^w \in Nat /\ (a \div 2^w) = 0
    BY WidthPowers, RotationEnds
<1>4. Gives(Shifted(w, r, c, FALSE), w, r, c, FALSE, c)
    BY <1>1, ShiftedGives
<1>5. ASSUME n <= w PROVE AsrS(w, a, n, f) = Shifted(w, r, c, FALSE)
  <2>1. (a \div 2^n) + (IF Negative(Sign(w), a) THEN TopBits(w, n) ELSE 0) = r
    <3>1. CASE n < w
        BY <1>2, <3>1 DEF AsrOf, TopBits
    <3>2. CASE n = w
        BY <1>2, <1>3, <3>2 DEF AsrOf, TopBits
    <3> QED
        BY <1>5, <3>1, <3>2
  <2>2. BitOf(a, n - 1) = c
    <3>1. c <=> BitOf(a, n - 1)
        BY <1>5 DEF AsrOut
    <3>2. BitOf(a, n - 1) \in BOOLEAN
        BY DEF BitOf
    <3> QED
        BY <3>1, <3>2, SameBoolean, Zenon
  <2> QED
      BY <2>1, <2>2, Zenon DEF AsrS
<1>6. CASE n < w
  <2>1. n # 0 /\ n <= w
      BY <1>6
  <2> QED
      BY <1>4, <1>5, <1>6, <2>1, Zenon DEF AsrR
<1>7. CASE ~(n < w)
  <2>1. AsrR(w, a, n, f) = Shifted(w, r, c, FALSE)
    <3>1. (IF Negative(Sign(w), a) THEN 2^w - 1 ELSE 0) = r
        BY <1>2, <1>7 DEF AsrOf
    <3>2. Negative(Sign(w), a) = c
      <4>1. ASSUME n = w PROVE c <=> Negative(Sign(w), a)
          BY <4>1 DEF AsrOut, BitOf, Negative, Sign
      <4>2. ASSUME n > w PROVE c <=> Negative(Sign(w), a)
          BY <1>2, <4>2 DEF AsrOut
      <4>3. Negative(Sign(w), a) \in BOOLEAN
          BY DEF Negative
      <4> QED
          BY <1>7, <4>1, <4>2, <4>3, SameBoolean
    <3>3. n # 0
        OBVIOUS
    <3> QED
        BY <1>7, <3>1, <3>2, <3>3, Zenon DEF AsrR
  <2>2. n <= w => n = w
      BY <1>7
  <2> QED
      BY <1>4, <1>5, <2>1, Zenon
<1> QED
    BY <1>6, <1>7

LEMMA LsrEnds ==
    ASSUME NEW w \in Nat \ {0}, NEW a \in 0..(2^w - 1), NEW n \in Nat \ {0}, NEW f,
           NEW long \in BOOLEAN,
           NEW r, r = LsrOf(w, a, n), NEW c \in BOOLEAN, c <=> RightOut(w, a, n)
    PROVE  /\ n <= w => Gives(LsrS(w, a, n, f), w, r, c, FALSE, c)
           /\ Gives(LsrR(long, w, a, n, f), w, r, c, FALSE, c)
<1>1. r \in 0..(2^w - 1) /\ n # 0
    BY LsrPlace
<1>2. Gives(Shifted(w, r, c, FALSE), w, r, c, FALSE, c)
    BY <1>1, ShiftedGives
<1>3. ASSUME n <= w PROVE LsrS(w, a, n, f) = Shifted(w, r, c, FALSE)
  <2>1. (a \div 2^n) = r
      BY <1>3, RotationEnds DEF LsrOf
  <2>2. c <=> BitOf(a, n - 1)
      BY <1>3 DEF RightOut
  <2>3. BitOf(a, n - 1) \in BOOLEAN
      BY DEF BitOf
  <2>4. BitOf(a, n - 1) = c
      BY <2>2, <2>3, SameBoolean, Zenon
  <2> QED
      BY <2>1, <2>4, Zenon DEF LsrS
<1>4. CASE n < w \/ (n = w /\ ~long)
  <2>1. n <= w
      BY <1>4
  <2> QED
      BY <1>1, <1>2, <1>3, <1>4, <2>1, Zenon DEF LsrR
<1>5. CASE ~(n < w \/ (n = w /\ ~long))
  <2>1. r = 0
      BY <1>5 DEF LsrOf
  <2>2. c <=> (long /\ n = w /\ Negative(Sign(w), a))
    <3>1. ASSUME n = w PROVE long /\ (c <=> Negative(Sign(w), a))
        BY <1>5, <3>1 DEF RightOut, BitOf, Negative, Sign
    <3>2. ASSUME n # w PROVE ~c
        BY <1>5, <3>2 DEF RightOut
    <3> QED
        BY <3>1, <3>2
  <2>3. (long /\ n = w /\ Negative(Sign(w), a)) \in BOOLEAN
      OBVIOUS
  <2>4. (long /\ n = w /\ Negative(Sign(w), a)) = c
      BY <2>2, <2>3, SameBoolean, Zenon
  <2>5. LsrR(long, w, a, n, f) = Shifted(w, r, c, FALSE)
      BY <1>1, <1>5, <2>1, <2>4, Zenon DEF LsrR
  <2> QED
      BY <1>2, <1>3, <2>5, Zenon
<1> QED
    BY <1>4, <1>5

LEMMA LslEnds ==
    ASSUME NEW w \in Nat \ {0}, NEW a \in 0..(2^w - 1), NEW n \in Nat \ {0}, NEW f,
           NEW long \in BOOLEAN,
           NEW r, r = LslOf(w, a, n), NEW c \in BOOLEAN, c <=> LeftOut(w, a, n)
    PROVE  /\ n <= w => Gives(LslS(w, a, n, f), w, r, c, FALSE, c)
           /\ Gives(LslR(long, w, a, n, f), w, r, c, FALSE, c)
<1>1. r \in 0..(2^w - 1) /\ n # 0
    BY LslPlace
<1>2. Gives(Shifted(w, r, c, FALSE), w, r, c, FALSE, c)
    BY <1>1, ShiftedGives
<1>3. ASSUME n <= w PROVE LslS(w, a, n, f) = Shifted(w, r, c, FALSE)
  <2>1. Left(w, a, n) = r
      BY <1>3, RotationEnds DEF LslOf
  <2>2. c <=> BitOf(a, w - n)
      BY <1>3 DEF LeftOut
  <2>3. BitOf(a, w - n) \in BOOLEAN
      BY DEF BitOf
  <2>4. BitOf(a, w - n) = c
      BY <2>2, <2>3, SameBoolean, Zenon
  <2> QED
      BY <2>1, <2>4, Zenon DEF LslS
<1>4. CASE n < w \/ (n = w /\ ~long)
  <2>1. n <= w
      BY <1>4
  <2> QED
      BY <1>1, <1>2, <1>3, <1>4, <2>1, Zenon DEF LslR
<1>5. CASE ~(n < w \/ (n = w /\ ~long))
  <2>1. r = 0
      BY <1>5 DEF LslOf
  <2>2. c <=> (long /\ n = w /\ a % 2 = 1)
    <3>1. ASSUME n = w PROVE long /\ (c <=> BitOf(a, 0))
        BY <1>5, <3>1 DEF LeftOut
    <3>2. BitOf(a, 0) <=> (a % 2) = 1
        BY RotationEnds DEF BitOf
    <3>3. ASSUME n # w PROVE ~c
        BY <1>5, <3>3 DEF LeftOut
    <3> QED
        BY <3>1, <3>2, <3>3
  <2>3. (long /\ n = w /\ a % 2 = 1) \in BOOLEAN
      OBVIOUS
  <2>4. (long /\ n = w /\ a % 2 = 1) = c
      BY <2>2, <2>3, SameBoolean, Zenon
  <2>5. LslR(long, w, a, n, f) = Shifted(w, r, c, FALSE)
      BY <1>1, <1>5, <2>1, <2>4, Zenon DEF LslR
  <2> QED
      BY <1>2, <1>3, <2>5, Zenon
<1> QED
    BY <1>4, <1>5

(* V of asl: the bits that AslS keeps of the operand are its n + 1 highest *)
(* ones.                                                                   *)
LEMMA HighBits ==
    ASSUME NEW w \in Nat \ {0}, NEW n \in Nat, n < w, NEW a \in 0..(2^w - 1),
           NEW low, low = IF n + 1 < w THEN a % 2^(w - n - 1) ELSE 0
    PROVE  /\ a - low = 0 <=> (a \div 2^(w - n - 1)) = 0
           /\ a - low = TopBits(w, n + 1) <=> (a \div 2^(w - n - 1)) = 2^(n + 1) - 1
<1> DEFINE q == 2^(w - n - 1)
           p == 2^(n + 1)
           u == a \div q
<1>1. q \in Nat \ {0} /\ p \in Nat \ {0} /\ 2^w = p * q
  <2>1. Weights(w, n, 2^n, q)
      BY PlaceWeights
  <2>2. /\ 2^n \in Nat \ {0} /\ q \in Nat \ {0} /\ p = 2 * 2^n /\ 2^w = 2 * (2^n * q)
      BY <2>1 DEF Weights
  <2> DEFINE m2 == 2^n
  <2> HIDE DEF m2, q, p
  <2>3. m2 \in Nat \ {0} /\ p = 2 * m2 /\ 2^w = 2 * (m2 * q)
      BY <2>2 DEF m2
  <2>4. (2 * m2) * q = 2 * (m2 * q)
      BY <2>2, <2>3
  <2> QED
      BY <2>2, <2>3, <2>4
<1>2. n + 1 < w \/ (n + 1 = w /\ q = 1)
  <2>1. n + 1 = w => w - n - 1 = 0
      OBVIOUS
  <2>2. n + 1 < w \/ n + 1 = w
      OBVIOUS
  <2> QED
      BY <2>1, <2>2, WidthPowers
<1>3. a - low = u * q /\ u \in Nat
  <2>1. CASE n + 1 < w
    <3>1. low = (a % q)
        BY <2>1
    <3> HIDE DEF q
    <3>2. a = (a \div q) * q + (a % q) /\ (a \div q) \in Nat /\ (a % q) \in Nat
        BY <1>1
    <3>3. a \in Int /\ q \in Int /\ (a \div q) * q \in Int
        BY <1>1, <3>2
    <3>4. \A A, D, R, L \in Int : A = D + R /\ L = R => A - L = D
        OBVIOUS
    <3>5. a - low = (a \div q) * q
        BY ONLY <3>1, <3>2, <3>3, <3>4
    <3> QED
        BY <3>2, <3>5 DEF u
  <2>2. CASE n + 1 = w
    <3>1. low = 0
        BY <2>2
    <3>2. q = 1
        BY <1>2, <2>2
    <3> HIDE DEF q
    <3>3. (a \div q) = a
        BY <3>2
    <3> QED
        BY <3>1, <3>2, <3>3
  <2> QED
      BY <1>2, <2>1, <2>2
<1>4. TopBits(w, n + 1) = (p - 1) * q
  <2>1. (p - 1) * q = p * q - q
    <3> HIDE DEF p, q
    <3> QED
        BY <1>1
  <2>2. w - (n + 1) = w - n - 1
      OBVIOUS
  <2>3. CASE n + 1 < w
      BY <1>1, <2>1, <2>2, <2>3 DEF TopBits
  <2>4. CASE n + 1 = w
      BY <1>1, <1>2, <2>1, <2>4 DEF TopBits
  <2> QED
      BY <1>2, <2>3, <2>4
<1> HIDE DEF u, p, q
<1>5. \A i, k \in Nat : i * q = k * q => i = k
  <2> SUFFICES ASSUME NEW i \in Nat, NEW k \in Nat, i * q = k * q PROVE i = k
      OBVIOUS
  <2>1. (i * q) \div q = i /\ (k * q) \div q = k
      BY <1>1, DivUnique
  <2> QED
      BY <2>1
<1>6. 0 * q = 0 /\ p - 1 \in Nat
    BY <1>1
<1>7. (a - low = 0 <=> u = 0) /\ (a - low = (p - 1) * q <=> u = p - 1)
    BY <1>3, <1>5, <1>6
<1> QED
    BY <1>4, <1>7 DEF u, p, q

LEMMA AslEnds ==
    ASSUME NEW w \in Nat \ {0}, NEW a \in 0..(2^w - 1), NEW n \in Nat \ {0}, NEW f,
           NEW r, r = LslOf(w, a, n), NEW c \in BOOLEAN, c <=> LeftOut(w, a, n),
           NEW v \in BOOLEAN, v <=> SignsDiffer(w, a, n)
    PROVE  /\ n <= w => Gives(AslS(w, a, n, f), w, r, c, v, c)
           /\ Gives(AslR(w, a, n, f), w, r, c, v, c)
<1>1. r \in 0..(2^w - 1) /\ n # 0
    BY LslPlace
<1>2. Gives(Shifted(w, r, c, v), w, r, c, v, c)
    BY <1>1, ShiftedGives
<1>3. ASSUME n <= w PROVE AslS(w, a, n, f) = Shifted(w, r, c, v)
  <2> DEFINE low == IF n + 1 < w THEN a % 2^(w - n - 1) ELSE 0
             ch  == ~(a - low = 0 \/ (a - low = TopBits(w, n + 1) /\ n < w))
  <2>1. Left(w, a, n) = r
      BY <1>3, RotationEnds DEF LslOf
  <2>2. c <=> BitOf(a, w - n)
      BY <1>3 DEF LeftOut
  <2>3. BitOf(a, w - n) \in BOOLEAN
      BY DEF BitOf
  <2>4. BitOf(a, w - n) = c
      BY <2>2, <2>3, SameBoolean, Zenon
  <2>5. v <=> ch
    <3>1. CASE n < w
      <4>1. /\ a - low = 0 <=> (a \div 2^(w - n - 1)) = 0
            /\ a - low = TopBits(w, n + 1) <=> (a \div 2^(w - n - 1)) = 2^(n + 1) - 1
          BY <3>1, HighBits
      <4> HIDE DEF low
      <4> QED
          BY <3>1, <4>1 DEF SignsDiffer
    <3>2. CASE n = w
      <4>1. ~(n < w) /\ ~(n + 1 < w)
          BY <3>2
      <4>2. low = 0
          BY <4>1, Zenon
      <4> HIDE DEF low
      <4>3. a - low = a
          BY <4>2
      <4> QED
          BY <4>1, <4>3 DEF SignsDiffer
    <3> QED
        BY <1>3, <3>1, <3>2
  <2>6. ch \in BOOLEAN
      OBVIOUS
  <2>7. ch = v
    <3> HIDE DEF ch
    <3> QED
        BY <2>5, <2>6, SameBoolean, Zenon
  <2> HIDE DEF ch
  <2>8. AslS(w, a, n, f) = Shifted(w, Left(w, a, n), BitOf(a, w - n), ch)
      BY Zenon DEF AslS, ch
  <2> QED
      BY <2>1, <2>4, <2>7, <2>8, Zenon
<1>4. CASE n < w
  <2>1. n <= w
      BY <1>4
  <2> QED
      BY <1>1, <1>2, <1>3, <1>4, <2>1, Zenon DEF AslR
<1>5. CASE ~(n < w)
  <2>1. r = 0
      BY <1>5 DEF LslOf
  <2>2. c <=> (n = w /\ a % 2 = 1)
    <3>1. ASSUME n = w PROVE c <=> BitOf(a, 0)
        BY <3>1 DEF LeftOut
    <3>2. BitOf(a, 0) <=> (a % 2) = 1
        BY RotationEnds DEF BitOf
    <3>3. ASSUME n # w PROVE ~c
        BY <1>5, <3>3 DEF LeftOut
    <3> QED
        BY <3>1, <3>2, <3>3
  <2>3. (n = w /\ a % 2 = 1) \in BOOLEAN /\ (a # 0) \in BOOLEAN
      OBVIOUS
  <2>4. v <=> a # 0
      BY <1>5 DEF SignsDiffer
  <2>5. (n = w /\ a % 2 = 1) = c /\ (a # 0) = v
      BY <2>2, <2>3, <2>4, SameBoolean, Zenon
  <2>6. AslR(w, a, n, f) = Shifted(w, r, c, v)
      BY <1>1, <1>5, <2>1, <2>5, Zenon DEF AslR
  <2>7. Gives(AslR(w, a, n, f), w, r, c, v, c)
      BY <1>2, <2>6, Zenon
  <2>8. n <= w => Gives(AslS(w, a, n, f), w, r, c, v, c)
      BY <1>2, <1>3, Zenon
  <2> QED
      BY <2>7, <2>8
<1> QED
    BY <1>4, <1>5

(* The rotations: the index of the last bit out is that of the handlers.   *)
LEMMA TurnEnds ==
    ASSUME NEW w \in Nat \ {0}, NEW n \in 1..w
    PROVE  /\ w - n = (w - (n % w)) % w
           /\ n - 1 = ((n % w) - 1) % w
<1>1. \A i \in 0..(w - 1) : (i % w) = i
  <2> SUFFICES ASSUME NEW i \in 0..(w - 1) PROVE (i % w) = i
      OBVIOUS
  <2>1. 0 * w = 0
      OBVIOUS
  <2> QED
      BY <2>1, DivUnique
<1>2. CASE n < w
  <2>1. n - 1 \in 0..(w - 1) /\ w - n \in 0..(w - 1) /\ n \in 0..(w - 1)
      BY <1>2
  <2>2. ((n - 1) % w) = n - 1 /\ ((w - n) % w) = w - n /\ (n % w) = n
      BY <1>1, <2>1
  <2> QED
      BY <2>2
<1>3. CASE n = w
  <2>1. 1 * w = w /\ (-1) * w = -w
      OBVIOUS
  <2>2. (w % w) = 0
      BY <2>1, DivUnique
  <2>3. ((-1) % w) = w - 1
    <3>1. -w <= -1 /\ -1 < -w + w
        OBVIOUS
    <3>2. ((-1) % w) = -1 - (-1) * w
        BY ONLY w \in Nat \ {0}, <2>1, <3>1, DivUnique, -1 \in Int
    <3> QED
        BY <2>1, <3>2
  <2>4. (n % w) = 0 /\ w - 0 = w /\ 0 - 1 = -1
      BY <1>3, <2>2
  <2>5. (w - (n % w)) % w = 0
      BY <2>2, <2>4
  <2>6. ((n % w) - 1) % w = w - 1
      BY <2>3, <2>4
  <2> QED
      BY <1>3, <2>5, <2>6
<1> QED
    BY <1>2, <1>3

(* A rotation takes its count modulo the width.                            *)
LEMMA RorEnds ==
    ASSUME NEW w \in Nat \ {0}, NEW a \in 0..(2^w - 1), NEW n \in Nat \ {0}, NEW f,
           NEW x \in BOOLEAN, x = f.x, NEW r, r = RorOf(w, a, n),
           NEW c \in BOOLEAN, c <=> RorOut(w, a, n)
    PROVE  /\ n <= w => Gives(RorS(w, a, n, f), w, r, x, FALSE, c)
           /\ Gives(RorR(w, a, n, f), w, r, x, FALSE, c)
<1> DEFINE i == ((n % w) - 1) % w
<1>1. n # 0
    OBVIOUS
<1>2. r \in 0..(2^w - 1) /\ Ror(w, a, n % w) = r
    BY RorTurn DEF RorOf
<1>3. ASSUME n <= w PROVE n - 1 = i
  <2>1. n \in 1..w
      BY <1>3
  <2> QED
      BY <2>1, TurnEnds
<1>4. c <=> BitOf(a, i)
    BY DEF RorOut
<1> HIDE DEF i
<1>5. BitOf(a, i) = c
    BY <1>4, BitsAreBoolean, SameBoolean, Zenon
<1>6. Gives(Rotated(w, r, c, f), w, r, x, FALSE, c)
    BY <1>2, RotatedGives
<1>7. RorR(w, a, n, f) = Rotated(w, r, c, f)
    BY <1>1, <1>2, <1>5, Zenon DEF RorR, i
<1>8. n <= w => RorS(w, a, n, f) = Rotated(w, r, c, f)
    BY <1>2, <1>3, <1>5, Zenon DEF RorS
<1> QED
    BY <1>6, <1>7, <1>8, Zenon

LEMMA RolEnds ==
    ASSUME NEW w \in Nat \ {0}, NEW a \in 0..(2^w - 1), NEW n \in Nat \ {0}, NEW f,
           NEW x \in BOOLEAN, x = f.x, NEW r, r = RolOf(w, a, n),
           NEW c \in BOOLEAN, c <=> RolOut(w, a, n)
    PROVE  /\ n <= w => Gives(RolS(w, a, n, f), w, r, x, FALSE, c)
           /\ Gives(RolR(w, a, n, f), w, r, x, FALSE, c)
<1> DEFINE i == (w - (n % w)) % w
<1>1. n # 0
    OBVIOUS
<1>2. r \in 0..(2^w - 1) /\ Rol(w, a, n % w) = r
    BY RolTurn DEF RolOf
<1>3. ASSUME n <= w PROVE w - n = i
  <2>1. n \in 1..w
      BY <1>3
  <2> QED
      BY <2>1, TurnEnds
<1>4. c <=> BitOf(a, i)
    BY DEF RolOut
<1> HIDE DEF i
<1>5. BitOf(a, i) = c
    BY <1>4, BitsAreBoolean, SameBoolean, Zenon
<1>6. Gives(Rotated(w, r, c, f), w, r, x, FALSE, c)
    BY <1>2, RotatedGives
<1>7. RolR(w, a, n, f) = Rotated(w, r, c, f)
    BY <1>1, <1>2, <1>5, Zenon DEF RolR, i
<1>8. n <= w => RolS(w, a, n, f) = Rotated(w, r, c, f)
    BY <1>2, <1>3, <1>5, Zenon DEF RolS
<1> QED
    BY <1>6, <1>7, <1>8, Zenon

(* The result of a rotation through X, cut into the operand and X.         *)
LEMMA RotatedXGives ==
    ASSUME NEW w \in Nat \ {0}, NEW a \in 0..(2^w - 1), NEW x \in BOOLEAN,
           NEW r, r = WithX(w, a, x)
    PROVE  Gives(RotatedX(w, r), w, a, x, FALSE, x)
<1> DEFINE W == 2^w
           b == Bit(x)
<1>1. W \in Nat \ {0} /\ a \in 0..(W - 1) /\ b \in 0..1 /\ r = a + W * b
    BY WidthPowers DEF WithX, Bit
<1>2. (r \div W) = b /\ (r % W) = a
  <2> HIDE DEF W, b
  <2>1. b * W = W * b /\ W * b \in Nat
      BY <1>1
  <2>2. r \in Int /\ b \in Int /\ b * W <= r /\ r < b * W + W
      BY <1>1, <2>1
  <2>3. (r \div W) = b /\ (r % W) = r - b * W
      BY ONLY <1>1, <2>2, DivUnique
  <2> QED
      BY <1>1, <2>1, <2>3
<1>3. BitOf(r, w) <=> x
  <2>1. BitOf(r, w) <=> (b % 2) = 1
    <3> HIDE DEF b
    <3> QED
        BY <1>2 DEF BitOf, W
  <2>2. (0 % 2) = 0 /\ (1 % 2) = 1
      OBVIOUS
  <2> QED
      BY <2>1, <2>2 DEF Bit
<1>4. BitOf(r, w) = x
    BY <1>3, BitsAreBoolean, SameBoolean, Zenon
<1> DEFINE q == WithFlags(Sign(w), a, x, a = 0, FALSE, x)
<1>5. RotatedX(w, r) = q
  <2>1. (r % 2^w) = a
      BY <1>2
  <2> QED
      BY <1>4, <2>1, Zenon DEF RotatedX
<1>6. Gives(q, w, a, x, FALSE, x)
  <2>1. Negative(Sign(w), a) <=> a >= 2^(w - 1)
      BY SignIsTop
  <2>2. Negative(Sign(w), a) \in BOOLEAN /\ (a = 0) \in BOOLEAN
      BY DEF Negative
  <2> QED
      BY <2>1, <2>2 DEF Gives, WithFlags
<1> HIDE DEF q
<1> QED
    BY <1>5, <1>6, Zenon

(* Through X the value that goes round has a bit more.                     *)
LEMMA NotAllTheWay ==
    ASSUME NEW w \in Nat \ {0}, NEW n \in Nat, n <= w
    PROVE  (n % (w + 1)) = n
<1>1. w + 1 \in Nat \ {0} /\ 0 * (w + 1) = 0 /\ 0 <= n /\ n < w + 1
    OBVIOUS
<1> QED
    BY <1>1, DivUnique

LEMMA RoxrEnds ==
    ASSUME NEW w \in Nat \ {0}, NEW a \in 0..(2^w - 1), NEW n \in Nat \ {0}, NEW f,
           NEW k \in 0..(2^w - 1), NEW x \in BOOLEAN,
           WithX(w, k, x) = RorOf(w + 1, WithX(w, a, f.x), n)
    PROVE  /\ n <= w => Gives(RoxrS(w, a, n, f), w, k, x, FALSE, x)
           /\ Gives(RoxrR(w, a, n, f), w, k, x, FALSE, x)
<1> DEFINE r == WithX(w, k, x)
<1>1. n # 0 /\ (n <= w => (n % (w + 1)) = n)
    BY NotAllTheWay
<1>2. r = Ror(w + 1, Extended(w, a, f), n % (w + 1))
    BY Zenon DEF RorOf, Extended, WithX
<1>3. Gives(RotatedX(w, r), w, k, x, FALSE, x)
    BY RotatedXGives
<1> HIDE DEF r
<1>4. /\ n <= w => RoxrS(w, a, n, f) = RotatedX(w, r)
      /\ RoxrR(w, a, n, f) = RotatedX(w, r)
    BY <1>1, <1>2, Zenon DEF RoxrS, RoxrR
<1> QED
    BY <1>3, <1>4, Zenon

LEMMA RoxlEnds ==
    ASSUME NEW w \in Nat \ {0}, NEW a \in 0..(2^w - 1), NEW n \in Nat \ {0}, NEW f,
           NEW k \in 0..(2^w - 1), NEW x \in BOOLEAN,
           WithX(w, k, x) = RolOf(w + 1, WithX(w, a, f.x), n)
    PROVE  /\ n <= w => Gives(RoxlS(w, a, n, f), w, k, x, FALSE, x)
           /\ Gives(RoxlR(w, a, n, f), w, k, x, FALSE, x)
<1> DEFINE r == WithX(w, k, x)
<1>1. n # 0 /\ (n <= w => (n % (w + 1)) = n)
    BY NotAllTheWay
<1>2. r = Rol(w + 1, Extended(w, a, f), n % (w + 1))
    BY Zenon DEF RolOf, Extended, WithX
<1>3. Gives(RotatedX(w, r), w, k, x, FALSE, x)
    BY RotatedXGives
<1> HIDE DEF r
<1>4. /\ n <= w => RoxlS(w, a, n, f) = RotatedX(w, r)
      /\ RoxlR(w, a, n, f) = RotatedX(w, r)
    BY <1>1, <1>2, Zenon DEF RoxlS, RoxlR
<1> QED
    BY <1>3, <1>4, Zenon

(* What Shift stands for, instruction by instruction.                      *)
LEMMA ShiftOf ==
    ASSUME NEW form, NEW long, NEW w, NEW a, NEW n, NEW f
    PROVE  /\ Shift("asr", form, long, w, a, n, f)
                = IF form = "s" THEN AsrS(w, a, n, f) ELSE AsrR(w, a, n, f)
           /\ Shift("lsr", form, long, w, a, n, f)
                = IF form = "s" THEN LsrS(w, a, n, f) ELSE LsrR(long, w, a, n, f)
           /\ Shift("lsl", form, long, w, a, n, f)
                = IF form = "s" THEN LslS(w, a, n, f) ELSE LslR(long, w, a, n, f)
           /\ Shift("asl", form, long, w, a, n, f)
                = IF form = "s" THEN AslS(w, a, n, f) ELSE AslR(w, a, n, f)
           /\ Shift("ror", form, long, w, a, n, f)
                = IF form = "s" THEN RorS(w, a, n, f) ELSE RorR(w, a, n, f)
           /\ Shift("rol", form, long, w, a, n, f)
                = IF form = "s" THEN RolS(w, a, n, f) ELSE RolR(w, a, n, f)
           /\ Shift("roxr", form, long, w, a, n, f)
                = IF form = "s" THEN RoxrS(w, a, n, f) ELSE RoxrR(w, a, n, f)
           /\ Shift("roxl", form, long, w, a, n, f)
                = IF form = "s" THEN RoxlS(w, a, n, f) ELSE RoxlR(w, a, n, f)
BY DEF Shift

(* A count of zero.                                                        *)
LEMMA NoPlaces ==
    ASSUME NEW op \in ShiftNames, NEW long, NEW w \in Nat \ {0}, NEW a \in 0..(2^w - 1),
           NEW f, NEW x \in BOOLEAN, x = f.x,
           NEW c \in BOOLEAN, c <=> (op \in {"roxl", "roxr"} /\ x)
    PROVE  Gives(Shift(op, "r", long, w, a, 0, f), w, a, x, FALSE, c)
<1>1. Gives(Unshifted(w, a, c, f), w, a, x, FALSE, c)
    BY RotatedGives
<1>2. Shift(op, "r", long, w, a, 0, f) = Unshifted(w, a, c, f)
  <2>1. op \notin {"roxl", "roxr"} => c = FALSE
      OBVIOUS
  <2>2. op \in {"roxl", "roxr"} => c = f.x
      OBVIOUS
  <2>3. CASE op = "asr"
    <3>1. Shift(op, "r", long, w, a, 0, f) = AsrR(w, a, 0, f)
        BY <2>3, ShiftOf
    <3>2. AsrR(w, a, 0, f) = Unshifted(w, a, FALSE, f)
        BY Zenon DEF AsrR
    <3>3. c = FALSE
        BY <2>1, <2>3
    <3> QED
        BY <3>1, <3>2, <3>3, Zenon
  <2>4. CASE op = "asl"
    <3>1. Shift(op, "r", long, w, a, 0, f) = AslR(w, a, 0, f)
        BY <2>4, ShiftOf
    <3>2. AslR(w, a, 0, f) = Unshifted(w, a, FALSE, f)
        BY Zenon DEF AslR
    <3>3. c = FALSE
        BY <2>1, <2>4
    <3> QED
        BY <3>1, <3>2, <3>3, Zenon
  <2>5. CASE op = "lsr"
    <3>1. Shift(op, "r", long, w, a, 0, f) = LsrR(long, w, a, 0, f)
        BY <2>5, ShiftOf
    <3>2. LsrR(long, w, a, 0, f) = Unshifted(w, a, FALSE, f)
        BY Zenon DEF LsrR
    <3>3. c = FALSE
        BY <2>1, <2>5
    <3> QED
        BY <3>1, <3>2, <3>3, Zenon
  <2>6. CASE op = "lsl"
    <3>1. Shift(op, "r", long, w, a, 0, f) = LslR(long, w, a, 0, f)
        BY <2>6, ShiftOf
    <3>2. LslR(long, w, a, 0, f) = Unshifted(w, a, FALSE, f)
        BY Zenon DEF LslR
    <3>3. c = FALSE
        BY <2>1, <2>6
    <3> QED
        BY <3>1, <3>2, <3>3, Zenon
  <2>7. CASE op = "ror"
    <3>1. Shift(op, "r", long, w, a, 0, f) = RorR(w, a, 0, f)
        BY <2>7, ShiftOf
    <3>2. RorR(w, a, 0, f) = Unshifted(w, a, FALSE, f)
        BY Zenon DEF RorR
    <3>3. c = FALSE
        BY <2>1, <2>7
    <3> QED
        BY <3>1, <3>2, <3>3, Zenon
  <2>8. CASE op = "rol"
    <3>1. Shift(op, "r", long, w, a, 0, f) = RolR(w, a, 0, f)
        BY <2>8, ShiftOf
    <3>2. RolR(w, a, 0, f) = Unshifted(w, a, FALSE, f)
        BY Zenon DEF RolR
    <3>3. c = FALSE
        BY <2>1, <2>8
    <3> QED
        BY <3>1, <3>2, <3>3, Zenon
  <2>9. CASE op = "roxr"
    <3>1. Shift(op, "r", long, w, a, 0, f) = RoxrR(w, a, 0, f)
        BY <2>9, ShiftOf
    <3>2. RoxrR(w, a, 0, f) = Unshifted(w, a, f.x, f)
        BY Zenon DEF RoxrR
    <3>3. c = f.x
        BY <2>2, <2>9
    <3> QED
        BY <3>1, <3>2, <3>3, Zenon
  <2>10. CASE op = "roxl"
    <3>1. Shift(op, "r", long, w, a, 0, f) = RoxlR(w, a, 0, f)
        BY <2>10, ShiftOf
    <3>2. RoxlR(w, a, 0, f) = Unshifted(w, a, f.x, f)
        BY Zenon DEF RoxlR
    <3>3. c = f.x
        BY <2>2, <2>10
    <3> QED
        BY <3>1, <3>2, <3>3, Zenon
  <2> QED
      BY <2>3, <2>4, <2>5, <2>6, <2>7, <2>8, <2>9, <2>10 DEF ShiftNames
<1> QED
    BY <1>1, <1>2, Zenon

(* The job at its end: what the places left is what the instruction gives. *)
LEMMA PlacesGive ==
    ASSUME NEW j \in ShiftJobs, ShiftRight(j), j.n = j.count,
           NEW v \in BOOLEAN, v <=> (j.op = "asl" /\ j.changed),
           NEW c \in BOOLEAN, c <=> IF j.count = 0 THEN j.op \in {"roxl", "roxr"} /\ j.x ELSE j.out
    PROVE  Gives(Shift(j.op, j.form, j.long, j.w, j.start, j.count, j.was), j.w, j.a, j.x, v, c)
<1> DEFINE w == j.w
           a == j.start
           n == j.count
           k == j.a
           x == j.x
           f == j.was
           long == j.long
           op == j.op
           form == j.form
<1>1. /\ w \in Nat \ {0} /\ n \in Nat /\ a \in 0..(2^w - 1) /\ k \in 0..(2^w - 1)
      /\ x \in BOOLEAN /\ f.x \in BOOLEAN /\ long \in BOOLEAN /\ form \in {"s", "r"}
      /\ op \in ShiftNames /\ j.out \in BOOLEAN /\ j.changed \in BOOLEAN
      /\ form = "s" => n <= w /\ n # 0
      /\ n = 0 => k = a
    BY DEF ShiftJobs, ShiftRight, StartFlags
<1>2. /\ op \in {"asl", "lsl"} => k = LslOf(w, a, n)
      /\ op = "lsr" => k = LsrOf(w, a, n)
      /\ op = "asr" => k = AsrOf(w, a, n)
      /\ op = "rol" => k = RolOf(w, a, n)
      /\ op = "ror" => k = RorOf(w, a, n)
      /\ op = "roxl" => WithX(w, k, x) = RolOf(w + 1, WithX(w, a, f.x), n)
      /\ op = "roxr" => WithX(w, k, x) = RorOf(w + 1, WithX(w, a, f.x), n)
    BY DEF ShiftRight, ValueRight
<1>3. n # 0 =>
      /\ op \in {"asl", "lsl"} => (c <=> LeftOut(w, a, n))
      /\ op = "lsr" => (c <=> RightOut(w, a, n))
      /\ op = "asr" => (c <=> AsrOut(w, a, n))
      /\ op = "rol" => (c <=> RolOut(w, a, n))
      /\ op = "ror" => (c <=> RorOut(w, a, n))
    BY <1>1 DEF ShiftRight, OutRight
<1>4. /\ n # 0 /\ op \notin {"rol", "ror"} => x = c
      /\ n = 0 \/ op \in {"rol", "ror"} => x = f.x
  <2>1. c = IF n = 0 THEN op \in {"roxl", "roxr"} /\ x ELSE j.out
      BY <1>1
  <2> QED
      BY <2>1 DEF ShiftRight, XRight
<1>5. /\ op = "asl" => (v <=> SignsDiffer(w, a, n))
      /\ op # "asl" => v = FALSE
    BY DEF ShiftRight
<1>6. c <=> IF n = 0 THEN op \in {"roxl", "roxr"} /\ x ELSE j.out
    OBVIOUS
<1> HIDE DEF w, a, n, k, x, f, long, op, form
<1> SUFFICES Gives(Shift(op, form, long, w, a, n, f), w, k, x, v, c)
    BY DEF w, a, n, k, x, f, long, op, form
<1>7. CASE n = 0
  <2>1. form = "r" /\ k = a /\ x = f.x
      BY <1>1, <1>4, <1>7
  <2>2. v = FALSE
      BY <1>1, <1>5, <1>7, AslPlace
  <2>3. c <=> (op \in {"roxl", "roxr"} /\ x)
      BY <1>6, <1>7
  <2>4. Gives(Shift(op, "r", long, w, a, 0, f), w, a, x, FALSE, c)
    <3>1. /\ op \in ShiftNames /\ w \in Nat \ {0} /\ a \in 0..(2^w - 1)
          /\ x \in BOOLEAN /\ x = f.x /\ c \in BOOLEAN
        BY <1>1, <2>1
    <3> QED
        BY ONLY <2>3, <3>1, NoPlaces
  <2> QED
      BY <1>7, <2>1, <2>2, <2>4, ZenonT(40)
<1>8. CASE n # 0
  <2>1. n \in Nat \ {0}
      BY <1>1, <1>8
  <2>2. ASSUME NEW S, NEW R,
               Shift(op, form, long, w, a, n, f) = IF form = "s" THEN S ELSE R,
               n <= w => Gives(S, w, k, x, v, c), Gives(R, w, k, x, v, c)
        PROVE  Gives(Shift(op, form, long, w, a, n, f), w, k, x, v, c)
    <3>1. CASE form = "s"
      <4>1. n <= w /\ Shift(op, form, long, w, a, n, f) = S
          BY <1>1, <2>2, <3>1
      <4> QED
          BY <2>2, <4>1, Zenon
    <3>2. CASE form # "s"
      <4>1. Shift(op, form, long, w, a, n, f) = R
          BY <2>2, <3>2
      <4> QED
          BY <2>2, <4>1, Zenon
    <3> QED
        BY <3>1, <3>2
  <2>3. CASE op = "asr"
    <3>1. x = c /\ v = FALSE /\ k = AsrOf(w, a, n) /\ (c <=> AsrOut(w, a, n))
        BY <1>2, <1>3, <1>4, <1>5, <1>8, <2>3
    <3>2. /\ n <= w => Gives(AsrS(w, a, n, f), w, k, c, FALSE, c)
          /\ Gives(AsrR(w, a, n, f), w, k, c, FALSE, c)
        BY <1>1, <2>1, <3>1, AsrEnds
    <3>3. /\ n <= w => Gives(AsrS(w, a, n, f), w, k, x, v, c)
          /\ Gives(AsrR(w, a, n, f), w, k, x, v, c)
        BY <3>1, <3>2, Zenon
    <3>4. Shift(op, form, long, w, a, n, f)
            = IF form = "s" THEN AsrS(w, a, n, f) ELSE AsrR(w, a, n, f)
        BY <2>3, ShiftOf
    <3> QED
        BY <2>2, <3>3, <3>4, Zenon
  <2>4. CASE op = "lsr"
    <3>1. x = c /\ v = FALSE /\ k = LsrOf(w, a, n) /\ (c <=> RightOut(w, a, n))
        BY <1>2, <1>3, <1>4, <1>5, <1>8, <2>4
    <3>2. /\ n <= w => Gives(LsrS(w, a, n, f), w, k, c, FALSE, c)
          /\ Gives(LsrR(long, w, a, n, f), w, k, c, FALSE, c)
      <4>1. /\ w \in Nat \ {0} /\ a \in 0..(2^w - 1) /\ n \in Nat \ {0} /\ long \in BOOLEAN
            /\ k = LsrOf(w, a, n) /\ c \in BOOLEAN /\ (c <=> RightOut(w, a, n))
          BY <1>1, <2>1, <3>1
      <4> QED
          BY ONLY <4>1, LsrEnds
    <3>3. /\ n <= w => Gives(LsrS(w, a, n, f), w, k, x, v, c)
          /\ Gives(LsrR(long, w, a, n, f), w, k, x, v, c)
        BY <3>1, <3>2, Zenon
    <3>4. Shift(op, form, long, w, a, n, f)
            = IF form = "s" THEN LsrS(w, a, n, f) ELSE LsrR(long, w, a, n, f)
        BY <2>4, ShiftOf
    <3> QED
        BY <2>2, <3>3, <3>4, Zenon
  <2>5. CASE op = "lsl"
    <3>1. x = c /\ v = FALSE /\ k = LslOf(w, a, n) /\ (c <=> LeftOut(w, a, n))
        BY <1>2, <1>3, <1>4, <1>5, <1>8, <2>5
    <3>2. /\ n <= w => Gives(LslS(w, a, n, f), w, k, c, FALSE, c)
          /\ Gives(LslR(long, w, a, n, f), w, k, c, FALSE, c)
      <4>1. /\ w \in Nat \ {0} /\ a \in 0..(2^w - 1) /\ n \in Nat \ {0} /\ long \in BOOLEAN
            /\ k = LslOf(w, a, n) /\ c \in BOOLEAN /\ (c <=> LeftOut(w, a, n))
          BY <1>1, <2>1, <3>1
      <4> QED
          BY ONLY <4>1, LslEnds
    <3>3. /\ n <= w => Gives(LslS(w, a, n, f), w, k, x, v, c)
          /\ Gives(LslR(long, w, a, n, f), w, k, x, v, c)
        BY <3>1, <3>2, Zenon
    <3>4. Shift(op, form, long, w, a, n, f)
            = IF form = "s" THEN LslS(w, a, n, f) ELSE LslR(long, w, a, n, f)
        BY <2>5, ShiftOf
    <3> QED
        BY <2>2, <3>3, <3>4, Zenon
  <2>6. CASE op = "asl"
    <3>1. x = c /\ (v <=> SignsDiffer(w, a, n)) /\ k = LslOf(w, a, n) /\ (c <=> LeftOut(w, a, n))
        BY <1>2, <1>3, <1>4, <1>5, <1>8, <2>6
    <3>2. /\ n <= w => Gives(AslS(w, a, n, f), w, k, c, v, c)
          /\ Gives(AslR(w, a, n, f), w, k, c, v, c)
        BY <1>1, <2>1, <3>1, AslEnds
    <3>3. /\ n <= w => Gives(AslS(w, a, n, f), w, k, x, v, c)
          /\ Gives(AslR(w, a, n, f), w, k, x, v, c)
        BY <3>1, <3>2, Zenon
    <3>4. Shift(op, form, long, w, a, n, f)
            = IF form = "s" THEN AslS(w, a, n, f) ELSE AslR(w, a, n, f)
        BY <2>6, ShiftOf
    <3> QED
        BY <2>2, <3>3, <3>4, Zenon
  <2>7. CASE op = "ror"
    <3>1. x = f.x /\ v = FALSE /\ k = RorOf(w, a, n) /\ (c <=> RorOut(w, a, n))
        BY <1>2, <1>3, <1>4, <1>5, <1>8, <2>7
    <3>2. /\ n <= w => Gives(RorS(w, a, n, f), w, k, x, FALSE, c)
          /\ Gives(RorR(w, a, n, f), w, k, x, FALSE, c)
      <4>1. /\ w \in Nat \ {0} /\ a \in 0..(2^w - 1) /\ n \in Nat \ {0} /\ x \in BOOLEAN
            /\ x = f.x /\ k = RorOf(w, a, n) /\ c \in BOOLEAN /\ (c <=> RorOut(w, a, n))
          BY <1>1, <2>1, <3>1
      <4> QED
          BY ONLY <4>1, RorEnds, ZenonT(40)
    <3>3. /\ n <= w => Gives(RorS(w, a, n, f), w, k, x, v, c)
          /\ Gives(RorR(w, a, n, f), w, k, x, v, c)
        BY <3>1, <3>2, Zenon
    <3>4. Shift(op, form, long, w, a, n, f)
            = IF form = "s" THEN RorS(w, a, n, f) ELSE RorR(w, a, n, f)
        BY <2>7, ShiftOf
    <3> QED
        BY <2>2, <3>3, <3>4, Zenon
  <2>8. CASE op = "rol"
    <3>1. x = f.x /\ v = FALSE /\ k = RolOf(w, a, n) /\ (c <=> RolOut(w, a, n))
        BY <1>2, <1>3, <1>4, <1>5, <1>8, <2>8
    <3>2. /\ n <= w => Gives(RolS(w, a, n, f), w, k, x, FALSE, c)
          /\ Gives(RolR(w, a, n, f), w, k, x, FALSE, c)
      <4>1. /\ w \in Nat \ {0} /\ a \in 0..(2^w - 1) /\ n \in Nat \ {0} /\ x \in BOOLEAN
            /\ x = f.x /\ k = RolOf(w, a, n) /\ c \in BOOLEAN /\ (c <=> RolOut(w, a, n))
          BY <1>1, <2>1, <3>1
      <4> QED
          BY ONLY <4>1, RolEnds, ZenonT(40)
    <3>3. /\ n <= w => Gives(RolS(w, a, n, f), w, k, x, v, c)
          /\ Gives(RolR(w, a, n, f), w, k, x, v, c)
        BY <3>1, <3>2, Zenon
    <3>4. Shift(op, form, long, w, a, n, f)
            = IF form = "s" THEN RolS(w, a, n, f) ELSE RolR(w, a, n, f)
        BY <2>8, ShiftOf
    <3> QED
        BY <2>2, <3>3, <3>4, Zenon
  <2>9. CASE op = "roxr"
    <3>1. x = c /\ v = FALSE /\ WithX(w, k, x) = RorOf(w + 1, WithX(w, a, f.x), n)
        BY <1>2, <1>4, <1>5, <1>8, <2>9
    <3>2. /\ n <= w => Gives(RoxrS(w, a, n, f), w, k, x, FALSE, x)
          /\ Gives(RoxrR(w, a, n, f), w, k, x, FALSE, x)
        BY <1>1, <2>1, <3>1, RoxrEnds
    <3>3. /\ n <= w => Gives(RoxrS(w, a, n, f), w, k, x, v, c)
          /\ Gives(RoxrR(w, a, n, f), w, k, x, v, c)
        BY <3>1, <3>2, Zenon
    <3>4. Shift(op, form, long, w, a, n, f)
            = IF form = "s" THEN RoxrS(w, a, n, f) ELSE RoxrR(w, a, n, f)
        BY <2>9, ShiftOf
    <3> QED
        BY <2>2, <3>3, <3>4, Zenon
  <2>10. CASE op = "roxl"
    <3>1. x = c /\ v = FALSE /\ WithX(w, k, x) = RolOf(w + 1, WithX(w, a, f.x), n)
        BY <1>2, <1>4, <1>5, <1>8, <2>10
    <3>2. /\ n <= w => Gives(RoxlS(w, a, n, f), w, k, x, FALSE, x)
          /\ Gives(RoxlR(w, a, n, f), w, k, x, FALSE, x)
        BY <1>1, <2>1, <3>1, RoxlEnds
    <3>3. /\ n <= w => Gives(RoxlS(w, a, n, f), w, k, x, v, c)
          /\ Gives(RoxlR(w, a, n, f), w, k, x, v, c)
        BY <3>1, <3>2, Zenon
    <3>4. Shift(op, form, long, w, a, n, f)
            = IF form = "s" THEN RoxlS(w, a, n, f) ELSE RoxlR(w, a, n, f)
        BY <2>10, ShiftOf
    <3> QED
        BY <2>2, <3>3, <3>4, Zenon
  <2> QED
      BY <1>1, <2>3, <2>4, <2>5, <2>6, <2>7, <2>8, <2>9, <2>10 DEF ShiftNames
<1> QED
    BY <1>7, <1>8

(* A routine of shifts stays right from place to place.                    *)
LEMMA ShiftNext == IInv /\ ShiftInv /\ [Next]_job => ShiftInv'
<1> SUFFICES ASSUME IInv, ShiftInv, [Next]_job PROVE ShiftInv'
    OBVIOUS
<1>1. HasKind /\ BinaryInv /\ DecimalInv /\ ProductInv /\ DivisionInv /\ SingleInv
    BY DEF IInv
<1>2. CASE AddDigit \/ SubDigit \/ NegDigit
  <2>1. job' \in BinaryJobs /\ Right(job')
      BY <1>1, <1>2, BinaryStep
  <2> QED
      BY <2>1 DEF ShiftInv, BinaryJobs, BinaryKinds
<1>3. CASE AbcdDigits \/ SbcdDigits \/ NbcdDigits
  <2>1. job' \in DecimalJobs /\ DecimalRight(job')
      BY <1>1, <1>3, DecimalStep
  <2> QED
      BY <2>1 DEF ShiftInv, DecimalJobs, DecimalKinds
<1>4. CASE MultiplyDigit
  <2>1. job' \in ProductJobs /\ ProductRight(job')
      BY <1>1, <1>4, ProductStep
  <2> QED
      BY <2>1 DEF ShiftInv, ProductJobs
<1>5. CASE DivideDigit
  <2>1. job' \in DivisionJobs /\ DivisionRight(job')
      BY <1>1, <1>5, DivisionStep
  <2> QED
      BY <2>1 DEF ShiftInv, DivisionJobs
<1>6. CASE Compare \/ DivideUnsigned \/ DivideSigned
    BY <1>6 DEF Compare, DivideUnsigned, DivideSigned, Single, ShiftInv
<1>7. CASE ShiftPlace
  <2>1. /\ job \in ShiftJobs /\ ShiftRight(job) /\ job.n < job.count
        /\ job' \in ShiftJobs /\ PlaceOf(job, job')
      BY <1>7, PlaceFacts
  <2>2. ShiftRight(job')
      BY <2>1, PlaceKeeps
  <2> QED
      BY <2>1, <2>2, Zenon DEF ShiftInv
<1>8. CASE UNCHANGED job
    BY <1>8 DEF ShiftInv
<1> QED
    BY <1>2, <1>3, <1>4, <1>5, <1>6, <1>7, <1>8 DEF Next

(* Every job that starts is right.                                         *)
LEMMA ShiftInit == Init => ShiftInv
<1> SUFFICES ASSUME Init, job.kind = "shift" PROVE job \in ShiftJobs /\ ShiftRight(job)
    BY DEF ShiftInv
<1>1. job \notin BinaryStarts
    BY DEF BinaryStarts
<1>2. job \notin DecimalStarts
    BY DEF DecimalStarts
<1>3. job \notin ProductStarts
  <2> SUFFICES ASSUME job \in ProductStarts PROVE FALSE
      OBVIOUS
  <2>1. PICK z \in Sizes : \E b \in 0..(2 * z.h - 1) :
            job = [kind |-> "mul", size |-> z, n |-> 0, weight |-> 1, src |-> 0,
                   by |-> b, res |-> 0, carry |-> 0]
      BY DEF ProductStarts
  <2> QED
      BY <2>1
<1>4. job \notin DivisionStarts
  <2> SUFFICES ASSUME job \in DivisionStarts PROVE FALSE
      OBVIOUS
  <2>1. PICK z \in Sizes : \E b \in 1..(2 * z.h - 1) :
            job = [kind |-> "div", size |-> z, n |-> 0, src |-> 0, by |-> b,
                   res |-> 0, rem |-> 0, f |-> StartFlags(FALSE)]
      BY DEF DivisionStarts
  <2> QED
      BY <2>1
<1>5. job \notin SingleStarts
    BY DEF SingleStarts
<1>6. job \in ShiftStarts /\ (job.form = "s" => job.count \in 1..job.w)
    BY <1>1, <1>2, <1>3, <1>4, <1>5 DEF Init
<1> QED
    BY <1>6, ShiftStart

(* A shift or a rotation by any count, of an operand of any width and in   *)
(* either form, is that many shifts by one place: the result, X and C the  *)
(* last bit out, and V of asl whether the sign changed on the way.         *)
THEOREM ShiftsAreExact == Spec => []ShiftsCompose
<1>1. ShiftInv => ShiftsCompose
  <2> SUFFICES ASSUME ShiftInv, job.kind = "shift", job.n = job.count
               PROVE  LET q == Shift(job.op, job.form, job.long, job.w, job.start,
                                     job.count, job.was)
                          c == IF job.count = 0 THEN ThroughX /\ job.x ELSE job.out
                      IN /\ q.res = job.a
                         /\ q.f = [x |-> job.x, n |-> job.a >= 2^(job.w - 1), z |-> job.a = 0,
                                   v |-> job.op = "asl" /\ job.changed, c |-> c]
      BY DEF ShiftsCompose
  <2> DEFINE q == Shift(job.op, job.form, job.long, job.w, job.start, job.count, job.was)
             c == IF job.count = 0 THEN ThroughX /\ job.x ELSE job.out
             v == job.op = "asl" /\ job.changed
             s == job.a >= 2^(job.w - 1)
             z == job.a = 0
  <2>1. job \in ShiftJobs /\ ShiftRight(job)
      BY DEF ShiftInv
  <2>2. c <=> IF job.count = 0 THEN job.op \in {"roxl", "roxr"} /\ job.x ELSE job.out
      BY DEF ThroughX
  <2>3. c \in BOOLEAN /\ v \in BOOLEAN /\ s \in BOOLEAN /\ z \in BOOLEAN /\ job.x \in BOOLEAN
    <3>1. job.x \in BOOLEAN /\ job.out \in BOOLEAN
        BY <2>1 DEF ShiftJobs
    <3>2. v \in BOOLEAN /\ s \in BOOLEAN /\ z \in BOOLEAN /\ (ThroughX /\ job.x) \in BOOLEAN
        OBVIOUS
    <3> HIDE DEF v, s, z
    <3>3. CASE job.count = 0
        BY <3>1, <3>2, <3>3, Zenon
    <3>4. CASE job.count # 0
        BY <3>1, <3>2, <3>4, Zenon
    <3> QED
        BY <3>3, <3>4, Zenon
  <2>4. v <=> (job.op = "asl" /\ job.changed)
      OBVIOUS
  <2>5. (s <=> job.a >= 2^(job.w - 1)) /\ (z <=> job.a = 0)
      OBVIOUS
  <2> HIDE DEF c, v, s, z
  <2>6. Gives(q, job.w, job.a, job.x, v, c)
      BY <2>1, <2>2, <2>3, <2>4, PlacesGive
  <2> HIDE DEF q
  <2>7. /\ q.res = job.a
        /\ q.f = [x |-> q.f.x, n |-> q.f.n, z |-> q.f.z, v |-> q.f.v, c |-> q.f.c]
      BY <2>6 DEF Gives
  <2>8. q.f.x = job.x /\ q.f.n = s /\ q.f.z = z /\ q.f.v = v /\ q.f.c = c
    <3>1. /\ q.f.x \in BOOLEAN /\ q.f.n \in BOOLEAN /\ q.f.z \in BOOLEAN
          /\ q.f.v \in BOOLEAN /\ q.f.c \in BOOLEAN
          /\ q.f.x <=> job.x
          /\ q.f.n <=> s
          /\ q.f.z <=> z
          /\ q.f.v <=> v
          /\ q.f.c <=> c
        BY <2>5, <2>6 DEF Gives
    <3> QED
        BY <2>3, <3>1, SameBoolean, Zenon
  <2>9. q.f = [x |-> job.x, n |-> s, z |-> z, v |-> v, c |-> c]
      BY <2>7, <2>8, Zenon
  <2> QED
      BY <2>7, <2>9, Zenon DEF q, c, v, s, z
<1>2. Init => IInv /\ ShiftInv
    BY InitInv, ShiftInit
<1>3. IInv /\ ShiftInv /\ [Next]_job => (IInv /\ ShiftInv)'
    BY NextInv, ShiftNext
<1> QED
    BY <1>1, <1>2, <1>3, PTL DEF Spec
=============================================================================
