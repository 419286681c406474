---------------------------- MODULE TimerProofs -----------------------------
(***************************************************************************)
(* The timer wheel is on time and in order, for every number of near slots *)
(* and of slots of a level, and every set of nodes; and, in the second     *)
(* half, MessageQueue implements Fifo and reports each doubling.           *)
(*                                                                         *)
(* A tick is in one round of each level, and place(e, now) is the first    *)
(* level whose round above holds both e and now. With the next tick this   *)
(* level changes for the nodes of one slot only, the one timer_shift       *)
(* empties: PlaceStays. The invariant is that every pending node is in the *)
(* list of its place, or being dispatched; that what it has to wait is the *)
(* distance from time to its expire, modulo the turn of time; and that in  *)
(* each list the nodes due together are in the order of pending. So what   *)
(* moves with a slot keeps its order, and cannot meet in the new list a    *)
(* node that is due with it, for that one was in the same slot.            *)
(*                                                                         *)
(* In MessageQueue the invariant is that head and tail are inside the      *)
(* buffer. It makes (head + i) % cap an index that wraps once at most      *)
(* (ModWrap), and the rest of the argument is linear: how the contents of  *)
(* the ring, read from the head on, change in a push, an expansion and a   *)
(* pop. Of the overload watch it is that the threshold is less than twice  *)
(* the last report, which the loop of skynet_mq_pop restores: Raised.      *)
(***************************************************************************)
EXTENDS Timer, MessageQueue, SequenceTheorems, FiniteSetTheorems,
        WellFoundedInduction, TLAPS

(* A set of numbers that is not empty has a least one.                     *)
LEMMA LeastNumber ==
  ASSUME NEW T \in SUBSET Nat, T # {}
  PROVE  \E m \in T : \A k \in T : m <= k
<1>1. PICK m \in T : \A k \in T : <<k, m>> \notin OpToRel(<, Nat)
  BY NatLessThanWellFounded, WFMin
<1>2. \A k \in T : ~ (k < m)
  BY <1>1 DEF OpToRel
<1> QED BY <1>2

(* A set that has 0 and, with each number below n, the next one has all up *)
(* to n.                                                                   *)
LEMMA InductionTo ==
  ASSUME NEW n \in Nat, NEW G, 0 \in G,
         \A k \in 0..(n - 1) : k \in G => k + 1 \in G
  PROVE  0..n \subseteq G
<1> SUFFICES ASSUME 0..n \ G # {} PROVE FALSE
  OBVIOUS
<1>0. 0..n \ G \in SUBSET Nat
  OBVIOUS
<1>1. PICK m \in 0..n \ G : \A k \in 0..n \ G : m <= k
  BY <1>0, LeastNumber
<1>2. m # 0 /\ m - 1 \in 0..(n - 1)
  BY <1>1
<1>3. m - 1 \in G
  BY <1>1, <1>2
<1> QED BY <1>1, <1>2, <1>3

(* Division with a remainder.                                              *)
LEMMA Division ==
  ASSUME NEW x \in Nat, NEW d \in Nat \ {0}
  PROVE  /\ x = d * (x \div d) + (x % d)
         /\ x % d \in 0..(d - 1) /\ x \div d \in Nat
OBVIOUS

(* There is one quotient and one remainder only.                           *)
LEMMA Quotient ==
  ASSUME NEW d \in Nat \ {0}, NEW q \in Nat, NEW r \in 0..(d - 1)
  PROVE  (d * q + r) \div d = q /\ (d * q + r) % d = r
OBVIOUS

(* A quotient grows with its dividend.                                     *)
LEMMA QuotientMono ==
  ASSUME NEW d \in Nat \ {0}, NEW x \in Nat, NEW y \in Nat, x <= y
  PROVE  x \div d <= y \div d
OBVIOUS

(* To divide twice is to divide by the product.                            *)
LEMMA QuotientNested ==
  ASSUME NEW d \in Nat \ {0}, NEW x \in Nat, NEW k \in Nat \ {0}
  PROVE  (x \div d) \div k = x \div (k * d)
OBVIOUS

(* What the next number does to a quotient.                                *)
LEMMA QuotientNext ==
  ASSUME NEW d \in Nat \ {0}, NEW x \in Nat
  PROVE  (x + 1) \div d = IF (x + 1) % d = 0 THEN (x \div d) + 1 ELSE x \div d
OBVIOUS

(* A multiple of a product, by its factors.                                *)
LEMMA RemainderNested ==
  ASSUME NEW d \in Nat \ {0}, NEW x \in Nat, NEW k \in Nat \ {0}
  PROVE  x % (k * d) = 0 <=> x % d = 0 /\ (x \div d) % k = 0
<1>1. PICK q, r : q = x \div d /\ r = x % d
  OBVIOUS
<1>2. q \in Nat /\ r \in 0..(d - 1) /\ x = d * q + r
  BY <1>1, Division
<1>3. PICK p, s : p = q \div k /\ s = q % k
  OBVIOUS
<1>4. p \in Nat /\ s \in 0..(k - 1) /\ q = k * p + s
  BY <1>2, <1>3, Division
<1>5. PICK e \in Nat : s + 1 + e = k
  <2>1. k - 1 - s \in Nat /\ s + 1 + (k - 1 - s) = k
    BY <1>4
  <2> QED BY <2>1
<1>6. s \in Nat /\ d * s \in Nat /\ d * e \in Nat
  BY <1>4
<1>7. k * d = d * s + d + d * e
  <2>1. k * d = d * (s + 1 + e)
    BY <1>5
  <2>2. d * (s + 1 + e) = d * s + d + d * e
    BY <1>6
  <2> QED BY <2>1, <2>2
<1>8. d * s + r \in 0..(k * d - 1) /\ k * d \in Nat \ {0}
  BY <1>2, <1>6, <1>7
<1>9. x = (k * d) * p + (d * s + r)
  <2>1. d * q = d * (k * p + s)
    BY <1>4
  <2>2. d * (k * p + s) = (k * d) * p + d * s
    BY <1>4
  <2>3. (k * d) * p \in Nat
    BY <1>4
  <2> QED BY <1>2, <1>6, <2>1, <2>2, <2>3
<1>10. x % (k * d) = d * s + r
  BY <1>4, <1>8, <1>9, Quotient
<1>11. d * s = 0 <=> s = 0
  BY <1>6
<1> QED BY <1>1, <1>2, <1>3, <1>6, <1>10, <1>11

-----------------------------------------------------------------------------
(* The spans of the levels.                                                *)
LEMMA SpanEquation ==
  Span = [i \in 0..4 |->
            IF i = 0 THEN TIME_NEAR ELSE TIME_LEVEL * Span[i - 1]]
<1> DEFINE
      one   == TIME_LEVEL * TIME_NEAR
      two   == TIME_LEVEL * one
      three == TIME_LEVEL * two
      g == [i \in 0..4 |->
              IF i = 0 THEN TIME_NEAR ELSE IF i = 1 THEN one
              ELSE IF i = 2 THEN two ELSE IF i = 3 THEN three
              ELSE TIME_LEVEL * three]
<1>1. \A i \in 0..4 : g[i] = IF i = 0 THEN TIME_NEAR ELSE TIME_LEVEL * g[i - 1]
  OBVIOUS
<1>2. g = [i \in 0..4 |-> IF i = 0 THEN TIME_NEAR ELSE TIME_LEVEL * g[i - 1]]
  BY <1>1
<1> HIDE DEF g
<1> QED BY <1>2 DEF Span

(* Each is a number of slots of the level below.                           *)
LEMMA Spans ==
  /\ TIME_LEVEL \in Nat \ {0, 1} /\ TIME_NEAR \in Nat \ {0, 1}
  /\ Span[0] = TIME_NEAR /\ Span[4] = Wrap
  /\ \A i \in 0..3 : Span[i + 1] = TIME_LEVEL * Span[i]
  /\ \A i \in 0..4 : Span[i] \in Nat \ {0}
  /\ Wrap >= 2 * Span[3]
<1>1. TIME_LEVEL \in Nat \ {0, 1} /\ TIME_NEAR \in Nat \ {0, 1}
  BY TimerAssumption
<1>2. \A i \in 0..4 :
        Span[i] = IF i = 0 THEN TIME_NEAR ELSE TIME_LEVEL * Span[i - 1]
  BY SpanEquation
<1>3. Span[0] = TIME_NEAR /\ \A i \in 0..3 : Span[i + 1] = TIME_LEVEL * Span[i]
  BY <1>2
<1>4. ASSUME NEW m \in Nat \ {0} PROVE TIME_LEVEL * m \in Nat \ {0}
  BY <1>1
<1>5. Span[0] \in Nat \ {0} /\ Span[1] \in Nat \ {0} /\ Span[2] \in Nat \ {0}
      /\ Span[3] \in Nat \ {0} /\ Span[4] \in Nat \ {0}
  <2>1. Span[1] = TIME_LEVEL * Span[0] /\ Span[2] = TIME_LEVEL * Span[1]
        /\ Span[3] = TIME_LEVEL * Span[2] /\ Span[4] = TIME_LEVEL * Span[3]
    BY <1>2
  <2>2. Span[0] \in Nat \ {0}
    BY <1>1, <1>3
  <2>3. Span[1] \in Nat \ {0}
    BY <1>4, <2>1, <2>2
  <2>4. Span[2] \in Nat \ {0}
    BY <1>4, <2>1, <2>3
  <2>5. Span[3] \in Nat \ {0}
    BY <1>4, <2>1, <2>4
  <2> QED BY <1>4, <2>1, <2>2, <2>3, <2>4, <2>5
<1>6. \A i \in 0..4 : Span[i] \in Nat \ {0}
  BY <1>5
<1>7. Span[4] >= 2 * Span[3]
  <2>1. PICK a : a = Span[3]
    OBVIOUS
  <2>2. Span[4] = TIME_LEVEL * a /\ a \in Nat \ {0}
    BY <1>2, <1>5, <2>1
  <2>3. TIME_LEVEL * a >= 2 * a
    BY <1>1, <2>2
  <2> QED BY <2>1, <2>2, <2>3
<1> QED BY <1>1, <1>3, <1>6, <1>7 DEF Wrap

-----------------------------------------------------------------------------
(* The round of level i that x is in; of level 4 there is only one.        *)
Round(x, i) == x \div Span[i]

(* A round is a number.                                                    *)
LEMMA RoundType ==
  ASSUME NEW x \in Nat, NEW i \in 0..4
  PROVE  Round(x, i) \in Nat
BY Spans, Division DEF Round

(* Who is in one round of a level is in one round of those above.          *)
LEMMA RoundAbove ==
  ASSUME NEW x \in Nat, NEW i \in 0..3
  PROVE  Round(x, i + 1) = Round(x, i) \div TIME_LEVEL
<1>1. PICK d, k : d = Span[i] /\ k = TIME_LEVEL /\ Span[i + 1] = k * d
                  /\ d \in Nat \ {0} /\ k \in Nat \ {0}
  BY Spans
<1>2. (x \div d) \div k = x \div (k * d)
  BY <1>1, QuotientNested
<1> QED BY <1>1, <1>2 DEF Round

(* The same for any level above.                                           *)
LEMMA SameAbove ==
  ASSUME NEW x \in Nat, NEW y \in Nat, NEW i \in 0..4, NEW j \in i..4,
         Round(x, i) = Round(y, i)
  PROVE  Round(x, j) = Round(y, j)
<1>1. \A k \in 0..3 : Round(x, k) = Round(y, k)
                       => Round(x, k + 1) = Round(y, k + 1)
  BY RoundAbove
<1>2. /\ Round(x, 0) = Round(y, 0) => Round(x, 1) = Round(y, 1)
      /\ Round(x, 1) = Round(y, 1) => Round(x, 2) = Round(y, 2)
      /\ Round(x, 2) = Round(y, 2) => Round(x, 3) = Round(y, 3)
      /\ Round(x, 3) = Round(y, 3) => Round(x, 4) = Round(y, 4)
  <2>1. 0 \in 0..3 /\ 1 \in 0..3 /\ 2 \in 0..3 /\ 3 \in 0..3
        /\ 0 + 1 = 1 /\ 1 + 1 = 2 /\ 2 + 1 = 3 /\ 3 + 1 = 4
    OBVIOUS
  <2> QED BY <1>1, <2>1
<1>3. i \in {0, 1, 2, 3, 4} /\ j \in {0, 1, 2, 3, 4} /\ i <= j
  OBVIOUS
<1> QED BY <1>2, <1>3

(* A later tick is not in an earlier round.                                *)
LEMMA RoundOrder ==
  ASSUME NEW x \in Nat, NEW y \in Nat, x <= y, NEW i \in 0..4
  PROVE  Round(x, i) <= Round(y, i)
BY Spans, QuotientMono DEF Round

(* There is one round of level 4 and the slots of level 3 are its rounds.  *)
LEMMA LastRound ==
  ASSUME NEW x \in 0..(Wrap - 1)
  PROVE  Round(x, 4) = 0 /\ Round(x, 3) \in 0..(TIME_LEVEL - 1)
         /\ Round(x, 3) % TIME_LEVEL = Round(x, 3)
<1>1. PICK s : s = Span[3] /\ s \in Nat \ {0} /\ Wrap = TIME_LEVEL * s
               /\ Span[4] = Wrap
  BY Spans
<1>2. PICK q, r : q = x \div s /\ r = x % s
  OBVIOUS
<1>3. x \in Nat /\ Wrap \in Nat \ {0} /\ x < Wrap
        /\ TIME_LEVEL \in Nat \ {0}
  BY Spans
<1>4. q \in Nat /\ r \in 0..(s - 1) /\ x = s * q + r
  BY <1>1, <1>2, <1>3, Division
<1>5. q < TIME_LEVEL
  <2>1. SUFFICES ASSUME q >= TIME_LEVEL PROVE FALSE
    BY <1>3, <1>4
  <2>2. PICK e \in Nat : q = TIME_LEVEL + e
    <3>1. q - TIME_LEVEL \in Nat /\ q = TIME_LEVEL + (q - TIME_LEVEL)
      BY <1>3, <1>4, <2>1
    <3> QED BY <3>1
  <2>3. s * q = TIME_LEVEL * s + s * e /\ s * e \in Nat
    BY <1>1, <1>3, <2>2
  <2> QED BY <1>1, <1>3, <1>4, <2>3
<1>6. q % TIME_LEVEL = q
  <2>1. PICK k : k = TIME_LEVEL
    OBVIOUS
  <2>2. k \in Nat \ {0} /\ q \in 0..(k - 1) /\ 0 \in Nat /\ k * 0 + q = q
    BY <1>3, <1>4, <1>5, <2>1
  <2>3. (k * 0 + q) % k = q
    BY <2>2, Quotient
  <2> QED BY <2>1, <2>2, <2>3
<1>7. x \div Wrap = 0
  <2>1. PICK w : w = Wrap
    OBVIOUS
  <2>2. w \in Nat \ {0} /\ x \in 0..(w - 1) /\ 0 \in Nat /\ w * 0 + x = x
    BY <1>3, <2>1
  <2>3. (w * 0 + x) \div w = 0
    BY <2>2, Quotient
  <2> QED BY <2>1, <2>2, <2>3
<1>8. Round(x, 4) = 0
  BY <1>1, <1>7 DEF Round
<1>9. Round(x, 3) = q
  BY <1>1, <1>2 DEF Round
<1>10. q \in 0..(TIME_LEVEL - 1)
  BY <1>3, <1>4, <1>5
<1> QED BY <1>6, <1>8, <1>9, <1>10

(* add_node: a node is on the first level whose next one has it in the     *)
(* present round.                                                          *)
SlotOn(e, m) ==
  IF m = 0 THEN <<NEAR, e % TIME_NEAR>>
  ELSE <<m - 1, Round(e, m - 1) % TIME_LEVEL>>

(* place finds that level, ...                                             *)
LEMMA PlaceOf ==
  ASSUME NEW e \in 0..(Wrap - 1), NEW now \in 0..(Wrap - 1)
  PROVE  \E m \in 0..4 : /\ Round(e, m) = Round(now, m)
                         /\ \A j \in 0..(m - 1) : Round(e, j) # Round(now, j)
                         /\ place(e, now) = SlotOn(e, m)
<1>1. Span[0] = TIME_NEAR
  BY Spans
<1>2. CASE e \div TIME_NEAR = now \div TIME_NEAR
  <2>1. place(e, now) = SlotOn(e, 0)
    BY <1>2 DEF place, SlotOn
  <2>2. Round(e, 0) = Round(now, 0)
    BY <1>1, <1>2 DEF Round
  <2> QED BY <2>1, <2>2
<1>3. CASE e \div TIME_NEAR # now \div TIME_NEAR /\ same_round(e, now) = {}
  <2>1. place(e, now) = SlotOn(e, 4)
    BY <1>3 DEF place, SlotOn, Round
  <2>2. Round(e, 4) = Round(now, 4)
    BY LastRound
  <2>3. Round(e, 0) # Round(now, 0)
    BY <1>1, <1>3 DEF Round
  <2>4. \A i \in 0..2 : Round(e, i + 1) # Round(now, i + 1)
    BY <1>3 DEF same_round, Round
  <2>5. \A j \in 0..(4 - 1) : j = 0 \/ (j - 1 \in 0..2 /\ (j - 1) + 1 = j)
    OBVIOUS
  <2>6. \A j \in 0..(4 - 1) : Round(e, j) # Round(now, j)
    BY <2>3, <2>4, <2>5
  <2> QED BY <2>1, <2>2, <2>6
<1>4. CASE e \div TIME_NEAR # now \div TIME_NEAR /\ same_round(e, now) # {}
  <2> DEFINE R == same_round(e, now)
             i == CHOOSE j \in R : \A k \in R : j <= k
  <2>1. R \subseteq 0..2
    BY DEF same_round
  <2>2. \E j \in R : \A k \in R : j <= k
    <3>1. R # {} /\ R \in SUBSET Nat
      BY <1>4, <2>1
    <3> HIDE DEF R
    <3> QED BY <3>1, LeastNumber
  <2>3. i \in R /\ \A k \in R : i <= k
    <3> HIDE DEF R
    <3> QED BY <2>2
  <2>4. place(e, now) = <<i, (e \div Span[i]) % TIME_LEVEL>>
    BY <1>4 DEF place
  <2> HIDE DEF i
  <2>5. i \in 0..2 /\ i + 1 \in 0..4 /\ (i + 1) - 1 = i /\ i + 1 # 0
    BY <2>1, <2>3
  <2>6. place(e, now) = SlotOn(e, i + 1)
    BY <2>4, <2>5 DEF SlotOn, Round
  <2>7. Round(e, i + 1) = Round(now, i + 1)
    BY <2>3 DEF same_round, Round
  <2>8. ASSUME NEW j \in 0..((i + 1) - 1) PROVE Round(e, j) # Round(now, j)
    <3>1. CASE j = 0
      BY <1>1, <1>4, <3>1 DEF Round
    <3>2. CASE j # 0
      <4>1. j - 1 \in 0..2 /\ ~ (i <= j - 1) /\ (j - 1) + 1 = j
        BY <2>5, <3>2
      <4>2. j - 1 \notin R
        BY <2>3, <4>1
      <4> QED BY <4>1, <4>2 DEF same_round, Round
    <3> QED BY <3>1, <3>2
  <2> QED BY <2>5, <2>6, <2>7, <2>8
<1> QED BY <1>2, <1>3, <1>4

(* ... and there is one such level only.                                   *)
LEMMA PlaceIs ==
  ASSUME NEW e \in 0..(Wrap - 1), NEW now \in 0..(Wrap - 1), NEW m \in 0..4,
         Round(e, m) = Round(now, m),
         m # 0 => Round(e, m - 1) # Round(now, m - 1)
  PROVE  place(e, now) = SlotOn(e, m)
<1>0. e \in Nat /\ now \in Nat
  BY Spans
<1>1. PICK h \in 0..4 : /\ Round(e, h) = Round(now, h)
                        /\ \A j \in 0..(h - 1) : Round(e, j) # Round(now, j)
                        /\ place(e, now) = SlotOn(e, h)
  BY PlaceOf
<1>2. ~ (m < h)
  BY <1>1
<1>3. ASSUME h < m PROVE FALSE
  <2>1. m - 1 \in h..4 /\ m # 0
    BY <1>3
  <2> QED BY <1>0, <1>1, <2>1, SameAbove
<1>4. m = h
  BY <1>2, <1>3
<1> QED BY <1>1, <1>4

-----------------------------------------------------------------------------
(* The tick at which a node expires is not later than half a turn of time. *)
LEMMA Expiry ==
  ASSUME NEW now \in 0..(Wrap - 1), NEW d \in Nat, 2 * d < Wrap,
         NEW e, e = (now + d) % Wrap
  PROVE  /\ e \in 0..(Wrap - 1)
         /\ \/ e = now + d
            \/ e = now + d - Wrap /\ e < now /\ Round(e, 3) < Round(now, 3)
<1>1. PICK w, s : w = Wrap /\ s = Span[3] /\ w \in Nat \ {0} /\ w >= 2 * s
                  /\ s \in Nat \ {0} /\ w = TIME_LEVEL * s
  <2>1. Wrap \in Nat \ {0} /\ Wrap >= 2 * Span[3] /\ Span[3] \in Nat \ {0}
        /\ Wrap = TIME_LEVEL * Span[3]
    BY Spans
  <2> QED BY <2>1
<1>2. now \in 0..(w - 1) /\ 2 * d < w /\ e = (now + d) % w
  BY <1>1
<1>3. CASE now + d < w
  <2>1. now + d \in 0..(w - 1) /\ 0 \in Nat /\ w * 0 + (now + d) = now + d
    BY <1>1, <1>2, <1>3
  <2>2. (w * 0 + (now + d)) % w = now + d
    BY <1>1, <2>1, Quotient
  <2> QED BY <1>1, <1>2, <2>1, <2>2
<1>4. CASE now + d >= w
  <2>1. PICK x : x = now + d - w
    OBVIOUS
  <2>2. x \in 0..(w - 1) /\ 1 \in Nat /\ w * 1 + x = now + d
    BY <1>1, <1>2, <1>4, <2>1
  <2>3. (w * 1 + x) % w = x
    BY <1>1, <2>2, Quotient
  <2>4. e = x
    BY <1>2, <2>2, <2>3
  <2>5. e \in Nat /\ now \in Nat /\ e + s < now
    BY <1>1, <1>2, <2>1, <2>2, <2>4
  <2>6. (e + s) \div s = (e \div s) + 1 /\ e \div s \in Nat
    <3>1. PICK q, r : q = e \div s /\ r = e % s
      OBVIOUS
    <3>2. q \in Nat /\ r \in 0..(s - 1) /\ e = s * q + r
      BY <1>1, <2>5, <3>1, Division
    <3>3. s * (q + 1) = s * q + s /\ s * q \in Nat
      BY <1>1, <3>2
    <3>4. e + s = s * (q + 1) + r /\ q + 1 \in Nat
      BY <1>1, <3>2, <3>3
    <3>5. (s * (q + 1) + r) \div s = q + 1
      BY <1>1, <3>2, <3>4, Quotient
    <3> QED BY <3>1, <3>2, <3>4, <3>5
  <2>7. (e + s) \div s <= now \div s
    BY <1>1, <2>5, QuotientMono
  <2>8. now \div s \in Nat
    BY <1>1, <2>5, Division
  <2>9. e \div s < now \div s
    BY <2>6, <2>7, <2>8
  <2>10. e \in 0..(Wrap - 1) /\ e = now + d - Wrap /\ e < now
    BY <1>1, <1>2, <2>1, <2>2, <2>4, <2>5
  <2> QED BY <1>1, <2>9, <2>10 DEF Round
<1> QED BY <1>1, <1>2, <1>3, <1>4

(* What is due now is in the slot of the present, and nothing else is.     *)
LEMMA PlaceNow ==
  ASSUME NEW now \in 0..(Wrap - 1), NEW d \in Nat, 2 * d < Wrap,
         NEW e, e = (now + d) % Wrap
  PROVE  place(e, now) = <<NEAR, now % TIME_NEAR>> <=> d = 0
<1>1. e \in 0..(Wrap - 1) /\ now \in Nat /\ e \in Nat
  <2>1. e \in 0..(Wrap - 1)
    BY Expiry
  <2> QED BY <2>1, Spans
<1>2. e = now <=> d = 0
  <2>1. Wrap \in Nat
    BY Spans
  <2>2. e = now + d \/ (e = now + d - Wrap /\ e < now)
    BY Expiry
  <2>3. CASE d = 0
    BY <1>1, <2>1, <2>2, <2>3
  <2>4. CASE d # 0
    BY <1>1, <2>1, <2>2, <2>4
  <2> QED BY <2>3, <2>4
<1>3. ASSUME e = now PROVE place(e, now) = <<NEAR, now % TIME_NEAR>>
  BY <1>3 DEF place
<1>4. ASSUME place(e, now) = <<NEAR, now % TIME_NEAR>> PROVE e = now
  <2>1. PICK m \in 0..4 : /\ Round(e, m) = Round(now, m)
                          /\ place(e, now) = SlotOn(e, m)
    BY <1>1, PlaceOf
  <2>2. m = 0
    <3>1. SUFFICES ASSUME m # 0 PROVE FALSE
      OBVIOUS
    <3>2. <<m - 1, Round(e, m - 1) % TIME_LEVEL>> = <<NEAR, now % TIME_NEAR>>
      BY <1>4, <2>1, <3>1 DEF SlotOn
    <3>3. m - 1 = NEAR
      BY <3>2
    <3> QED BY <3>1, <3>3 DEF NEAR
  <2>3. e % TIME_NEAR = now % TIME_NEAR
    BY <1>4, <2>1, <2>2 DEF SlotOn
  <2>4. e \div TIME_NEAR = now \div TIME_NEAR
    BY <2>1, <2>2, Spans DEF Round
  <2>5. PICK k : k = TIME_NEAR /\ k \in Nat \ {0}
    BY Spans
  <2>6. e = k * (e \div k) + (e % k) /\ now = k * (now \div k) + (now % k)
    BY <1>1, <2>5, Division
  <2> QED BY <2>3, <2>4, <2>5, <2>6
<1> QED BY <1>2, <1>3, <1>4

(* The slots of the wheel, as add_node and timer_shift name them.          *)
Slots ==
  ({NEAR} \X (0..(TIME_NEAR - 1))) \cup ((0..3) \X (0..(TIME_LEVEL - 1)))

(* The level and the index of a slot.                                      *)
LEMMA SlotParts ==
  ASSUME NEW p \in Slots
  PROVE  /\ p[1] \in -1..3 /\ p = <<p[1], p[2]>>
         /\ p[1] = NEAR <=> p[1] \notin 0..3
         /\ p[1] = NEAR => p[2] \in 0..(TIME_NEAR - 1)
         /\ p[1] # NEAR => p[2] \in 0..(TIME_LEVEL - 1)
BY DEF Slots, NEAR

(* A place is a slot of the wheel.                                         *)
LEMMA PlaceInSlots ==
  ASSUME NEW e \in 0..(Wrap - 1), NEW now \in 0..(Wrap - 1)
  PROVE  place(e, now) \in Slots
<1>1. PICK m \in 0..4 : place(e, now) = SlotOn(e, m)
  BY PlaceOf
<1>2. e \in Nat
  BY Spans
<1>3. CASE m = 0
  <2>1. PICK k : k = TIME_NEAR /\ k \in Nat \ {0}
    BY Spans
  <2>2. e % k \in 0..(k - 1)
    BY <1>2, <2>1, Division
  <2> QED BY <1>1, <1>3, <2>1, <2>2 DEF SlotOn, Slots
<1>4. CASE m # 0
  <2>1. PICK k : k = TIME_LEVEL /\ k \in Nat \ {0}
    BY Spans
  <2>2. m - 1 \in 0..3 /\ m - 1 \in 0..4
    BY <1>4
  <2>3. PICK q \in Nat : q = Round(e, m - 1)
    BY <1>2, <2>2, RoundType
  <2>4. q % k \in 0..(k - 1)
    BY <2>1, <2>3, Division
  <2> QED BY <1>1, <1>4, <2>1, <2>2, <2>3, <2>4 DEF SlotOn, Slots
<1> QED BY <1>3, <1>4

-----------------------------------------------------------------------------
(* A round of level i begins with a round of the level below ...           *)
LEMMA RoundBegins ==
  ASSUME NEW x \in Nat, NEW i \in 0..3
  PROVE  x % Span[i + 1] = 0 <=>
           x % Span[i] = 0 /\ Round(x, i) % TIME_LEVEL = 0
<1>1. PICK d, k : d = Span[i] /\ k = TIME_LEVEL /\ Span[i + 1] = k * d
                  /\ d \in Nat \ {0} /\ k \in Nat \ {0}
  BY Spans
<1>2. x % (k * d) = 0 <=> x % d = 0 /\ (x \div d) % k = 0
  BY <1>1, RemainderNested
<1> QED BY <1>1, <1>2 DEF Round

(* ... and so with one of every level below, ...                           *)
LEMMA BeginsBelow ==
  ASSUME NEW x \in Nat, NEW i \in 0..4, NEW j \in 0..i, x % Span[i] = 0
  PROVE  x % Span[j] = 0
<1>1. \A k \in 0..3 : x % Span[k + 1] = 0 => x % Span[k] = 0
  BY RoundBegins
<1>2. /\ x % Span[1] = 0 => x % Span[0] = 0
      /\ x % Span[2] = 0 => x % Span[1] = 0
      /\ x % Span[3] = 0 => x % Span[2] = 0
      /\ x % Span[4] = 0 => x % Span[3] = 0
  <2>1. 0 \in 0..3 /\ 1 \in 0..3 /\ 2 \in 0..3 /\ 3 \in 0..3
        /\ 0 + 1 = 1 /\ 1 + 1 = 2 /\ 2 + 1 = 3 /\ 3 + 1 = 4
    OBVIOUS
  <2> QED BY <1>1, <2>1
<1>3. i \in {0, 1, 2, 3, 4} /\ j \in {0, 1, 2, 3, 4} /\ j <= i
  OBVIOUS
<1> QED BY <1>2, <1>3

(* ... and timer_shift empties one slot at most.                           *)
LEMMA ShiftedOne ==
  ASSUME NEW ct \in Nat, ct # 0, NEW i \in 0..3, ct % Span[i] = 0,
         Round(ct, i) % TIME_LEVEL # 0
  PROVE  shifted(ct) = {<<i, Round(ct, i) % TIME_LEVEL>>}
<1> DEFINE T == {j \in 0..3 : ct % Span[j] = 0
                              /\ Round(ct, j) % TIME_LEVEL # 0}
<1>1. ASSUME NEW j \in T, NEW k \in T, j < k PROVE FALSE
  <2>1. ct % Span[k] = 0 /\ Round(ct, j) % TIME_LEVEL # 0
        /\ j + 1 \in 0..k /\ k \in 0..4 /\ j \in 0..3
    BY <1>1
  <2>2. ct % Span[j + 1] = 0
    BY <2>1, BeginsBelow
  <2> QED BY <2>1, <2>2, RoundBegins
<1>2. i \in T
  OBVIOUS
<1>3. ASSUME NEW j \in T PROVE j = i
  <2>1. ~ (j < i) /\ ~ (i < j)
    BY <1>1, <1>2
  <2>2. j \in 0..3
    OBVIOUS
  <2> QED BY <2>1, <2>2
<1>4. T = {i}
  BY <1>2, <1>3
<1>5. shifted(ct) = {<<j, Round(ct, j) % TIME_LEVEL>> : j \in T}
  BY DEF shifted, Round
<1> HIDE DEF T
<1> QED BY <1>4, <1>5

(* That slot is one of the wheel, on a level above near.                   *)
LEMMA ShiftedSlot ==
  ASSUME NEW ct \in Nat, NEW s \in shifted(ct)
  PROVE  s \in Slots /\ s[1] # NEAR /\ shifted(ct) = {s}
<1>1. TIME_LEVEL \in Nat \ {0}
  BY Spans
<1>2. CASE ct = 0
  BY <1>1, <1>2 DEF shifted, Slots, NEAR
<1>3. CASE ct # 0
  <2>1. PICK i \in 0..3 : ct % Span[i] = 0 /\ Round(ct, i) % TIME_LEVEL # 0
                          /\ s = <<i, Round(ct, i) % TIME_LEVEL>>
    BY <1>3 DEF shifted, Round
  <2>2. PICK k, q : k = TIME_LEVEL /\ q = Round(ct, i)
    OBVIOUS
  <2>3. q \in Nat /\ k \in Nat \ {0}
    <3>1. i \in 0..4
      OBVIOUS
    <3> QED BY <1>1, <2>2, <3>1, RoundType
  <2>4. q % k \in 0..(k - 1)
    BY <2>3, Division
  <2>5. s \in Slots /\ s[1] # NEAR
    BY <2>1, <2>2, <2>4 DEF Slots, NEAR
  <2> QED BY <1>3, <2>1, <2>5, ShiftedOne
<1> QED BY <1>2, <1>3

(* The heart of the wheel: with the next tick every node has the place it  *)
(* had, except those in the slot that timer_shift empties.                 *)
LEMMA PlaceStays ==
  ASSUME NEW now \in 0..(Wrap - 1), NEW d \in Nat \ {0}, 2 * d < Wrap,
         NEW e, e = (now + d) % Wrap, NEW ct, ct = (now + 1) % Wrap,
         place(e, ct) # place(e, now)
  PROVE  shifted(ct) = {place(e, now)}
<1>1. Wrap \in Nat \ {0} /\ 2 * 1 < Wrap
  BY Spans
<1>2. ct \in 0..(Wrap - 1) /\ e \in 0..(Wrap - 1)
      /\ (ct = now + 1 \/ (ct = now + 1 - Wrap))
  <2>1. ct \in 0..(Wrap - 1) /\ (ct = now + 1 \/ ct = now + 1 - Wrap)
    <3>1. 1 \in Nat
      OBVIOUS
    <3> QED BY <1>1, <3>1, Expiry
  <2>2. e \in 0..(Wrap - 1)
    BY Expiry
  <2> QED BY <2>1, <2>2
<1>3. now \in Nat /\ ct \in Nat /\ e \in Nat
  BY <1>1, <1>2
<1>4. CASE e = now + d
  <2>1. ct = now + 1 /\ now < ct /\ ct <= e
    BY <1>1, <1>2, <1>3, <1>4
  <2>2. PICK m \in 0..4 : /\ Round(e, m) = Round(now, m)
                          /\ \A j \in 0..(m - 1) : Round(e, j) # Round(now, j)
                          /\ place(e, now) = SlotOn(e, m)
    BY <1>2, PlaceOf
  <2>3. Round(e, m) = Round(ct, m)
    <3>1. Round(now, m) <= Round(ct, m) /\ Round(ct, m) <= Round(e, m)
          /\ Round(now, m) \in Nat /\ Round(ct, m) \in Nat
      <4>1. now <= ct /\ ct <= e
        BY <1>3, <2>1
      <4>2. Round(now, m) <= Round(ct, m)
        BY <1>3, <4>1, RoundOrder
      <4>3. Round(ct, m) <= Round(e, m)
        BY <1>3, <4>1, RoundOrder
      <4> QED BY <1>3, <4>2, <4>3, RoundType
    <3> QED BY <2>2, <3>1
  <2>4. m # 0 /\ Round(e, m - 1) = Round(ct, m - 1)
    <3>1. SUFFICES ASSUME m # 0 => Round(e, m - 1) # Round(ct, m - 1)
                   PROVE  FALSE
      OBVIOUS
    <3>2. place(e, ct) = SlotOn(e, m)
      BY <1>2, <2>3, <3>1, PlaceIs
    <3> QED BY <2>2, <3>2
  <2>5. PICK i : i = m - 1 /\ i \in 0..3 /\ i \in 0..4 /\ i + 1 = m
                 /\ i \in 0..(m - 1)
    BY <2>4
  <2>6. Round(ct, i) # Round(now, i)
    BY <2>2, <2>4, <2>5
  <2>7. ct % Span[i] = 0
    <3>1. PICK s \in Nat \ {0} : s = Span[i]
      BY <2>5, Spans
    <3>2. (now + 1) \div s = IF (now + 1) % s = 0 THEN (now \div s) + 1
                             ELSE now \div s
      BY <1>3, <3>1, QuotientNext
    <3> QED BY <2>1, <2>6, <3>1, <3>2 DEF Round
  <2>8. Round(ct, i) % TIME_LEVEL # 0
    <3>1. SUFFICES ASSUME Round(ct, i) % TIME_LEVEL = 0 PROVE FALSE
      OBVIOUS
    <3>2. ct % Span[m] = 0
      BY <1>3, <2>5, <2>7, <3>1, RoundBegins
    <3>3. PICK s \in Nat \ {0} : s = Span[m]
      BY Spans
    <3>4. (now + 1) \div s = (now \div s) + 1
      BY <1>3, <2>1, <3>2, <3>3, QuotientNext
    <3>5. Round(ct, m) = Round(now, m) + 1
      BY <2>1, <3>3, <3>4 DEF Round
    <3>6. Round(now, m) \in Nat
      BY <1>3, RoundType
    <3> QED BY <2>2, <2>3, <3>5, <3>6
  <2>9. shifted(ct) = {<<i, Round(ct, i) % TIME_LEVEL>>}
    BY <1>3, <2>1, <2>5, <2>7, <2>8, ShiftedOne
  <2>10. place(e, now) = <<i, Round(ct, i) % TIME_LEVEL>>
    BY <2>2, <2>4, <2>5 DEF SlotOn
  <2> QED BY <2>9, <2>10
<1>5. CASE e # now + d
  <2>1. e < now /\ Round(e, 3) < Round(now, 3)
    BY <1>5, Expiry
  <2>2. Round(e, 4) = Round(now, 4) /\ Round(e, 4) = Round(ct, 4)
    BY <1>2, LastRound
  <2>3. Round(e, 3) \in Nat /\ Round(now, 3) \in Nat
    BY <1>3, RoundType
  <2>4. Round(e, 4 - 1) # Round(now, 4 - 1) /\ 4 \in 0..4 /\ 4 - 1 = 3
    BY <2>1, <2>3
  <2>5. place(e, now) = SlotOn(e, 4)
    BY <1>2, <2>2, <2>4, PlaceIs
  <2>6. Round(e, 3) = Round(ct, 3)
    <3>1. SUFFICES ASSUME Round(e, 4 - 1) # Round(ct, 4 - 1) PROVE FALSE
      BY <2>4
    <3>2. place(e, ct) = SlotOn(e, 4)
      BY <1>2, <2>2, <2>4, <3>1, PlaceIs
    <3> QED BY <2>5, <3>2
  <2>7. ct # now + 1
    <3>1. SUFFICES ASSUME ct = now + 1 PROVE FALSE
      OBVIOUS
    <3>2. now <= ct /\ 3 \in 0..4
      BY <1>3, <3>1
    <3>3. Round(now, 3) <= Round(ct, 3)
      BY <1>3, <3>2, RoundOrder
    <3> QED BY <2>1, <2>3, <2>6, <3>3
  <2>8. ct = 0
    BY <1>1, <1>2, <1>3, <2>7
  <2>9. Round(ct, 3) = 0
    <3>1. PICK s \in Nat \ {0} : s = Span[3]
      BY Spans
    <3>2. s * 0 + 0 = 0 /\ 0 \in 0..(s - 1) /\ 0 \in Nat
      BY <3>1
    <3>3. (s * 0 + 0) \div s = 0
      BY <3>1, <3>2, Quotient
    <3> QED BY <2>8, <3>1, <3>2, <3>3 DEF Round
  <2>10. SlotOn(e, 4) = <<3, Round(e, 3) % TIME_LEVEL>>
    BY <2>4 DEF SlotOn
  <2>11. Round(e, 3) % TIME_LEVEL = Round(e, 3)
    BY <1>2, LastRound
  <2>12. place(e, now) = <<3, 0>>
    BY <2>5, <2>6, <2>9, <2>10, <2>11
  <2> QED BY <2>8, <2>12 DEF shifted
<1> QED BY <1>4, <1>5

-----------------------------------------------------------------------------
(* x stands before y in list s.                                            *)
Before(s, x, y) == \E i, j \in DOMAIN s : i < j /\ s[i] = x /\ s[j] = y

(* What linking one more node to a list means.                             *)
LEMMA Linked ==
  ASSUME NEW S, NEW s \in Seq(S), NEW n \in S
  PROVE  /\ Append(s, n) \in Seq(S) /\ Listed(Append(s, n)) = Listed(s) \cup {n}
         /\ \A x, y : Before(Append(s, n), x, y) <=>
                        Before(s, x, y) \/ (x \in Listed(s) /\ y = n)
<1>1. PICK u : u = Append(s, n)
  OBVIOUS
<1>2. /\ u \in Seq(S) /\ Len(u) = Len(s) + 1 /\ Len(s) \in Nat
      /\ \A i \in 1..Len(s) : u[i] = s[i]
      /\ u[Len(s) + 1] = n
      /\ DOMAIN u = 1..(Len(s) + 1) /\ DOMAIN s = 1..Len(s)
  BY <1>1
<1>3. Listed(u) = Listed(s) \cup {n}
  <2>1. ASSUME NEW x \in Listed(u) PROVE x \in Listed(s) \cup {n}
    <3>1. PICK i \in 1..(Len(s) + 1) : x = u[i]
      BY <1>2 DEF Listed
    <3>2. i \in 1..Len(s) \/ i = Len(s) + 1
      BY <1>2
    <3> QED BY <1>2, <3>1, <3>2 DEF Listed
  <2>2. ASSUME NEW x \in Listed(s) PROVE x \in Listed(u)
    <3>1. PICK i \in 1..Len(s) : x = s[i]
      BY DEF Listed
    <3>2. i \in 1..(Len(s) + 1)
      BY <1>2
    <3> QED BY <1>2, <3>1, <3>2 DEF Listed
  <2>3. n \in Listed(u)
    <3>1. Len(s) + 1 \in 1..(Len(s) + 1)
      BY <1>2
    <3> QED BY <1>2, <3>1 DEF Listed
  <2> QED BY <2>1, <2>2, <2>3
<1>4. ASSUME NEW x, NEW y, Before(u, x, y)
      PROVE  Before(s, x, y) \/ (x \in Listed(s) /\ y = n)
  <2>1. PICK i \in 1..(Len(s) + 1), j \in 1..(Len(s) + 1) :
          i < j /\ u[i] = x /\ u[j] = y
    BY <1>2, <1>4 DEF Before
  <2>2. i \in 1..Len(s) /\ s[i] = x
    BY <1>2, <2>1
  <2>3. CASE j \in 1..Len(s)
    BY <1>2, <2>1, <2>2, <2>3 DEF Before
  <2>4. CASE j = Len(s) + 1
    BY <1>2, <2>1, <2>2, <2>4 DEF Listed
  <2> QED BY <1>2, <2>3, <2>4
<1>5. ASSUME NEW x, NEW y, Before(s, x, y) PROVE Before(u, x, y)
  <2>1. PICK i \in 1..Len(s), j \in 1..Len(s) :
          i < j /\ s[i] = x /\ s[j] = y
    BY <1>2, <1>5 DEF Before
  <2>2. i \in DOMAIN u /\ j \in DOMAIN u /\ u[i] = x /\ u[j] = y
    BY <1>2, <2>1
  <2> QED BY <2>1, <2>2 DEF Before
<1>6. ASSUME NEW x \in Listed(s) PROVE Before(u, x, n)
  <2>1. PICK i \in 1..Len(s) : x = s[i]
    BY DEF Listed
  <2>2. /\ i \in DOMAIN u /\ Len(s) + 1 \in DOMAIN u /\ i < Len(s) + 1
        /\ u[i] = x /\ u[Len(s) + 1] = n
    BY <1>2, <2>1
  <2> QED BY <2>2 DEF Before
<1> QED BY <1>1, <1>2, <1>3, <1>4, <1>5, <1>6

(* What stands before or behind another is in the list.                    *)
LEMMA ListedBefore ==
  ASSUME NEW S, NEW s \in Seq(S), NEW x, NEW y, Before(s, x, y)
  PROVE  x \in Listed(s) /\ y \in Listed(s)
<1>1. DOMAIN s = 1..Len(s)
  OBVIOUS
<1> QED BY <1>1 DEF Before, Listed

(* The empty list.                                                         *)
LEMMA EmptyList ==
  /\ Listed(<<>>) = {} /\ \A x, y : ~ Before(<<>>, x, y)
  /\ \A S : <<>> \in Seq(S)
<1>1. Len(<<>>) = 0 /\ DOMAIN <<>> = {} /\ 1..0 = {}
  OBVIOUS
<1>2. Listed(<<>>) = {}
  BY <1>1 DEF Listed
<1>3. \A x, y : ~ Before(<<>>, x, y)
  BY <1>1 DEF Before
<1> QED BY <1>2, <1>3

-----------------------------------------------------------------------------
(* The wheel as add_node takes it, and the list of slot p in it.           *)
Wheels == [near : [0..(TIME_NEAR - 1) -> Seq(Nodes)],
           t : [0..3 -> [0..(TIME_LEVEL - 1) -> Seq(Nodes)]]]
wheel == [near |-> near, t |-> t]
list(w, p) == IF p[1] = NEAR THEN w.near[p[2]] ELSE w.t[p[1]][p[2]]

(* What is in a slot is a list of nodes.                                   *)
LEMMA ListType ==
  ASSUME NEW w \in Wheels, NEW p \in Slots
  PROVE  list(w, p) \in Seq(Nodes)
<1>1. CASE p[1] = NEAR
  BY <1>1, SlotParts DEF Wheels, list
<1>2. CASE p[1] # NEAR
  <2>1. p[1] \in 0..3 /\ p[2] \in 0..(TIME_LEVEL - 1)
    BY <1>2, SlotParts
  <2> QED BY <1>2, <2>1 DEF Wheels, list
<1> QED BY <1>1, <1>2

(* add_node links the node to the list of its place.                       *)
LEMMA AddNode ==
  ASSUME NEW w \in Wheels, NEW n \in Nodes, NEW e, NEW now,
         place(e, now) \in Slots
  PROVE  /\ add_node(w, n, e, now) \in Wheels
         /\ \A p \in Slots : list(add_node(w, n, e, now), p) =
              IF p = place(e, now) THEN Append(list(w, p), n) ELSE list(w, p)
<1>1. PICK i, k : place(e, now) = <<i, k>>
  BY SlotParts
<1>2. /\ i \in -1..3 /\ (i = NEAR <=> i \notin 0..3)
      /\ i = NEAR => k \in 0..(TIME_NEAR - 1)
      /\ i # NEAR => k \in 0..(TIME_LEVEL - 1)
  BY <1>1, SlotParts
<1>3. PICK a, b : w = [near |-> a, t |-> b]
                  /\ a \in [0..(TIME_NEAR - 1) -> Seq(Nodes)]
                  /\ b \in [0..3 -> [0..(TIME_LEVEL - 1) -> Seq(Nodes)]]
  BY DEF Wheels
<1>4. CASE i = NEAR
  <2>1. PICK c : c = [a EXCEPT ![k] = Append(a[k], n)]
    OBVIOUS
  <2>2. add_node(w, n, e, now) = [near |-> c, t |-> b]
    <3>1. place(e, now)[1] = i /\ place(e, now)[2] = k
      BY <1>1
    <3>2. add_node(w, n, e, now) = [w EXCEPT !.near[k] = Append(@, n)]
      BY <1>4, <3>1 DEF add_node
    <3> QED BY <1>3, <2>1, <3>2
  <2>3. a[k] \in Seq(Nodes) /\ Append(a[k], n) \in Seq(Nodes)
    BY <1>2, <1>3, <1>4
  <2>4. c \in [0..(TIME_NEAR - 1) -> Seq(Nodes)]
    BY <1>3, <2>1, <2>3
  <2>5. ASSUME NEW p \in Slots
        PROVE  list([near |-> c, t |-> b], p) =
                 IF p = <<i, k>> THEN Append(list(w, p), n) ELSE list(w, p)
    <3>1. PICK x, y : p = <<x, y>>
      BY SlotParts
    <3>2. (x = NEAR => y \in 0..(TIME_NEAR - 1))
          /\ (p = <<i, k>> <=> x = i /\ y = k)
      BY <3>1, SlotParts
    <3>3. x = NEAR => c[y] = IF y = k THEN Append(a[y], n) ELSE a[y]
      BY <1>3, <2>1, <3>2
    <3> QED BY <1>3, <1>4, <3>1, <3>2, <3>3 DEF list
  <2> QED BY <1>1, <1>3, <2>2, <2>4, <2>5 DEF Wheels
<1>5. CASE i # NEAR
  <2>1. PICK c : c = [b EXCEPT ![i] = [b[i] EXCEPT ![k] = Append(b[i][k], n)]]
    OBVIOUS
  <2>2. add_node(w, n, e, now) = [near |-> a, t |-> c]
    <3>1. place(e, now)[1] = i /\ place(e, now)[2] = k
      BY <1>1
    <3>2. add_node(w, n, e, now) = [w EXCEPT !.t[i][k] = Append(@, n)]
      BY <1>5, <3>1 DEF add_node
    <3> QED BY <1>3, <2>1, <3>2
  <2>3. i \in 0..3 /\ k \in 0..(TIME_LEVEL - 1)
    BY <1>2, <1>5
  <2>4. b[i][k] \in Seq(Nodes) /\ Append(b[i][k], n) \in Seq(Nodes)
        /\ b[i] \in [0..(TIME_LEVEL - 1) -> Seq(Nodes)]
    <3>1. b[i] \in [0..(TIME_LEVEL - 1) -> Seq(Nodes)]
      BY <1>3, <2>3
    <3>2. b[i][k] \in Seq(Nodes)
      BY <2>3, <3>1
    <3> QED BY <3>1, <3>2, Linked
  <2>5. [b[i] EXCEPT ![k] = Append(b[i][k], n)]
          \in [0..(TIME_LEVEL - 1) -> Seq(Nodes)]
    BY <2>4
  <2>6. c \in [0..3 -> [0..(TIME_LEVEL - 1) -> Seq(Nodes)]]
    BY <1>3, <2>1, <2>5
  <2>7. ASSUME NEW p \in Slots
        PROVE  list([near |-> a, t |-> c], p) =
                 IF p = <<i, k>> THEN Append(list(w, p), n) ELSE list(w, p)
    <3>1. PICK x, y : p = <<x, y>>
      BY SlotParts
    <3>2. (x # NEAR => x \in 0..3 /\ y \in 0..(TIME_LEVEL - 1))
          /\ (p = <<i, k>> <=> x = i /\ y = k)
      BY <3>1, SlotParts
    <3>3. x # NEAR => c[x][y] = IF x = i /\ y = k THEN Append(b[x][y], n)
                                ELSE b[x][y]
      <4>1. CASE x = i
        BY <1>3, <2>1, <2>3, <2>4, <3>2, <4>1
      <4>2. CASE x # i
        BY <1>3, <2>1, <3>2, <4>2
      <4> QED BY <4>1, <4>2
    <3> QED BY <1>3, <1>5, <3>1, <3>2, <3>3 DEF list
  <2> QED BY <1>1, <1>3, <2>2, <2>6, <2>7 DEF Wheels
<1> QED BY <1>4, <1>5

(* move_list starts with its slot cleared.                                 *)
cleared(s) == [near |-> near, t |-> [t EXCEPT ![s[1]][s[2]] = <<>>]]

(* It empties that slot and no other.                                      *)
LEMMA Clears ==
  ASSUME wheel \in Wheels, NEW s \in Slots, s[1] # NEAR
  PROVE  /\ cleared(s) \in Wheels
         /\ \A p \in Slots :
              list(cleared(s), p) = IF p = s THEN <<>> ELSE list(wheel, p)
<1>1. PICK i, k : s = <<i, k>>
  BY SlotParts
<1>2. i \in 0..3 /\ k \in 0..(TIME_LEVEL - 1)
  BY <1>1, SlotParts
<1>3. /\ near \in [0..(TIME_NEAR - 1) -> Seq(Nodes)]
      /\ t \in [0..3 -> [0..(TIME_LEVEL - 1) -> Seq(Nodes)]]
  BY DEF Wheels, wheel
<1>4. PICK c : c = [t EXCEPT ![i] = [t[i] EXCEPT ![k] = <<>>]]
  OBVIOUS
<1>5. cleared(s) = [near |-> near, t |-> c]
  BY <1>1, <1>4 DEF cleared
<1>6. t[i] \in [0..(TIME_LEVEL - 1) -> Seq(Nodes)]
  BY <1>2, <1>3
<1>7. [t[i] EXCEPT ![k] = <<>>] \in [0..(TIME_LEVEL - 1) -> Seq(Nodes)]
  BY <1>6, EmptyList
<1>8. c \in [0..3 -> [0..(TIME_LEVEL - 1) -> Seq(Nodes)]]
  BY <1>3, <1>4, <1>7
<1>9. ASSUME NEW p \in Slots
      PROVE  list([near |-> near, t |-> c], p) =
               IF p = <<i, k>> THEN <<>> ELSE list(wheel, p)
  <2>1. PICK x, y : p = <<x, y>>
    BY SlotParts
  <2>2. (x # NEAR => x \in 0..3 /\ y \in 0..(TIME_LEVEL - 1))
        /\ (p = <<i, k>> <=> x = i /\ y = k)
    BY <2>1, SlotParts
  <2>3. x # NEAR => c[x][y] = IF x = i /\ y = k THEN <<>> ELSE t[x][y]
    <3>1. CASE x = i
      BY <1>2, <1>3, <1>4, <1>6, <2>2, <3>1
    <3>2. CASE x # i
      BY <1>3, <1>4, <2>2, <3>2
    <3> QED BY <3>1, <3>2
  <2>4. list([near |-> near, t |-> c], p) =
          IF x = NEAR THEN near[y] ELSE c[x][y]
    BY <2>1 DEF list
  <2>5. list(wheel, p) = IF x = NEAR THEN near[y] ELSE t[x][y]
    BY <2>1 DEF list, wheel
  <2>6. i # NEAR
    BY <1>1
  <2>7. CASE x = NEAR
    <3>1. p # <<i, k>>
      BY <2>2, <2>6, <2>7
    <3> QED BY <2>4, <2>5, <2>7, <3>1
  <2>8. CASE x # NEAR
    <3>1. CASE x = i /\ y = k
      <4>1. p = <<i, k>>
        BY <2>2, <3>1
      <4> QED BY <2>3, <2>4, <2>8, <3>1, <4>1
    <3>2. CASE ~ (x = i /\ y = k)
      <4>1. p # <<i, k>>
        BY <2>2, <3>2
      <4> QED BY <2>3, <2>4, <2>5, <2>8, <3>2, <4>1
    <3> QED BY <3>1, <3>2
  <2> QED BY <2>7, <2>8
<1>10. cleared(s) \in Wheels
  BY <1>3, <1>5, <1>8 DEF Wheels
<1>11. ASSUME NEW p \in Slots
       PROVE  list(cleared(s), p) = IF p = s THEN <<>> ELSE list(wheel, p)
  <2>1. list(cleared(s), p) = list([near |-> near, t |-> c], p)
    BY <1>5
  <2>2. p = s <=> p = <<i, k>>
    BY <1>1
  <2> QED BY <1>9, <2>1, <2>2
<1> QED BY <1>10, <1>11

-----------------------------------------------------------------------------
(* move_list. Its loop after k nodes, as a function of k.                  *)
more(f, s, now, k) ==
  IF k = 0 THEN cleared(s)
  ELSE add_node(f[k - 1], t[s[1]][s[2]][k], expire[t[s[1]][s[2]][k]], now)
Moves(f, s, now) == f = [k \in 0..Len(t[s[1]][s[2]]) |-> more(f, s, now, k)]
moving(s, now) == CHOOSE f : Moves(f, s, now)

(* There is such a function.                                               *)
LEMMA MovingExists ==
  ASSUME NEW s, t[s[1]][s[2]] \in Seq(Nodes), NEW now
  PROVE  \E f : Moves(f, s, now)
<1>1. PICK z \in Nat : z = Len(t[s[1]][s[2]])
  OBVIOUS
<1> DEFINE Good(f, k) == /\ f = [i \in 0..z |-> f[i]]
                         /\ \A i \in 0..k : f[i] = more(f, s, now, i)
           G == {k \in Nat : \E f : Good(f, k)}
<1>2. 0 \in G
  <2>1. PICK f : f = [i \in 0..z |-> cleared(s)]
    OBVIOUS
  <2>2. f[0] = cleared(s) /\ \A i \in 0..0 : i = 0
    BY <2>1
  <2>3. Good(f, 0)
    BY <2>1, <2>2 DEF more
  <2> HIDE DEF Good
  <2> QED BY <2>3
<1>3. ASSUME NEW k \in 0..(z - 1), k \in G PROVE k + 1 \in G
  <2>1. PICK f : Good(f, k)
    BY <1>3
  <2>2. PICK g : g = [i \in 0..z |->
                        IF i = k + 1 THEN more(f, s, now, i) ELSE f[i]]
    OBVIOUS
  <2>3. g = [i \in 0..z |-> g[i]]
    BY <2>2
  <2>4. (\A i \in 0..k : g[i] = f[i]) /\ g[k + 1] = more(f, s, now, k + 1)
    <3>1. \A i \in 0..k : i \in 0..z /\ i # k + 1
      BY <1>1
    <3>2. k + 1 \in 0..z
      BY <1>1
    <3> QED BY <2>2, <3>1, <3>2
  <2>5. ASSUME NEW i \in 0..(k + 1) PROVE g[i] = more(g, s, now, i)
    <3>1. CASE i \in 0..k
      <4>1. i = 0 \/ i - 1 \in 0..k
        BY <3>1
      <4>2. more(g, s, now, i) = more(f, s, now, i)
        BY <2>4, <4>1 DEF more
      <4> QED BY <2>1, <2>4, <3>1, <4>2
    <3>2. CASE i = k + 1
      <4>1. i - 1 = k /\ k \in 0..k
        BY <3>2
      <4>2. more(g, s, now, i) = more(f, s, now, i)
        BY <2>4, <4>1 DEF more
      <4> QED BY <2>4, <3>2, <4>1, <4>2
    <3> QED BY <3>1, <3>2
  <2>6. Good(g, k + 1)
    BY <2>3, <2>5
  <2>7. k + 1 \in Nat
    OBVIOUS
  <2> HIDE DEF Good
  <2> QED BY <2>6, <2>7
<1>4. 0..z \subseteq G
  <2> HIDE DEF G
  <2> QED BY <1>1, <1>2, <1>3, InductionTo
<1>5. PICK f : Good(f, z)
  <2>1. z \in 0..z
    BY <1>1
  <2> QED BY <1>4, <2>1
<1>6. f = [i \in 0..z |-> more(f, s, now, i)]
  BY <1>5
<1> QED BY <1>1, <1>6 DEF Moves

(* What the lists of wheel w have from those of wheel c and from the first *)
(* k nodes of list l, each linked to its place in turn.                    *)
Merged(c, w, l, k, now) ==
  /\ w \in Wheels
  /\ \A p \in Slots :
       /\ \A x \in Listed(list(w, p)) :
            x \in Listed(list(c, p))
            \/ \E i \in 1..k : x = l[i] /\ place(expire[x], now) = p
       /\ Listed(list(c, p)) \subseteq Listed(list(w, p))
       /\ \A i \in 1..k : place(expire[l[i]], now) = p =>
            l[i] \in Listed(list(w, p))
       /\ \A x, y : Before(list(w, p), x, y) =>
            \/ Before(list(c, p), x, y)
            \/ \E i, j \in 1..k : i < j /\ x = l[i] /\ y = l[j]
            \/ x \in Listed(list(c, p)) /\ \E j \in 1..k : y = l[j]

(* One more node of the list is linked.                                    *)
LEMMA MergeOne ==
  ASSUME NEW c, NEW w, NEW l \in Seq(Nodes), NEW k \in 0..(Len(l) - 1),
         NEW now, Merged(c, w, l, k, now),
         place(expire[l[k + 1]], now) \in Slots
  PROVE  Merged(c, add_node(w, l[k + 1], expire[l[k + 1]], now), l, k + 1, now)
<1>1. PICK n \in Nodes : n = l[k + 1]
  <2>1. k + 1 \in 1..Len(l)
    OBVIOUS
  <2> QED BY <2>1
<1>2. PICK q \in Slots : q = place(expire[n], now)
  BY <1>1
<1>3. PICK u : u = add_node(w, n, expire[n], now)
  OBVIOUS
<1>4. w \in Wheels
  BY DEF Merged
<1>5. u \in Wheels /\ \A p \in Slots :
        list(u, p) = IF p = q THEN Append(list(w, p), n) ELSE list(w, p)
  <2>0. PICK e : e = expire[n]
    OBVIOUS
  <2>1. place(e, now) \in Slots
    BY <1>2, <2>0
  <2>2. add_node(w, n, e, now) \in Wheels
    BY <1>4, <2>1, AddNode
  <2>3. \A p \in Slots : list(add_node(w, n, e, now), p) =
          IF p = place(e, now) THEN Append(list(w, p), n) ELSE list(w, p)
    BY <1>4, <2>1, AddNode
  <2> QED BY <1>2, <1>3, <2>0, <2>2, <2>3
<1>6. \A i \in 1..k : i \in 1..(k + 1)
  OBVIOUS
<1>7. k + 1 \in 1..(k + 1) /\ \A i \in 1..k : i < k + 1
  OBVIOUS
<1>8. ASSUME NEW p \in Slots
      PROVE  /\ \A x \in Listed(list(u, p)) :
                  x \in Listed(list(c, p))
                  \/ \E i \in 1..(k + 1) :
                       x = l[i] /\ place(expire[x], now) = p
             /\ Listed(list(c, p)) \subseteq Listed(list(u, p))
             /\ \A i \in 1..(k + 1) : place(expire[l[i]], now) = p =>
                  l[i] \in Listed(list(u, p))
             /\ \A x, y : Before(list(u, p), x, y) =>
                  \/ Before(list(c, p), x, y)
                  \/ \E i, j \in 1..(k + 1) : i < j /\ x = l[i] /\ y = l[j]
                  \/ x \in Listed(list(c, p))
                     /\ \E j \in 1..(k + 1) : y = l[j]
  <2>1. /\ \A x \in Listed(list(w, p)) :
             x \in Listed(list(c, p))
             \/ \E i \in 1..k : x = l[i] /\ place(expire[x], now) = p
        /\ Listed(list(c, p)) \subseteq Listed(list(w, p))
        /\ \A i \in 1..k : place(expire[l[i]], now) = p =>
             l[i] \in Listed(list(w, p))
        /\ \A x, y : Before(list(w, p), x, y) =>
             \/ Before(list(c, p), x, y)
             \/ \E i, j \in 1..k : i < j /\ x = l[i] /\ y = l[j]
             \/ x \in Listed(list(c, p)) /\ \E j \in 1..k : y = l[j]
    BY DEF Merged
  <2>2. CASE p # q
    <3>1. list(u, p) = list(w, p)
      BY <1>5, <2>2
    <3>2. ASSUME NEW i \in 1..(k + 1), place(expire[l[i]], now) = p
          PROVE  l[i] \in Listed(list(w, p))
      <4>1. i # k + 1
        BY <1>1, <1>2, <2>2, <3>2
      <4>2. i \in 1..k
        BY <4>1
      <4> QED BY <2>1, <3>2, <4>2
    <3> QED BY <1>6, <2>1, <3>1, <3>2
  <2>3. CASE p = q
    <3>1. list(u, p) = Append(list(w, p), n) /\ list(w, p) \in Seq(Nodes)
      BY <1>4, <1>5, <2>3, ListType
    <3>2. /\ Listed(list(u, p)) = Listed(list(w, p)) \cup {n}
          /\ \A x, y : Before(list(u, p), x, y) <=>
               Before(list(w, p), x, y) \/ (x \in Listed(list(w, p)) /\ y = n)
      BY <3>1, Linked
    <3>3. ASSUME NEW x \in Listed(list(u, p))
          PROVE  x \in Listed(list(c, p))
                 \/ \E i \in 1..(k + 1) :
                      x = l[i] /\ place(expire[x], now) = p
      <4>1. CASE x = n
        BY <1>1, <1>2, <1>7, <2>3, <4>1
      <4>2. CASE x \in Listed(list(w, p))
        BY <1>6, <2>1, <4>2
      <4> QED BY <3>2, <4>1, <4>2
    <3>4. ASSUME NEW i \in 1..(k + 1), place(expire[l[i]], now) = p
          PROVE  l[i] \in Listed(list(u, p))
      <4>1. i \in 1..k \/ i = k + 1
        OBVIOUS
      <4> QED BY <1>1, <2>1, <3>2, <3>4, <4>1
    <3>5. ASSUME NEW x, NEW y, Before(list(u, p), x, y)
          PROVE  \/ Before(list(c, p), x, y)
                 \/ \E i, j \in 1..(k + 1) : i < j /\ x = l[i] /\ y = l[j]
                 \/ x \in Listed(list(c, p))
                    /\ \E j \in 1..(k + 1) : y = l[j]
      <4>1. CASE Before(list(w, p), x, y)
        BY <1>6, <2>1, <4>1
      <4>2. CASE x \in Listed(list(w, p)) /\ y = n
        <5>1. CASE x \in Listed(list(c, p))
          BY <1>1, <1>7, <4>2, <5>1
        <5>2. CASE x \notin Listed(list(c, p))
          <6>1. PICK i \in 1..k : x = l[i]
            BY <2>1, <4>2, <5>2
          <6>2. i \in 1..(k + 1) /\ i < k + 1 /\ y = l[k + 1]
            BY <1>1, <1>6, <1>7, <4>2
          <6> QED BY <1>7, <6>1, <6>2
        <5> QED BY <5>1, <5>2
      <4> QED BY <3>2, <3>5, <4>1, <4>2
    <3>6. Listed(list(c, p)) \subseteq Listed(list(u, p))
      BY <2>1, <3>2
    <3> QED BY <3>3, <3>4, <3>5, <3>6
  <2> QED BY <2>2, <2>3
<1> QED BY <1>1, <1>3, <1>5, <1>8 DEF Merged

(* The wheel after move_list.                                              *)
LEMMA MoveList ==
  ASSUME wheel \in Wheels, NEW s \in Slots, s[1] # NEAR, NEW now,
         \A n \in Nodes : place(expire[n], now) \in Slots
  PROVE  Merged(cleared(s), move_list(s, now), list(wheel, s),
                Len(list(wheel, s)), now)
<1>1. PICK l \in Seq(Nodes) : l = list(wheel, s) /\ l = t[s[1]][s[2]]
  <2>1. list(wheel, s) = t[s[1]][s[2]]
    BY DEF list, wheel
  <2> QED BY <2>1, ListType
<1>2. PICK z \in Nat : z = Len(l)
  OBVIOUS
<1>3. PICK f : f = moving(s, now)
  OBVIOUS
<1>4. f = [k \in 0..z |-> more(f, s, now, k)]
  <2>0. t[s[1]][s[2]] \in Seq(Nodes)
    BY <1>1
  <2>1. \E g : Moves(g, s, now)
    BY <2>0, MovingExists
  <2>2. Moves(f, s, now)
    BY <1>3, <2>1 DEF moving
  <2> QED BY <1>1, <1>2, <2>2 DEF Moves
<1>5. move_list(s, now) = f[z]
  BY <1>1, <1>2, <1>3 DEF move_list, moving, Moves, more, cleared
<1> DEFINE G == {k \in Nat : k <= z => Merged(cleared(s), f[k], l, k, now)}
<1>6. 0 \in G
  <2>1. f[0] = cleared(s)
    BY <1>4 DEF more
  <2>2. cleared(s) \in Wheels
    BY Clears
  <2>3. 1..0 = {}
    OBVIOUS
  <2>4. Merged(cleared(s), f[0], l, 0, now)
    BY <2>1, <2>2, <2>3 DEF Merged
  <2> QED BY <2>4
<1>7. ASSUME NEW k \in 0..(z - 1), k \in G PROVE k + 1 \in G
  <2>1. Merged(cleared(s), f[k], l, k, now)
    BY <1>2, <1>7
  <2>2. k + 1 \in 0..z /\ k + 1 # 0 /\ (k + 1) - 1 = k /\ k + 1 \in 1..Len(l)
        /\ k \in 0..(Len(l) - 1)
    BY <1>2
  <2>3. f[k + 1] = add_node(f[k], l[k + 1], expire[l[k + 1]], now)
    BY <1>1, <1>4, <2>2 DEF more
  <2>4. l[k + 1] \in Nodes
    BY <2>2
  <2>5. Merged(cleared(s), f[k + 1], l, k + 1, now)
    BY <2>1, <2>2, <2>3, <2>4, MergeOne
  <2>6. k + 1 \in Nat
    OBVIOUS
  <2> QED BY <2>5, <2>6
<1>8. 0..z \subseteq G
  <2> HIDE DEF G
  <2> QED BY <1>2, <1>6, <1>7, InductionTo
<1>9. Merged(cleared(s), f[z], l, z, now)
  BY <1>2, <1>8
<1> QED BY <1>1, <1>2, <1>5, <1>9

-----------------------------------------------------------------------------
(* The inductive invariant. A pending node is due in as many ticks as are  *)
(* left until its expire, which is less than half a turn of time away; ... *)
DueInv ==
  \A n \in Pending : /\ due[n] \in Nat /\ 2 * due[n] < Wrap
                     /\ expire[n] = (time + due[n]) % Wrap

(* ... the nodes on the wheel are pending ones, each in its place, ...     *)
PlaceInv ==
  \A p \in Slots : \A n \in Listed(list(wheel, p)) :
    n \in Pending /\ place(expire[n], time) = p

(* ... and a pending node that is not there is being dispatched;           *)
WhereInv ==
  \A n \in Pending : \/ n \in Listed(current)
                     \/ n \in Listed(list(wheel, place(expire[n], time)))

(* in each list, those that are due together are in the order they were    *)
(* added;                                                                  *)
Ordered(l) ==
  \A x, y : Before(l, x, y) /\ due[x] = due[y] => Before(pending, x, y)
OrderInv == Ordered(current) /\ \A p \in Slots : Ordered(list(wheel, p))

(* what is dispatched is due, and all that is;                             *)
CurInv ==
  /\ \A n \in Listed(current) : n \in Pending /\ due[n] = 0
  /\ current # <<>> =>
       \A p \in Slots : \A n \in Listed(list(wheel, p)) : due[n] # 0

(* no node is pending twice; the lock is not kept during the dispatch; and *)
(* the thread sleeps when nothing is due.                                  *)
CtlInv ==
  /\ \A x : ~ Before(pending, x, x)
  /\ lock => current = <<>>
  /\ pc = "sleep" => current = <<>> /\ ~ lock /\ \A n \in Pending : due[n] # 0

IInv == /\ TimerTypeOK /\ PlaceInv /\ WhereInv /\ DueInv /\ OrderInv
        /\ CurInv /\ CtlInv

(* What the type says of the wheel.                                        *)
LEMMA WheelType ==
  ASSUME TimerTypeOK
  PROVE  wheel \in Wheels /\ \A p \in Slots : list(wheel, p) \in Seq(Nodes)
<1>1. wheel \in Wheels
  BY DEF TimerTypeOK, Wheels, wheel
<1> QED BY <1>1, ListType

(* A wheel as add_node and move_list return it becomes that of the next    *)
(* state.                                                                  *)
LEMMA NextWheel ==
  ASSUME NEW w \in Wheels, near' = w.near, t' = w.t
  PROVE  wheel' = w
<1>1. PICK a, b : w = [near |-> a, t |-> b]
  BY DEF Wheels
<1> QED BY <1>1 DEF wheel

(* The two parts of a wheel.                                               *)
LEMMA WheelParts ==
  ASSUME NEW w \in Wheels
  PROVE  /\ w.near \in [0..(TIME_NEAR - 1) -> Seq(Nodes)]
         /\ w.t \in [0..3 -> [0..(TIME_LEVEL - 1) -> Seq(Nodes)]]
BY DEF Wheels

(* Lists are lists of nodes.                                               *)
LEMMA PendingType ==
  ASSUME TimerTypeOK
  PROVE  Pending \subseteq Nodes /\ Listed(current) \subseteq Nodes
<1>1. ASSUME NEW s \in Seq(Nodes) PROVE Listed(s) \subseteq Nodes
  BY DEF Listed
<1> QED BY <1>1 DEF TimerTypeOK, Pending

(* A list without the first of the elements that is h.                     *)
LEMMA Dropped ==
  ASSUME NEW S, NEW s \in Seq(S), NEW h \in Listed(s),
         \A x : ~ Before(s, x, x)
  PROVE  /\ RemoveFirst(s, h) \in Seq(S)
         /\ Listed(RemoveFirst(s, h)) = Listed(s) \ {h}
         /\ \A x, y : Before(RemoveFirst(s, h), x, y) <=>
                        Before(s, x, y) /\ x # h /\ y # h
<1>1. PICK z \in Nat : z = Len(s) /\ DOMAIN s = 1..z
  OBVIOUS
<1>2. PICK m \in 1..z : s[m] = h
  BY <1>1 DEF Listed
<1>3. ASSUME NEW i \in 1..z, NEW j \in 1..z, s[i] = s[j] PROVE i = j
  <2>1. i < j \/ j < i \/ i = j
    OBVIOUS
  <2> QED BY <1>1, <1>3, <2>1 DEF Before
<1>4. {i \in 1..Len(s) : s[i] = h} = {m}
  BY <1>1, <1>2, <1>3
<1>5. RemoveFirst(s, h) = RemoveAt(s, m)
  <2>1. Min({m}) = m
    BY DEF Min
  <2>2. {m} # {}
    OBVIOUS
  <2>3. SelectInSeq(s, LAMBDA v : v = h) = m
    BY <1>4, <2>1, <2>2, Zenon DEF SelectInSeq
  <2>4. \E i \in 1..Len(s) : s[i] = h
    BY <1>1, <1>2
  <2> QED BY <2>3, <2>4, Zenon DEF RemoveFirst
<1>6. PICK r : r = RemoveAt(s, m)
  OBVIOUS
<1>7. PICK a : a = SubSeq(s, 1, m - 1)
  OBVIOUS
<1>8. PICK b : b = SubSeq(s, m + 1, z)
  OBVIOUS
<1>9. a \in Seq(S) /\ Len(a) = m - 1 /\ \A i \in 1..(m - 1) : a[i] = s[i]
  BY <1>1, <1>7, SubSeqProperties
<1>10. b \in Seq(S) /\ Len(b) = z - m /\ \A i \in 1..(z - m) : b[i] = s[m + i]
  BY <1>1, <1>8, SubSeqProperties
<1>11. r = a \o b
  BY <1>1, <1>6, <1>7, <1>8 DEF RemoveAt
<1>12. r \in Seq(S) /\ Len(r) = z - 1
       /\ \A i \in 1..(z - 1) : r[i] = IF i < m THEN s[i] ELSE s[i + 1]
  <2>1. r \in Seq(S) /\ Len(r) = z - 1
    <3>1. r \in Seq(S) /\ Len(r) = Len(a) + Len(b)
      BY <1>9, <1>10, <1>11, ConcatProperties
    <3>2. Len(r) = (m - 1) + (z - m)
      BY <1>9, <1>10, <3>1
    <3> QED BY <3>1, <3>2
  <2>2. ASSUME NEW i \in 1..(z - 1)
        PROVE  r[i] = IF i < m THEN s[i] ELSE s[i + 1]
    <3>1. CASE i < m
      BY <1>9, <1>10, <1>11, <3>1
    <3>2. CASE ~ (i < m)
      <4>1. i - (m - 1) \in 1..(z - m) /\ m + (i - (m - 1)) = i + 1
        BY <3>2
      <4>2. r[i] = b[i - (m - 1)]
        BY <1>9, <1>10, <1>11, <3>2
      <4> QED BY <1>10, <3>2, <4>1, <4>2
    <3> QED BY <3>1, <3>2
  <2> QED BY <2>1, <2>2
<1>13. DOMAIN r = 1..(z - 1)
  BY <1>12
<1>14. ASSUME NEW x, x # h, NEW i \in 1..z, s[i] = x
       PROVE  \E k \in 1..(z - 1) : r[k] = x /\ k = IF i < m THEN i ELSE i - 1
  <2>1. i # m
    BY <1>2, <1>14
  <2>2. PICK k : k = IF i < m THEN i ELSE i - 1
    OBVIOUS
  <2>3. k \in 1..(z - 1) /\ (k < m <=> i < m) /\ (~ (i < m) => k + 1 = i)
    BY <2>1, <2>2
  <2> QED BY <1>12, <1>14, <2>2, <2>3
<1>15. ASSUME NEW k \in 1..(z - 1)
       PROVE  \E i \in 1..z : /\ s[i] = r[k] /\ r[k] # h
                              /\ i = IF k < m THEN k ELSE k + 1
  <2>1. PICK i : i = IF k < m THEN k ELSE k + 1
    OBVIOUS
  <2>2. i \in 1..z /\ i # m
    BY <2>1
  <2>3. r[k] = s[i]
    BY <1>12, <2>1
  <2> QED BY <1>2, <1>3, <2>1, <2>2, <2>3
<1>16. Listed(r) = Listed(s) \ {h}
  <2>1. ASSUME NEW x \in Listed(r) PROVE x \in Listed(s) \ {h}
    <3>1. PICK k \in 1..(z - 1) : x = r[k]
      BY <1>12 DEF Listed
    <3> QED BY <1>1, <1>15, <3>1 DEF Listed
  <2>2. ASSUME NEW x \in Listed(s) \ {h} PROVE x \in Listed(r)
    <3>1. PICK i \in 1..z : x = s[i]
      BY <1>1 DEF Listed
    <3>2. PICK k \in 1..(z - 1) : r[k] = x
      BY <1>14, <3>1
    <3> QED BY <1>12, <3>2 DEF Listed
  <2> QED BY <2>1, <2>2
<1>17. ASSUME NEW x, NEW y, Before(r, x, y)
       PROVE  Before(s, x, y) /\ x # h /\ y # h
  <2>1. PICK i \in 1..(z - 1), j \in 1..(z - 1) :
          i < j /\ r[i] = x /\ r[j] = y
    BY <1>13, <1>17 DEF Before
  <2>2. PICK c \in 1..z : s[c] = x /\ x # h /\ c = IF i < m THEN i ELSE i + 1
    BY <1>15, <2>1
  <2>3. PICK d \in 1..z : s[d] = y /\ y # h /\ d = IF j < m THEN j ELSE j + 1
    BY <1>15, <2>1
  <2>4. c < d
    BY <2>1, <2>2, <2>3
  <2> QED BY <1>1, <2>2, <2>3, <2>4 DEF Before
<1>18. ASSUME NEW x, NEW y, Before(s, x, y), x # h, y # h
       PROVE  Before(r, x, y)
  <2>1. PICK i \in 1..z, j \in 1..z : i < j /\ s[i] = x /\ s[j] = y
    BY <1>1, <1>18 DEF Before
  <2>2. PICK c \in 1..(z - 1) : r[c] = x /\ c = IF i < m THEN i ELSE i - 1
    BY <1>14, <1>18, <2>1
  <2>3. PICK d \in 1..(z - 1) : r[d] = y /\ d = IF j < m THEN j ELSE j - 1
    BY <1>14, <1>18, <2>1
  <2>4. i # m /\ j # m
    BY <1>2, <1>18, <2>1
  <2>5. c < d
    BY <2>1, <2>2, <2>3, <2>4
  <2> QED BY <1>13, <2>2, <2>3, <2>5 DEF Before
<1> QED BY <1>5, <1>6, <1>12, <1>16, <1>17, <1>18

(* A list without its head.                                                *)
LEMMA TailList ==
  ASSUME NEW S, NEW s \in Seq(S), s # <<>>
  PROVE  /\ Tail(s) \in Seq(S) /\ Head(s) \in Listed(s)
         /\ Listed(s) = Listed(Tail(s)) \cup {Head(s)}
         /\ \A x, y : Before(Tail(s), x, y) => Before(s, x, y)
         /\ \A x \in Listed(Tail(s)) : Before(s, Head(s), x)
<1>1. PICK z \in Nat : z = Len(s) /\ DOMAIN s = 1..z /\ z # 0
  OBVIOUS
<1>2. PICK r : r = Tail(s)
  OBVIOUS
<1>3. r \in Seq(S) /\ Len(r) = z - 1 /\ DOMAIN r = 1..(z - 1)
      /\ \A i \in 1..(z - 1) : r[i] = s[i + 1]
  BY <1>1, <1>2
<1>4. Head(s) = s[1] /\ 1 \in 1..z
  BY <1>1
<1>5. \A i \in 1..(z - 1) : i + 1 \in 1..z /\ 1 < i + 1
  BY <1>1
<1>6. ASSUME NEW x \in Listed(s) PROVE x \in Listed(r) \cup {s[1]}
  <2>1. PICK i \in 1..z : x = s[i]
    BY <1>1 DEF Listed
  <2>2. i = 1 \/ (i - 1 \in 1..(z - 1) /\ (i - 1) + 1 = i)
    OBVIOUS
  <2> QED BY <1>3, <2>1, <2>2 DEF Listed
<1>7. ASSUME NEW x \in Listed(r) PROVE x \in Listed(s) /\ Before(s, s[1], x)
  <2>1. PICK i \in 1..(z - 1) : x = r[i]
    BY <1>3 DEF Listed
  <2>2. i + 1 \in 1..z /\ x = s[i + 1]
    BY <1>3, <1>5, <2>1
  <2> QED BY <1>1, <1>4, <1>5, <2>1, <2>2 DEF Listed, Before
<1>8. s[1] \in Listed(s)
  BY <1>1, <1>4 DEF Listed
<1>9. ASSUME NEW x, NEW y, Before(r, x, y) PROVE Before(s, x, y)
  <2>1. PICK i \in 1..(z - 1), j \in 1..(z - 1) :
          i < j /\ r[i] = x /\ r[j] = y
    BY <1>3, <1>9 DEF Before
  <2>2. i + 1 < j + 1
    BY <2>1
  <2> QED BY <1>1, <1>3, <1>5, <2>1, <2>2 DEF Before
<1> QED BY <1>2, <1>3, <1>4, <1>6, <1>7, <1>8, <1>9

-----------------------------------------------------------------------------
(* timer_create_timer: an empty wheel.                                     *)
LEMMA InitStep == TimerInit => IInv
<1> SUFFICES ASSUME TimerInit PROVE IInv
  OBVIOUS
<1>1. Wrap \in Nat \ {0}
  BY Spans
<1>2. TimerTypeOK
  <2>1. 0 \in 0..(Wrap - 1) /\ 0 \in 0..(Wrap \div 2)
    BY <1>1
  <2>2. /\ near \in [0..(TIME_NEAR - 1) -> Seq(Nodes)]
        /\ t \in [0..3 -> [0..(TIME_LEVEL - 1) -> Seq(Nodes)]]
        /\ current \in Seq(Nodes) /\ pending \in Seq(Nodes)
    BY EmptyList DEF TimerInit
  <2> QED BY <2>1, <2>2 DEF TimerInit, TimerTypeOK
<1>3. Pending = {} /\ Listed(current) = {} /\ \A x, y : ~ Before(pending, x, y)
  BY EmptyList DEF TimerInit, Pending
<1>4. ASSUME NEW p \in Slots PROVE list(wheel, p) = <<>>
  <2>1. CASE p[1] = NEAR
    BY <2>1, SlotParts DEF list, wheel, TimerInit
  <2>2. CASE p[1] # NEAR
    <3>1. p[1] \in 0..3 /\ p[2] \in 0..(TIME_LEVEL - 1)
      BY <2>2, SlotParts
    <3> QED BY <2>2, <3>1 DEF list, wheel, TimerInit
  <2> QED BY <2>1, <2>2
<1>5. \A p \in Slots : Listed(list(wheel, p)) = {}
                       /\ \A x, y : ~ Before(list(wheel, p), x, y)
  BY <1>4, EmptyList
<1>6. current = <<>> /\ ~ lock /\ \A x, y : ~ Before(current, x, y)
  BY EmptyList DEF TimerInit
<1>7. PlaceInv /\ WhereInv /\ DueInv
  BY <1>3, <1>5 DEF PlaceInv, WhereInv, DueInv
<1>8. OrderInv /\ CurInv /\ CtlInv
  BY <1>3, <1>5, <1>6 DEF OrderInv, Ordered, CurInv, CtlInv
<1> QED BY <1>2, <1>7, <1>8 DEF IInv

(* A step that leaves time, the wheel and the lists as they are.           *)
LEMMA StillStep ==
  ASSUME IInv, UNCHANGED <<time, near, t, expire, current, pending, due>>,
         lock' \in BOOLEAN, pc' \in {"sleep", "early", "late"},
         lock' => current = <<>>,
         pc' = "sleep" => /\ current = <<>> /\ ~ lock'
                          /\ \A n \in Pending : due[n] # 0
  PROVE  IInv'
<1>1. wheel' = wheel /\ Pending' = Pending
  BY DEF wheel, Pending
<1>2. TimerTypeOK'
  BY DEF IInv, TimerTypeOK
<1>3. PlaceInv' /\ WhereInv' /\ DueInv'
  BY <1>1 DEF IInv, PlaceInv, WhereInv, DueInv
<1>4. OrderInv'
  BY <1>1 DEF IInv, OrderInv, Ordered
<1>5. CurInv' /\ CtlInv'
  BY <1>1 DEF IInv, CurInv, CtlInv
<1> QED BY <1>2, <1>3, <1>4, <1>5 DEF IInv

(* timer_update takes the lock, ...                                        *)
LEMMA UpdateStep == IInv /\ Update => IInv'
<1> SUFFICES ASSUME IInv, Update PROVE IInv'
  OBVIOUS
<1>1. current = <<>>
  BY DEF IInv, CtlInv, Update
<1> QED BY <1>1, StillStep DEF Update

(* ... again after a dispatch, ...                                         *)
LEMMA RelockStep == IInv /\ Relock => IInv'
<1> SUFFICES ASSUME IInv, Relock PROVE IInv'
  OBVIOUS
<1>1. lock' /\ pc' # "sleep" /\ pc' \in {"sleep", "early", "late"}
      /\ lock' \in BOOLEAN
  BY DEF IInv, TimerTypeOK, Relock
<1> QED BY <1>1, StillStep DEF Relock

(* Under the lock what is due is in the slot of the present.               *)
LEMMA DueIsNear ==
  ASSUME IInv, lock, NEW n \in Pending, due[n] = 0
  PROVE  near[time % TIME_NEAR] # <<>>
<1>1. Listed(current) = {}
  BY EmptyList DEF IInv, CtlInv
<1>2. place(expire[n], time) = <<NEAR, time % TIME_NEAR>>
  <2>1. time \in 0..(Wrap - 1)
    BY DEF IInv, TimerTypeOK
  <2>2. /\ due[n] \in Nat /\ 2 * due[n] < Wrap
        /\ expire[n] = (time + due[n]) % Wrap
    BY DEF IInv, DueInv
  <2> QED BY <2>1, <2>2, PlaceNow
<1>3. n \in Listed(list(wheel, <<NEAR, time % TIME_NEAR>>))
  BY <1>1, <1>2 DEF IInv, WhereInv
<1>4. list(wheel, <<NEAR, time % TIME_NEAR>>) = near[time % TIME_NEAR]
  BY DEF list, wheel
<1> QED BY <1>3, <1>4, EmptyList

(* ... and gives it up when the slot of the present is empty.              *)
LEMMA DoneStep == IInv /\ Done => IInv'
<1> SUFFICES ASSUME IInv, Done PROVE IInv'
  OBVIOUS
<1>1. /\ lock /\ lock' = FALSE /\ pc' = "sleep"
      /\ near[time % TIME_NEAR] = <<>>
      /\ UNCHANGED <<time, near, t, expire, current, pending, due>>
  BY DEF Done
<1>2. current = <<>>
  BY <1>1 DEF IInv, CtlInv
<1>3. \A n \in Pending : due[n] # 0
  BY <1>1, DueIsNear
<1> QED BY <1>1, <1>2, <1>3, StillStep

(* timer_execute cuts off the slot of the present: what is due.            *)
LEMMA TakeStep == IInv /\ Take => IInv'
<1> SUFFICES ASSUME IInv, Take PROVE IInv'
  OBVIOUS
<1>1. PICK q : q = <<NEAR, time % TIME_NEAR>>
  OBVIOUS
<1>2. /\ lock /\ lock' = FALSE
      /\ current' = near[time % TIME_NEAR] /\ current' # <<>>
      /\ near' = [near EXCEPT ![time % TIME_NEAR] = <<>>]
      /\ UNCHANGED <<time, t, expire, pc, pending, due>>
  BY DEF Take
<1>3. time \in 0..(Wrap - 1) /\ time % TIME_NEAR \in 0..(TIME_NEAR - 1)
  <2>1. time \in 0..(Wrap - 1) /\ Wrap \in Nat
    BY Spans DEF IInv, TimerTypeOK
  <2>2. time \in Nat /\ TIME_NEAR \in Nat \ {0}
    BY <2>1, Spans
  <2> QED BY <2>1, <2>2, Division
<1>4. q \in Slots /\ q[1] = NEAR /\ q[2] = time % TIME_NEAR
  BY <1>1, <1>3 DEF Slots
<1>5. current' = list(wheel, q)
  BY <1>2, <1>4 DEF list, wheel
<1>6. TimerTypeOK
  BY DEF IInv
<1>7. TimerTypeOK'
  <2>1. near' \in [0..(TIME_NEAR - 1) -> Seq(Nodes)]
    BY <1>2, <1>6, EmptyList DEF TimerTypeOK
  <2>2. current' \in Seq(Nodes)
    BY <1>4, <1>5, <1>6, WheelType
  <2> QED BY <1>2, <1>6, <2>1, <2>2 DEF TimerTypeOK
<1>8. ASSUME NEW p \in Slots
      PROVE  list(wheel', p) = IF p = q THEN <<>> ELSE list(wheel, p)
  <2>1. PICK x, y : p = <<x, y>>
    BY SlotParts
  <2>2. list(wheel', p) = IF x = NEAR THEN near'[y] ELSE t'[x][y]
    BY <2>1 DEF list, wheel
  <2>3. list(wheel, p) = IF x = NEAR THEN near[y] ELSE t[x][y]
    BY <2>1 DEF list, wheel
  <2>4. p = q <=> x = NEAR /\ y = time % TIME_NEAR
    BY <1>1, <2>1
  <2>5. x = NEAR => y \in 0..(TIME_NEAR - 1)
    BY <2>1, SlotParts
  <2>6. x = NEAR =>
          near'[y] = IF y = time % TIME_NEAR THEN <<>> ELSE near[y]
    BY <1>2, <1>6, <2>5 DEF TimerTypeOK
  <2> QED BY <1>2, <2>2, <2>3, <2>4, <2>6
<1>9. Pending' = Pending
  BY <1>2 DEF Pending
<1>10. ASSUME NEW n \in Pending
       PROVE  place(expire[n], time) = q <=> due[n] = 0
  <2>1. /\ due[n] \in Nat /\ 2 * due[n] < Wrap
        /\ expire[n] = (time + due[n]) % Wrap
    BY DEF IInv, DueInv
  <2> QED BY <1>1, <1>3, <2>1, PlaceNow
<1>11. \A p \in Slots : \A n \in Listed(list(wheel, p)) :
         n \in Pending /\ place(expire[n], time) = p
  BY DEF IInv, PlaceInv
<1>12. PlaceInv'
  BY <1>2, <1>8, <1>9, <1>11, EmptyList DEF PlaceInv
<1>13. current = <<>> /\ Listed(current) = {}
  BY <1>2, EmptyList DEF IInv, CtlInv
<1>14. WhereInv'
  <2> SUFFICES ASSUME NEW n \in Pending
               PROVE  \/ n \in Listed(current')
                      \/ n \in Listed(list(wheel', place(expire[n], time)))
    BY <1>2, <1>9 DEF WhereInv
  <2>1. n \in Listed(list(wheel, place(expire[n], time)))
    BY <1>13 DEF IInv, WhereInv
  <2>2. place(expire[n], time) \in Slots
    <3>1. expire[n] \in 0..(Wrap - 1)
      BY <1>6, PendingType DEF TimerTypeOK
    <3> QED BY <1>3, <3>1, PlaceInSlots
  <2> QED BY <1>5, <1>8, <2>1, <2>2
<1>15. DueInv'
  BY <1>2, <1>9 DEF IInv, DueInv
<1>16. OrderInv'
  <2>1. \A l : Ordered(l)' <=> Ordered(l)
    BY <1>2 DEF Ordered
  <2>2. \A p \in Slots : Ordered(list(wheel, p))
    BY DEF IInv, OrderInv
  <2>3. Ordered(<<>>)
    BY EmptyList DEF Ordered
  <2>4. \A x, y : Before(current', x, y) /\ due[x] = due[y]
                  => Before(pending, x, y)
    BY <1>4, <1>5, <2>2 DEF Ordered
  <2>5. \A p \in Slots : Ordered(list(wheel', p))
    BY <1>8, <2>2, <2>3
  <2> QED BY <1>2, <2>4, <2>5 DEF OrderInv, Ordered
<1>17. CurInv'
  <2>1. \A n \in Listed(current') : n \in Pending /\ due[n] = 0
    BY <1>4, <1>5, <1>10, <1>11
  <2>2. ASSUME NEW p \in Slots, NEW n \in Listed(list(wheel', p))
        PROVE  due[n] # 0
    <3>1. p # q /\ n \in Listed(list(wheel, p))
      BY <1>8, <2>2, EmptyList
    <3> QED BY <1>10, <1>11, <3>1
  <2> QED BY <1>2, <1>9, <2>1, <2>2 DEF CurInv
<1>18. CtlInv'
  BY <1>2, <1>9 DEF IInv, CtlInv
<1> QED BY <1>7, <1>12, <1>14, <1>15, <1>16, <1>17, <1>18 DEF IInv

(* dispatch_list sends a message for the first node of its list, which is  *)
(* then free.                                                              *)
LEMMA DispatchStep == IInv /\ Dispatch => IInv'
<1> SUFFICES ASSUME IInv, Dispatch PROVE IInv'
  OBVIOUS
<1>1. PICK h : h = Head(current)
  OBVIOUS
<1>2. /\ current # <<>> /\ current' = Tail(current)
      /\ pending' = RemoveFirst(pending, h)
      /\ expire' = [expire EXCEPT ![h] = 0]
      /\ due' = [due EXCEPT ![h] = 0]
      /\ UNCHANGED <<time, near, t, lock, pc>>
  BY <1>1 DEF Dispatch
<1>3. TimerTypeOK /\ current \in Seq(Nodes) /\ pending \in Seq(Nodes)
  BY DEF IInv, TimerTypeOK
<1>4. /\ current' \in Seq(Nodes) /\ h \in Listed(current)
      /\ Listed(current) = Listed(current') \cup {h}
      /\ \A x, y : Before(current', x, y) => Before(current, x, y)
      /\ \A x \in Listed(current') : Before(current, h, x)
  BY <1>1, <1>2, <1>3, TailList
<1>5. h \in Pending /\ h \in Listed(pending) /\ h \in Nodes /\ due[h] = 0
  BY <1>3, <1>4, PendingType DEF IInv, CurInv, Pending
<1>6. /\ pending' \in Seq(Nodes)
      /\ Listed(pending') = Listed(pending) \ {h}
      /\ \A x, y : Before(pending', x, y) <=>
                     Before(pending, x, y) /\ x # h /\ y # h
  <2>1. \A x : ~ Before(pending, x, x)
    BY DEF IInv, CtlInv
  <2> QED BY <1>2, <1>3, <1>5, <2>1, Dropped
<1>7. Pending' = Pending \ {h}
  BY <1>6 DEF Pending
<1>8. h \notin Listed(current')
  <2> SUFFICES ASSUME h \in Listed(current') PROVE FALSE
    OBVIOUS
  <2>1. Before(current, h, h)
    BY <1>4
  <2> QED BY <2>1 DEF IInv, OrderInv, Ordered, CtlInv
<1>9. wheel' = wheel
  BY <1>2 DEF wheel
<1>10. \A p \in Slots : \A n \in Listed(list(wheel, p)) : n # h /\ due[n] # 0
  BY <1>2, <1>5 DEF IInv, CurInv
<1>11. \A n \in Pending : n # h => due'[n] = due[n] /\ expire'[n] = expire[n]
  BY <1>2, <1>3, PendingType DEF TimerTypeOK
<1>12. TimerTypeOK'
  <2>1. 0 \in 0..(Wrap - 1) /\ 0 \in 0..(Wrap \div 2)
    BY Spans
  <2> QED BY <1>2, <1>3, <1>4, <1>6, <2>1 DEF TimerTypeOK
<1>13. \A p \in Slots : \A n \in Listed(list(wheel, p)) :
         n \in Pending /\ place(expire[n], time) = p
  BY DEF IInv, PlaceInv
<1>14. PlaceInv'
  BY <1>2, <1>7, <1>9, <1>10, <1>11, <1>13 DEF PlaceInv
<1>15. WhereInv'
  <2> SUFFICES ASSUME NEW n \in Pending, n # h
               PROVE  \/ n \in Listed(current')
                      \/ n \in Listed(list(wheel, place(expire[n], time)))
    BY <1>2, <1>7, <1>9, <1>11 DEF WhereInv
  <2> QED BY <1>4 DEF IInv, WhereInv
<1>16. DueInv'
  BY <1>2, <1>7, <1>11 DEF IInv, DueInv
<1>17. \A n \in Listed(current') : n \in Pending /\ n # h /\ due[n] = 0
  BY <1>4, <1>8 DEF IInv, CurInv
<1>18. OrderInv'
  <2>1. ASSUME NEW x, NEW y, Before(current', x, y), due'[x] = due'[y]
        PROVE  Before(pending', x, y)
    <3>1. x \in Listed(current') /\ y \in Listed(current')
      BY <1>4, <2>1, ListedBefore
    <3>2. Before(pending, x, y)
      BY <1>4, <1>17, <2>1, <3>1 DEF IInv, OrderInv, Ordered
    <3> QED BY <1>6, <1>17, <3>1, <3>2
  <2>2. ASSUME NEW p \in Slots, NEW x, NEW y, Before(list(wheel, p), x, y),
               due'[x] = due'[y]
        PROVE  Before(pending', x, y)
    <3>1. x \in Listed(list(wheel, p)) /\ y \in Listed(list(wheel, p))
      BY <1>3, <2>2, WheelType, ListedBefore
    <3>2. x # h /\ y # h /\ due[x] = due[y]
      BY <1>10, <1>11, <1>13, <2>2, <3>1
    <3>3. Before(pending, x, y)
      BY <2>2, <3>2 DEF IInv, OrderInv, Ordered
    <3> QED BY <1>6, <3>2, <3>3
  <2> QED BY <1>9, <2>1, <2>2 DEF OrderInv, Ordered
<1>19. CurInv'
  BY <1>7, <1>9, <1>10, <1>11, <1>13, <1>17 DEF CurInv
<1>20. CtlInv'
  BY <1>2, <1>6 DEF IInv, CtlInv
<1> QED BY <1>12, <1>14, <1>15, <1>16, <1>18, <1>19, <1>20 DEF IInv

-----------------------------------------------------------------------------
(* timer_add links a node to the list of its place.                        *)
LEMMA AddStep ==
  ASSUME IInv, NEW n \in Nodes, NEW d \in Delays, TimerAdd(n, d)
  PROVE  IInv'
<1>1. PICK e : e = (d + time) % Wrap
  OBVIOUS
<1>2. PICK w : w = add_node(wheel, n, e, time)
  OBVIOUS
<1>3. /\ ~ lock /\ n \notin Pending
      /\ expire' = [expire EXCEPT ![n] = e]
      /\ near' = w.near /\ t' = w.t
      /\ pending' = Append(pending, n)
      /\ due' = [due EXCEPT ![n] = d]
      /\ UNCHANGED <<time, lock, pc, current>>
  BY <1>1, <1>2 DEF TimerAdd, wheel
<1>4. TimerTypeOK /\ wheel \in Wheels /\ time \in 0..(Wrap - 1)
  BY WheelType DEF IInv, TimerTypeOK
<1>5. Wrap \in Nat /\ d \in Nat \ {0} /\ 2 * d < Wrap /\ d \in 0..(Wrap \div 2)
  <2>1. Wrap \in Nat
    BY Spans
  <2>2. d \in 1..(Wrap \div 2 - 1)
    BY DEF Delays
  <2> QED BY <2>1, <2>2
<1>6. e \in 0..(Wrap - 1) /\ e = (time + d) % Wrap
  <2>1. e = (time + d) % Wrap
    BY <1>1, <1>4, <1>5
  <2> QED BY <1>4, <1>5, <2>1, Expiry
<1>7. PICK q \in Slots : q = place(e, time)
  BY <1>4, <1>6, PlaceInSlots
<1>8. w \in Wheels /\ \A p \in Slots :
        list(w, p) = IF p = q THEN Append(list(wheel, p), n) ELSE list(wheel, p)
  BY <1>2, <1>4, <1>7, AddNode
<1>9. wheel' = w
  BY <1>3, <1>8, NextWheel
<1>10. /\ pending' \in Seq(Nodes) /\ Listed(pending') = Listed(pending) \cup {n}
       /\ \A x, y : Before(pending', x, y) <=>
                      Before(pending, x, y) \/ (x \in Listed(pending) /\ y = n)
  <2>1. pending \in Seq(Nodes)
    BY <1>4 DEF TimerTypeOK
  <2> QED BY <1>3, <2>1, Linked
<1>11. Pending' = Pending \cup {n} /\ Listed(pending) = Pending
  BY <1>10 DEF Pending
<1>12. ASSUME NEW p \in Slots
       PROVE  /\ Listed(list(w, p)) =
                   IF p = q THEN Listed(list(wheel, p)) \cup {n}
                   ELSE Listed(list(wheel, p))
              /\ \A x, y : Before(list(w, p), x, y) =>
                   \/ Before(list(wheel, p), x, y)
                   \/ x \in Listed(list(wheel, p)) /\ y = n
  <2>1. list(wheel, p) \in Seq(Nodes)
    BY <1>4, ListType
  <2>2. CASE p = q
    <3>1. list(w, p) = Append(list(wheel, p), n)
      BY <1>8, <2>2
    <3> QED BY <2>1, <2>2, <3>1, Linked
  <2>3. CASE p # q
    <3>1. list(w, p) = list(wheel, p)
      BY <1>8, <2>3
    <3> QED BY <2>3, <3>1
  <2> QED BY <2>2, <2>3
<1>13. \A m \in Pending : /\ m # n /\ m \in Nodes /\ due'[m] = due[m]
                          /\ expire'[m] = expire[m]
  BY <1>3, <1>4, PendingType DEF TimerTypeOK
<1>14. due'[n] = d /\ expire'[n] = e
  BY <1>3, <1>4 DEF TimerTypeOK
<1>15. TimerTypeOK'
  BY <1>3, <1>4, <1>5, <1>6, <1>8, <1>10, WheelParts DEF TimerTypeOK
<1>16. \A p \in Slots : \A m \in Listed(list(wheel, p)) :
         m \in Pending /\ place(expire[m], time) = p
  BY DEF IInv, PlaceInv
<1>17. PlaceInv'
  BY <1>3, <1>7, <1>9, <1>11, <1>12, <1>13, <1>14, <1>16 DEF PlaceInv
<1>18. WhereInv'
  <2>1. ASSUME NEW m \in Pending
        PROVE  \/ m \in Listed(current)
               \/ m \in Listed(list(w, place(expire[m], time)))
    <3>1. expire[m] \in 0..(Wrap - 1)
      BY <1>4, <1>13 DEF TimerTypeOK
    <3>2. place(expire[m], time) \in Slots
      BY <1>4, <3>1, PlaceInSlots
    <3> QED BY <1>12, <3>2 DEF IInv, WhereInv
  <2>2. n \in Listed(list(w, q))
    BY <1>12
  <2> QED BY <1>3, <1>7, <1>9, <1>11, <1>13, <1>14, <2>1, <2>2 DEF WhereInv
<1>19. DueInv'
  <2>1. \A m \in Pending : /\ due[m] \in Nat /\ 2 * due[m] < Wrap
                           /\ expire[m] = (time + due[m]) % Wrap
    BY DEF IInv, DueInv
  <2>2. time' = time /\ Wrap' = Wrap
    BY <1>3 DEF Wrap
  <2> QED BY <1>5, <1>6, <1>11, <1>13, <1>14, <2>1, <2>2 DEF DueInv
<1>20. \A m \in Listed(current) : m \in Pending /\ due[m] = 0
  BY DEF IInv, CurInv
<1>21. current \in Seq(Nodes)
  BY <1>4 DEF TimerTypeOK
<1>22. OrderInv'
  <2>1. ASSUME NEW x, NEW y, Before(current, x, y), due'[x] = due'[y]
        PROVE  Before(pending', x, y)
    <3>1. x \in Listed(current) /\ y \in Listed(current)
      BY <1>21, <2>1, ListedBefore
    <3>2. Before(pending, x, y)
      BY <1>13, <1>20, <2>1, <3>1 DEF IInv, OrderInv, Ordered
    <3> QED BY <1>10, <3>2
  <2>2. ASSUME NEW p \in Slots, NEW x, NEW y, Before(list(w, p), x, y),
               due'[x] = due'[y]
        PROVE  Before(pending', x, y)
    <3>1. CASE Before(list(wheel, p), x, y)
      <4>1. x \in Listed(list(wheel, p)) /\ y \in Listed(list(wheel, p))
        BY <1>4, <3>1, WheelType, ListedBefore
      <4>2. due[x] = due[y]
        BY <1>13, <1>16, <2>2, <4>1
      <4>3. Before(pending, x, y)
        BY <3>1, <4>2 DEF IInv, OrderInv, Ordered
      <4> QED BY <1>10, <4>3
    <3>2. CASE x \in Listed(list(wheel, p)) /\ y = n
      <4>1. x \in Listed(pending)
        BY <1>11, <1>16, <3>2
      <4> QED BY <1>10, <3>2, <4>1
    <3> QED BY <1>12, <2>2, <3>1, <3>2
  <2> QED BY <1>3, <1>9, <2>1, <2>2 DEF OrderInv, Ordered
<1>23. CurInv'
  <2>1. d # 0
    BY <1>5
  <2>2. current # <<>> =>
          \A p \in Slots : \A m \in Listed(list(wheel, p)) : due[m] # 0
    BY DEF IInv, CurInv
  <2>3. current # <<>> =>
          \A p \in Slots : \A m \in Listed(list(w, p)) : due'[m] # 0
    BY <1>12, <1>13, <1>14, <1>16, <2>1, <2>2
  <2> QED BY <1>3, <1>9, <1>11, <1>13, <1>20, <2>3 DEF CurInv
<1>24. CtlInv'
  <2>1. \A x : ~ Before(pending', x, x)
    BY <1>3, <1>10, <1>11 DEF IInv, CtlInv
  <2>2. d # 0
    BY <1>5
  <2> QED BY <1>3, <1>11, <1>13, <1>14, <2>1, <2>2 DEF IInv, CtlInv
<1> QED BY <1>15, <1>17, <1>18, <1>19, <1>22, <1>23, <1>24 DEF IInv

(* timer_shift: with the next tick each node is in its place still, those  *)
(* of the slot that is emptied because they are added again.               *)
LEMMA ShiftStep == IInv /\ Shift => IInv'
<1> SUFFICES ASSUME IInv, Shift PROVE IInv'
  OBVIOUS
<1>1. PICK ct : ct = (time + 1) % Wrap
  OBVIOUS
<1>2. /\ lock /\ pc = "early" /\ near[time % TIME_NEAR] = <<>>
      /\ time' = ct /\ pc' = "late"
      /\ due' = [n \in Nodes |-> IF n \in Pending /\ due[n] >= 0
                                 THEN due[n] - 1 ELSE due[n]]
      /\ UNCHANGED <<expire, lock, current, pending>>
      /\ IF shifted(ct) = {} THEN UNCHANGED <<near, t>>
         ELSE \E s \in shifted(ct) :
                near' = move_list(s, ct).near /\ t' = move_list(s, ct).t
  BY <1>1 DEF Shift
<1>3. TimerTypeOK /\ wheel \in Wheels /\ time \in 0..(Wrap - 1)
      /\ Wrap \in Nat \ {0}
  <2>1. TimerTypeOK
    BY DEF IInv
  <2>2. wheel \in Wheels
    BY <2>1, WheelType
  <2>3. Wrap \in Nat \ {0}
    <3>1. 4 \in 0..4
      OBVIOUS
    <3> QED BY <3>1, Spans
  <2> QED BY <2>1, <2>2, <2>3 DEF TimerTypeOK
<1>4. ct \in 0..(Wrap - 1) /\ ct \in Nat
  <2>1. time + 1 \in Nat
    BY <1>3
  <2>2. ct \in 0..(Wrap - 1)
    BY <1>1, <1>3, <2>1, Division
  <2> QED BY <1>3, <2>2
<1>5. Pending' = Pending /\ Pending \subseteq Nodes
  BY <1>2, <1>3, PendingType DEF Pending
<1>6. \A n \in Pending : due[n] \in Nat \ {0} /\ 2 * due[n] < Wrap
                         /\ expire[n] = (time + due[n]) % Wrap
                         /\ expire[n] \in 0..(Wrap - 1)
  <2>1. \A n \in Pending : due[n] # 0
    BY <1>2, DueIsNear
  <2>2. \A n \in Pending : expire[n] \in 0..(Wrap - 1)
    BY <1>3, <1>5 DEF TimerTypeOK
  <2> QED BY <2>1, <2>2 DEF IInv, DueInv
<1>7. \A n \in Pending : due'[n] = due[n] - 1
  BY <1>2, <1>5, <1>6
<1>8. \A n \in Pending : place(expire[n], ct) # place(expire[n], time)
                         => shifted(ct) = {place(expire[n], time)}
  BY <1>1, <1>3, <1>6, PlaceStays
<1>9. ASSUME NEW n \in Pending
      PROVE  /\ place(expire[n], time) \in Slots
             /\ place(expire[n], ct) \in Slots
  BY <1>3, <1>4, <1>6, PlaceInSlots
<1>10. \A p \in Slots : \A n \in Listed(list(wheel, p)) :
         n \in Pending /\ place(expire[n], time) = p
  BY DEF IInv, PlaceInv
<1>11. current = <<>> /\ Listed(current) = {}
       /\ \A x, y : ~ Before(current, x, y)
  BY <1>2, EmptyList DEF IInv, CtlInv
<1>12. \A n \in Pending : n \in Listed(list(wheel, place(expire[n], time)))
  BY <1>11 DEF IInv, WhereInv
<1>13. \A p \in Slots : \A x, y :
         Before(list(wheel, p), x, y) /\ due[x] = due[y]
         => Before(pending, x, y)
  BY DEF IInv, OrderInv, Ordered
(* What is to be shown of the wheel of the next state.                     *)
<1> DEFINE Placed == \A p \in Slots : \A n \in Listed(list(wheel', p)) :
                       n \in Pending /\ place(expire[n], ct) = p
           Found == \A n \in Pending :
                      n \in Listed(list(wheel', place(expire[n], ct)))
           Sorted == \A p \in Slots : \A x, y :
                       Before(list(wheel', p), x, y) /\ due[x] = due[y]
                       => Before(pending, x, y)
<1>14. wheel' \in Wheels /\ Placed /\ Found /\ Sorted
  <2>1. CASE shifted(ct) = {}
    <3>1. wheel' = wheel
      BY <1>2, <2>1 DEF wheel
    <3>2. \A n \in Pending : place(expire[n], ct) = place(expire[n], time)
      BY <1>8, <2>1
    <3> QED BY <1>3, <1>10, <1>12, <1>13, <3>1, <3>2
  <2>2. CASE shifted(ct) # {}
    <3>1. PICK s \in shifted(ct) :
            near' = move_list(s, ct).near /\ t' = move_list(s, ct).t
      BY <1>2, <2>2
    <3>2. s \in Slots /\ s[1] # NEAR /\ shifted(ct) = {s}
      BY <1>4, <3>1, ShiftedSlot
    <3>3. PICK l : l = list(wheel, s)
      OBVIOUS
    <3>4. PICK z \in Nat : z = Len(l) /\ l \in Seq(Nodes)
      BY <1>3, <3>2, <3>3, ListType
    <3>5. PICK w : w = move_list(s, ct)
      OBVIOUS
    <3>6. PICK c : c = cleared(s)
      OBVIOUS
    <3>7. Merged(c, w, l, z, ct)
      <4>1. \A n \in Nodes : expire[n] \in 0..(Wrap - 1)
        BY <1>3 DEF TimerTypeOK
      <4>2. \A n \in Nodes : place(expire[n], ct) \in Slots
        BY <1>4, <4>1, PlaceInSlots
      <4> QED BY <1>3, <3>2, <3>3, <3>4, <3>5, <3>6, <4>2, MoveList
    <3>8. \A p \in Slots :
            list(c, p) = IF p = s THEN <<>> ELSE list(wheel, p)
      BY <1>3, <3>2, <3>6, Clears
    <3>9. w \in Wheels /\ wheel' = w
      <4>1. w \in Wheels
        BY <3>7 DEF Merged
      <4> QED BY <3>1, <3>5, <4>1, NextWheel
    <3>10. \A i \in 1..z : l[i] \in Listed(list(wheel, s))
      BY <3>3, <3>4 DEF Listed
    <3>11. \A x \in Listed(list(wheel, s)) : \E i \in 1..z : x = l[i]
      BY <3>3, <3>4 DEF Listed
    <3>12. \A i, j \in 1..z : i < j => Before(list(wheel, s), l[i], l[j])
      <4>1. DOMAIN l = 1..z
        BY <3>4
      <4> QED BY <3>3, <4>1 DEF Before
    <3>13. ASSUME NEW p \in Slots, NEW n \in Listed(list(c, p))
           PROVE  p # s /\ n \in Listed(list(wheel, p))
      BY <3>8, <3>13, EmptyList
    <3>14. \A n \in Pending : place(expire[n], time) # s
             => place(expire[n], ct) = place(expire[n], time)
      BY <1>8, <3>2
    <3>15. Placed
      <4> SUFFICES ASSUME NEW p \in Slots, NEW n \in Listed(list(w, p))
                   PROVE  n \in Pending /\ place(expire[n], ct) = p
        BY <3>9
      <4>1. CASE n \in Listed(list(c, p))
        BY <1>10, <3>13, <3>14, <4>1
      <4>2. CASE \E i \in 1..z : n = l[i] /\ place(expire[n], ct) = p
        BY <1>10, <3>2, <3>10, <4>2
      <4> QED BY <3>7, <4>1, <4>2 DEF Merged
    <3>16. Found
      <4> SUFFICES ASSUME NEW n \in Pending
                   PROVE  n \in Listed(list(w, place(expire[n], ct)))
        BY <3>9
      <4>1. CASE place(expire[n], time) # s
        <5>1. PICK p \in Slots : p = place(expire[n], time)
          BY <1>9
        <5>2. n \in Listed(list(c, p))
          BY <1>12, <3>8, <4>1, <5>1
        <5>3. n \in Listed(list(w, p))
          BY <3>7, <5>2 DEF Merged
        <5> QED BY <3>14, <4>1, <5>1, <5>3
      <4>2. CASE place(expire[n], time) = s
        <5>1. PICK i \in 1..z : n = l[i]
          BY <1>12, <3>11, <4>2
        <5>2. PICK p \in Slots : p = place(expire[n], ct)
          BY <1>9
        <5> QED BY <3>7, <5>1, <5>2 DEF Merged
      <4> QED BY <4>1, <4>2
    <3>17. Sorted
      <4> SUFFICES ASSUME NEW p \in Slots, NEW x, NEW y,
                          Before(list(w, p), x, y), due[x] = due[y]
                   PROVE  Before(pending, x, y)
        BY <3>9
      <4>1. CASE Before(list(c, p), x, y)
        <5>1. p # s
          BY <3>8, <4>1, EmptyList
        <5> QED BY <1>13, <3>8, <4>1, <5>1
      <4>2. CASE \E i, j \in 1..z : i < j /\ x = l[i] /\ y = l[j]
        BY <1>13, <3>2, <3>12, <4>2
      <4>3. CASE x \in Listed(list(c, p)) /\ \E j \in 1..z : y = l[j]
        <5>1. x \in Pending /\ place(expire[x], time) # s
          BY <1>10, <3>13, <4>3
        <5>2. y \in Pending /\ place(expire[y], time) = s
          BY <1>10, <3>2, <3>10, <4>3
        <5> QED BY <1>6, <5>1, <5>2
      <4> QED BY <3>7, <4>1, <4>2, <4>3 DEF Merged
    <3> QED BY <3>9, <3>15, <3>16, <3>17
  <2> QED BY <2>1, <2>2
<1>15. TimerTypeOK'
  <2>1. near' \in [0..(TIME_NEAR - 1) -> Seq(Nodes)]
        /\ t' \in [0..3 -> [0..(TIME_LEVEL - 1) -> Seq(Nodes)]]
    BY <1>14 DEF Wheels, wheel
  <2>2. ASSUME NEW n \in Nodes PROVE due'[n] \in 0..(Wrap \div 2)
    <3>1. due[n] \in 0..(Wrap \div 2) /\ Wrap \div 2 \in Nat
      BY <1>3 DEF TimerTypeOK
    <3>2. CASE n \in Pending
      BY <1>6, <1>7, <3>1, <3>2
    <3>3. CASE n \notin Pending
      BY <1>2, <3>1, <3>3
    <3> QED BY <3>2, <3>3
  <2>3. due' \in [Nodes -> 0..(Wrap \div 2)]
    <3>1. due' = [n \in Nodes |-> due'[n]]
      BY <1>2
    <3> QED BY <2>2, <3>1
  <2> QED BY <1>2, <1>3, <1>4, <2>1, <2>3 DEF TimerTypeOK
<1>16. PlaceInv'
  BY <1>2, <1>5, <1>14 DEF PlaceInv
<1>17. WhereInv'
  BY <1>2, <1>5, <1>14 DEF WhereInv
<1>18. DueInv'
  <2> SUFFICES ASSUME NEW n \in Pending
               PROVE  /\ due[n] - 1 \in Nat /\ 2 * (due[n] - 1) < Wrap
                      /\ expire[n] = (ct + (due[n] - 1)) % Wrap
    BY <1>2, <1>5, <1>7 DEF DueInv
  <2>1. PICK d \in Nat \ {0} : d = due[n] /\ 2 * d < Wrap
                               /\ expire[n] = (time + d) % Wrap
    BY <1>6
  <2>2. (ct + (d - 1)) % Wrap = (time + d) % Wrap
    <3>1. ct = time + 1 \/ (ct = 0 /\ time + 1 = Wrap)
      BY <1>1, <1>3
    <3>2. CASE ct = time + 1
      BY <1>3, <3>2
    <3>3. CASE ct = 0 /\ time + 1 = Wrap
      <4>1. time + d = Wrap * 1 + (d - 1) /\ d - 1 \in 0..(Wrap - 1)
        BY <1>3, <2>1, <3>3
      <4>2. (time + d) % Wrap = d - 1
        BY <1>3, <4>1, Quotient
      <4>3. ct + (d - 1) = Wrap * 0 + (d - 1)
        BY <1>3, <3>3
      <4>4. (ct + (d - 1)) % Wrap = d - 1
        BY <1>3, <4>1, <4>3, Quotient
      <4> QED BY <4>2, <4>4
    <3> QED BY <3>1, <3>2, <3>3
  <2> QED BY <1>3, <2>1, <2>2
<1>19. OrderInv'
  <2> SUFFICES ASSUME NEW p \in Slots, NEW x, NEW y,
                      Before(list(wheel', p), x, y), due'[x] = due'[y]
               PROVE  Before(pending, x, y)
    BY <1>2, <1>11 DEF OrderInv, Ordered
  <2>1. x \in Pending /\ y \in Pending
    <3>1. list(wheel', p) \in Seq(Nodes)
      BY <1>14, ListType
    <3>2. x \in Listed(list(wheel', p)) /\ y \in Listed(list(wheel', p))
      BY <3>1, ListedBefore
    <3> QED BY <1>14, <3>2
  <2>2. due[x] = due[y]
    BY <1>6, <1>7, <2>1
  <2> QED BY <1>14, <2>2
<1>20. CurInv'
  BY <1>2, <1>11 DEF CurInv
<1>21. CtlInv'
  BY <1>2, <1>5, <1>11 DEF IInv, CtlInv
<1> QED BY <1>15, <1>16, <1>17, <1>18, <1>19, <1>20, <1>21 DEF IInv

-----------------------------------------------------------------------------
(* Every step of the timer keeps the invariant.                            *)
LEMMA TimerStep == IInv /\ [TimerNext]_timer => IInv'
<1> SUFFICES ASSUME IInv, [TimerNext]_timer PROVE IInv'
  OBVIOUS
<1>1. CASE TimerThread
  BY <1>1, UpdateStep, TakeStep, DispatchStep, RelockStep, ShiftStep, DoneStep
     DEF TimerThread
<1>2. CASE \E n \in Nodes, d \in Delays : TimerAdd(n, d)
  BY <1>2, AddStep
<1>3. CASE UNCHANGED timer
  <2>1. /\ UNCHANGED <<time, near, t, expire, current, pending, due>>
        /\ lock' = lock /\ pc' = pc
    BY <1>3 DEF timer
  <2>2. /\ lock \in BOOLEAN /\ pc \in {"sleep", "early", "late"}
        /\ lock => current = <<>>
        /\ pc = "sleep" => /\ current = <<>> /\ ~ lock
                           /\ \A n \in Pending : due[n] # 0
    BY DEF IInv, TimerTypeOK, CtlInv
  <2> QED BY <2>1, <2>2, StillStep
<1> QED BY <1>1, <1>2, <1>3 DEF TimerNext

(* The invariant holds: every pending node has its place on the wheel or   *)
(* is being dispatched, at every moment of timer_update.                   *)
THEOREM TimerInvariance == TimerSpec => []IInv
<1>1. TimerInit => IInv
  BY InitStep
<1>2. IInv /\ [TimerNext]_timer => IInv'
  BY TimerStep
<1> QED BY <1>1, <1>2, PTL DEF TimerSpec

(* The variables have their types.                                         *)
THEOREM TimerType == TimerSpec => []TimerTypeOK
<1>1. IInv => TimerTypeOK
  BY DEF IInv
<1> QED BY <1>1, TimerInvariance, PTL

(* What is dispatched is due, and the thread does not sleep over what is.  *)
LEMMA InvOnTime == IInv => OnTime
<1> SUFFICES ASSUME IInv PROVE OnTime
  OBVIOUS
<1>1. ASSUME NEW n \in Listed(current) PROVE due[n] = 0 /\ expire[n] = time
  <2>1. n \in Pending /\ due[n] = 0
    BY DEF IInv, CurInv
  <2>2. expire[n] = (time + 0) % Wrap
    BY <2>1 DEF IInv, DueInv
  <2>3. time \in 0..(Wrap - 1) /\ Wrap \in Nat
    BY Spans DEF IInv, TimerTypeOK
  <2>4. time + 0 = Wrap * 0 + time /\ Wrap \in Nat \ {0}
    BY <2>3
  <2>5. (time + 0) % Wrap = time
    BY <2>3, <2>4, Quotient
  <2> QED BY <2>1, <2>2, <2>5
<1>2. ASSUME pc = "sleep", NEW n \in Pending PROVE due[n] > 0
  <2>1. due[n] \in Nat
    BY DEF IInv, DueInv
  <2>2. due[n] # 0
    BY <1>2 DEF IInv, CtlInv
  <2> QED BY <2>1, <2>2
<1> QED BY <1>1, <1>2 DEF OnTime

(* A timer never goes off early or late, whatever the sizes of the wheel,  *)
(* however far ahead it was set and wherever time wraps around.            *)
THEOREM TimerOnTime == TimerSpec => []OnTime
BY TimerInvariance, InvOnTime, PTL

(* Two different elements of a list without repetitions stand in one order *)
(* only.                                                                   *)
LEMMA OneOrder ==
  ASSUME NEW S, NEW s \in Seq(S), \A x : ~ Before(s, x, x),
         NEW x, NEW y, Before(s, x, y)
  PROVE  ~ Before(s, y, x)
<1> SUFFICES ASSUME Before(s, y, x) PROVE FALSE
  OBVIOUS
<1>1. DOMAIN s = 1..Len(s) /\ Len(s) \in Nat
  OBVIOUS
<1>2. PICK i \in 1..Len(s), j \in 1..Len(s) : i < j /\ s[i] = x /\ s[j] = y
  BY <1>1 DEF Before
<1>3. PICK k \in 1..Len(s), m \in 1..Len(s) : k < m /\ s[k] = y /\ s[m] = x
  BY <1>1 DEF Before
<1>4. \A a, b \in 1..Len(s) : s[a] = s[b] => ~ (a < b)
  BY <1>1 DEF Before
<1>5. j = k /\ i = m
  BY <1>2, <1>3, <1>4
<1> QED BY <1>2, <1>3, <1>5

(* Nodes that are due together are in one list, in the order of pending.   *)
LEMMA InvSetOrder == IInv => SetOrder
<1> SUFFICES ASSUME IInv, NEW i \in 1..Len(pending), NEW j \in 1..Len(pending),
                    i < j, due[pending[i]] = due[pending[j]]
             PROVE  \E l \in Lists : \E a, b \in 1..Len(l) :
                      a < b /\ l[a] = pending[i] /\ l[b] = pending[j]
  BY DEF SetOrder
<1>1. PICK x : x = pending[i]
  OBVIOUS
<1>2. PICK y : y = pending[j]
  OBVIOUS
<1>3. TimerTypeOK /\ pending \in Seq(Nodes) /\ current \in Seq(Nodes)
  BY DEF IInv, TimerTypeOK
<1>4. Before(pending, x, y) /\ x \in Pending /\ y \in Pending
  <2>1. DOMAIN pending = 1..Len(pending)
    BY <1>3
  <2> QED BY <1>1, <1>2, <2>1 DEF Before, Pending, Listed
<1>5. ~ Before(pending, y, x) /\ x # y
  <2>1. \A u : ~ Before(pending, u, u)
    BY DEF IInv, CtlInv
  <2> QED BY <1>3, <1>4, <2>1, OneOrder
<1>6. place(expire[x], time) = place(expire[y], time)
  BY <1>1, <1>2, <1>4 DEF IInv, DueInv
<1>7. PICK p \in Slots : p = place(expire[x], time)
  <2>1. x \in Nodes /\ time \in 0..(Wrap - 1)
    BY <1>3, <1>4, PendingType DEF TimerTypeOK
  <2>2. expire[x] \in 0..(Wrap - 1)
    BY <1>3, <2>1 DEF TimerTypeOK
  <2> QED BY <2>1, <2>2, PlaceInSlots
<1>8. list(wheel, p) \in Seq(Nodes) /\ list(wheel, p) \in Lists
  <2>1. list(wheel, p) \in Seq(Nodes)
    BY <1>3, <1>7, WheelType
  <2>2. list(wheel, p) = IF p[1] = NEAR THEN near[p[2]] ELSE t[p[1]][p[2]]
    BY DEF list, wheel
  <2>3. CASE p[1] = NEAR
    <3>1. p[2] \in DOMAIN near
      BY <1>3, <1>7, <2>3, SlotParts DEF TimerTypeOK
    <3> QED BY <2>1, <2>2, <2>3, <3>1 DEF Lists
  <2>4. CASE p[1] # NEAR
    <3>1. p[1] \in 0..3 /\ p[2] \in 0..(TIME_LEVEL - 1)
      BY <1>7, <2>4, SlotParts
    <3>2. p[1] \in DOMAIN t /\ p[2] \in DOMAIN t[p[1]]
      BY <1>3, <3>1 DEF TimerTypeOK
    <3> QED BY <2>1, <2>2, <2>4, <3>2 DEF Lists
  <2> QED BY <2>3, <2>4
<1>9. PICK l \in Lists : l \in Seq(Nodes) /\ Ordered(l)
                         /\ x \in Listed(l) /\ y \in Listed(l)
  <2>1. CASE x \in Listed(current) /\ y \in Listed(current)
    BY <1>3, <2>1 DEF IInv, OrderInv, Lists
  <2>2. CASE x \notin Listed(current) /\ y \notin Listed(current)
    <3>1. x \in Listed(list(wheel, p)) /\ y \in Listed(list(wheel, p))
      BY <1>4, <1>6, <1>7, <2>2 DEF IInv, WhereInv
    <3> QED BY <1>8, <3>1 DEF IInv, OrderInv
  <2>3. ASSUME NEW u \in Listed(current), NEW v \in Pending,
               v \notin Listed(current), due[u] = due[v],
               place(expire[v], time) = p
        PROVE  FALSE
    <3>1. v \in Listed(list(wheel, p))
      BY <2>3 DEF IInv, WhereInv
    <3>2. current # <<>>
      BY <2>3, EmptyList
    <3> QED BY <2>3, <3>1, <3>2 DEF IInv, CurInv
  <2> QED BY <1>1, <1>2, <1>4, <1>6, <1>7, <2>1, <2>2, <2>3
<1>10. PICK a \in 1..Len(l), b \in 1..Len(l) : l[a] = x /\ l[b] = y
  BY <1>9 DEF Listed
<1>11. DOMAIN l = 1..Len(l) /\ Len(l) \in Nat
  BY <1>9
<1>12. ~ Before(l, y, x)
  BY <1>1, <1>2, <1>5, <1>9 DEF Ordered
<1>13. ~ (b < a) /\ a # b
  BY <1>5, <1>10, <1>11, <1>12 DEF Before
<1>14. a < b
  BY <1>11, <1>13
<1> QED BY <1>1, <1>2, <1>9, <1>10, <1>14

(* Timers that expire together go off in the order they were set.          *)
THEOREM TimerSetOrder == TimerSpec => []SetOrder
BY TimerInvariance, InvSetOrder, PTL

-----------------------------------------------------------------------------
(* The ring buffer of a message queue.                                     *)
(* The part of the type invariant that the refinement rests on.            *)
Ring ==
  /\ cap \in Nat \ {0}
  /\ head \in 0 .. cap - 1 /\ tail \in 0 .. cap - 1
  /\ queue \in [0 .. cap - 1 -> Messages \cup {Junk}]
  /\ pushed \in 0 .. MaxPush

(* The queue is no longer than the messages pushed. Between two reports    *)
(* the threshold is above the last report and not twice as high, and a     *)
(* mark is above what was reported and below the threshold it raised.      *)
Passed(n) == n <= overload_threshold /\ overload_threshold < 2 * n
Quiet ==
  /\ overload = 0
  /\ reported = 0 => overload_threshold = MQ_OVERLOAD
  /\ reported # 0 => Passed(reported)
Watch ==
  /\ mq_length(head, tail, cap) <= pushed
  /\ overload \in Nat /\ seen \in Nat /\ reported \in Nat
  /\ overload_threshold \in Nat \ {0}
  /\ wpc \in {"pop", "overload", "clear"}
  /\ wpc = "pop" => Quiet
  /\ wpc # "pop" => Quiet \/ (reported < overload /\ Passed(overload))
  /\ wpc = "clear" => seen = overload /\ overload # 0

(* An index below twice the capacity wraps once at most.                   *)
LEMMA ModWrap ==
  ASSUME NEW c \in Nat \ {0}, NEW k \in 0 .. 2 * c - 1
  PROVE  k % c = IF k < c THEN k ELSE k - c
<1>1. CASE k < c
  BY <1>1
<1>2. CASE ~(k < c)
  <2>1. k = c * 1 + (k - c) /\ k - c \in 0 .. c - 1
    BY <1>2
  <2> QED
    BY <2>1, <1>2
<1> QED
  BY <1>1, <1>2

(* The same for the i-th index from h on, which is how the code uses it.   *)
LEMMA IndexWrap ==
  ASSUME NEW c \in Nat \ {0}, NEW h \in 0 .. c - 1, NEW i \in 1 .. c
  PROVE  /\ (h + i - 1) % c = IF h + i - 1 < c THEN h + i - 1 ELSE h + i - 1 - c
         /\ (h + (i - 1)) % c = (h + i - 1) % c
         /\ (h + i - 1) % c \in 0 .. c - 1
<1>1. PICK k \in 0 .. 2 * c - 1 : k = h + i - 1 /\ k = h + (i - 1)
  OBVIOUS
<1>2. k % c = IF k < c THEN k ELSE k - c
  BY ModWrap
<1>3. (IF k < c THEN k ELSE k - c) \in 0 .. c - 1
  OBVIOUS
<1> QED
  BY <1>1, <1>2, <1>3

(* The contents of a ring with n messages, without the modulus.            *)
LEMMA ContentsUnrolled ==
  ASSUME Ring
  PROVE  /\ mq_length(head, tail, cap) \in 0 .. cap - 1
         /\ Contents = [i \in 1 .. mq_length(head, tail, cap) |->
                          queue[IF head + i - 1 < cap THEN head + i - 1
                                ELSE head + i - 1 - cap]]
         /\ Contents \in Seq(Messages \cup {Junk})
         /\ Len(Contents) = mq_length(head, tail, cap)
<1> DEFINE n == mq_length(head, tail, cap)
<1>1. n \in 0 .. cap - 1
  BY DEF Ring, mq_length
<1>2. ASSUME NEW i \in 1 .. n
      PROVE  /\ (head + i - 1) % cap = IF head + i - 1 < cap THEN head + i - 1
                                       ELSE head + i - 1 - cap
             /\ (head + i - 1) % cap \in 0 .. cap - 1
  <2> HIDE DEF n
  <2>1. i \in 1 .. cap /\ cap \in Nat \ {0} /\ head \in 0 .. cap - 1
    BY <1>1 DEF Ring
  <2> QED
    BY <2>1, IndexWrap, Zenon
<1>3. Contents = [i \in 1 .. n |-> queue[(head + i - 1) % cap]]
  BY DEF Contents
<1> HIDE DEF n
<1>4. Contents = [i \in 1 .. n |-> queue[IF head + i - 1 < cap THEN head + i - 1
                                         ELSE head + i - 1 - cap]]
  BY <1>2, <1>3
<1>5. \A i \in 1 .. n : queue[(head + i - 1) % cap] \in Messages \cup {Junk}
  BY <1>2 DEF Ring
<1>6. Contents \in Seq(Messages \cup {Junk}) /\ Len(Contents) = n
  BY <1>1, <1>3, <1>5
<1> QED
  BY <1>1, <1>4, <1>6 DEF n

(* Ring holds initially and is preserved by every step.                    *)
LEMMA RingInvariant ==
  /\ Init => Ring
  /\ Ring /\ [Next]_vars => Ring'
<1>1. ASSUME Init PROVE Ring
  BY <1>1, SizeAssumption DEF Init, Ring
<1>2. ASSUME Ring, [Next]_vars PROVE Ring'
  <2>1. CASE Push
    <3> DEFINE u == wrap(tail + 1, cap)
               q == [queue EXCEPT ![tail] = pushed + 1]
    <3>1. pushed' = pushed + 1 /\ pushed' \in 0 .. MaxPush
          /\ pushed + 1 \in Messages
      BY <1>2, <2>1, SizeAssumption DEF Push, Ring, Messages
    <3>2. u \in 0 .. cap - 1
      BY <1>2 DEF Ring, wrap
    <3>3. q \in [0 .. cap - 1 -> Messages \cup {Junk}]
      BY <1>2, <3>1 DEF Ring
    <3>4. \/ /\ head = u /\ queue' = expanded(q, head, cap)
             /\ head' = 0 /\ tail' = cap /\ cap' = 2 * cap
          \/ /\ queue' = q /\ tail' = u
             /\ head' = head /\ cap' = cap
      BY <2>1 DEF Push
    <3> HIDE DEF u, q
    <3>5. CASE /\ head = u /\ queue' = expanded(q, head, cap)
               /\ head' = 0 /\ tail' = cap /\ cap' = 2 * cap
      <4>1. ASSUME NEW i \in 0 .. 2 * cap - 1
            PROVE  (IF i < cap THEN q[(head + i) % cap] ELSE Junk)
                     \in Messages \cup {Junk}
        <5>1. CASE i < cap
          <6>1. /\ cap \in Nat \ {0} /\ head \in 0 .. cap - 1
                /\ i + 1 \in 1 .. cap /\ head + (i + 1) - 1 = head + i
            BY <5>1, <1>2 DEF Ring
          <6>2. (head + (i + 1) - 1) % cap \in 0 .. cap - 1
            BY <6>1, IndexWrap, Zenon
          <6>3. (head + i) % cap \in 0 .. cap - 1
            BY <6>1, <6>2
          <6> QED
            BY <5>1, <6>3, <3>3
        <5> QED
          BY <5>1
      <4>2. expanded(q, head, cap)
              \in [0 .. 2 * cap - 1 -> Messages \cup {Junk}]
        BY <4>1 DEF expanded
      <4> QED
        BY <3>1, <3>5, <4>2, <1>2 DEF Ring
    <3>6. CASE queue' = q /\ tail' = u /\ head' = head /\ cap' = cap
      BY <3>1, <3>2, <3>3, <3>6, <1>2 DEF Ring
    <3> QED
      BY <3>4, <3>5, <3>6
  <2>2. CASE Pop
    BY <1>2, <2>2 DEF Pop, Ring, wrap
  <2>3. CASE PopEmpty \/ ReadOverload \/ ClearOverload \/ UNCHANGED vars
    BY <1>2, <2>3 DEF PopEmpty, ReadOverload, ClearOverload, vars, ringVars, Ring
  <2> QED
    BY <1>2, <2>1, <2>2, <2>3 DEF Next
<1> QED
  BY <1>1, <1>2

(* The loop of skynet_mq_pop after k rounds, as a function of k.           *)
twice(f, m, n, k) ==
  IF k = 0 THEN m
  ELSE LET p == f[k - 1] IN IF n > p THEN 2 * p ELSE p
Doubles(f, m, n) == f = [k \in 0 .. MaxPush |-> twice(f, m, n, k)]
doubling(m, n) == CHOOSE f : Doubles(f, m, n)

(* There is such a function.                                               *)
LEMMA DoublingExists ==
  ASSUME NEW m, NEW n
  PROVE  \E f : Doubles(f, m, n)
<1>1. PICK z \in Nat : z = MaxPush
  BY SizeAssumption
<1> DEFINE Good(f, k) == /\ f = [i \in 0..z |-> f[i]]
                         /\ \A i \in 0..k : f[i] = twice(f, m, n, i)
           G == {k \in Nat : \E f : Good(f, k)}
<1>2. 0 \in G
  <2>1. PICK f : f = [i \in 0..z |-> m]
    OBVIOUS
  <2>2. f[0] = m /\ \A i \in 0..0 : i = 0
    BY <2>1
  <2>3. Good(f, 0)
    BY <2>1, <2>2 DEF twice
  <2> HIDE DEF Good
  <2> QED BY <2>3
<1>3. ASSUME NEW k \in 0..(z - 1), k \in G PROVE k + 1 \in G
  <2>1. PICK f : Good(f, k)
    BY <1>3
  <2>2. PICK g : g = [i \in 0..z |->
                        IF i = k + 1 THEN twice(f, m, n, i) ELSE f[i]]
    OBVIOUS
  <2>3. g = [i \in 0..z |-> g[i]]
    BY <2>2
  <2>4. (\A i \in 0..k : g[i] = f[i]) /\ g[k + 1] = twice(f, m, n, k + 1)
    <3>1. \A i \in 0..k : i \in 0..z /\ i # k + 1
      BY <1>1
    <3>2. k + 1 \in 0..z
      BY <1>1
    <3> QED BY <2>2, <3>1, <3>2
  <2>5. ASSUME NEW i \in 0..(k + 1) PROVE g[i] = twice(g, m, n, i)
    <3>1. CASE i \in 0..k
      <4>1. i = 0 \/ i - 1 \in 0..k
        BY <3>1
      <4>2. twice(g, m, n, i) = twice(f, m, n, i)
        BY <2>4, <4>1 DEF twice
      <4> QED BY <2>1, <2>4, <3>1, <4>2
    <3>2. CASE i = k + 1
      <4>1. i - 1 = k /\ k \in 0..k
        BY <3>2
      <4>2. twice(g, m, n, i) = twice(f, m, n, i)
        BY <2>4, <4>1 DEF twice
      <4> QED BY <2>4, <3>2, <4>1, <4>2
    <3> QED BY <3>1, <3>2
  <2>6. Good(g, k + 1)
    BY <2>3, <2>5
  <2>7. k + 1 \in Nat
    OBVIOUS
  <2> HIDE DEF Good
  <2> QED BY <2>6, <2>7
<1>4. 0..z \subseteq G
  <2> HIDE DEF G
  <2> QED BY <1>1, <1>2, <1>3, InductionTo
<1>5. PICK f : Good(f, z)
  <2>1. z \in 0..z
    BY <1>1
  <2> QED BY <1>4, <2>1
<1>6. f = [i \in 0..z |-> twice(f, m, n, i)]
  BY <1>5
<1> QED BY <1>1, <1>6 DEF Doubles

(* The threshold m stays for a length n that is not above it, and doubles  *)
(* until it is not below one that is; it is then not twice as high.        *)
LEMMA Raised ==
  ASSUME NEW m \in Nat \ {0}, NEW n \in 0 .. MaxPush
  PROVE  /\ n <= m => raised(m, n) = m
         /\ n > m => n <= raised(m, n) /\ raised(m, n) < 2 * n
         /\ raised(m, n) \in Nat \ {0}
<1>1. PICK z \in Nat : z = MaxPush
  BY SizeAssumption
<1>2. PICK f : f = doubling(m, n)
  OBVIOUS
<1>3. Doubles(f, m, n)
  BY <1>2, DoublingExists DEF doubling
<1>4. \A k \in 0..z : f[k] = twice(f, m, n, k)
  BY <1>1, <1>3 DEF Doubles
<1>5. raised(m, n) = f[z]
  BY <1>1, <1>2 DEF raised, doubling, Doubles, twice
<1> DEFINE Fits(k) == /\ f[k] \in Nat \ {0}
                      /\ n <= m => f[k] = m
                      /\ n > m => f[k] < 2 * n /\ (f[k] >= n \/ f[k] >= m + k)
           G == {k \in Nat : Fits(k)}
<1>6. 0 \in G
  <2>1. f[0] = m
    BY <1>1, <1>4 DEF twice
  <2> QED BY <2>1
<1>7. ASSUME NEW k \in 0..(z - 1), k \in G PROVE k + 1 \in G
  <2>1. k + 1 \in 0..z /\ k + 1 # 0 /\ k + 1 - 1 = k
    BY <1>1
  <2>2. f[k + 1] = IF n > f[k] THEN 2 * f[k] ELSE f[k]
    BY <1>4, <2>1 DEF twice
  <2>3. Fits(k)
    BY <1>7
  <2>4. PICK p \in Nat \ {0} : p = f[k]
    BY <2>3
  <2>5. PICK r : r = f[k + 1]
    OBVIOUS
  <2>6. Fits(k + 1)
    <3>1. r = IF n > p THEN 2 * p ELSE p
      BY <2>2, <2>4, <2>5
    <3>2. /\ n <= m => p = m
          /\ n > m => p < 2 * n /\ (p >= n \/ p >= m + k)
      BY <2>3, <2>4
    <3>3. /\ r \in Nat \ {0}
          /\ n <= m => r = m
          /\ n > m => r < 2 * n /\ (r >= n \/ r >= m + (k + 1))
      BY <3>1, <3>2
    <3> QED BY <2>5, <3>3
  <2> HIDE DEF Fits
  <2> QED BY <2>6
<1>8. 0..z \subseteq G
  <2> HIDE DEF G
  <2> QED BY <1>1, <1>6, <1>7, InductionTo
<1>9. z \in 0..z
  BY <1>1
<1>10. Fits(z)
  BY <1>8, <1>9
<1> QED BY <1>1, <1>5, <1>10

(* A push adds one to the length of the queue, and a pop takes one from it.*)
LEMMA Lengths ==
  ASSUME Ring
  PROVE  /\ mq_length(head, tail, cap) \in Nat
         /\ Push => mq_length(head', tail', cap')
                      = mq_length(head, tail, cap) + 1
         /\ Pop => /\ mq_length(head', tail', cap') \in Nat
                   /\ mq_length(head', tail', cap')
                        = mq_length(head, tail, cap) - 1
<1>1. mq_length(head, tail, cap) \in Nat
  BY DEF Ring, mq_length
<1>2. ASSUME Push
      PROVE  mq_length(head', tail', cap') = mq_length(head, tail, cap) + 1
  <2>1. PICK u : u = wrap(tail + 1, cap)
    OBVIOUS
  <2>2. CASE head = u
    <3>1. head' = 0 /\ tail' = cap /\ cap' = 2 * cap
      BY <1>2, <2>1, <2>2 DEF Push
    <3> QED BY <2>1, <2>2, <3>1 DEF Ring, wrap, mq_length
  <2>3. CASE head # u
    <3>1. head' = head /\ tail' = u /\ cap' = cap
      BY <1>2, <2>1, <2>3 DEF Push
    <3> QED BY <2>1, <2>3, <3>1 DEF Ring, wrap, mq_length
  <2> QED BY <2>2, <2>3
<1>3. ASSUME Pop
      PROVE  /\ mq_length(head', tail', cap') \in Nat
             /\ mq_length(head', tail', cap')
                  = mq_length(head, tail, cap) - 1
  BY <1>3 DEF Pop, Ring, wrap, mq_length
<1> QED BY <1>1, <1>2, <1>3

(* What a pop does to the watch, for the length n that it leaves.          *)
LEMMA PopWatch ==
  ASSUME Ring, Watch, Pop
  PROVE  \E n \in 0 .. MaxPush :
           /\ n = mq_length(head', tail', cap') /\ n <= pushed
           /\ n <= overload_threshold =>
                overload' = overload /\ overload_threshold' = overload_threshold
           /\ n > overload_threshold =>
                overload' = n /\ Passed(n)'
           /\ overload_threshold' \in Nat \ {0}
<1>1. PICK n : n = mq_length(head', tail', cap')
  OBVIOUS
<1>2. n \in Nat /\ n <= pushed /\ pushed \in 0 .. MaxPush
  BY <1>1, Lengths DEF Watch, Ring
<1>3. n \in 0 .. MaxPush
  BY <1>2, SizeAssumption
<1>4. tail' = tail /\ cap' = cap
  BY DEF Pop
<1>5. /\ overload' = IF n > overload_threshold THEN n ELSE overload
      /\ overload_threshold' = raised(overload_threshold, n)
  BY <1>1, <1>4 DEF Pop
<1>6. overload_threshold \in Nat \ {0}
  BY DEF Watch
<1>7. /\ n <= overload_threshold =>
           overload_threshold' = overload_threshold
      /\ n > overload_threshold =>
           n <= overload_threshold' /\ overload_threshold' < 2 * n
      /\ overload_threshold' \in Nat \ {0}
  BY <1>3, <1>5, <1>6, Raised
<1>8. n <= overload_threshold => overload' = overload
  BY <1>3, <1>5, <1>6
<1> QED BY <1>1, <1>2, <1>3, <1>5, <1>7, <1>8 DEF Passed

(* Watch holds initially and is preserved by every step.                   *)
LEMMA WatchInvariant ==
  /\ Init => Watch
  /\ Ring /\ Watch /\ [Next]_vars => Watch'
<1>1. ASSUME Init PROVE Watch
  BY <1>1, SizeAssumption DEF Init, Watch, Quiet, mq_length
<1>2. ASSUME Ring, Watch, [Next]_vars PROVE Watch'
  <2>1. CASE Pop
    <3>1. /\ pushed' = pushed /\ reported' = reported /\ seen' = seen
          /\ wpc = "pop" /\ wpc' = "overload"
      BY <2>1 DEF Pop
    <3>2. PICK n \in 0 .. MaxPush :
            /\ n = mq_length(head', tail', cap') /\ n <= pushed
            /\ n <= overload_threshold =>
                 overload' = overload
                 /\ overload_threshold' = overload_threshold
            /\ n > overload_threshold => overload' = n /\ Passed(n)'
            /\ overload_threshold' \in Nat \ {0}
      BY <1>2, <2>1, PopWatch
    <3>3. Quiet /\ reported \in Nat /\ seen \in Nat /\ overload = 0
      BY <1>2, <3>1 DEF Watch, Quiet
    <3>4. n \in Nat /\ overload_threshold \in Nat \ {0}
      BY <1>2, SizeAssumption DEF Watch
    <3>5. CASE n <= overload_threshold
      <4>1. Quiet'
        BY <3>1, <3>2, <3>3, <3>5 DEF Quiet, Passed
      <4> QED BY <3>1, <3>2, <3>3, <3>5, <4>1 DEF Watch
    <3>6. CASE n > overload_threshold
      <4>1. overload' = n /\ Passed(overload)'
        BY <3>2, <3>6 DEF Passed
      <4>2. reported < n
        BY <3>3, <3>4, <3>6 DEF Quiet, Passed
      <4> QED BY <3>1, <3>2, <3>3, <3>4, <4>1, <4>2 DEF Watch
    <3> QED BY <3>4, <3>5, <3>6
  <2>2. CASE Push
    <3>1. UNCHANGED <<watchVars, workerVars>> /\ pushed' = pushed + 1
      BY <2>2 DEF Push
    <3>2. mq_length(head', tail', cap') <= pushed'
      <4>1. PICK n \in Nat : n = mq_length(head, tail, cap)
        BY <1>2, Lengths
      <4>2. n <= pushed /\ pushed \in Int
        BY <1>2, <4>1 DEF Watch, Ring
      <4> QED BY <1>2, <2>2, <3>1, <4>1, <4>2, Lengths
    <3> QED BY <1>2, <3>1, <3>2
            DEF Watch, Quiet, Passed, watchVars, workerVars
  <2>3. CASE PopEmpty
    <3>1. /\ UNCHANGED <<ringVars, overload, pushed, wpc, seen>>
          /\ overload_threshold' = MQ_OVERLOAD /\ reported' = 0 /\ wpc = "pop"
      BY <2>3 DEF PopEmpty
    <3> QED BY <1>2, <3>1, SizeAssumption DEF Watch, Quiet, ringVars
  <2>4. CASE ReadOverload
    BY <1>2, <2>4 DEF ReadOverload, Watch, Quiet, Passed, ringVars, watchVars
  <2>5. CASE ClearOverload
    BY <1>2, <2>5 DEF ClearOverload, Watch, Quiet, Passed, ringVars
  <2>6. CASE UNCHANGED vars
    BY <1>2, <2>6
       DEF Watch, Quiet, Passed, vars, ringVars, watchVars, workerVars
  <2> QED
    BY <1>2, <2>1, <2>2, <2>3, <2>4, <2>5, <2>6 DEF Next
<1> QED
  BY <1>1, <1>2

(* A push, with or without an expansion, appends to the contents.          *)
LEMMA PushPuts ==
  ASSUME Ring, Ring', Push
  PROVE  Contents' = Append(Contents, pushed + 1)
<1> DEFINE n == mq_length(head, tail, cap)
           u == wrap(tail + 1, cap)
           q == [queue EXCEPT ![tail] = pushed + 1]
           ix(h, c, i) == IF h + i - 1 < c THEN h + i - 1 ELSE h + i - 1 - c
<1>1. /\ n \in 0 .. cap - 1
      /\ Contents = [i \in 1 .. n |-> queue[ix(head, cap, i)]]
      /\ Contents \in Seq(Messages \cup {Junk}) /\ Len(Contents) = n
  BY ContentsUnrolled
<1>2. Contents' = [i \in 1 .. mq_length(head', tail', cap') |->
                     queue'[(head' + i - 1) % cap']]
  BY DEF Contents
<1>3. Append(Contents, pushed + 1) =
        [i \in 1 .. n + 1 |-> IF i <= n THEN Contents[i] ELSE pushed + 1]
  <2> HIDE DEF n
  <2> QED
    BY <1>1
<1>4. \A i \in 1 .. n : ix(head, cap, i) \in 0 .. cap - 1 /\ ix(head, cap, i) # tail
  BY <1>1 DEF Ring, mq_length
<1>5. \A i \in 1 .. n + 1 : q[ix(head, cap, i)] =
        IF i <= n THEN Contents[i] ELSE pushed + 1
  <2>1. ix(head, cap, n + 1) = tail
    BY <1>1 DEF Ring, mq_length
  <2>2. tail \in 0 .. cap - 1 /\ queue \in [0 .. cap - 1 -> Messages \cup {Junk}]
    BY DEF Ring
  <2>3. q[tail] = pushed + 1
    BY <2>2
  <2>4. \A j \in 0 .. cap - 1 : j # tail => q[j] = queue[j]
    BY <2>2
  <2> HIDE DEF n, q
  <2>5. ASSUME NEW i \in 1 .. n PROVE q[ix(head, cap, i)] = Contents[i]
    <3>1. ix(head, cap, i) \in 0 .. cap - 1 /\ ix(head, cap, i) # tail
      BY <1>4
    <3>2. Contents[i] = queue[ix(head, cap, i)]
      BY <1>1
    <3> HIDE DEF ix
    <3> QED
      BY <3>1, <3>2, <2>4
  <2>6. ASSUME NEW i \in 1 .. n + 1
        PROVE  q[ix(head, cap, i)] = IF i <= n THEN Contents[i] ELSE pushed + 1
    <3>1. CASE i <= n
      <4>1. i \in 1 .. n
        BY <1>1, <3>1
      <4> HIDE DEF ix
      <4> QED
        BY <4>1, <3>1, <2>5
    <3>2. CASE ~(i <= n)
      <4>1. i = n + 1
        BY <1>1, <3>2
      <4> HIDE DEF ix
      <4> QED
        BY <4>1, <3>2, <2>1, <2>3, <1>1
    <3> QED
      BY <3>1, <3>2
  <2> QED
    BY <2>6
<1>6. CASE head = u
  <2>1. /\ queue' = expanded(q, head, cap) /\ head' = 0 /\ tail' = cap
        /\ cap' = 2 * cap
    BY <1>6 DEF Push
  <2>2. n + 1 = cap /\ mq_length(head', tail', cap') = cap
    BY <1>1, <1>6, <2>1 DEF Ring, mq_length, wrap
  <2>3. ASSUME NEW i \in 1 .. n + 1
        PROVE  queue'[(head' + i - 1) % cap'] = q[ix(head, cap, i)]
    <3> HIDE DEF n, q
    <3>1. i \in 1 .. cap /\ cap \in Nat \ {0}
      BY <2>2 DEF Ring
    <3>2. (head' + i - 1) % cap' = i - 1
      <4>1. head' + i - 1 = i - 1 /\ i - 1 \in 0 .. 2 * (2 * cap) - 1
            /\ 2 * cap \in Nat \ {0} /\ i - 1 < 2 * cap
        BY <3>1, <2>1
      <4> QED
        BY <4>1, <2>1, ModWrap
    <3>3. queue'[i - 1] = q[(head + (i - 1)) % cap]
      <4>1. i - 1 \in 0 .. 2 * cap - 1 /\ i - 1 < cap
        BY <3>1
      <4> QED
        BY <4>1, <2>1 DEF expanded
    <3>4. (head + (i - 1)) % cap = ix(head, cap, i)
      <4>1. head \in 0 .. cap - 1
        BY DEF Ring
      <4> QED
        BY <4>1, <3>1, IndexWrap, Zenon
    <3> QED
      BY <3>2, <3>3, <3>4
  <2>4. Contents' = [i \in 1 .. n + 1 |-> q[ix(head, cap, i)]]
    <3> HIDE DEF n, q, ix
    <3> QED
      BY <1>2, <2>2, <2>3
  <2> HIDE DEF n, q, ix
  <2> QED
    BY <1>3, <1>5, <2>4
<1>7. CASE head # u
  <2>1. queue' = q /\ head' = head /\ tail' = u /\ cap' = cap
    BY <1>7 DEF Push
  <2>2. mq_length(head', tail', cap') = n + 1 /\ n + 1 \in 0 .. cap - 1
    BY <1>1, <1>7, <2>1 DEF Ring, mq_length, wrap
  <2>3. ASSUME NEW i \in 1 .. n + 1
        PROVE  queue'[(head' + i - 1) % cap'] = q[ix(head, cap, i)]
    <3> HIDE DEF n, q
    <3>1. i \in 1 .. cap /\ cap \in Nat \ {0} /\ head \in 0 .. cap - 1
      BY <2>2 DEF Ring
    <3>2. (head + i - 1) % cap = ix(head, cap, i)
      BY <3>1, IndexWrap, Zenon
    <3> HIDE DEF ix
    <3> QED
      BY <2>1, <3>2
  <2>4. Contents' = [i \in 1 .. n + 1 |-> q[ix(head, cap, i)]]
    <3> HIDE DEF n, q, ix
    <3> QED
      BY <1>2, <2>2, <2>3
  <2> HIDE DEF n, q, ix
  <2> QED
    BY <1>3, <1>5, <2>4
<1> QED
  BY <1>6, <1>7

(* A pop returns the oldest message and takes it out of the contents.      *)
LEMMA PopTakes ==
  ASSUME Ring, Ring', Pop
  PROVE  /\ Contents # <<>>
         /\ message' = Head(Contents)
         /\ Contents' = Tail(Contents)
<1> DEFINE n == mq_length(head, tail, cap)
           ix(h, c, i) == IF h + i - 1 < c THEN h + i - 1 ELSE h + i - 1 - c
<1>1. /\ n \in 0 .. cap - 1
      /\ Contents = [i \in 1 .. n |-> queue[ix(head, cap, i)]]
      /\ Contents \in Seq(Messages \cup {Junk}) /\ Len(Contents) = n
  BY ContentsUnrolled
<1>2. /\ mq_length(head', tail', cap') \in 0 .. cap' - 1
      /\ Contents' = [i \in 1 .. mq_length(head', tail', cap') |->
                        queue'[ix(head', cap', i)]]
  <2>1. (Ring => /\ mq_length(head, tail, cap) \in 0 .. cap - 1
                 /\ Contents = [i \in 1 .. n |-> queue[ix(head, cap, i)]])'
    BY ContentsUnrolled, PTL
  <2> QED
    BY <2>1
<1>3. /\ head # tail /\ message' = queue[head]
      /\ head' = wrap(head + 1, cap)
      /\ tail' = tail /\ cap' = cap /\ queue' = queue
  BY DEF Pop
<1>4. n > 0 /\ mq_length(head', tail', cap') = n - 1
  BY <1>1, <1>3 DEF Ring, mq_length, wrap
<1>5. Contents # <<>> /\ Head(Contents) = Contents[1]
      /\ Tail(Contents) = [i \in 1 .. n - 1 |-> Contents[i + 1]]
  <2> HIDE DEF n, ix
  <2> QED
    BY <1>1, <1>4
<1>6. Contents[1] = queue[head]
  <2>1. 1 \in 1 .. n
    BY <1>1, <1>4
  <2>2. ix(head, cap, 1) = head
    BY DEF Ring
  <2> HIDE DEF n, ix
  <2> QED
    BY <1>1, <2>1, <2>2
<1>7. ASSUME NEW i \in 1 .. n - 1
      PROVE  queue'[ix(head', cap', i)] = Contents[i + 1]
  <2>1. i + 1 \in 1 .. n
    BY <1>1, <1>4
  <2>2. ix(head', cap', i) = ix(head, cap, i + 1)
    <3> HIDE DEF n
    <3>1. i \in 1 .. cap - 1
      BY <1>1 DEF Ring
    <3> QED
      BY <3>1, <1>3 DEF Ring, wrap
  <2> HIDE DEF n, ix
  <2> QED
    BY <1>1, <1>3, <2>1, <2>2
<1>8. Contents' = Tail(Contents)
  <2> HIDE DEF n, ix
  <2> QED
    BY <1>2, <1>4, <1>5, <1>7
<1> QED
  BY <1>3, <1>5, <1>6, <1>8

(* The other steps leave the contents alone; an empty pop returns nothing. *)
LEMMA OthersTake ==
  ASSUME Ring, PopEmpty \/ ReadOverload \/ ClearOverload \/ UNCHANGED vars
  PROVE  F!Take \/ UNCHANGED <<Contents, message>>
<1>1. Contents' = Contents
  BY DEF PopEmpty, ReadOverload, ClearOverload, vars, ringVars, Contents
<1>2. CASE PopEmpty
  <2>1. mq_length(head, tail, cap) = 0
    BY <1>2 DEF PopEmpty, Ring, mq_length
  <2>2. Contents = <<>>
    BY <2>1, ContentsUnrolled
  <2> QED
    BY <1>1, <1>2, <2>2 DEF F!Take, PopEmpty
<1>3. CASE ReadOverload \/ ClearOverload \/ UNCHANGED vars
  BY <1>1, <1>3 DEF ReadOverload, ClearOverload, vars, workerVars
<1> QED
  BY <1>2, <1>3

(* The empty ring maps to the empty queue, and every step of the ring to a *)
(* step of the queue or to no step.                                        *)
LEMMA RingSteps ==
  /\ Init => F!Init
  /\ Ring /\ Ring' /\ [Next]_vars => [F!Next]_<<Contents, message>>
<1>1. ASSUME Init PROVE F!Init
  <2>1. Ring
    BY <1>1, RingInvariant
  <2>2. mq_length(head, tail, cap) = 0
    BY <1>1, <2>1 DEF Init, Ring, mq_length
  <2>3. Contents = <<>>
    BY <2>1, <2>2, ContentsUnrolled
  <2> QED
    BY <1>1, <2>3 DEF F!Init, Init
<1>2. ASSUME Ring, Ring', [Next]_vars PROVE [F!Next]_<<Contents, message>>
  <2>1. CASE Push
    <3>1. Contents' = Append(Contents, pushed + 1)
      BY <1>2, <2>1, PushPuts
    <3>2. pushed + 1 \in Messages /\ message' = message
      BY <1>2, <2>1, SizeAssumption DEF Push, Ring, Messages, workerVars
    <3> QED
      BY <3>1, <3>2 DEF F!Next, F!Put
  <2>2. CASE Pop
    BY <1>2, <2>2, PopTakes DEF F!Next, F!Take
  <2>3. CASE PopEmpty \/ ReadOverload \/ ClearOverload \/ UNCHANGED vars
    BY <1>2, <2>3, OthersTake DEF F!Next
  <2> QED
    BY <1>2, <2>1, <2>2, <2>3 DEF Next
<1> QED
  BY <1>1, <1>2

(* A message queue behaves as an unbounded FIFO queue, with any first      *)
(* capacity: skynet_mq_push, expand_queue and skynet_mq_pop neither lose   *)
(* nor repeat nor reorder a message.                                       *)
THEOREM RingIsFifo == Spec => FifoSpec
<1>1. Spec => []Ring
  BY RingInvariant, PTL DEF Spec
<1> QED
  BY <1>1, RingSteps, PTL DEF Spec, FifoSpec, F!Spec

(* Every pop that leaves twice what was last reported, and more than       *)
(* MQ_OVERLOAD, marks the queue, none that leaves no more than that does,  *)
(* and reports rise until the queue is empty, however many messages are    *)
(* pushed between two pops: the loop of skynet_mq_pop catches up at once.  *)
THEOREM DoublingsAreReported == Spec => DoublingsReported
<1>1. Spec => []Ring
  BY RingInvariant, PTL DEF Spec
<1>2. Spec => []Watch
  BY <1>1, WatchInvariant, PTL DEF Spec
<1> DEFINE n == mq_length(head', tail', cap')
           Step == /\ wpc = "pop" /\ wpc' = "overload" =>
                        /\ n > MQ_OVERLOAD /\ n >= 2 * reported => overload' = n
                        /\ n <= reported => overload' = 0
                   /\ wpc = "clear" /\ wpc' = "pop" => reported' > reported
<1>3. ASSUME Ring, Watch, [Next]_vars PROVE [Step]_vars
  <2>1. CASE Pop
    <3>1. PICK m \in 0 .. MaxPush :
            /\ m = n
            /\ m <= overload_threshold => overload' = overload
            /\ m > overload_threshold => overload' = m
      BY <1>3, <2>1, PopWatch
    <3>2. wpc = "pop" /\ wpc' = "overload"
      BY <2>1 DEF Pop
    <3>3. /\ reported \in Nat /\ overload_threshold \in Nat /\ overload = 0
          /\ reported = 0 => overload_threshold = MQ_OVERLOAD
          /\ reported # 0 =>
               /\ reported <= overload_threshold
               /\ overload_threshold < 2 * reported
      BY <1>3, <3>2 DEF Watch, Quiet, Passed
    <3>4. MQ_OVERLOAD \in Nat /\ m \in Nat
      BY SizeAssumption
    <3>5. m > MQ_OVERLOAD /\ m >= 2 * reported => overload' = m
      BY <3>1, <3>3, <3>4
    <3>6. m <= reported => overload' = 0
      BY <3>1, <3>3, <3>4, SizeAssumption
    <3> HIDE DEF n
    <3> QED BY <3>1, <3>2, <3>5, <3>6
  <2>2. CASE ClearOverload
    <3>1. wpc = "clear" /\ wpc' = "pop" /\ reported' = seen
      BY <2>2 DEF ClearOverload
    <3>2. reported < seen
      BY <1>3, <3>1 DEF Watch, Quiet
    <3>3. reported \in Nat /\ seen \in Nat
      BY <1>3 DEF Watch
    <3> QED BY <3>1, <3>2, <3>3
  <2>3. CASE Push \/ PopEmpty \/ ReadOverload
    <3>1. (wpc' = wpc) \/ (wpc = "overload")
      BY <2>3 DEF Push, PopEmpty, ReadOverload, workerVars
    <3> QED BY <3>1
  <2> QED BY <1>3, <2>1, <2>2, <2>3 DEF Next
<1> QED
  BY <1>1, <1>2, <1>3, PTL DEF Spec, DoublingsReported
=============================================================================
