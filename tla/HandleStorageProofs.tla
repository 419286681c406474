------------------------ MODULE HandleStorageProofs -------------------------
(***************************************************************************)
(* The handle table keeps its promises for every table, any set of         *)
(* contexts and names and any power of two of handles; and so does the     *)
(* read-write lock that guards it, at the end of the module.               *)
(*                                                                         *)
(* Table: every context has a home, the handle its launcher was or will be *)
(* told; it is in the slot of its home, and no two in the table have one   *)
(* home. A doubled table gets in slot k what was in slot k modulo the old  *)
(* size, or nothing, because what is in there has a handle that is k or k  *)
(* plus the size: nothing meets. Names: the table is strictly sorted; the  *)
(* windows of the binary search shrink and keep the name inside, and what  *)
(* is squeezed out leaves the others in their order. Sweep: what a pass    *)
(* has gone by is retired, or was moved ahead of it by a doubling.         *)
(*                                                                         *)
(* That a context is found by its home needs one launcher: a context is    *)
(* registered before its handle is stored in it, and a table that another  *)
(* launcher doubles in between would move it as if its handle were 0.      *)
(***************************************************************************)
EXTENDS HandleStorage, RWLock, SequenceTheorems, FiniteSetTheorems,
        WellFoundedInduction, TLAPS

-----------------------------------------------------------------------------
(* Facts about numbers.                                                    *)

(* A set of numbers that is not empty has a least one.                     *)
LEMMA LeastNumber ==
  ASSUME NEW T \in SUBSET Nat, T # {}
  PROVE  \E m \in T : \A k \in T : m <= k
<1>1. PICK m \in T : \A k \in T : <<k, m>> \notin OpToRel(<, Nat)
  BY NatLessThanWellFounded, WFMin
<1>2. \A k \in T : ~ (k < m)
  BY <1>1 DEF OpToRel
<1> QED BY <1>2

(* A set that has 0 and, with each number below n, the next one has all up *)
(* to n.                                                                   *)
LEMMA InductionTo ==
  ASSUME NEW n \in Nat, NEW G, 0 \in G,
         \A k \in 0..(n - 1) : k \in G => k + 1 \in G
  PROVE  0..n \subseteq G
<1> SUFFICES ASSUME 0..n \ G # {} PROVE FALSE
  OBVIOUS
<1>0. 0..n \ G \in SUBSET Nat
  OBVIOUS
<1>1. PICK m \in 0..n \ G : \A k \in 0..n \ G : m <= k
  BY <1>0, LeastNumber
<1>2. m # 0 /\ m - 1 \in 0..(n - 1)
  BY <1>1
<1>3. m - 1 \in G
  BY <1>1, <1>2
<1> QED BY <1>1, <1>2, <1>3

-----------------------------------------------------------------------------
(* Division with a remainder.                                              *)
LEMMA Division ==
  ASSUME NEW n \in Nat, NEW d \in Nat \ {0}
  PROVE  \E q \in Nat : \E r \in 0..(d - 1) : r = n % d /\ n = d * q + r
<1>1. PICK q : q = n \div d
  OBVIOUS
<1>2. PICK r : r = n % d
  OBVIOUS
<1>3. q \in Nat /\ r \in 0..(d - 1)
  BY <1>1, <1>2
<1>4. n - r = d * q
  BY <1>1, <1>2
<1>5. n = d * q + r
  BY <1>3, <1>4
<1> QED BY <1>2, <1>3, <1>5

(* There is one remainder only.                                            *)
LEMMA Remainder ==
  ASSUME NEW n \in Nat, NEW d \in Nat \ {0}, NEW q \in Nat,
         NEW r \in 0..(d - 1), n = d * q + r
  PROVE  n % d = r
<1>1. PICK p \in Nat : \E t \in 0..(d - 1) : t = n % d /\ n = d * p + t
  BY Division
<1>2. PICK t \in 0..(d - 1) : t = n % d /\ n = d * p + t
  BY <1>1
<1>3. ASSUME NEW a \in Nat, NEW b \in Nat, a < b PROVE d * b >= d * a + d
  <2>1. PICK e \in Nat : b = a + 1 + e
    <3>1. b - a - 1 \in Nat /\ b = a + 1 + (b - a - 1)
      BY <1>3
    <3> QED BY <3>1
  <2>2. d * (a + 1 + e) = d * a + d + d * e
    OBVIOUS
  <2>3. d * e \in Nat /\ d * a \in Nat
    OBVIOUS
  <2> QED BY <2>1, <2>2, <2>3
<1>4. d * p \in Nat /\ d * q \in Nat
  OBVIOUS
<1>5. d * p + t = d * q + r /\ t \in 0..(d - 1)
  BY <1>1, <1>2
<1>6. CASE p < q
  <2>1. d * q >= d * p + d
    BY <1>3, <1>6
  <2> QED BY <1>4, <1>5, <2>1
<1>7. CASE q < p
  <2>1. d * p >= d * q + d
    BY <1>3, <1>7
  <2> QED BY <1>4, <1>5, <2>1
<1>8. CASE p = q
  BY <1>2, <1>4, <1>5, <1>8
<1> QED BY <1>6, <1>7, <1>8

(* The remainder by d does not see multiples of d, ...                     *)
LEMMA AddMultiple ==
  ASSUME NEW n \in Nat, NEW m \in Nat, NEW d \in Nat \ {0}, m % d = 0
  PROVE  (n + m) % d = n % d
<1>1. PICK p \in Nat : \E r \in 0..(d - 1) : r = n % d /\ n = d * p + r
  BY Division
<1>2. PICK q \in Nat : m = d * q
  <2>1. PICK q \in Nat : \E r \in 0..(d - 1) : r = m % d /\ m = d * q + r
    BY Division
  <2>2. d * q \in Nat
    OBVIOUS
  <2> QED BY <2>1, <2>2
<1>3. PICK r \in 0..(d - 1) : r = n % d /\ n = d * p + r
  BY <1>1
<1>4. n = d * p + r /\ r \in 0..(d - 1)
  BY <1>3
<1>5. p + q \in Nat /\ d * (p + q) = d * p + d * q /\ d * p \in Nat
      /\ d * q \in Nat
  OBVIOUS
<1>6. PICK y, u : y = n + m /\ u = p + q
  OBVIOUS
<1>7. y \in Nat /\ u \in Nat /\ y = d * u + r
  BY <1>2, <1>4, <1>5, <1>6
<1>8. y % d = r
  BY <1>3, <1>7, Remainder
<1> QED BY <1>3, <1>6, <1>8

(* ... nor the remainder by a multiple of d.                               *)
LEMMA SmallerRemainder ==
  ASSUME NEW n \in Nat, NEW m \in Nat \ {0}, NEW d \in Nat \ {0}, m % d = 0
  PROVE  (n % m) % d = n % d
<1>1. PICK p \in Nat : \E r \in 0..(m - 1) : r = n % m /\ n = m * p + r
  BY Division
<1>2. PICK q \in Nat : m = d * q
  <2>1. PICK q \in Nat : \E r \in 0..(d - 1) : r = m % d /\ m = d * q + r
    BY Division
  <2>2. d * q \in Nat
    OBVIOUS
  <2> QED BY <2>1, <2>2
<1>3. PICK r \in 0..(m - 1) : r = n % m /\ n = m * p + r
  BY <1>1
<1>4. r \in Nat /\ m * p \in Nat /\ n = r + m * p
  <2>1. m * p \in Nat
    OBVIOUS
  <2> QED BY <1>1, <1>3, <2>1
<1>5. (m * p) % d = 0
  <2>1. m * p = (d * q) * p
    BY <1>2
  <2>2. (d * q) * p = d * (q * p) /\ q * p \in Nat
    OBVIOUS
  <2>3. PICK u : u = q * p
    OBVIOUS
  <2>4. u \in Nat /\ m * p = d * u + 0 /\ 0 \in 0..(d - 1)
    <3>1. d * u \in Nat
      BY <2>2, <2>3
    <3> QED BY <2>1, <2>2, <2>3, <3>1
  <2> QED BY <1>4, <2>4, Remainder
<1>6. PICK v : v = m * p
  OBVIOUS
<1>7. (r + v) % d = r % d
  BY <1>4, <1>5, <1>6, AddMultiple
<1> QED BY <1>3, <1>4, <1>6, <1>7

(* The remainder by 2 * d is one of two.                                   *)
LEMMA DoubleRemainder ==
  ASSUME NEW n \in Nat, NEW d \in Nat \ {0}
  PROVE  /\ n % (2 * d) \in {n % d, (n % d) + d} /\ n % d \in 0..(d - 1)
         /\ n % (2 * d) \in 0..(2 * d - 1)
<1>1. PICK e : e = 2 * d
  OBVIOUS
<1>2. e \in Nat \ {0} /\ e = d * 2 + 0 /\ 0 \in 0..(d - 1) /\ 2 \in Nat
  BY <1>1
<1>3. e % d = 0
  BY <1>2, Remainder
<1>4. PICK s : s = n % e
  OBVIOUS
<1>5. s % d = n % d
  BY <1>2, <1>3, <1>4, SmallerRemainder
<1>6. s \in 0..(2 * d - 1)
  BY <1>1, <1>2, <1>4, Division
<1>7. CASE s < d
  <2>1. s \in Nat /\ s = d * 0 + s /\ s \in 0..(d - 1) /\ 0 \in Nat
    BY <1>6, <1>7
  <2>2. s % d = s
    BY <2>1, Remainder
  <2> QED BY <1>1, <1>4, <1>5, <1>6, <2>1, <2>2
<1>8. CASE s >= d
  <2>1. PICK w : w = s - d
    OBVIOUS
  <2>2. s \in Nat /\ s = d * 1 + w /\ w \in 0..(d - 1) /\ 1 \in Nat
    BY <1>6, <1>8, <2>1
  <2>3. s % d = w
    BY <2>2, Remainder
  <2> QED BY <1>1, <1>4, <1>5, <1>6, <2>2, <2>3
<1> QED BY <1>6, <1>7, <1>8

(* A round from any place meets every remainder.                           *)
LEMMA Round ==
  ASSUME NEW x \in Nat, NEW d \in Nat \ {0}, NEW k \in 0..(d - 1)
  PROVE  \E i \in 0..(d - 1) : (i + x) % d = k
<1>1. PICK q \in Nat : \E r \in 0..(d - 1) : r = x % d /\ x = d * q + r
  BY Division
<1>2. PICK r \in 0..(d - 1) : x = d * q + r
  BY <1>1
<1>3. d * q \in Nat /\ r \in 0..(d - 1) /\ x = d * q + r
  BY <1>2
<1>4. CASE r <= k
  <2>1. PICK i : i = k - r
    OBVIOUS
  <2>2. i \in 0..(d - 1) /\ i + x \in Nat /\ i + x = d * q + k
    BY <1>3, <1>4, <2>1
  <2>3. (i + x) % d = k
    BY <2>2, Remainder
  <2> QED BY <2>2, <2>3
<1>5. CASE r > k
  <2>1. PICK i : i = d + k - r
    OBVIOUS
  <2>2. i \in 0..(d - 1) /\ i + x \in Nat /\ i + x = d * q + d + k
    BY <1>3, <1>5, <2>1
  <2>3. d * (q + 1) = d * q + d /\ q + 1 \in Nat
    BY <1>3
  <2>4. i + x = d * (q + 1) + k
    BY <1>3, <2>2, <2>3
  <2>5. (i + x) % d = k
    BY <2>2, <2>3, <2>4, Remainder
  <2> QED BY <2>2, <2>5
<1> QED BY <1>3, <1>4, <1>5

-----------------------------------------------------------------------------
(* The table of names: sorted, and each name once.                         *)
Entry == [name : Names, handle : Handles]
Sorted(s) == \A i, j \in DOMAIN s : i < j => s[i].name < s[j].name
NamesInv == harbor \in Harbors /\ name \in Seq(Entry) /\ Sorted(name)

-----------------------------------------------------------------------------
(* The binary search. A window of it, and what it does with one.           *)
Window == [begin : 1..(Len(name) + 1), end : 0..Len(name)]
middle(w) == (w.begin + w.end - 2) \div 2 + 1
next(step, n, w) ==
  IF w.begin > w.end THEN [found |-> FALSE, at |-> w.begin]
  ELSE IF name[middle(w)].name = n THEN [found |-> TRUE, at |-> middle(w)]
  ELSE IF name[middle(w)].name < n
       THEN step[[w EXCEPT !.begin = middle(w) + 1]]
       ELSE step[[w EXCEPT !.end = middle(w) - 1]]
steps(n) == CHOOSE step : step = [w \in Window |-> next(step, n, w)]

(* The two halves of a window are windows, and shorter.                    *)
LEMMA Halves ==
  ASSUME name \in Seq(Entry), NEW w \in Window, w.begin <= w.end
  PROVE  /\ middle(w) \in w.begin..w.end /\ middle(w) \in DOMAIN name
         /\ \A v \in {[w EXCEPT !.begin = middle(w) + 1],
                      [w EXCEPT !.end = middle(w) - 1]} :
              v \in Window /\ v.end - v.begin < w.end - w.begin
              /\ v.begin <= v.end + 1
         /\ [w EXCEPT !.begin = middle(w) + 1].begin = middle(w) + 1
         /\ [w EXCEPT !.begin = middle(w) + 1].end = w.end
         /\ [w EXCEPT !.end = middle(w) - 1].begin = w.begin
         /\ [w EXCEPT !.end = middle(w) - 1].end = middle(w) - 1
<1>1. PICK b, e : b = w.begin /\ e = w.end
  OBVIOUS
<1>2. PICK m : m = middle(w)
  OBVIOUS
<1>3. Len(name) \in Nat /\ b \in 1..(Len(name) + 1) /\ e \in 0..Len(name)
      /\ b <= e
  BY <1>1 DEF Window
<1>4. m = (b + e - 2) \div 2 + 1
  BY <1>1, <1>2 DEF middle
<1>5. m \in b..e
  BY <1>3, <1>4
<1>6. PICK v : v = [w EXCEPT !.begin = m + 1]
  OBVIOUS
<1>7. v.begin = m + 1 /\ v.end = e /\ v \in Window
  <2>1. m + 1 \in 1..(Len(name) + 1)
    BY <1>3, <1>5
  <2> QED BY <1>1, <1>6, <2>1 DEF Window
<1>8. PICK u : u = [w EXCEPT !.end = m - 1]
  OBVIOUS
<1>9. u.begin = b /\ u.end = m - 1 /\ u \in Window
  <2>1. m - 1 \in 0..Len(name)
    BY <1>3, <1>5
  <2> QED BY <1>1, <1>8, <2>1 DEF Window
<1>10. /\ v.end - v.begin < e - b /\ v.begin <= v.end + 1
       /\ u.end - u.begin < e - b /\ u.begin <= u.end + 1
       /\ m \in 1..Len(name)
  BY <1>3, <1>5, <1>7, <1>9
<1>11. m \in DOMAIN name
  BY <1>10
<1> QED BY <1>1, <1>2, <1>5, <1>6, <1>7, <1>8, <1>9, <1>10, <1>11

(* There is a function that the recursion of the search describes.         *)
LEMMA StepsExist ==
  ASSUME name \in Seq(Entry), NEW n
  PROVE  \E step : step = [w \in Window |-> next(step, n, w)]
<1> DEFINE Good(f, k) == /\ f = [w \in Window |-> f[w]]
                         /\ \A w \in Window :
                              w.end - w.begin < k => f[w] = next(f, n, w)
           G == {k \in Nat : \E f : Good(f, k)}
<1>1. Len(name) \in Nat
  OBVIOUS
<1>2. \A w \in Window : w.begin \in Nat /\ w.end \in Nat
                        /\ w.end - w.begin < Len(name)
  BY <1>1 DEF Window
<1>3. 0 \in G
  <2>1. PICK f : f = [w \in Window |-> [found |-> FALSE, at |-> w.begin]]
    OBVIOUS
  <2>2. ASSUME NEW w \in Window, w.end - w.begin < 0
        PROVE  f[w] = next(f, n, w)
    <3>1. w.begin > w.end
      BY <1>2, <2>2
    <3> QED BY <2>1, <3>1 DEF next
  <2>3. Good(f, 0)
    BY <2>1, <2>2
  <2> HIDE DEF Good
  <2> QED BY <2>3
<1>4. ASSUME NEW k \in 0..(Len(name) - 1), k \in G PROVE k + 1 \in G
  <2>1. PICK f : Good(f, k)
    BY <1>4
  <2>2. PICK g : g = [w \in Window |-> IF w.end - w.begin < k THEN f[w]
                                       ELSE next(f, n, w)]
    OBVIOUS
  <2>3. g = [w \in Window |-> g[w]]
    BY <2>2
  <2>4. \A w \in Window : w.end - w.begin < k => g[w] = f[w]
    BY <2>2
  <2>5. ASSUME NEW w \in Window, w.end - w.begin < k + 1
        PROVE  g[w] = next(g, n, w)
    <3>1. g[w] = next(f, n, w)
      BY <2>1, <2>2
    <3>2. CASE w.begin > w.end
      BY <3>1, <3>2 DEF next
    <3>3. CASE w.begin <= w.end
      <4>1. PICK u, v : /\ v = [w EXCEPT !.begin = middle(w) + 1]
                        /\ u = [w EXCEPT !.end = middle(w) - 1]
        OBVIOUS
      <4>2. /\ u \in Window /\ u.end - u.begin < w.end - w.begin
            /\ v \in Window /\ v.end - v.begin < w.end - w.begin
        BY <3>3, <4>1, Halves
      <4>3. u.end - u.begin < k /\ v.end - v.begin < k
        BY <1>2, <2>5, <4>2
      <4>4. g[u] = f[u] /\ g[v] = f[v]
        BY <2>4, <4>2, <4>3
      <4>5. next(f, n, w) = next(g, n, w)
        BY <4>1, <4>4 DEF next
      <4> QED BY <3>1, <4>5
    <3> QED BY <1>2, <3>2, <3>3
  <2>6. Good(g, k + 1)
    BY <2>3, <2>5
  <2>7. k + 1 \in Nat
    OBVIOUS
  <2> HIDE DEF Good
  <2> QED BY <2>6, <2>7
<1>5. 0..Len(name) \subseteq G
  <2> HIDE DEF G
  <2> QED BY <1>1, <1>3, <1>4, InductionTo
<1>6. Len(name) \in 0..Len(name)
  BY <1>1
<1>7. PICK f : Good(f, Len(name))
  BY <1>5, <1>6
<1>8. \A w \in Window : f[w] = next(f, n, w)
  BY <1>2, <1>7
<1>9. f = [w \in Window |-> next(f, n, w)]
  BY <1>7, <1>8
<1> QED BY <1>9

-----------------------------------------------------------------------------
(* What the search has found in positions b to e: the name, or the place   *)
(* where it belongs.                                                       *)
Finds(r, n, b, e) ==
  /\ r.found \in BOOLEAN
  /\ r.found => r.at \in b..e /\ name[r.at].name = n
  /\ ~r.found => /\ r.at \in b..(e + 1)
                 /\ \A i \in b..e : IF i < r.at THEN name[i].name < n
                                                ELSE n < name[i].name

(* search(n) is the value of the recursion on the whole table.             *)
LEMMA SearchSteps ==
  ASSUME name \in Seq(Entry), NEW n
  PROVE  /\ \A w \in Window : steps(n)[w] = next(steps(n), n, w)
         /\ search(n) = steps(n)[[begin |-> 1, end |-> Len(name)]]
<1>1. PICK f : f = [w \in Window |-> next(f, n, w)]
  BY StepsExist
<1>2. steps(n) = [w \in Window |-> next(steps(n), n, w)]
  BY <1>1 DEF steps
<1>3. \A w \in Window : steps(n)[w] = next(steps(n), n, w)
  BY <1>2
<1>4. search(n) = steps(n)[[begin |-> 1, end |-> Len(name)]]
  BY DEF search, steps, Window, next, middle
<1> QED BY <1>3, <1>4

(* The search finds the name in every window of a sorted table that has    *)
(* it, and else where it belongs.                                          *)
LEMMA StepsFind ==
  ASSUME NamesInv, NEW n \in Names, NEW k \in 0..Len(name)
  PROVE  \A w \in Window :
           w.end - w.begin < k /\ w.begin <= w.end + 1 =>
             Finds(steps(n)[w], n, w.begin, w.end)
<1> DEFINE P(w) == Finds(steps(n)[w], n, w.begin, w.end)
           G == {m \in Nat : \A w \in Window :
                   w.end - w.begin < m /\ w.begin <= w.end + 1 => P(w)}
<1>1. Len(name) \in Nat /\ name \in Seq(Entry) /\ Sorted(name)
  BY DEF NamesInv
<1>2. \A w \in Window : w.begin \in Nat /\ w.end \in Nat
                        /\ w.begin \in 1..(Len(name) + 1)
                        /\ w.end \in 0..Len(name)
  BY <1>1 DEF Window
<1>3. \A w \in Window : steps(n)[w] = next(steps(n), n, w)
  BY <1>1, SearchSteps
<1>4. \A i \in 1..Len(name) : name[i].name \in Nat
  <2>1. \A i \in 1..Len(name) : name[i] \in Entry
    BY <1>1
  <2>2. \A x \in Entry : x.name \in Nat
    BY HandleAssumption DEF Entry
  <2> QED BY <2>1, <2>2
<1>5. n \in Nat
  BY HandleAssumption
<1>6. ASSUME NEW w \in Window, w.begin = w.end + 1 PROVE P(w)
  <2>0. w.begin > w.end
    BY <1>2, <1>6
  <2>1. steps(n)[w] = [found |-> FALSE, at |-> w.begin]
    BY <1>3, <2>0 DEF next
  <2> QED BY <1>2, <1>6, <2>1 DEF Finds
<1>7. 0 \in G
  <2>1. ASSUME NEW w \in Window, w.end - w.begin < 0, w.begin <= w.end + 1
        PROVE  w.begin = w.end + 1
    BY <1>2, <2>1
  <2> HIDE DEF P
  <2> QED BY <1>6, <2>1
<1>8. ASSUME NEW m \in 0..(k - 1), m \in G PROVE m + 1 \in G
  <2>1. ASSUME NEW w \in Window, w.end - w.begin < m + 1,
               w.begin <= w.end + 1
        PROVE  P(w)
    <3>1. CASE w.begin = w.end + 1
      BY <1>6, <3>1
    <3>2. CASE w.begin <= w.end
      <4>1. PICK d : d = middle(w)
        OBVIOUS
      <4>2. PICK u, v : /\ v = [w EXCEPT !.begin = middle(w) + 1]
                        /\ u = [w EXCEPT !.end = middle(w) - 1]
        OBVIOUS
      <4>3. /\ u \in Window /\ u.end - u.begin < w.end - w.begin
            /\ u.begin <= u.end + 1
            /\ v \in Window /\ v.end - v.begin < w.end - w.begin
            /\ v.begin <= v.end + 1
            /\ v.begin = d + 1 /\ v.end = w.end
            /\ u.begin = w.begin /\ u.end = d - 1
            /\ d \in w.begin..w.end /\ d \in DOMAIN name
        BY <1>1, <3>2, <4>1, <4>2, Halves
      <4>4. u.end - u.begin < m /\ v.end - v.begin < m
        <5>1. /\ w.begin \in Nat /\ w.end \in Nat /\ m \in Nat
              /\ d \in w.begin..w.end /\ w.end - w.begin < m + 1
          BY <1>2, <2>1, <4>3
        <5>2. w.end - (d + 1) < m /\ (d - 1) - w.begin < m
          BY <5>1
        <5> QED BY <4>3, <5>2
      <4>5. P(u) /\ P(v)
        BY <1>8, <4>3, <4>4
      <4>6. ASSUME NEW i \in w.begin..w.end
            PROVE  /\ i \in DOMAIN name
                   /\ i < d => name[i].name < name[d].name
                   /\ i > d => name[i].name > name[d].name
        <5>1. i \in DOMAIN name
          BY <1>1, <1>2
        <5> QED BY <1>1, <4>3, <5>1 DEF Sorted
      <4>7. PICK x : x = name[d].name
        OBVIOUS
      <4>8. x \in Nat
        BY <1>1, <1>4, <4>3, <4>7
      <4>9. steps(n)[w] = IF x = n THEN [found |-> TRUE, at |-> d]
                          ELSE IF x < n THEN steps(n)[v] ELSE steps(n)[u]
        <5>1. ~ w.begin > w.end
          BY <1>2, <3>2
        <5> QED BY <1>3, <4>1, <4>2, <4>7, <5>1 DEF next
      <4>10. CASE x = n
        <5>1. steps(n)[w] = [found |-> TRUE, at |-> d]
          BY <4>9, <4>10
        <5>2. PICK r : r = steps(n)[w]
          OBVIOUS
        <5>3. r.found = TRUE /\ r.at = d
          BY <5>1, <5>2
        <5>4. Finds(r, n, w.begin, w.end)
          BY <4>3, <4>7, <4>10, <5>3 DEF Finds
        <5> QED BY <5>2, <5>4
      <4>11. CASE x < n
        <5>1. PICK r : r = steps(n)[w]
          OBVIOUS
        <5>2. r = steps(n)[v]
          BY <1>5, <4>8, <4>9, <4>11, <5>1
        <5>3. Finds(r, n, d + 1, w.end)
          BY <4>3, <4>5, <5>2
        <5>4. PICK b, e : b = w.begin /\ e = w.end
          OBVIOUS
        <5>5. b \in Nat /\ e \in Nat /\ d \in b..e
          BY <1>2, <4>3, <5>4
        <5>6. ASSUME NEW i \in b..e, i <= d PROVE name[i].name < n
          <6>1. i \in DOMAIN name
            BY <4>6, <5>4
          <6>2. name[i].name \in Nat
            BY <1>1, <1>4, <6>1
          <6>3. i = d \/ i < d
            BY <5>5, <5>6
          <6> QED BY <1>5, <4>6, <4>7, <4>8, <4>11, <5>4, <6>2, <6>3
        <5>7. Finds(r, n, b, e)
          BY <5>3, <5>4, <5>5, <5>6 DEF Finds
        <5> QED BY <5>1, <5>4, <5>7
      <4>12. CASE x > n
        <5>1. PICK r : r = steps(n)[w]
          OBVIOUS
        <5>2. r = steps(n)[u]
          BY <1>5, <4>8, <4>9, <4>12, <5>1
        <5>3. Finds(r, n, w.begin, d - 1)
          BY <4>3, <4>5, <5>2
        <5>4. PICK b, e : b = w.begin /\ e = w.end
          OBVIOUS
        <5>5. b \in Nat /\ e \in Nat /\ d \in b..e
          BY <1>2, <4>3, <5>4
        <5>6. ASSUME NEW i \in b..e, i >= d PROVE n < name[i].name
          <6>1. i \in DOMAIN name
            BY <4>6, <5>4
          <6>2. name[i].name \in Nat
            BY <1>1, <1>4, <6>1
          <6>3. i = d \/ i > d
            BY <5>5, <5>6
          <6> QED BY <1>5, <4>6, <4>7, <4>8, <4>12, <5>4, <6>2, <6>3
        <5>7. Finds(r, n, b, e)
          BY <5>3, <5>4, <5>5, <5>6 DEF Finds
        <5> QED BY <5>1, <5>4, <5>7
      <4> QED BY <1>5, <4>8, <4>10, <4>11, <4>12
    <3> QED BY <1>2, <2>1, <3>1, <3>2
  <2>2. m + 1 \in Nat
    OBVIOUS
  <2> HIDE DEF P
  <2> QED BY <2>1, <2>2
<1>9. k \in Nat /\ k \in 0..k
  BY <1>1
<1>10. 0..k \subseteq G
  <2> HIDE DEF G
  <2> QED BY <1>7, <1>8, <1>9, InductionTo
<1> QED BY <1>9, <1>10

(* The whole table.                                                        *)
LEMMA SearchFinds ==
  ASSUME NamesInv, NEW n \in Names
  PROVE  Finds(search(n), n, 1, Len(name))
<1>1. name \in Seq(Entry) /\ Len(name) \in Nat /\ Len(name) \in 0..Len(name)
  BY DEF NamesInv
<1>2. PICK w : w = [begin |-> 1, end |-> Len(name)]
  OBVIOUS
<1>3. w \in Window /\ w.begin = 1 /\ w.end = Len(name)
  BY <1>1, <1>2 DEF Window
<1>4. w.end - w.begin < Len(name) /\ w.begin <= w.end + 1
  BY <1>1, <1>3
<1>5. Finds(steps(n)[w], n, w.begin, w.end)
  BY <1>1, <1>3, <1>4, StepsFind
<1> QED BY <1>1, <1>2, <1>3, <1>5, SearchSteps

-----------------------------------------------------------------------------
(* Pieces of sequences.                                                    *)
LEMMA Piece ==
  ASSUME NEW S, NEW t \in Seq(S), NEW a \in Nat \ {0}, NEW b \in Nat,
         a <= b + 1, b <= Len(t)
  PROVE  /\ SubSeq(t, a, b) \in Seq(S) /\ Len(SubSeq(t, a, b)) = b - a + 1
         /\ \A i \in 1..(b - a + 1) : SubSeq(t, a, b)[i] = t[a + i - 1]
<1>1. \A i \in a..b : t[i] \in S
  OBVIOUS
<1> QED BY <1>1, SubSeqProperties

(* The first n elements of a sequence.                                     *)
LEMMA First ==
  ASSUME NEW S, NEW t \in Seq(S), NEW n \in 0..Len(t)
  PROVE  /\ SubSeq(t, 1, n) \in Seq(S) /\ Len(SubSeq(t, 1, n)) = n
         /\ \A i \in 1..n : SubSeq(t, 1, n)[i] = t[i]
<1>1. 1 \in Nat \ {0} /\ n \in Nat /\ 1 <= n + 1 /\ n <= Len(t)
      /\ n - 1 + 1 = n /\ \A i \in 1..n : 1 + i - 1 = i
  OBVIOUS
<1>2. /\ SubSeq(t, 1, n) \in Seq(S) /\ Len(SubSeq(t, 1, n)) = n - 1 + 1
      /\ \A i \in 1..(n - 1 + 1) : SubSeq(t, 1, n)[i] = t[1 + i - 1]
  BY <1>1, Piece
<1> QED BY <1>1, <1>2

(* What follows the first n elements.                                      *)
LEMMA Rest ==
  ASSUME NEW S, NEW t \in Seq(S), NEW n \in 0..Len(t)
  PROVE  /\ SubSeq(t, n + 1, Len(t)) \in Seq(S)
         /\ Len(SubSeq(t, n + 1, Len(t))) = Len(t) - n
         /\ \A i \in 1..(Len(t) - n) : SubSeq(t, n + 1, Len(t))[i] = t[n + i]
<1>1. PICK a, b : a = n + 1 /\ b = Len(t)
  OBVIOUS
<1>2. a \in Nat \ {0} /\ b \in Nat /\ a <= b + 1 /\ b <= Len(t)
      /\ b - a + 1 = Len(t) - n
      /\ \A i \in 1..(Len(t) - n) : a + i - 1 = n + i
  BY <1>1
<1>3. /\ SubSeq(t, a, b) \in Seq(S) /\ Len(SubSeq(t, a, b)) = b - a + 1
      /\ \A i \in 1..(b - a + 1) : SubSeq(t, a, b)[i] = t[a + i - 1]
  BY <1>2, Piece
<1> QED BY <1>1, <1>2, <1>3

(* Two sequences, one behind the other.                                    *)
LEMMA Joined ==
  ASSUME NEW S, NEW t \in Seq(S), NEW u \in Seq(S)
  PROVE  /\ t \o u \in Seq(S) /\ Len(t \o u) = Len(t) + Len(u)
         /\ \A i \in 1..Len(t) : (t \o u)[i] = t[i]
         /\ \A i \in 1..Len(u) : (t \o u)[Len(t) + i] = u[i]
<1>1. Len(t) \in Nat /\ Len(u) \in Nat
  OBVIOUS
<1>2. /\ t \o u \in Seq(S) /\ Len(t \o u) = Len(t) + Len(u)
      /\ \A i \in 1..(Len(t) + Len(u)) :
           (t \o u)[i] = IF i <= Len(t) THEN t[i] ELSE u[i - Len(t)]
  BY ConcatProperties
<1>3. ASSUME NEW i \in 1..Len(t) PROVE (t \o u)[i] = t[i]
  <2>1. i \in 1..(Len(t) + Len(u)) /\ i <= Len(t)
    BY <1>1
  <2> QED BY <1>2, <2>1
<1>4. ASSUME NEW i \in 1..Len(u) PROVE (t \o u)[Len(t) + i] = u[i]
  <2>1. PICK n : n = Len(t)
    OBVIOUS
  <2>2. n + i \in 1..(n + Len(u)) /\ ~ n + i <= n /\ (n + i) - n = i
    BY <1>1, <2>1
  <2> QED BY <1>2, <2>1, <2>2
<1> QED BY <1>2, <1>3, <1>4

(* An entry put in before position p.                                      *)
LEMMA PutIn ==
  ASSUME name \in Seq(Entry), NEW x \in Entry, NEW p \in 1..(Len(name) + 1)
  PROVE  /\ inserted(x, p) \in Seq(Entry)
         /\ Len(inserted(x, p)) = Len(name) + 1
         /\ \A i \in 1..(Len(name) + 1) :
              inserted(x, p)[i] = IF i < p THEN name[i]
                                  ELSE IF i = p THEN x ELSE name[i - 1]
<1>1. PICK n, a : n = Len(name) /\ a = p - 1
  OBVIOUS
<1>2. n \in Nat /\ a \in 0..n /\ a + 1 = p
  BY <1>1
<1>3. PICK u, v : u = SubSeq(name, 1, a) /\ v = SubSeq(name, p, n)
  OBVIOUS
<1>4. u \in Seq(Entry) /\ Len(u) = a /\ \A i \in 1..a : u[i] = name[i]
  BY <1>1, <1>2, <1>3, First
<1>5. v \in Seq(Entry) /\ Len(v) = n - a
      /\ \A i \in 1..(n - a) : v[i] = name[a + i]
  BY <1>1, <1>2, <1>3, Rest
<1>6. PICK y : y = <<x>>
  OBVIOUS
<1>7. y \in Seq(Entry) /\ Len(y) = 1 /\ y[1] = x
  BY <1>6
<1>8. PICK t : t = u \o y
  OBVIOUS
<1>9. /\ t \in Seq(Entry) /\ Len(t) = a + 1
      /\ \A i \in 1..a : t[i] = u[i]
      /\ \A i \in 1..1 : t[a + i] = y[i]
  <2>1. u \in Seq(Entry) /\ y \in Seq(Entry)
    BY <1>4, <1>7
  <2>2. /\ u \o y \in Seq(Entry) /\ Len(u \o y) = Len(u) + Len(y)
        /\ \A i \in 1..Len(u) : (u \o y)[i] = u[i]
        /\ \A i \in 1..Len(y) : (u \o y)[Len(u) + i] = y[i]
    BY <2>1, Joined
  <2>3. Len(u) = a /\ Len(y) = 1
    BY <1>4, <1>7
  <2> QED BY <1>8, <2>2, <2>3
<1>10. PICK r : r = t \o v
  OBVIOUS
<1>11. /\ r \in Seq(Entry) /\ Len(r) = (a + 1) + (n - a)
       /\ \A i \in 1..(a + 1) : r[i] = t[i]
       /\ \A i \in 1..(n - a) : r[(a + 1) + i] = v[i]
  <2>1. t \in Seq(Entry) /\ v \in Seq(Entry)
    BY <1>5, <1>9
  <2>2. /\ t \o v \in Seq(Entry) /\ Len(t \o v) = Len(t) + Len(v)
        /\ \A i \in 1..Len(t) : (t \o v)[i] = t[i]
        /\ \A i \in 1..Len(v) : (t \o v)[Len(t) + i] = v[i]
    BY <2>1, Joined
  <2>3. Len(t) = a + 1 /\ Len(v) = n - a
    BY <1>5, <1>9
  <2> QED BY <1>10, <2>2, <2>3
<1>12. inserted(x, p) = r
  BY <1>1, <1>3, <1>6, <1>8, <1>10 DEF inserted
<1>13. ASSUME NEW i \in 1..(n + 1)
       PROVE  r[i] = IF i < p THEN name[i]
                     ELSE IF i = p THEN x ELSE name[i - 1]
  <2>1. CASE i < p
    <3>1. i \in 1..a /\ i \in 1..(a + 1)
      BY <1>2, <2>1
    <3> QED BY <1>4, <1>9, <1>11, <2>1, <3>1
  <2>2. CASE i = p
    <3>1. i = a + 1 /\ 1 \in 1..1 /\ i \in 1..(a + 1) /\ ~ i < p
      BY <1>2, <2>2
    <3> QED BY <1>7, <1>9, <1>11, <2>2, <3>1
  <2>3. CASE i > p
    <3>1. PICK j : j = i - p
      OBVIOUS
    <3>2. j \in 1..(n - a) /\ i = (a + 1) + j /\ i - 1 = a + j /\ ~ i < p
          /\ i # p
      BY <1>2, <2>3, <3>1
    <3>3. r[i] = v[j] /\ v[j] = name[i - 1]
      BY <1>5, <1>11, <3>2
    <3> QED BY <3>2, <3>3
  <2> QED BY <1>2, <2>1, <2>2, <2>3
<1>14. Len(r) = n + 1
  BY <1>2, <1>11
<1> QED BY <1>1, <1>11, <1>12, <1>13, <1>14

(* An insertion where the search stopped leaves the table sorted.          *)
LEMMA InsertedSorted ==
  ASSUME NamesInv, NEW n \in Names, NEW h \in Handles, ~search(n).found
  PROVE  LET t == inserted([name |-> n, handle |-> h], search(n).at)
         IN  t \in Seq(Entry) /\ Sorted(t)
<1>1. name \in Seq(Entry) /\ Sorted(name) /\ Len(name) \in Nat
  BY DEF NamesInv
<1>2. PICK r : r = search(n)
  OBVIOUS
<1>3. Finds(r, n, 1, Len(name))
  BY <1>2, SearchFinds
<1>4. PICK p : p = r.at
  OBVIOUS
<1>5. /\ p \in 1..(Len(name) + 1)
      /\ \A i \in 1..Len(name) : IF i < p THEN name[i].name < n
                                          ELSE n < name[i].name
  BY <1>2, <1>3, <1>4 DEF Finds
<1>6. PICK x : x = [name |-> n, handle |-> h]
  OBVIOUS
<1>7. x \in Entry /\ x.name = n
  BY <1>6 DEF Entry
<1>8. PICK t : t = inserted(x, p)
  OBVIOUS
<1>9. /\ t \in Seq(Entry) /\ Len(t) = Len(name) + 1
      /\ \A i \in 1..(Len(name) + 1) :
           t[i] = IF i < p THEN name[i] ELSE IF i = p THEN x ELSE name[i - 1]
  BY <1>1, <1>5, <1>7, <1>8, PutIn
<1>10. ASSUME NEW i \in 1..(Len(name) + 1), NEW j \in 1..(Len(name) + 1), i < j
       PROVE  t[i].name < t[j].name
  <2>1. CASE j < p
    <3>1. t[i] = name[i] /\ t[j] = name[j] /\ i \in DOMAIN name
          /\ j \in DOMAIN name
      BY <1>1, <1>5, <1>9, <1>10, <2>1
    <3> QED BY <1>1, <1>10, <3>1 DEF Sorted
  <2>2. CASE j = p
    <3>1. t[i] = name[i] /\ t[j] = x /\ i \in 1..Len(name) /\ i < p
      BY <1>1, <1>5, <1>9, <1>10, <2>2
    <3> QED BY <1>5, <1>7, <3>1
  <2>3. CASE i = p
    <3>1. t[i] = x /\ t[j] = name[j - 1] /\ j - 1 \in 1..Len(name)
          /\ ~ j - 1 < p
      BY <1>1, <1>5, <1>9, <1>10, <2>3
    <3> QED BY <1>5, <1>7, <3>1
  <2>4. CASE i < p /\ p < j
    <3>1. PICK l : l = j - 1
      OBVIOUS
    <3>2. t[i] = name[i] /\ t[j] = name[l] /\ i \in 1..Len(name)
          /\ l \in 1..Len(name) /\ i < l
      BY <1>1, <1>5, <1>9, <1>10, <2>4, <3>1
    <3>3. i \in DOMAIN name /\ l \in DOMAIN name
      BY <1>1, <3>2
    <3> QED BY <1>1, <3>2, <3>3 DEF Sorted
  <2>5. CASE p < i
    <3>1. PICK k, l : k = i - 1 /\ l = j - 1
      OBVIOUS
    <3>2. t[i] = name[k] /\ t[j] = name[l] /\ k \in 1..Len(name)
          /\ l \in 1..Len(name) /\ k < l
      BY <1>1, <1>5, <1>9, <1>10, <2>5, <3>1
    <3>3. k \in DOMAIN name /\ l \in DOMAIN name
      BY <1>1, <3>2
    <3> QED BY <1>1, <3>2, <3>3 DEF Sorted
  <2> QED BY <1>5, <2>1, <2>2, <2>3, <2>4, <2>5
<1>11. DOMAIN t = 1..(Len(name) + 1)
  BY <1>1, <1>9
<1>12. Sorted(t)
  BY <1>10, <1>11 DEF Sorted
<1> QED BY <1>2, <1>4, <1>6, <1>8, <1>9, <1>12

-----------------------------------------------------------------------------
(* Squeezing out: what is kept of the first i entries.                     *)
keep(kept, h, i) ==
  IF i = 0 THEN <<>>
  ELSE IF name[i].handle = h THEN kept[i - 1] ELSE Append(kept[i - 1], name[i])
keeping(h) ==
  CHOOSE kept : kept = [i \in 0..Len(name) |-> keep(kept, h, i)]

(* There is a function that the recursion of unnamed describes.            *)
LEMMA KeepingExists ==
  ASSUME name \in Seq(Entry), NEW h
  PROVE  \E kept : kept = [i \in 0..Len(name) |-> keep(kept, h, i)]
<1> DEFINE Good(f, k) == /\ f = [i \in 0..Len(name) |-> f[i]]
                         /\ \A i \in 0..k : f[i] = keep(f, h, i)
           G == {k \in Nat : \E f : Good(f, k)}
<1>1. Len(name) \in Nat
  OBVIOUS
<1>2. 0 \in G
  <2>1. PICK f : f = [i \in 0..Len(name) |-> <<>>]
    OBVIOUS
  <2>2. f[0] = <<>> /\ \A i \in 0..0 : i = 0
    BY <1>1, <2>1
  <2>3. Good(f, 0)
    BY <2>1, <2>2 DEF keep
  <2> HIDE DEF Good
  <2> QED BY <2>3
<1>3. ASSUME NEW k \in 0..(Len(name) - 1), k \in G PROVE k + 1 \in G
  <2>1. PICK f : Good(f, k)
    BY <1>3
  <2>2. PICK g : g = [i \in 0..Len(name) |->
                        IF i = k + 1 THEN keep(f, h, i) ELSE f[i]]
    OBVIOUS
  <2>3. g = [i \in 0..Len(name) |-> g[i]]
    BY <2>2
  <2>4. \A i \in 0..k : g[i] = f[i] /\ g[k + 1] = keep(f, h, k + 1)
    <3>1. \A i \in 0..k : i \in 0..Len(name) /\ i # k + 1
      BY <1>1
    <3>2. k + 1 \in 0..Len(name)
      BY <1>1
    <3> QED BY <2>2, <3>1, <3>2
  <2>5. ASSUME NEW i \in 0..(k + 1) PROVE g[i] = keep(g, h, i)
    <3>1. CASE i \in 0..k
      <4>1. i = 0 \/ i - 1 \in 0..k
        BY <3>1
      <4>2. keep(g, h, i) = keep(f, h, i)
        BY <2>4, <4>1 DEF keep
      <4> QED BY <2>1, <2>4, <3>1, <4>2
    <3>2. CASE i = k + 1
      <4>1. i - 1 = k /\ k \in 0..k
        BY <3>2
      <4>2. keep(g, h, i) = keep(f, h, i)
        BY <2>4, <4>1 DEF keep
      <4> QED BY <2>4, <3>2, <4>1, <4>2
    <3> QED BY <3>1, <3>2
  <2>6. Good(g, k + 1)
    BY <2>3, <2>5
  <2>7. k + 1 \in Nat
    OBVIOUS
  <2> HIDE DEF Good
  <2> QED BY <2>6, <2>7
<1>4. 0..Len(name) \subseteq G
  <2> HIDE DEF G
  <2> QED BY <1>1, <1>2, <1>3, InductionTo
<1>5. PICK f : Good(f, Len(name))
  <2>1. Len(name) \in 0..Len(name)
    BY <1>1
  <2> QED BY <1>4, <2>1
<1>6. f = [i \in 0..Len(name) |-> keep(f, h, i)]
  BY <1>5
<1> QED BY <1>6

(* The entries of a table of names.                                        *)
Entries(s) == {s[i] : i \in DOMAIN s}

(* What is left is sorted and is every entry of another handle.            *)
LEMMA KeepingKeeps ==
  ASSUME NamesInv, NEW h
  PROVE  /\ unnamed(h) \in Seq(Entry) /\ Sorted(unnamed(h))
         /\ Entries(unnamed(h)) = {x \in Entries(name) : x.handle # h}
<1>1. name \in Seq(Entry) /\ Sorted(name) /\ Len(name) \in Nat
  BY DEF NamesInv
<1>2. PICK f : f = keeping(h)
  OBVIOUS
<1>3. f = [i \in 0..Len(name) |-> keep(f, h, i)]
  <2>1. PICK g : g = [i \in 0..Len(name) |-> keep(g, h, i)]
    BY <1>1, KeepingExists
  <2> QED BY <1>2, <2>1 DEF keeping
<1>4. unnamed(h) = f[Len(name)]
  BY <1>2 DEF unnamed, keeping, keep
<1> DEFINE P(i) ==
      /\ f[i] \in Seq(Entry) /\ Sorted(f[i])
      /\ \A j \in DOMAIN f[i] : \E k \in 1..i :
           f[i][j] = name[k] /\ name[k].handle # h
      /\ \A k \in 1..i : name[k].handle # h =>
           \E j \in DOMAIN f[i] : f[i][j] = name[k]
   G == {i \in Nat : i <= Len(name) => P(i)}
<1>5. 0 \in G
  <2>1. f[0] = <<>>
    BY <1>1, <1>3 DEF keep
  <2>2. f[0] \in Seq(Entry) /\ DOMAIN f[0] = 1..0 /\ 1..0 = {}
    BY <2>1
  <2>3. P(0)
    BY <2>2 DEF Sorted
  <2> HIDE DEF P
  <2> QED BY <2>3
<1>6. ASSUME NEW i \in 0..(Len(name) - 1), i \in G PROVE i + 1 \in G
  <2>1. PICK m : m = i + 1
    OBVIOUS
  <2>2. m \in 1..Len(name) /\ m \in 0..Len(name) /\ m - 1 = i /\ m # 0
        /\ m \in Nat /\ m \in DOMAIN name /\ i <= Len(name) /\ i \in Nat
        /\ 1..m = 1..i \cup {m}
    BY <1>1, <2>1
  <2>3. P(i)
    BY <1>6, <2>2
  <2>4. PICK s, x : s = f[i] /\ x = name[m]
    OBVIOUS
  <2>5. f[m] = IF x.handle = h THEN s ELSE Append(s, x)
    BY <1>3, <2>2, <2>4 DEF keep
  <2>6. CASE x.handle = h
    BY <2>2, <2>3, <2>4, <2>5, <2>6
  <2>7. CASE x.handle # h
    <3>1. x \in Entry /\ s \in Seq(Entry)
      BY <1>1, <2>2, <2>3, <2>4
    <3>2. PICK t, n : t = Append(s, x) /\ n = Len(s)
      OBVIOUS
    <3>3. /\ t \in Seq(Entry) /\ Len(t) = n + 1 /\ n \in Nat
          /\ \A j \in 1..n : t[j] = s[j]
          /\ t[n + 1] = x
      BY <3>1, <3>2, AppendProperties
    <3>4. DOMAIN t = 1..n \cup {n + 1} /\ DOMAIN s = 1..n
      BY <3>1, <3>2, <3>3
    <3>5. ASSUME NEW j \in 1..n PROVE s[j].name < x.name
      <4>1. PICK k \in 1..i : s[j] = name[k]
        BY <2>3, <2>4, <3>4
      <4>2. k \in DOMAIN name /\ k < m
        BY <1>1, <2>2
      <4> QED BY <1>1, <2>2, <2>4, <4>1, <4>2 DEF Sorted
    <3>6. ASSUME NEW j \in DOMAIN t, NEW l \in DOMAIN t, j < l
          PROVE  t[j].name < t[l].name
      <4>1. CASE l \in 1..n
        <5>1. j \in 1..n
          BY <3>3, <3>4, <3>6, <4>1
        <5>2. Sorted(s)
          BY <2>3, <2>4
        <5> QED BY <3>3, <3>4, <3>6, <4>1, <5>1, <5>2 DEF Sorted
      <4>2. CASE l = n + 1
        <5>1. j \in 1..n
          BY <3>3, <3>4, <3>6, <4>2
        <5> QED BY <3>3, <3>5, <4>2, <5>1
      <4> QED BY <3>4, <4>1, <4>2
    <3>7. Sorted(t)
      BY <3>6 DEF Sorted
    <3>8. \A j \in DOMAIN t : \E k \in 1..m : t[j] = name[k]
                                              /\ name[k].handle # h
      <4>1. \A j \in 1..n : \E k \in 1..i : s[j] = name[k]
                                            /\ name[k].handle # h
        BY <2>3, <2>4, <3>4
      <4>2. \A j \in 1..n : \E k \in 1..m : t[j] = name[k]
                                            /\ name[k].handle # h
        BY <2>2, <3>3, <4>1
      <4>3. t[n + 1] = name[m] /\ name[m].handle # h /\ m \in 1..m
        BY <2>2, <2>4, <2>7, <3>3
      <4> QED BY <3>4, <4>2, <4>3
    <3>9. ASSUME NEW k \in 1..m, name[k].handle # h
          PROVE  \E j \in DOMAIN t : t[j] = name[k]
      <4>1. CASE k \in 1..i
        <5>1. PICK j \in DOMAIN s : s[j] = name[k]
          BY <2>3, <2>4, <3>9, <4>1
        <5> QED BY <3>3, <3>4, <5>1
      <4>2. CASE k = m
        BY <2>4, <3>3, <3>4, <4>2
      <4> QED BY <2>2, <4>1, <4>2
    <3>10. f[m] = t
      BY <2>5, <2>7, <3>2
    <3>11. P(m)
      BY <3>3, <3>7, <3>8, <3>9, <3>10
    <3> HIDE DEF P
    <3> QED BY <2>1, <2>2, <3>11
  <2> QED BY <2>6, <2>7
<1>7. 0..Len(name) \subseteq G
  <2> HIDE DEF G
  <2> QED BY <1>1, <1>5, <1>6, InductionTo
<1>8. P(Len(name))
  <2>1. Len(name) \in 0..Len(name) /\ Len(name) <= Len(name)
    BY <1>1
  <2> HIDE DEF P
  <2> QED BY <1>7, <2>1
<1>9. PICK r : r = unnamed(h)
  OBVIOUS
<1>10. /\ r \in Seq(Entry) /\ Sorted(r)
       /\ \A j \in DOMAIN r : \E k \in DOMAIN name :
            r[j] = name[k] /\ name[k].handle # h
       /\ \A k \in DOMAIN name : name[k].handle # h =>
            \E j \in DOMAIN r : r[j] = name[k]
  <2>1. DOMAIN name = 1..Len(name) /\ r = f[Len(name)]
    BY <1>1, <1>4, <1>9
  <2> QED BY <1>8, <2>1
<1>11. Entries(r) = {x \in Entries(name) : x.handle # h}
  BY <1>10 DEF Entries
<1> QED BY <1>9, <1>10, <1>11

-----------------------------------------------------------------------------
(* The table of names is empty at first.                                   *)
LEMMA InitNames == Init => NamesInv
<1> SUFFICES ASSUME Init PROVE NamesInv
  OBVIOUS
<1>1. name = <<>> /\ harbor \in Harbors
  BY DEF Init
<1>2. <<>> \in Seq(Entry) /\ DOMAIN <<>> = 1..0 /\ 1..0 = {}
  OBVIOUS
<1>3. Sorted(name)
  BY <1>1, <1>2 DEF Sorted
<1> QED BY <1>1, <1>2, <1>3 DEF NamesInv

(* The handles that services have are numbers of this node.                *)
LEMMA HandlesHere ==
  ASSUME harbor \in Harbors
  PROVE  /\ Handles \subseteq Nat /\ 0 \in Handles /\ harbor \in Nat
         /\ harbor % HandleCount = 0
         /\ harbor..(harbor + HandleCount - 1) \subseteq Handles
<1>1. /\ HandleCount \in Nat \ {0}
      /\ \A h \in Harbors : h \in Nat /\ h % HandleCount = 0
  BY HandleAssumption
<1>2. Handles \subseteq Nat
  BY <1>1 DEF Handles
<1>3. 0 \in Handles
  <2>1. 0 \in Harbors \cup {0} /\ 0 \in 0..(HandleCount - 1)
    BY <1>1
  <2>2. \E h \in Harbors \cup {0}, i \in 0..(HandleCount - 1) : 0 = h + i
    <3>1. 0 = 0 + 0
      OBVIOUS
    <3> QED BY <2>1, <3>1
  <2> QED BY <2>2 DEF Handles
<1>4. ASSUME NEW h \in harbor..(harbor + HandleCount - 1) PROVE h \in Handles
  <2>1. h - harbor \in 0..(HandleCount - 1) /\ h = harbor + (h - harbor)
    BY <1>1
  <2> QED BY <2>1 DEF Handles
<1> QED BY <1>1, <1>2, <1>3, <1>4

(* Names are put in where the search stopped, and squeezed out; both leave *)
(* the table sorted.                                                       *)
LEMMA NamesStep ==
  ASSUME NamesInv, [Next]_vars
  PROVE  NamesInv'
<1>1. name \in Seq(Entry) /\ Sorted(name) /\ harbor \in Harbors
  BY DEF NamesInv
<1>2. CASE UNCHANGED <<harbor, name>>
  BY <1>1, <1>2 DEF NamesInv
<1>3. ASSUME NEW h, name' = unnamed(h), harbor' = harbor PROVE NamesInv'
  BY <1>1, <1>3, KeepingKeeps DEF NamesInv
<1>4. ASSUME NEW h \in harbor..(harbor + HandleCount - 1), NEW n \in Names,
             NameHandle(h, n)
      PROVE  NamesInv'
  <2>1. h \in Handles
    BY <1>1, <1>4, HandlesHere
  <2>2. ~search(n).found /\ harbor' = harbor
        /\ name' = inserted([name |-> n, handle |-> h], search(n).at)
    BY <1>4 DEF NameHandle
  <2>3. name' \in Seq(Entry) /\ Sorted(name')
    BY <2>1, <2>2, InsertedSorted
  <2> QED BY <1>1, <2>2, <2>3 DEF NamesInv
<1>5. ASSUME NEW l \in Launchers, NEW c \in Contexts, Register(l, c)
      PROVE  UNCHANGED <<harbor, name>>
  BY <1>5 DEF Register
<1>6. ASSUME NEW l \in Launchers, Assign(l) PROVE UNCHANGED <<harbor, name>>
  BY <1>6 DEF Assign
<1>7. ASSUME NEW c \in Contexts, Retire(c) PROVE NamesInv'
  BY <1>3, <1>7 DEF Retire, retire
<1>8. CASE SweepPass \/ SweepLook
  BY <1>2, <1>8 DEF SweepPass, SweepLook
<1>9. CASE SweepRetire
  <2>1. harbor' = harbor
        /\ (name' = name \/ name' = unnamed(handle[grab(sweep.handle)]))
    BY <1>9 DEF SweepRetire, retire
  <2> QED BY <1>2, <1>3, <2>1
<1>10. CASE UNCHANGED vars
  BY <1>2, <1>10 DEF vars
<1> QED BY <1>2, <1>4, <1>5, <1>6, <1>7, <1>8, <1>9, <1>10 DEF Next

(* The names are sorted in every reachable state, with any number of       *)
(* launching threads.                                                      *)
THEOREM NamesSorted == Spec => []NamesInv
BY InitNames, NamesStep, PTL DEF Spec

(* skynet_handle_findname finds exactly the names in the table, and with   *)
(* the handle they were given (NameFound).                                 *)
THEOREM NamesFound == Spec => []NameFound
<1>1. ASSUME NamesInv, NEW n \in Names
      PROVE  skynet_handle_findname(n) =
               IF \E i \in DOMAIN name : name[i].name = n
               THEN (CHOOSE e \in {name[i] : i \in DOMAIN name} :
                       e.name = n).handle
               ELSE 0
  <2>1. PICK r : r = search(n)
    OBVIOUS
  <2>2. Finds(r, n, 1, Len(name))
    BY <1>1, <2>1, SearchFinds
  <2>3. name \in Seq(Entry) /\ Sorted(name)
    BY <1>1 DEF NamesInv
  <2>4. DOMAIN name = 1..Len(name) /\ Len(name) \in Nat
    BY <2>3
  <2>5. \A i \in DOMAIN name : name[i].name \in Nat
    <3>1. \A i \in DOMAIN name : name[i] \in Entry
      BY <2>3, <2>4
    <3>2. \A x \in Entry : x.name \in Nat
      BY HandleAssumption DEF Entry
    <3> QED BY <3>1, <3>2
  <2>6. n \in Nat
    BY HandleAssumption
  <2>7. skynet_handle_findname(n) = IF r.found THEN name[r.at].handle ELSE 0
    BY <2>1 DEF skynet_handle_findname
  <2>8. CASE r.found
    <3>1. r.at \in DOMAIN name /\ name[r.at].name = n
      BY <2>2, <2>4, <2>8 DEF Finds
    <3>2. ASSUME NEW i \in DOMAIN name, name[i].name = n PROVE i = r.at
      <4>1. ~ i < r.at /\ ~ r.at < i
        BY <2>3, <2>6, <3>1, <3>2 DEF Sorted
      <4>2. i \in Nat /\ r.at \in Nat
        BY <2>4, <3>1
      <4> QED BY <4>1, <4>2
    <3>3. PICK N : N = {name[i] : i \in DOMAIN name}
      OBVIOUS
    <3>4. name[r.at] \in N /\ \A e \in N : e.name = n => e = name[r.at]
      BY <3>1, <3>2, <3>3
    <3>5. (CHOOSE e \in N : e.name = n) = name[r.at]
      BY <3>1, <3>4
    <3> QED BY <2>7, <2>8, <3>1, <3>3, <3>5
  <2>9. CASE ~r.found
    <3>1. \A i \in DOMAIN name : name[i].name < n \/ n < name[i].name
      BY <2>2, <2>4, <2>9 DEF Finds
    <3>2. \A i \in DOMAIN name : name[i].name # n
      BY <2>5, <2>6, <3>1
    <3> QED BY <2>7, <2>9, <3>2
  <2> QED BY <2>8, <2>9
<1>2. NamesInv => NameFound
  BY <1>1 DEF NameFound
<1> QED BY NamesSorted, <1>2, PTL

-----------------------------------------------------------------------------
(* The table of contexts. skynet_context_new gives out one handle at a     *)
(* time when the launcher service is the only one that calls it.           *)
OneLauncher == \A l, m \in Launchers : l = m

(* t is a table of size s in which no context is twice.                    *)
Table(t, s) ==
  /\ s \in Nat \ {0} /\ HandleCount % s = 0
  /\ t \in [0..(s - 1) -> Contexts \cup {Null}]
  /\ \A j, k \in 0..(s - 1) : t[j] # Null /\ t[j] = t[k] => j = k

(* Context c is where a search for handle h looks.                         *)
Home(t, s, c, h) == t[hash(h, s)] = c

(* The contexts in table t of size s.                                      *)
Held(t, s) == {c \in Contexts : \E k \in 0..(s - 1) : t[k] = c}

(* Every service is found by the handle its launcher was or will be told.  *)
TableInv ==
  /\ Table(slot, slot_size)
  /\ \A c \in settled : Home(slot, slot_size, c, handle[c])
  /\ \A l \in Launchers : launch[l] # Null =>
       Home(slot, slot_size, launch[l].ctx, launch[l].handle)
  /\ \A c \in Contexts : c \notin settled => handle[c] = 0
  /\ ~crashed

(* What the type of the variables says of handles and harbor.              *)
LEMMA TypesOf ==
  ASSUME TypeOK
  PROVE  /\ handle \in [Contexts -> Nat] /\ harbor \in Nat
         /\ harbor % HandleCount = 0 /\ harbor \in Harbors
         /\ HandleCount \in Nat \ {0} /\ handle_index \in Nat
<1>1. handle \in [Contexts -> Handles] /\ harbor \in Harbors
      /\ handle_index \in 1..HandleCount
  BY DEF TypeOK
<1>2. Handles \subseteq Nat /\ harbor \in Nat /\ harbor % HandleCount = 0
  BY <1>1, HandlesHere
<1>3. HandleCount \in Nat \ {0}
  BY HandleAssumption
<1>4. handle \in [Contexts -> Nat]
  BY <1>1, <1>2
<1>5. handle_index \in Nat
  BY <1>1, <1>3
<1> QED BY <1>1, <1>2, <1>3, <1>4, <1>5

(* The size of the table is the size of its domain.                        *)
LEMMA SizeOf ==
  ASSUME NEW s \in Nat, DOMAIN slot = 0..(s - 1)
  PROVE  slot_size = s
<1>1. Cardinality(0..(s - 1)) = s
  <2>1. 0 \in Int /\ s - 1 \in Int
    OBVIOUS
  <2>2. Cardinality(0..(s - 1)) = IF 0 > s - 1 THEN 0 ELSE (s - 1) - 0 + 1
    BY <2>1, FS_Interval
  <2> QED BY <2>2
<1> QED BY <1>1 DEF slot_size

(* The same after a step.                                                  *)
LEMMA SizeOfNext ==
  ASSUME NEW s \in Nat, DOMAIN slot' = 0..(s - 1)
  PROVE  slot_size' = s
<1>1. Cardinality(0..(s - 1)) = s
  <2>1. 0 \in Int /\ s - 1 \in Int
    OBVIOUS
  <2>2. Cardinality(0..(s - 1)) = IF 0 > s - 1 THEN 0 ELSE (s - 1) - 0 + 1
    BY <2>1, FS_Interval
  <2> QED BY <2>2
<1> QED BY <1>1 DEF slot_size

(* A handle has its slot in every table.                                   *)
LEMMA HashInTable ==
  ASSUME NEW h \in Nat, NEW s \in Nat \ {0}
  PROVE  hash(h, s) \in 0..(s - 1)
<1>1. PICK q \in Nat : \E r \in 0..(s - 1) : r = h % s /\ h = s * q + r
  BY Division
<1> QED BY <1>1 DEF hash

(* A context in the table is where its handle says.                        *)
LEMMA AtHome ==
  ASSUME NEW t, NEW s, Table(t, s), NEW k \in 0..(s - 1), NEW h \in Nat,
         t[k] # Null, Home(t, s, t[k], h)
  PROVE  k = hash(h, s)
<1>1. hash(h, s) \in 0..(s - 1)
  BY HashInTable DEF Table
<1> QED BY <1>1 DEF Table, Home

(* A full table is smaller than the range of handles, and can be doubled.  *)
LEMMA RoomToGrow ==
  ASSUME NEW t, NEW s, Table(t, s), \A k \in 0..(s - 1) : t[k] # Null,
         NEW c \in Contexts, c \notin Held(t, s)
  PROVE  2 * s \in Nat \ {0} /\ HandleCount % (2 * s) = 0
<1>1. /\ s \in Nat \ {0} /\ HandleCount % s = 0 /\ HandleCount \in Nat \ {0}
      /\ t \in [0..(s - 1) -> Contexts \cup {Null}]
      /\ IsFiniteSet(Contexts) /\ Cardinality(Contexts) <= HandleCount
  BY HandleAssumption DEF Table
<1>2. PICK O, D : O = Contexts \ {c} /\ D = 0..(s - 1)
  OBVIOUS
<1>3. IsFiniteSet(O) /\ Cardinality(O) = Cardinality(Contexts) - 1
  BY <1>1, <1>2, FS_RemoveElement
<1>4. t \in Injection(D, O)
  <2>1. \A k \in D : t[k] \in O
    BY <1>1, <1>2 DEF Held
  <2>2. \A j, k \in D : t[j] = t[k] => j = k
    BY <1>2 DEF Table
  <2>3. t \in [D -> O]
    BY <1>1, <1>2, <2>1
  <2> QED BY <2>2, <2>3 DEF Injection, IsInjective
<1>5. Cardinality(D) <= Cardinality(O)
  BY <1>3, <1>4, FS_Injection
<1>6. Cardinality(D) = s
  <2>1. 0 \in Int /\ s - 1 \in Int
    BY <1>1
  <2>2. Cardinality(0..(s - 1)) = IF 0 > s - 1 THEN 0 ELSE (s - 1) - 0 + 1
    BY <2>1, FS_Interval
  <2> QED BY <1>1, <1>2, <2>2
<1>7. Cardinality(Contexts) \in Nat
  BY <1>1, FS_CardinalityType
<1>8. s \in 1..(HandleCount - 1)
  BY <1>1, <1>3, <1>5, <1>6, <1>7
<1> QED BY <1>1, <1>8, HandleAssumption

-----------------------------------------------------------------------------
(* Where the entry of slot k of the doubled table comes from.              *)
from(k, s) == IF k < s THEN k ELSE k - s

(* At a doubling one entry at most moves to each slot, the one whose       *)
(* handle belongs there.                                                   *)
LEMMA MovesOne ==
  ASSUME NEW s, Table(slot, s), slot_size = s,
         handle \in [Contexts -> Nat], \A k \in 0..(s - 1) : slot[k] # Null,
         \A d \in Held(slot, s) : Home(slot, s, d, handle[d]),
         NEW k \in 0..(2 * s - 1)
  PROVE  /\ from(k, s) \in 0..(s - 1)
         /\ moved(k) = {i \in {from(k, s)} : hash(handle[slot[i]], 2 * s) = k}
         /\ new_slot[k] = IF hash(handle[slot[from(k, s)]], 2 * s) = k
                          THEN slot[from(k, s)] ELSE Null
         /\ Cardinality(moved(k)) <= 1
<1>1. s \in Nat \ {0} /\ slot \in [0..(s - 1) -> Contexts \cup {Null}]
  BY DEF Table
<1>2. PICK m : m = from(k, s)
  OBVIOUS
<1>3. m \in 0..(s - 1) /\ (k = m \/ k = m + s)
  BY <1>1, <1>2 DEF from
<1>4. moved(k) = {i \in 0..(s - 1) : hash(handle[slot[i]], 2 * s) = k}
  BY <1>1 DEF moved, rehash
<1>5. ASSUME NEW i \in 0..(s - 1), hash(handle[slot[i]], 2 * s) = k
      PROVE  i = m
  <2>1. PICK d : d = slot[i]
    OBVIOUS
  <2>2. d \in Contexts /\ d # Null /\ d \in Held(slot, s)
    BY <1>1, <2>1 DEF Held
  <2>3. PICK h : h = handle[d]
    OBVIOUS
  <2>4. h \in Nat /\ Home(slot, s, d, h)
    BY <2>2, <2>3
  <2>5. i = hash(h, s)
    BY <2>1, <2>2, <2>4, AtHome
  <2>6. i = h % s /\ k = h % (2 * s)
    BY <1>5, <2>1, <2>3, <2>5 DEF hash
  <2>7. k = i \/ k = i + s
    BY <1>1, <2>4, <2>6, DoubleRemainder
  <2> QED BY <1>1, <1>3, <2>7
<1>6. moved(k) = {i \in {m} : hash(handle[slot[i]], 2 * s) = k}
  BY <1>3, <1>4, <1>5
<1>7. moved(k) = {} \/ moved(k) = {m}
  BY <1>6
<1>8. Cardinality(moved(k)) <= 1
  <2>1. Cardinality({}) = 0 /\ Cardinality({m}) = 1
    BY FS_EmptySet, FS_Singleton
  <2>2. PICK u : u = moved(k)
    OBVIOUS
  <2>3. Cardinality(u) = 0 \/ Cardinality(u) = 1
    BY <1>7, <2>1, <2>2
  <2> QED BY <2>2, <2>3
<1>9. new_slot[k] = IF moved(k) = {} THEN Null ELSE slot[Min(moved(k))]
  BY DEF new_slot
<1>10. Min({m}) = m
  <2>1. \A x \in {m} : \A y \in {m} : x <= y
    BY <1>1, <1>3
  <2>2. \E x \in {m} : \A y \in {m} : x <= y
    BY <2>1
  <2> QED BY <2>2 DEF Min
<1>11. new_slot[k] = IF hash(handle[slot[m]], 2 * s) = k THEN slot[m]
                     ELSE Null
  <2>1. CASE hash(handle[slot[m]], 2 * s) = k
    <3>1. moved(k) = {m} /\ moved(k) # {}
      BY <1>6, <2>1
    <3> QED BY <1>9, <1>10, <2>1, <3>1
  <2>2. CASE hash(handle[slot[m]], 2 * s) # k
    <3>1. moved(k) = {}
      BY <1>6, <2>2
    <3> QED BY <1>9, <2>2, <3>1
  <2> QED BY <2>1, <2>2
<1> QED BY <1>2, <1>3, <1>6, <1>8, <1>11

(* The doubled table has the same contexts, each where its handle says,    *)
(* and a free slot.                                                        *)
LEMMA Doubled ==
  ASSUME NEW s, Table(slot, s), slot_size = s,
         handle \in [Contexts -> Nat], \A k \in 0..(s - 1) : slot[k] # Null,
         \A d \in Held(slot, s) : Home(slot, s, d, handle[d]),
         NEW c \in Contexts, c \notin Held(slot, s)
  PROVE  /\ Table(new_slot, 2 * s)
         /\ Held(new_slot, 2 * s) = Held(slot, s)
         /\ \A d \in Held(slot, s) : Home(new_slot, 2 * s, d, handle[d])
         /\ \E k \in 0..(2 * s - 1) : new_slot[k] = Null
         /\ \A k \in DOMAIN new_slot : ~ Cardinality(moved(k)) > 1
<1>1. s \in Nat \ {0} /\ slot \in [0..(s - 1) -> Contexts \cup {Null}]
  BY DEF Table
<1>2. PICK z : z = 2 * s
  OBVIOUS
<1>3. z \in Nat \ {0} /\ HandleCount % z = 0
  BY <1>2, RoomToGrow
<1>4. \A k \in 0..(z - 1) :
        /\ from(k, s) \in 0..(s - 1)
        /\ new_slot[k] = IF hash(handle[slot[from(k, s)]], z) = k
                         THEN slot[from(k, s)] ELSE Null
        /\ Cardinality(moved(k)) <= 1
  BY <1>2, MovesOne
<1>5. \A i \in 0..(s - 1) : slot[i] \in Held(slot, s) /\ slot[i] \in Contexts
  BY <1>1 DEF Held
<1>6. /\ DOMAIN new_slot = 0..(z - 1)
      /\ new_slot \in [0..(z - 1) -> Contexts \cup {Null}]
  <2>1. new_slot = [k \in 0..(z - 1) |-> new_slot[k]]
    BY <1>2 DEF new_slot
  <2>2. \A k \in 0..(z - 1) : new_slot[k] \in Contexts \cup {Null}
    BY <1>4, <1>5
  <2> QED BY <2>1, <2>2
<1>7. ASSUME NEW d \in Held(slot, s)
      PROVE  /\ hash(handle[d], z) \in 0..(z - 1)
             /\ new_slot[hash(handle[d], z)] = d
  <2>1. d \in Contexts /\ handle[d] \in Nat /\ d # Null
    BY HandleAssumption DEF Held
  <2>2. PICK h : h = handle[d]
    OBVIOUS
  <2>3. PICK k, i : k = hash(h, z) /\ i = hash(h, s)
    OBVIOUS
  <2>4. h \in Nat /\ k \in 0..(z - 1) /\ i \in 0..(s - 1)
    BY <1>1, <1>3, <2>1, <2>2, <2>3, HashInTable
  <2>5. slot[i] = d
    BY <2>2, <2>3 DEF Home
  <2>6. k = i \/ k = i + s
    BY <1>1, <1>2, <2>3, <2>4, DoubleRemainder DEF hash
  <2>7. from(k, s) = i
    BY <1>1, <2>4, <2>6 DEF from
  <2> QED BY <1>4, <2>2, <2>3, <2>4, <2>5, <2>7
<1>8. ASSUME NEW k \in 0..(z - 1), new_slot[k] # Null
      PROVE  new_slot[k] \in Held(slot, s) /\ k = hash(handle[new_slot[k]], z)
  BY <1>4, <1>5, <1>8
<1>9. Table(new_slot, z)
  <2>1. ASSUME NEW j \in 0..(z - 1), NEW k \in 0..(z - 1),
               new_slot[j] # Null, new_slot[j] = new_slot[k]
        PROVE  j = k
    BY <1>8, <2>1
  <2> QED BY <1>3, <1>6, <2>1 DEF Table
<1>10. Held(new_slot, z) = Held(slot, s)
  <2>1. \A d \in Held(slot, s) : d \in Held(new_slot, z)
    BY <1>7 DEF Held
  <2>2. ASSUME NEW d \in Held(new_slot, z) PROVE d \in Held(slot, s)
    <3>1. PICK k \in 0..(z - 1) : new_slot[k] = d
      BY DEF Held
    <3>2. d \in Contexts /\ d # Null
      BY HandleAssumption DEF Held
    <3> QED BY <1>8, <3>1, <3>2
  <2> QED BY <2>1, <2>2
<1>11. \A d \in Held(slot, s) : Home(new_slot, z, d, handle[d])
  BY <1>7 DEF Home
<1>12. \E k \in 0..(z - 1) : new_slot[k] = Null
  <2>1. 0 \in 0..(z - 1) /\ s \in 0..(z - 1) /\ 0 # s /\ 0 \in 0..(s - 1)
    BY <1>1, <1>2
  <2>2. from(0, s) = 0 /\ from(s, s) = 0
    BY <1>1 DEF from
  <2>3. CASE hash(handle[slot[0]], z) = 0
    <3>1. new_slot[s] = Null
      BY <1>4, <2>1, <2>2, <2>3
    <3> QED BY <2>1, <3>1
  <2>4. CASE hash(handle[slot[0]], z) # 0
    <3>1. new_slot[0] = Null
      BY <1>4, <2>1, <2>2, <2>4
    <3> QED BY <2>1, <3>1
  <2> QED BY <2>3, <2>4
<1>13. \A k \in DOMAIN new_slot : ~ Cardinality(moved(k)) > 1
  <2>1. \A k \in 0..(z - 1) : Cardinality(moved(k)) \in Nat
    <3> SUFFICES ASSUME NEW k \in 0..(z - 1)
                 PROVE  Cardinality(moved(k)) \in Nat
      OBVIOUS
    <3>1. IsFiniteSet({from(k, s)})
      BY FS_Singleton
    <3>2. moved(k) \in SUBSET {from(k, s)}
      BY <1>2, MovesOne
    <3>3. IsFiniteSet(moved(k))
      BY <3>1, <3>2, FS_Subset
    <3> QED BY <3>3, FS_CardinalityType
  <2> QED BY <1>4, <1>6, <2>1
<1> QED BY <1>2, <1>9, <1>10, <1>11, <1>12, <1>13

-----------------------------------------------------------------------------
(* The registered contexts are those in the table.                         *)
LEMMA RegisteredHeld ==
  ASSUME NEW s, s = slot_size, Table(slot, s)
  PROVE  registered = Held(slot, s)
BY DEF Table, registered, Held

(* The handles that a registration tries reach every slot, so that it      *)
(* finds a free one when there is one.                                     *)
LEMMA FindsFree ==
  ASSUME NEW t, NEW s, Table(t, s), NEW k \in 0..(s - 1), t[k] = Null,
         handle_index \in Nat
  PROVE  LET free == {i \in 0..(s - 1) : t[hash(tried(i), s)] = Null}
         IN  /\ Min(free) \in 0..(s - 1)
             /\ tried(Min(free)) \in 0..(HandleCount - 1)
             /\ hash(tried(Min(free)), s) \in 0..(s - 1)
             /\ t[hash(tried(Min(free)), s)] = Null
<1>1. s \in Nat \ {0} /\ HandleCount % s = 0 /\ HandleCount \in Nat \ {0}
  BY HandleAssumption DEF Table
<1>2. ASSUME NEW i \in 0..(s - 1)
      PROVE  /\ tried(i) \in 0..(HandleCount - 1)
             /\ hash(tried(i), s) = (i + handle_index) % s
             /\ hash(tried(i), s) \in 0..(s - 1)
  <2>1. PICK n : n = i + handle_index
    OBVIOUS
  <2>2. n \in Nat
    BY <1>1, <2>1
  <2>3. PICK h : h = n % HandleCount
    OBVIOUS
  <2>4. h \in 0..(HandleCount - 1)
    BY <1>1, <2>2, <2>3, Division
  <2>5. h % s = n % s
    BY <1>1, <2>2, <2>3, SmallerRemainder
  <2>6. hash(h, s) \in 0..(s - 1)
    BY <1>1, <2>4, HashInTable
  <2>7. tried(i) = h
    BY <2>1, <2>3 DEF tried
  <2> QED BY <2>1, <2>4, <2>5, <2>6, <2>7 DEF hash
<1>3. PICK i \in 0..(s - 1) : (i + handle_index) % s = k
  <2>1. PICK x, d : x = handle_index /\ d = s
    OBVIOUS
  <2>2. x \in Nat /\ d \in Nat \ {0} /\ k \in 0..(d - 1)
    BY <1>1, <2>1
  <2>3. \E i \in 0..(d - 1) : (i + x) % d = k
    BY <2>2, Round
  <2> QED BY <2>1, <2>3
<1>4. PICK free : free = {j \in 0..(s - 1) : t[hash(tried(j), s)] = Null}
  OBVIOUS
<1>5. i \in free
  BY <1>2, <1>3, <1>4
<1>6. free \in SUBSET Nat /\ free # {}
  BY <1>1, <1>4, <1>5
<1>7. PICK m \in free : \A j \in free : m <= j
  BY <1>6, LeastNumber
<1>8. Min(free) \in free
  BY <1>7 DEF Min
<1>9. Min(free) \in 0..(s - 1) /\ t[hash(tried(Min(free)), s)] = Null
  BY <1>4, <1>8
<1> QED BY <1>2, <1>4, <1>9

(* A context c put into the free slot k of table t makes table u.          *)
Puts(t, u, s, c, k) ==
  /\ Table(t, s) /\ c \in Contexts /\ c \notin Held(t, s)
  /\ k \in 0..(s - 1) /\ t[k] = Null
  /\ u \in [0..(s - 1) -> Contexts \cup {Null}]
  /\ \A i \in 0..(s - 1) : u[i] = IF i = k THEN c ELSE t[i]

(* It is a table again, and everything in it keeps its place.              *)
LEMMA PutInSlot ==
  ASSUME NEW t, NEW u, NEW s, NEW c, NEW k, Puts(t, u, s, c, k)
  PROVE  /\ Table(u, s) /\ Held(u, s) = Held(t, s) \cup {c} /\ u[k] = c
         /\ \A d \in Held(t, s), h \in Nat :
              Home(t, s, d, h) => Home(u, s, d, h)
<1>0. /\ Table(t, s) /\ c \in Contexts /\ c \notin Held(t, s)
      /\ k \in 0..(s - 1) /\ t[k] = Null
  BY DEF Puts
<1>1. /\ s \in Nat \ {0} /\ t \in [0..(s - 1) -> Contexts \cup {Null}]
      /\ \A i, j \in 0..(s - 1) : t[i] # Null /\ t[i] = t[j] => i = j
      /\ \A i \in 0..(s - 1) : t[i] # c
  BY <1>0 DEF Table, Held
<1>2. Null \notin Contexts
  BY HandleAssumption
<1>3. u \in [0..(s - 1) -> Contexts \cup {Null}]
  BY DEF Puts
<1>4. \A i \in 0..(s - 1) : u[i] = IF i = k THEN c ELSE t[i]
  BY DEF Puts
<1>5. \A i, j \in 0..(s - 1) : u[i] # Null /\ u[i] = u[j] => i = j
  BY <1>1, <1>4
<1>6. Table(u, s)
  BY <1>0, <1>3, <1>5 DEF Table
<1>7. Held(u, s) = Held(t, s) \cup {c}
  <2>1. \A d \in Held(u, s) : d \in Held(t, s) \cup {c}
    BY <1>0, <1>4 DEF Held
  <2>2. c \in Held(u, s)
    BY <1>0, <1>4 DEF Held
  <2>3. \A d \in Held(t, s) : d \in Held(u, s)
    BY <1>0, <1>2, <1>4 DEF Held
  <2>4. Held(t, s) \cup {c} \subseteq Held(u, s)
    BY <2>2, <2>3
  <2> QED BY <2>1, <2>4
<1>8. ASSUME NEW d \in Held(t, s), NEW h \in Nat, Home(t, s, d, h)
      PROVE  Home(u, s, d, h)
  <2>1. hash(h, s) \in 0..(s - 1) /\ t[hash(h, s)] = d /\ d # Null
    BY <1>1, <1>2, <1>8, HashInTable DEF Home, Held
  <2> QED BY <1>0, <1>4, <2>1 DEF Home
<1> QED BY <1>0, <1>4, <1>6, <1>7, <1>8

-----------------------------------------------------------------------------
(* With one launcher nobody launches when a launch begins: every           *)
(* registered context has been given its handle.                           *)
LEMMA NobodyLaunching ==
  ASSUME OneLauncher, NEW l \in Launchers, launch[l] = Null
  PROVE  settled = registered
<1>1. \A m \in Launchers : launch[m] = Null
  BY DEF OneLauncher
<1> QED BY <1>1 DEF settled, pending

(* skynet_handle_register puts the context into the table, doubled if it   *)
(* was full, where its handle will say, and moves no other to a wrong slot *)
(* or over another.                                                        *)
LEMMA RegisterTable ==
  ASSUME OneLauncher, TypeOK, TableInv, NEW l \in Launchers,
         NEW c \in Contexts, Register(l, c)
  PROVE  \E s \in Nat, h \in 0..(HandleCount - 1) :
           /\ s = slot_size \/ s = 2 * slot_size
           /\ Table(slot', s) /\ Held(slot', s) = registered \cup {c}
           /\ \A d \in registered : Home(slot', s, d, handle[d])
           /\ Home(slot', s, c, h + harbor)
           /\ handle_index' = h + 1
           /\ launch' = [launch EXCEPT ![l] =
                [ctx |-> c, handle |-> h + harbor]]
           /\ crashed' = FALSE
           /\ UNCHANGED <<harbor, name, handle, sweep, before>>
<1>1. /\ launch[l] = Null /\ c \notin registered
      /\ UNCHANGED <<harbor, name, handle, sweep, before>>
  BY DEF Register
<1>2. PICK z : z = slot_size
  OBVIOUS
<1>3. Table(slot, z) /\ Held(slot, z) = registered /\ z \in Nat \ {0}
  BY <1>2, RegisteredHeld DEF TableInv, Table
<1>4. settled = registered
  BY <1>1, NobodyLaunching
<1>5. \A d \in registered : Home(slot, z, d, handle[d])
  BY <1>2, <1>4 DEF TableInv
<1>6. /\ handle \in [Contexts -> Nat] /\ harbor \in Nat
      /\ harbor % HandleCount = 0 /\ HandleCount \in Nat \ {0}
      /\ handle_index \in Nat
  BY TypesOf
<1>7. DOMAIN slot = 0..(z - 1)
  BY <1>3 DEF Table
<1>8. PICK full : full = (\A k \in DOMAIN slot : slot[k] # Null)
  OBVIOUS
<1>9. PICK table, s : /\ table = IF full THEN new_slot ELSE slot
                      /\ s = IF full THEN 2 * z ELSE z
  OBVIOUS
<1>10. /\ Table(table, s) /\ Held(table, s) = registered
       /\ \A d \in registered : Home(table, s, d, handle[d])
       /\ \E k \in 0..(s - 1) : table[k] = Null
       /\ s \in Nat \ {0} /\ (s = z \/ s = 2 * z)
       /\ ~ (full /\ \E k \in DOMAIN new_slot : Cardinality(moved(k)) > 1)
  <2>1. CASE full
    <3>1. \A k \in 0..(z - 1) : slot[k] # Null
      BY <1>7, <1>8, <2>1
    <3>2. table = new_slot /\ s = 2 * z /\ s \in Nat \ {0}
      BY <1>3, <1>9, <2>1
    <3>3. z = slot_size /\ c \notin Held(slot, z)
          /\ \A d \in Held(slot, z) : Home(slot, z, d, handle[d])
      BY <1>1, <1>2, <1>3, <1>5
    <3>4. /\ Table(new_slot, 2 * z)
          /\ Held(new_slot, 2 * z) = Held(slot, z)
          /\ \A d \in Held(slot, z) : Home(new_slot, 2 * z, d, handle[d])
          /\ \E k \in 0..(2 * z - 1) : new_slot[k] = Null
          /\ \A k \in DOMAIN new_slot : ~ Cardinality(moved(k)) > 1
      BY <1>3, <1>6, <3>1, <3>3, Doubled
    <3> QED BY <1>3, <3>2, <3>4
  <2>2. CASE ~full
    <3>1. table = slot /\ s = z
      BY <1>9, <2>2
    <3> QED BY <1>3, <1>5, <1>7, <1>8, <2>2, <3>1
  <2> QED BY <2>1, <2>2 DEF TypeOK
<1>11. PICK free : free = {i \in 0..(s - 1) : table[hash(tried(i), s)] = Null}
  OBVIOUS
<1>12. PICK h, k : h = tried(Min(free)) /\ k = hash(h, s)
  OBVIOUS
<1>13. h \in 0..(HandleCount - 1) /\ k \in 0..(s - 1) /\ table[k] = Null
  BY <1>6, <1>10, <1>11, <1>12, FindsFree
<1>14. /\ slot' = [table EXCEPT ![k] = c] /\ handle_index' = h + 1
       /\ launch' = [launch EXCEPT ![l] = [ctx |-> c, handle |-> h + harbor]]
       /\ crashed' = (full /\ \E j \in DOMAIN new_slot :
                                  Cardinality(moved(j)) > 1)
  BY <1>2, <1>8, <1>9, <1>11, <1>12 DEF Register
<1>15. PICK u : u = slot'
  OBVIOUS
<1>16. /\ Table(u, s) /\ Held(u, s) = registered \cup {c} /\ u[k] = c
       /\ \A d \in registered, g \in Nat : Home(table, s, d, g) =>
                                           Home(u, s, d, g)
  <2>0. Table(table, s) /\ c \notin Held(table, s) /\ k \in 0..(s - 1)
        /\ table[k] = Null
    BY <1>1, <1>10, <1>13
  <2>1. /\ u \in [0..(s - 1) -> Contexts \cup {Null}]
        /\ \A i \in 0..(s - 1) : u[i] = IF i = k THEN c ELSE table[i]
    <3>1. u = [table EXCEPT ![k] = c]
          /\ table \in [0..(s - 1) -> Contexts \cup {Null}]
      BY <1>14, <1>15, <2>0 DEF Table
    <3> QED BY <3>1
  <2>2. Puts(table, u, s, c, k)
    BY <2>0, <2>1 DEF Puts
  <2>3. /\ Table(u, s) /\ Held(u, s) = Held(table, s) \cup {c} /\ u[k] = c
        /\ \A d \in Held(table, s), g \in Nat : Home(table, s, d, g) =>
                                                Home(u, s, d, g)
    BY <2>2, PutInSlot
  <2> QED BY <1>10, <2>3
<1>17. \A d \in registered : Home(u, s, d, handle[d])
  <2>1. \A d \in registered : handle[d] \in Nat
    BY <1>6 DEF registered
  <2> QED BY <1>10, <1>16, <2>1
<1>18. Home(u, s, c, h + harbor)
  <2>1. HandleCount % s = 0
    BY <1>10 DEF Table
  <2>2. harbor % s = 0
    <3>1. (harbor % HandleCount) % s = harbor % s
      BY <1>6, <1>10, <2>1, SmallerRemainder
    <3>2. 0 % s = 0
      <4>1. 0 \in Nat /\ 0 = s * 0 + 0 /\ 0 \in 0..(s - 1)
        BY <1>10
      <4> QED BY <1>10, <4>1, Remainder
    <3> QED BY <1>6, <3>1, <3>2
  <2>3. h \in Nat
    BY <1>6, <1>13
  <2>4. (h + harbor) % s = h % s
    BY <1>6, <1>10, <2>2, <2>3, AddMultiple
  <2> QED BY <1>12, <1>16, <2>4 DEF Home, hash
<1>19. crashed' = FALSE
  BY <1>10, <1>14
<1> QED BY <1>1, <1>2, <1>10, <1>13, <1>14, <1>15, <1>16, <1>17, <1>18, <1>19

-----------------------------------------------------------------------------
(* skynet_handle_retireall: what is behind it is gone, and what it is      *)
(* about to retire is what it has seen.                                    *)
SweepInv ==
  /\ sweep.n <= sweep.i
  /\ sweep.pc \in {"none", "done"} => before = {}
  /\ sweep.pc = "look" => sweep.i <= slot_size
  /\ sweep.pc = "retire" => sweep.i < slot_size /\ sweep.handle # 0
  /\ before \subseteq has_handle
  /\ \A c \in before :
       /\ sweep.i <= hash(handle[c], slot_size)
       /\ sweep.pc = "retire" /\ sweep.i = hash(handle[c], slot_size) =>
            handle[c] = sweep.handle

(* The inductive invariant.                                                *)
IInv == TypeOK /\ NamesInv /\ TableInv /\ SweepInv

(* An empty table satisfies the invariant.                                 *)
LEMMA InitIInv == Init => IInv
<1> SUFFICES ASSUME Init PROVE IInv
  OBVIOUS
<1>1. /\ harbor \in Harbors /\ handle_index = 1 /\ name = <<>>
      /\ slot = [k \in 0..(DefaultSlotSize - 1) |-> Null]
      /\ handle = [c \in Contexts |-> 0]
      /\ launch = [l \in Launchers |-> Null]
      /\ sweep = [pc |-> "none", i |-> 0, handle |-> 0, n |-> 0]
      /\ before = {} /\ crashed = FALSE
  BY DEF Init
<1>2. DefaultSlotSize \in Nat \ {0} /\ HandleCount \in Nat \ {0}
      /\ HandleCount % DefaultSlotSize = 0 /\ Null \notin Contexts
  BY HandleAssumption
<1>3. slot_size = DefaultSlotSize
  BY <1>1, <1>2, SizeOf
<1>4. Table(slot, slot_size)
  BY <1>1, <1>2, <1>3 DEF Table
<1>5. 0 \in Handles
  BY <1>1, HandlesHere
<1>6. registered = {}
  BY <1>1, <1>2 DEF registered
<1>7. TypeOK
  <2>1. slot \in [0..(slot_size - 1) -> Contexts \cup {Null}]
    BY <1>4 DEF Table
  <2>2. name \in Seq([name : Names, handle : Handles])
    BY <1>1
  <2>3. sweep \in [pc : {"none", "look", "retire", "done"},
                   i : 0..HandleCount, handle : Handles, n : 0..HandleCount]
    BY <1>1, <1>2, <1>5
  <2>4. handle_index \in 1..HandleCount /\ harbor \in Harbors
    BY <1>1, <1>2
  <2>5. handle \in [Contexts -> Handles]
    BY <1>1, <1>5
  <2>6. launch \in [Launchers -> [ctx : Contexts, handle : Handles] \cup {Null}]
    BY <1>1
  <2>7. before \subseteq Contexts /\ crashed \in BOOLEAN
    BY <1>1
  <2> QED BY <2>1, <2>2, <2>3, <2>4, <2>5, <2>6, <2>7 DEF TypeOK
<1>8. TableInv
  BY <1>1, <1>4, <1>6 DEF TableInv, settled
<1>9. SweepInv
  BY <1>1 DEF SweepInv
<1> QED BY <1>7, <1>8, <1>9, InitNames DEF IInv

(* The size of a table is at most the number of handles.                   *)
LEMMA SizeAtMost ==
  ASSUME NEW t, NEW s, Table(t, s)
  PROVE  s <= HandleCount
<1>1. s \in Nat \ {0} /\ HandleCount % s = 0 /\ HandleCount \in Nat \ {0}
  BY HandleAssumption DEF Table
<1>2. CASE HandleCount < s
  <2>1. HandleCount = s * 0 + HandleCount /\ HandleCount \in 0..(s - 1)
        /\ 0 \in Nat
    BY <1>1, <1>2
  <2>2. HandleCount % s = HandleCount
    BY <1>1, <2>1, Remainder
  <2> QED BY <1>1, <2>2
<1> QED BY <1>1, <1>2

(* A registration keeps the invariant.                                     *)
LEMMA RegisterKeeps ==
  ASSUME OneLauncher, IInv, NEW l \in Launchers, NEW c \in Contexts,
         Register(l, c)
  PROVE  IInv'
<1>0. TypeOK /\ TableInv /\ SweepInv
  BY DEF IInv
<1>1. PICK s \in Nat, h \in 0..(HandleCount - 1) :
        /\ s = slot_size \/ s = 2 * slot_size
        /\ Table(slot', s) /\ Held(slot', s) = registered \cup {c}
        /\ \A d \in registered : Home(slot', s, d, handle[d])
        /\ Home(slot', s, c, h + harbor)
        /\ handle_index' = h + 1
        /\ launch' = [launch EXCEPT ![l] = [ctx |-> c, handle |-> h + harbor]]
        /\ crashed' = FALSE
        /\ UNCHANGED <<harbor, name, handle, sweep, before>>
  BY <1>0, RegisterTable
<1>2. slot_size' = s
  <2>1. DOMAIN slot' = 0..(s - 1)
    BY <1>1 DEF Table
  <2> QED BY <1>1, <2>1, SizeOfNext
<1>3. registered' = registered \cup {c}
  <2>1. registered' = Held(slot', s)
    BY <1>1 DEF registered, Held, Table
  <2> QED BY <1>1, <2>1
<1>4. launch[l] = Null /\ c \notin registered
  BY DEF Register
<1>5. settled = registered
  BY <1>4, NobodyLaunching
<1>6. /\ harbor \in Nat /\ harbor \in Harbors /\ HandleCount \in Nat \ {0}
      /\ handle \in [Contexts -> Nat]
  BY <1>0, TypesOf
<1>7. h + harbor \in Handles
  <2>1. h + harbor \in harbor..(harbor + HandleCount - 1)
    BY <1>1, <1>6
  <2> QED BY <1>6, <2>1, HandlesHere
<1>8. PICK x : x = [ctx |-> c, handle |-> h + harbor]
  OBVIOUS
<1>9. x \in [ctx : Contexts, handle : Handles] /\ x # Null /\ x.ctx = c
      /\ x.handle = h + harbor
  BY <1>7, <1>8, HandleAssumption
<1>10. launch' \in [Launchers -> [ctx : Contexts, handle : Handles] \cup {Null}]
  BY <1>0, <1>1, <1>8, <1>9 DEF TypeOK
<1>11. launch'[l] = x
  BY <1>0, <1>1, <1>8 DEF TypeOK
<1>12. \A m \in Launchers : m = l
  BY DEF OneLauncher
<1>13. settled' = registered
  <2>1. \A d : pending(d)' <=> d = c
    BY <1>9, <1>11, <1>12 DEF pending
  <2> QED BY <1>3, <1>4, <2>1 DEF settled
<1>14. TypeOK'
  <2>1. handle_index' \in 1..HandleCount
    BY <1>1, <1>6
  <2>2. slot' \in [0..(slot_size' - 1) -> Contexts \cup {Null}]
    BY <1>1, <1>2 DEF Table
  <2> QED BY <1>0, <1>1, <1>10, <2>1, <2>2 DEF TypeOK
<1>15. TableInv'
  <2>1. \A m \in Launchers : Home(slot', s, launch'[m].ctx, launch'[m].handle)
    BY <1>1, <1>9, <1>11, <1>12
  <2>2. \A d \in Contexts : d \notin settled' => handle'[d] = 0
    BY <1>0, <1>1, <1>5, <1>13 DEF TableInv
  <2>3. \A d \in settled' : Home(slot', s, d, handle'[d])
    BY <1>1, <1>13
  <2> QED BY <1>1, <1>2, <2>1, <2>2, <2>3 DEF TableInv
<1>16. SweepInv'
  <2>1. has_handle' = has_handle
    BY <1>1, <1>5, <1>13 DEF has_handle
  <2>2. slot_size \in Nat \ {0} /\ sweep.i \in Nat
    BY <1>0, <1>6 DEF TableInv, Table, TypeOK
  <2>3. ASSUME NEW d \in before
        PROVE  /\ sweep.i <= hash(handle[d], s)
               /\ sweep.pc = "retire" /\ sweep.i = hash(handle[d], s) =>
                    handle[d] = sweep.handle
    <3>1. PICK g, z : g = handle[d] /\ z = slot_size
      OBVIOUS
    <3>2. d \in Contexts
      BY <1>0 DEF SweepInv, has_handle, settled, registered
    <3>3. g \in Nat
      BY <1>6, <3>1, <3>2
    <3>4. /\ sweep.i <= hash(g, z)
          /\ sweep.pc = "retire" /\ sweep.i = hash(g, z) => g = sweep.handle
      BY <1>0, <3>1 DEF SweepInv
    <3>5. hash(g, s) = hash(g, z) \/ hash(g, s) = hash(g, z) + z
      BY <1>1, <2>2, <3>1, <3>3, DoubleRemainder DEF hash
    <3>6. hash(g, z) \in Nat
      BY <2>2, <3>1, <3>3, HashInTable
    <3>7. sweep.pc = "retire" => sweep.i < z
      BY <1>0, <3>1 DEF SweepInv
    <3>8. sweep.i <= hash(g, s)
      BY <2>2, <3>1, <3>4, <3>5, <3>6
    <3>9. ASSUME sweep.pc = "retire", sweep.i = hash(g, s)
          PROVE  sweep.i = hash(g, z)
      BY <2>2, <3>1, <3>5, <3>6, <3>7, <3>9
    <3> QED BY <3>1, <3>4, <3>8, <3>9
  <2>4. slot_size <= s
    BY <1>1, <2>2
  <2>5. /\ sweep.pc = "look" => sweep.i <= s
        /\ sweep.pc = "retire" => sweep.i < s
    BY <1>0, <1>1, <2>2, <2>4 DEF SweepInv
  <2> QED BY <1>0, <1>1, <1>2, <2>1, <2>3, <2>5 DEF SweepInv
<1>17. NamesInv'
  BY <1>1 DEF IInv, NamesInv
<1> QED BY <1>14, <1>15, <1>16, <1>17 DEF IInv

-----------------------------------------------------------------------------
(* What a step does that leaves table, services and launches alone.        *)
LEMMA SameTable ==
  ASSUME TableInv, UNCHANGED <<slot, handle, launch, crashed>>
  PROVE  /\ TableInv' /\ slot_size' = slot_size /\ registered' = registered
         /\ settled' = settled /\ has_handle' = has_handle
<1>1. slot_size' = slot_size /\ registered' = registered
  BY DEF slot_size, registered
<1>2. \A c : pending(c)' <=> pending(c)
  BY DEF pending
<1>3. settled' = settled
  BY <1>1, <1>2 DEF settled
<1>4. has_handle' = has_handle
  BY <1>3 DEF has_handle
<1>5. TableInv'
  BY <1>1, <1>3 DEF TableInv
<1> QED BY <1>1, <1>3, <1>4, <1>5

(* A handle is assigned.                                                   *)
LEMMA AssignKeeps ==
  ASSUME OneLauncher, IInv, NEW l \in Launchers, Assign(l)
  PROVE  IInv'
<1>0. TypeOK /\ NamesInv /\ TableInv /\ SweepInv
  BY DEF IInv
<1>1. PICK c, h : c = launch[l].ctx /\ h = launch[l].handle
  OBVIOUS
<1>2. /\ launch[l] # Null /\ handle' = [handle EXCEPT ![c] = h]
      /\ launch' = [launch EXCEPT ![l] = Null]
      /\ UNCHANGED <<harbor, handle_index, slot, name, sweep, before, crashed>>
  BY <1>1 DEF Assign
<1>3. c \in Contexts /\ h \in Handles /\ handle \in [Contexts -> Handles]
      /\ harbor \in Harbors
  BY <1>0, <1>1, <1>2 DEF TypeOK
<1>4. h \in Nat
  BY <1>3, HandlesHere
<1>5. PICK s : s = slot_size
  OBVIOUS
<1>6. s \in Nat \ {0} /\ Table(slot, s) /\ slot_size' = s
  BY <1>0, <1>2, <1>5 DEF TableInv, Table, slot_size
<1>7. Home(slot, s, c, h)
  BY <1>0, <1>1, <1>2, <1>5 DEF TableInv
<1>8. c \in registered
  <2>1. hash(h, s) \in 0..(s - 1)
    BY <1>4, <1>6, HashInTable
  <2> QED BY <1>3, <1>5, <1>6, <1>7, <2>1, RegisteredHeld DEF Home, Held
<1>9. \A m \in Launchers : m = l
  BY DEF OneLauncher
<1>10. settled = registered \ {c}
  <2>1. \A d : pending(d) <=> d = c
    BY <1>1, <1>2, <1>9 DEF pending
  <2> QED BY <2>1 DEF settled
<1>11. registered' = registered
  BY <1>2 DEF registered
<1>12. launch'[l] = Null /\ launch' \in [Launchers -> {Null}]
  BY <1>0, <1>2, <1>9 DEF TypeOK
<1>13. settled' = registered
  <2>1. \A d : ~ pending(d)'
    BY <1>9, <1>12 DEF pending
  <2> QED BY <1>11, <2>1 DEF settled
<1>14. \A d \in Contexts : handle'[d] = IF d = c THEN h ELSE handle[d]
  BY <1>2, <1>3
<1>15. TypeOK'
  <2>1. handle' \in [Contexts -> Handles]
    BY <1>2, <1>3
  <2>2. slot' \in [0..(slot_size' - 1) -> Contexts \cup {Null}]
    BY <1>2, <1>6 DEF Table
  <2>3. launch' \in
          [Launchers -> [ctx : Contexts, handle : Handles] \cup {Null}]
    BY <1>12
  <2> QED BY <1>0, <1>2, <2>1, <2>2, <2>3 DEF TypeOK
<1>16. TableInv'
  <2>1. ASSUME NEW d \in settled' PROVE Home(slot', s, d, handle'[d])
    <3>1. d \in Contexts /\ (d = c \/ d \in settled)
      BY <1>10, <1>13 DEF registered
    <3>2. CASE d = c
      BY <1>2, <1>7, <1>14, <3>1, <3>2
    <3>3. CASE d # c
      <4>1. Home(slot, s, d, handle[d])
        BY <1>0, <1>5, <3>1, <3>3 DEF TableInv
      <4> QED BY <1>2, <1>14, <3>1, <3>3, <4>1
    <3> QED BY <3>2, <3>3
  <2>2. ASSUME NEW d \in Contexts, d \notin settled' PROVE handle'[d] = 0
    <3>1. d # c /\ d \notin settled
      BY <1>8, <1>10, <1>13, <2>2
    <3> QED BY <1>0, <1>14, <3>1 DEF TableInv
  <2>3. Table(slot', slot_size') /\ ~crashed'
    BY <1>0, <1>2, <1>6 DEF TableInv
  <2>4. \A m \in Launchers : launch'[m] = Null
    BY <1>12
  <2> QED BY <1>6, <2>1, <2>2, <2>3, <2>4 DEF TableInv
<1>17. SweepInv'
  <2>1. \A d \in before : d \in settled /\ d # c /\ d \in Contexts
                          /\ handle[d] # 0
    BY <1>0, <1>10 DEF SweepInv, has_handle, registered
  <2>2. \A d \in before : handle'[d] = handle[d]
    BY <1>14, <2>1
  <2>3. before' \subseteq has_handle'
    BY <1>2, <1>10, <1>13, <2>1, <2>2 DEF has_handle
  <2> QED BY <1>0, <1>2, <1>5, <1>6, <2>2, <2>3 DEF SweepInv
<1>18. NamesInv'
  BY <1>0, <1>2 DEF NamesInv
<1> QED BY <1>15, <1>16, <1>17, <1>18 DEF IInv

-----------------------------------------------------------------------------
(* A service that goes leaves its slot, and nobody else's.                 *)
LEMMA RetireTable ==
  ASSUME TypeOK, NamesInv, NamesInv', TableInv, NEW c \in settled, retire(c),
         UNCHANGED <<harbor, handle_index, launch, crashed>>
  PROVE  /\ TableInv' /\ slot_size' = slot_size
         /\ registered' = registered \ {c} /\ settled' = settled \ {c}
         /\ \A d \in Contexts : d # c => handle'[d] = handle[d]
         /\ before' = before \ {c}
         /\ sweep' \in [pc : {"none", "look", "retire", "done"},
                        i : 0..HandleCount, handle : Handles,
                        n : 0..HandleCount] => TypeOK'
<1>1. PICK s, k : s = slot_size /\ k = hash(handle[c], s)
  OBVIOUS
<1>2. /\ slot' = [slot EXCEPT ![k] = Null]
      /\ handle' = [handle EXCEPT ![c] = 0] /\ before' = before \ {c}
  BY <1>1 DEF retire
<1>3. handle \in [Contexts -> Nat] /\ handle \in [Contexts -> Handles]
  BY TypesOf DEF TypeOK
<1>4. /\ s \in Nat \ {0} /\ slot \in [0..(s - 1) -> Contexts \cup {Null}]
      /\ Table(slot, s) /\ registered = Held(slot, s)
  BY <1>1, RegisteredHeld DEF TableInv, Table
<1>5. c \in Contexts /\ c # Null /\ c \in registered /\ ~pending(c)
  BY HandleAssumption DEF settled, registered
<1>6. k \in 0..(s - 1)
  BY <1>1, <1>3, <1>4, <1>5, HashInTable
<1>7. slot[k] = c
  BY <1>1 DEF TableInv, Home
<1>8. \A i \in 0..(s - 1) : slot'[i] = IF i = k THEN Null ELSE slot[i]
  BY <1>2, <1>4
<1>9. slot' \in [0..(s - 1) -> Contexts \cup {Null}]
  BY <1>2, <1>4
<1>10. \A i \in 0..(s - 1) : slot[i] = c => i = k
  BY <1>4, <1>5, <1>6, <1>7 DEF Table
<1>11. slot_size' = s
  BY <1>4, <1>9, SizeOfNext
<1>12. Table(slot', s)
  BY <1>4, <1>8, <1>9 DEF Table
<1>13. registered' = registered \ {c}
  <2>1. DOMAIN slot' = 0..(s - 1)
    BY <1>9
  <2>2. registered' = Held(slot', s)
    BY <2>1 DEF registered, Held
  <2>3. ASSUME NEW d \in Held(slot', s) PROVE d \in registered /\ d # c
    <3>1. PICK i \in 0..(s - 1) : slot'[i] = d /\ d \in Contexts
      BY DEF Held
    <3>2. d # Null
      BY <3>1, HandleAssumption
    <3>3. slot[i] = d /\ i # k
      BY <1>8, <3>1, <3>2
    <3> QED BY <1>4, <1>10, <3>1, <3>3 DEF Held
  <2>4. ASSUME NEW d \in registered, d # c PROVE d \in Held(slot', s)
    <3>1. PICK i \in 0..(s - 1) : slot[i] = d /\ d \in Contexts
      BY <1>4 DEF Held
    <3>2. slot'[i] = d
      BY <1>7, <1>8, <2>4, <3>1
    <3> QED BY <3>1, <3>2 DEF Held
  <2> QED BY <2>2, <2>3, <2>4
<1>14. settled' = settled \ {c}
  <2>1. \A d : pending(d)' <=> pending(d)
    BY DEF pending
  <2> QED BY <1>13, <2>1 DEF settled
<1>15. \A d \in Contexts : handle'[d] = IF d = c THEN 0 ELSE handle[d]
  BY <1>2, <1>3
<1>16. ASSUME NEW d \in Contexts, NEW h \in Nat, d # c, Home(slot, s, d, h)
       PROVE  Home(slot', s, d, h)
  <2>1. hash(h, s) \in 0..(s - 1) /\ slot[hash(h, s)] = d
    BY <1>4, <1>16, HashInTable DEF Home
  <2>2. hash(h, s) # k
    BY <1>7, <1>16, <2>1
  <2> QED BY <1>8, <2>1, <2>2 DEF Home
<1>17. TableInv'
  <2>1. ASSUME NEW d \in settled' PROVE Home(slot', s, d, handle'[d])
    <3>1. d \in settled /\ d # c /\ d \in Contexts
      BY <1>14 DEF settled, registered
    <3>2. Home(slot, s, d, handle[d]) /\ handle[d] \in Nat
          /\ handle'[d] = handle[d]
      BY <1>1, <1>3, <1>15, <3>1 DEF TableInv
    <3> QED BY <1>16, <3>1, <3>2
  <2>2. ASSUME NEW d \in Contexts, d \notin settled' PROVE handle'[d] = 0
    BY <1>14, <1>15, <2>2 DEF TableInv
  <2>3. ASSUME NEW m \in Launchers, launch'[m] # Null
        PROVE  Home(slot', s, launch'[m].ctx, launch'[m].handle)
    <3>1. PICK e, h : e = launch[m].ctx /\ h = launch[m].handle
      OBVIOUS
    <3>2. launch[m] # Null /\ launch'[m] = launch[m]
      BY <2>3
    <3>3. e \in Contexts /\ h \in Handles /\ harbor \in Harbors
      BY <3>1, <3>2 DEF TypeOK
    <3>4. h \in Nat
      BY <3>3, HandlesHere
    <3>5. e # c
      BY <1>5, <3>1, <3>2 DEF pending
    <3>6. Home(slot, s, e, h)
      BY <1>1, <3>1, <3>2 DEF TableInv
    <3> QED BY <1>16, <3>1, <3>2, <3>3, <3>4, <3>5, <3>6
  <2>4. ~crashed'
    BY DEF TableInv
  <2> QED BY <1>11, <1>12, <2>1, <2>2, <2>3, <2>4 DEF TableInv
<1>18. ASSUME sweep' \in [pc : {"none", "look", "retire", "done"},
                          i : 0..HandleCount, handle : Handles,
                          n : 0..HandleCount]
       PROVE  TypeOK'
  <2>1. handle' \in [Contexts -> Handles]
    <3>1. 0 \in Handles
      BY HandlesHere DEF TypeOK
    <3> QED BY <1>2, <1>3, <3>1
  <2>2. slot' \in [0..(slot_size' - 1) -> Contexts \cup {Null}]
    BY <1>9, <1>11
  <2>3. name' \in Seq([name : Names, handle : Handles])
    BY DEF NamesInv, Entry
  <2>4. before' \subseteq Contexts
    BY <1>2 DEF TypeOK
  <2>5. harbor' \in Harbors /\ handle_index' \in 1..HandleCount
        /\ launch' \in [Launchers ->
                          [ctx : Contexts, handle : Handles] \cup {Null}]
        /\ crashed' \in BOOLEAN
    BY DEF TypeOK
  <2> QED BY <1>18, <2>1, <2>2, <2>3, <2>4, <2>5 DEF TypeOK
<1> QED BY <1>1, <1>2, <1>11, <1>13, <1>14, <1>15, <1>17, <1>18
(* A service exits or is killed.                                           *)
LEMMA RetireKeeps ==
  ASSUME IInv, NamesInv', NEW c \in Contexts, Retire(c)
  PROVE  IInv'
<1>0. TypeOK /\ NamesInv /\ TableInv /\ SweepInv
  BY DEF IInv
<1>1. c \in settled /\ retire(c)
      /\ UNCHANGED <<harbor, handle_index, launch, sweep, crashed>>
  BY DEF Retire
<1>2. /\ TableInv' /\ slot_size' = slot_size
      /\ settled' = settled \ {c} /\ before' = before \ {c}
      /\ \A d \in Contexts : d # c => handle'[d] = handle[d]
      /\ sweep' \in [pc : {"none", "look", "retire", "done"},
                     i : 0..HandleCount, handle : Handles,
                     n : 0..HandleCount] => TypeOK'
  BY <1>0, <1>1, RetireTable
<1>3. TypeOK'
  BY <1>0, <1>1, <1>2 DEF TypeOK
<1>4. SweepInv'
  <2>1. \A d \in before' : /\ d \in before /\ d \in Contexts /\ d \in settled'
                           /\ handle'[d] = handle[d] /\ handle[d] # 0
    BY <1>0, <1>2 DEF SweepInv, has_handle, settled, registered
  <2>2. before' \subseteq has_handle'
    BY <2>1 DEF has_handle
  <2> QED BY <1>0, <1>1, <1>2, <2>1, <2>2 DEF SweepInv
<1> QED BY <1>2, <1>3, <1>4 DEF IInv

(* What the sweep goes by: a service with a handle is where that says.     *)
LEMMA InSlot ==
  ASSUME TypeOK, TableInv, NEW d \in has_handle
  PROVE  /\ d \in Contexts /\ d # Null /\ handle[d] \in Nat /\ handle[d] # 0
         /\ hash(handle[d], slot_size) \in 0..(slot_size - 1)
         /\ slot[hash(handle[d], slot_size)] = d
<1>1. d \in settled /\ d \in Contexts /\ handle[d] # 0
  BY DEF has_handle, settled, registered
<1>2. handle[d] \in Nat /\ d # Null
  BY <1>1, TypesOf, HandleAssumption
<1>3. slot_size \in Nat \ {0}
  BY DEF TableInv, Table
<1>4. slot[hash(handle[d], slot_size)] = d
  BY <1>1 DEF TableInv, Home
<1> QED BY <1>1, <1>2, <1>3, <1>4, HashInTable

(* A pass begins, or the last one has found nothing.                       *)
LEMMA PassKeeps ==
  ASSUME IInv, SweepPass
  PROVE  IInv'
<1>0. TypeOK /\ NamesInv /\ TableInv /\ SweepInv
  BY DEF IInv
<1>1. UNCHANGED <<harbor, handle_index, slot, name, handle, launch, crashed>>
  BY DEF SweepPass
<1>2. TableInv' /\ slot_size' = slot_size /\ has_handle' = has_handle
      /\ NamesInv'
  BY <1>0, <1>1, SameTable DEF NamesInv
<1>3. slot_size \in Nat \ {0} /\ sweep.i \in Nat
      /\ HandleCount \in Nat \ {0} /\ 0 \in Handles
  BY <1>0, TypesOf, HandlesHere DEF TableInv, Table, TypeOK
<1>4. slot' \in [0..(slot_size' - 1) -> Contexts \cup {Null}]
  BY <1>1, <1>2 DEF TableInv, Table
<1>5. CASE sweep.pc = "look" /\ sweep.n = 0
  <2>1. sweep.i > slot_size - 1 /\ sweep' = [sweep EXCEPT !.pc = "done"]
        /\ before' = before
    BY <1>5 DEF SweepPass, last_slot
  <2>2. ASSUME NEW d \in before PROVE FALSE
    <3>1. d \in has_handle /\ sweep.i <= hash(handle[d], slot_size)
      BY <1>0 DEF SweepInv
    <3>2. hash(handle[d], slot_size) \in 0..(slot_size - 1)
      BY <1>0, <3>1, InSlot
    <3> QED BY <1>3, <2>1, <3>1, <3>2
  <2>3. before' = {}
    BY <2>1, <2>2
  <2>4. /\ sweep'.pc = "done" /\ sweep'.i = sweep.i /\ sweep'.n = sweep.n
        /\ sweep' \in [pc : {"none", "look", "retire", "done"},
                       i : 0..HandleCount, handle : Handles,
                       n : 0..HandleCount]
    BY <1>0, <2>1 DEF TypeOK
  <2>5. TypeOK'
    BY <1>0, <1>1, <1>4, <2>3, <2>4 DEF TypeOK
  <2>6. SweepInv'
    BY <1>0, <2>3, <2>4 DEF SweepInv
  <2> QED BY <1>2, <2>5, <2>6 DEF IInv
<1>6. CASE ~(sweep.pc = "look" /\ sweep.n = 0)
  <2>1. sweep' = [pc |-> "look", i |-> 0, handle |-> 0, n |-> 0]
        /\ before' = has_handle
    BY <1>6 DEF SweepPass
  <2>2. before' \subseteq Contexts
    BY <2>1 DEF has_handle, settled, registered
  <2>3. /\ sweep'.pc = "look" /\ sweep'.i = 0 /\ sweep'.n = 0
        /\ sweep' \in [pc : {"none", "look", "retire", "done"},
                       i : 0..HandleCount, handle : Handles,
                       n : 0..HandleCount]
    BY <1>3, <2>1
  <2>4. TypeOK'
    BY <1>0, <1>1, <1>4, <2>2, <2>3 DEF TypeOK
  <2>5. \A d \in has_handle : 0 <= hash(handle[d], slot_size)
    <3> SUFFICES ASSUME NEW d \in has_handle
                 PROVE  0 <= hash(handle[d], slot_size)
      OBVIOUS
    <3>1. hash(handle[d], slot_size) \in 0..(slot_size - 1)
      BY <1>0, InSlot
    <3> QED BY <1>3, <3>1
  <2>6. SweepInv'
    BY <1>1, <1>2, <1>3, <2>1, <2>3, <2>5 DEF SweepInv
  <2> QED BY <1>2, <2>4, <2>6 DEF IInv
<1> QED BY <1>5, <1>6

(* A slot is looked at.                                                    *)
LEMMA LookKeeps ==
  ASSUME IInv, SweepLook
  PROVE  IInv'
<1>0. TypeOK /\ NamesInv /\ TableInv /\ SweepInv
  BY DEF IInv
<1>1. /\ sweep.pc = "look" /\ sweep.i <= slot_size - 1
      /\ UNCHANGED <<harbor, handle_index, slot, name, handle, launch,
                     before, crashed>>
  BY DEF SweepLook, last_slot
<1>2. TableInv' /\ slot_size' = slot_size /\ has_handle' = has_handle
      /\ NamesInv'
  BY <1>0, <1>1, SameTable DEF NamesInv
<1>3. PICK s, i : s = slot_size /\ i = sweep.i
  OBVIOUS
<1>4. /\ s \in Nat \ {0} /\ i \in 0..(s - 1) /\ s <= HandleCount
      /\ HandleCount \in Nat \ {0} /\ sweep.n \in 0..HandleCount
      /\ sweep.n <= i
  <2>1. Table(slot, s) /\ s \in Nat \ {0}
    BY <1>0, <1>3 DEF TableInv, Table
  <2>2. s <= HandleCount /\ HandleCount \in Nat \ {0}
    BY <2>1, SizeAtMost, HandleAssumption
  <2>3. sweep.i \in Nat /\ sweep.n \in 0..HandleCount
    BY <1>0, <2>2 DEF TypeOK
  <2>4. sweep.n <= sweep.i
    BY <1>0 DEF SweepInv
  <2> QED BY <1>1, <1>3, <2>1, <2>2, <2>3, <2>4
<1>5. slot' \in [0..(slot_size' - 1) -> Contexts \cup {Null}]
  BY <1>1, <1>2 DEF TableInv, Table
<1>6. PICK c, h : c = slot[i] /\ h = IF c = Null THEN 0 ELSE handle[c]
  OBVIOUS
<1>7. sweep' = IF h = 0 THEN [sweep EXCEPT !.i = @ + 1]
               ELSE [sweep EXCEPT !.pc = "retire", !.handle = h]
  BY <1>3, <1>6 DEF SweepLook
<1>8. c \in Contexts \cup {Null}
  BY <1>0, <1>3, <1>4, <1>6 DEF TableInv, Table
<1>9. h \in Handles
  BY <1>0, <1>6, <1>8, HandlesHere DEF TypeOK
<1>10. \A d \in before : /\ d \in has_handle /\ i <= hash(handle[d], s)
                         /\ hash(handle[d], s) \in 0..(s - 1)
                         /\ i = hash(handle[d], s) => h = handle[d] /\ h # 0
  <2> SUFFICES ASSUME NEW d \in before
               PROVE  /\ d \in has_handle /\ i <= hash(handle[d], s)
                      /\ hash(handle[d], s) \in 0..(s - 1)
                      /\ i = hash(handle[d], s) => h = handle[d] /\ h # 0
    OBVIOUS
  <2>1. d \in has_handle /\ i <= hash(handle[d], s)
    BY <1>0, <1>3 DEF SweepInv
  <2>2. /\ d # Null /\ handle[d] # 0 /\ hash(handle[d], s) \in 0..(s - 1)
        /\ slot[hash(handle[d], s)] = d
    BY <1>0, <1>3, <2>1, InSlot
  <2> QED BY <1>6, <2>1, <2>2
<1>11. CASE h = 0
  <2>1. PICK w : w = sweep'
    OBVIOUS
  <2>2. /\ w.pc = "look" /\ w.i = i + 1 /\ w.n = sweep.n
        /\ w.handle = sweep.handle
        /\ w = [pc |-> w.pc, i |-> w.i, handle |-> w.handle, n |-> w.n]
    BY <1>0, <1>1, <1>3, <1>7, <1>11, <2>1 DEF TypeOK
  <2>3. i + 1 \in 0..HandleCount
    BY <1>4
  <2>4. TypeOK'
    <3>1. w \in [pc : {"none", "look", "retire", "done"}, i : 0..HandleCount,
                 handle : Handles, n : 0..HandleCount]
      BY <1>0, <1>4, <2>2, <2>3 DEF TypeOK
    <3> QED BY <1>0, <1>1, <1>5, <2>1, <3>1 DEF TypeOK
  <2>5. \A d \in before : i + 1 <= hash(handle[d], s)
    BY <1>4, <1>10, <1>11
  <2>6. SweepInv'
    <3>1. w.n <= w.i /\ w.i <= s
      BY <1>4, <2>2
    <3>2. before' \subseteq has_handle'
      BY <1>0, <1>1, <1>2 DEF SweepInv
    <3> QED BY <1>1, <1>2, <1>3, <2>1, <2>2, <2>5, <3>1, <3>2 DEF SweepInv
  <2> QED BY <1>2, <2>4, <2>6 DEF IInv
<1>12. CASE h # 0
  <2>1. PICK w : w = sweep'
    OBVIOUS
  <2>2. /\ w.pc = "retire" /\ w.i = i /\ w.n = sweep.n /\ w.handle = h
        /\ w = [pc |-> w.pc, i |-> w.i, handle |-> w.handle, n |-> w.n]
    BY <1>0, <1>1, <1>3, <1>7, <1>12, <2>1 DEF TypeOK
  <2>3. i \in 0..HandleCount
    BY <1>4
  <2>4. TypeOK'
    <3>1. w \in [pc : {"none", "look", "retire", "done"}, i : 0..HandleCount,
                 handle : Handles, n : 0..HandleCount]
      BY <1>4, <1>9, <2>2, <2>3
    <3> QED BY <1>0, <1>1, <1>5, <2>1, <3>1 DEF TypeOK
  <2>5. SweepInv'
    <3>1. w.n <= w.i /\ w.i < s
      BY <1>4, <2>2
    <3>2. before' \subseteq has_handle'
      BY <1>0, <1>1, <1>2 DEF SweepInv
    <3> QED BY <1>1, <1>2, <1>3, <1>10, <1>12, <2>1, <2>2, <3>1, <3>2
            DEF SweepInv
  <2> QED BY <1>2, <2>4, <2>5 DEF IInv
<1> QED BY <1>11, <1>12
(* The sweep retires the handle it has seen.                               *)
LEMMA SweptKeeps ==
  ASSUME IInv, NamesInv', SweepRetire
  PROVE  IInv'
<1>0. TypeOK /\ NamesInv /\ TableInv /\ SweepInv
  BY DEF IInv
<1>1. PICK s, i, h, c : /\ s = slot_size /\ i = sweep.i /\ h = sweep.handle
                        /\ c = grab(h)
  OBVIOUS
<1>2. /\ sweep.pc = "retire"
      /\ sweep' = [pc |-> "look", i |-> i + 1, handle |-> 0,
                   n |-> IF c = Null THEN sweep.n ELSE sweep.n + 1]
      /\ IF c = Null THEN UNCHANGED <<slot, name, handle, before>>
                     ELSE retire(c)
      /\ UNCHANGED <<harbor, handle_index, launch, crashed>>
  BY <1>1 DEF SweepRetire
<1>3. /\ s \in Nat \ {0} /\ i \in 0..(s - 1) /\ s <= HandleCount
      /\ HandleCount \in Nat \ {0} /\ sweep.n \in 0..HandleCount
      /\ sweep.n <= i /\ h # 0 /\ h \in Handles
  <2>1. Table(slot, s) /\ s \in Nat \ {0}
    BY <1>0, <1>1 DEF TableInv, Table
  <2>2. s <= HandleCount /\ HandleCount \in Nat \ {0}
    BY <2>1, SizeAtMost, HandleAssumption
  <2>3. /\ sweep.i \in Nat /\ sweep.n \in 0..HandleCount
        /\ sweep.handle \in Handles
    BY <1>0, <2>2 DEF TypeOK
  <2>4. sweep.n <= sweep.i /\ sweep.i < slot_size /\ sweep.handle # 0
    BY <1>0, <1>2 DEF SweepInv
  <2> QED BY <1>1, <2>1, <2>2, <2>3, <2>4
<1>4. 0 \in Handles /\ h \in Nat
  BY <1>0, <1>3, HandlesHere DEF TypeOK
<1>5. PICK w : w = sweep'
  OBVIOUS
<1>6. /\ w.pc = "look" /\ w.i = i + 1 /\ w.n <= w.i /\ w.i <= s
      /\ w \in [pc : {"none", "look", "retire", "done"}, i : 0..HandleCount,
                handle : Handles, n : 0..HandleCount]
  <2>1. PICK n : n = IF c = Null THEN sweep.n ELSE sweep.n + 1
    OBVIOUS
  <2>2. n \in 0..HandleCount /\ n <= i + 1 /\ i + 1 \in 0..HandleCount
        /\ i + 1 <= s
    BY <1>3, <2>1
  <2>3. w = [pc |-> "look", i |-> i + 1, handle |-> 0, n |-> n]
    BY <1>2, <1>5, <2>1
  <2> QED BY <1>4, <2>2, <2>3
<1>7. \A d \in before : /\ d \in has_handle /\ d \in Contexts
                        /\ i <= hash(handle[d], s)
                        /\ hash(handle[d], s) \in 0..(s - 1)
                        /\ i = hash(handle[d], s) => d = c
  <2> SUFFICES ASSUME NEW d \in before
               PROVE  /\ d \in has_handle /\ d \in Contexts
                      /\ i <= hash(handle[d], s)
                      /\ hash(handle[d], s) \in 0..(s - 1)
                      /\ i = hash(handle[d], s) => d = c
    OBVIOUS
  <2>1. /\ d \in has_handle /\ i <= hash(handle[d], s)
        /\ i = hash(handle[d], s) => handle[d] = h
    BY <1>0, <1>1, <1>2 DEF SweepInv
  <2>2. /\ d # Null /\ d \in Contexts
        /\ hash(handle[d], s) \in 0..(s - 1)
        /\ slot[hash(handle[d], s)] = d
    BY <1>0, <1>1, <2>1, InSlot
  <2>3. handle[d] = h => c = d
    BY <1>1, <2>2 DEF grab
  <2> QED BY <2>1, <2>2, <2>3
<1>8. CASE c = Null
  <2>1. UNCHANGED <<harbor, handle_index, slot, name, handle, launch, before,
                    crashed>>
    BY <1>2, <1>8
  <2>2. TableInv' /\ slot_size' = slot_size /\ has_handle' = has_handle
        /\ NamesInv'
    BY <1>0, <2>1, SameTable
  <2>3. slot' \in [0..(slot_size' - 1) -> Contexts \cup {Null}]
    BY <2>2 DEF TableInv, Table
  <2>4. TypeOK'
    BY <1>0, <1>5, <1>6, <2>1, <2>3 DEF TypeOK
  <2>5. \A d \in before : i + 1 <= hash(handle[d], s)
    <3>1. \A d \in before : d # c
      BY <1>7, <1>8, HandleAssumption
    <3> QED BY <1>3, <1>7, <3>1
  <2>6. before' \subseteq has_handle'
    BY <1>0, <2>1, <2>2 DEF SweepInv
  <2>7. SweepInv'
    BY <1>1, <1>5, <1>6, <2>1, <2>2, <2>5, <2>6 DEF SweepInv
  <2> QED BY <2>2, <2>4, <2>7 DEF IInv
<1>9. CASE c # Null
  <2>1. c = slot[hash(h, s)] /\ handle[c] = h
    BY <1>1, <1>9 DEF grab
  <2>2. hash(h, s) \in 0..(s - 1)
    BY <1>3, <1>4, HashInTable
  <2>3. c \in Contexts
    BY <1>0, <1>1, <1>9, <2>1, <2>2 DEF TableInv, Table
  <2>4. c \in settled
    BY <1>0, <1>3, <2>1, <2>3 DEF TableInv
  <2>5. retire(c) /\ UNCHANGED <<harbor, handle_index, launch, crashed>>
    BY <1>2, <1>9
  <2>6. /\ TableInv' /\ slot_size' = slot_size
        /\ settled' = settled \ {c} /\ before' = before \ {c}
        /\ \A d \in Contexts : d # c => handle'[d] = handle[d]
        /\ sweep' \in [pc : {"none", "look", "retire", "done"},
                       i : 0..HandleCount, handle : Handles,
                       n : 0..HandleCount] => TypeOK'
    BY <1>0, <2>4, <2>5, RetireTable
  <2>7. TypeOK'
    BY <1>5, <1>6, <2>6
  <2>8. \A d \in before' : /\ d \in before /\ d \in settled' /\ d \in Contexts
                           /\ handle'[d] = handle[d] /\ handle[d] # 0
                           /\ d # c
    BY <1>7, <2>6 DEF has_handle
  <2>9. \A d \in before' : i + 1 <= hash(handle'[d], s)
    BY <1>3, <1>7, <2>8
  <2>10. before' \subseteq has_handle'
    BY <2>8 DEF has_handle
  <2>11. SweepInv'
    BY <1>1, <1>5, <1>6, <2>6, <2>9, <2>10 DEF SweepInv
  <2> QED BY <2>6, <2>7, <2>11 DEF IInv
<1> QED BY <1>8, <1>9

(* Nothing but the names changes, or nothing at all.                       *)
LEMMA NamesKeep ==
  ASSUME IInv, NamesInv',
         UNCHANGED <<harbor, handle_index, slot, handle, launch, sweep, before,
                     crashed>>
  PROVE  IInv'
<1>0. TypeOK /\ NamesInv /\ TableInv /\ SweepInv
  BY DEF IInv
<1>1. TableInv' /\ slot_size' = slot_size /\ has_handle' = has_handle
  BY <1>0, SameTable
<1>2. slot' \in [0..(slot_size' - 1) -> Contexts \cup {Null}]
  BY <1>1 DEF TableInv, Table
<1>3. name' \in Seq([name : Names, handle : Handles])
  BY DEF NamesInv, Entry
<1>4. TypeOK'
  BY <1>0, <1>2, <1>3 DEF TypeOK
<1>5. SweepInv'
  BY <1>0, <1>1 DEF SweepInv
<1> QED BY <1>1, <1>4, <1>5 DEF IInv

(* Every step of skynet_handle.c keeps the invariant.                      *)
LEMMA NextIInv ==
  ASSUME OneLauncher, IInv, [Next]_vars
  PROVE  IInv'
<1>1. NamesInv'
  BY NamesStep DEF IInv
<1>2. ASSUME NEW l \in Launchers, NEW c \in Contexts, Register(l, c)
      PROVE  IInv'
  BY <1>2, RegisterKeeps
<1>3. ASSUME NEW l \in Launchers, Assign(l) PROVE IInv'
  BY <1>3, AssignKeeps
<1>4. ASSUME NEW c \in Contexts, Retire(c) PROVE IInv'
  BY <1>1, <1>4, RetireKeeps
<1>5. CASE SweepPass
  BY <1>5, PassKeeps
<1>6. CASE SweepLook
  BY <1>6, LookKeeps
<1>7. CASE SweepRetire
  BY <1>1, <1>7, SweptKeeps
<1>8. ASSUME NEW h, NEW n, NameHandle(h, n) PROVE IInv'
  <2>1. UNCHANGED <<harbor, handle_index, slot, handle, launch, sweep, before,
                    crashed>>
    BY <1>8 DEF NameHandle
  <2> QED BY <1>1, <2>1, NamesKeep
<1>9. CASE UNCHANGED vars
  <2>1. UNCHANGED <<harbor, handle_index, slot, handle, launch, sweep, before,
                    crashed>>
    BY <1>9 DEF vars
  <2> QED BY <1>1, <2>1, NamesKeep
<1> QED BY <1>2, <1>3, <1>4, <1>5, <1>6, <1>7, <1>8, <1>9 DEF Next

(* In every reachable state of skynet_handle.c, with one launcher, the     *)
(* table of contexts, the names and the sweep of retireall are as the      *)
(* inductive invariant says.                                               *)
THEOREM Invariance ==
  ASSUME OneLauncher
  PROVE  Spec => []IInv
<1>1. IInv /\ [Next]_vars => IInv'
  BY NextIInv
<1> QED BY InitIInv, <1>1, PTL DEF Spec

(* The variables of skynet_handle.c keep their types: the size of the      *)
(* table never exceeds the range of handles.                               *)
THEOREM TypeCorrect ==
  ASSUME OneLauncher
  PROVE  Spec => []TypeOK
<1>1. IInv => TypeOK
  BY DEF IInv
<1> QED BY Invariance, <1>1, PTL

(* A search finds every service under its handle, whatever doubling and    *)
(* wrapping came between, and the assert of a doubling holds (Findable).   *)
THEOREM ServicesFindable ==
  ASSUME OneLauncher
  PROVE  Spec => []Findable
<1>1. IInv => Findable
  <2> SUFFICES ASSUME IInv PROVE Findable
    OBVIOUS
  <2>1. TableInv
    BY DEF IInv
  <2>2. \A c \in settled : grab(handle[c]) = c
    <3> SUFFICES ASSUME NEW c \in settled PROVE grab(handle[c]) = c
      OBVIOUS
    <3>1. slot[hash(handle[c], slot_size)] = c
      BY <2>1 DEF TableInv, Home
    <3>2. c # Null
      BY HandleAssumption DEF settled, registered
    <3> QED BY <3>1, <3>2 DEF grab
  <2> QED BY <2>1, <2>2 DEF TableInv, Home, Findable
<1> QED BY Invariance, <1>1, PTL

(* When skynet_handle_retireall returns, every service that had its handle *)
(* when the last pass began is gone, however the table has grown since     *)
(* (SweepComplete).                                                        *)
THEOREM SweepIsComplete ==
  ASSUME OneLauncher
  PROVE  Spec => []SweepComplete
<1>1. IInv => SweepComplete
  BY DEF IInv, SweepInv, SweepComplete
<1> QED BY Invariance, <1>1, PTL

(* What a step that loses a service does to the names.                     *)
LEMMA LosesNames ==
  ASSUME OneLauncher, IInv, NamesInv', [Next]_vars, NEW c \in settled,
         c \notin registered'
  PROVE  name' = unnamed(handle[c])
<1>0. TypeOK /\ NamesInv /\ TableInv /\ SweepInv
  BY DEF IInv
<1>1. c \in registered /\ c \in Contexts
  BY DEF settled, registered
<1>2. ~ UNCHANGED slot
  BY <1>1 DEF registered
<1>3. ASSUME NEW d \in settled, retire(d),
             UNCHANGED <<harbor, handle_index, launch, crashed>>
      PROVE  name' = unnamed(handle[c])
  <2>1. registered' = registered \ {d}
    BY <1>0, <1>3, RetireTable
  <2>2. c = d
    BY <1>1, <2>1
  <2> QED BY <1>3, <2>2 DEF retire
<1>4. ASSUME NEW l \in Launchers, NEW d \in Contexts, Register(l, d)
      PROVE  FALSE
  <2>1. PICK s \in Nat, h \in 0..(HandleCount - 1) :
          Table(slot', s) /\ Held(slot', s) = registered \cup {d}
    BY <1>0, <1>4, RegisterTable
  <2>2. registered' = Held(slot', s)
    BY <2>1 DEF registered, Held, Table
  <2> QED BY <1>1, <2>1, <2>2
<1>5. ASSUME NEW l \in Launchers, Assign(l) PROVE FALSE
  BY <1>2, <1>5 DEF Assign
<1>6. ASSUME NEW d \in Contexts, Retire(d) PROVE name' = unnamed(handle[c])
  <2>1. d \in settled /\ retire(d)
        /\ UNCHANGED <<harbor, handle_index, launch, crashed>>
    BY <1>6 DEF Retire
  <2> QED BY <1>3, <2>1
<1>7. CASE SweepPass \/ SweepLook
  BY <1>2, <1>7 DEF SweepPass, SweepLook
<1>8. CASE SweepRetire
  <2>1. PICK h, d : h = sweep.handle /\ d = grab(h)
    OBVIOUS
  <2>2. /\ sweep.pc = "retire"
        /\ IF d = Null THEN UNCHANGED <<slot, name, handle, before>>
                       ELSE retire(d)
        /\ UNCHANGED <<harbor, handle_index, launch, crashed>>
    BY <1>8, <2>1 DEF SweepRetire
  <2>3. d # Null /\ retire(d)
    BY <1>2, <2>2
  <2>4. h # 0 /\ h \in Nat /\ slot_size \in Nat \ {0}
    <3>1. h # 0 /\ h \in Handles /\ harbor \in Harbors
      BY <1>0, <2>1, <2>2 DEF SweepInv, TypeOK
    <3> QED BY <1>0, <3>1, HandlesHere DEF TableInv, Table
  <2>5. d = slot[hash(h, slot_size)] /\ handle[d] = h
    BY <2>1, <2>3 DEF grab
  <2>6. hash(h, slot_size) \in 0..(slot_size - 1)
    BY <2>4, HashInTable
  <2>7. d \in Contexts
    BY <1>0, <2>3, <2>5, <2>6 DEF TableInv, Table
  <2>8. d \in settled
    BY <1>0, <2>4, <2>5, <2>7 DEF TableInv
  <2> QED BY <1>3, <2>2, <2>3, <2>8
<1>9. ASSUME NEW h, NEW n, NameHandle(h, n) PROVE FALSE
  BY <1>2, <1>9 DEF NameHandle
<1>10. CASE UNCHANGED vars
  BY <1>2, <1>10 DEF vars
<1> QED BY <1>4, <1>5, <1>6, <1>7, <1>8, <1>9, <1>10 DEF Next

(* A service that goes leaves no name behind and takes no other's with it, *)
(* and services go in no other way (RetiredUnnamed).                       *)
THEOREM RetiredAreUnnamed ==
  ASSUME OneLauncher
  PROVE  Spec => RetiredUnnamed
<1>1. ASSUME IInv, [Next]_vars, NEW c \in settled, c \notin registered'
      PROVE  {name'[i] : i \in DOMAIN name'} =
             {e \in {name[i] : i \in DOMAIN name} : e.handle # handle[c]}
  <2>1. NamesInv /\ NamesInv'
    BY <1>1, NamesStep DEF IInv
  <2>2. name' = unnamed(handle[c])
    BY <1>1, <2>1, LosesNames
  <2>3. Entries(unnamed(handle[c])) =
          {e \in Entries(name) : e.handle # handle[c]}
    BY <2>1, KeepingKeeps
  <2> QED BY <2>2, <2>3 DEF Entries
<1>2. IInv /\ [Next]_vars =>
        [\A c \in settled : c \notin registered' =>
           {name'[i] : i \in DOMAIN name'} =
           {e \in {name[i] : i \in DOMAIN name} : e.handle # handle[c]}]_vars
  BY <1>1
<1> QED BY Invariance, <1>2, PTL DEF Spec, RetiredUnnamed

-----------------------------------------------------------------------------
(* The read-write lock. Mutual exclusion is not inductive: a writer enters *)
(* when it reads read = 0, which keeps readers out only if read counts     *)
(* every reader that has passed its second look at write, and if write     *)
(* stays set as long as the writer is inside. LockInv adds these two.      *)

(* The threads that own the write flag.                                    *)
Owner == {"w_wait", "writing"}

(* The write flag is set for its owner, it has one owner at most, and no   *)
(* reader is inside with a writer.                                         *)
WriteFlag ==
  /\ \A t \in Threads : pc[t] \in Owner => write = 1
  /\ \A t, u \in Threads : pc[t] \in Owner /\ pc[u] \in Owner => t = u
  /\ \A t, u \in Threads : pc[t] = "writing" => pc[u] # "reading"

LockInv == LockTypeOK /\ ReadCountExact /\ WriteFlag

(* What one step does to the set of counted readers: it leaves it alone,   *)
(* adds one thread or takes one out, and read follows.                     *)
LEMMA CountedStep ==
  ASSUME LockTypeOK, ReadCountExact, NEW t \in Threads, Request(t) \/ Step(t)
  PROVE  ReadCountExact'
<1>1. IsFiniteSet(Counted) /\ Counted \subseteq Threads
  <2>1. Counted \subseteq Threads
    BY DEF Counted
  <2> QED
    BY <2>1, ThreadsAssumption, FS_Subset
<1>2. read \in Nat /\ read = Cardinality(Counted)
  BY DEF LockTypeOK, ReadCountExact
<1>3. CASE Request(t) \/ RlockWait(t) \/ RlockCheck(t) \/ WlockSet(t)
             \/ WlockWait(t) \/ Wunlock(t)
  <2>1. Counted' = Counted /\ read' = read
    BY <1>3 DEF Counted, LockTypeOK, Request, RlockWait, RlockCheck, WlockSet,
                WlockWait, Wunlock, goto
  <2> QED
    BY <1>2, <2>1 DEF ReadCountExact
<1>4. CASE RlockAdd(t)
  <2>1. Counted' = Counted \cup {t} /\ t \notin Counted /\ read' = read + 1
    BY <1>4 DEF Counted, LockTypeOK, RlockAdd, goto
  <2>2. Cardinality(Counted \cup {t}) = Cardinality(Counted) + 1
    BY <1>1, <2>1, FS_AddElement
  <2> QED
    BY <1>2, <2>1, <2>2 DEF ReadCountExact
<1>5. CASE RlockSub(t) \/ Runlock(t)
  <2>1. Counted' = Counted \ {t} /\ t \in Counted /\ read' = read - 1
    BY <1>5 DEF Counted, LockTypeOK, RlockSub, Runlock, goto
  <2>2. Cardinality(Counted \ {t}) = Cardinality(Counted) - 1
    BY <1>1, <2>1, FS_RemoveElement
  <2> QED
    BY <1>2, <2>1, <2>2 DEF ReadCountExact
<1> QED
  BY <1>3, <1>4, <1>5 DEF Step

(* A reader that is counted makes read positive: this is what turns the    *)
(* writer's test of read into the absence of readers.                      *)
LEMMA CountedPositive ==
  ASSUME ReadCountExact, read = 0, NEW u \in Threads
  PROVE  pc[u] \notin {"r_check", "r_sub", "reading"}
<1>1. Counted \subseteq Threads
  BY DEF Counted
<1>2. IsFiniteSet(Counted)
  BY <1>1, ThreadsAssumption, FS_Subset
<1>3. Counted = {}
  BY <1>2, FS_EmptySet DEF ReadCountExact
<1> QED
  BY <1>3 DEF Counted

(* The initial state satisfies the invariant: nobody wants the lock.       *)
LEMMA InitLock == LockInit => LockInv
<1> SUFFICES ASSUME LockInit PROVE LockInv
  OBVIOUS
<1>1. Counted = {}
  BY DEF LockInit, Counted
<1>2. ReadCountExact
  BY <1>1, FS_EmptySet DEF LockInit, ReadCountExact
<1> QED
  BY <1>2 DEF LockInit, LockInv, LockTypeOK, WriteFlag, Owner

(* Every step of every thread preserves the invariant.                     *)
LEMMA NextLock == LockInv /\ [LockNext]_lock => LockInv'
<1> SUFFICES ASSUME LockInv, [LockNext]_lock PROVE LockInv'
  OBVIOUS
<1> USE DEF LockInv
<1>1. CASE UNCHANGED lock
  BY <1>1 DEF lock, LockTypeOK, ReadCountExact, Counted, WriteFlag, Owner
<1>2. ASSUME NEW t \in Threads, Request(t) \/ Step(t)
      PROVE  LockInv'
  <2>1. ReadCountExact'
    BY <1>2, CountedStep
  <2>2. read' \in Nat
    <3>1. IsFiniteSet(Counted')
      <4>1. Counted' \subseteq Threads
        BY DEF Counted
      <4> QED
        BY <4>1, ThreadsAssumption, FS_Subset
    <3> QED
      BY <2>1, <3>1, FS_CardinalityType DEF ReadCountExact
  <2>3. LockTypeOK'
    BY <1>2, <2>2 DEF LockTypeOK, Request, Step, RlockWait, RlockAdd,
                      RlockCheck, RlockSub, WlockSet, WlockWait, Runlock,
                      Wunlock, goto
  <2>4. WriteFlag'
    <3>1. CASE Request(t) \/ RlockWait(t) \/ RlockAdd(t) \/ RlockSub(t)
                 \/ Runlock(t)
      BY <3>1 DEF LockTypeOK, WriteFlag, Owner, Request, RlockWait, RlockAdd,
                  RlockSub, Runlock, goto
    <3>2. CASE RlockCheck(t)
      BY <3>2 DEF LockTypeOK, WriteFlag, Owner, RlockCheck, goto
    <3>3. CASE WlockSet(t)
      BY <3>3 DEF LockTypeOK, WriteFlag, Owner, WlockSet, goto
    <3>4. CASE WlockWait(t)
      <4>1. \A u \in Threads : pc[u] # "reading"
        BY <3>4, CountedPositive DEF WlockWait
      <4> QED
        BY <3>4, <4>1 DEF LockTypeOK, WriteFlag, Owner, WlockWait, goto
    <3>5. CASE Wunlock(t)
      BY <3>5 DEF LockTypeOK, WriteFlag, Owner, Wunlock, goto
    <3> QED
      BY <1>2, <3>1, <3>2, <3>3, <3>4, <3>5 DEF Step
  <2> QED
    BY <2>1, <2>3, <2>4
<1> QED
  BY <1>1, <1>2 DEF LockNext

(* The inductive invariant holds in every reachable state.                 *)
THEOREM LockInvariance == LockSpec => []LockInv
BY InitLock, NextLock, PTL DEF LockSpec

(* The variables of the lock keep their types; the count of readers never  *)
(* goes below zero.                                                        *)
THEOREM LockType == LockSpec => []LockTypeOK
<1>1. LockInv => LockTypeOK
  BY DEF LockInv
<1> QED
  BY <1>1, LockInvariance, PTL

(* rwlock.h keeps a writer apart from readers and from other writers, with *)
(* any number of threads.                                                  *)
THEOREM LockExclusion == LockSpec => []MutualExclusion
<1>1. LockInv => MutualExclusion
  BY DEF LockInv, WriteFlag, Owner, MutualExclusion
<1> QED
  BY <1>1, LockInvariance, PTL

(* rwlock.h loses no reader's count and leaves none behind.                *)
THEOREM LockCount == LockSpec => []ReadCountExact
<1>1. LockInv => ReadCountExact
  BY DEF LockInv
<1> QED
  BY <1>1, LockInvariance, PTL
=============================================================================
