-------------------------- MODULE AgentStreamProofs --------------------------
(***************************************************************************)
(* Proofs about AgentStream, for any connections, any hash of them, any    *)
(* capacity of the ring, any base of the size bytes and any packages.      *)
(*                                                                         *)
(* FrameInv is the inductive invariant of the gate: of every connection it *)
(* has read the first p bytes, forwarded the k packages that end in them   *)
(* and keeps the part of the next one in the hash table; the ring is empty *)
(* between two messages. SessionInv is that of the agent; it rests on      *)
(* FrameInv, because the turns follow the order of the packages sent:      *)
(*   Mail     packages are in the mailbox in the order they arrived;       *)
(*   Answers  the coroutine that calls has one answer at most;             *)
(*   Line     the others wait in the order they arrived, all behind the    *)
(*            one that has the turn, and everything before it has ended;   *)
(*   Turn     who has the turn, with ref and wakeup_session;               *)
(*   Runs     the coroutine that runs is the one that has the turn;        *)
(*   Handles  what has been handled is a beginning of what can be read.    *)
(* From these follow FramingExact, TurnIsTaken and the refinement of       *)
(* Serial. What is defined by recursion (FlattenSeq, FoldLeft, push_more,  *)
(* readable) is reached through the least number of a set.                 *)
(***************************************************************************)
EXTENDS AgentStream, SequenceTheorems, WellFoundedInduction, TLAPS
-----------------------------------------------------------------------------
(* Induction. The induction theorems of the library take the formula as an *)
(* operator; the least number of a set takes a set.                        *)
LEMMA LeastNumber ==
  ASSUME NEW T \in SUBSET Nat, T # {}
  PROVE  \E m \in T : \A k \in T : m <= k
<1>1. PICK m \in T : \A k \in T : <<k, m>> \notin OpToRel(<, Nat)
  BY NatLessThanWellFounded, WFMin
<1>2. \A k \in T : ~ (k < m)
  BY <1>1 DEF OpToRel
<1> QED BY <1>2

(* A set that has 0 and, with each number below n, the next one has all up *)
(* to n.                                                                   *)
LEMMA InductionTo ==
  ASSUME NEW n \in Nat, NEW G, 0 \in G, \A k \in 0..(n - 1) : k \in G => k + 1 \in G
  PROVE  0..n \subseteq G
<1> SUFFICES ASSUME 0..n \ G # {} PROVE FALSE
  OBVIOUS
<1>0. 0..n \ G \in SUBSET Nat
  OBVIOUS
<1>1. PICK m \in 0..n \ G : \A k \in 0..n \ G : m <= k
  BY <1>0, LeastNumber
<1>2. m # 0 /\ m - 1 \in 0..(n - 1)
  BY <1>1
<1>3. m - 1 \in G
  BY <1>1, <1>2
<1> QED BY <1>1, <1>2, <1>3

-----------------------------------------------------------------------------
(* The bytes of the stream. off[k] is where the k-th package ends.         *)
Bytes == Seq(Nat)

(* FlattenSeq puts the sequences one after the other.                      *)
Laid(q, all, off) ==
  /\ off \in [0..Len(q) -> Nat] /\ off[0] = 0
  /\ \A k \in 1..Len(q) : off[k] = off[k - 1] + Len(q[k])
  /\ all \in Bytes /\ Len(all) = off[Len(q)]
  /\ \A k \in 1..Len(q) : \A j \in 1..Len(q[k]) : all[off[k - 1] + j] = q[k][j]

(* f[1..k] joins the first k sequences of q, one by one.                   *)
Joins(f, q, k) ==
  /\ f \in [1..k -> Bytes]
  /\ \A i \in 1..k : f[i] = IF i = 1 THEN q[i] ELSE f[i - 1] \o q[i]

(* There are such joins: the recursive function of FlattenSeq is defined.  *)
LEMMA JoinsExist ==
  ASSUME NEW q \in Seq(Bytes)
  PROVE  \A k \in 0..Len(q) : \E f : Joins(f, q, k)
<1> DEFINE n == Len(q)
           G == {k \in Nat : \E f : Joins(f, q, k)}
<1>1. n \in Nat /\ \A i \in 1..n : q[i] \in Bytes
  OBVIOUS
<1>2. 0 \in G
  <2>1. Joins([i \in 1..0 |-> << >>], q, 0)
    BY DEF Joins
  <2> QED BY <2>1
<1>3. ASSUME NEW k \in 0..(n - 1), k \in G PROVE k + 1 \in G
  <2>1. PICK f : Joins(f, q, k)
    BY <1>3
  <2>2. PICK e : e = IF k = 0 THEN q[k + 1] ELSE f[k] \o q[k + 1]
    OBVIOUS
  <2>3. PICK g : g = [i \in 1..(k + 1) |-> IF i = k + 1 THEN e ELSE f[i]]
    OBVIOUS
  <2>4. e \in Bytes
    <3>1. k # 0 => f[k] \in Bytes
      BY <2>1 DEF Joins
    <3>2. q[k + 1] \in Bytes
      BY <1>1
    <3> QED BY <2>2, <3>1, <3>2, ConcatProperties DEF Bytes
  <2>5. ASSUME NEW i \in 1..(k + 1)
        PROVE  g[i] \in Bytes /\ g[i] = IF i = 1 THEN q[i] ELSE g[i - 1] \o q[i]
    <3>1. CASE i = k + 1
      <4>1. g[i] = e /\ (k # 0 => g[k] = f[k]) /\ i - 1 = k
        BY <2>3, <3>1
      <4> QED BY <2>2, <2>4, <3>1, <4>1
    <3>2. CASE i \in 1..k
      <4>1. g[i] = f[i] /\ (i # 1 => g[i - 1] = f[i - 1])
        BY <2>3, <3>2
      <4> QED BY <2>1, <3>2, <4>1 DEF Joins
    <3> QED BY <3>1, <3>2
  <2>6. Joins(g, q, k + 1)
    BY <2>3, <2>5 DEF Joins
  <2> QED BY <2>6
<1>4. 0..n \subseteq G
  <2> HIDE DEF G
  <2> QED BY <1>1, <1>2, <1>3, InductionTo
<1> QED BY <1>4

(* FlattenSeq, as netpack uses it for the bytes of a connection, is the    *)
(* last of the joins.                                                      *)
LEMMA FlattenJoins ==
  ASSUME NEW q \in Seq(Bytes), Len(q) # 0
  PROVE  \E f : Joins(f, q, Len(q)) /\ FlattenSeq(q) = f[Len(q)]
<1>0. Len(q) \in Nat \ {0} /\ Len(q) \in 0..Len(q)
  OBVIOUS
<1>1. PICK f : Joins(f, q, Len(q))
  BY <1>0, JoinsExist
<1>2. f = [i \in 1..Len(q) |-> IF i = 1 THEN q[i] ELSE f[i - 1] \o q[i]]
  BY <1>1 DEF Joins
<1> DEFINE F == CHOOSE h : h = [i \in 1..Len(q) |-> IF i = 1 THEN q[i]
                                                    ELSE h[i - 1] \o q[i]]
<1>3. F = [i \in 1..Len(q) |-> IF i = 1 THEN q[i] ELSE F[i - 1] \o q[i]]
  BY <1>2
<1>4. FlattenSeq(q) = F[Len(q)]
  BY <1>0 DEF FlattenSeq
<1> HIDE DEF F
<1> DEFINE E == {k \in Nat : k \in 1..Len(q) => F[k] = f[k]}
<1>5. 0 \in E
  OBVIOUS
<1>6. ASSUME NEW k \in 0..(Len(q) - 1), k \in E PROVE k + 1 \in E
  <2>1. k + 1 \in 1..Len(q) /\ (k + 1) - 1 = k /\ k \in Nat
    BY <1>0
  <2>2. F[k + 1] = IF k + 1 = 1 THEN q[k + 1] ELSE F[(k + 1) - 1] \o q[k + 1]
    BY <1>3, <2>1
  <2>3. f[k + 1] = IF k + 1 = 1 THEN q[k + 1] ELSE f[(k + 1) - 1] \o q[k + 1]
    BY <1>2, <2>1
  <2>4. k # 0 => F[k] = f[k]
    BY <1>6, <1>0
  <2> QED BY <2>1, <2>2, <2>3, <2>4
<1>7. 0..Len(q) \subseteq E
  <2> HIDE DEF E
  <2> QED BY <1>0, <1>5, <1>6, InductionTo
<1>8. F[Len(q)] = f[Len(q)]
  BY <1>0, <1>7
<1> QED BY <1>1, <1>4, <1>8

(* What FlattenSeq makes is laid out as its pieces are.                    *)
LEMMA FlattenLaid ==
  ASSUME NEW q \in Seq(Bytes)
  PROVE  \E off : Laid(q, FlattenSeq(q), off)
<1>0. Len(q) \in Nat /\ \A i \in 1..Len(q) : q[i] \in Bytes /\ Len(q[i]) \in Nat
  BY DEF Bytes
<1>1. CASE Len(q) = 0
  <2>1. FlattenSeq(q) = << >>
    BY <1>1 DEF FlattenSeq
  <2>2. Laid(q, << >>, [k \in 0..0 |-> 0])
    BY <1>1 DEF Laid, Bytes
  <2> QED BY <2>1, <2>2
<1>2. CASE Len(q) # 0
  <2>1. PICK f : Joins(f, q, Len(q)) /\ FlattenSeq(q) = f[Len(q)]
    BY <1>2, FlattenJoins
  <2>2. PICK off : off = [k \in 0..Len(q) |-> IF k = 0 THEN 0 ELSE Len(f[k])]
    OBVIOUS
  <2>3. \A i \in 1..Len(q) : f[i] \in Bytes /\ Len(f[i]) \in Nat
    BY <2>1 DEF Joins, Bytes
  <2>4. off \in [0..Len(q) -> Nat] /\ off[0] = 0
    BY <1>0, <2>2, <2>3
  <2>5. ASSUME NEW k \in 1..Len(q) PROVE off[k] = off[k - 1] + Len(q[k])
    <3>1. f[k] = IF k = 1 THEN q[k] ELSE f[k - 1] \o q[k]
      BY <2>1 DEF Joins
    <3>2. CASE k = 1
      BY <1>0, <2>2, <3>1, <3>2
    <3>3. CASE k # 1
      <4>1. k - 1 \in 1..Len(q) /\ off[k - 1] = Len(f[k - 1]) /\ off[k] = Len(f[k])
        BY <1>0, <2>2, <3>3
      <4> QED BY <1>0, <2>3, <3>1, <3>3, <4>1, ConcatProperties DEF Bytes
    <3> QED BY <3>2, <3>3
  <2> DEFINE P(i) == \A k \in 1..i : \A j \in 1..Len(q[k]) :
                       /\ off[k - 1] + j \in 1..off[i]
                       /\ f[i][off[k - 1] + j] = q[k][j]
             G == {i \in Nat : i <= Len(q) => P(i)}
  <2>6. 0 \in G
    OBVIOUS
  <2>7. ASSUME NEW i \in 0..(Len(q) - 1), i \in G PROVE i + 1 \in G
    <3>0. i + 1 \in 1..Len(q) /\ i \in Nat /\ i <= Len(q) /\ (i + 1) - 1 = i
      BY <1>0
    <3>1. off[i + 1] = off[i] + Len(q[i + 1]) /\ off[i] \in Nat /\ off[i + 1] \in Nat
      BY <1>0, <2>4, <2>5, <3>0
    <3>2. f[i + 1] = IF i = 0 THEN q[i + 1] ELSE f[i] \o q[i + 1]
      <4>1. f[i + 1] = IF i + 1 = 1 THEN q[i + 1]
                       ELSE f[(i + 1) - 1] \o q[i + 1]
        BY <2>1, <3>0 DEF Joins
      <4> QED BY <3>0, <4>1
    <3>3. i # 0 => f[i] \in Bytes /\ Len(f[i]) = off[i]
      BY <2>2, <2>3, <3>0
    <3>4. /\ \A j \in 1..off[i] : f[i + 1][j] = f[i][j]
          /\ \A j \in 1..Len(q[i + 1]) : f[i + 1][off[i] + j] = q[i + 1][j]
      <4>1. CASE i = 0
        BY <2>4, <3>2, <1>0, <4>1
      <4>2. CASE i # 0
        <5>1. f[i] \in Seq(Nat) /\ q[i + 1] \in Seq(Nat)
          BY <1>0, <3>0, <3>3, <4>2 DEF Bytes
        <5>2. \A m \in 1..(Len(f[i]) + Len(q[i + 1])) :
                (f[i] \o q[i + 1])[m] = IF m <= Len(f[i]) THEN f[i][m]
                                        ELSE q[i + 1][m - Len(f[i])]
          BY <5>1, ConcatProperties
        <5>3. f[i + 1] = f[i] \o q[i + 1] /\ Len(f[i]) = off[i]
          BY <3>2, <3>3, <4>2
        <5>4. Len(q[i + 1]) \in Nat
          BY <1>0, <3>0
        <5>5. \A m \in 1..(off[i] + Len(q[i + 1])) :
                f[i + 1][m] = IF m <= off[i] THEN f[i][m]
                                             ELSE q[i + 1][m - off[i]]
          BY <5>2, <5>3
        <5>6. ASSUME NEW j \in 1..off[i] PROVE f[i + 1][j] = f[i][j]
          <6>1. j \in 1..(off[i] + Len(q[i + 1])) /\ j <= off[i]
            BY <3>1, <5>4
          <6> QED BY <5>5, <6>1
        <5>7. ASSUME NEW j \in 1..Len(q[i + 1])
              PROVE  f[i + 1][off[i] + j] = q[i + 1][j]
          <6>1. /\ off[i] + j \in 1..(off[i] + Len(q[i + 1]))
                /\ ~ (off[i] + j <= off[i]) /\ (off[i] + j) - off[i] = j
            BY <3>1, <5>4
          <6> QED BY <5>5, <6>1
        <5> QED BY <5>6, <5>7
      <4> QED BY <4>1, <4>2
    <3>5. P(i)
      BY <2>7, <3>0
    <3>6. ASSUME NEW k \in 1..(i + 1), NEW j \in 1..Len(q[k])
          PROVE  /\ off[k - 1] + j \in 1..off[i + 1]
                 /\ f[i + 1][off[k - 1] + j] = q[k][j]
      <4>1. CASE k = i + 1
        BY <1>0, <3>0, <3>1, <3>4, <4>1
      <4>2. CASE k \in 1..i
        <5>1. off[k - 1] + j \in 1..off[i] /\ f[i][off[k - 1] + j] = q[k][j]
          BY <3>5, <4>2
        <5>2. f[i + 1][off[k - 1] + j] = f[i][off[k - 1] + j]
          BY <3>4, <5>1
        <5>3. PICK d, e, l : d = off[i] /\ e = off[i + 1] /\ l = Len(q[i + 1])
          OBVIOUS
        <5>4. d \in Nat /\ e \in Nat /\ l \in Nat /\ e = d + l
          <6>1. l \in Nat
            BY <1>0, <3>0, <5>3
          <6> QED BY <3>1, <5>3, <6>1
        <5>5. 1..d \subseteq 1..e
          <6> HIDE DEF G
          <6> QED BY <5>4
        <5> QED BY <5>1, <5>2, <5>3, <5>5
      <4> QED BY <3>0, <4>1, <4>2
    <3> QED BY <3>0, <3>6
  <2>8. 0..Len(q) \subseteq G
    <3> HIDE DEF G
    <3> QED BY <1>0, <2>6, <2>7, InductionTo
  <2>9. P(Len(q))
    BY <1>0, <2>8
  <2>10. f[Len(q)] \in Bytes /\ Len(f[Len(q)]) = off[Len(q)]
    BY <1>0, <1>2, <2>2, <2>3
  <2> QED BY <2>1, <2>4, <2>5, <2>9, <2>10 DEF Laid
<1> QED BY <1>1, <1>2

-----------------------------------------------------------------------------
(* The packages of s in the stream all; off[k] is where the k-th one ends. *)
Framed(s, all, off) ==
  /\ off \in [0..Len(s) -> Nat] /\ off[0] = 0
  /\ \A k \in 1..Len(s) : off[k] = off[k - 1] + 2 + Len(s[k])
  /\ all \in Bytes /\ Len(all) = off[Len(s)]
  /\ \A k \in 1..Len(s) :
       /\ all[off[k - 1] + 1] * Base + all[off[k - 1] + 2] = Len(s[k])
       /\ \A j \in 1..Len(s[k]) : all[off[k - 1] + 2 + j] = s[k][j]

bytes(s) == FlattenSeq([i \in DOMAIN s |-> encode(s[i])])

(* The quotient and the remainder of a size, which are its two bytes.      *)
LEMMA DivMod ==
  ASSUME NEW n \in Nat, NEW d \in Nat \ {0}
  PROVE  \E q \in Nat : \E r \in Nat :
           q = n \div d /\ r = n % d /\ q * d + r = n
<1>1. PICK q : q = n \div d
  OBVIOUS
<1>2. PICK r : r = n % d
  OBVIOUS
<1>3. q \in Nat /\ r \in Nat
  BY <1>1, <1>2
<1>4. n - r = d * q
  BY <1>1, <1>2
<1>5. q * d + r = n
  BY <1>3, <1>4
<1> QED BY <1>1, <1>2, <1>3, <1>5

(* What encode makes of a package: two bytes of size, then the package.    *)
LEMMA EncodeFrame ==
  ASSUME NEW b \in Bytes
  PROVE  /\ encode(b) \in Bytes /\ Len(encode(b)) = 2 + Len(b)
         /\ encode(b)[1] * Base + encode(b)[2] = Len(b)
         /\ \A j \in 1..Len(b) : encode(b)[2 + j] = b[j]
<1>1. Len(b) \in Nat /\ Base \in Nat \ {0}
  BY NetpackAssumption DEF Bytes
<1>2. PICK q \in Nat, r \in Nat :
        q = Len(b) \div Base /\ r = Len(b) % Base /\ q * Base + r = Len(b)
  BY <1>1, DivMod
<1> DEFINE h == <<q, r>>
<1>3. h \in Bytes /\ Len(h) = 2
  BY DEF Bytes
<1>4. encode(b) = h \o b
  BY <1>2 DEF encode
<1>5. /\ h \o b \in Bytes /\ Len(h \o b) = 2 + Len(b)
      /\ \A i \in 1..(2 + Len(b)) :
           (h \o b)[i] = IF i <= 2 THEN h[i] ELSE b[i - 2]
  BY <1>3, ConcatProperties DEF Bytes
<1>6. encode(b)[1] = q /\ encode(b)[2] = r
  BY <1>1, <1>4, <1>5
<1>7. ASSUME NEW j \in 1..Len(b) PROVE encode(b)[2 + j] = b[j]
  <2>1. 2 + j \in 1..(2 + Len(b)) /\ ~ (2 + j <= 2) /\ (2 + j) - 2 = j
    BY <1>1
  <2> HIDE DEF h
  <2> QED BY <1>4, <1>5, <2>1
<1>8. encode(b)[1] * Base + encode(b)[2] = Len(b)
  BY <1>2, <1>6
<1>9. encode(b) \in Bytes /\ Len(encode(b)) = 2 + Len(b)
  BY <1>4, <1>5
<1> QED BY <1>7, <1>8, <1>9

(* The bytes a client sends are laid out package by package.               *)
LEMMA StreamFramed ==
  ASSUME NEW s \in Seq(Bytes)
  PROVE  \E off : Framed(s, bytes(s), off)
<1>1. PICK q : q = [i \in DOMAIN s |-> encode(s[i])]
  OBVIOUS
<1>2. /\ Len(s) \in Nat /\ DOMAIN s = 1..Len(s)
      /\ \A k \in 1..Len(s) : s[k] \in Bytes /\ Len(s[k]) \in Nat
  BY DEF Bytes
<1>3. q \in Seq(Bytes) /\ Len(q) = Len(s)
  BY <1>1, <1>2, EncodeFrame
<1>4. PICK off : Laid(q, bytes(s), off)
  BY <1>1, <1>3, FlattenLaid DEF bytes
<1>5. ASSUME NEW k \in 1..Len(s)
      PROVE  /\ off[k] = off[k - 1] + 2 + Len(s[k])
             /\ bytes(s)[off[k - 1] + 1] * Base + bytes(s)[off[k - 1] + 2]
                  = Len(s[k])
             /\ \A j \in 1..Len(s[k]) : bytes(s)[off[k - 1] + 2 + j] = s[k][j]
  <2>0. k - 1 \in 0..Len(q) /\ k \in 1..Len(q)
    BY <1>2, <1>3
  <2>1. q[k] = encode(s[k]) /\ Len(q[k]) = 2 + Len(s[k]) /\ off[k - 1] \in Nat
    BY <1>1, <1>2, <1>4, <2>0, EncodeFrame DEF Laid
  <2>2. off[k] = off[k - 1] + (2 + Len(s[k]))
    BY <1>4, <2>0, <2>1 DEF Laid
  <2>3. \A j \in 1..(2 + Len(s[k])) : bytes(s)[off[k - 1] + j] = q[k][j]
    BY <1>4, <2>0, <2>1 DEF Laid
  <2>4. 1 \in 1..(2 + Len(s[k])) /\ 2 \in 1..(2 + Len(s[k]))
    BY <1>2
  <2>5. bytes(s)[off[k - 1] + 1] * Base + bytes(s)[off[k - 1] + 2] = Len(s[k])
    <3>1. /\ bytes(s)[off[k - 1] + 1] = encode(s[k])[1]
          /\ bytes(s)[off[k - 1] + 2] = encode(s[k])[2]
      BY <2>1, <2>3, <2>4
    <3>2. encode(s[k])[1] * Base + encode(s[k])[2] = Len(s[k])
      BY <1>2, EncodeFrame
    <3> QED BY <3>1, <3>2
  <2>6. ASSUME NEW j \in 1..Len(s[k])
        PROVE  bytes(s)[off[k - 1] + 2 + j] = s[k][j]
    <3>1. 2 + j \in 1..(2 + Len(s[k])) /\ off[k - 1] + (2 + j) = off[k - 1] + 2 + j
      BY <1>2, <2>1
    <3>2. encode(s[k])[2 + j] = s[k][j]
      BY <1>2, EncodeFrame
    <3> QED BY <2>1, <2>3, <3>1, <3>2
  <2>7. off[k] = off[k - 1] + 2 + Len(s[k])
    <3>1. Len(s[k]) \in Nat /\ off[k - 1] \in Nat
      BY <1>2, <2>1
    <3> QED BY <2>2, <3>1
  <2> QED BY <2>5, <2>6, <2>7
<1>6. /\ off \in [0..Len(s) -> Nat] /\ off[0] = 0
      /\ bytes(s) \in Bytes /\ Len(bytes(s)) = off[Len(s)]
  BY <1>3, <1>4 DEF Laid
<1>7. Framed(s, bytes(s), off)
  BY <1>5, <1>6, Zenon DEF Framed
<1> QED BY <1>7

(* The ends of the packages are two bytes or more apart.                   *)
LEMMA EndsApart ==
  ASSUME NEW s \in Seq(Bytes), NEW all, NEW off, Framed(s, all, off),
         NEW k \in 0..Len(s), NEW m \in 0..Len(s), k < m
  PROVE  off[k] + 2 <= off[m]
<1>1. /\ Len(s) \in Nat
      /\ \A i \in 1..Len(s) : Len(s[i]) \in Nat /\ off[i - 1] \in Nat
                              /\ off[i] = off[i - 1] + 2 + Len(s[i])
  <2>1. Len(s) \in Nat /\ \A i \in 1..Len(s) : s[i] \in Bytes
    OBVIOUS
  <2>2. \A i \in 1..Len(s) : i - 1 \in 0..Len(s) /\ Len(s[i]) \in Nat
    BY <2>1 DEF Bytes
  <2> QED BY <2>1, <2>2 DEF Framed
<1> DEFINE G == {i \in Nat : k < i /\ i <= Len(s) => off[k] + 2 <= off[i]}
<1>2. 0 \in G
  OBVIOUS
<1>3. ASSUME NEW i \in 0..(m - 1), i \in G PROVE i + 1 \in G
  <2>1. SUFFICES ASSUME k < i + 1, i + 1 <= Len(s)
                 PROVE  off[k] + 2 <= off[i + 1]
    OBVIOUS
  <2>2. /\ off[i] \in Nat /\ off[k] \in Nat /\ Len(s[i + 1]) \in Nat
        /\ off[i + 1] = off[i] + 2 + Len(s[i + 1])
    <3>1. i + 1 \in 1..Len(s) /\ (i + 1) - 1 = i
      BY <1>1, <2>1
    <3> QED BY <1>1, <3>1 DEF Framed
  <2>3. CASE k = i
    BY <2>2, <2>3
  <2>4. CASE k < i
    <3>1. off[k] + 2 <= off[i]
      BY <1>1, <1>3, <2>1, <2>4
    <3>2. PICK x, y, z, l : /\ x = off[k] /\ y = off[i] /\ z = off[i + 1]
                            /\ l = Len(s[i + 1])
      OBVIOUS
    <3>3. /\ x \in Nat /\ y \in Nat /\ l \in Nat /\ z = y + 2 + l
          /\ x + 2 <= y
      BY <2>2, <3>1, <3>2
    <3>4. x + 2 <= z
      <4> HIDE DEF G
      <4> QED BY <3>3
    <3> QED BY <3>2, <3>4
  <2> QED BY <2>1, <2>3, <2>4
<1>4. 0..m \subseteq G
  <2>1. m \in Nat
    BY <1>1
  <2> HIDE DEF G
  <2> QED BY <1>2, <1>3, <2>1, InductionTo
<1> QED BY <1>1, <1>4

(* The first p bytes are k packages and less than one more.                *)
Reached(s, off, k, p) ==
  /\ k \in 0..Len(s) /\ off[k] <= p
  /\ k < Len(s) => p < off[k + 1]

(* Any number of bytes reaches some package.                               *)
LEMMA ReachedExists ==
  ASSUME NEW s \in Seq(Bytes), NEW all, NEW off, Framed(s, all, off),
         NEW p \in 0..Len(all)
  PROVE  \E k : Reached(s, off, k, p)
<1>1. Len(s) \in Nat /\ off \in [0..Len(s) -> Nat] /\ off[0] = 0 /\ p \in Nat
  BY DEF Framed, Bytes
<1>2. CASE off[Len(s)] <= p
  BY <1>1, <1>2 DEF Reached
<1>3. CASE ~ (off[Len(s)] <= p)
  <2> DEFINE T == {m \in 0..Len(s) : off[m] > p}
  <2>1. T \in SUBSET Nat /\ T # {}
    BY <1>1, <1>3
  <2>2. PICK m \in T : \A i \in T : m <= i
    BY <2>1, LeastNumber
  <2>3. m # 0 /\ m - 1 \in 0..Len(s) /\ m - 1 \notin T /\ (m - 1) + 1 = m
    BY <1>1, <2>2
  <2>4. Reached(s, off, m - 1, p)
    BY <1>1, <2>2, <2>3 DEF Reached
  <2> QED BY <2>4
<1> QED BY <1>2, <1>3

(* It reaches one package only: the last that ends in the first p bytes.   *)
LEMMA ReachedUnique ==
  ASSUME NEW s \in Seq(Bytes), NEW all, NEW off, Framed(s, all, off),
         NEW p \in Nat, NEW k, NEW m, Reached(s, off, k, p), m \in 0..Len(s),
         off[m] <= p
  PROVE  m <= k /\ (Reached(s, off, m, p) => m = k)
<1>1. Len(s) \in Nat /\ off \in [0..Len(s) -> Nat] /\ k \in 0..Len(s)
  BY DEF Framed, Reached
<1>2. \A i \in 0..Len(s) : \A j \in 0..Len(s) : i < j => off[i] + 2 <= off[j]
  BY EndsApart
<1>3. ASSUME NEW i \in 0..Len(s), NEW j \in 0..Len(s), Reached(s, off, i, p),
             off[j] <= p
      PROVE  j <= i
  <2>1. SUFFICES ASSUME i < j PROVE FALSE
    BY <1>1
  <2>2. i + 1 \in 0..Len(s) /\ p < off[i + 1] /\ (i + 1 = j \/ i + 1 < j)
    BY <1>1, <1>3, <2>1 DEF Reached
  <2>3. off[i + 1] <= off[j]
    BY <1>1, <1>2, <2>2
  <2>4. PICK x, y : x = off[i + 1] /\ y = off[j]
    OBVIOUS
  <2>5. x \in Nat /\ y \in Nat
    BY <1>1, <2>2, <2>4
  <2>6. p < x /\ x <= y /\ y <= p
    BY <1>3, <2>2, <2>3, <2>4
  <2> QED BY <2>5, <2>6
<1> QED BY <1>1, <1>3 DEF Reached
-----------------------------------------------------------------------------
(* Pieces of sequences.                                                    *)
LEMMA Piece ==
  ASSUME NEW S, NEW t \in Seq(S), NEW a \in Nat \ {0}, NEW b \in Nat,
         a <= b + 1, b <= Len(t)
  PROVE  /\ SubSeq(t, a, b) \in Seq(S) /\ Len(SubSeq(t, a, b)) = b - a + 1
         /\ \A i \in 1..(b - a + 1) : SubSeq(t, a, b)[i] = t[a + i - 1]
<1>1. \A i \in a..b : t[i] \in S
  OBVIOUS
<1> QED BY <1>1, SubSeqProperties

(* Sequences with the same elements are equal.                             *)
LEMMA SameSeq ==
  ASSUME NEW S, NEW t \in Seq(S), NEW u \in Seq(S), Len(t) = Len(u),
         \A i \in 1..Len(t) : t[i] = u[i]
  PROVE  t = u
OBVIOUS

(* A piece of a piece of the stream is a piece of the stream.              *)
LEMMA PieceOfPiece ==
  ASSUME NEW S, NEW t \in Seq(S), NEW a \in Nat \ {0}, NEW b \in Nat,
         a <= b + 1, b <= Len(t),
         NEW c \in Nat \ {0}, NEW d \in Nat, c <= d + 1, d <= b - a + 1
  PROVE  SubSeq(SubSeq(t, a, b), c, d) = SubSeq(t, a + c - 1, a + d - 1)
<1>1. PICK u : u = SubSeq(t, a, b)
  OBVIOUS
<1>2. /\ u \in Seq(S) /\ Len(u) = b - a + 1
      /\ \A i \in 1..(b - a + 1) : u[i] = t[a + i - 1]
  BY <1>1, Piece
<1>3. PICK v : v = SubSeq(u, c, d)
  OBVIOUS
<1>4. /\ v \in Seq(S) /\ Len(v) = d - c + 1
      /\ \A i \in 1..(d - c + 1) : v[i] = u[c + i - 1]
  BY <1>2, <1>3, Piece
<1>5. PICK x, y : x = a + c - 1 /\ y = a + d - 1
  OBVIOUS
<1>6. x \in Nat \ {0} /\ y \in Nat /\ x <= y + 1 /\ y <= Len(t)
  BY <1>5
<1>7. PICK w : w = SubSeq(t, x, y)
  OBVIOUS
<1>8. /\ w \in Seq(S) /\ Len(w) = y - x + 1
      /\ \A i \in 1..(y - x + 1) : w[i] = t[x + i - 1]
  BY <1>6, <1>7, Piece
<1>9. ASSUME NEW i \in 1..(d - c + 1) PROVE v[i] = w[i]
  <2>1. c + i - 1 \in 1..(b - a + 1) /\ i \in 1..(y - x + 1)
        /\ a + (c + i - 1) - 1 = x + i - 1
    BY <1>5
  <2> QED BY <1>2, <1>4, <1>8, <2>1
<1>10. v = w
  <2>1. Len(v) = Len(w)
    BY <1>4, <1>5, <1>8
  <2> QED BY <1>4, <1>8, <1>9, <2>1, SameSeq
<1> QED BY <1>1, <1>3, <1>5, <1>7, <1>10

(* Two pieces of the stream that meet are one piece.                       *)
LEMMA PiecesJoin ==
  ASSUME NEW S, NEW t \in Seq(S), NEW a \in Nat \ {0}, NEW b \in Nat,
         NEW c \in Nat, a <= b + 1, b <= c, c <= Len(t)
  PROVE  SubSeq(t, a, b) \o SubSeq(t, b + 1, c) = SubSeq(t, a, c)
<1>1. a \in 1..(Len(t) + 1) /\ b \in (a - 1)..Len(t) /\ c \in b..Len(t)
  OBVIOUS
<1> QED BY <1>1, ConcatAdjacentSubSeq
-----------------------------------------------------------------------------
(* push_more: what it makes of the buffer at i, given the rest.            *)
Size(buffer, i) == buffer[i] * Base + buffer[i + 1]
Chunk(buffer, i, rest) ==
  IF i = Len(buffer) + 1 THEN [packs |-> <<>>, uc |-> <<>>]
  ELSE IF i = Len(buffer)
  THEN [packs |-> <<>>, uc |-> <<[read |-> -1, header |-> buffer[i],
                                  size |-> 0, buffer |-> <<>>]>>]
  ELSE IF Len(buffer) - i - 1 < Size(buffer, i)
  THEN [packs |-> <<>>,
        uc |-> <<[read |-> Len(buffer) - i - 1, header |-> 0,
                  size |-> Size(buffer, i),
                  buffer |-> SubSeq(buffer, i + 2, Len(buffer))]>>]
  ELSE [rest EXCEPT !.packs =
          <<SubSeq(buffer, i + 2, i + 1 + Size(buffer, i))>> \o @]

Chunks(buffer, g) ==
  g = [i \in 1..(Len(buffer) + 1) |->
         Chunk(buffer, i, g[i + 2 + Size(buffer, i)])]

(* The two bytes of size in a buffer are a number.                         *)
LEMMA SizeNat ==
  ASSUME NEW buffer \in Bytes, NEW i \in 1..(Len(buffer) - 1)
  PROVE  Size(buffer, i) \in Nat
<1>1. buffer[i] \in Nat /\ buffer[i + 1] \in Nat /\ Base \in Nat
  BY NetpackAssumption DEF Bytes
<1> QED BY <1>1 DEF Size

(* The recursion of push_more ends: the rest begins further on.            *)
LEMMA ChunksExist ==
  ASSUME NEW buffer \in Bytes
  PROVE  \E g : Chunks(buffer, g)
<1> DEFINE n == Len(buffer)
           Z(i) == Size(buffer, i)
           From(g, a) ==
             /\ g = [i \in a..(n + 1) |-> g[i]]
             /\ \A i \in a..(n + 1) : g[i] = Chunk(buffer, i, g[i + 2 + Z(i)])
           G == {d \in Nat : \E g : From(g, n + 1 - d)}
<1>1. n \in Nat /\ \A i \in 1..(n - 1) : Z(i) \in Nat
  BY SizeNat DEF Bytes
<1>2. \A i \in 1..(n + 1) : \A x, y :
        (i \in 1..(n - 1) /\ Z(i) <= n - i - 1 => x = y)
          => Chunk(buffer, i, x) = Chunk(buffer, i, y)
  <2>1. SUFFICES ASSUME NEW i \in 1..(n + 1), NEW x, NEW y,
                        i \in 1..(n - 1) /\ Z(i) <= n - i - 1 => x = y
                 PROVE  Chunk(buffer, i, x) = Chunk(buffer, i, y)
    OBVIOUS
  <2>2. CASE i \in 1..(n - 1)
    <3>1. CASE Z(i) <= n - i - 1
      BY <2>1, <2>2, <3>1
    <3>2. CASE ~ (Z(i) <= n - i - 1)
      <4>1. n - i - 1 < Z(i)
        BY <1>1, <2>2, <3>2
      <4> QED BY <1>1, <2>2, <4>1 DEF Chunk
    <3> QED BY <3>1, <3>2
  <2>3. CASE i \notin 1..(n - 1)
    <3>1. i = n \/ i = n + 1
      BY <1>1, <2>3
    <3> QED BY <3>1 DEF Chunk
  <2> QED BY <2>2, <2>3
<1>3. 0 \in G
  <2>1. PICK g : g = [i \in (n + 1)..(n + 1) |-> Chunk(buffer, n + 1, i)]
    OBVIOUS
  <2>2. \A i \in (n + 1)..(n + 1) : i = n + 1 /\ i \in 1..(n + 1)
                                    /\ ~ (i \in 1..(n - 1))
    BY <1>1
  <2>3. \A i \in (n + 1)..(n + 1) : g[i] = Chunk(buffer, i, g[i + 2 + Z(i)])
    BY <1>2, <2>1, <2>2
  <2>4. From(g, n + 1)
    BY <2>1, <2>3
  <2>5. n + 1 - 0 = n + 1
    BY <1>1
  <2> QED BY <2>4, <2>5
<1>4. ASSUME NEW d \in 0..(n - 1), d \in G PROVE d + 1 \in G
  <2>1. PICK g : From(g, n + 1 - d)
    BY <1>4
  <2>2. PICK a : a = n - d
    OBVIOUS
  <2>3. a \in 1..n /\ n + 1 - d = a + 1 /\ n + 1 - (d + 1) = a
    BY <1>1, <2>2
  <2>4. PICK e : e = Chunk(buffer, a, g[a + 2 + Z(a)])
    OBVIOUS
  <2>5. PICK h : h = [i \in a..(n + 1) |-> IF i = a THEN e ELSE g[i]]
    OBVIOUS
  <2>6. ASSUME NEW i \in a..(n + 1)
        PROVE  h[i] = Chunk(buffer, i, h[i + 2 + Z(i)])
    <3>1. h[i] = Chunk(buffer, i, g[i + 2 + Z(i)])
      <4>1. CASE i = a
        BY <2>4, <2>5, <4>1
      <4>2. CASE i # a
        <5>1. i \in (a + 1)..(n + 1)
          BY <2>3, <4>2
        <5> QED BY <2>1, <2>3, <2>5, <4>2, <5>1
      <4> QED BY <4>1, <4>2
    <3>2. ASSUME i \in 1..(n - 1), Z(i) <= n - i - 1
          PROVE  g[i + 2 + Z(i)] = h[i + 2 + Z(i)]
      <4>1. i + 2 + Z(i) \in a..(n + 1) /\ i + 2 + Z(i) # a
        BY <1>1, <2>3, <3>2
      <4> QED BY <2>5, <4>1
    <3>3. i \in 1..(n + 1)
      BY <2>3
    <3> QED BY <1>2, <3>1, <3>2, <3>3
  <2>7. From(h, a)
    BY <2>5, <2>6
  <2>8. From(h, n + 1 - (d + 1))
    BY <2>3, <2>7
  <2>9. d + 1 \in Nat
    BY <1>1
  <2> HIDE DEF From
  <2> QED BY <2>8, <2>9
<1>5. 0..n \subseteq G
  <2> HIDE DEF G
  <2> QED BY <1>1, <1>3, <1>4, InductionTo
<1>6. PICK g : From(g, n + 1 - n)
  BY <1>1, <1>5
<1>7. n + 1 - n = 1
  BY <1>1
<1>8. Chunks(buffer, g)
  BY <1>6, <1>7 DEF Chunks
<1> QED BY <1>8

(* push_more cuts the packages off one by one and keeps the rest.          *)
LEMMA PushMoreChunks ==
  ASSUME NEW buffer \in Bytes
  PROVE  \E g : Chunks(buffer, g) /\ push_more(buffer) = g[1]
<1> DEFINE F == CHOOSE g : g = [i \in 1..(Len(buffer) + 1) |->
                                  Chunk(buffer, i, g[i + 2 + Size(buffer, i)])]
<1>1. Chunks(buffer, F)
  BY ChunksExist DEF Chunks
<1>2. push_more(buffer) = F[1]
  BY DEF push_more, Chunk, Size
<1> QED BY <1>1, <1>2
-----------------------------------------------------------------------------
(* What is kept of the package that the first p bytes break off.           *)
Left(s, all, off, k, p) ==
  IF p = off[k] THEN <<>>
  ELSE IF p = off[k] + 1
  THEN <<[read |-> -1, header |-> all[off[k] + 1], size |-> 0,
          buffer |-> <<>>]>>
  ELSE <<[read |-> p - off[k] - 2, header |-> 0, size |-> Len(s[k + 1]),
          buffer |-> SubSeq(all, off[k] + 3, p)]>>

(* push_more puts a package in front of those that follow it.              *)
LEMMA PutFirst ==
  ASSUME NEW p, NEW u, NEW x
  PROVE  [[packs |-> p, uc |-> u] EXCEPT !.packs = <<x>> \o @]
           = [packs |-> <<x>> \o p, uc |-> u]
<1>1. PICK r : r = [packs |-> p, uc |-> u]
  OBVIOUS
<1>2. PICK y : y = <<x>> \o r.packs
  OBVIOUS
<1>3. r.packs = p /\ [r EXCEPT !.packs = y] = [packs |-> y, uc |-> u]
  BY <1>1
<1> QED BY <1>1, <1>2, <1>3

(* push_more on what follows the m-th package cuts the packages off one by *)
(* one and keeps what is left.                                             *)
LEMMA PushMore ==
  ASSUME NEW s \in Seq(Bytes), NEW all, NEW off, Framed(s, all, off),
         NEW q \in 0..Len(all), NEW k, Reached(s, off, k, q),
         NEW m \in 0..Len(s), off[m] <= q
  PROVE  push_more(SubSeq(all, off[m] + 1, q))
           = [packs |-> SubSeq(s, m + 1, k), uc |-> Left(s, all, off, k, q)]
<1>1. PICK o, e : o = off[m] /\ e = off[k]
  OBVIOUS
<1>2. PICK buffer : buffer = SubSeq(all, o + 1, q)
  OBVIOUS
<1> DEFINE L == Len(s)
<1>3. /\ L \in Nat /\ k \in 0..L /\ m \in 0..L /\ off \in [0..L -> Nat]
      /\ all \in Seq(Nat)
  BY DEF Framed, Bytes, Reached
<1>4. q \in Nat /\ q <= Len(all)
  <2>1. Len(all) \in Nat
    BY <1>3
  <2> QED BY <2>1
<1>5. o \in Nat /\ e \in Nat /\ o <= q /\ e <= q /\ (k < L => q < off[k + 1])
  BY <1>1, <1>3 DEF Reached
<1>6. \A j \in 1..L : s[j] \in Seq(Nat) /\ Len(s[j]) \in Nat
  BY DEF Bytes
<1>7. m <= k
  BY <1>1, <1>3, <1>4, <1>5, ReachedUnique
<1>8. \A i \in 0..L : \A j \in 0..L : i <= j => off[i] <= off[j]
  <2> SUFFICES ASSUME NEW i \in 0..L, NEW j \in 0..L, i <= j
               PROVE  off[i] <= off[j]
    OBVIOUS
  <2>1. PICK x, y : x = off[i] /\ y = off[j]
    OBVIOUS
  <2>2. x \in Nat /\ y \in Nat
    BY <1>3, <2>1
  <2>3. CASE i < j
    <3>1. x + 2 <= y
      BY <2>1, <2>3, EndsApart
    <3> QED BY <2>1, <2>2, <3>1
  <2>4. CASE ~ i < j
    <3>1. i = j
      BY <1>3, <2>4
    <3> QED BY <2>1, <2>2, <3>1
  <2> QED BY <2>3, <2>4
<1>9. o <= e
  BY <1>1, <1>3, <1>7, <1>8
<1>10. /\ buffer \in Seq(Nat) /\ Len(buffer) = q - o
       /\ \A i \in 1..(q - o) : buffer[i] = all[o + i]
  <2>1. PICK x : x = o + 1
    OBVIOUS
  <2>2. x \in Nat \ {0} /\ x <= q + 1 /\ q - x + 1 = q - o
        /\ \A i \in 1..(q - o) : x + i - 1 = o + i
    BY <1>4, <1>5, <2>1
  <2>3. /\ buffer \in Seq(Nat) /\ Len(buffer) = q - x + 1
        /\ \A i \in 1..(q - x + 1) : buffer[i] = all[x + i - 1]
    BY <1>2, <1>3, <1>4, <1>5, <2>1, <2>2, Piece
  <2> QED BY <2>2, <2>3
<1>11. PICK g : Chunks(buffer, g) /\ push_more(buffer) = g[1]
  BY <1>10, PushMoreChunks DEF Bytes
<1>12. ASSUME NEW i \in 1..(q - o + 1)
       PROVE  g[i] = Chunk(buffer, i, g[i + 2 + Size(buffer, i)])
  <2>1. i \in 1..(Len(buffer) + 1)
    BY <1>10
  <2> QED BY <1>11, <2>1 DEF Chunks
(* The bytes of the package after the j-th one, seen from the buffer.      *)
<1>13. ASSUME NEW j \in 1..L, m <= j - 1, NEW f, f = off[j - 1], f + 2 <= q
       PROVE  /\ f \in Nat /\ o <= f /\ off[j] = f + 2 + Len(s[j])
              /\ f - o + 1 \in 1..(q - o - 1)
              /\ Size(buffer, f - o + 1) = Len(s[j])
              /\ SubSeq(buffer, f - o + 3, q - o) = SubSeq(all, f + 3, q)
              /\ off[j] <= q => SubSeq(buffer, f - o + 3, off[j] - o) = s[j]
  <2>0. f + 2 <= q
    BY <1>13
  <2>1. j - 1 \in 0..L
    BY <1>3
  <2>2. f \in Nat /\ o <= f
    BY <1>1, <1>3, <1>8, <1>13, <2>1
  <2>3. /\ off[j] = f + 2 + Len(s[j])
        /\ all[f + 1] * Base + all[f + 2] = Len(s[j])
        /\ \A x \in 1..Len(s[j]) : all[f + 2 + x] = s[j][x]
    BY <1>13 DEF Framed
  <2>11. PICK w, l : w = off[j] /\ l = Len(s[j])
    OBVIOUS
  <2>12. l \in Nat /\ w = f + 2 + l
    BY <1>6, <2>3, <2>11
  <2>4. PICK i, y, x : i = f - o + 1 /\ y = w - o /\ x = f - o + 3
    OBVIOUS
  <2>5. y = f + 2 + l - o
    BY <1>5, <2>2, <2>4, <2>12
  <2>6. /\ i \in 1..(q - o - 1) /\ i \in 1..(q - o) /\ i + 1 \in 1..(q - o)
        /\ o + i = f + 1 /\ o + (i + 1) = f + 2
    BY <1>4, <1>5, <2>0, <2>2, <2>4
  <2>7. buffer[i] = all[f + 1] /\ buffer[i + 1] = all[f + 2]
    BY <1>10, <2>6
  <2>8. Size(buffer, i) = l
    BY <2>3, <2>7, <2>11 DEF Size
  <2>9. SubSeq(buffer, x, q - o) = SubSeq(all, f + 3, q)
    <3>1. PICK u, d : u = o + 1 /\ d = q - o
      OBVIOUS
    <3>2. /\ u \in Nat \ {0} /\ u <= q + 1
          /\ x \in Nat \ {0} /\ d \in Nat /\ x <= d + 1 /\ d <= q - u + 1
          /\ u + x - 1 = f + 3 /\ u + d - 1 = q
      BY <1>4, <1>5, <2>0, <2>2, <2>4, <3>1
    <3>3. SubSeq(SubSeq(all, u, q), x, d) = SubSeq(all, u + x - 1, u + d - 1)
      BY <1>3, <1>4, <1>5, <3>2, PieceOfPiece
    <3> QED BY <1>2, <3>1, <3>2, <3>3
  <2>10. ASSUME w <= q PROVE SubSeq(buffer, x, y) = s[j]
    <3>1. f + 2 + l <= q
      BY <2>12, <2>10
    <3>2. x = f - o + 3
      BY <2>4
    <3>3. x \in Nat \ {0} /\ y \in Nat /\ x <= y + 1 /\ y <= q - o
          /\ y - x + 1 = l
      BY <1>4, <1>5, <2>2, <2>5, <2>12, <3>1, <3>2
    <3>4. PICK z : z = SubSeq(buffer, x, y)
      OBVIOUS
    <3>5. z \in Seq(Nat) /\ Len(z) = l
          /\ \A u \in 1..l : z[u] = buffer[x + u - 1]
      <4>1. y <= Len(buffer) /\ buffer \in Seq(Nat)
        BY <1>10, <3>3
      <4>2. x \in Nat \ {0} /\ y \in Nat /\ x <= y + 1
        BY <3>3
      <4>3. z \in Seq(Nat) /\ Len(z) = y - x + 1
            /\ \A u \in 1..(y - x + 1) : z[u] = buffer[x + u - 1]
        <5>1. /\ SubSeq(buffer, x, y) \in Seq(Nat)
              /\ Len(SubSeq(buffer, x, y)) = y - x + 1
              /\ \A u \in 1..(y - x + 1) :
                   SubSeq(buffer, x, y)[u] = buffer[x + u - 1]
          BY <4>1, <4>2, Piece
        <5> QED BY <3>4, <5>1
      <4> QED BY <3>3, <4>3
    <3>6. ASSUME NEW u \in 1..l PROVE z[u] = s[j][u]
      <4>1. x + u - 1 \in 1..(q - o) /\ o + (x + u - 1) = f + 2 + u
        BY <1>4, <1>5, <2>2, <2>12, <3>1, <3>2
      <4>2. buffer[x + u - 1] = all[f + 2 + u]
        BY <1>10, <4>1
      <4>3. all[f + 2 + u] = s[j][u]
        BY <2>3, <2>11
      <4> QED BY <3>5, <4>2, <4>3
    <3>7. s[j] \in Seq(Nat) /\ Len(z) = Len(s[j])
      BY <1>6, <2>11, <3>5
    <3>8. \A u \in 1..Len(z) : z[u] = s[j][u]
      BY <3>5, <3>6
    <3>9. z = s[j]
      BY <3>5, <3>7, <3>8, SameSeq
    <3> QED BY <3>4, <3>9
  <2> QED BY <2>2, <2>3, <2>4, <2>6, <2>8, <2>9, <2>10, <2>11
<1> DEFINE At(j) == off[j] - o + 1
           Rest(j) == [packs |-> SubSeq(s, j + 1, k),
                       uc |-> Left(s, all, off, k, q)]
           G == {d \in Nat : d <= k - m => g[At(k - d)] = Rest(k - d)}
<1>14. 0 \in G
  <2>1. PICK i : i = e - o + 1
    OBVIOUS
  <2>2. i \in 1..(q - o + 1) /\ At(k) = i /\ k - 0 = k
    <3>1. At(k) = i
      BY <1>1, <2>1
    <3>2. k \in Nat /\ k - 0 = k
      BY <1>3
    <3>3. i \in 1..(q - o + 1)
      <4> HIDE DEF At, Rest, G
      <4> QED BY <1>4, <1>5, <1>9, <2>1
    <3> QED BY <3>1, <3>2, <3>3
  <2> SUFFICES g[i] = Rest(k)
    <3> HIDE DEF At, Rest
    <3> QED BY <2>2
  <2>3. SubSeq(s, k + 1, k) = <<>>
    BY <1>3
  <2>4. g[i] = Chunk(buffer, i, g[i + 2 + Size(buffer, i)])
    BY <1>12, <2>2
  <2>5. CASE q = e
    <3>1. i = Len(buffer) + 1
      BY <1>4, <1>5, <1>10, <2>1, <2>5
    <3>2. g[i] = [packs |-> <<>>, uc |-> <<>>]
      BY <2>4, <3>1 DEF Chunk
    <3> QED BY <1>1, <2>3, <2>5, <3>2 DEF Left
  <2>6. CASE q = e + 1
    <3>1. i = q - o /\ i # q - o + 1 /\ o + i = e + 1 /\ q # e
          /\ i \in 1..(q - o)
      BY <1>4, <1>5, <1>9, <2>1, <2>6
    <3>2. buffer[i] = all[e + 1]
      BY <1>10, <3>1
    <3>3. g[i] = [packs |-> <<>>, uc |-> <<[read |-> -1, header |-> buffer[i],
                                           size |-> 0, buffer |-> <<>>]>>]
      BY <1>10, <2>4, <3>1 DEF Chunk
    <3> QED BY <1>1, <2>3, <2>6, <3>1, <3>2, <3>3 DEF Left
  <2>7. CASE e + 2 <= q
    <3>1. k < L
      <4>1. SUFFICES ASSUME k = L PROVE FALSE
        BY <1>3
      <4>2. Len(all) = e
        BY <1>1, <4>1 DEF Framed
      <4> QED BY <1>4, <1>5, <2>7, <4>2
    <3>2. PICK j : j = k + 1
      OBVIOUS
    <3>3. j \in 1..L /\ m <= j - 1 /\ j - 1 = k
      BY <1>3, <1>7, <3>1, <3>2
    <3>4. /\ off[j] = e + 2 + Len(s[j]) /\ i \in 1..(q - o - 1)
          /\ Size(buffer, i) = Len(s[j])
          /\ SubSeq(buffer, e - o + 3, q - o) = SubSeq(all, e + 3, q)
      BY <1>1, <1>13, <2>1, <2>7, <3>3
    <3>5. Len(s[j]) \in Nat /\ q < off[j]
      BY <1>4, <1>5, <1>6, <3>1, <3>2, <3>3
    <3>6. /\ i # q - o /\ i # q - o + 1 /\ (q - o) - i - 1 = q - e - 2
          /\ q - e - 2 < Len(s[j]) /\ i + 2 = e - o + 3
      <4>1. PICK l, y : l = Len(s[j]) /\ y = off[j]
        OBVIOUS
      <4>2. l \in Nat /\ y = e + 2 + l /\ q < y
        BY <3>4, <3>5, <4>1
      <4>3. /\ i # q - o /\ i # q - o + 1 /\ (q - o) - i - 1 = q - e - 2
            /\ q - e - 2 < l /\ i + 2 = e - o + 3
        BY <1>4, <1>5, <2>1, <2>7, <4>2
      <4> QED BY <4>1, <4>3
    <3>7. g[i] = [packs |-> <<>>,
                  uc |-> <<[read |-> q - e - 2, header |-> 0,
                            size |-> Len(s[j]),
                            buffer |-> SubSeq(all, e + 3, q)]>>]
      BY <1>10, <2>4, <3>4, <3>6 DEF Chunk
    <3>8. q # e /\ q # e + 1
      BY <1>4, <1>5, <2>7
    <3> QED BY <1>1, <2>3, <3>2, <3>7, <3>8 DEF Left
  <2>8. q = e \/ q = e + 1 \/ e + 2 <= q
    BY <1>4, <1>5
  <2> QED BY <2>5, <2>6, <2>7, <2>8
<1>15. ASSUME NEW d \in 0..((k - m) - 1), d \in G PROVE d + 1 \in G
  <2>1. PICK j, f : j = k - d /\ f = off[j - 1]
    OBVIOUS
  <2>2. /\ j \in 1..L /\ m <= j - 1 /\ j <= k /\ k - (d + 1) = j - 1
        /\ d <= k - m /\ d + 1 \in Nat /\ (j - 1) + 1 = j
        /\ j \in 0..L /\ j - 1 \in 0..L
    BY <1>3, <1>7, <2>1
  <2>3. g[At(j)] = Rest(j)
    BY <1>15, <2>1, <2>2
  <2>4. off[j] <= e
    BY <1>1, <1>3, <1>8, <2>2
  <2>5. off[j] = f + 2 + Len(s[j]) /\ Len(s[j]) \in Nat /\ f \in Nat
    BY <1>3, <1>6, <2>1, <2>2 DEF Framed
  <2>6. f + 2 <= q /\ off[j] <= q
    <3>1. PICK l, y : l = Len(s[j]) /\ y = off[j]
      OBVIOUS
    <3>2. l \in Nat /\ y = f + 2 + l /\ f \in Nat /\ y <= e
      BY <2>4, <2>5, <3>1
    <3>3. f + 2 <= q /\ y <= q
      BY <1>4, <1>5, <3>2
    <3> QED BY <3>1, <3>3
  <2>7. PICK i : i = f - o + 1
    OBVIOUS
  <2>8. /\ o <= f /\ i \in 1..(q - o - 1) /\ Size(buffer, i) = Len(s[j])
        /\ SubSeq(buffer, f - o + 3, off[j] - o) = s[j]
    BY <1>13, <2>1, <2>2, <2>6, <2>7
  <2>9. /\ i \in 1..(q - o + 1) /\ i # q - o + 1 /\ i # q - o
        /\ i + 2 + Len(s[j]) = At(j) /\ ~ ((q - o) - i - 1 < Len(s[j]))
        /\ i + 2 = f - o + 3 /\ i + 1 + Len(s[j]) = off[j] - o
    <3>1. PICK l, y : l = Len(s[j]) /\ y = off[j]
      OBVIOUS
    <3>2. l \in Nat /\ y = f + 2 + l /\ f \in Nat /\ y <= q /\ o <= f
      BY <2>5, <2>6, <2>8, <3>1
    <3>3. /\ i \in 1..(q - o + 1) /\ i # q - o + 1 /\ i # q - o
          /\ i + 2 + l = y - o + 1 /\ ~ ((q - o) - i - 1 < l)
          /\ i + 2 = f - o + 3 /\ i + 1 + l = y - o
      BY <1>4, <1>5, <2>7, <3>2
    <3> QED BY <3>1, <3>3
  <2>10. g[i] = [Rest(j) EXCEPT !.packs = <<s[j]>> \o @]
    <3>1. g[i] = Chunk(buffer, i, g[i + 2 + Size(buffer, i)])
      BY <1>12, <2>9
    <3>2. g[i] = Chunk(buffer, i, Rest(j))
      BY <2>3, <2>8, <2>9, <3>1
    <3> HIDE DEF Rest
    <3>3. Chunk(buffer, i, Rest(j)) = [Rest(j) EXCEPT !.packs =
            <<SubSeq(buffer, i + 2, i + 1 + Len(s[j]))>> \o @]
      BY <1>10, <2>8, <2>9 DEF Chunk
    <3> QED BY <2>8, <2>9, <3>2, <3>3
  <2>11. <<s[j]>> \o SubSeq(s, j + 1, k) = SubSeq(s, j, k)
    <3>1. j \in 1..L /\ k \in j..L
      BY <1>3, <2>2
    <3> QED BY <3>1, SubSeqRecursiveFirst
  <2>12. [Rest(j) EXCEPT !.packs = <<s[j]>> \o @] = Rest(j - 1)
    <3>1. PICK p, u : p = SubSeq(s, j + 1, k) /\ u = Left(s, all, off, k, q)
      OBVIOUS
    <3>2. [[packs |-> p, uc |-> u] EXCEPT !.packs = <<s[j]>> \o @]
            = [packs |-> <<s[j]>> \o p, uc |-> u]
      BY PutFirst
    <3> QED BY <2>2, <2>11, <3>1, <3>2
  <2>13. At(j - 1) = i
    BY <2>1, <2>7
  <2>14. g[At(k - (d + 1))] = Rest(k - (d + 1))
    BY <2>2, <2>10, <2>12, <2>13
  <2> HIDE DEF Rest, At
  <2> QED BY <2>2, <2>14
<1>16. 0..(k - m) \subseteq G
  <2>1. k - m \in Nat
    BY <1>3, <1>7
  <2> HIDE DEF G
  <2> QED BY <1>14, <1>15, <2>1, InductionTo
<1>17. k - m \in 0..(k - m) /\ k - (k - m) = m /\ k - m \in Nat
       /\ k - m <= k - m
  BY <1>3, <1>7
<1>18. g[At(m)] = Rest(m)
  <2>1. k - m \in G
    BY <1>16, <1>17
  <2> HIDE DEF At, Rest
  <2> QED BY <1>17, <2>1
<1>19. At(m) = 1
  BY <1>1, <1>4, <1>5
<1> QED BY <1>1, <1>2, <1>11, <1>18, <1>19

(* fill goes on with the package that the earlier pieces broke off.        *)
LEMMA Fill ==
  ASSUME NEW s \in Seq(Bytes), NEW all, NEW off, Framed(s, all, off),
         NEW p \in 0..Len(all), NEW q \in 0..Len(all), p < q,
         NEW k, Reached(s, off, k, p), p # off[k],
         NEW m, Reached(s, off, m, q)
  PROVE  /\ Left(s, all, off, k, p) # <<>>
         /\ fill(Left(s, all, off, k, p)[1], SubSeq(all, p + 1, q))
              = [packs |-> SubSeq(s, k + 1, m),
                 uc |-> Left(s, all, off, m, q)]
<1>1. /\ Len(s) \in Nat /\ k \in 0..Len(s) /\ m \in 0..Len(s)
      /\ off \in [0..Len(s) -> Nat] /\ all \in Seq(Nat) /\ Len(all) \in Nat
  BY DEF Framed, Bytes, Reached
<1>2. p \in Nat /\ q \in Nat /\ q <= Len(all) /\ p < q
  BY <1>1
<1>3. PICK o, j : o = off[k] /\ j = k + 1
  OBVIOUS
<1>4. o \in Nat /\ o < p
  <2>1. off[k] <= p /\ off[k] # p
    BY Zenon DEF Reached
  <2>2. off[k] \in Nat
    BY <1>1
  <2>3. o \in Nat /\ o <= p /\ o # p
    BY <1>3, <2>1, <2>2
  <2> QED BY <1>2, <2>3
<1>5. k < Len(s)
  <2>1. SUFFICES ASSUME k = Len(s) PROVE FALSE
    BY <1>1
  <2>2. Len(all) = off[Len(s)]
    BY Zenon DEF Framed
  <2>3. Len(all) = o
    BY <1>3, <2>1, <2>2
  <2> QED BY <1>2, <1>4, <2>3
<1>6. j \in 1..Len(s) /\ j \in 0..Len(s) /\ j - 1 = k
  BY <1>1, <1>3, <1>5
<1>7. PICK e, l : e = off[j] /\ l = Len(s[j])
  OBVIOUS
<1>8. s[j] \in Seq(Nat) /\ l \in Nat
  BY <1>6, <1>7 DEF Bytes
<1>9. /\ e = o + 2 + l /\ e \in Nat
      /\ all[o + 1] * Base + all[o + 2] = l
      /\ \A x \in 1..l : all[o + 2 + x] = s[j][x]
  <2>1. /\ off[j] = off[j - 1] + 2 + Len(s[j])
        /\ all[off[j - 1] + 1] * Base + all[off[j - 1] + 2] = Len(s[j])
        /\ \A x \in 1..Len(s[j]) : all[off[j - 1] + 2 + x] = s[j][x]
    BY <1>6, Zenon DEF Framed
  <2>2. off[j - 1] = o /\ e \in Nat
    BY <1>1, <1>3, <1>6, <1>7
  <2> QED BY <1>7, <2>1, <2>2
<1>10. p < e
  BY <1>3, <1>5, <1>7 DEF Reached
<1>11. PICK b : b = IF p = o + 1 THEN p + 1 ELSE p
  OBVIOUS
<1>12. /\ b \in Nat /\ o + 2 <= b /\ b <= q /\ b <= e /\ p <= b
       /\ p = o + 1 => b = o + 2
  BY <1>2, <1>4, <1>8, <1>9, <1>10, <1>11
<1>13. PICK buffer : buffer = SubSeq(all, p + 1, q)
  OBVIOUS
<1>14. PICK rest, pre : rest = SubSeq(all, b + 1, q) /\ pre = SubSeq(all, o + 3, b)
  OBVIOUS
<1>15. PICK uc : uc = Left(s, all, off, k, p)[1]
  OBVIOUS
<1>16. rest \in Seq(Nat) /\ Len(rest) = q - b
  <2>1. PICK x : x = b + 1
    OBVIOUS
  <2>2. x \in Nat \ {0} /\ x <= q + 1 /\ q - x + 1 = q - b
    BY <1>2, <1>12, <2>1
  <2>3. rest \in Seq(Nat) /\ Len(rest) = q - x + 1
    <3>1. all \in Seq(Nat) /\ q \in Nat /\ q <= Len(all)
      BY <1>1, <1>2
    <3>2. x \in Nat \ {0} /\ x <= q + 1
      BY <2>2
    <3>3. /\ SubSeq(all, x, q) \in Seq(Nat)
          /\ Len(SubSeq(all, x, q)) = q - x + 1
      BY <3>1, <3>2, Piece
    <3> QED BY <1>14, <2>1, <3>3
  <2> QED BY <2>2, <2>3
<1>17. pre \in Seq(Nat) /\ Len(pre) = b - o - 2
  <2>1. PICK x : x = o + 3
    OBVIOUS
  <2>2. x \in Nat \ {0} /\ x <= b + 1 /\ b - x + 1 = b - o - 2
        /\ b <= Len(all)
    BY <1>1, <1>2, <1>4, <1>12, <2>1
  <2>3. b \in Nat /\ all \in Seq(Nat) /\ pre = SubSeq(all, x, b)
    BY <1>1, <1>12, <1>14, <2>1
  <2>4. SubSeq(all, x, b) \in Seq(Nat) /\ Len(SubSeq(all, x, b)) = b - x + 1
    <3>1. x <= b + 1 /\ b <= Len(all) /\ x \in Nat \ {0}
      BY <2>2
    <3> QED BY <2>3, <3>1, Piece
  <2> QED BY <2>2, <2>3, <2>4
(* What fill_header makes of the beginning of the buffer.                  *)
<1>18. /\ Left(s, all, off, k, p) # <<>> /\ uc.buffer = pre
       /\ fill_header(uc, buffer) = [size |-> l, rest |-> rest]
  <2>1. p # off[k]
    OBVIOUS
  <2>2. CASE p = o + 1
    <3>1. Left(s, all, off, k, p) = <<[read |-> -1, header |-> all[o + 1],
                                       size |-> 0, buffer |-> <<>>]>>
      BY <1>3, <2>1, <2>2 DEF Left
    <3>2. uc = [read |-> -1, header |-> all[o + 1], size |-> 0, buffer |-> <<>>]
      BY <1>15, <3>1
    <3>3. pre = <<>>
      <4>1. Len(pre) = 0
        BY <1>4, <1>12, <1>17, <2>2
      <4> QED BY <1>17, <4>1
    <3>4. buffer \in Seq(Nat) /\ Len(buffer) = q - p
          /\ buffer[1] = all[p + 1]
      <4>1. PICK x : x = p + 1
        OBVIOUS
      <4>2. x \in Nat \ {0} /\ x <= q + 1 /\ q - x + 1 = q - p
            /\ 1 \in 1..(q - x + 1) /\ x + 1 - 1 = p + 1
        BY <1>2, <4>1
      <4>3. buffer \in Seq(Nat) /\ Len(buffer) = q - x + 1
            /\ \A i \in 1..(q - x + 1) : buffer[i] = all[x + i - 1]
        <5>1. all \in Seq(Nat) /\ q \in Nat /\ q <= Len(all)
          BY <1>1, <1>2
        <5>2. x \in Nat \ {0} /\ x <= q + 1
          BY <4>2
        <5>3. /\ SubSeq(all, x, q) \in Seq(Nat)
              /\ Len(SubSeq(all, x, q)) = q - x + 1
              /\ \A i \in 1..(q - x + 1) : SubSeq(all, x, q)[i] = all[x + i - 1]
          BY <5>1, <5>2, Piece
        <5> QED BY <1>13, <4>1, <5>3
      <4> QED BY <4>2, <4>3
    <3>5. Tail(buffer) = rest
      <4>1. PICK x : x = p + 1
        OBVIOUS
      <4>2. x \in 1..Len(all) /\ q \in x..Len(all) /\ x + 1 = b + 1
        BY <1>1, <1>2, <1>12, <2>2, <4>1, <1>4
      <4>3. Tail(SubSeq(all, x, q)) = SubSeq(all, x + 1, q)
        BY <1>1, <4>2, HeadTailOfSubSeq
      <4> QED BY <1>13, <1>14, <4>1, <4>2, <4>3
    <3>6. buffer[1] + all[o + 1] * Base = l
      <4>1. buffer[1] = all[o + 2]
        <5>1. p + 1 = o + 2
          BY <1>4, <2>2
        <5> QED BY <3>4, <5>1
      <4>2. all[o + 1] \in Nat /\ all[o + 2] \in Nat
        <5>1. o + 1 \in 1..Len(all) /\ o + 2 \in 1..Len(all)
          BY <1>1, <1>2, <1>4, <2>2
        <5> QED BY <1>1, <5>1
      <4>3. PICK x, y : x = all[o + 1] * Base /\ y = all[o + 2]
        OBVIOUS
      <4>4. x \in Nat /\ y \in Nat /\ x + y = l
        <5>1. PICK c : c = all[o + 1]
          OBVIOUS
        <5>2. c \in Nat /\ Base \in Nat
          BY <4>2, <5>1, NetpackAssumption
        <5>3. c * Base \in Nat
          BY <5>2
        <5>4. x = c * Base /\ x + y = l
          BY <1>9, <4>3, <5>1
        <5> QED BY <4>2, <4>3, <5>3, <5>4
      <4>5. y + x = l
        BY <4>4
      <4> QED BY <4>1, <4>3, <4>5
    <3>7. uc.read = -1 /\ uc.header = all[o + 1] /\ uc.buffer = <<>> /\ -1 < 0
      BY <3>2
    <3>8. fill_header(uc, buffer) = [size |-> l, rest |-> rest]
      BY <3>5, <3>6, <3>7 DEF fill_header
    <3> QED BY <3>1, <3>3, <3>7, <3>8
  <2>3. CASE p # o + 1
    <3>1. Left(s, all, off, k, p)
            = <<[read |-> p - o - 2, header |-> 0, size |-> l,
                 buffer |-> SubSeq(all, o + 3, p)]>>
      BY <1>3, <1>7, <2>1, <2>3 DEF Left
    <3>2. uc = [read |-> p - o - 2, header |-> 0, size |-> l,
                buffer |-> SubSeq(all, o + 3, p)]
      BY <1>15, <3>1
    <3>3. b = p
      BY <1>11, <2>3
    <3>4. ~ (p - o - 2 < 0)
      BY <1>2, <1>4, <2>3
    <3>5. uc.read = p - o - 2 /\ uc.size = l /\ uc.buffer = pre
      BY <1>14, <3>2, <3>3
    <3>6. fill_header(uc, buffer) = [size |-> l, rest |-> rest]
      BY <1>13, <1>14, <3>3, <3>4, <3>5 DEF fill_header
    <3> QED BY <3>1, <3>5, <3>6
  <2> QED BY <2>2, <2>3
<1>19. PICK need : need = l - Len(pre)
  OBVIOUS
<1>20. need = e - b /\ need \in Nat
  BY <1>4, <1>8, <1>9, <1>12, <1>17, <1>19
<1>21. fill(uc, buffer)
         = IF Len(rest) < need
           THEN [packs |-> <<>>,
                 uc |-> <<[read |-> Len(pre) + Len(rest), header |-> 0,
                           size |-> l, buffer |-> pre \o rest]>>]
           ELSE [push_more(SubSeq(rest, need + 1, Len(rest))) EXCEPT !.packs =
                   <<pre \o SubSeq(rest, 1, need)>> \o @]
  <2>1. fill_header(uc, buffer).size = l /\ fill_header(uc, buffer).rest = rest
    BY <1>18
  <2> QED BY <1>18, <1>19, <2>1 DEF fill
<1>22. CASE Len(rest) < need
  <2>1. q < e /\ q # o /\ q # o + 1 /\ o + 2 <= q
    <3>1. PICK r : r = Len(rest)
      OBVIOUS
    <3>2. r = q - b /\ r < need /\ need = e - b
      BY <1>16, <1>20, <1>22, <3>1
    <3>3. e \in Nat
      BY <1>9
    <3> QED BY <1>2, <1>4, <1>12, <3>2, <3>3
  <2>2. Reached(s, off, k, q)
    BY <1>1, <1>2, <1>3, <1>4, <1>7, <2>1 DEF Reached
  <2>3. m = k
    <3>1. off[k] <= q /\ off[m] <= q
      BY <2>2 DEF Reached
    <3> QED BY <1>1, <1>2, <2>2, <3>1, ReachedUnique
  <2>4. SubSeq(s, k + 1, m) = <<>>
    BY <1>1, <2>3
  <2>5. pre \o rest = SubSeq(all, o + 3, q)
    <3>1. PICK x : x = o + 3
      OBVIOUS
    <3>2. x \in Nat \ {0} /\ x <= b + 1 /\ b <= q
      BY <1>4, <1>12, <3>1
    <3> QED BY <1>1, <1>2, <1>12, <1>14, <3>1, <3>2, PiecesJoin
  <2>6. Len(pre) + Len(rest) = q - o - 2
    BY <1>2, <1>4, <1>12, <1>16, <1>17
  <2>7. Left(s, all, off, k, q)
          = <<[read |-> q - o - 2, header |-> 0, size |-> l,
               buffer |-> SubSeq(all, o + 3, q)]>>
    BY <1>3, <1>7, <2>1 DEF Left
  <2>8. fill(uc, buffer) = [packs |-> SubSeq(s, k + 1, m),
                            uc |-> Left(s, all, off, m, q)]
    BY <1>21, <1>22, <2>3, <2>4, <2>5, <2>6, <2>7
  <2> QED BY <1>13, <1>15, <1>18, <2>8
<1>23. CASE ~ (Len(rest) < need)
  <2>1. e <= q
    <3>1. PICK r : r = Len(rest)
      OBVIOUS
    <3>2. r = q - b /\ ~ (r < need) /\ need = e - b
      BY <1>16, <1>20, <1>23, <3>1
    <3>3. e \in Nat
      BY <1>9
    <3> QED BY <1>2, <1>12, <3>2, <3>3
  <2>2. j <= m
    BY <1>1, <1>2, <1>6, <1>7, <2>1, ReachedUnique
  <2>3. SubSeq(rest, need + 1, Len(rest)) = SubSeq(all, e + 1, q)
    <3>1. PICK x, c, d : x = b + 1 /\ c = need + 1 /\ d = Len(rest)
      OBVIOUS
    <3>2. /\ x \in Nat \ {0} /\ x <= q + 1
          /\ c \in Nat \ {0} /\ d \in Nat /\ c <= d + 1 /\ d <= q - x + 1
          /\ x + c - 1 = e + 1 /\ x + d - 1 = q
      <4>1. d = q - b /\ c = (e - b) + 1 /\ e \in Nat
        BY <1>9, <1>16, <1>20, <3>1
      <4>2. x = b + 1
        BY <3>1
      <4> QED BY <1>2, <1>12, <2>1, <4>1, <4>2
    <3>3. SubSeq(SubSeq(all, x, q), c, d) = SubSeq(all, x + c - 1, x + d - 1)
      BY <1>1, <1>2, <3>2, PieceOfPiece
    <3> QED BY <1>14, <3>1, <3>2, <3>3
  <2>4. push_more(SubSeq(rest, need + 1, Len(rest)))
          = [packs |-> SubSeq(s, j + 1, m), uc |-> Left(s, all, off, m, q)]
    BY <1>6, <1>7, <2>1, <2>3, PushMore
  <2>5. pre \o SubSeq(rest, 1, need) = s[j]
    <3>1. SubSeq(rest, 1, need) = SubSeq(all, b + 1, e)
      <4>1. PICK x, c, d : x = b + 1 /\ c = 1 /\ d = need
        OBVIOUS
      <4>2. /\ x \in Nat \ {0} /\ x <= q + 1
            /\ c \in Nat \ {0} /\ d \in Nat /\ c <= d + 1 /\ d <= q - x + 1
            /\ x + c - 1 = b + 1 /\ x + d - 1 = e
        <5>1. c = 1 /\ d = e - b /\ e \in Nat
          BY <1>9, <1>20, <4>1
        <5>2. x = b + 1
          BY <4>1
        <5> QED BY <1>2, <1>12, <2>1, <5>1, <5>2
      <4>3. SubSeq(SubSeq(all, x, q), c, d) = SubSeq(all, x + c - 1, x + d - 1)
        BY <1>1, <1>2, <4>2, PieceOfPiece
      <4> QED BY <1>14, <4>1, <4>2, <4>3
    <3>2. PICK x : x = o + 3
      OBVIOUS
    <3>3. x \in Nat \ {0} /\ x <= b + 1 /\ b <= e /\ e <= Len(all)
          /\ x <= e + 1 /\ e - x + 1 = l
      <4>1. e = o + 2 + l /\ e \in Nat /\ Len(all) \in Nat
        BY <1>1, <1>9
      <4> QED BY <1>2, <1>4, <1>8, <1>12, <2>1, <3>2, <4>1
    <3>4. PICK w : w = SubSeq(all, x, e)
      OBVIOUS
    <3>5. pre \o SubSeq(all, b + 1, e) = w
      <4>1. all \in Seq(Nat) /\ b \in Nat /\ e \in Nat
        BY <1>1, <1>9, <1>12
      <4>2. SubSeq(all, x, b) \o SubSeq(all, b + 1, e) = SubSeq(all, x, e)
        BY <3>3, <4>1, PiecesJoin
      <4> QED BY <1>14, <3>2, <3>4, <4>2
    <3>6. /\ w \in Seq(Nat) /\ Len(w) = l
          /\ \A i \in 1..l : w[i] = all[x + i - 1]
      <4>1. /\ w \in Seq(Nat) /\ Len(w) = e - x + 1
            /\ \A i \in 1..(e - x + 1) : w[i] = all[x + i - 1]
        <5>1. all \in Seq(Nat) /\ e \in Nat
          BY <1>1, <1>9
        <5>2. x \in Nat \ {0} /\ x <= e + 1 /\ e <= Len(all)
          BY <3>3
        <5> QED BY <3>4, <5>1, <5>2, Piece
      <4> QED BY <3>3, <4>1
    <3>7. \A i \in 1..l : w[i] = s[j][i]
      <4>1. ASSUME NEW i \in 1..l PROVE w[i] = s[j][i]
        <5>1. x + i - 1 = o + 2 + i
          BY <1>4, <1>8, <3>2
        <5> QED BY <1>9, <3>6, <5>1
      <4> QED BY <4>1
    <3>8. w = s[j]
      <4>1. Len(w) = Len(s[j]) /\ \A i \in 1..Len(w) : w[i] = s[j][i]
        BY <1>7, <3>6, <3>7
      <4> QED BY <1>8, <3>6, <4>1, SameSeq
    <3> QED BY <3>1, <3>5, <3>8
  <2>6. <<s[j]>> \o SubSeq(s, j + 1, m) = SubSeq(s, j, m)
    <3>1. m \in j..Len(s)
      BY <1>1, <1>6, <2>2
    <3> QED BY <1>6, <3>1, SubSeqRecursiveFirst
  <2>7. fill(uc, buffer)
          = [[packs |-> SubSeq(s, j + 1, m), uc |-> Left(s, all, off, m, q)]
               EXCEPT !.packs = <<s[j]>> \o @]
    BY <1>21, <1>23, <2>4, <2>5
  <2>8. fill(uc, buffer) = [packs |-> <<s[j]>> \o SubSeq(s, j + 1, m),
                            uc |-> Left(s, all, off, m, q)]
    BY <2>7, PutFirst
  <2> QED BY <1>3, <1>13, <1>15, <1>18, <2>6, <2>8
<1> QED BY <1>22, <1>23
-----------------------------------------------------------------------------
(* The ring. The fold puts the packages one by one.                        *)
LEMMA FoldPuts ==
  ASSUME NEW S, NEW packs \in Seq(S), NEW base
  PROVE  \E f : /\ f[0] = base
                /\ \A k \in 1..Len(packs) : f[k] = push_data(f[k - 1], packs[k])
                /\ FoldLeft(push_data, base, packs) = f[Len(packs)]
<1> DEFINE n == Len(packs)
           Top(k) == CHOOSE x \in k : \A y \in k : x >= y
           Put(it, d) == IF d = {} THEN base
                         ELSE push_data(it[d \ {Top(d)}], packs[Top(d)])
           G == {k \in Nat : \E it : it = [d \in SUBSET (1..k) |-> Put(it, d)]}
<1>1. n \in Nat /\ DOMAIN packs = 1..n
  OBVIOUS
<1>2. ASSUME NEW k \in Nat, NEW d \in SUBSET (1..k), k \in d PROVE Top(d) = k
  <2>1. k \in d /\ \A y \in d : k >= y
    BY <1>2
  <2>2. Top(d) \in d /\ \A y \in d : Top(d) >= y
    BY <2>1
  <2>3. PICK x : x = Top(d)
    OBVIOUS
  <2>4. x \in d /\ \A y \in d : x >= y
    BY <2>2, <2>3
  <2>5. x >= k /\ k >= x /\ x \in Nat
    BY <2>1, <2>4
  <2> QED BY <2>3, <2>5
<1>3. 0 \in G
  <2>1. PICK it : it = [d \in {{}} |-> base]
    OBVIOUS
  <2>2. SUBSET (1..0) = {{}}
    OBVIOUS
  <2>3. it = [d \in SUBSET (1..0) |-> Put(it, d)]
    BY <2>1, <2>2
  <2> QED BY <2>3
<1>4. ASSUME NEW k \in 0..(n - 1), k \in G PROVE k + 1 \in G
  <2>1. k \in Nat /\ k + 1 \in Nat
    BY <1>1
  <2>2. PICK it : it = [d \in SUBSET (1..k) |-> Put(it, d)]
    BY <1>4
  <2>3. PICK e : e = [d \in SUBSET (1..(k + 1)) |->
                        IF k + 1 \in d
                        THEN push_data(it[d \ {k + 1}], packs[k + 1])
                        ELSE it[d]]
    OBVIOUS
  <2>4. ASSUME NEW d \in SUBSET (1..k) PROVE e[d] = it[d]
    <3>1. d \in SUBSET (1..(k + 1)) /\ k + 1 \notin d
      BY <2>1
    <3> QED BY <2>3, <3>1
  <2>5. ASSUME NEW d \in SUBSET (1..(k + 1)) PROVE e[d] = Put(e, d)
    <3>1. CASE k + 1 \in d
      <4>1. Top(d) = k + 1
        BY <1>2, <2>1, <3>1
      <4>2. d \ {k + 1} \in SUBSET (1..k)
        BY <2>1
      <4>3. e[d] = push_data(it[d \ {k + 1}], packs[k + 1])
        BY <2>3, <3>1
      <4>4. e[d \ {k + 1}] = it[d \ {k + 1}]
        BY <2>4, <4>2
      <4>5. Put(e, d) = push_data(e[d \ {k + 1}], packs[k + 1])
        <5> HIDE DEF Top
        <5> QED BY <3>1, <4>1
      <4> QED BY <4>3, <4>4, <4>5
    <3>2. CASE k + 1 \notin d
      <4>1. d \in SUBSET (1..k)
        BY <2>1, <3>2
      <4>2a. d \ {Top(d)} \in SUBSET (1..k)
        <5> HIDE DEF Top
        <5> QED BY <4>1
      <4>2. e[d] = it[d] /\ e[d \ {Top(d)}] = it[d \ {Top(d)}]
        <5> HIDE DEF Top
        <5> QED BY <2>4, <4>1, <4>2a
      <4>3. it[d] = Put(it, d)
        <5> HIDE DEF Put
        <5> QED BY <2>2, <4>1
      <4> HIDE DEF Top
      <4> QED BY <4>2, <4>3
    <3> QED BY <3>1, <3>2
  <2>6. e = [d \in SUBSET (1..(k + 1)) |-> Put(e, d)]
    <3> HIDE DEF Put
    <3> QED BY <2>3, <2>5
  <2> HIDE DEF Put
  <2> QED BY <2>1, <2>6
<1>5. 0..n \subseteq G
  <2> HIDE DEF G
  <2> QED BY <1>1, <1>3, <1>4, InductionTo
<1>6. \E it : it = [d \in SUBSET (1..n) |-> Put(it, d)]
  <2>1. n \in G
    <3>1. n \in 0..n
      BY <1>1
    <3> HIDE DEF G
    <3> QED BY <1>5, <3>1
  <2> HIDE DEF Put
  <2> QED BY <2>1
<1> DEFINE I == CHOOSE it : it = [d \in SUBSET (1..n) |-> Put(it, d)]
<1>7. I = [d \in SUBSET (1..n) |-> Put(I, d)]
  <2> HIDE DEF Put
  <2> QED BY <1>6
<1>8. FoldLeft(push_data, base, packs) = I[1..n]
  BY <1>1 DEF FoldLeft, MapThenFoldSet, Max
<1> HIDE DEF I
<1>9. PICK f : f = [k \in 0..n |-> I[1..k]]
  OBVIOUS
<1>10. f[0] = base
  <2>1. I[{}] = Put(I, {}) /\ 1..0 = {}
    <3> HIDE DEF Put
    <3> QED BY <1>7
  <2> QED BY <1>1, <1>9, <2>1
<1>11. ASSUME NEW k \in 1..n PROVE f[k] = push_data(f[k - 1], packs[k])
  <2>1. 1..k \in SUBSET (1..n) /\ k \in 1..k /\ k \in Nat
    BY <1>1
  <2>2. Top(1..k) = k
    BY <1>2, <2>1
  <2>3. (1..k) \ {k} = 1..(k - 1) /\ 1..k # {}
    BY <2>1
  <2>4. I[1..k] = Put(I, 1..k)
    <3> HIDE DEF Put
    <3> QED BY <1>7, <2>1
  <2>5. Put(I, 1..k) = push_data(I[1..(k - 1)], packs[k])
    <3> HIDE DEF Top
    <3> QED BY <2>2, <2>3
  <2>6. f[k] = I[1..k] /\ f[k - 1] = I[1..(k - 1)]
    BY <1>1, <1>9
  <2> QED BY <2>4, <2>5, <2>6
<1>12. f[n] = I[1..n]
  BY <1>1, <1>9
<1> QED BY <1>8, <1>10, <1>11, <1>12

(* An index that passes the end of the ring comes back by the capacity.    *)
LEMMA RemAround ==
  ASSUME NEW c \in Nat, NEW i \in Nat, i < c + c
  PROVE  /\ i < c => i % c = i
         /\ ~ (i < c) => i % c = i - c
OBVIOUS

(* An index below the capacity stays.                                      *)
LEMMA RemBelow ==
  ASSUME NEW c \in Nat, NEW n \in Nat, 0 < n, n < c
  PROVE  (0 - n) % c = c - n
OBVIOUS

(* The ring with cap c, head h, tail t and cells m holds the packages of w *)
(* and has room for one more.                                              *)
HoldsIn(q, w, c, h, t, m) ==
  /\ c \in Nat /\ 1 < c /\ h \in Nat /\ h < c /\ t \in Nat /\ t < c
  /\ q = [cap |-> c, head |-> h, tail |-> t, queue |-> m]
  /\ m = [i \in 0..(c - 1) |-> m[i]]
  /\ w \in Seq(Bytes) /\ Len(w) < c /\ t = (h + Len(w)) % c
  /\ \A i \in 1..Len(w) : m[(h + i - 1) % c] = w[i]

Holds(q, w) == \E c, h, t, m : HoldsIn(q, w, c, h, t, m)

(* Where the ring begins and ends, without a remainder.                    *)
LEMMA HoldsWhere ==
  ASSUME NEW q, NEW w, NEW c, NEW h, NEW t, NEW m, HoldsIn(q, w, c, h, t, m)
  PROVE  /\ c \in Nat /\ 1 < c /\ h \in Nat /\ h < c /\ t \in Nat /\ t < c
         /\ Len(w) \in Nat /\ Len(w) < c
         /\ t = IF h + Len(w) < c THEN h + Len(w) ELSE h + Len(w) - c
<1>1. PICK l : l = Len(w)
  OBVIOUS
<1>2. /\ c \in Nat /\ 1 < c /\ h \in Nat /\ h < c /\ t \in Nat /\ t < c
      /\ w \in Seq(Bytes) /\ l < c /\ t = (h + l) % c
  BY <1>1 DEF HoldsIn
<1>3. l \in Nat
  BY <1>1, <1>2
<1>4. PICK x : x = h + l
  OBVIOUS
<1>5. x \in Nat /\ x < c + c
  BY <1>2, <1>3, <1>4
<1>6. (x < c => x % c = x) /\ (~ (x < c) => x % c = x - c)
  BY <1>2, <1>5, RemAround
<1> QED BY <1>1, <1>2, <1>3, <1>4, <1>6

(* Taking all messages out of the ring gives them in the order they were   *)
(* put in.                                                                 *)
LEMMA Popped ==
  ASSUME NEW q, NEW w, Holds(q, w)
  PROVE  popped(q) = w
<1>1. PICK c, h, t, m : HoldsIn(q, w, c, h, t, m)
  BY DEF Holds
<1>2. PICK l : l = Len(w)
  OBVIOUS
<1>3. /\ c \in Nat /\ 1 < c /\ h \in Nat /\ h < c /\ t \in Nat /\ t < c
      /\ l \in Nat /\ l < c /\ t = IF h + l < c THEN h + l ELSE h + l - c
  BY <1>1, <1>2, HoldsWhere
<1>4. (t - h) % c = l
  <2>1. CASE h + l < c
    <3>1. t - h = l
      BY <1>3, <2>1
    <3>2. l % c = l
      BY <1>3
    <3> QED BY <3>1, <3>2
  <2>2. CASE ~ (h + l < c)
    <3>1. PICK n : n = c - l
      OBVIOUS
    <3>2. t - h = 0 - n /\ 0 < n /\ n \in Nat /\ n < c /\ c - n = l
      BY <1>3, <2>2, <3>1
    <3>3. (0 - n) % c = c - n
      BY <1>3, <3>2, RemBelow
    <3> QED BY <3>2, <3>3
  <2> QED BY <2>1, <2>2
<1>5. q.cap = c /\ q.head = h /\ q.tail = t /\ q.queue = m
  BY <1>1 DEF HoldsIn
<1>6. popped(q) = [i \in 1..l |-> m[(h + i - 1) % c]]
  BY <1>4, <1>5 DEF popped
<1>7. w \in Seq(Bytes) /\ \A i \in 1..Len(w) : m[(h + i - 1) % c] = w[i]
  BY <1>1 DEF HoldsIn
<1>8. w = [i \in 1..l |-> w[i]]
  BY <1>2, <1>7
<1>9. \A i \in 1..l : m[(h + i - 1) % c] = w[i]
  BY <1>2, <1>7
<1> QED BY <1>6, <1>8, <1>9

(* Once emptied, the ring holds nothing.                                   *)
LEMMA EmptiedHolds ==
  ASSUME NEW q, NEW w, Holds(q, w)
  PROVE  Holds(emptied(q), <<>>)
<1>1. PICK c, h, t, m : HoldsIn(q, w, c, h, t, m)
  BY DEF Holds
<1>2. PICK z : z = [i \in DOMAIN q.queue |-> <<>>]
  OBVIOUS
<1>3. /\ q = [cap |-> c, head |-> h, tail |-> t, queue |-> m]
      /\ q.tail = t /\ DOMAIN q.queue = 0..(c - 1)
  BY <1>1 DEF HoldsIn
<1>4. emptied(q) = [cap |-> c, head |-> t, tail |-> t, queue |-> z]
  <2>1. [q EXCEPT !.head = t, !.queue = z]
          = [cap |-> c, head |-> t, tail |-> t, queue |-> z]
    <3>1. PICK r : r = [q EXCEPT !.head = t]
      OBVIOUS
    <3>2. r = [cap |-> c, head |-> t, tail |-> t, queue |-> m]
      BY <1>3, <3>1
    <3>3. [r EXCEPT !.queue = z]
            = [cap |-> c, head |-> t, tail |-> t, queue |-> z]
      BY <3>2
    <3>4. [q EXCEPT !.head = t, !.queue = z] = [r EXCEPT !.queue = z]
      BY <3>1
    <3> QED BY <3>3, <3>4
  <2>2. emptied(q) = [q EXCEPT !.head = t, !.queue = z]
    BY <1>2, <1>3 DEF emptied
  <2> QED BY <2>1, <2>2
<1>5. /\ c \in Nat /\ 1 < c /\ t \in Nat /\ t < c
      /\ z = [i \in 0..(c - 1) |-> z[i]]
  BY <1>1, <1>2, <1>3, HoldsWhere
<1>6. t % c = t /\ t + 0 = t /\ 0 < c
  BY <1>5
<1>7. PICK e : e = <<>>
  OBVIOUS
<1>8. e \in Seq(Bytes) /\ Len(e) = 0 /\ 1..Len(e) = {}
  BY <1>7
<1>9. HoldsIn(emptied(q), e, c, t, t, z)
  BY <1>4, <1>5, <1>6, <1>8 DEF HoldsIn
<1> QED BY <1>7, <1>9 DEF Holds

(* push_data adds the package at the end; a ring it fills is copied into a *)
(* greater one, in order.                                                  *)
LEMMA Pushes ==
  ASSUME NEW q, NEW w, Holds(q, w), NEW pack \in Bytes
  PROVE  Holds(push_data(q, pack), Append(w, pack))
<1>1. PICK c, h, t, m : HoldsIn(q, w, c, h, t, m)
  BY DEF Holds
<1>2. PICK l, v, next : l = Len(w) /\ v = Append(w, pack) /\ next = (t + 1) % c
  OBVIOUS
<1>3. /\ c \in Nat /\ 1 < c /\ h \in Nat /\ h < c /\ t \in Nat /\ t < c
      /\ l \in Nat /\ l < c /\ t = IF h + l < c THEN h + l ELSE h + l - c
  BY <1>1, <1>2, HoldsWhere
<1>4. /\ v \in Seq(Bytes) /\ Len(v) = l + 1 /\ v[l + 1] = pack
      /\ \A i \in 1..l : v[i] = w[i]
  <2>1. w \in Seq(Bytes)
    BY <1>1 DEF HoldsIn
  <2> QED BY <1>2, <2>1, AppendProperties
<1>5. next = (IF t + 1 < c THEN t + 1 ELSE 0)
  <2>1. PICK x : x = t + 1
    OBVIOUS
  <2>2. x \in Nat /\ x < c + c /\ (~ (x < c) => x - c = 0)
    BY <1>3, <2>1
  <2>3. (x < c => x % c = x) /\ (~ (x < c) => x % c = x - c)
    BY <1>3, <2>2, RemAround
  <2> QED BY <1>2, <2>1, <2>2, <2>3
<1>6. next \in Nat /\ next < c
  BY <1>3, <1>5
<1>7. PICK mp : mp = [m EXCEPT ![t] = pack]
  OBVIOUS
<1>8. PICK put : put = [cap |-> c, head |-> h, tail |-> next, queue |-> mp]
  OBVIOUS
<1>9. /\ q = [cap |-> c, head |-> h, tail |-> t, queue |-> m]
      /\ q.cap = c /\ q.head = h /\ q.tail = t /\ q.queue = m
      /\ DOMAIN m = 0..(c - 1) /\ t \in 0..(c - 1)
  BY <1>1, <1>3 DEF HoldsIn
<1>10. push_data(q, pack) = IF h = next THEN expand_queue(put) ELSE put
  <2>1. [q EXCEPT !.tail = next, !.queue = mp] = put
    <3>1. PICK r : r = [q EXCEPT !.tail = next]
      OBVIOUS
    <3>2. r = [cap |-> c, head |-> h, tail |-> next, queue |-> m]
      BY <1>9, <3>1
    <3>3. [r EXCEPT !.queue = mp] = put
      BY <1>8, <3>2
    <3>4. [q EXCEPT !.tail = next, !.queue = mp] = [r EXCEPT !.queue = mp]
      BY <3>1
    <3> QED BY <3>3, <3>4
  <2>2. [q EXCEPT !.tail = next, !.queue[t] = pack]
          = [q EXCEPT !.tail = next, !.queue = mp]
    BY <1>7, <1>9
  <2>3. [q EXCEPT !.tail = next, !.queue[t] = pack] = put
    BY <2>1, <2>2
  <2> QED BY <1>2, <1>9, <2>3 DEF push_data
<1>11. mp = [i \in 0..(c - 1) |-> mp[i]] /\ mp[t] = pack
       /\ \A i \in 0..(c - 1) : i # t => mp[i] = m[i]
  BY <1>7, <1>9
(* The cells the packages of v are in.                                     *)
<1>12. ASSUME NEW i \in 1..(l + 1) PROVE mp[(h + i - 1) % c] = v[i]
  <2>1. PICK x, j : x = h + i - 1 /\ j = x % c
    OBVIOUS
  <2>2. x \in Nat /\ x < c + c /\ i \in Nat
    BY <1>3, <2>1
  <2>3. (x < c => j = x) /\ (~ (x < c) => j = x - c)
    BY <1>3, <2>1, <2>2, RemAround
  <2>4. CASE i = l + 1
    <3>1. x = h + l
      BY <1>3, <2>1, <2>4
    <3>2. j = t
      BY <1>3, <2>3, <3>1
    <3> QED BY <1>4, <1>11, <2>1, <2>4, <3>2
  <2>5. CASE i # l + 1
    <3>1. i \in 1..l
      BY <1>3, <2>5
    <3>2. i <= l /\ 1 <= i
      BY <1>3, <3>1
    <3>3. j \in 0..(c - 1) /\ j # t
      BY <1>3, <2>1, <2>2, <2>3, <3>2
    <3>4. m[j] = w[i]
      BY <1>1, <1>2, <2>1, <3>1 DEF HoldsIn
    <3> QED BY <1>4, <1>11, <2>1, <3>1, <3>3, <3>4
  <2> QED BY <2>4, <2>5
<1>13. CASE h # next
  <2>1. l + 1 < c
    BY <1>3, <1>5, <1>13
  <2>2. next = (h + (l + 1)) % c
    <3>1. PICK x : x = h + (l + 1)
      OBVIOUS
    <3>2. x \in Nat /\ x < c + c
      BY <1>3, <2>1, <3>1
    <3>3. (x < c => x % c = x) /\ (~ (x < c) => x % c = x - c)
      BY <1>3, <3>2, RemAround
    <3>4. (x < c => next = x) /\ (~ (x < c) => next = x - c)
      BY <1>3, <1>5, <2>1, <3>1
    <3> QED BY <3>1, <3>3, <3>4
  <2>3. push_data(q, pack) = put
    BY <1>10, <1>13
  <2>4. /\ put = [cap |-> c, head |-> h, tail |-> next, queue |-> mp]
        /\ mp = [i \in 0..(c - 1) |-> mp[i]]
        /\ v \in Seq(Bytes) /\ Len(v) < c /\ next = (h + Len(v)) % c
        /\ \A i \in 1..Len(v) : mp[(h + i - 1) % c] = v[i]
    BY <1>4, <1>8, <1>11, <1>12, <2>1, <2>2
  <2>5. HoldsIn(put, v, c, h, next, mp)
    BY <1>3, <1>6, <2>4 DEF HoldsIn
  <2> QED BY <1>2, <2>3, <2>5 DEF Holds
<1>14. CASE h = next
  <2>1. l + 1 = c
    BY <1>3, <1>5, <1>14
  <2>2. PICK d : d = c + QueueSize
    OBVIOUS
  <2>3. d \in Nat /\ 1 < d /\ c < d
    BY <1>3, <2>2, NetpackAssumption
  <2>4. PICK e : e = [i \in 0..(d - 1) |->
                        IF i < c THEN expanded(put, i) ELSE <<>>]
    OBVIOUS
  <2>5. put.cap = c /\ put.head = h /\ put.queue = mp
    BY <1>8
  <2>6. expand_queue(put) = [cap |-> d, head |-> 0, tail |-> c, queue |-> e]
    <3>1. put.cap + QueueSize = d
      BY <2>2, <2>5
    <3>2. PICK f : f = [i \in 0..(put.cap + QueueSize - 1) |->
                          IF i < put.cap THEN expanded(put, i) ELSE <<>>]
      OBVIOUS
    <3>3. f = e
      <4>1. put.cap + QueueSize - 1 = d - 1
        <5>1. PICK x : x = put.cap
          OBVIOUS
        <5>2. x + QueueSize - 1 = d - 1
          BY <1>3, <2>2, <2>5, <5>1, NetpackAssumption
        <5> QED BY <5>1, <5>2
      <4>2. f = [i \in 0..(d - 1) |->
                   IF i < put.cap THEN expanded(put, i) ELSE <<>>]
        BY <3>2, <4>1
      <4>3. \A i \in 0..(d - 1) : f[i] = e[i]
        BY <2>4, <2>5, <4>2
      <4> QED BY <2>4, <4>2, <4>3
    <3>4. expand_queue(put) = [cap |-> put.cap + QueueSize, head |-> 0,
                               tail |-> put.cap, queue |-> f]
      BY <3>2 DEF expand_queue
    <3> QED BY <2>5, <3>1, <3>3, <3>4
  <2>7. e = [i \in 0..(d - 1) |-> e[i]]
    BY <2>4
  <2>8. ASSUME NEW i \in 1..(l + 1) PROVE e[(0 + i - 1) % d] = v[i]
    <3>1. PICK j : j = i - 1
      OBVIOUS
    <3>2. j \in Nat /\ j < c /\ j < d /\ j \in 0..(d - 1) /\ h + j = h + i - 1
          /\ 0 + i - 1 = j
      BY <1>3, <2>1, <2>3, <3>1
    <3>3. j % d = j
      BY <2>3, <3>2
    <3>4. e[j] = expanded(put, j)
      BY <2>4, <3>2
    <3>5. expanded(put, j) = mp[(h + j) % c]
      BY <2>5 DEF expanded
    <3> QED BY <1>12, <3>2, <3>3, <3>4, <3>5
  <2>9. c = (0 + (l + 1)) % d
    <3>1. 0 + (l + 1) = c
      BY <1>3, <2>1
    <3>2. c % d = c
      BY <1>3, <2>3
    <3> QED BY <3>1, <3>2
  <2>10. v \in Seq(Bytes) /\ Len(v) < d /\ c = (0 + Len(v)) % d
         /\ \A i \in 1..Len(v) : e[(0 + i - 1) % d] = v[i]
    BY <1>3, <1>4, <2>1, <2>3, <2>8, <2>9
  <2>11. 0 \in Nat /\ 0 < d
    BY <2>3
  <2>12. HoldsIn(expand_queue(put), v, d, 0, c, e)
    BY <1>3, <2>3, <2>6, <2>7, <2>10, <2>11 DEF HoldsIn
  <2> QED BY <1>2, <1>10, <1>14, <2>12 DEF Holds
<1> QED BY <1>13, <1>14

(* What is put into the empty ring is what is popped.                      *)
LEMMA RingExact ==
  ASSUME NEW packs \in Seq(Bytes), NEW q, Holds(q, <<>>)
  PROVE  LET p == FoldLeft(push_data, q, packs)
         IN  popped(p) = packs /\ Holds(emptied(p), <<>>)
<1> DEFINE n == Len(packs)
<1>1. PICK f : /\ f[0] = q
               /\ \A k \in 1..n : f[k] = push_data(f[k - 1], packs[k])
               /\ FoldLeft(push_data, q, packs) = f[n]
  BY FoldPuts
<1>2. n \in Nat /\ \A k \in 1..n : packs[k] \in Bytes
  OBVIOUS
<1> DEFINE G == {k \in Nat : k <= n => Holds(f[k], SubSeq(packs, 1, k))}
<1>3. 0 \in G
  <2>1. SubSeq(packs, 1, 0) = <<>>
    OBVIOUS
  <2> QED BY <1>1, <2>1
<1>4. ASSUME NEW k \in 0..(n - 1), k \in G PROVE k + 1 \in G
  <2>1. k \in Nat /\ k <= n /\ k + 1 \in 1..n /\ (k + 1) - 1 = k /\ k + 1 \in Nat
    BY <1>2
  <2>2. Holds(f[k], SubSeq(packs, 1, k))
    BY <1>4, <2>1
  <2>3. Holds(push_data(f[k], packs[k + 1]),
              Append(SubSeq(packs, 1, k), packs[k + 1]))
    BY <1>2, <2>1, <2>2, Pushes
  <2>4. f[k + 1] = push_data(f[k], packs[k + 1])
    BY <1>1, <2>1
  <2>5. Append(SubSeq(packs, 1, k), packs[k + 1]) = SubSeq(packs, 1, k + 1)
    <3>1. PICK u, v : u = SubSeq(packs, 1, k) /\ v = SubSeq(packs, 1, k + 1)
      OBVIOUS
    <3>2. /\ u \in Seq(Bytes) /\ Len(u) = k
          /\ \A i \in 1..k : u[i] = packs[1 + i - 1]
      <4>1. 1 \in Nat \ {0} /\ 1 <= k + 1 /\ k - 1 + 1 = k
        BY <2>1
      <4>2. /\ u \in Seq(Bytes) /\ Len(u) = k - 1 + 1
            /\ \A i \in 1..(k - 1 + 1) : u[i] = packs[1 + i - 1]
        BY <2>1, <3>1, <4>1, Piece
      <4> QED BY <4>1, <4>2
    <3>3. /\ v \in Seq(Bytes) /\ Len(v) = k + 1
          /\ \A i \in 1..(k + 1) : v[i] = packs[1 + i - 1]
      <4>1. 1 \in Nat \ {0} /\ 1 <= (k + 1) + 1 /\ (k + 1) - 1 + 1 = k + 1
            /\ k + 1 <= n
        BY <2>1
      <4>2. /\ v \in Seq(Bytes) /\ Len(v) = (k + 1) - 1 + 1
            /\ \A i \in 1..((k + 1) - 1 + 1) : v[i] = packs[1 + i - 1]
        BY <2>1, <3>1, <4>1, Piece
      <4> QED BY <4>1, <4>2
    <3>4. /\ Append(u, packs[k + 1]) \in Seq(Bytes)
          /\ Len(Append(u, packs[k + 1])) = k + 1
          /\ Append(u, packs[k + 1])[k + 1] = packs[k + 1]
          /\ \A i \in 1..k : Append(u, packs[k + 1])[i] = u[i]
      BY <1>2, <2>1, <3>2, AppendProperties
    <3>5. ASSUME NEW i \in 1..(k + 1) PROVE Append(u, packs[k + 1])[i] = v[i]
      <4>1. i = k + 1 \/ i \in 1..k
        BY <2>1
      <4>2. 1 + i - 1 = i
        BY <2>1
      <4> QED BY <3>2, <3>3, <3>4, <4>1, <4>2
    <3>6. Append(u, packs[k + 1]) = v
      BY <3>3, <3>4, <3>5, SameSeq
    <3> QED BY <3>1, <3>6
  <2> QED BY <2>1, <2>3, <2>4, <2>5
<1>5. 0..n \subseteq G
  <2> HIDE DEF G
  <2> QED BY <1>2, <1>3, <1>4, InductionTo
<1>6. Holds(f[n], SubSeq(packs, 1, n))
  BY <1>2, <1>5
<1>7. SubSeq(packs, 1, n) = packs
  BY SubSeqFull
<1> QED BY <1>1, <1>6, <1>7, Popped, EmptiedHolds
-----------------------------------------------------------------------------
(* The chains of packages broken off.                                      *)
Parcels == [read : Int, header : Nat, size : Nat, buffer : Bytes]
Entries == [id : Fds, uc : Parcels]

(* What is left of the bytes of a connection is nothing, or one uncomplete *)
(* package.                                                                *)
LEMMA LeftParcel ==
  ASSUME NEW s \in Seq(Bytes), NEW all, NEW off, Framed(s, all, off),
         NEW p \in 0..Len(all), NEW k, Reached(s, off, k, p)
  PROVE  \/ Left(s, all, off, k, p) = <<>> /\ p = off[k]
         \/ \E x \in Parcels : Left(s, all, off, k, p) = <<x>> /\ p # off[k]
<1>1. /\ Len(s) \in Nat /\ k \in 0..Len(s) /\ off \in [0..Len(s) -> Nat]
      /\ all \in Seq(Nat) /\ Len(all) \in Nat
  BY DEF Framed, Bytes, Reached
<1>2. PICK o : o = off[k]
  OBVIOUS
<1>3. o \in Nat /\ p \in Nat /\ p <= Len(all) /\ o <= p
  BY <1>1, <1>2 DEF Reached
<1>4. CASE p = o
  BY <1>2, <1>4 DEF Left
<1>5. CASE p = o + 1
  <2>1. o + 1 \in 1..Len(all) /\ p # o
    BY <1>1, <1>3, <1>5
  <2>2. PICK x : x = [read |-> -1, header |-> all[o + 1], size |-> 0,
                      buffer |-> <<>>]
    OBVIOUS
  <2>3. Left(s, all, off, k, p) = <<x>>
    BY <1>2, <1>5, <2>1, <2>2 DEF Left
  <2>4. all[o + 1] \in Nat /\ -1 \in Int
    BY <1>1, <2>1
  <2>5. x \in Parcels
    BY <2>2, <2>4 DEF Parcels, Bytes
  <2> QED BY <1>2, <2>1, <2>3, <2>5
<1>6. CASE p # o /\ p # o + 1
  <2>1. PICK x, b, l : /\ b = SubSeq(all, o + 3, p) /\ l = Len(s[k + 1])
                       /\ x = [read |-> p - o - 2, header |-> 0, size |-> l,
                               buffer |-> b]
    OBVIOUS
  <2>2. Left(s, all, off, k, p) = <<x>>
    BY <1>2, <1>6, <2>1 DEF Left
  <2>3. b \in Seq(Nat)
    <3>1. PICK y : y = o + 3
      OBVIOUS
    <3>2. y \in Nat \ {0} /\ y <= p + 1
      BY <1>3, <1>6, <3>1
    <3> QED BY <1>1, <1>3, <2>1, <3>1, <3>2, Piece
  <2>4. l \in Nat
    <3>1. k # Len(s)
      <4>1. SUFFICES ASSUME k = Len(s) PROVE FALSE
        OBVIOUS
      <4>2. Len(all) = o
        BY <1>2, <4>1 DEF Framed
      <4> QED BY <1>3, <1>6, <4>2
    <3>2. k + 1 \in 1..Len(s)
      BY <1>1, <3>1
    <3>3. s[k + 1] \in Seq(Nat)
      BY <3>2 DEF Bytes
    <3> QED BY <2>1, <3>3
  <2>5. p - o - 2 \in Int /\ 0 \in Nat
    BY <1>3
  <2>6. x \in Parcels
    BY <2>1, <2>3, <2>4, <2>5 DEF Parcels, Bytes
  <2> QED BY <1>2, <1>6, <2>2, <2>6
<1> QED BY <1>4, <1>5, <1>6

(* A list without one of its elements: those behind it move up.            *)
LEMMA Removed ==
  ASSUME NEW S, NEW c \in Seq(S), NEW i \in 1..Len(c)
  PROVE  /\ RemoveAt(c, i) \in Seq(S) /\ Len(RemoveAt(c, i)) = Len(c) - 1
         /\ \A j \in 1..(Len(c) - 1) :
              RemoveAt(c, i)[j] = IF j < i THEN c[j] ELSE c[j + 1]
<1>1. PICK n, a, b : n = Len(c) /\ a = i - 1 /\ b = i + 1
  OBVIOUS
<1>2. n \in Nat /\ a \in Nat /\ b \in Nat \ {0} /\ i \in Nat /\ 1 <= i /\ i <= n
  BY <1>1
<1>3. PICK u, v : u = SubSeq(c, 1, a) /\ v = SubSeq(c, b, n)
  OBVIOUS
<1>4. u \in Seq(S) /\ Len(u) = a /\ \A j \in 1..a : u[j] = c[j]
  <2>1. 1 \in Nat \ {0} /\ 1 <= a + 1 /\ a <= Len(c) /\ a - 1 + 1 = a
    BY <1>1, <1>2
  <2>2. /\ u \in Seq(S) /\ Len(u) = a - 1 + 1
        /\ \A j \in 1..(a - 1 + 1) : u[j] = c[1 + j - 1]
    BY <1>2, <1>3, <2>1, Piece
  <2>3. \A j \in 1..a : 1 + j - 1 = j
    BY <1>2
  <2> QED BY <2>1, <2>2, <2>3
<1>5. v \in Seq(S) /\ Len(v) = n - i /\ \A j \in 1..(n - i) : v[j] = c[i + j]
  <2>1. b <= n + 1 /\ n <= Len(c) /\ n - b + 1 = n - i
    BY <1>1, <1>2
  <2>2. /\ v \in Seq(S) /\ Len(v) = n - b + 1
        /\ \A j \in 1..(n - b + 1) : v[j] = c[b + j - 1]
    BY <1>2, <1>3, <2>1, Piece
  <2>3. \A j \in 1..(n - i) : b + j - 1 = i + j
    BY <1>1, <1>2
  <2> QED BY <2>1, <2>2, <2>3
<1>6. PICK r : r = u \o v
  OBVIOUS
<1>7. r = RemoveAt(c, i)
  BY <1>1, <1>3, <1>6 DEF RemoveAt
<1>8. /\ r \in Seq(S) /\ Len(r) = n - 1
      /\ \A j \in 1..(n - 1) : r[j] = IF j <= a THEN u[j] ELSE v[j - a]
  <2>1. Len(u) + Len(v) = n - 1
    BY <1>1, <1>2, <1>4, <1>5
  <2>2. /\ r \in Seq(S) /\ Len(r) = Len(u) + Len(v)
        /\ \A j \in 1..(Len(u) + Len(v)) :
             r[j] = IF j <= Len(u) THEN u[j] ELSE v[j - Len(u)]
    BY <1>4, <1>5, <1>6, ConcatProperties
  <2> QED BY <1>4, <2>1, <2>2
<1>9. ASSUME NEW j \in 1..(n - 1)
      PROVE  r[j] = IF j < i THEN c[j] ELSE c[j + 1]
  <2>1. CASE j < i
    <3>1. j \in 1..a /\ j <= a
      BY <1>1, <1>2, <2>1
    <3> QED BY <1>4, <1>8, <2>1, <3>1
  <2>2. CASE ~ (j < i)
    <3>1. ~ (j <= a) /\ j - a \in 1..(n - i) /\ i + (j - a) = j + 1
      BY <1>1, <1>2, <2>2
    <3> QED BY <1>5, <1>8, <2>2, <3>1
  <2> QED BY <2>1, <2>2
<1> QED BY <1>1, <1>7, <1>8, <1>9

(* Every socket has one entry at most on a chain.                          *)
Single(c) ==
  /\ c \in Seq(Entries)
  /\ \A i, j \in 1..Len(c) : c[i].id = c[j].id => i = j
On(c, x) == \E i \in 1..Len(c) : c[i] = x

(* find_uncomplete takes the entry of fd off and leaves the others.        *)
LEMMA TakenOff ==
  ASSUME NEW fd, NEW c, c = chain(fd), Single(c)
  PROVE  /\ Single(unlinked(fd))
         /\ \A i \in 1..Len(unlinked(fd)) : unlinked(fd)[i].id # fd
         /\ \A x : x.id # fd => (On(unlinked(fd), x) <=> On(c, x))
<1> DEFINE u == unlinked(fd)
           I == {i \in 1..Len(c) : c[i].id = fd}
<1>1. c \in Seq(Entries) /\ Len(c) \in Nat
      /\ \A i, j \in 1..Len(c) : c[i].id = c[j].id => i = j
  BY DEF Single
<1>2. CASE I = {}
  <2>1. u = c
    BY <1>2 DEF unlinked, RemoveFirstMatch
  <2>2. \A i \in 1..Len(c) : c[i].id # fd
    BY <1>2
    <2> QED BY <2>1, <2>2
<1>3. CASE I # {}
  <2>1. PICK i : i \in 1..Len(c) /\ c[i].id = fd
    BY <1>3
  <2>2. I = {i}
    BY <1>1, <2>1
  <2>3. u = RemoveAt(c, CHOOSE x \in I : \A y \in I : x =< y)
    BY <2>1 DEF unlinked, RemoveFirstMatch, SelectInSeq, Min
  <2>4. (CHOOSE x \in {i} : \A y \in {i} : x =< y) = i
    <3>1. \E x \in {i} : \A y \in {i} : x =< y
      BY <2>1
    <3> QED BY <3>1
  <2>5. u = RemoveAt(c, i)
    BY <2>2, <2>3, <2>4
  <2>6. PICK r, n : r = u /\ n = Len(c)
    OBVIOUS
  <2>7. /\ r \in Seq(Entries) /\ Len(r) = n - 1 /\ n \in Nat /\ i \in 1..n
        /\ \A j \in 1..(n - 1) : r[j] = IF j < i THEN c[j] ELSE c[j + 1]
    <3> QED BY <1>1, <2>1, <2>5, <2>6, Removed
  <2>8. ASSUME NEW j \in 1..(n - 1)
        PROVE  \E l \in 1..n : /\ r[j] = c[l] /\ l # i
                               /\ l = IF j < i THEN j ELSE j + 1
    <3>1. CASE j < i
      <4>1. j \in 1..n /\ j # i
        BY <2>7, <3>1
      <4> QED BY <2>7, <3>1, <4>1
    <3>2. CASE ~ (j < i)
      <4>1. j + 1 \in 1..n /\ j + 1 # i
        BY <2>7, <3>2
      <4> QED BY <2>7, <3>2, <4>1
    <3> QED BY <3>1, <3>2
  <2>9. ASSUME NEW l \in 1..n, l # i PROVE \E j \in 1..(n - 1) : r[j] = c[l]
    <3>1. CASE l < i
      <4>1. l \in 1..(n - 1)
        BY <2>7, <3>1
      <4> QED BY <2>7, <3>1, <4>1
    <3>2. CASE i < l
      <4>1. l - 1 \in 1..(n - 1) /\ ~ (l - 1 < i) /\ (l - 1) + 1 = l
        BY <2>7, <3>2
      <4> QED BY <2>7, <4>1
    <3> QED BY <2>7, <2>9, <3>1, <3>2
  <2>10. ASSUME NEW j \in 1..(n - 1), NEW k \in 1..(n - 1), r[j].id = r[k].id
         PROVE  j = k
    <3>1. PICK l \in 1..n : r[j] = c[l] /\ l = IF j < i THEN j ELSE j + 1
      BY <2>8
    <3>2. PICK m \in 1..n : r[k] = c[m] /\ m = IF k < i THEN k ELSE k + 1
      BY <2>8
    <3>3. l = m
      BY <1>1, <2>6, <2>10, <3>1, <3>2
    <3> QED BY <2>7, <3>1, <3>2, <3>3
  <2>11. Single(r)
    BY <2>7, <2>10 DEF Single
  <2>12. \A j \in 1..(n - 1) : r[j].id # fd
    BY <1>1, <2>1, <2>6, <2>8
  <2>13. ASSUME NEW x, x.id # fd PROVE On(r, x) <=> On(c, x)
    <3>1. ASSUME On(r, x) PROVE On(c, x)
      BY <2>6, <2>7, <2>8, <3>1 DEF On
    <3>2. ASSUME On(c, x) PROVE On(r, x)
      <4>1. PICK l \in 1..n : c[l] = x
        BY <2>6, <3>2 DEF On
      <4>2. l # i
        BY <2>1, <2>13, <4>1
      <4> QED BY <2>7, <2>9, <4>1, <4>2 DEF On
    <3> QED BY <3>1, <3>2
  <2>14. \A j \in 1..Len(r) : r[j].id # fd
    BY <2>7, <2>12
    <2> QED BY <2>6, <2>11, <2>13, <2>14
<1> QED BY <1>2, <1>3

(* save_uncomplete puts an entry in front.                                 *)
LEMMA PutOn ==
  ASSUME NEW u, Single(u), NEW x \in Entries,
         \A i \in 1..Len(u) : u[i].id # x.id
  PROVE  /\ Single(<<x>> \o u)
         /\ \A y : On(<<x>> \o u, y) <=> (y = x \/ On(u, y))
<1>1. PICK r, n : r = <<x>> \o u /\ n = Len(u)
  OBVIOUS
<1>2. u \in Seq(Entries) /\ n \in Nat /\ <<x>> \in Seq(Entries)
  BY <1>1 DEF Single
<1>3. /\ r \in Seq(Entries) /\ Len(r) = n + 1
      /\ \A i \in 1..(n + 1) : r[i] = IF i <= 1 THEN x ELSE u[i - 1]
  <2>1. PICK v : v = <<x>>
    OBVIOUS
  <2>2. v \in Seq(Entries) /\ Len(v) = 1 /\ v[1] = x
    BY <1>2, <2>1
  <2>3. /\ r \in Seq(Entries) /\ Len(r) = 1 + n
        /\ \A i \in 1..(1 + n) : r[i] = IF i <= 1 THEN v[i] ELSE u[i - 1]
    BY <1>1, <1>2, <2>1, <2>2, ConcatProperties
  <2>4. 1 + n = n + 1 /\ \A i \in 1..(n + 1) : i <= 1 => i = 1
    BY <1>2
  <2> QED BY <2>2, <2>3, <2>4
<1>4. ASSUME NEW i \in 1..(n + 1), NEW j \in 1..(n + 1), r[i].id = r[j].id
      PROVE  i = j
  <2>1. CASE i = 1 /\ j # 1
    <3>1. j - 1 \in 1..n /\ ~ (j <= 1) /\ i <= 1
      BY <1>2, <2>1
    <3> QED BY <1>1, <1>3, <1>4, <3>1
  <2>2. CASE j = 1 /\ i # 1
    <3>1. i - 1 \in 1..n /\ ~ (i <= 1) /\ j <= 1
      BY <1>2, <2>2
    <3> QED BY <1>1, <1>3, <1>4, <3>1
  <2>3. CASE i # 1 /\ j # 1
    <3>1. i - 1 \in 1..n /\ ~ (i <= 1) /\ j - 1 \in 1..n /\ ~ (j <= 1)
      BY <1>2, <2>3
    <3>2. i - 1 = j - 1
      BY <1>1, <1>3, <1>4, <3>1 DEF Single
    <3> QED BY <3>2
  <2> QED BY <2>1, <2>2, <2>3
<1>5. Single(r)
  BY <1>3, <1>4 DEF Single
<1>6. ASSUME NEW y PROVE On(r, y) <=> (y = x \/ On(u, y))
  <2>1. ASSUME On(r, y) PROVE y = x \/ On(u, y)
    <3>1. PICK i \in 1..(n + 1) : r[i] = y
      BY <1>3, <2>1 DEF On
    <3>2. CASE i <= 1
      BY <1>3, <3>1, <3>2
    <3>3. CASE ~ (i <= 1)
      <4>1. i - 1 \in 1..n
        BY <1>2, <3>3
      <4> QED BY <1>1, <1>3, <3>1, <3>3, <4>1 DEF On
    <3> QED BY <3>2, <3>3
  <2>2. ASSUME y = x PROVE On(r, y)
    <3>1. 1 \in 1..(n + 1) /\ 1 <= 1
      BY <1>2
    <3> QED BY <1>3, <2>2, <3>1 DEF On
  <2>3. ASSUME On(u, y) PROVE On(r, y)
    <3>1. PICK i \in 1..n : u[i] = y
      BY <1>1, <2>3 DEF On
    <3>2. i + 1 \in 1..(n + 1) /\ ~ (i + 1 <= 1) /\ (i + 1) - 1 = i
      BY <1>2
    <3>3. r[i + 1] = y
      BY <1>3, <3>1, <3>2
    <3> QED BY <1>3, <3>2, <3>3 DEF On
  <2> QED BY <2>1, <2>2, <2>3
<1> QED BY <1>1, <1>5, <1>6
-----------------------------------------------------------------------------
(* The gate has read the first p bytes of fd, which are k packages and a   *)
(* part of one more, and keeps exactly that part.                          *)
Kept(fd, all, off, k, p) ==
  IF p = off[k] THEN \A x : x.id = fd => ~ On(chain(fd), x)
  ELSE On(chain(fd), [id |-> fd, uc |-> Left(sent[fd], all, off, k, p)[1]])

Frame(fd, all, off, k, p) ==
  /\ all = bytes(sent[fd]) /\ Framed(sent[fd], all, off)
  /\ p \in 0..Len(all) /\ Reached(sent[fd], off, k, p)
  /\ stream[fd] = SubSeq(all, p + 1, Len(all))
  /\ got[fd] = SubSeq(sent[fd], 1, k)
  /\ fd \in open => Kept(fd, all, off, k, p)

FrameInv ==
  /\ sent \in [Fds -> Seq(Bytes)]
  /\ DOMAIN stream = Fds /\ DOMAIN got = Fds
  /\ DOMAIN hash = Range(hash_fd) /\ \A fd \in Fds : Single(chain(fd))
  /\ Holds(ring, <<>>)
  /\ \A fd \in Fds : \E all, off, k, p : Frame(fd, all, off, k, p)

(* The chain of a connection is in the hash table.                         *)
LEMMA ChainThere ==
  ASSUME NEW fd \in Fds
  PROVE  hash_fd[fd] \in Range(hash_fd)
BY NetpackAssumption DEF Range

(* When the gate starts, nothing has come and nothing is kept.             *)
LEMMA FrameInit == Init => FrameInv
<1> SUFFICES ASSUME Init PROVE FrameInv
  OBVIOUS
<1>1. /\ sent \in [Fds -> UNION {Streams[fd] : fd \in Fds}]
      /\ \A fd \in Fds : sent[fd] \in Streams[fd]
  BY DEF Init
<1>2. ASSUME NEW fd \in Fds PROVE sent[fd] \in Seq(Bytes)
  <2>1. sent[fd] \in Seq(Seq(0..(Base - 1)))
    BY <1>1, StreamAssumption
  <2>2. PICK B : B = 0..(Base - 1)
    OBVIOUS
  <2>3. B \subseteq Nat
    BY <2>2, NetpackAssumption
  <2>4. ASSUME NEW t \in Seq(B) PROVE t \in Seq(Nat)
    <3>1. Len(t) \in Nat /\ t = [i \in 1..Len(t) |-> t[i]]
          /\ \A i \in 1..Len(t) : t[i] \in B
      OBVIOUS
    <3>2. \A i \in 1..Len(t) : t[i] \in Nat
      BY <2>3, <3>1
    <3> QED BY <3>1, <3>2
  <2> QED BY <2>1, <2>2, <2>4 DEF Bytes
<1>3. sent \in [Fds -> Seq(Bytes)]
  BY <1>1, <1>2
<1>4. /\ stream = [fd \in Fds |-> FlattenSeq([i \in DOMAIN sent[fd] |->
                                                encode(sent[fd][i])])]
      /\ hash = [h \in Range(hash_fd) |-> <<>>]
      /\ ring = [cap |-> QueueSize, head |-> 0, tail |-> 0,
                 queue |-> [i \in 0..(QueueSize - 1) |-> <<>>]]
      /\ got = [fd \in Fds |-> <<>>]
  BY DEF Init, NetpackInit
<1>5. \A fd \in Fds : chain(fd) = <<>>
  BY <1>4, ChainThere DEF chain
<1>6. \A fd \in Fds : Single(chain(fd))
  <2>1. PICK e : e = <<>>
    OBVIOUS
  <2>2. e \in Seq(Entries) /\ 1..Len(e) = {}
    BY <2>1
  <2>3. Single(e)
    BY <2>2 DEF Single
  <2> QED BY <1>5, <2>1, <2>3
<1>7. Holds(ring, <<>>)
  <2>1. PICK z, e, c : /\ z = [i \in 0..(QueueSize - 1) |-> <<>>]
                       /\ e = <<>> /\ c = QueueSize
    OBVIOUS
  <2>2. c \in Nat /\ 1 < c /\ 0 < c /\ 0 % c = 0 /\ 0 + 0 = 0
    BY <2>1, NetpackAssumption
  <2>3. e \in Seq(Bytes) /\ Len(e) = 0 /\ 1..Len(e) = {}
    BY <2>1
  <2>4. z = [i \in 0..(c - 1) |-> z[i]]
    BY <2>1
  <2>5. ring = [cap |-> c, head |-> 0, tail |-> 0, queue |-> z]
    BY <1>4, <2>1
  <2>6. HoldsIn(ring, e, c, 0, 0, z)
    BY <2>2, <2>3, <2>4, <2>5 DEF HoldsIn
  <2> QED BY <2>1, <2>6 DEF Holds
<1>8. ASSUME NEW fd \in Fds PROVE \E all, off, k, p : Frame(fd, all, off, k, p)
  <2>1. PICK s, all : s = sent[fd] /\ all = bytes(s)
    OBVIOUS
  <2>2. s \in Seq(Bytes)
    BY <1>2, <2>1
  <2>3. PICK off : Framed(s, all, off)
    BY <2>1, <2>2, StreamFramed
  <2>4. /\ all \in Seq(Nat) /\ Len(all) \in Nat /\ Len(s) \in Nat
        /\ off \in [0..Len(s) -> Nat] /\ off[0] = 0
    BY <2>2, <2>3 DEF Framed, Bytes
  <2>5. Reached(s, off, 0, 0)
    <3>1. 0 < Len(s) => 0 < off[1]
      <4>1. SUFFICES ASSUME 0 < Len(s) PROVE 0 < off[1]
        OBVIOUS
      <4>2. 1 \in 1..Len(s) /\ 1 - 1 = 0
        BY <2>4, <4>1
      <4>3. s[1] \in Seq(Nat)
        BY <2>2, <4>2 DEF Bytes
      <4>4. off[1] = 0 + 2 + Len(s[1]) /\ Len(s[1]) \in Nat
        BY <2>3, <2>4, <4>2, <4>3 DEF Framed
      <4> QED BY <4>4
    <3>2. 0 \in 0..Len(s) /\ off[0] <= 0 /\ 0 + 1 = 1
      BY <2>4
    <3> QED BY <3>1, <3>2 DEF Reached
  <2>6. stream[fd] = SubSeq(all, 0 + 1, Len(all))
    <3>1. stream[fd] = all
      BY <1>4, <2>1 DEF bytes
    <3>2. SubSeq(all, 1, Len(all)) = all
      BY <2>4, SubSeqFull
    <3> QED BY <3>1, <3>2
  <2>7. got[fd] = SubSeq(s, 1, 0)
    BY <1>4
  <2>8. Kept(fd, all, off, 0, 0)
    <3>1. \A x : ~ On(chain(fd), x)
      BY <1>5 DEF On
    <3> QED BY <2>4, <3>1 DEF Kept
  <2>9. 0 \in 0..Len(all)
    BY <2>4
  <2>10. Frame(fd, all, off, 0, 0)
    BY <2>1, <2>3, <2>5, <2>6, <2>7, <2>8, <2>9 DEF Frame
  <2> QED BY <2>10
<1> QED BY <1>3, <1>4, <1>6, <1>7, <1>8 DEF FrameInv

(* What the gate makes of the next n bytes of fd: the packages whose last  *)
(* byte has come now are forwarded, and what is left of them kept.         *)
Filtered(fd, n, all, off, k, p, m) ==
  /\ p + n \in 0..Len(all) /\ Reached(sent[fd], off, m, p + n)
  /\ k <= m /\ m \in 0..Len(sent[fd]) /\ k \in 0..Len(sent[fd])
  /\ filtered(fd, n) = [packs |-> SubSeq(sent[fd], k + 1, m),
                        uc |-> Left(sent[fd], all, off, m, p + n)]
  /\ SubSeq(stream[fd], n + 1, Len(stream[fd]))
       = SubSeq(all, (p + n) + 1, Len(all))

(* filter_data makes of the next n bytes exactly the packages that end in  *)
(* them.                                                                   *)
LEMMA Filters ==
  ASSUME FrameInv, NEW fd \in Fds, fd \in open, NEW n \in 1..Len(stream[fd]),
         NEW all, NEW off, NEW k, NEW p, Frame(fd, all, off, k, p)
  PROVE  \E m : Filtered(fd, n, all, off, k, p, m)
<1>1. PICK s : s = sent[fd]
  OBVIOUS
<1>2. /\ s \in Seq(Bytes) /\ Framed(s, all, off) /\ p \in 0..Len(all)
      /\ Reached(s, off, k, p) /\ stream[fd] = SubSeq(all, p + 1, Len(all))
      /\ Kept(fd, all, off, k, p) /\ Single(chain(fd))
  BY <1>1 DEF FrameInv, Frame
<1>3. /\ all \in Seq(Nat) /\ Len(all) \in Nat /\ Len(s) \in Nat
      /\ off \in [0..Len(s) -> Nat] /\ k \in 0..Len(s)
  BY <1>2 DEF Framed, Bytes, Reached
<1>4. PICK L, q : L = Len(all) /\ q = p + n
  OBVIOUS
<1>5. L \in Nat /\ p \in Nat /\ p <= L
  BY <1>2, <1>3, <1>4
<1>6. stream[fd] \in Seq(Nat) /\ Len(stream[fd]) = L - p
  <2>1. PICK x : x = p + 1
    OBVIOUS
  <2>2. x \in Nat \ {0} /\ x <= L + 1 /\ L - x + 1 = L - p
    BY <1>5, <2>1
  <2>3. stream[fd] = SubSeq(all, x, L) /\ L <= Len(all)
    BY <1>2, <1>4, <1>5, <2>1
  <2>4. stream[fd] \in Seq(Nat) /\ Len(stream[fd]) = L - x + 1
    BY <1>3, <1>5, <2>2, <2>3, Piece
  <2> QED BY <2>2, <2>4
<1>7. n \in Nat /\ 1 <= n /\ n <= L - p /\ q \in Nat /\ p < q /\ q <= L
  <2>1. n \in 1..(L - p)
    BY <1>6
  <2> QED BY <1>4, <1>5, <2>1
<1>8. q \in 0..Len(all)
  BY <1>4, <1>5, <1>7
<1>9. PICK m : Reached(s, off, m, q)
  BY <1>2, <1>8, ReachedExists
<1>10. k <= m /\ m \in 0..Len(s)
  <2>1. off[k] <= q
    <3>1. off[k] \in Nat /\ off[k] <= p
      BY <1>2, <1>3 DEF Reached
    <3> QED BY <1>5, <1>7, <3>1
  <2> QED BY <1>2, <1>3, <1>7, <1>9, <2>1, ReachedUnique DEF Reached
<1>11. SubSeq(stream[fd], 1, n) = SubSeq(all, p + 1, q)
  <2>1. PICK x : x = p + 1
    OBVIOUS
  <2>2. /\ x \in Nat \ {0} /\ x <= L + 1 /\ L <= Len(all)
        /\ 1 \in Nat \ {0} /\ 1 <= n + 1 /\ n <= L - x + 1
        /\ x + 1 - 1 = x /\ x + n - 1 = q
    BY <1>4, <1>5, <1>7, <2>1
  <2>3. SubSeq(SubSeq(all, x, L), 1, n) = SubSeq(all, x + 1 - 1, x + n - 1)
    BY <1>3, <1>5, <1>7, <2>2, PieceOfPiece
  <2> QED BY <1>2, <1>4, <2>1, <2>2, <2>3
<1>12. SubSeq(stream[fd], n + 1, Len(stream[fd])) = SubSeq(all, q + 1, L)
  <2>1. PICK x, c, d : x = p + 1 /\ c = n + 1 /\ d = L - p
    OBVIOUS
  <2>2. /\ x \in Nat \ {0} /\ x <= L + 1 /\ L <= Len(all)
        /\ c \in Nat \ {0} /\ d \in Nat /\ c <= d + 1 /\ d <= L - x + 1
        /\ x + c - 1 = q + 1 /\ x + d - 1 = L
    BY <1>4, <1>5, <1>7, <2>1
  <2>3. SubSeq(SubSeq(all, x, L), c, d) = SubSeq(all, x + c - 1, x + d - 1)
    BY <1>3, <1>5, <2>2, PieceOfPiece
  <2> QED BY <1>2, <1>4, <1>6, <2>1, <2>2, <2>3
<1>13. PICK r : r = [packs |-> SubSeq(s, k + 1, m),
                     uc |-> Left(s, all, off, m, q)]
  OBVIOUS
<1>14. filtered(fd, n) = r
  <2>1. CASE p = off[k]
    <3>1. \A x : x.id = fd => ~ On(chain(fd), x)
      BY <1>2, <2>1 DEF Kept
    <3>2. saved(fd) = {}
      <4>1. DOMAIN chain(fd) = 1..Len(chain(fd))
        BY <1>2 DEF Single
      <4> QED BY <3>1, <4>1 DEF saved, On
    <3>3. filtered(fd, n) = push_more(SubSeq(all, p + 1, q))
      BY <1>11, <3>2 DEF filtered, filter_data
    <3>4. off[k] <= q
      BY <1>5, <1>7, <2>1
    <3>5. push_more(SubSeq(all, off[k] + 1, q)) = r
      BY <1>2, <1>3, <1>8, <1>9, <1>13, <3>4, PushMore
    <3> QED BY <2>1, <3>3, <3>5
  <2>2. CASE p # off[k]
    <3>1. PICK u : u = Left(s, all, off, k, p)[1]
      OBVIOUS
    <3>2. On(chain(fd), [id |-> fd, uc |-> u])
      BY <1>1, <1>2, <2>2, <3>1 DEF Kept
    <3>3. PICK i \in 1..Len(chain(fd)) : chain(fd)[i] = [id |-> fd, uc |-> u]
      BY <3>2 DEF On
    <3>4. chain(fd)[i].id = fd /\ chain(fd)[i].uc = u
      BY <3>3
    <3>5. saved(fd) = {i}
      <4>1. DOMAIN chain(fd) = 1..Len(chain(fd))
        BY <1>2 DEF Single
      <4> QED BY <1>2, <3>4, <4>1 DEF saved, Single
    <3>6. Min(saved(fd)) = i
      <4>1. \E x \in {i} : \A y \in {i} : x =< y
        <5>1. i \in Nat
          BY <1>2 DEF Single
        <5> QED BY <5>1
      <4>2. (CHOOSE x \in {i} : \A y \in {i} : x =< y) = i
        BY <4>1
      <4> QED BY <3>5, <4>2 DEF Min
    <3>7. filtered(fd, n) = fill(u, SubSeq(all, p + 1, q))
      BY <1>11, <3>4, <3>5, <3>6 DEF filtered, filter_data
    <3>8. fill(u, SubSeq(all, p + 1, q)) = r
      BY <1>2, <1>7, <1>8, <1>9, <1>13, <2>2, <3>1, Fill
    <3> QED BY <3>7, <3>8
  <2> QED BY <2>1, <2>2
<1> QED BY <1>1, <1>2, <1>3, <1>4, <1>8, <1>9, <1>10, <1>12, <1>13, <1>14
        DEF Filtered

(* What handler.message gets are these packages, directly or through the   *)
(* ring, which is empty again.                                             *)
LEMMA Forwards ==
  ASSUME FrameInv, NEW fd \in Fds, NEW n,
         NEW packs \in Seq(Bytes), filtered(fd, n).packs = packs
  PROVE  forwarded(fd, n) = packs /\ Holds(emptied(pushed(filtered(fd, n))), <<>>)
<1>1. PICK r : r = filtered(fd, n)
  OBVIOUS
<1>2. r.packs = packs /\ Holds(ring, <<>>)
  BY <1>1 DEF FrameInv
<1>3. CASE one_package(r)
  <2>1. forwarded(fd, n) = packs
    BY <1>1, <1>2, <1>3 DEF forwarded
  <2>2. pushed(r) = ring
    BY <1>3 DEF pushed
  <2>3. Holds(emptied(ring), <<>>)
    BY <1>2, EmptiedHolds
  <2> QED BY <1>1, <2>1, <2>2, <2>3
<1>4. CASE ~ one_package(r)
  <2>1. pushed(r) = FoldLeft(push_data, ring, r.packs)
    BY <1>4 DEF pushed
  <2>2. PICK e : e = FoldLeft(push_data, ring, packs)
    OBVIOUS
  <2>3. pushed(r) = e
    <3>1. FoldLeft(push_data, ring, r.packs) = FoldLeft(push_data, ring, packs)
      BY <1>2 DEF FoldLeft, MapThenFoldSet
    <3> QED BY <2>1, <2>2, <3>1
  <2>4. popped(e) = packs /\ Holds(emptied(e), <<>>)
    BY <1>2, <2>2, RingExact
  <2>5. forwarded(fd, n) = popped(pushed(r))
    BY <1>1, <1>4 DEF forwarded
  <2> QED BY <1>1, <2>3, <2>4, <2>5
<1> QED BY <1>3, <1>4

(* What the chain of fd becomes does not touch what is kept of the others. *)
LEMMA OthersKept ==
  ASSUME FrameInv, NEW fd \in Fds, NEW new, Single(new),
         \A x : x.id # fd => (On(new, x) <=> On(chain(fd), x)),
         hash' = [hash EXCEPT ![hash_fd[fd]] = new]
  PROVE  /\ DOMAIN hash' = Range(hash_fd) /\ chain(fd)' = new
         /\ \A g \in Fds : Single(chain(g)')
         /\ \A g \in Fds : \A x : g # fd /\ x.id = g =>
                                    (On(chain(g)', x) <=> On(chain(g), x))
<1>1. /\ DOMAIN hash = Range(hash_fd)
      /\ \A g \in Fds : Single(chain(g)) /\ hash_fd[g] \in DOMAIN hash
  BY ChainThere DEF FrameInv
<1>2. chain(fd)' = new /\ DOMAIN hash' = Range(hash_fd)
  BY <1>1 DEF chain
<1>3. ASSUME NEW g \in Fds
      PROVE  /\ hash_fd[g] = hash_fd[fd] => chain(g)' = new /\ chain(g) = chain(fd)
             /\ hash_fd[g] # hash_fd[fd] => chain(g)' = chain(g)
  BY <1>1 DEF chain
<1>4. \A g \in Fds : Single(chain(g)')
  BY <1>1, <1>3
<1>5. ASSUME NEW g \in Fds, NEW x, g # fd, x.id = g
      PROVE  On(chain(g)', x) <=> On(chain(g), x)
  <2>1. CASE hash_fd[g] = hash_fd[fd]
    <3>1. x.id # fd
      BY <1>5
    <3>2. On(new, x) <=> On(chain(fd), x)
      BY <3>1
    <3> QED BY <1>3, <2>1, <3>2
  <2>2. CASE hash_fd[g] # hash_fd[fd]
    BY <1>3, <2>2
  <2> QED BY <2>1, <2>2
<1> QED BY <1>2, <1>4, <1>5

(* What is known of the framing of a connection stays when another is      *)
(* served.                                                                 *)
LEMMA FrameOthers ==
  ASSUME NEW g \in Fds, NEW all, NEW off, NEW k, NEW p,
         Frame(g, all, off, k, p), sent' = sent,
         stream'[g] = stream[g], got'[g] = got[g], g \in open' => g \in open,
         \A x : x.id = g => (On(chain(g)', x) <=> On(chain(g), x))
  PROVE  Frame(g, all, off, k, p)'
<1>1. ASSUME Kept(g, all, off, k, p) PROVE Kept(g, all, off, k, p)'
  <2>1. CASE p = off[k]
    <3>1. \A x : x.id = g => ~ On(chain(g), x)
      BY <1>1, <2>1 DEF Kept
    <3>2. \A x : x.id = g => ~ On(chain(g)', x)
      BY <3>1
    <3> QED BY <2>1, <3>2 DEF Kept
  <2>2. CASE p # off[k]
    <3>1. PICK u : u = Left(sent[g], all, off, k, p)[1]
      OBVIOUS
    <3>2. On(chain(g), [id |-> g, uc |-> u])
      BY <1>1, <2>2, <3>1 DEF Kept
    <3>3. PICK x : x = [id |-> g, uc |-> u]
      OBVIOUS
    <3>4. x.id = g
      BY <3>3
    <3>5. On(chain(g)', x)
      BY <3>2, <3>3, <3>4
    <3> QED BY <2>2, <3>1, <3>3, <3>5 DEF Kept
  <2> QED BY <2>1, <2>2
<1>2. /\ all = bytes(sent[g]) /\ Framed(sent[g], all, off)
      /\ p \in 0..Len(all) /\ Reached(sent[g], off, k, p)
      /\ stream[g] = SubSeq(all, p + 1, Len(all))
      /\ got[g] = SubSeq(sent[g], 1, k)
      /\ g \in open => Kept(g, all, off, k, p)
  BY DEF Frame
<1>3. (g \in open)' => Kept(g, all, off, k, p)'
  BY <1>1, <1>2
<1>4. /\ all = bytes(sent'[g]) /\ Framed(sent'[g], all, off)
      /\ p \in 0..Len(all) /\ Reached(sent'[g], off, k, p)
      /\ stream'[g] = SubSeq(all, p + 1, Len(all))
      /\ got'[g] = SubSeq(sent'[g], 1, k)
  BY <1>2
<1> QED BY <1>3, <1>4 DEF Frame

(* A SOCKET_DATA message of the gate preserves the framing of all          *)
(* connections.                                                            *)
LEMMA FrameGate ==
  ASSUME FrameInv, NEW fd \in Fds, NEW n \in 1..Len(stream[fd]), Gate(fd, n)
  PROVE  FrameInv'
<1>1. /\ fd \in open /\ sent' = sent /\ open' = open
      /\ hash' = [hash EXCEPT ![hash_fd[fd]] =
              [i \in DOMAIN filtered(fd, n).uc |->
                 [id |-> fd, uc |-> filtered(fd, n).uc[i]]] \o unlinked(fd)]
      /\ ring' = emptied(pushed(filtered(fd, n)))
      /\ stream' = [stream EXCEPT ![fd] = SubSeq(@, n + 1, Len(@))]
      /\ got' = [got EXCEPT ![fd] = @ \o forwarded(fd, n)]
  BY DEF Gate, SocketData
<1>2. PICK all, off, k, p : Frame(fd, all, off, k, p)
  BY DEF FrameInv
<1>3. PICK s, q : s = sent[fd] /\ q = p + n
  OBVIOUS
<1>4. PICK m : /\ q \in 0..Len(all) /\ Reached(s, off, m, q) /\ k <= m
               /\ m \in 0..Len(s) /\ k \in 0..Len(s)
               /\ filtered(fd, n) = [packs |-> SubSeq(s, k + 1, m),
                                     uc |-> Left(s, all, off, m, q)]
               /\ SubSeq(stream[fd], n + 1, Len(stream[fd]))
                    = SubSeq(all, q + 1, Len(all))
  <2>0. fd \in open /\ n \in 1..Len(stream[fd])
    BY <1>1
  <2>1. PICK m : Filtered(fd, n, all, off, k, p, m)
    BY <1>2, <2>0, Filters
  <2> QED BY <1>3, <2>1 DEF Filtered
<1>5. /\ s \in Seq(Bytes) /\ Len(s) \in Nat /\ Framed(s, all, off)
      /\ all = bytes(s) /\ got[fd] = SubSeq(s, 1, k)
  BY <1>2, <1>3 DEF Frame, FrameInv
<1>6. PICK packs, uc : packs = SubSeq(s, k + 1, m) /\ uc = Left(s, all, off, m, q)
  OBVIOUS
<1>7. packs \in Seq(Bytes)
  <2>1. PICK x : x = k + 1
    OBVIOUS
  <2>2. x \in Nat \ {0} /\ m \in Nat /\ x <= m + 1 /\ m <= Len(s)
    BY <1>4, <1>5, <2>1
  <2> QED BY <1>5, <1>6, <2>1, <2>2, Piece
<1>8. filtered(fd, n).packs = packs /\ filtered(fd, n).uc = uc
  BY <1>4, <1>6
<1>9. forwarded(fd, n) = packs /\ Holds(ring', <<>>)
  BY <1>1, <1>7, <1>8, Forwards
<1>10. got'[fd] = SubSeq(s, 1, m) /\ stream'[fd] = SubSeq(all, q + 1, Len(all))
       /\ DOMAIN got' = Fds /\ DOMAIN stream' = Fds
       /\ \A g \in Fds : g # fd => got'[g] = got[g] /\ stream'[g] = stream[g]
  <2>1. SubSeq(s, 1, k) \o SubSeq(s, k + 1, m) = SubSeq(s, 1, m)
    <3>1. 1 \in Nat \ {0} /\ k \in Nat /\ m \in Nat /\ 1 <= k + 1 /\ k <= m
          /\ m <= Len(s)
      BY <1>4, <1>5
    <3> QED BY <1>5, <3>1, PiecesJoin
  <2>2. DOMAIN got = Fds /\ DOMAIN stream = Fds
    BY DEF FrameInv
  <2> QED BY <1>1, <1>4, <1>5, <1>6, <1>9, <2>1, <2>2
<1>11. PICK u : u = unlinked(fd)
  OBVIOUS
<1>12. /\ Single(u) /\ \A i \in 1..Len(u) : u[i].id # fd
       /\ \A x : x.id # fd => (On(u, x) <=> On(chain(fd), x))
  BY <1>11, TakenOff DEF FrameInv
<1>13. PICK new : new = [i \in DOMAIN uc |-> [id |-> fd, uc |-> uc[i]]] \o u
  OBVIOUS
<1>14. /\ Single(new)
       /\ \A x : x.id # fd => (On(new, x) <=> On(chain(fd), x))
       /\ IF q = off[m] THEN \A x : x.id = fd => ~ On(new, x)
          ELSE On(new, [id |-> fd, uc |-> uc[1]])
  <2>1. CASE uc = <<>> /\ q = off[m]
    <3>1. [i \in DOMAIN uc |-> [id |-> fd, uc |-> uc[i]]] = <<>>
      BY <2>1
    <3>2. new = u
      <4>1. u \in Seq(Entries)
        BY <1>12 DEF Single
      <4> QED BY <1>13, <3>1, <4>1, ConcatEmptySeq
    <3>3. \A x : x.id = fd => ~ On(u, x)
      BY <1>12 DEF On
    <3> QED BY <1>12, <2>1, <3>2, <3>3
  <2>2. ASSUME NEW v \in Parcels, uc = <<v>>, q # off[m]
        PROVE  /\ Single(new)
               /\ \A x : x.id # fd => (On(new, x) <=> On(chain(fd), x))
               /\ On(new, [id |-> fd, uc |-> uc[1]])
    <3>1. PICK y : y = [id |-> fd, uc |-> v]
      OBVIOUS
    <3>2. y \in Entries /\ y.id = fd
      BY <3>1 DEF Entries
    <3>3. [i \in DOMAIN uc |-> [id |-> fd, uc |-> uc[i]]] = <<y>>
      <4>1. DOMAIN uc = 1..1 /\ uc[1] = v
        BY <2>2
      <4> QED BY <3>1, <4>1
    <3>4. new = <<y>> \o u
      BY <1>13, <3>3
    <3>5. Single(<<y>> \o u) /\ \A x : On(<<y>> \o u, x) <=> (x = y \/ On(u, x))
      BY <1>12, <3>2, PutOn
    <3>6. \A x : On(new, x) <=> (x = y \/ On(u, x))
      BY <3>4, <3>5
    <3>7. uc[1] = v
      BY <2>2
    <3> QED BY <1>12, <3>1, <3>2, <3>4, <3>5, <3>6, <3>7
  <2>3. (uc = <<>> /\ q = off[m]) \/ \E v \in Parcels : uc = <<v>> /\ q # off[m]
    BY <1>4, <1>5, <1>6, LeftParcel
  <2> QED BY <2>1, <2>2, <2>3
<1>15. hash' = [hash EXCEPT ![hash_fd[fd]] = new]
  BY <1>1, <1>8, <1>11, <1>13
<1>16. /\ DOMAIN hash' = Range(hash_fd) /\ chain(fd)' = new
       /\ \A g \in Fds : Single(chain(g)')
       /\ \A g \in Fds : \A x : g # fd /\ x.id = g =>
                                  (On(chain(g)', x) <=> On(chain(g), x))
  BY <1>14, <1>15, OthersKept
<1>17. Frame(fd, all, off, m, q)'
  <2>1. Kept(fd, all, off, m, q)'
    <3>1. CASE q = off[m]
      BY <1>14, <1>16, <3>1 DEF Kept
    <3>2. CASE q # off[m]
      <4>1. On(new, [id |-> fd, uc |-> uc[1]])
        BY <1>14, <3>2
      <4>2. uc = Left(sent'[fd], all, off, m, q)
        BY <1>1, <1>3, <1>6
      <4> QED BY <1>16, <3>2, <4>1, <4>2 DEF Kept
    <3> QED BY <3>1, <3>2
  <2>2. sent'[fd] = s
    BY <1>1, <1>3
  <2> QED BY <1>4, <1>5, <1>10, <2>1, <2>2 DEF Frame
<1>18. ASSUME NEW g \in Fds PROVE \E a, o, i, j : Frame(g, a, o, i, j)'
  <2>1. CASE g = fd
    BY <1>17, <2>1
  <2>2. CASE g # fd
    <3>1. PICK a, o, i, j : Frame(g, a, o, i, j)
      BY DEF FrameInv
    <3>2. \A x : x.id = g => (On(chain(g)', x) <=> On(chain(g), x))
      BY <1>16, <2>2
    <3>3. stream'[g] = stream[g] /\ got'[g] = got[g] /\ (g \in open' => g \in open)
      BY <1>1, <1>10, <2>2
    <3>4. Frame(g, a, o, i, j)'
      BY <1>1, <2>2, <3>1, <3>2, <3>3, FrameOthers
    <3> QED BY <3>4
  <2> QED BY <2>1, <2>2
<1>19. sent' \in [Fds -> Seq(Bytes)]
  BY <1>1 DEF FrameInv
<1> QED BY <1>9, <1>10, <1>16, <1>18, <1>19 DEF FrameInv

(* netpack.clear and the closing of a connection preserve it: nothing more *)
(* is kept of it.                                                          *)
LEMMA FrameClose ==
  ASSUME FrameInv, NEW fd \in Fds, SocketClose(fd), UNCHANGED <<sent, got>>
  PROVE  FrameInv'
<1>1. PICK u : u = unlinked(fd)
  OBVIOUS
<1>2. /\ open' = open \ {fd} /\ hash' = [hash EXCEPT ![hash_fd[fd]] = u]
      /\ stream' = stream /\ ring' = ring /\ sent' = sent /\ got' = got
  BY <1>1 DEF SocketClose
<1>3. Single(u) /\ \A x : x.id # fd => (On(u, x) <=> On(chain(fd), x))
  BY <1>1, TakenOff DEF FrameInv
<1>4. /\ DOMAIN hash' = Range(hash_fd) /\ chain(fd)' = u
      /\ \A g \in Fds : Single(chain(g)')
      /\ \A g \in Fds : \A x : g # fd /\ x.id = g =>
                                 (On(chain(g)', x) <=> On(chain(g), x))
  BY <1>2, <1>3, OthersKept
<1>5. ASSUME NEW g \in Fds PROVE \E a, o, i, j : Frame(g, a, o, i, j)'
  <2>1. PICK a, o, i, j : Frame(g, a, o, i, j)
    BY DEF FrameInv
  <2>2. CASE g = fd
    <3>1. g \notin open'
      BY <1>2, <2>2
    <3>2. Frame(g, a, o, i, j)'
      BY <1>2, <2>1, <3>1 DEF Frame
    <3> QED BY <3>2
  <2>3. CASE g # fd
    <3>1. \A x : x.id = g => (On(chain(g)', x) <=> On(chain(g), x))
      BY <1>4, <2>3
    <3>2. Frame(g, a, o, i, j)'
      BY <1>2, <2>1, <2>3, <3>1, FrameOthers
    <3> QED BY <3>2
  <2> QED BY <2>2, <2>3
<1> QED BY <1>2, <1>4, <1>5 DEF FrameInv

(* Every step preserves the framing.                                       *)
LEMMA FrameNext == FrameInv /\ [Next]_vars => FrameInv'
<1> SUFFICES ASSUME FrameInv, [Next]_vars PROVE FrameInv'
  OBVIOUS
<1>1. ASSUME UNCHANGED <<netpackVars, sent, got>> PROVE FrameInv'
  <2>1. /\ stream' = stream /\ hash' = hash /\ ring' = ring /\ open' = open
        /\ sent' = sent /\ got' = got
    BY <1>1 DEF netpackVars
  <2>2. \A g : chain(g)' = chain(g)
    BY <2>1 DEF chain
  <2>3. ASSUME NEW g \in Fds PROVE \E a, o, i, j : Frame(g, a, o, i, j)'
    <3>1. PICK a, o, i, j : Frame(g, a, o, i, j)
      BY DEF FrameInv
    <3>2. Frame(g, a, o, i, j)'
      BY <2>1, <2>2, <3>1 DEF Frame, Kept
    <3> QED BY <3>2
  <2> QED BY <2>1, <2>2, <2>3 DEF FrameInv
<1>2. ASSUME NEW fd \in Fds, NEW n \in 1..Len(stream[fd]), Gate(fd, n)
      PROVE  FrameInv'
  BY <1>2, FrameGate
<1>3. ASSUME NEW fd \in Fds, SocketClose(fd), UNCHANGED <<sessionVars, sent, got>>
      PROVE  FrameInv'
  BY <1>3, FrameClose
<1>4. CASE UNCHANGED vars
  BY <1>1, <1>4 DEF vars
<1> QED BY <1>1, <1>2, <1>3, <1>4 DEF Next

(* In every reachable state the gate has forwarded the packages that have  *)
(* come whole, and keeps what has come of the next one (lua-netpack.c,     *)
(* filter_data).                                                           *)
THEOREM Frames == Spec => []FrameInv
<1> QED BY FrameInit, FrameNext, PTL DEF Spec
-----------------------------------------------------------------------------
(* Nothing else than the whole packages the gate has read is forwarded.    *)

(* The bytes of all the packages but the first j.                          *)
LEMMA BytesAfter ==
  ASSUME NEW s \in Seq(Bytes), NEW all, NEW off, Framed(s, all, off),
         NEW j \in 0..Len(s)
  PROVE  Len(FlattenSeq([i \in 1..(Len(s) - j) |-> encode(s[j + i])]))
           = Len(all) - off[j]
<1>1. PICK n : n = Len(s)
  OBVIOUS
<1>2. n \in Nat /\ j \in 0..n /\ off \in [0..n -> Nat] /\ Len(all) = off[n]
  BY <1>1 DEF Framed
<1>3. PICK t : t = [i \in 1..(n - j) |-> s[j + i]]
  OBVIOUS
<1>4. /\ t \in Seq(Bytes) /\ Len(t) = n - j /\ n - j \in Nat
      /\ \A i \in 1..(n - j) : t[i] = s[j + i] /\ j + i \in 1..n
  <2>1. n - j \in Nat /\ \A i \in 1..(n - j) : j + i \in 1..n
    BY <1>2
  <2>2. \A i \in 1..(n - j) : s[j + i] \in Bytes
    BY <1>1, <2>1
  <2>3. t \in [1..(n - j) -> Bytes]
    BY <1>3, <2>2
  <2>4. t \in Seq(Bytes) /\ Len(t) = n - j
    BY <2>1, <2>3
  <2> QED BY <1>3, <2>1, <2>4
<1>5. bytes(t) = FlattenSeq([i \in 1..(n - j) |-> encode(s[j + i])])
  <2>1. DOMAIN t = 1..(n - j)
    BY <1>3
  <2>2. PICK a, b : /\ a = [i \in DOMAIN t |-> encode(t[i])]
                    /\ b = [i \in 1..(n - j) |-> encode(s[j + i])]
    OBVIOUS
  <2>3. a = b
    BY <1>4, <2>1, <2>2
  <2>4. bytes(t) = FlattenSeq(a)
    BY <2>2 DEF bytes
  <2> QED BY <2>2, <2>3, <2>4
<1>6. PICK ends : Framed(t, bytes(t), ends)
  BY <1>4, StreamFramed
<1>7. /\ ends \in [0..(n - j) -> Nat] /\ ends[0] = 0
      /\ \A i \in 1..(n - j) : ends[i] = ends[i - 1] + 2 + Len(t[i])
      /\ Len(bytes(t)) = ends[n - j]
  BY <1>4, <1>6 DEF Framed
<1> DEFINE G == {i \in Nat : i <= n - j => ends[i] = off[j + i] - off[j]}
<1>8. 0 \in G
  <2>1. j + 0 = j /\ off[j] \in Nat
    BY <1>2
  <2>2. ends[0] = off[j + 0] - off[j]
    BY <1>7, <2>1
  <2> QED BY <2>2
<1>9. ASSUME NEW i \in 0..((n - j) - 1), i \in G PROVE i + 1 \in G
  <2>1. PICK x, y : x = i + 1 /\ y = j + x
    OBVIOUS
  <2>2. /\ i \in Nat /\ i <= n - j /\ x \in 1..(n - j) /\ x - 1 = i /\ x \in Nat
        /\ y \in 1..n /\ y - 1 = j + i /\ j + i \in 0..n
    BY <1>2, <1>4, <2>1
  <2>3. ends[i] = off[j + i] - off[j]
    BY <1>9, <2>2
  <2>4. ends[x] = ends[i] + 2 + Len(t[x]) /\ t[x] = s[y]
    BY <1>4, <1>7, <2>1, <2>2
  <2>5. off[y] = off[j + i] + 2 + Len(s[y])
    BY <1>1, <2>2 DEF Framed
  <2>6. Len(s[y]) \in Nat
    <3>1. s[y] \in Seq(Nat)
      BY <1>1, <2>2 DEF Bytes
    <3> QED BY <3>1
  <2>7. off[j + i] \in Nat /\ off[j] \in Nat
    BY <1>2, <2>2
  <2>8. ends[x] = off[y] - off[j]
    <3>1. PICK a, b, c, l : a = off[j + i] /\ b = off[j] /\ l = Len(s[y])
                            /\ c = off[y]
      OBVIOUS
    <3>2. a \in Nat /\ b \in Nat /\ l \in Nat /\ c = a + 2 + l
          /\ ends[x] = (a - b) + 2 + l
      BY <2>3, <2>4, <2>5, <2>6, <2>7, <3>1
    <3>3. (a - b) + 2 + l = c - b
      BY <3>2
    <3> QED BY <3>1, <3>2, <3>3
  <2> QED BY <2>1, <2>2, <2>8
<1>10. 0..(n - j) \subseteq G
  <2> HIDE DEF G
  <2> QED BY <1>4, <1>8, <1>9, InductionTo
<1>11. ends[n - j] = off[j + (n - j)] - off[j] /\ j + (n - j) = n
  BY <1>2, <1>4, <1>10
<1> QED BY <1>1, <1>2, <1>5, <1>7, <1>11

(* The framing invariant says that the packages forwarded are those whose  *)
(* last byte has come.                                                     *)
LEMMA FramesExact == FrameInv => FramingExact
<1> SUFFICES ASSUME FrameInv, NEW fd \in Fds
             PROVE  LET left  == Len(stream[fd])
                        all   == Len(sent[fd])
                        tail(k) == FlattenSeq([i \in 1..(all - k) |->
                                                 encode(sent[fd][k + i])])
                        whole == {k \in 0..all : Len(tail(k)) >= left}
                    IN  got[fd] = SubSeq(sent[fd], 1, Max(whole))
  BY DEF FramingExact
<1>1. PICK all, off, k, p : Frame(fd, all, off, k, p)
  BY DEF FrameInv
<1>2. PICK s, n, L : s = sent[fd] /\ n = Len(s) /\ L = Len(all)
  OBVIOUS
<1>3. /\ s \in Seq(Bytes) /\ Framed(s, all, off) /\ p \in 0..L
      /\ Reached(s, off, k, p) /\ stream[fd] = SubSeq(all, p + 1, L)
      /\ got[fd] = SubSeq(s, 1, k)
  BY <1>1, <1>2 DEF Frame, FrameInv
<1>4. n \in Nat /\ L \in Nat /\ p \in Nat /\ p <= L /\ k \in 0..n
      /\ off \in [0..n -> Nat] /\ all \in Seq(Nat)
  BY <1>2, <1>3 DEF Framed, Bytes, Reached
<1>5. Len(stream[fd]) = L - p
  <2>1. PICK x : x = p + 1
    OBVIOUS
  <2>2. x \in Nat \ {0} /\ x <= L + 1 /\ L - x + 1 = L - p /\ L <= Len(all)
    BY <1>2, <1>4, <2>1
  <2>3. stream[fd] = SubSeq(all, x, L)
    BY <1>3, <2>1
  <2>4. Len(stream[fd]) = L - x + 1
    BY <1>4, <2>2, <2>3, Piece
  <2> QED BY <2>2, <2>4
<1> DEFINE tail(j) == FlattenSeq([i \in 1..(n - j) |-> encode(s[j + i])])
           whole == {j \in 0..n : Len(tail(j)) >= L - p}
<1>6. ASSUME NEW j \in 0..n PROVE Len(tail(j)) = L - off[j]
  <2>1. s \in Seq(Bytes) /\ Framed(s, all, off) /\ j \in 0..Len(s)
    BY <1>2, <1>3
  <2>2. Len(FlattenSeq([i \in 1..(Len(s) - j) |-> encode(s[j + i])]))
          = Len(all) - off[j]
    BY <2>1, BytesAfter
  <2> QED BY <1>2, <2>2
<1>7. whole = {j \in 0..n : off[j] <= p}
  <2>1. ASSUME NEW j \in 0..n PROVE Len(tail(j)) >= L - p <=> off[j] <= p
    <3>1. PICK o, l : o = off[j] /\ l = Len(tail(j))
      OBVIOUS
    <3>2. o \in Nat /\ l = L - o
      BY <1>4, <1>6, <3>1
    <3>3. l >= L - p <=> o <= p
      BY <1>4, <3>2
    <3> HIDE DEF tail
    <3> QED BY <3>1, <3>3
  <2> HIDE DEF tail
  <2> QED BY <2>1
<1>8. k \in whole /\ \A j \in whole : j <= k
  <2>1. k \in 0..n /\ off[k] <= p
    BY <1>4, <1>3 DEF Reached
  <2>2. \A j \in 0..n : off[j] <= p => j <= k
    BY <1>2, <1>3, <1>4, ReachedUnique
  <2> HIDE DEF whole
  <2> QED BY <1>7, <2>1, <2>2
<1>9. Max(whole) = k
  <2>1. \A j \in whole : j \in Nat
    BY <1>4
  <2> HIDE DEF whole
  <2>2. k \in whole /\ \A j \in whole : k >= j
    BY <1>8, <2>1
  <2>3. PICK x : x = Max(whole)
    OBVIOUS
  <2>4. x \in whole /\ \A j \in whole : x >= j
    BY <2>2, <2>3 DEF Max
  <2>5. x >= k /\ k >= x /\ x \in Nat /\ k \in Nat
    BY <2>1, <2>2, <2>4
  <2> QED BY <2>3, <2>5
<1>10. whole = {j \in 0..Len(sent[fd]) :
                  Len(FlattenSeq([i \in 1..(Len(sent[fd]) - j) |->
                                    encode(sent[fd][j + i])]))
                    >= Len(stream[fd])}
  BY <1>2, <1>5
<1> HIDE DEF whole
<1> QED BY <1>2, <1>3, <1>9, <1>10

(* However the bytes of a connection are cut and mixed with those of the   *)
(* others, the gate forwards exactly the packages whose last byte has come *)
(* (FramingExact).                                                         *)
THEOREM FramingIsExact == Spec => []FramingExact
<1> QED BY Frames, FramesExact, PTL
-----------------------------------------------------------------------------
(* The session of the agent. reading(s)[i] is what can be read of the      *)
(* first i packages of s.                                                  *)
reading(s) ==
  LET first[i \in 0..Len(s)] ==
        IF i = 0 THEN <<>>
        ELSE IF Kind(s[i]) = "garbled" THEN first[i - 1]
        ELSE Append(first[i - 1], s[i])
  IN  first

Places == {"mail", "wait", "in", "call", "back", "end"}
Messages == [type : {"client", "response", "error"}, session : Nat]

SessionType ==
  /\ arrived \in Seq(Bytes) /\ Len(at) = Len(arrived) /\ at \in Seq(Places)
  /\ mailbox \in Seq(Messages)
  /\ current_thread \in 0..Len(arrived)
  /\ thread_queue \in Seq(1..Len(arrived)) /\ ref \in {0, 1}
  /\ wakeup_session \subseteq 1..Len(arrived)
  /\ error_queue \in Seq(1..Len(arrived))
  /\ phase \in {"idle", "run", "wake"}

(* The packages arrive in the order they are sent, and their messages are  *)
(* in this order in the mailbox, one for each package not yet dispatched.  *)
Mail ==
  /\ arrived = got[Me]
  /\ \A i \in 1..Len(mailbox) : mailbox[i].type = "client" =>
       /\ mailbox[i].session \in 1..Len(arrived)
       /\ at[mailbox[i].session] = "mail"
  /\ \A i, j \in 1..Len(mailbox) :
       mailbox[i].type = "client" /\ mailbox[j].type = "client" /\ i < j
         => mailbox[i].session < mailbox[j].session
  /\ \A n \in 1..Len(arrived) : at[n] = "mail" =>
       \E i \in 1..Len(mailbox) :
         mailbox[i].type = "client" /\ mailbox[i].session = n
  /\ \A m, n \in 1..Len(arrived) : at[m] # "mail" /\ at[n] = "mail" => m < n

(* The coroutine that calls has one answer at most.                        *)
Answers ==
  /\ \A i \in 1..Len(mailbox) : mailbox[i].type # "client" =>
       /\ mailbox[i].session = current_thread /\ current_thread # 0
       /\ at[current_thread] = "call" /\ error_queue = <<>>
  /\ \A i, j \in 1..Len(mailbox) :
       mailbox[i].type # "client" /\ mailbox[j].type # "client" => i = j
  /\ error_queue # <<>> =>
       /\ error_queue = <<current_thread>> /\ current_thread # 0
       /\ at[current_thread] = "call"

(* Who waits for the turn, and who has it.                                 *)
Line ==
  /\ \A n \in 1..Len(arrived) :
       /\ at[n] \in {"in", "call", "back"} => n = current_thread
       /\ at[n] = "wait" => n = current_thread
                            \/ \E i \in 1..Len(thread_queue) : thread_queue[i] = n
       /\ at[n] \notin {"mail", "end"} => Kind(arrived[n]) # "garbled"
       /\ n < current_thread => at[n] = "end"
  /\ \A i \in 1..Len(thread_queue) :
       at[thread_queue[i]] = "wait" /\ current_thread < thread_queue[i]
  /\ \A i, j \in 1..Len(thread_queue) :
       i < j => thread_queue[i] < thread_queue[j]

Turn ==
  /\ current_thread = 0 => ref = 0 /\ thread_queue = <<>> /\ wakeup_session = {}
  /\ current_thread # 0 =>
       IF at[current_thread] = "wait"
       THEN wakeup_session = {current_thread} /\ ref = 0
       ELSE /\ at[current_thread] \in {"in", "call", "back"}
            /\ wakeup_session = {} /\ ref = 1

(* The coroutine that runs is the one that has the turn.                   *)
Runs ==
  IF phase = "run"
  THEN /\ running = current_thread /\ current_thread # 0
       /\ at[current_thread] \in {"in", "back"}
  ELSE \A n \in 1..Len(arrived) : at[n] \notin {"in", "back"}

(* What has been handled is what can be read of the first h packages.      *)
Handles ==
  \E h \in 0..Len(arrived) :
    /\ log = reading(sent[Me])[h]
    /\ \A n \in 1..Len(arrived) :
         IF n <= h THEN at[n] = "end"
         ELSE at[n] = "end" => Kind(arrived[n]) = "garbled"
    /\ current_thread # 0 => h < current_thread

SessionInv ==
  SessionType /\ Mail /\ Answers /\ Line /\ Turn /\ Runs /\ Handles
-----------------------------------------------------------------------------
(* What of a sequence of packages can be read, package by package.         *)
Reads(s, f) ==
  /\ f \in [0..Len(s) -> Seq(Bytes)] /\ f[0] = <<>>
  /\ \A i \in 1..Len(s) : f[i] = IF Kind(s[i]) = "garbled" THEN f[i - 1]
                                 ELSE Append(f[i - 1], s[i])

(* The packages that can be read, up to package n.                         *)
LEMMA ReadsTo ==
  ASSUME NEW s \in Seq(Bytes), NEW n \in 0..Len(s)
  PROVE  \E f : /\ f \in [0..n -> Seq(Bytes)] /\ f[0] = <<>>
                /\ \A i \in 1..n : f[i] = IF Kind(s[i]) = "garbled"
                                          THEN f[i - 1]
                                          ELSE Append(f[i - 1], s[i])
<1> DEFINE Good(f, k) ==
             /\ f \in [0..k -> Seq(Bytes)] /\ f[0] = <<>>
             /\ \A i \in 1..k : f[i] = IF Kind(s[i]) = "garbled" THEN f[i - 1]
                                       ELSE Append(f[i - 1], s[i])
           G == {k \in Nat : k <= Len(s) => \E f : Good(f, k)}
<1>1. Len(s) \in Nat /\ n \in Nat
  OBVIOUS
<1>2. 0 \in G
  <2>1. PICK f : f = [i \in 0..0 |-> <<>>]
    OBVIOUS
  <2>2. Good(f, 0)
    BY <2>1
  <2> QED BY <2>2
<1>3. ASSUME NEW k \in 0..(n - 1), k \in G PROVE k + 1 \in G
  <2>1. k \in Nat /\ k <= Len(s) /\ k + 1 \in 1..Len(s) /\ k + 1 \in Nat
        /\ (k + 1) - 1 = k /\ k \in 0..k
    BY <1>1
  <2>2. PICK f : Good(f, k)
    BY <1>3, <2>1
  <2>3. PICK e : e = IF Kind(s[k + 1]) = "garbled" THEN f[k]
                     ELSE Append(f[k], s[k + 1])
    OBVIOUS
  <2>4. e \in Seq(Bytes)
    <3>1. f[k] \in Seq(Bytes) /\ s[k + 1] \in Bytes
      BY <2>1, <2>2
    <3>2. Append(f[k], s[k + 1]) \in Seq(Bytes)
      BY <3>1, AppendProperties
    <3> QED BY <2>3, <3>1, <3>2
  <2>5. PICK g : g = [i \in 0..(k + 1) |-> IF i = k + 1 THEN e ELSE f[i]]
    OBVIOUS
  <2>6. \A i \in 0..k : g[i] = f[i] /\ f[i] \in Seq(Bytes)
    <3>1. \A i \in 0..k : i \in 0..(k + 1) /\ i # k + 1
      BY <2>1
    <3> QED BY <2>2, <2>5, <3>1
  <2>7. g[k + 1] = e
    BY <2>1, <2>5
  <2>8. g \in [0..(k + 1) -> Seq(Bytes)] /\ g[0] = <<>>
    <3>1. \A i \in 0..(k + 1) : i \in 0..k \/ i = k + 1
      BY <2>1
    <3>2. \A i \in 0..(k + 1) : g[i] \in Seq(Bytes)
      BY <2>4, <2>6, <2>7, <3>1
    <3>3. 0 \in 0..k
      BY <2>1
    <3> QED BY <2>2, <2>5, <2>6, <3>2, <3>3
  <2>9. ASSUME NEW i \in 1..(k + 1)
        PROVE  g[i] = IF Kind(s[i]) = "garbled" THEN g[i - 1]
                      ELSE Append(g[i - 1], s[i])
    <3>1. CASE i = k + 1
      <4>1. g[i - 1] = f[k]
        BY <2>1, <2>6, <3>1
      <4> QED BY <2>3, <2>7, <3>1, <4>1
    <3>2. CASE i \in 1..k
      <4>1. g[i] = f[i] /\ g[i - 1] = f[i - 1]
        <5>1. i \in 0..k /\ i - 1 \in 0..k
          BY <2>1, <3>2
        <5> QED BY <2>6, <5>1
      <4> QED BY <2>2, <3>2, <4>1
    <3> QED BY <2>1, <3>1, <3>2
  <2>10. Good(g, k + 1)
    BY <2>8, <2>9
  <2> HIDE DEF Good
  <2> QED BY <2>1, <2>10
<1>4. 0..n \subseteq G
  <2> HIDE DEF G
  <2> QED BY <1>1, <1>2, <1>3, InductionTo
<1>5. n \in 0..n /\ n <= Len(s)
  BY <1>1
<1>6. n \in G
  <2> HIDE DEF G
  <2> QED BY <1>4, <1>5
<1>7. \E f : Good(f, n)
  <2> HIDE DEF Good
  <2> QED BY <1>5, <1>6
<1> QED BY <1>7

(* reading(s) is defined by its recursion, and readable(s) is its last     *)
(* value.                                                                  *)
LEMMA ReadingReads ==
  ASSUME NEW s \in Seq(Bytes)
  PROVE  Reads(s, reading(s)) /\ readable(s) = reading(s)[Len(s)]
<1> DEFINE F == CHOOSE f : f = [i \in 0..Len(s) |->
                              IF i = 0 THEN <<>>
                              ELSE IF Kind(s[i]) = "garbled" THEN f[i - 1]
                              ELSE Append(f[i - 1], s[i])]
<1>1. Len(s) \in Nat /\ Len(s) \in 0..Len(s)
  OBVIOUS
<1>2. PICK f : /\ f \in [0..Len(s) -> Seq(Bytes)] /\ f[0] = <<>>
               /\ \A i \in 1..Len(s) : f[i] = IF Kind(s[i]) = "garbled"
                                              THEN f[i - 1]
                                              ELSE Append(f[i - 1], s[i])
  BY <1>1, ReadsTo
<1>3. f = [i \in 0..Len(s) |->
                              IF i = 0 THEN <<>>
                              ELSE IF Kind(s[i]) = "garbled" THEN f[i - 1]
                              ELSE Append(f[i - 1], s[i])]
  <2>1. \A i \in 0..Len(s) : f[i] = IF i = 0 THEN <<>>
                              ELSE IF Kind(s[i]) = "garbled" THEN f[i - 1]
                              ELSE Append(f[i - 1], s[i])
    <3>1. \A i \in 0..Len(s) : i = 0 \/ (i \in 1..Len(s) /\ i # 0)
      BY <1>1
    <3> QED BY <1>2, <3>1
  <2> QED BY <1>2, <2>1
<1>4. F = [i \in 0..Len(s) |->
                              IF i = 0 THEN <<>>
                              ELSE IF Kind(s[i]) = "garbled" THEN F[i - 1]
                              ELSE Append(F[i - 1], s[i])]
  BY <1>3
<1>5. reading(s) = F
  BY DEF reading
<1>6. readable(s) = F[Len(s)]
  BY DEF readable
<1> HIDE DEF F
<1> DEFINE G == {k \in Nat : k <= Len(s) => F[k] = f[k]}
<1>7. 0 \in G
  <2>1. 0 \in 0..Len(s)
    BY <1>1
  <2>2. F[0] = <<>>
    BY <1>4, <2>1
  <2> QED BY <1>2, <2>2
<1>8. ASSUME NEW k \in 0..(Len(s) - 1), k \in G PROVE k + 1 \in G
  <2>1. k \in Nat /\ k <= Len(s) /\ k + 1 \in 1..Len(s) /\ k + 1 \in 0..Len(s)
        /\ (k + 1) - 1 = k /\ k + 1 # 0 /\ k + 1 \in Nat
    BY <1>1
  <2>2. F[k] = f[k]
    BY <1>8, <2>1
  <2>3. PICK j : j = k + 1
    OBVIOUS
  <2>4. j \in 1..Len(s) /\ j \in 0..Len(s) /\ j - 1 = k /\ j # 0
    BY <2>1, <2>3
  <2>5. F[j] = IF Kind(s[j]) = "garbled" THEN F[j - 1]
               ELSE Append(F[j - 1], s[j])
    BY <1>4, <2>4
  <2>6. f[j] = IF Kind(s[j]) = "garbled" THEN f[j - 1]
               ELSE Append(f[j - 1], s[j])
    BY <1>2, <2>4
  <2>7. F[j] = f[j]
    BY <2>2, <2>4, <2>5, <2>6
  <2> QED BY <2>1, <2>3, <2>7
<1>9. 0..Len(s) \subseteq G
  <2> HIDE DEF G
  <2> QED BY <1>1, <1>7, <1>8, InductionTo
<1>10. F = f
  <2>1. \A k \in 0..Len(s) : k \in Nat /\ k <= Len(s)
    BY <1>1
  <2>2. \A k \in 0..Len(s) : F[k] = f[k]
    BY <1>9, <2>1
  <2> QED BY <1>2, <1>4, <2>2
<1> QED BY <1>2, <1>5, <1>6, <1>10 DEF Reads

(* What is read only grows.                                                *)
LEMMA ReadsGrow ==
  ASSUME NEW s \in Seq(Bytes), NEW f, Reads(s, f),
         NEW i \in 0..Len(s), NEW j \in 0..Len(s), i <= j
  PROVE  /\ f[i] \in Seq(Bytes) /\ f[j] \in Seq(Bytes) /\ Len(f[i]) <= Len(f[j])
         /\ \A x \in 1..Len(f[i]) : f[j][x] = f[i][x]
<1>1. /\ Len(s) \in Nat /\ i \in Nat /\ j \in Nat /\ j <= Len(s)
      /\ \A k \in 0..Len(s) : f[k] \in Seq(Bytes)
  <2>1. Len(s) \in Nat
    OBVIOUS
  <2>2. i \in Nat /\ j \in Nat /\ j <= Len(s)
    BY <2>1
  <2>3. f \in [0..Len(s) -> Seq(Bytes)]
    BY DEF Reads
  <2> QED BY <2>1, <2>2, <2>3
<1> DEFINE P(k) == /\ Len(f[i]) <= Len(f[k])
                   /\ \A x \in 1..Len(f[i]) : f[k][x] = f[i][x]
           G == {k \in Nat : i <= k /\ k <= Len(s) => P(k)}
<1>2. \A k \in 0..Len(s) : Len(f[k]) \in Nat
  BY <1>1
<1>3. 0 \in G
  <2>1. SUFFICES ASSUME i <= 0 PROVE P(0)
    OBVIOUS
  <2>2. i = 0
    BY <1>1, <2>1
  <2> QED BY <1>2, <2>2
<1>4. ASSUME NEW k \in 0..(j - 1), k \in G PROVE k + 1 \in G
  <2>1. SUFFICES ASSUME i <= k + 1, k + 1 <= Len(s) PROVE P(k + 1)
    <3>1. k + 1 \in Nat
      BY <1>1
    <3> HIDE DEF P
    <3> QED BY <3>1
  <2>2. PICK m : m = k + 1
    OBVIOUS
  <2>3. /\ k \in Nat /\ m \in 1..Len(s) /\ m - 1 = k /\ k \in 0..Len(s)
        /\ m \in 0..Len(s) /\ k <= Len(s) /\ (i = m \/ i <= k)
    BY <1>1, <2>1, <2>2
  <2>4. CASE i = m
    BY <1>2, <2>2, <2>4
  <2>5. CASE i <= k
    <3>1. P(k)
      BY <1>4, <2>3, <2>5
    <3>2. f[m] = f[k] \/ f[m] = Append(f[k], s[m])
      BY <2>3 DEF Reads
    <3>3. CASE f[m] = f[k]
      BY <2>2, <3>1, <3>3
    <3>4. CASE f[m] = Append(f[k], s[m])
      <4>1. f[k] \in Seq(Bytes) /\ s[m] \in Bytes /\ Len(f[k]) \in Nat
        BY <1>1, <2>3
      <4>2. Len(f[m]) = Len(f[k]) + 1 /\ \A x \in 1..Len(f[k]) : f[m][x] = f[k][x]
        BY <3>4, <4>1, AppendProperties
      <4>3. Len(f[i]) <= Len(f[m])
        BY <1>2, <3>1, <4>1, <4>2
      <4>4. ASSUME NEW x \in 1..Len(f[i]) PROVE f[m][x] = f[i][x]
        <5>1. x \in 1..Len(f[k])
          BY <1>2, <3>1, <4>1
        <5> QED BY <3>1, <4>2, <5>1
      <4> QED BY <2>2, <4>3, <4>4
    <3> QED BY <3>2, <3>3, <3>4
  <2> QED BY <2>3, <2>4, <2>5
<1>5. 0..j \subseteq G
  <2> HIDE DEF G
  <2> QED BY <1>1, <1>3, <1>4, InductionTo
<1> QED BY <1>1, <1>5

(* The packages that have arrived are the first that were sent.            *)
LEMMA ArrivedAsSent ==
  ASSUME FrameInv, arrived = got[Me]
  PROVE  /\ sent[Me] \in Seq(Bytes) /\ Len(arrived) \in Nat
         /\ Len(arrived) <= Len(sent[Me])
         /\ \A n \in 1..Len(arrived) : arrived[n] = sent[Me][n]
<1>1. Me \in Fds
  BY StreamAssumption
<1>2. PICK s : s = sent[Me]
  OBVIOUS
<1>3. PICK all, off, k, p : Frame(Me, all, off, k, p)
  BY <1>1 DEF FrameInv
<1>4. s \in Seq(Bytes) /\ arrived = SubSeq(s, 1, k) /\ k \in 0..Len(s)
  BY <1>1, <1>2, <1>3 DEF FrameInv, Frame, Reached
<1>5. Len(s) \in Nat /\ k \in Nat /\ k <= Len(s)
  BY <1>4
<1>6. \A n \in 1..k : s[n] \in Bytes
  BY <1>4, <1>5
<1>7. /\ Len(arrived) = IF 1 <= k THEN k - 1 + 1 ELSE 0
      /\ \A n \in 1..(k - 1 + 1) : arrived[n] = s[1 + n - 1]
  BY <1>4, <1>5, <1>6, SubSeqProperties
<1>8. Len(arrived) = k
  BY <1>5, <1>7
<1>9. \A n \in 1..k : n \in 1..(k - 1 + 1) /\ 1 + n - 1 = n
  BY <1>5
<1> QED BY <1>2, <1>4, <1>5, <1>7, <1>8, <1>9

(* Where the coroutines are when one of them moves.                        *)
LEMMA Moves ==
  ASSUME SessionType, NEW n \in 1..Len(arrived), NEW x \in Places,
         at' = [at EXCEPT ![n] = x]
  PROVE  /\ Len(at') = Len(arrived) /\ at' \in Seq(Places)
         /\ \A j \in 1..Len(arrived) : at'[j] = IF j = n THEN x ELSE at[j]
<1>1. at \in Seq(Places) /\ n \in 1..Len(at) /\ Len(at) = Len(arrived)
  BY DEF SessionType
<1> QED BY <1>1, ExceptSeq

(* The first message is taken from the mailbox.                            *)
LEMMA Takes ==
  ASSUME NEW S, NEW m \in Seq(S), m # <<>>
  PROVE  /\ Head(m) = m[1] /\ 1 \in 1..Len(m) /\ m[1] \in S
         /\ Tail(m) \in Seq(S) /\ Len(Tail(m)) = Len(m) - 1
         /\ \A i \in 1..Len(Tail(m)) : Tail(m)[i] = m[i + 1] /\ i + 1 \in 1..Len(m)
         /\ \A i \in 1..Len(m) : i # 1 => /\ i - 1 \in 1..Len(Tail(m))
                                          /\ Tail(m)[i - 1] = m[i]
<1>1. Len(m) \in Nat /\ Len(m) # 0
  BY EmptySeq
<1>2. 1 \in 1..Len(m)
  BY <1>1
<1>3. m[1] \in S
  BY <1>2
<1>4. Head(m) = m[1]
  OBVIOUS
<1>5. /\ Tail(m) \in Seq(S) /\ Len(Tail(m)) = Len(m) - 1
      /\ \A i \in 1..Len(Tail(m)) : Tail(m)[i] = m[i + 1]
  BY HeadTailProperties
<1>6. PICK l : l = Len(m)
  OBVIOUS
<1>7. \A i \in 1..(l - 1) : i + 1 \in 1..l
  BY <1>1, <1>6
<1>8. \A i \in 1..l : i # 1 => i - 1 \in 1..(l - 1) /\ (i - 1) + 1 = i
  BY <1>1, <1>6
<1> QED BY <1>2, <1>3, <1>4, <1>5, <1>6, <1>7, <1>8

(* The mailbox and the packages in it stay.                                *)
LEMMA MailStays ==
  ASSUME Mail, arrived' = arrived, got'[Me] = got[Me], mailbox' = mailbox,
         \A n \in 1..Len(arrived) : at'[n] = "mail" <=> at[n] = "mail"
  PROVE  Mail'
BY DEF Mail

(* Nothing more is handled, but a package nobody can read may be dropped.  *)
LEMMA HandlesStays ==
  ASSUME Handles, sent' = sent, log' = log, arrived' = arrived,
         current_thread' = current_thread,
         \A n \in 1..Len(arrived) :
           /\ at[n] = "end" => at'[n] = "end"
           /\ at'[n] = "end" => at[n] = "end" \/ Kind(arrived[n]) = "garbled"
  PROVE  Handles'
<1>1. PICK h \in 0..Len(arrived) :
        /\ log = reading(sent[Me])[h]
        /\ \A n \in 1..Len(arrived) :
             IF n <= h THEN at[n] = "end"
             ELSE at[n] = "end" => Kind(arrived[n]) = "garbled"
        /\ current_thread # 0 => h < current_thread
  BY DEF Handles
<1>2. \A n \in 1..Len(arrived) :
         IF n <= h THEN at'[n] = "end"
         ELSE at'[n] = "end" => Kind(arrived[n]) = "garbled"
  BY <1>1
<1> QED BY <1>1, <1>2 DEF Handles

(* An agent that starts has no messages and nobody has the turn.           *)
LEMMA SessionInits ==
  ASSUME Init, FrameInv PROVE SessionInv
<1>1. /\ mailbox = <<>> /\ arrived = <<>> /\ at = <<>>
      /\ current_thread = 0 /\ thread_queue = <<>> /\ ref = 0
      /\ wakeup_session = {} /\ error_queue = <<>>
      /\ phase = "idle" /\ running = 0 /\ log = <<>>
      /\ got = [fd \in Fds |-> <<>>]
  BY DEF Init, SessionInit
<1>2. PICK e : e = <<>>
  OBVIOUS
<1>3. Len(e) = 0 /\ 1..Len(e) = {} /\ \A S : e \in Seq(S)
  BY <1>2
<1>4. SessionType
  BY <1>1, <1>2, <1>3 DEF SessionType
<1>5. Mail
  <2>1. arrived = got[Me]
    BY <1>1, StreamAssumption
  <2> QED BY <1>1, <1>2, <1>3, <2>1 DEF Mail
<1>6. Answers
  BY <1>1, <1>2, <1>3 DEF Answers
<1>7. Line /\ Turn
  BY <1>1, <1>2, <1>3 DEF Line, Turn
<1>8. Runs
  BY <1>1, <1>2, <1>3 DEF Runs
<1>9. Handles
  <2>1. sent[Me] \in Seq(Bytes)
    BY StreamAssumption DEF FrameInv
  <2>2. Reads(sent[Me], reading(sent[Me]))
    BY <2>1, ReadingReads
  <2>3. reading(sent[Me])[0] = e
    BY <1>2, <2>2 DEF Reads
  <2>4. 0 \in 0..Len(arrived)
    BY <1>1, <1>2, <1>3
  <2> QED BY <1>1, <1>2, <1>3, <2>3, <2>4 DEF Handles
<1> QED BY <1>4, <1>5, <1>6, <1>7, <1>8, <1>9 DEF SessionInv

(* A step of the gate for another connection leaves the session alone.     *)
LEMMA SessionStays ==
  ASSUME SessionInv, UNCHANGED sessionVars, sent' = sent, got'[Me] = got[Me]
  PROVE  SessionInv'
<1>1. /\ mailbox' = mailbox /\ arrived' = arrived /\ at' = at
      /\ current_thread' = current_thread /\ thread_queue' = thread_queue
      /\ ref' = ref /\ wakeup_session' = wakeup_session
      /\ error_queue' = error_queue /\ phase' = phase /\ running' = running
      /\ log' = log
  BY DEF sessionVars, queueVars
<1>2. SessionType' /\ Answers' /\ Line' /\ Turn' /\ Runs'
  BY <1>1 DEF SessionInv, SessionType, Answers, Line, Turn, Runs
<1>3. Mail' /\ Handles'
  BY <1>1, MailStays, HandlesStays DEF SessionInv
<1> QED BY <1>2, <1>3 DEF SessionInv

(* A package leaves the mailbox; it is the first that has not yet left it. *)
LEMMA MailGoes ==
  ASSUME SessionType, Mail, mailbox # <<>>, Head(mailbox).type = "client",
         NEW n, n = Head(mailbox).session, NEW x \in Places, x # "mail",
         at' = [at EXCEPT ![n] = x], mailbox' = Tail(mailbox),
         arrived' = arrived, got' = got
  PROVE  /\ n \in 1..Len(arrived) /\ at[n] = "mail" /\ n # 0
         /\ \A j \in 1..Len(arrived) : (j < n => at[j] # "mail")
                                       /\ (at[j] # "mail" => j < n)
         /\ Mail'
<1>1. /\ Head(mailbox) = mailbox[1] /\ 1 \in 1..Len(mailbox)
      /\ Len(mailbox') = Len(mailbox) - 1
      /\ \A i \in 1..Len(mailbox') : /\ mailbox'[i] = mailbox[i + 1]
                                     /\ i + 1 \in 1..Len(mailbox)
      /\ \A i \in 1..Len(mailbox) : i # 1 => /\ i - 1 \in 1..Len(mailbox')
                                             /\ mailbox'[i - 1] = mailbox[i]
  <2>1. mailbox \in Seq(Messages)
    BY DEF SessionType
  <2> QED BY <2>1, Takes
<1>2. Len(arrived) \in Nat /\ Len(mailbox) \in Nat
  BY DEF SessionType
<1>3. n \in 1..Len(arrived) /\ at[n] = "mail"
  BY <1>1 DEF Mail
<1>4. \A i \in 1..Len(mailbox) : mailbox[i].type = "client" /\ i # 1 =>
        n < mailbox[i].session
  BY <1>1, <1>2 DEF Mail
<1>5. n \in Nat /\ n # 0
  BY <1>2, <1>3
<1>6. ASSUME NEW j \in 1..Len(arrived), j < n PROVE at[j] # "mail"
  <2>1. SUFFICES ASSUME at[j] = "mail" PROVE FALSE
    OBVIOUS
  <2>2. PICK i \in 1..Len(mailbox) :
          mailbox[i].type = "client" /\ mailbox[i].session = j
    BY <2>1 DEF Mail
  <2>3. j \in Nat
    BY <1>2
  <2>4. i # 1
    BY <1>1, <1>5, <1>6, <2>2, <2>3
  <2> QED BY <1>4, <1>5, <1>6, <2>2, <2>3, <2>4
<1>7. \A j \in 1..Len(arrived) : at'[j] = IF j = n THEN x ELSE at[j]
  BY <1>3, Moves
<1>8. \A i \in 1..Len(mailbox') : mailbox'[i].type = "client" =>
         /\ mailbox'[i].session \in 1..Len(arrived)
         /\ at'[mailbox'[i].session] = "mail"
  <2> SUFFICES ASSUME NEW i \in 1..Len(mailbox'), mailbox'[i].type = "client"
               PROVE  /\ mailbox'[i].session \in 1..Len(arrived)
                      /\ at'[mailbox'[i].session] = "mail"
    OBVIOUS
  <2>1. PICK k, y : k = i + 1 /\ y = mailbox[k].session
    OBVIOUS
  <2>2. k \in 1..Len(mailbox) /\ mailbox'[i] = mailbox[k] /\ k # 1
    <3>1. i \in Nat /\ i # 0
      BY <1>1, <1>2
    <3> QED BY <1>1, <2>1, <3>1
  <2>3. y \in 1..Len(arrived) /\ at[y] = "mail" /\ n < y
    BY <1>4, <2>1, <2>2 DEF Mail
  <2>4. y # n
    BY <1>5, <2>3
  <2> QED BY <1>7, <2>1, <2>2, <2>3, <2>4
<1>9. \A i, j \in 1..Len(mailbox') :
         mailbox'[i].type = "client" /\ mailbox'[j].type = "client" /\ i < j
           => mailbox'[i].session < mailbox'[j].session
  <2> SUFFICES ASSUME NEW i \in 1..Len(mailbox'), NEW j \in 1..Len(mailbox'),
                      mailbox'[i].type = "client", mailbox'[j].type = "client",
                      i < j
               PROVE  mailbox'[i].session < mailbox'[j].session
    OBVIOUS
  <2>1. /\ i + 1 \in 1..Len(mailbox) /\ j + 1 \in 1..Len(mailbox)
        /\ mailbox'[i] = mailbox[i + 1] /\ mailbox'[j] = mailbox[j + 1]
    BY <1>1
  <2>2. i + 1 < j + 1
    BY <1>1, <1>2
  <2> QED BY <2>1, <2>2 DEF Mail
<1>10. \A k \in 1..Len(arrived) : at'[k] = "mail" =>
         \E i \in 1..Len(mailbox') :
           mailbox'[i].type = "client" /\ mailbox'[i].session = k
  <2> SUFFICES ASSUME NEW k \in 1..Len(arrived), at'[k] = "mail"
               PROVE  \E i \in 1..Len(mailbox') :
                        mailbox'[i].type = "client" /\ mailbox'[i].session = k
    OBVIOUS
  <2>1. k # n /\ at[k] = "mail"
    BY <1>7
  <2>2. PICK i \in 1..Len(mailbox) :
          mailbox[i].type = "client" /\ mailbox[i].session = k
    BY <2>1 DEF Mail
  <2>3. i # 1
    BY <1>1, <2>1, <2>2
  <2> QED BY <1>1, <2>2, <2>3
<1>11. \A j \in 1..Len(arrived) : at[j] # "mail" => j < n
  BY <1>3 DEF Mail
<1>12. \A m, k \in 1..Len(arrived) : at'[m] # "mail" /\ at'[k] = "mail" => m < k
  <2> SUFFICES ASSUME NEW m \in 1..Len(arrived), NEW k \in 1..Len(arrived),
                      at'[m] # "mail", at'[k] = "mail"
               PROVE  m < k
    OBVIOUS
  <2>1. k # n /\ at[k] = "mail"
    BY <1>7
  <2>2. CASE m = n
    <3>1. k \in Nat /\ ~ k < n
      BY <1>2, <1>6, <2>1
    <3> QED BY <1>5, <2>1, <2>2, <3>1
  <2>3. CASE m # n
    BY <1>7, <2>1, <2>3 DEF Mail
  <2> QED BY <2>2, <2>3
<1>13. arrived' = got'[Me]
  BY DEF Mail
<1>14. Mail'
  <2>1. 1..Len(arrived') = 1..Len(arrived)
    OBVIOUS
  <2>2. \A i \in 1..Len(mailbox') : mailbox'[i].type = "client" =>
          /\ mailbox'[i].session \in 1..Len(arrived')
          /\ at'[mailbox'[i].session] = "mail"
    BY <1>8, <2>1
  <2>3. \A k \in 1..Len(arrived') : at'[k] = "mail" =>
          \E i \in 1..Len(mailbox') :
            mailbox'[i].type = "client" /\ mailbox'[i].session = k
    BY <1>10, <2>1
  <2>4. \A m, k \in 1..Len(arrived') :
          at'[m] # "mail" /\ at'[k] = "mail" => m < k
    BY <1>12, <2>1
  <2> QED BY <1>9, <1>13, <2>2, <2>3, <2>4, Zenon DEF Mail
<1> QED BY <1>3, <1>5, <1>6, <1>11, <1>14

(* Another message leaves the mailbox.                                     *)
LEMMA MailLeaves ==
  ASSUME SessionType, Mail, mailbox # <<>>, Head(mailbox).type # "client",
         mailbox' = Tail(mailbox), arrived' = arrived, got' = got,
         \A n \in 1..Len(arrived) : at'[n] = "mail" <=> at[n] = "mail"
  PROVE  Mail'
<1>1. /\ Head(mailbox) = mailbox[1]
      /\ \A i \in 1..Len(mailbox') : /\ mailbox'[i] = mailbox[i + 1]
                                     /\ i + 1 \in 1..Len(mailbox)
      /\ \A i \in 1..Len(mailbox) : i # 1 => /\ i - 1 \in 1..Len(mailbox')
                                             /\ mailbox'[i - 1] = mailbox[i]
  <2>1. mailbox \in Seq(Messages)
    BY DEF SessionType
  <2> QED BY <2>1, Takes
<1>2. Len(mailbox') \in Nat
  <2>1. mailbox \in Seq(Messages)
    BY DEF SessionType
  <2>2. mailbox' \in Seq(Messages)
    BY <2>1, Takes
  <2> QED BY <2>2
<1>3. \A i \in 1..Len(mailbox') : mailbox'[i].type = "client" =>
         /\ mailbox'[i].session \in 1..Len(arrived)
         /\ at'[mailbox'[i].session] = "mail"
  BY <1>1 DEF Mail
<1>4. \A i, j \in 1..Len(mailbox') :
         mailbox'[i].type = "client" /\ mailbox'[j].type = "client" /\ i < j
           => mailbox'[i].session < mailbox'[j].session
  <2> SUFFICES ASSUME NEW i \in 1..Len(mailbox'), NEW j \in 1..Len(mailbox'),
                      mailbox'[i].type = "client", mailbox'[j].type = "client",
                      i < j
               PROVE  mailbox'[i].session < mailbox'[j].session
    OBVIOUS
  <2>1. /\ i + 1 \in 1..Len(mailbox) /\ j + 1 \in 1..Len(mailbox)
        /\ mailbox'[i] = mailbox[i + 1] /\ mailbox'[j] = mailbox[j + 1]
    BY <1>1
  <2>2. i + 1 < j + 1
    BY <1>2
  <2> QED BY <2>1, <2>2 DEF Mail
<1>5. \A k \in 1..Len(arrived) : at'[k] = "mail" =>
         \E i \in 1..Len(mailbox') :
           mailbox'[i].type = "client" /\ mailbox'[i].session = k
  <2> SUFFICES ASSUME NEW k \in 1..Len(arrived), at'[k] = "mail"
               PROVE  \E i \in 1..Len(mailbox') :
                        mailbox'[i].type = "client" /\ mailbox'[i].session = k
    OBVIOUS
  <2>1. PICK i \in 1..Len(mailbox) :
          mailbox[i].type = "client" /\ mailbox[i].session = k
    BY DEF Mail
  <2>2. i # 1
    BY <1>1, <2>1
  <2> QED BY <1>1, <2>1, <2>2
<1>6. \A m, k \in 1..Len(arrived) : at'[m] # "mail" /\ at'[k] = "mail" => m < k
  BY DEF Mail
<1>7. arrived' = got'[Me]
  BY DEF Mail
<1> QED BY <1>3, <1>4, <1>5, <1>6, <1>7 DEF Mail

(* What is left of the answers when the first message is taken.            *)
LEMMA AnswersLeft ==
  ASSUME SessionType, Answers, mailbox # <<>>, mailbox' = Tail(mailbox)
  PROVE  /\ \A i \in 1..Len(mailbox') : mailbox'[i].type # "client" =>
              /\ Head(mailbox).type = "client"
              /\ mailbox'[i].session = current_thread /\ current_thread # 0
              /\ at[current_thread] = "call" /\ error_queue = <<>>
         /\ \A i, j \in 1..Len(mailbox') :
              mailbox'[i].type # "client" /\ mailbox'[j].type # "client" => i = j
<1>1. mailbox \in Seq(Messages)
  BY DEF SessionType
<1>2. /\ Head(mailbox) = mailbox[1] /\ 1 \in 1..Len(mailbox)
      /\ mailbox' \in Seq(Messages)
      /\ \A i \in 1..Len(mailbox') : /\ mailbox'[i] = mailbox[i + 1]
                                     /\ i + 1 \in 1..Len(mailbox)
  BY <1>1, Takes
<1>3. \A i \in 1..Len(mailbox') : i \in Nat /\ i + 1 # 1
  BY <1>2
<1>4. ASSUME NEW i \in 1..Len(mailbox'), mailbox'[i].type # "client"
      PROVE  /\ Head(mailbox).type = "client"
             /\ mailbox'[i].session = current_thread /\ current_thread # 0
             /\ at[current_thread] = "call" /\ error_queue = <<>>
  BY <1>2, <1>3, <1>4 DEF Answers
<1>5. ASSUME NEW i \in 1..Len(mailbox'), NEW j \in 1..Len(mailbox'),
             mailbox'[i].type # "client", mailbox'[j].type # "client"
      PROVE  i = j
  <2>1. i + 1 = j + 1
    BY <1>2, <1>5 DEF Answers
  <2> QED BY <1>3, <2>1
<1> QED BY <1>4, <1>5

(* raw_dispatch_message of a package that cannot be read.                  *)
LEMMA SessionGarbled ==
  ASSUME SessionInv, sent' = sent, got' = got,
         phase = "idle", mailbox # <<>>, Head(mailbox).type = "client",
         mailbox' = Tail(mailbox), NEW n, n = Head(mailbox).session,
         Kind(arrived[n]) = "garbled", at' = [at EXCEPT ![n] = "end"],
         UNCHANGED <<queueVars, phase, running, arrived, wakeup_session,
                     error_queue, log>>
  PROVE  SessionInv'
<1>1. SessionType /\ Mail /\ Answers /\ Line /\ Turn /\ Runs /\ Handles
  BY DEF SessionInv
<1>2. /\ arrived' = arrived /\ phase' = phase /\ running' = running
      /\ current_thread' = current_thread /\ thread_queue' = thread_queue
      /\ ref' = ref /\ wakeup_session' = wakeup_session
      /\ error_queue' = error_queue /\ log' = log
  BY DEF queueVars
<1>3. "end" \in Places
  BY DEF Places
<1>4. /\ n \in 1..Len(arrived) /\ at[n] = "mail" /\ n # 0 /\ Mail'
      /\ \A j \in 1..Len(arrived) : (j < n => at[j] # "mail")
                                    /\ (at[j] # "mail" => j < n)
  BY <1>1, <1>2, <1>3, MailGoes
<1>5. /\ Len(at') = Len(arrived) /\ at' \in Seq(Places)
      /\ \A j \in 1..Len(arrived) : at'[j] = IF j = n THEN "end" ELSE at[j]
  BY <1>1, <1>3, <1>4, Moves
<1>6. current_thread # 0 =>
        /\ current_thread # n /\ current_thread \in 1..Len(arrived)
        /\ at'[current_thread] = at[current_thread]
  <2>1. current_thread # 0 => current_thread \in 1..Len(arrived)
    BY <1>1 DEF SessionType
  <2>2. current_thread # 0 => at[current_thread] # "mail"
    BY <1>1 DEF Turn
  <2> QED BY <1>4, <1>5, <2>1, <2>2
<1>7. SessionType'
  <2>1. mailbox' \in Seq(Messages)
    BY <1>1, Takes DEF SessionType
  <2> QED BY <1>1, <1>2, <1>5, <2>1 DEF SessionType
<1>8. Answers'
  BY <1>1, <1>2, <1>6, AnswersLeft DEF Answers
<1>9. Line'
  <2>1. \A k \in 1..Len(arrived) :
         /\ at'[k] \in {"in", "call", "back"} => k = current_thread
         /\ at'[k] = "wait" => k = current_thread
                              \/ \E i \in 1..Len(thread_queue) : thread_queue[i] = k
         /\ at'[k] \notin {"mail", "end"} => Kind(arrived[k]) # "garbled"
         /\ k < current_thread => at'[k] = "end"
    BY <1>1, <1>5 DEF Line
  <2>2. \A i \in 1..Len(thread_queue) :
         at'[thread_queue[i]] = "wait" /\ current_thread < thread_queue[i]
    <3> SUFFICES ASSUME NEW i \in 1..Len(thread_queue)
                 PROVE  at'[thread_queue[i]] = "wait"
                        /\ current_thread < thread_queue[i]
      OBVIOUS
    <3>1. thread_queue[i] \in 1..Len(arrived)
      BY <1>1 DEF SessionType
    <3>2. at[thread_queue[i]] = "wait" /\ current_thread < thread_queue[i]
      BY <1>1 DEF Line
    <3> QED BY <1>4, <1>5, <3>1, <3>2
  <2> QED BY <1>1, <1>2, <2>1, <2>2 DEF Line
<1>10. Turn'
  BY <1>1, <1>2, <1>6 DEF Turn
<1>11. Runs'
  BY <1>1, <1>2, <1>5 DEF Runs
<1>12. Handles'
  BY <1>1, <1>2, <1>5, HandlesStays
<1> QED BY <1>4, <1>7, <1>8, <1>9, <1>10, <1>11, <1>12 DEF SessionInv

(* Another package has the turn: this one waits at the end of the line.    *)
LEMMA SessionWaits ==
  ASSUME SessionInv, sent' = sent, got' = got,
         phase = "idle", mailbox # <<>>, Head(mailbox).type = "client",
         mailbox' = Tail(mailbox), NEW n, n = Head(mailbox).session,
         Kind(arrived[n]) # "garbled", must_wait(n),
         thread_queue' = Append(thread_queue, n),
         at' = [at EXCEPT ![n] = "wait"], phase' = "wake",
         UNCHANGED <<current_thread, ref, running, arrived, wakeup_session,
                     error_queue, log>>
  PROVE  SessionInv'
<1>1. SessionType /\ Mail /\ Answers /\ Line /\ Turn /\ Runs /\ Handles
  BY DEF SessionInv
<1>2. /\ arrived' = arrived /\ running' = running
      /\ current_thread' = current_thread
      /\ ref' = ref /\ wakeup_session' = wakeup_session
      /\ error_queue' = error_queue /\ log' = log
  OBVIOUS
<1>3. "wait" \in Places
  BY DEF Places
<1>4. /\ n \in 1..Len(arrived) /\ at[n] = "mail" /\ n # 0 /\ Mail'
      /\ \A j \in 1..Len(arrived) : (j < n => at[j] # "mail")
                                    /\ (at[j] # "mail" => j < n)
  BY <1>1, <1>2, <1>3, MailGoes
<1>5. /\ Len(at') = Len(arrived) /\ at' \in Seq(Places)
      /\ \A j \in 1..Len(arrived) : at'[j] = IF j = n THEN "wait" ELSE at[j]
  BY <1>1, <1>3, <1>4, Moves
<1>6. /\ current_thread # 0 /\ current_thread # n
      /\ current_thread \in 1..Len(arrived) /\ current_thread < n
      /\ at'[current_thread] = at[current_thread]
  <2>1. current_thread # 0 /\ current_thread # n
    BY DEF must_wait
  <2>2. current_thread \in 1..Len(arrived)
    BY <1>1, <2>1 DEF SessionType
  <2>3. at[current_thread] # "mail"
    BY <1>1, <2>1 DEF Turn
  <2> QED BY <1>4, <1>5, <2>1, <2>2, <2>3
<1>7. /\ thread_queue' \in Seq(1..Len(arrived)) /\ Len(thread_queue) \in Nat
      /\ Len(thread_queue') = Len(thread_queue) + 1
      /\ \A i \in 1..Len(thread_queue) : thread_queue'[i] = thread_queue[i]
      /\ thread_queue'[Len(thread_queue) + 1] = n
  BY <1>1, <1>4, AppendProperties DEF SessionType
<1>8. \A i \in 1..Len(thread_queue) :
        /\ thread_queue[i] \in 1..Len(arrived) /\ thread_queue[i] < n
        /\ thread_queue[i] # n
        /\ at'[thread_queue[i]] = "wait" /\ current_thread < thread_queue[i]
  <2> SUFFICES ASSUME NEW i \in 1..Len(thread_queue)
               PROVE  /\ thread_queue[i] \in 1..Len(arrived) /\ thread_queue[i] < n
                      /\ thread_queue[i] # n
                      /\ at'[thread_queue[i]] = "wait"
                      /\ current_thread < thread_queue[i]
    OBVIOUS
  <2>1. thread_queue[i] \in 1..Len(arrived)
    BY <1>1 DEF SessionType
  <2>2. at[thread_queue[i]] = "wait" /\ current_thread < thread_queue[i]
    BY <1>1 DEF Line
  <2> QED BY <1>4, <1>5, <2>1, <2>2
<1>9. \A i \in 1..Len(thread_queue') :
        i \in 1..Len(thread_queue) \/ i = Len(thread_queue) + 1
  BY <1>7
<1>10. SessionType'
  <2>1. mailbox' \in Seq(Messages)
    BY <1>1, Takes DEF SessionType
  <2> QED BY <1>1, <1>2, <1>5, <1>7, <2>1 DEF SessionType
<1>11. Answers'
  BY <1>1, <1>2, <1>6, AnswersLeft DEF Answers
<1>12. Line'
  <2>1. \A i \in 1..Len(thread_queue) : i \in 1..Len(thread_queue')
    BY <1>7
  <2>2. Len(thread_queue) + 1 \in 1..Len(thread_queue')
    BY <1>7
  <2>3. \A k \in 1..Len(arrived) :
         /\ at'[k] \in {"in", "call", "back"} => k = current_thread
         /\ at'[k] \notin {"mail", "end"} => Kind(arrived[k]) # "garbled"
         /\ k < current_thread => at'[k] = "end"
    <3>1. ~ n < current_thread
      <4>1. current_thread \in Nat /\ n \in Nat
        BY <1>4, <1>6
      <4> QED BY <1>6, <4>1
    <3> QED BY <1>1, <1>5, <3>1 DEF Line
  <2>4. ASSUME NEW k \in 1..Len(arrived), at'[k] = "wait"
        PROVE  k = current_thread
                 \/ \E i \in 1..Len(thread_queue') : thread_queue'[i] = k
    <3>1. CASE k = n
      BY <1>7, <2>2, <3>1
    <3>2. CASE k # n
      <4>1. at[k] = "wait"
        BY <1>5, <2>4, <3>2
      <4> QED BY <1>1, <1>7, <2>1, <4>1 DEF Line
    <3> QED BY <3>1, <3>2
  <2>5. \A i \in 1..Len(thread_queue') :
         at'[thread_queue'[i]] = "wait" /\ current_thread < thread_queue'[i]
    BY <1>4, <1>5, <1>6, <1>7, <1>8, <1>9
  <2>6. ASSUME NEW i \in 1..Len(thread_queue'), NEW j \in 1..Len(thread_queue'),
               i < j
        PROVE  thread_queue'[i] < thread_queue'[j]
    <3>1. i \in 1..Len(thread_queue)
      BY <1>7, <2>6
    <3>2. CASE j \in 1..Len(thread_queue)
      BY <1>1, <1>7, <2>6, <3>1, <3>2 DEF Line
    <3>3. CASE j = Len(thread_queue) + 1
      BY <1>7, <1>8, <3>1, <3>3
    <3> QED BY <1>9, <3>2, <3>3
  <2> QED BY <1>2, <2>3, <2>4, <2>5, <2>6 DEF Line
<1>13. Turn'
  BY <1>1, <1>2, <1>6 DEF Turn
<1>14. Runs'
  BY <1>1, <1>2, <1>5 DEF Runs
<1>15. Handles'
  BY <1>1, <1>2, <1>4, <1>5, HandlesStays
<1> QED BY <1>4, <1>10, <1>11, <1>12, <1>13, <1>14, <1>15 DEF SessionInv

(* Nobody has the turn: the package takes it, and its coroutine runs.      *)
LEMMA SessionEnters ==
  ASSUME SessionInv, sent' = sent, got' = got,
         phase = "idle", mailbox # <<>>, Head(mailbox).type = "client",
         mailbox' = Tail(mailbox), NEW n, n = Head(mailbox).session,
         Kind(arrived[n]) # "garbled", ~ must_wait(n), enter(n),
         UNCHANGED <<thread_queue, arrived, wakeup_session, error_queue, log>>
  PROVE  SessionInv'
<1>1. SessionType /\ Mail /\ Answers /\ Line /\ Turn /\ Runs /\ Handles
  BY DEF SessionInv
<1>2. /\ arrived' = arrived /\ thread_queue' = thread_queue
      /\ wakeup_session' = wakeup_session
      /\ error_queue' = error_queue /\ log' = log
      /\ current_thread' = n /\ ref' = ref + 1
      /\ at' = [at EXCEPT ![n] = "in"] /\ phase' = "run" /\ running' = n
  BY DEF enter
<1>3. "in" \in Places
  BY DEF Places
<1>4. /\ n \in 1..Len(arrived) /\ at[n] = "mail" /\ n # 0 /\ Mail'
      /\ \A j \in 1..Len(arrived) : (j < n => at[j] # "mail")
                                    /\ (at[j] # "mail" => j < n)
  BY <1>1, <1>2, <1>3, MailGoes
<1>5. /\ Len(at') = Len(arrived) /\ at' \in Seq(Places)
      /\ \A j \in 1..Len(arrived) : at'[j] = IF j = n THEN "in" ELSE at[j]
  BY <1>1, <1>2, <1>3, <1>4, Moves
<1>6. current_thread = 0 /\ ref = 0 /\ thread_queue = <<>> /\ wakeup_session = {}
  <2>1. current_thread \in {0, n}
    BY DEF must_wait
  <2>2. current_thread # n
    BY <1>1, <1>4 DEF Turn
  <2> QED BY <1>1, <2>1, <2>2 DEF Turn
<1>7. Len(thread_queue) = 0 /\ 1..Len(thread_queue) = {}
  BY <1>6
<1>8. \A j \in 1..Len(arrived) : j # 0 /\ at[j] \in {"mail", "end"}
  <2> SUFFICES ASSUME NEW j \in 1..Len(arrived)
               PROVE  j # 0 /\ at[j] \in {"mail", "end"}
    OBVIOUS
  <2>1. j # 0 /\ at[j] \in Places
    BY <1>1 DEF SessionType
  <2>2. at[j] \notin {"in", "call", "back"} /\ at[j] # "wait"
    BY <1>1, <1>6, <1>7, <2>1 DEF Line
  <2> QED BY <2>1, <2>2 DEF Places
<1>9. SessionType'
  <2>1. mailbox' \in Seq(Messages)
    BY <1>1, Takes DEF SessionType
  <2>2. n \in 0..Len(arrived)
    BY <1>1, <1>4 DEF SessionType
  <2>3. ref' = 1
    BY <1>2, <1>6
  <2> QED BY <1>1, <1>2, <1>5, <2>1, <2>2, <2>3 DEF SessionType
<1>10. Answers'
  <2>1. error_queue = <<>>
    BY <1>1, <1>6 DEF Answers
  <2> QED BY <1>1, <1>2, <1>6, <2>1, AnswersLeft DEF Answers
<1>11. Line'
  <2>1. \A k \in 1..Len(arrived) :
         /\ at'[k] \in {"in", "call", "back"} => k = n
         /\ at'[k] # "wait"
         /\ at'[k] \notin {"mail", "end"} => Kind(arrived[k]) # "garbled"
         /\ k < n => at'[k] = "end"
    <3> SUFFICES ASSUME NEW k \in 1..Len(arrived)
                 PROVE  /\ at'[k] \in {"in", "call", "back"} => k = n
                        /\ at'[k] # "wait"
                        /\ at'[k] \notin {"mail", "end"} =>
                             Kind(arrived[k]) # "garbled"
                        /\ k < n => at'[k] = "end"
      OBVIOUS
    <3>1. CASE k = n
      <4>1. ~ k < n
        <5>1. n \in Nat
          BY <1>1, <1>4 DEF SessionType
        <5> QED BY <3>1, <5>1
      <4> QED BY <1>5, <3>1, <4>1
    <3>2. CASE k # n
      BY <1>4, <1>5, <1>8, <3>2
    <3> QED BY <3>1, <3>2
  <2> QED BY <1>2, <1>7, <2>1 DEF Line
<1>12. Turn'
  <2>1. ref' = 1
    BY <1>2, <1>6
  <2>2. at'[n] = "in"
    BY <1>4, <1>5
  <2> QED BY <1>2, <1>4, <1>6, <2>1, <2>2 DEF Turn
<1>13. Runs'
  BY <1>2, <1>4, <1>5 DEF Runs
<1>14. Handles'
  <2>1. PICK h \in 0..Len(arrived) :
          /\ log = reading(sent[Me])[h]
          /\ \A j \in 1..Len(arrived) :
               IF j <= h THEN at[j] = "end"
               ELSE at[j] = "end" => Kind(arrived[j]) = "garbled"
    BY <1>1 DEF Handles
  <2>2. ~ n <= h
    BY <1>4, <2>1
  <2>3. h < n /\ n \in Nat
    <3>1. Len(arrived) \in Nat
      BY <1>1 DEF SessionType
    <3> QED BY <1>4, <2>2, <3>1
  <2>4. \A j \in 1..Len(arrived) :
          IF j <= h THEN at'[j] = "end"
          ELSE at'[j] = "end" => Kind(arrived[j]) = "garbled"
    BY <1>5, <2>1, <2>2
  <2> QED BY <1>2, <2>1, <2>3, <2>4 DEF Handles
<1> QED BY <1>4, <1>9, <1>10, <1>11, <1>12, <1>13, <1>14 DEF SessionInv

(* raw_dispatch_message of a package, in each of its three outcomes.       *)
LEMMA SessionPackage ==
  ASSUME SessionInv, sent' = sent, got' = got, Package
  PROVE  SessionInv'
<1>1. PICK n : n = Head(mailbox).session
  OBVIOUS
<1>2. /\ phase = "idle" /\ mailbox # <<>> /\ Head(mailbox).type = "client"
      /\ mailbox' = Tail(mailbox)
      /\ UNCHANGED <<arrived, wakeup_session, error_queue, log>>
  BY DEF Package
<1>3. \/ /\ Kind(arrived[n]) = "garbled"
         /\ at' = [at EXCEPT ![n] = "end"]
         /\ UNCHANGED <<queueVars, phase, running>>
      \/ /\ Kind(arrived[n]) # "garbled" /\ must_wait(n)
         /\ thread_queue' = Append(thread_queue, n)
         /\ at' = [at EXCEPT ![n] = "wait"]
         /\ phase' = "wake"
         /\ UNCHANGED <<current_thread, ref, running>>
      \/ /\ Kind(arrived[n]) # "garbled" /\ ~must_wait(n)
         /\ enter(n)
         /\ UNCHANGED thread_queue
  BY <1>1 DEF Package
<1>4. CASE /\ Kind(arrived[n]) = "garbled"
           /\ at' = [at EXCEPT ![n] = "end"]
           /\ UNCHANGED <<queueVars, phase, running>>
  BY <1>1, <1>2, <1>4, SessionGarbled
<1>5. CASE /\ Kind(arrived[n]) # "garbled" /\ must_wait(n)
           /\ thread_queue' = Append(thread_queue, n)
           /\ at' = [at EXCEPT ![n] = "wait"]
           /\ phase' = "wake"
           /\ UNCHANGED <<current_thread, ref, running>>
  BY <1>1, <1>2, <1>5, SessionWaits
<1>6. CASE /\ Kind(arrived[n]) # "garbled" /\ ~must_wait(n)
           /\ enter(n)
           /\ UNCHANGED thread_queue
  BY <1>1, <1>2, <1>6, SessionEnters
<1> QED BY <1>3, <1>4, <1>5, <1>6

(* A coroutine that calls is resumed: by its answer, or by an error.       *)
LEMMA Resumes ==
  ASSUME SessionInv, sent' = sent, got' = got, current_thread # 0,
         at[current_thread] = "call", resume(current_thread),
         error_queue' = <<>>, Mail', mailbox' \in Seq(Messages),
         \A i \in 1..Len(mailbox') : mailbox'[i].type = "client",
         UNCHANGED <<arrived, queueVars, wakeup_session, log>>
  PROVE  SessionInv'
<1>1. SessionType /\ Mail /\ Answers /\ Line /\ Turn /\ Runs /\ Handles
  BY DEF SessionInv
<1>2. PICK n : n = current_thread
  OBVIOUS
<1>3. /\ arrived' = arrived /\ thread_queue' = thread_queue
      /\ wakeup_session' = wakeup_session /\ ref' = ref
      /\ log' = log /\ current_thread' = current_thread
      /\ at' = [at EXCEPT ![n] = "back"] /\ phase' = "run" /\ running' = n
  BY <1>2 DEF resume, queueVars
<1>4. n \in 1..Len(arrived) /\ "back" \in Places
  BY <1>1, <1>2 DEF SessionType, Places
<1>5. /\ Len(at') = Len(arrived) /\ at' \in Seq(Places)
      /\ \A j \in 1..Len(arrived) : at'[j] = IF j = n THEN "back" ELSE at[j]
  BY <1>1, <1>3, <1>4, Moves
<1>6. SessionType'
  <2>1. error_queue' \in Seq(1..Len(arrived))
    OBVIOUS
  <2> QED BY <1>1, <1>3, <1>5, <2>1 DEF SessionType
<1>7. Answers'
  BY DEF Answers
<1>8. Line'
  <2>1. \A k \in 1..Len(arrived) :
         /\ at'[k] \in {"in", "call", "back"} => k = current_thread
         /\ at'[k] = "wait" => k = current_thread
                              \/ \E i \in 1..Len(thread_queue) : thread_queue[i] = k
         /\ at'[k] \notin {"mail", "end"} => Kind(arrived[k]) # "garbled"
         /\ k < current_thread => at'[k] = "end"
    <3>1. ~ n < current_thread
      <4>1. n \in Nat
        BY <1>1, <1>4 DEF SessionType
      <4> QED BY <1>2, <4>1
    <3> QED BY <1>1, <1>2, <1>5, <3>1 DEF Line
  <2>2. \A i \in 1..Len(thread_queue) :
         at'[thread_queue[i]] = "wait" /\ current_thread < thread_queue[i]
    <3> SUFFICES ASSUME NEW i \in 1..Len(thread_queue)
                 PROVE  at'[thread_queue[i]] = "wait"
                        /\ current_thread < thread_queue[i]
      OBVIOUS
    <3>1. thread_queue[i] \in 1..Len(arrived)
      BY <1>1 DEF SessionType
    <3>2. at[thread_queue[i]] = "wait" /\ current_thread < thread_queue[i]
      BY <1>1 DEF Line
    <3> QED BY <1>2, <1>5, <3>1, <3>2
  <2> QED BY <1>1, <1>3, <2>1, <2>2 DEF Line
<1>9. Turn'
  BY <1>1, <1>2, <1>3, <1>4, <1>5 DEF Turn
<1>10. Runs'
  BY <1>2, <1>3, <1>4, <1>5 DEF Runs
<1>11. Handles'
  BY <1>1, <1>2, <1>3, <1>5, HandlesStays
<1> QED BY <1>6, <1>7, <1>8, <1>9, <1>10, <1>11 DEF SessionInv

(* The answer of a call resumes its coroutine.                             *)
LEMMA SessionResponse ==
  ASSUME SessionInv, sent' = sent, got' = got, Response
  PROVE  SessionInv'
<1>1. SessionType /\ Mail /\ Answers /\ Line /\ Turn /\ Runs /\ Handles
  BY DEF SessionInv
<1>2. /\ mailbox # <<>> /\ Head(mailbox).type = "response"
      /\ mailbox' = Tail(mailbox) /\ resume(Head(mailbox).session)
      /\ UNCHANGED <<arrived, queueVars, wakeup_session, error_queue, log>>
  BY DEF Response
<1>3. Head(mailbox) = mailbox[1] /\ 1 \in 1..Len(mailbox) /\ mailbox' \in Seq(Messages)
  BY <1>1, <1>2, Takes DEF SessionType
<1>4. /\ Head(mailbox).session = current_thread /\ current_thread # 0
      /\ at[current_thread] = "call" /\ error_queue = <<>>
  BY <1>1, <1>2, <1>3 DEF Answers
<1>5. \A i \in 1..Len(mailbox') : mailbox'[i].type = "client"
  BY <1>1, <1>2, AnswersLeft
<1>6. Mail'
  <2>0. current_thread \in 1..Len(arrived)
    BY <1>1, <1>4 DEF SessionType
  <2>1. at' = [at EXCEPT ![current_thread] = "back"] /\ "back" \in Places
    BY <1>2, <1>4 DEF resume, Places
  <2>2. \A j \in 1..Len(arrived) : at'[j] = IF j = current_thread THEN "back" ELSE at[j]
    BY <1>1, <2>0, <2>1, Moves
  <2>3. \A j \in 1..Len(arrived) : at'[j] = "mail" <=> at[j] = "mail"
    BY <1>4, <2>2
  <2>4. Head(mailbox).type # "client" /\ arrived' = arrived
    BY <1>2
  <2> QED BY <1>1, <1>2, <2>3, <2>4, MailLeaves
<1>7. error_queue' = <<>>
  BY <1>2, <1>4
<1> QED BY <1>2, <1>3, <1>4, <1>5, <1>6, <1>7, Resumes

(* The error message is put into error_queue.                              *)
LEMMA SessionError ==
  ASSUME SessionInv, sent' = sent, got' = got, ErrorMessage
  PROVE  SessionInv'
<1>1. SessionType /\ Mail /\ Answers /\ Line /\ Turn /\ Runs /\ Handles
  BY DEF SessionInv
<1>2. /\ mailbox # <<>> /\ Head(mailbox).type = "error" /\ phase = "idle"
      /\ mailbox' = Tail(mailbox) /\ phase' = "wake"
      /\ error_queue' = Append(error_queue, Head(mailbox).session)
      /\ arrived' = arrived /\ at' = at /\ current_thread' = current_thread
      /\ thread_queue' = thread_queue /\ ref' = ref
      /\ wakeup_session' = wakeup_session /\ running' = running /\ log' = log
  BY DEF ErrorMessage, queueVars
<1>3. Head(mailbox) = mailbox[1] /\ 1 \in 1..Len(mailbox) /\ mailbox' \in Seq(Messages)
  BY <1>1, <1>2, Takes DEF SessionType
<1>4. /\ Head(mailbox).session = current_thread /\ current_thread # 0
      /\ at[current_thread] = "call" /\ error_queue = <<>>
  BY <1>1, <1>2, <1>3 DEF Answers
<1>5. \A i \in 1..Len(mailbox') : mailbox'[i].type = "client"
  BY <1>1, <1>2, AnswersLeft
<1>6. error_queue' = <<current_thread>>
  BY <1>2, <1>4
<1>7. Mail'
  <2>1. Head(mailbox).type # "client"
    BY <1>2
  <2> QED BY <1>1, <1>2, <2>1, MailLeaves
<1>8. SessionType'
  <2>1. current_thread \in 1..Len(arrived)
    BY <1>1, <1>4 DEF SessionType
  <2>2. error_queue' \in Seq(1..Len(arrived))
    BY <1>6, <2>1
  <2> QED BY <1>1, <1>2, <1>3, <2>2 DEF SessionType
<1>9. Answers'
  BY <1>2, <1>4, <1>5, <1>6 DEF Answers
<1>10. Line' /\ Turn' /\ Runs'
  BY <1>1, <1>2 DEF Line, Turn, Runs
<1>11. Handles'
  BY <1>1, <1>2, HandlesStays
<1> QED BY <1>7, <1>8, <1>9, <1>10, <1>11 DEF SessionInv

(* A message of another kind, and the end of suspend, only touch phase.    *)
LEMMA SessionPhase ==
  ASSUME SessionInv, sent' = sent, got' = got, phase # "run",
         phase' \in {"idle", "wake"},
         UNCHANGED <<mailbox, arrived, at, queueVars, wakeup_session,
                     error_queue, running, log>>
  PROVE  SessionInv'
<1>1. SessionType /\ Mail /\ Answers /\ Line /\ Turn /\ Runs /\ Handles
  BY DEF SessionInv
<1>2. /\ mailbox' = mailbox /\ arrived' = arrived /\ at' = at
      /\ current_thread' = current_thread /\ thread_queue' = thread_queue
      /\ ref' = ref /\ wakeup_session' = wakeup_session
      /\ error_queue' = error_queue /\ running' = running /\ log' = log
  BY DEF queueVars
<1>3. SessionType' /\ Answers' /\ Line' /\ Turn' /\ Runs'
  BY <1>1, <1>2 DEF SessionType, Answers, Line, Turn, Runs
<1>4. Mail' /\ Handles'
  BY <1>1, <1>2, MailStays, HandlesStays
<1> QED BY <1>3, <1>4 DEF SessionInv

(* dispatch_error_queue resumes the coroutine whose call failed.           *)
LEMMA SessionErrorTold ==
  ASSUME SessionInv, sent' = sent, got' = got, WakeupError
  PROVE  SessionInv'
<1>1. SessionType /\ Mail /\ Answers /\ Line /\ Turn /\ Runs /\ Handles
  BY DEF SessionInv
<1>2. /\ error_queue # <<>> /\ error_queue' = Tail(error_queue)
      /\ resume(Head(error_queue)) /\ mailbox' = mailbox
      /\ UNCHANGED <<arrived, queueVars, wakeup_session, log>>
  BY DEF WakeupError
<1>3. /\ error_queue = <<current_thread>> /\ current_thread # 0
      /\ at[current_thread] = "call"
  BY <1>1, <1>2 DEF Answers
<1>4. Head(error_queue) = current_thread /\ error_queue' = <<>>
  BY <1>2, <1>3
<1>5. \A i \in 1..Len(mailbox') : mailbox'[i].type = "client"
  BY <1>1, <1>2 DEF Answers
<1>6. Mail'
  <2>1. current_thread \in 1..Len(arrived)
    BY <1>1, <1>3 DEF SessionType
  <2>2. at' = [at EXCEPT ![current_thread] = "back"] /\ "back" \in Places
    BY <1>2, <1>4 DEF resume, Places
  <2>3. \A j \in 1..Len(arrived) : at'[j] = IF j = current_thread THEN "back" ELSE at[j]
    BY <1>1, <2>1, <2>2, Moves
  <2>4. \A j \in 1..Len(arrived) : at'[j] = "mail" <=> at[j] = "mail"
    BY <1>3, <2>3
  <2>5. arrived' = arrived
    BY <1>2
  <2> QED BY <1>1, <1>2, <2>4, <2>5, MailStays
<1>7. mailbox' \in Seq(Messages)
  BY <1>1, <1>2 DEF SessionType
<1> QED BY <1>2, <1>3, <1>4, <1>5, <1>6, <1>7, Resumes

(* The coroutine whose turn has come runs.                                 *)
LEMMA SessionWakes ==
  ASSUME SessionInv, sent' = sent, got' = got,
         NEW n \in wakeup_session, Wakeup(n)
  PROVE  SessionInv'
<1>1. SessionType /\ Mail /\ Answers /\ Line /\ Turn /\ Runs /\ Handles
  BY DEF SessionInv
<1>2. /\ arrived' = arrived /\ thread_queue' = thread_queue
      /\ wakeup_session' = wakeup_session \ {n} /\ mailbox' = mailbox
      /\ error_queue' = error_queue /\ log' = log
      /\ current_thread' = n /\ ref' = ref + 1
      /\ at' = [at EXCEPT ![n] = "in"] /\ phase' = "run" /\ running' = n
  BY DEF Wakeup, enter
<1>3. /\ current_thread # 0 /\ at[current_thread] = "wait"
      /\ wakeup_session = {current_thread} /\ ref = 0
  BY <1>1 DEF Turn
<1>4. /\ n = current_thread /\ n # 0 /\ at[n] = "wait"
      /\ wakeup_session' = {} /\ ref' = 1
  BY <1>2, <1>3
<1>5. n \in 1..Len(arrived) /\ "in" \in Places
  BY <1>1, <1>4 DEF SessionType, Places
<1>6. /\ Len(at') = Len(arrived) /\ at' \in Seq(Places)
      /\ \A j \in 1..Len(arrived) : at'[j] = IF j = n THEN "in" ELSE at[j]
  BY <1>1, <1>2, <1>5, Moves
<1>7. SessionType'
  BY <1>1, <1>2, <1>4, <1>5, <1>6 DEF SessionType
<1>8. Mail'
  BY <1>1, <1>2, <1>4, <1>6, MailStays
<1>9. Answers'
  BY <1>1, <1>2, <1>4 DEF Answers
<1>10. Line'
  <2>1. \A k \in 1..Len(arrived) :
         /\ at'[k] \in {"in", "call", "back"} => k = n
         /\ at'[k] = "wait" => k = n
                              \/ \E i \in 1..Len(thread_queue) : thread_queue[i] = k
         /\ at'[k] \notin {"mail", "end"} => Kind(arrived[k]) # "garbled"
         /\ k < n => at'[k] = "end"
    <3>1. ~ n < n
      <4>1. n \in Nat
        BY <1>1, <1>5 DEF SessionType
      <4> QED BY <4>1
    <3> QED BY <1>1, <1>4, <1>6, <3>1 DEF Line
  <2>2. \A i \in 1..Len(thread_queue) :
         at'[thread_queue[i]] = "wait" /\ n < thread_queue[i]
    <3> SUFFICES ASSUME NEW i \in 1..Len(thread_queue)
                 PROVE  at'[thread_queue[i]] = "wait" /\ n < thread_queue[i]
      OBVIOUS
    <3>1. thread_queue[i] \in 1..Len(arrived)
      BY <1>1 DEF SessionType
    <3>2. at[thread_queue[i]] = "wait" /\ n < thread_queue[i]
      BY <1>1, <1>4 DEF Line
    <3>3. thread_queue[i] # n
      <4>1. n \in Nat
        BY <1>1, <1>5 DEF SessionType
      <4> QED BY <3>2, <4>1
    <3> QED BY <1>6, <3>1, <3>2, <3>3
  <2> QED BY <1>1, <1>2, <2>1, <2>2 DEF Line
<1>11. Turn'
  BY <1>2, <1>4, <1>5, <1>6 DEF Turn
<1>12. Runs'
  BY <1>2, <1>4, <1>5, <1>6 DEF Runs
<1>13. Handles'
  BY <1>1, <1>2, <1>4, <1>6, HandlesStays
<1> QED BY <1>7, <1>8, <1>9, <1>10, <1>11, <1>12, <1>13 DEF SessionInv

(* REQUEST:login is suspended in its call.                                 *)
LEMMA SessionCalls ==
  ASSUME SessionInv, sent' = sent, got' = got, RunCall
  PROVE  SessionInv'
<1>1. SessionType /\ Mail /\ Answers /\ Line /\ Turn /\ Runs /\ Handles
  BY DEF SessionInv
<1>2. PICK n : n = current_thread
  OBVIOUS
<1>3. running = n /\ n # 0 /\ at[n] = "in"
  BY <1>1, <1>2 DEF RunCall, Runs
<1>4. /\ arrived' = arrived /\ thread_queue' = thread_queue
      /\ wakeup_session' = wakeup_session /\ mailbox' = mailbox
      /\ error_queue' = error_queue /\ log' = log
      /\ current_thread' = current_thread /\ ref' = ref
      /\ at' = [at EXCEPT ![n] = "call"] /\ phase' = "wake"
  BY <1>3 DEF RunCall, queueVars
<1>5. n \in 1..Len(arrived) /\ "call" \in Places
  BY <1>1, <1>2, <1>3 DEF SessionType, Places
<1>6. /\ Len(at') = Len(arrived) /\ at' \in Seq(Places)
      /\ \A j \in 1..Len(arrived) : at'[j] = IF j = n THEN "call" ELSE at[j]
  BY <1>1, <1>4, <1>5, Moves
<1>7. SessionType'
  BY <1>1, <1>4, <1>6 DEF SessionType
<1>8. Mail'
  BY <1>1, <1>3, <1>4, <1>6, MailStays
<1>9. Answers'
  BY <1>1, <1>2, <1>3, <1>4 DEF Answers
<1>10. Line'
  <2>1. \A k \in 1..Len(arrived) :
         /\ at'[k] \in {"in", "call", "back"} => k = n
         /\ at'[k] = "wait" => k = n
                              \/ \E i \in 1..Len(thread_queue) : thread_queue[i] = k
         /\ at'[k] \notin {"mail", "end"} => Kind(arrived[k]) # "garbled"
         /\ k < n => at'[k] = "end"
    <3>1. ~ n < n
      <4>1. n \in Nat
        BY <1>1, <1>5 DEF SessionType
      <4> QED BY <4>1
    <3> QED BY <1>1, <1>2, <1>3, <1>6, <3>1 DEF Line
  <2>2. \A i \in 1..Len(thread_queue) :
         at'[thread_queue[i]] = "wait" /\ n < thread_queue[i]
    <3> SUFFICES ASSUME NEW i \in 1..Len(thread_queue)
                 PROVE  at'[thread_queue[i]] = "wait" /\ n < thread_queue[i]
      OBVIOUS
    <3>1. thread_queue[i] \in 1..Len(arrived)
      BY <1>1 DEF SessionType
    <3>2. at[thread_queue[i]] = "wait" /\ n < thread_queue[i]
      BY <1>1, <1>2 DEF Line
    <3> QED BY <1>3, <1>6, <3>1, <3>2
  <2> QED BY <1>1, <1>2, <1>4, <2>1, <2>2 DEF Line
<1>11. Turn'
  BY <1>1, <1>2, <1>3, <1>4, <1>5, <1>6 DEF Turn
<1>12. Runs'
  <2>1. \A k \in 1..Len(arrived) : at'[k] \notin {"in", "back"}
    BY <1>1, <1>2, <1>6 DEF Line
  <2> QED BY <1>4, <2>1 DEF Runs
<1>13. Handles'
  BY <1>1, <1>3, <1>4, <1>6, HandlesStays
<1> QED BY <1>7, <1>8, <1>9, <1>10, <1>11, <1>12, <1>13 DEF SessionInv

(* Packages that cannot be read add nothing.                               *)
LEMMA GarbledSkipped ==
  ASSUME NEW s \in Seq(Bytes), NEW f, Reads(s, f),
         NEW h \in 0..Len(s), NEW j \in 0..Len(s), h <= j,
         \A i \in 1..Len(s) : h < i /\ i <= j => Kind(s[i]) = "garbled"
  PROVE  f[j] = f[h]
<1> DEFINE G == {k \in Nat : h <= k /\ k <= j => f[k] = f[h]}
<1>1. Len(s) \in Nat /\ h \in Nat /\ j \in Nat /\ j <= Len(s)
  <2>1. Len(s) \in Nat
    OBVIOUS
  <2> QED BY <2>1
<1>2. 0 \in G
  <2>1. h <= 0 => h = 0
    BY <1>1
  <2> QED BY <2>1
<1>3. ASSUME NEW k \in 0..(j - 1), k \in G PROVE k + 1 \in G
  <2>1. PICK m : m = k + 1
    OBVIOUS
  <2>2. /\ k \in Nat /\ m \in 1..Len(s) /\ m - 1 = k /\ m \in Nat /\ k <= j
        /\ m <= j /\ (h <= m => h = m \/ (h < m /\ h <= k))
    BY <1>1, <2>1
  <2>3. h <= m => f[m] = f[h]
    <3>1. SUFFICES ASSUME h < m, h <= k PROVE f[m] = f[h]
      BY <2>2
    <3>2. f[k] = f[h]
      BY <1>3, <2>2, <3>1
    <3>3. Kind(s[m]) = "garbled"
      BY <2>2, <3>1
    <3>4. f[m] = f[m - 1]
      BY <2>2, <3>3 DEF Reads
    <3> QED BY <2>2, <3>2, <3>4
  <2> QED BY <2>1, <2>2, <2>3
<1>4. 0..j \subseteq G
  <2> HIDE DEF G
  <2> QED BY <1>1, <1>2, <1>3, InductionTo
<1>5. j \in 0..j /\ j <= j /\ j \in Nat
  BY <1>1
<1> QED BY <1>4, <1>5

(* The package whose turn it is is the next that can be read.              *)
LEMMA TurnIsNext ==
  ASSUME FrameInv, SessionInv, phase = "run"
  PROVE  /\ current_thread \in 1..Len(arrived) /\ current_thread <= Len(sent[Me])
         /\ reading(sent[Me])[current_thread] = Append(log, arrived[current_thread])
         /\ \A n \in 1..Len(arrived) :
              n < current_thread => at[n] = "end"
         /\ \A n \in 1..Len(arrived) :
              current_thread < n /\ at[n] = "end" => Kind(arrived[n]) = "garbled"
<1>1. SessionType /\ Mail /\ Line /\ Runs /\ Handles
  BY DEF SessionInv
<1>2. PICK s, f, c : s = sent[Me] /\ f = reading(s) /\ c = current_thread
  OBVIOUS
<1>3. /\ s \in Seq(Bytes) /\ Len(arrived) \in Nat /\ Len(arrived) <= Len(s)
      /\ \A n \in 1..Len(arrived) : arrived[n] = s[n]
  BY <1>1, <1>2, ArrivedAsSent DEF Mail
<1>4. Reads(s, f)
  BY <1>2, <1>3, ReadingReads
<1>5. /\ c # 0 /\ at[c] \in {"in", "back"}
  BY <1>1, <1>2 DEF Runs
<1>6. /\ c \in 1..Len(arrived) /\ Kind(arrived[c]) # "garbled"
      /\ \A n \in 1..Len(arrived) : n < c => at[n] = "end"
  <2>1. c \in 1..Len(arrived)
    BY <1>1, <1>2, <1>5 DEF SessionType
  <2> QED BY <1>1, <1>2, <1>5, <2>1 DEF Line
<1>7. PICK h \in 0..Len(arrived) :
        /\ log = f[h]
        /\ \A n \in 1..Len(arrived) :
             IF n <= h THEN at[n] = "end"
             ELSE at[n] = "end" => Kind(arrived[n]) = "garbled"
        /\ h < c
  BY <1>1, <1>2, <1>5 DEF Handles
<1>8. Len(s) \in Nat /\ h \in Nat /\ c \in Nat
  <2>1. Len(s) \in Nat
    BY <1>3
  <2> QED BY <1>3, <1>6, <2>1
<1>9. PICK d : d = c - 1
  OBVIOUS
<1>10. /\ h \in 0..Len(s) /\ d \in 0..Len(s) /\ h <= d /\ c \in 1..Len(s)
       /\ c <= Len(s)
  BY <1>3, <1>6, <1>7, <1>8, <1>9
<1>11. ASSUME NEW i \in 1..Len(s), h < i, i <= d PROVE Kind(s[i]) = "garbled"
  <2>1. i \in 1..Len(arrived) /\ i < c /\ ~ i <= h
    BY <1>3, <1>6, <1>8, <1>9, <1>11
  <2> QED BY <1>3, <1>6, <1>7, <2>1
<1>12. f[d] = log
  BY <1>3, <1>4, <1>7, <1>10, <1>11, GarbledSkipped
<1>13. f[c] = Append(f[c - 1], s[c])
  BY <1>3, <1>4, <1>6, <1>10 DEF Reads
<1>14. f[c] = Append(log, arrived[c])
  BY <1>3, <1>6, <1>9, <1>12, <1>13
<1>15. ASSUME NEW n \in 1..Len(arrived), c < n, at[n] = "end"
       PROVE  Kind(arrived[n]) = "garbled"
  <2>1. ~ n <= h
    BY <1>3, <1>7, <1>8, <1>15
  <2> QED BY <1>7, <1>15, <2>1
<1> QED BY <1>2, <1>6, <1>10, <1>14, <1>15

(* xpcall_ret: the coroutine has ended, and the turn goes to the next one. *)
LEMMA SessionFinishes ==
  ASSUME FrameInv, SessionInv, sent' = sent, got' = got, phase = "run",
         finish(running), phase' \in {"idle", "wake"},
         UNCHANGED <<mailbox, arrived, error_queue>>
  PROVE  SessionInv'
<1>1. SessionType /\ Mail /\ Answers /\ Line /\ Turn /\ Runs /\ Handles
  BY DEF SessionInv
<1>2. PICK n, q : n = current_thread /\ q = thread_queue
  OBVIOUS
<1>3. /\ running = n /\ n # 0 /\ at[n] \in {"in", "back"}
      /\ wakeup_session = {} /\ ref = 1
  BY <1>1, <1>2 DEF Runs, Turn
<1>4. /\ n \in 1..Len(arrived) /\ "end" \in Places /\ n \in Nat
      /\ Len(arrived) \in Nat /\ at \in Seq(Places) /\ Len(at) = Len(arrived)
      /\ q \in Seq(1..Len(arrived)) /\ Len(q) \in Nat
  BY <1>1, <1>2, <1>3 DEF SessionType, Places
<1>5. /\ ref' = 0 /\ mailbox' = mailbox /\ arrived' = arrived
      /\ error_queue' = error_queue
      /\ at' = [at EXCEPT ![n] = "end"] /\ log' = Append(log, arrived[n])
  BY <1>3 DEF finish
<1>6. /\ q = <<>> => current_thread' = 0 /\ thread_queue' = <<>>
                     /\ wakeup_session' = {}
      /\ q # <<>> => /\ current_thread' = Head(q) /\ thread_queue' = Tail(q)
                     /\ wakeup_session' = {Head(q)}
  BY <1>2, <1>3 DEF finish, woken
<1>7. /\ Len(at') = Len(arrived) /\ at' \in Seq(Places)
      /\ \A j \in 1..Len(arrived) : at'[j] = IF j = n THEN "end" ELSE at[j]
  BY <1>1, <1>4, <1>5, Moves
<1>8. Mail'
  BY <1>1, <1>3, <1>5, <1>7, MailStays
<1>9. Answers'
  BY <1>1, <1>2, <1>3, <1>5 DEF Answers
<1>10. Runs'
  <2>1. \A k \in 1..Len(arrived) : at'[k] \notin {"in", "back"}
    BY <1>1, <1>2, <1>7 DEF Line
  <2> QED BY <1>5, <2>1 DEF Runs
<1>11. /\ reading(sent[Me])[n] = log'
       /\ \A j \in 1..Len(arrived) : j < n => at[j] = "end"
       /\ \A j \in 1..Len(arrived) :
            n < j /\ at[j] = "end" => Kind(arrived[j]) = "garbled"
  BY <1>2, <1>5, TurnIsNext
<1>12. /\ \A j \in 1..Len(arrived) :
            IF j <= n THEN at'[j] = "end"
            ELSE at'[j] = "end" => Kind(arrived[j]) = "garbled"
  <2>1. ASSUME NEW j \in 1..Len(arrived), j <= n PROVE at'[j] = "end"
    <3>1. j = n \/ j < n
      BY <1>4, <2>1
    <3> QED BY <1>7, <1>11, <3>1
  <2>2. ASSUME NEW j \in 1..Len(arrived), ~ j <= n, at'[j] = "end"
        PROVE  Kind(arrived[j]) = "garbled"
    <3>1. n < j /\ j # n
      BY <1>4, <2>2
    <3> QED BY <1>7, <1>11, <2>2, <3>1
  <2> QED BY <2>1, <2>2
<1>13. CASE q = <<>>
  <2>1. current_thread' = 0 /\ thread_queue' = <<>> /\ wakeup_session' = {}
    BY <1>6, <1>13
  <2>2. 1..Len(thread_queue) = {} /\ 1..Len(thread_queue)' = {}
    BY <1>2, <1>13, <2>1
  <2>3. SessionType'
    <3>1. thread_queue' \in Seq(1..Len(arrived)) /\ 0 \in 0..Len(arrived)
      BY <1>4, <2>1
    <3>2. mailbox' \in Seq(Messages) /\ error_queue' \in Seq(1..Len(arrived))
          /\ arrived' \in Seq(Bytes) /\ phase' \in {"idle", "wake", "run"}
      BY <1>1, <1>5 DEF SessionType
    <3> QED BY <1>5, <1>7, <2>1, <3>1, <3>2 DEF SessionType
  <2>4. Line'
    <3>1. \A k \in 1..Len(arrived) : at'[k] \notin {"in", "call", "back", "wait"}
      BY <1>1, <1>2, <1>7, <2>2 DEF Line
    <3>2. \A k \in 1..Len(arrived) : at'[k] \in Places /\ ~ k < 0
      BY <1>4, <1>7
    <3>3. \A k \in 1..Len(arrived) : at'[k] \in {"mail", "end"}
      BY <3>1, <3>2 DEF Places
    <3> QED BY <1>5, <2>1, <2>2, <3>1, <3>2, <3>3 DEF Line
  <2>5. Turn'
    BY <1>5, <2>1 DEF Turn
  <2>6. Handles'
    <3>1. n \in 0..Len(arrived)
      BY <1>4
    <3> QED BY <1>5, <1>11, <1>12, <2>1, <3>1 DEF Handles
  <2> QED BY <1>8, <1>9, <1>10, <2>3, <2>4, <2>5, <2>6 DEF SessionInv
<1>14. CASE q # <<>>
  <2>1. PICK c : c = q[1]
    OBVIOUS
  <2>2. /\ Head(q) = c /\ 1 \in 1..Len(q) /\ c \in 1..Len(arrived)
        /\ Tail(q) \in Seq(1..Len(arrived)) /\ Len(Tail(q)) \in Nat
        /\ \A i \in 1..Len(Tail(q)) : Tail(q)[i] = q[i + 1] /\ i + 1 \in 1..Len(q)
        /\ \A i \in 1..Len(q) : i # 1 => /\ i - 1 \in 1..Len(Tail(q))
                                         /\ Tail(q)[i - 1] = q[i]
    <3>1. /\ Head(q) = q[1] /\ 1 \in 1..Len(q) /\ q[1] \in 1..Len(arrived)
          /\ Tail(q) \in Seq(1..Len(arrived))
          /\ \A i \in 1..Len(Tail(q)) : Tail(q)[i] = q[i + 1] /\ i + 1 \in 1..Len(q)
          /\ \A i \in 1..Len(q) : i # 1 => /\ i - 1 \in 1..Len(Tail(q))
                                           /\ Tail(q)[i - 1] = q[i]
      BY <1>4, <1>14, Takes
    <3> QED BY <2>1, <3>1
  <2>3. /\ current_thread' = c /\ thread_queue' = Tail(q)
        /\ wakeup_session' = {c}
    BY <1>6, <1>14, <2>2
  <2>4. at[c] = "wait" /\ n < c /\ c # n /\ c # 0 /\ at'[c] = "wait" /\ c \in Nat
    <3>1. at[c] = "wait" /\ n < c
      BY <1>1, <1>2, <2>1, <2>2 DEF Line
    <3>2. c # n /\ c # 0 /\ c \in Nat
      BY <1>4, <2>2, <3>1
    <3> QED BY <1>7, <2>2, <3>1, <3>2
  <2>5. \A i \in 1..Len(q) : i # 1 => c < q[i]
    <3> SUFFICES ASSUME NEW i \in 1..Len(q), i # 1 PROVE c < q[i]
      OBVIOUS
    <3>1. 1 < i
      BY <1>4
    <3> QED BY <1>1, <1>2, <2>1, <2>2, <3>1 DEF Line
  <2>6. SessionType'
    <3>1. c \in 0..Len(arrived) /\ {c} \subseteq 1..Len(arrived)
      BY <1>4, <2>2
    <3>2. mailbox' \in Seq(Messages) /\ error_queue' \in Seq(1..Len(arrived))
          /\ arrived' \in Seq(Bytes) /\ phase' \in {"idle", "wake", "run"}
      BY <1>1, <1>5 DEF SessionType
    <3> QED BY <1>5, <1>7, <2>2, <2>3, <3>1, <3>2 DEF SessionType
  <2>7. \A i \in 1..Len(Tail(q)) : i \in Nat /\ i + 1 # 1
    BY <2>2
  <2>8. Line'
    <3>1. \A k \in 1..Len(arrived) :
            /\ at'[k] \notin {"in", "call", "back"}
            /\ at'[k] \notin {"mail", "end"} => Kind(arrived[k]) # "garbled"
      BY <1>1, <1>2, <1>7 DEF Line
    <3>2. ASSUME NEW k \in 1..Len(arrived), at'[k] = "wait"
          PROVE  k = c \/ \E i \in 1..Len(Tail(q)) : Tail(q)[i] = k
      <4>1. at[k] = "wait" /\ k # n
        BY <1>7, <3>2
      <4>2. PICK i \in 1..Len(q) : q[i] = k
        BY <1>1, <1>2, <4>1 DEF Line
      <4> QED BY <2>1, <2>2, <4>2
    <3>3. ASSUME NEW k \in 1..Len(arrived), k < c PROVE at'[k] = "end"
      <4>1. at'[k] # "wait"
        <5>1. SUFFICES ASSUME at'[k] = "wait" PROVE FALSE
          OBVIOUS
        <5>2. k # c /\ k \in Nat
          BY <1>4, <2>4, <3>3
        <5>3. PICK i \in 1..Len(Tail(q)) : Tail(q)[i] = k
          BY <3>2, <5>1, <5>2
        <5>4. c < k
          BY <2>2, <2>5, <2>7, <5>3
        <5> QED BY <2>4, <3>3, <5>2, <5>4
      <4>2. at'[k] # "mail"
        <5>1. SUFFICES ASSUME at'[k] = "mail" PROVE FALSE
          OBVIOUS
        <5>2. at[k] = "mail"
          BY <1>7, <5>1
        <5>3. c < k /\ k \in Nat
          BY <1>1, <1>4, <2>2, <2>4, <5>2 DEF Mail
        <5> QED BY <2>4, <3>3, <5>3
      <4>3. at'[k] \in Places
        BY <1>4, <1>7
      <4> QED BY <3>1, <4>1, <4>2, <4>3 DEF Places
    <3>4. ASSUME NEW i \in 1..Len(Tail(q))
          PROVE  at'[Tail(q)[i]] = "wait" /\ c < Tail(q)[i]
      <4>1. PICK k : k = Tail(q)[i]
        OBVIOUS
      <4>2. at[k] = "wait" /\ c < k /\ k \in 1..Len(arrived)
        BY <1>1, <1>2, <1>4, <2>2, <2>5, <2>7, <4>1 DEF Line
      <4>3. k # n
        BY <1>3, <4>2
      <4> QED BY <1>7, <4>1, <4>2, <4>3
    <3>5. ASSUME NEW i \in 1..Len(Tail(q)), NEW j \in 1..Len(Tail(q)), i < j
          PROVE  Tail(q)[i] < Tail(q)[j]
      <4>1. /\ i + 1 \in 1..Len(q) /\ j + 1 \in 1..Len(q)
            /\ Tail(q)[i] = q[i + 1] /\ Tail(q)[j] = q[j + 1]
        BY <2>2
      <4>2. i + 1 < j + 1
        BY <2>2, <3>5
      <4> QED BY <1>1, <1>2, <4>1, <4>2 DEF Line
    <3> QED BY <1>5, <2>3, <3>1, <3>2, <3>3, <3>4, <3>5 DEF Line
  <2>9. Turn'
    BY <1>5, <2>3, <2>4 DEF Turn
  <2>10. Handles'
    <3>1. n \in 0..Len(arrived)
      BY <1>4
    <3> QED BY <1>5, <1>11, <1>12, <2>3, <2>4, <3>1 DEF Handles
  <2> QED BY <1>8, <1>9, <1>10, <2>6, <2>8, <2>9, <2>10 DEF SessionInv
<1> QED BY <1>13, <1>14

(* The answer to a call, or an error in its place, comes.                  *)
LEMMA SessionAnswered ==
  ASSUME SessionInv, sent' = sent, got' = got, NEW n \in DOMAIN at, Answer(n)
  PROVE  SessionInv'
<1>1. SessionType /\ Mail /\ Answers /\ Line /\ Turn /\ Runs /\ Handles
  BY DEF SessionInv
<1>2. n \in 1..Len(arrived) /\ mailbox \in Seq(Messages) /\ Len(mailbox) \in Nat
      /\ Len(arrived) \in Nat
  BY <1>1 DEF SessionType
<1>3. PICK type \in {"response", "error"} :
        mailbox' = Append(mailbox, [type |-> type, session |-> n])
  BY DEF Answer
<1>4. /\ arrived' = arrived /\ at' = at /\ current_thread' = current_thread
      /\ thread_queue' = thread_queue /\ ref' = ref
      /\ wakeup_session' = wakeup_session /\ error_queue' = error_queue
      /\ phase' = phase /\ running' = running /\ log' = log
      /\ at[n] = "call" /\ \A i \in DOMAIN mailbox : mailbox[i].session # n
      /\ n \notin Range(error_queue)
  BY DEF Answer, queueVars
<1>5. n = current_thread /\ n # 0
  <2>1. n = current_thread
    BY <1>1, <1>2, <1>4 DEF Line
  <2> QED BY <1>2, <2>1
<1>6. error_queue = <<>>
  <2>1. SUFFICES ASSUME error_queue # <<>> PROVE FALSE
    OBVIOUS
  <2>2. error_queue = <<n>>
    BY <1>1, <1>5, <2>1 DEF Answers
  <2>3. n \in Range(error_queue)
    BY <2>2 DEF Range
  <2> QED BY <1>4, <2>3
<1>7. \A i \in 1..Len(mailbox) : mailbox[i].type = "client"
  <2> SUFFICES ASSUME NEW i \in 1..Len(mailbox), mailbox[i].type # "client"
               PROVE  FALSE
    OBVIOUS
  <2>1. mailbox[i].session = n
    BY <1>1, <1>5 DEF Answers
  <2>2. i \in DOMAIN mailbox
    BY <1>2
  <2> QED BY <1>4, <2>1, <2>2
<1>8. PICK m : m = [type |-> type, session |-> n]
  OBVIOUS
<1>9. m \in Messages /\ m.type # "client" /\ m.session = n
  BY <1>2, <1>8 DEF Messages
<1>10. /\ mailbox' \in Seq(Messages) /\ Len(mailbox') = Len(mailbox) + 1
       /\ \A i \in 1..Len(mailbox) : mailbox'[i] = mailbox[i]
       /\ mailbox'[Len(mailbox) + 1] = m
  BY <1>2, <1>3, <1>8, <1>9, AppendProperties
<1>11. \A i \in 1..Len(mailbox') : i \in 1..Len(mailbox) \/ i = Len(mailbox) + 1
  BY <1>2, <1>10
<1>12. \A i \in 1..Len(mailbox) : i \in 1..Len(mailbox')
  BY <1>2, <1>10
<1>13. \A i \in 1..Len(mailbox') : mailbox'[i].type # "client" =>
         i = Len(mailbox) + 1 /\ mailbox'[i].session = n
  BY <1>7, <1>9, <1>10, <1>11
<1>14. \A i \in 1..Len(mailbox') : mailbox'[i].type = "client" =>
         i \in 1..Len(mailbox)
  BY <1>9, <1>10, <1>11
<1>15. SessionType'
  BY <1>1, <1>4, <1>10 DEF SessionType
<1>16. Mail'
  <2>1. \A k \in 1..Len(arrived) : at[k] = "mail" =>
          \E i \in 1..Len(mailbox') :
            mailbox'[i].type = "client" /\ mailbox'[i].session = k
    <3> SUFFICES ASSUME NEW k \in 1..Len(arrived), at[k] = "mail"
                 PROVE  \E i \in 1..Len(mailbox') :
                          mailbox'[i].type = "client" /\ mailbox'[i].session = k
      OBVIOUS
    <3>1. PICK i \in 1..Len(mailbox) :
            mailbox[i].type = "client" /\ mailbox[i].session = k
      BY <1>1 DEF Mail
    <3>2. mailbox'[i] = mailbox[i] /\ i \in 1..Len(mailbox')
      BY <1>10, <1>12
    <3> QED BY <3>1, <3>2
  <2>2. \A i, j \in 1..Len(mailbox') :
          mailbox'[i].type = "client" /\ mailbox'[j].type = "client" /\ i < j
            => mailbox'[i].session < mailbox'[j].session
    BY <1>1, <1>10, <1>14 DEF Mail
  <2>3. \A i \in 1..Len(mailbox') : mailbox'[i].type = "client" =>
         /\ mailbox'[i].session \in 1..Len(arrived)
         /\ at[mailbox'[i].session] = "mail"
    BY <1>1, <1>10, <1>14 DEF Mail
  <2> QED BY <1>1, <1>4, <2>1, <2>2, <2>3 DEF Mail
<1>17. Answers'
  BY <1>4, <1>5, <1>6, <1>13 DEF Answers
<1>18. Line' /\ Turn' /\ Runs'
  BY <1>1, <1>4 DEF Line, Turn, Runs
<1>19. Handles'
  BY <1>1, <1>4, HandlesStays
<1> QED BY <1>15, <1>16, <1>17, <1>18, <1>19 DEF SessionInv

(* A step of the agent, or of the services it calls.                       *)
LEMMA SessionAgent ==
  ASSUME FrameInv, SessionInv, Agent, UNCHANGED <<netpackVars, sent, got>>
  PROVE  SessionInv'
<1>1. sent' = sent /\ got' = got
  OBVIOUS
<1>2. CASE Package
  BY <1>1, <1>2, SessionPackage
<1>3. CASE Response
  BY <1>1, <1>3, SessionResponse
<1>4. CASE ErrorMessage
  BY <1>1, <1>4, SessionError
<1>5. CASE RunCall
  BY <1>1, <1>5, SessionCalls
<1>6. CASE RunEnd
  <2>1. /\ phase = "run" /\ finish(running) /\ phase' \in {"idle", "wake"}
        /\ UNCHANGED <<mailbox, arrived, error_queue>>
    BY <1>6 DEF RunEnd
  <2> QED BY <1>1, <2>1, SessionFinishes
<1>7. CASE RunDie
  <2>1. /\ phase = "run" /\ finish(running) /\ phase' \in {"idle", "wake"}
        /\ UNCHANGED <<mailbox, arrived, error_queue>>
    BY <1>7 DEF RunDie
  <2> QED BY <1>1, <2>1, SessionFinishes
<1>8. CASE \E n \in wakeup_session : Wakeup(n)
  BY <1>1, <1>8, SessionWakes
<1>9. CASE WakeupError
  BY <1>1, <1>9, SessionErrorTold
<1>10. CASE WakeupDone
  <2>1. /\ phase # "run" /\ phase' \in {"idle", "wake"}
        /\ UNCHANGED <<mailbox, arrived, at, queueVars, wakeup_session,
                       error_queue, running, log>>
    BY <1>10 DEF WakeupDone
  <2> QED BY <1>1, <2>1, SessionPhase
<1> QED BY <1>2, <1>3, <1>4, <1>5, <1>6, <1>7, <1>8, <1>9, <1>10
        DEF Agent, Receive

(* The gate forwards the next packages of the connection.                  *)
LEMMA GateForwards ==
  ASSUME FrameInv, NEW fd \in Fds, NEW n \in 1..Len(stream[fd]), Gate(fd, n)
  PROVE  /\ forwarded(fd, n) \in Seq(Bytes)
         /\ got' = [got EXCEPT ![fd] = @ \o forwarded(fd, n)]
         /\ DOMAIN got = Fds /\ \A g \in Fds : got[g] \in Seq(Bytes)
<1>1. fd \in open /\ got' = [got EXCEPT ![fd] = @ \o forwarded(fd, n)]
  BY DEF Gate, SocketData
<1>2. ASSUME NEW g \in Fds PROVE got[g] \in Seq(Bytes)
  <2>1. PICK a, o, k, p : Frame(g, a, o, k, p)
    BY DEF FrameInv
  <2>2. PICK s : s = sent[g]
    OBVIOUS
  <2>3. s \in Seq(Bytes) /\ got[g] = SubSeq(s, 1, k) /\ k \in 0..Len(s)
    BY <2>1, <2>2 DEF FrameInv, Frame, Reached
  <2>4. 1 \in Nat \ {0} /\ k \in Nat /\ 1 <= k + 1 /\ k <= Len(s)
    <3>1. Len(s) \in Nat
      BY <2>3
    <3> QED BY <2>3, <3>1
  <2> QED BY <2>3, <2>4, Piece
<1>3. PICK all, off, k, p : Frame(fd, all, off, k, p)
  BY DEF FrameInv
<1>4. PICK m : Filtered(fd, n, all, off, k, p, m)
  BY <1>1, <1>3, Filters
<1>5. PICK s : s = sent[fd]
  OBVIOUS
<1>6. /\ s \in Seq(Bytes) /\ k <= m /\ m \in 0..Len(s) /\ k \in 0..Len(s)
      /\ filtered(fd, n).packs = SubSeq(s, k + 1, m)
  BY <1>4, <1>5 DEF FrameInv, Filtered
<1>7. SubSeq(s, k + 1, m) \in Seq(Bytes)
  <2>1. PICK x : x = k + 1
    OBVIOUS
  <2>2. x \in Nat \ {0} /\ m \in Nat /\ x <= m + 1 /\ m <= Len(s)
    <3>1. Len(s) \in Nat
      BY <1>6
    <3> QED BY <1>6, <2>1, <3>1
  <2> QED BY <1>6, <2>1, <2>2, Piece
<1>8. forwarded(fd, n) \in Seq(Bytes)
  BY <1>6, <1>7, Forwards
<1>9. DOMAIN got = Fds
  BY DEF FrameInv
<1> QED BY <1>1, <1>2, <1>8, <1>9

(* handler.message: packages come for the agent.                           *)
LEMMA SessionRedirects ==
  ASSUME SessionInv, sent' = sent, NEW packs \in Seq(Bytes),
         got'[Me] = got[Me] \o packs, redirect(packs)
  PROVE  SessionInv'
<1>1. SessionType /\ Mail /\ Answers /\ Line /\ Turn /\ Runs /\ Handles
  BY DEF SessionInv
<1>2. PICK l, k, m : l = Len(arrived) /\ k = Len(packs) /\ m = Len(mailbox)
  OBVIOUS
<1>3. /\ l \in Nat /\ k \in Nat /\ m \in Nat /\ DOMAIN packs = 1..k
      /\ arrived \in Seq(Bytes) /\ at \in Seq(Places) /\ Len(at) = l
      /\ mailbox \in Seq(Messages)
  BY <1>1, <1>2 DEF SessionType
<1>4. /\ arrived' = arrived \o packs
      /\ at' = at \o [i \in 1..k |-> "mail"]
      /\ mailbox' = mailbox \o [i \in 1..k |->
           [type |-> "client", session |-> l + i]]
      /\ current_thread' = current_thread
      /\ thread_queue' = thread_queue /\ ref' = ref
      /\ wakeup_session' = wakeup_session /\ error_queue' = error_queue
      /\ phase' = phase /\ running' = running /\ log' = log
  BY <1>2, <1>3 DEF redirect, queueVars
<1>5. PICK a, b : /\ a = [i \in 1..k |-> "mail"]
                  /\ b = [i \in 1..k |-> [type |-> "client", session |-> l + i]]
  OBVIOUS
<1>6. a \in Seq(Places) /\ Len(a) = k /\ \A i \in 1..k : a[i] = "mail"
  BY <1>3, <1>5 DEF Places
<1>7. /\ b \in Seq(Messages) /\ Len(b) = k
      /\ \A i \in 1..k : b[i] = [type |-> "client", session |-> l + i]
  <2>1. ASSUME NEW i \in 1..k
        PROVE  [type |-> "client", session |-> l + i] \in Messages
    BY <1>3 DEF Messages
  <2>2. b \in [1..k -> Messages] /\ \A i \in 1..k : b[i] = [type |-> "client", session |-> l + i]
    BY <1>5, <2>1
  <2>3. b \in Seq(Messages) /\ Len(b) = k
    BY <1>3, <2>2
  <2> QED BY <2>2, <2>3
<1>8. /\ arrived' \in Seq(Bytes) /\ Len(arrived') = l + k
      /\ \A i \in 1..l : arrived'[i] = arrived[i]
  <2>1. /\ arrived' \in Seq(Bytes) /\ Len(arrived') = l + k
        /\ \A i \in 1..(l + k) : arrived'[i] = IF i <= l THEN arrived[i]
                                               ELSE packs[i - l]
    BY <1>2, <1>3, <1>4, ConcatProperties
  <2>2. \A i \in 1..l : i \in 1..(l + k) /\ i <= l
    BY <1>3
  <2> QED BY <2>1, <2>2
<1>9. /\ at' \in Seq(Places) /\ Len(at') = l + k
      /\ \A i \in 1..(l + k) : at'[i] = IF i <= l THEN at[i] ELSE "mail"
  <2>1. /\ at' \in Seq(Places) /\ Len(at') = l + k
        /\ \A i \in 1..(l + k) : at'[i] = IF i <= l THEN at[i] ELSE a[i - l]
    <3>1. at' = at \o a
      BY <1>4, <1>5
    <3>2. at \in Seq(Places) /\ Len(at) = l
      BY <1>3
    <3>3. a \in Seq(Places) /\ Len(a) = k
      BY <1>6
    <3>4. /\ at \o a \in Seq(Places) /\ Len(at \o a) = Len(at) + Len(a)
          /\ \A i \in 1..(Len(at) + Len(a)) :
               (at \o a)[i] = IF i <= Len(at) THEN at[i] ELSE a[i - Len(at)]
      BY <3>2, <3>3, ConcatProperties
    <3> QED BY <3>1, <3>2, <3>3, <3>4
  <2>2. \A i \in 1..(l + k) : i <= l \/ i - l \in 1..k
    BY <1>3
  <2> QED BY <1>6, <2>1, <2>2
<1>10. /\ mailbox' \in Seq(Messages) /\ Len(mailbox') = m + k
       /\ \A i \in 1..m : mailbox'[i] = mailbox[i]
       /\ \A i \in 1..(m + k) : i \in 1..m \/
            (m < i /\ mailbox'[i] = [type |-> "client", session |-> l + (i - m)])
  <2>1. /\ mailbox' \in Seq(Messages) /\ Len(mailbox') = m + k
        /\ \A i \in 1..(m + k) : mailbox'[i] = IF i <= m THEN mailbox[i]
                                               ELSE b[i - m]
    <3>1. mailbox' = mailbox \o b
      BY <1>4, <1>5
    <3>2. b \in Seq(Messages) /\ Len(b) = k
      BY <1>7
    <3>3. /\ mailbox \o b \in Seq(Messages)
          /\ Len(mailbox \o b) = Len(mailbox) + Len(b)
          /\ \A i \in 1..(Len(mailbox) + Len(b)) :
               (mailbox \o b)[i] = IF i <= Len(mailbox) THEN mailbox[i]
                                   ELSE b[i - Len(mailbox)]
      BY <1>3, <3>2, ConcatProperties
    <3> QED BY <1>2, <3>1, <3>2, <3>3
  <2>2. \A i \in 1..(m + k) : (i <= m /\ i \in 1..m)
                              \/ (~ i <= m /\ m < i /\ i - m \in 1..k)
    BY <1>3
  <2>3. \A i \in 1..m : i \in 1..(m + k) /\ i <= m
    BY <1>3
  <2> QED BY <1>7, <2>1, <2>2, <2>3
<1>11. /\ \A i \in 1..l : i \in 1..(l + k) /\ i <= l /\ at'[i] = at[i]
       /\ \A i \in 1..(l + k) : (i \in 1..l /\ at'[i] = at[i])
                                \/ (i \notin 1..l /\ l < i /\ at'[i] = "mail")
  <2>1. \A i \in 1..l : i \in 1..(l + k) /\ i <= l
    BY <1>3
  <2>2. \A i \in 1..(l + k) : (i \in 1..l /\ i <= l)
                              \/ (i \notin 1..l /\ l < i /\ ~ i <= l)
    BY <1>3
  <2> QED BY <1>9, <2>1, <2>2
<1>12. SessionType'
  <2>1. PICK r, s : r = 1..l /\ s = 1..(l + k)
    OBVIOUS
  <2>2. r \subseteq s
    BY <1>11, <2>1
  <2>3. thread_queue' \in Seq(s) /\ error_queue' \in Seq(s)
        /\ wakeup_session' \subseteq s
    <3>1. thread_queue \in Seq(r) /\ error_queue \in Seq(r)
          /\ wakeup_session \subseteq r
      BY <1>1, <1>2, <2>1 DEF SessionType
    <3> QED BY <1>4, <2>2, <3>1, SeqMonotonic
  <2>4. current_thread' \in 0..(l + k)
    BY <1>1, <1>2, <1>3, <1>4 DEF SessionType
  <2>5. ref' \in {0, 1} /\ phase' \in {"idle", "run", "wake"}
    BY <1>1, <1>4 DEF SessionType
  <2> QED BY <1>8, <1>9, <1>10, <2>1, <2>3, <2>4, <2>5 DEF SessionType
<1>13. /\ current_thread # 0 => current_thread \in 1..l
       /\ \A i \in 1..Len(thread_queue) : thread_queue[i] \in 1..l
  <2>1. current_thread \in 0..l /\ thread_queue \in Seq(1..l)
    BY <1>1, <1>2 DEF SessionType
  <2>2. current_thread # 0 => current_thread \in 1..l
    BY <1>3, <2>1
  <2>3. \A i \in 1..Len(thread_queue) : thread_queue[i] \in 1..l
    BY <2>1, ElementOfSeq
  <2> QED BY <2>2, <2>3
<1>14. Mail'
  <2>1. arrived' = got'[Me]
    BY <1>1, <1>4 DEF Mail
  <2>2. ASSUME NEW i \in 1..(m + k), mailbox'[i].type = "client"
        PROVE  /\ mailbox'[i].session \in 1..(l + k)
               /\ at'[mailbox'[i].session] = "mail"
    <3>1. CASE i \in 1..m
      <4>1. mailbox[i].session \in 1..l /\ at[mailbox[i].session] = "mail"
        BY <1>1, <1>2, <1>10, <2>2, <3>1 DEF Mail
      <4> QED BY <1>10, <1>11, <3>1, <4>1
    <3>2. CASE i \notin 1..m
      <4>1. PICK y : y = l + (i - m)
        OBVIOUS
      <4>2. mailbox'[i].session = y /\ m < i
        BY <1>10, <3>2, <4>1
      <4>3. y \in 1..(l + k) /\ y \notin 1..l
        BY <1>3, <4>1, <4>2
      <4> QED BY <1>11, <4>2, <4>3
    <3> QED BY <3>1, <3>2
  <2>3. ASSUME NEW i \in 1..(m + k), NEW j \in 1..(m + k),
               mailbox'[i].type = "client", mailbox'[j].type = "client", i < j
        PROVE  mailbox'[i].session < mailbox'[j].session
    <3>1. CASE j \in 1..m
      <4>1. i \in 1..m
        BY <1>3, <2>3, <3>1
      <4> QED BY <1>1, <1>2, <1>10, <2>3, <3>1, <4>1 DEF Mail
    <3>2. CASE j \notin 1..m
      <4>1. PICK y : y = l + (j - m)
        OBVIOUS
      <4>2. mailbox'[j].session = y /\ m < j
        BY <1>10, <3>2, <4>1
      <4>3. y \in Nat /\ l < y
        BY <1>3, <4>1, <4>2
      <4>4. CASE i \in 1..m
        <5>1. mailbox[i].session \in 1..l
          BY <1>1, <1>2, <1>10, <2>3, <4>4 DEF Mail
        <5>2. mailbox[i].session < y
          BY <1>3, <4>3, <5>1
        <5> QED BY <1>10, <4>2, <4>4, <5>2
      <4>5. CASE i \notin 1..m
        <5>1. PICK x : x = l + (i - m)
          OBVIOUS
        <5>2. mailbox'[i].session = x
          BY <1>10, <4>5, <5>1
        <5>3. x < y
          BY <1>3, <2>3, <4>1, <5>1
        <5> QED BY <4>2, <5>2, <5>3
      <4> QED BY <4>4, <4>5
    <3> QED BY <3>1, <3>2
  <2>4. ASSUME NEW n \in 1..(l + k), at'[n] = "mail"
        PROVE  \E i \in 1..(m + k) :
                 mailbox'[i].type = "client" /\ mailbox'[i].session = n
    <3>1. \A i \in 1..m : i \in 1..(m + k)
      BY <1>3
    <3>2. CASE n \in 1..l
      <4>1. at[n] = "mail"
        BY <1>11, <2>4, <3>2
      <4>2. PICK i \in 1..m : mailbox[i].type = "client" /\ mailbox[i].session = n
        BY <1>1, <1>2, <3>2, <4>1 DEF Mail
      <4> QED BY <1>10, <3>1, <4>2
    <3>3. CASE n \notin 1..l
      <4>1. PICK i : i = m + (n - l)
        OBVIOUS
      <4>2. l < n
        BY <1>11, <3>3
      <4>3. i \in 1..(m + k) /\ i \notin 1..m /\ l + (i - m) = n
        BY <1>3, <4>1, <4>2
      <4>4. mailbox'[i] = [type |-> "client", session |-> n]
        BY <1>10, <4>3
      <4>5. mailbox'[i].type = "client" /\ mailbox'[i].session = n
        BY <4>4
      <4> QED BY <4>3, <4>5
    <3> QED BY <3>2, <3>3
  <2>5. ASSUME NEW i \in 1..(l + k), NEW n \in 1..(l + k),
               at'[i] # "mail", at'[n] = "mail"
        PROVE  i < n
    <3>1. i \in 1..l /\ at[i] # "mail"
      BY <1>11, <2>5
    <3>2. CASE n \in 1..l
      <4>1. at[n] = "mail"
        BY <1>11, <2>5, <3>2
      <4> QED BY <1>1, <1>2, <3>1, <3>2, <4>1 DEF Mail
    <3>3. CASE n \notin 1..l
      BY <1>3, <3>1, <3>3
    <3> QED BY <3>2, <3>3
  <2> QED BY <1>8, <1>10, <2>1, <2>2, <2>3, <2>4, <2>5 DEF Mail
<1>15. Answers'
  <2>1. current_thread # 0 => at'[current_thread] = at[current_thread]
    BY <1>11, <1>13
  <2>2. \A i \in 1..(m + k) : mailbox'[i].type # "client" =>
          i \in 1..m /\ mailbox'[i] = mailbox[i]
    <3> SUFFICES ASSUME NEW i \in 1..(m + k), i \notin 1..m
                 PROVE  mailbox'[i].type = "client"
      BY <1>10
    <3>1. mailbox'[i] = [type |-> "client", session |-> l + (i - m)]
      BY <1>10
    <3> QED BY <3>1
  <2>3. \A i \in 1..(m + k) : mailbox'[i].type # "client" =>
          /\ mailbox'[i].session = current_thread /\ current_thread # 0
          /\ at'[current_thread] = "call" /\ error_queue = <<>>
    BY <1>1, <1>2, <2>1, <2>2 DEF Answers
  <2>4. \A i, j \in 1..(m + k) :
          mailbox'[i].type # "client" /\ mailbox'[j].type # "client" => i = j
    BY <1>1, <1>2, <2>2 DEF Answers
  <2>5. error_queue # <<>> =>
          /\ error_queue = <<current_thread>> /\ current_thread # 0
          /\ at'[current_thread] = "call"
    BY <1>1, <2>1 DEF Answers
  <2> QED BY <1>4, <1>10, <2>3, <2>4, <2>5 DEF Answers
<1>16. Line'
  <2>1. ASSUME NEW n \in 1..(l + k)
        PROVE /\ at'[n] \in {"in", "call", "back"} => n = current_thread
              /\ at'[n] = "wait" => n = current_thread
                   \/ \E i \in 1..Len(thread_queue) : thread_queue[i] = n
              /\ at'[n] \notin {"mail", "end"} => Kind(arrived'[n]) # "garbled"
              /\ n < current_thread => at'[n] = "end"
    <3>1. CASE n \in 1..l
      <4>1. at'[n] = at[n] /\ arrived'[n] = arrived[n] /\ n \in 1..Len(arrived)
        BY <1>2, <1>8, <1>11, <3>1
      <4>2. /\ at[n] \in {"in", "call", "back"} => n = current_thread
            /\ at[n] = "wait" => n = current_thread
                 \/ \E i \in 1..Len(thread_queue) : thread_queue[i] = n
            /\ at[n] \notin {"mail", "end"} => Kind(arrived[n]) # "garbled"
            /\ n < current_thread => at[n] = "end"
        BY <1>1, <4>1, Zenon DEF Line
      <4> QED BY <4>1, <4>2
    <3>2. CASE n \notin 1..l
      <4>1. at'[n] = "mail" /\ l < n
        BY <1>11, <3>2
      <4>2. ~ n < current_thread
        <5>1. current_thread \in Nat /\ current_thread <= l
          BY <1>1, <1>2, <1>3 DEF SessionType
        <5> QED BY <1>3, <4>1, <5>1
      <4> QED BY <4>1, <4>2
    <3> QED BY <3>1, <3>2
  <2>2. \A i \in 1..Len(thread_queue) :
          at'[thread_queue[i]] = "wait" /\ current_thread < thread_queue[i]
    BY <1>1, <1>11, <1>13 DEF Line
  <2>3. \A i, j \in 1..Len(thread_queue) :
          i < j => thread_queue[i] < thread_queue[j]
    BY <1>1, Zenon DEF Line
  <2>4. 1..Len(arrived') = 1..(l + k)
    BY <1>8
  <2> QED BY <1>4, <2>1, <2>2, <2>3, <2>4, Zenon DEF Line
<1>17. Turn'
  <2>1. current_thread # 0 => at'[current_thread] = at[current_thread]
    BY <1>11, <1>13
  <2> QED BY <1>1, <1>4, <2>1 DEF Turn
<1>18. Runs'
  <2>1. current_thread # 0 => at'[current_thread] = at[current_thread]
    BY <1>11, <1>13
  <2>2. phase # "run" => \A n \in 1..(l + k) : at'[n] \notin {"in", "back"}
    BY <1>1, <1>2, <1>11 DEF Runs
  <2> QED BY <1>1, <1>4, <1>8, <2>1, <2>2 DEF Runs
<1>19. Handles'
  <2>1. PICK h \in 0..l :
          /\ log = reading(sent[Me])[h]
          /\ \A n \in 1..l : IF n <= h THEN at[n] = "end"
                             ELSE at[n] = "end" => Kind(arrived[n]) = "garbled"
          /\ current_thread # 0 => h < current_thread
    BY <1>1, <1>2 DEF Handles
  <2>2. h \in 0..(l + k) /\ \A n \in 1..(l + k) : l < n => ~ n <= h
    BY <1>3
  <2>3. \A n \in 1..(l + k) :
          IF n <= h THEN at'[n] = "end"
          ELSE at'[n] = "end" => Kind(arrived'[n]) = "garbled"
    BY <1>8, <1>11, <2>1, <2>2
  <2> QED BY <1>4, <1>8, <2>1, <2>2, <2>3 DEF Handles
<1> QED BY <1>12, <1>14, <1>15, <1>16, <1>17, <1>18, <1>19 DEF SessionInv

(* Every step preserves the invariant of the session.                      *)
LEMMA SessionNext ==
  FrameInv /\ SessionInv /\ [Next]_vars => SessionInv'
<1> SUFFICES ASSUME FrameInv, SessionInv, [Next]_vars PROVE SessionInv'
  OBVIOUS
<1>1. ASSUME NEW fd \in Fds, NEW n \in 1..Len(stream[fd]), Gate(fd, n)
      PROVE  SessionInv'
  <2>1. /\ forwarded(fd, n) \in Seq(Bytes)
        /\ got' = [got EXCEPT ![fd] = @ \o forwarded(fd, n)]
        /\ DOMAIN got = Fds /\ sent' = sent
    BY <1>1, GateForwards DEF Gate
  <2>2. CASE fd = Me
    <3>1. redirect(forwarded(fd, n))
      BY <1>1, <2>2 DEF Gate
    <3>2. got'[Me] = got[Me] \o forwarded(fd, n)
      BY <2>1, <2>2
    <3> QED BY <2>1, <3>1, <3>2, SessionRedirects
  <2>3. CASE fd # Me
    <3>1. UNCHANGED sessionVars
      BY <1>1, <2>3 DEF Gate
    <3>2. got'[Me] = got[Me]
      BY <2>1, <2>3, StreamAssumption
    <3> QED BY <2>1, <3>1, <3>2, SessionStays
  <2> QED BY <2>2, <2>3
<1>2. ASSUME NEW fd \in Fds, SocketClose(fd), UNCHANGED <<sessionVars, sent, got>>
      PROVE  SessionInv'
  <2>1. UNCHANGED sessionVars /\ sent' = sent /\ got' = got
    BY <1>2
  <2> QED BY <2>1, SessionStays
<1>3. CASE Agent /\ UNCHANGED <<netpackVars, sent, got>>
  BY <1>3, SessionAgent
<1>4. CASE OtherMessage /\ UNCHANGED <<netpackVars, sent, got>>
  <2>1. /\ phase # "run" /\ phase' \in {"idle", "wake"}
        /\ UNCHANGED <<mailbox, arrived, at, queueVars, wakeup_session,
                       error_queue, running, log>>
        /\ sent' = sent /\ got' = got
    BY <1>4 DEF OtherMessage
  <2> QED BY <2>1, SessionPhase
<1>5. ASSUME NEW n \in DOMAIN at, Answer(n), UNCHANGED <<netpackVars, sent, got>>
      PROVE  SessionInv'
  BY <1>5, SessionAnswered
<1>6. CASE UNCHANGED vars
  <2>1. UNCHANGED sessionVars /\ sent' = sent /\ got' = got
    BY <1>6 DEF vars
  <2> QED BY <2>1, SessionStays
<1> QED BY <1>1, <1>2, <1>3, <1>4, <1>5, <1>6 DEF Next

(* In every reachable state of the agent, the turn of skynet.queue, its    *)
(* list, the mailbox and what has been handled agree (SessionInv).         *)
THEOREM Sessions == Spec => []SessionInv
<1> QED BY Frames, FrameInit, SessionInits, SessionNext, PTL DEF Spec

(* The invariant of the session says that the turn is taken.               *)
LEMMA TurnFollows == SessionInv => TurnIsTaken
<1> SUFFICES ASSUME SessionInv, phase = "idle", NEW n \in DOMAIN at, at[n] = "wait"
             PROVE  /\ current_thread # 0
                    /\ \/ at[current_thread] = "call"
                       \/ current_thread \in wakeup_session
  BY DEF TurnIsTaken
<1>1. SessionType /\ Line /\ Turn /\ Runs
  BY DEF SessionInv
<1>2. n \in 1..Len(arrived) /\ n # 0
  BY <1>1 DEF SessionType
<1>3. current_thread # 0
  <2>1. SUFFICES ASSUME current_thread = 0 PROVE FALSE
    OBVIOUS
  <2>2. thread_queue = <<>>
    BY <1>1, <2>1 DEF Turn
  <2>3. 1..Len(thread_queue) = {}
    BY <2>2
  <2> QED BY <1>1, <1>2, <2>1, <2>3 DEF Line
<1>4. current_thread \in 1..Len(arrived)
  BY <1>1, <1>3 DEF SessionType
<1>5. at[current_thread] \notin {"in", "back"}
  BY <1>1, <1>4 DEF Runs
<1> QED BY <1>1, <1>3, <1>5 DEF Turn

(* While packages wait, the one whose turn it is will be resumed.          *)
THEOREM TurnPassesOn == Spec => []TurnIsTaken
<1> QED BY Sessions, TurnFollows, PTL

(* A package that can be read and is not handled is still to be served.    *)
LEMMA MoreToServe ==
  ASSUME FrameInv, SessionInv, NEW n \in 1..Len(arrived),
         Kind(arrived[n]) # "garbled", at[n] # "end"
  PROVE  Len(log) < Len(readable(sent[Me]))
<1>1. SessionType /\ Mail /\ Handles
  BY DEF SessionInv
<1>2. PICK s, f, r : s = sent[Me] /\ f = reading(s) /\ r = readable(s)
  OBVIOUS
<1>3. /\ s \in Seq(Bytes) /\ Len(arrived) \in Nat /\ Len(arrived) <= Len(s)
      /\ \A i \in 1..Len(arrived) : arrived[i] = s[i]
  BY <1>1, <1>2, ArrivedAsSent DEF Mail
<1>4. Reads(s, f) /\ r = f[Len(s)]
  BY <1>2, <1>3, ReadingReads
<1>5. PICK h \in 0..Len(arrived) :
        log = f[h] /\ \A i \in 1..Len(arrived) : i <= h => at[i] = "end"
  BY <1>1, <1>2 DEF Handles
<1>6. Len(s) \in Nat
  BY <1>3
<1>7. PICK d : d = n - 1
  OBVIOUS
<1>8. ~ n <= h
  BY <1>5
<1>9. /\ h \in 0..Len(s) /\ d \in 0..Len(s) /\ h <= d
      /\ n \in 0..Len(s) /\ n \in 1..Len(s) /\ Len(s) \in 0..Len(s) /\ n <= Len(s)
  BY <1>3, <1>6, <1>7, <1>8
<1>10. f[h] \in Seq(Bytes) /\ f[d] \in Seq(Bytes) /\ Len(f[h]) <= Len(f[d])
  BY <1>3, <1>4, <1>9, ReadsGrow
<1>11. f[n] \in Seq(Bytes) /\ r \in Seq(Bytes) /\ Len(f[n]) <= Len(r)
  BY <1>3, <1>4, <1>9, ReadsGrow
<1>12. f[n] = Append(f[d], s[n]) /\ s[n] \in Bytes
  <2>1. Kind(s[n]) # "garbled" /\ s[n] \in Bytes
    BY <1>3, <1>9
  <2>2. f[n] = Append(f[n - 1], s[n])
    BY <1>4, <1>9, <2>1 DEF Reads
  <2> QED BY <1>7, <2>1, <2>2
<1>13. Len(f[n]) = Len(f[d]) + 1
  BY <1>10, <1>12, AppendProperties
<1>14. PICK x, y, z, w : x = Len(f[h]) /\ y = Len(f[d]) /\ z = Len(f[n]) /\ w = Len(r)
  OBVIOUS
<1>15. x \in Nat /\ y \in Nat /\ w \in Nat /\ x <= y /\ z = y + 1 /\ z <= w
  BY <1>10, <1>11, <1>13, <1>14
<1>16. x < w
  BY <1>15
<1> QED BY <1>2, <1>5, <1>14, <1>16

(* The package whose turn it is is the next to be served.                  *)
LEMMA NextServed ==
  ASSUME FrameInv, SessionInv, phase = "run"
  PROVE  readable(sent[Me])[Len(log) + 1] = arrived[current_thread]
<1>1. SessionType /\ Mail /\ Handles
  BY DEF SessionInv
<1>2. PICK s, f, r, c : /\ s = sent[Me] /\ f = reading(s) /\ r = readable(s)
                        /\ c = current_thread
  OBVIOUS
<1>3. s \in Seq(Bytes) /\ Len(arrived) \in Nat /\ Len(arrived) <= Len(s)
      /\ arrived \in Seq(Bytes)
  BY <1>1, <1>2, ArrivedAsSent DEF Mail, SessionType
<1>4. Reads(s, f) /\ r = f[Len(s)]
  BY <1>2, <1>3, ReadingReads
<1>5. c \in 1..Len(arrived) /\ f[c] = Append(log, arrived[c])
  BY <1>2, TurnIsNext
<1>6. Len(s) \in Nat
  BY <1>3
<1>7. c \in 0..Len(s) /\ Len(s) \in 0..Len(s) /\ c <= Len(s)
  BY <1>3, <1>5, <1>6
<1>8. f[c] \in Seq(Bytes) /\ \A x \in 1..Len(f[c]) : r[x] = f[c][x]
  BY <1>3, <1>4, <1>7, ReadsGrow
<1>9. PICK h \in 0..Len(arrived) : log = f[h]
  BY <1>1, <1>2 DEF Handles
<1>10. log \in Seq(Bytes) /\ arrived[c] \in Bytes
  <2>1. h \in 0..Len(s)
    BY <1>3, <1>6
  <2>2. f[h] \in Seq(Bytes)
    BY <1>4, <2>1 DEF Reads
  <2>3. arrived[c] \in Bytes
    BY <1>3, <1>5, ElementOfSeq
  <2> QED BY <1>9, <2>2, <2>3
<1>11. Len(f[c]) = Len(log) + 1 /\ f[c][Len(log) + 1] = arrived[c]
  BY <1>5, <1>10, AppendProperties
<1>12. Len(log) + 1 \in 1..Len(f[c])
  <2>1. Len(log) \in Nat
    BY <1>10
  <2> QED BY <1>11, <2>1
<1> QED BY <1>2, <1>8, <1>11, <1>12

(* A coroutine that enters the queue begins to serve the next package.     *)
LEMMA Begins ==
  ASSUME FrameInv, SessionInv, NEW n \in 1..Len(arrived),
         Kind(arrived[n]) # "garbled", at[n] # "end",
         ref = 0, ref' = ref + 1, log' = log, sent' = sent
  PROVE  InOrder!Begin /\ UNCHANGED readable(sent[Me])
<1>1. Len(log) < Len(readable(sent[Me]))
  BY MoreToServe
<1>2. ~ (ref > 0) /\ (ref > 0)' = TRUE
  OBVIOUS
<1>3. UNCHANGED readable(sent[Me])
  BY DEF readable
<1> QED BY <1>1, <1>2, <1>3 DEF InOrder!Begin

(* xpcall_ret ends the serving of the next package.                        *)
LEMMA Ends ==
  ASSUME FrameInv, SessionInv, phase = "run", finish(running), sent' = sent
  PROVE  InOrder!End /\ UNCHANGED readable(sent[Me])
<1>1. running = current_thread /\ ref = 1
  BY DEF SessionInv, Runs, Turn
<1>2. ref' = 0 /\ log' = Append(log, arrived[current_thread])
  BY <1>1 DEF finish
<1>3. log' = Append(log, readable(sent[Me])[Len(log) + 1])
  BY <1>2, NextServed
<1>4. ref > 0 /\ (ref > 0)' = FALSE
  BY <1>1, <1>2
<1>5. UNCHANGED readable(sent[Me])
  BY DEF readable
<1> QED BY <1>3, <1>4, <1>5 DEF InOrder!End

(* Any other step serves nothing.                                          *)
LEMMA Stutters ==
  ASSUME ref' = ref, log' = log, sent' = sent
  PROVE  UNCHANGED <<readable(sent[Me]), log, ref > 0>>
BY DEF readable

(* An agent that starts has served nothing.                                *)
LEMMA SerialInits == Init => InOrder!Init
<1> SUFFICES ASSUME Init PROVE InOrder!Init
  OBVIOUS
<1>1. log = <<>> /\ ref = 0
  BY DEF Init, SessionInit
<1>2. (ref > 0) = FALSE
  BY <1>1
<1> QED BY <1>1, <1>2 DEF InOrder!Init

SerialStep ==
  [(InOrder!Begin \/ InOrder!End) /\ UNCHANGED readable(sent[Me])]_<<
    readable(sent[Me]), log, ref > 0>>

(* Every step of the agent, the gate or the other services maps to a step  *)
(* of Serial or to a stutter.                                              *)
LEMMA SerialNext ==
  FrameInv /\ SessionInv /\ [Next]_vars => SerialStep
<1> SUFFICES ASSUME FrameInv, SessionInv, [Next]_vars PROVE SerialStep
  OBVIOUS
<1>1. SessionType /\ Mail /\ Line /\ Turn /\ Runs
  BY DEF SessionInv
<1>2. ASSUME UNCHANGED <<ref, log, sent>> PROVE SerialStep
  BY <1>2, Stutters DEF SerialStep
<1>3. ASSUME NEW fd \in Fds, NEW n \in 1..Len(stream[fd]), Gate(fd, n)
      PROVE  SerialStep
  <2>1. UNCHANGED <<ref, log, sent>>
    BY <1>3 DEF Gate, redirect, sessionVars, queueVars
  <2> QED BY <1>2, <2>1
<1>4. ASSUME NEW fd \in Fds, SocketClose(fd), UNCHANGED <<sessionVars, sent, got>>
      PROVE  SerialStep
  <2>1. UNCHANGED <<ref, log, sent>>
    BY <1>4 DEF sessionVars, queueVars
  <2> QED BY <1>2, <2>1
<1>5. ASSUME Package, sent' = sent PROVE SerialStep
  <2>1. PICK n : n = Head(mailbox).session
    OBVIOUS
  <2>2. CASE UNCHANGED <<ref, log>>
    BY <1>2, <1>5, <2>2
  <2>3. CASE /\ Kind(arrived[n]) # "garbled" /\ ~must_wait(n)
             /\ enter(n)
    <3>1. /\ mailbox \in Seq(Messages) /\ mailbox # <<>>
          /\ Head(mailbox).type = "client"
      BY <1>1, <1>5 DEF SessionType, Package
    <3>2. Head(mailbox) = mailbox[1] /\ 1 \in 1..Len(mailbox)
      BY <3>1, Takes
    <3>3. n \in 1..Len(arrived) /\ at[n] = "mail"
      BY <1>1, <2>1, <3>1, <3>2 DEF Mail
    <3>4. current_thread = 0
      <4>1. current_thread \in {0, n}
        BY <2>3 DEF must_wait
      <4> QED BY <1>1, <3>3, <4>1 DEF Turn
    <3>5. ref = 0 /\ ref' = ref + 1 /\ log' = log
      BY <1>1, <1>5, <2>3, <3>4 DEF Turn, enter, Package
    <3> QED BY <1>5, <2>3, <3>3, <3>5, Begins DEF SerialStep
  <2> QED BY <1>5, <2>1, <2>2, <2>3 DEF Package, queueVars
<1>6. ASSUME NEW n \in wakeup_session, Wakeup(n), sent' = sent PROVE SerialStep
  <2>1. /\ current_thread # 0 /\ at[current_thread] = "wait"
        /\ wakeup_session = {current_thread} /\ ref = 0
    BY <1>1, <1>6 DEF Turn
  <2>2. n \in 1..Len(arrived) /\ at[n] = "wait"
    BY <1>1, <1>6, <2>1 DEF SessionType
  <2>3. Kind(arrived[n]) # "garbled"
    BY <1>1, <2>2 DEF Line
  <2>4. ref' = ref + 1 /\ log' = log
    BY <1>6 DEF Wakeup, enter
  <2> QED BY <1>6, <2>1, <2>2, <2>3, <2>4, Begins DEF SerialStep
<1>7. ASSUME RunEnd \/ RunDie, sent' = sent PROVE SerialStep
  <2>1. phase = "run" /\ finish(running)
    BY <1>7 DEF RunEnd, RunDie
  <2> QED BY <1>7, <2>1, Ends DEF SerialStep
<1>8. ASSUME \/ Response \/ ErrorMessage \/ OtherMessage \/ RunCall
             \/ WakeupError \/ WakeupDone
             \/ \E n \in DOMAIN at : Answer(n),
             sent' = sent
      PROVE  SerialStep
  <2>1. UNCHANGED <<ref, log, sent>>
    BY <1>8 DEF Response, ErrorMessage, OtherMessage, RunCall, WakeupError,
                WakeupDone, Answer, queueVars
  <2> QED BY <1>2, <2>1
<1>9. CASE UNCHANGED vars
  <2>1. UNCHANGED <<ref, log, sent>>
    BY <1>9 DEF vars, sessionVars, queueVars
  <2> QED BY <1>2, <2>1
<1>10. CASE Agent /\ UNCHANGED <<netpackVars, sent, got>>
  BY <1>5, <1>6, <1>7, <1>8, <1>10 DEF Agent, Receive
<1> QED BY <1>3, <1>4, <1>8, <1>9, <1>10 DEF Next

(* Everything the agent does is a step of Serial.                          *)
THEOREM ImplementsSerial == Spec => SerialSpec
<1> QED BY Frames, Sessions, SerialInits, SerialNext, PTL
        DEF Spec, SerialSpec, SerialStep, InOrder!Spec
==============================================================================
