------------------------- MODULE SocketServerProofs -------------------------
(***************************************************************************)
(* The socket server keeps its promises for every number of slots, ids,    *)
(* messages and requests. The bytes of one connection are seen as a stream:*)
(* what has been written, then the high list, then the low list. A message *)
(* is one block of it; the blocks of one priority are in order; and no     *)
(* block crosses the place where the low list begins. A write moves bytes  *)
(* from the lists to the wire, which changes no place in the stream, and   *)
(* raise_uncomplete moves the place where the low list begins to the end   *)
(* of a block. A message that is taken is put in at the end of the stream, *)
(* or where the low list begins. Around this, the inductive invariant IInv *)
(* says whose slot it is: the event of a slot that a request has freed is  *)
(* cleared before the next event is looked at, and nothing has happened to *)
(* an id before its request to open is taken. OwnInv, on top of it, says   *)
(* that every event of the batch is of the socket it was read for, unless  *)
(* the close of that socket has missed it or is about to clear it.         *)
(***************************************************************************)
EXTENDS SocketServer, SequenceTheorems, FiniteSetTheorems,
        WellFoundedInduction, TLAPS


(* A set of numbers that is not empty has a least one.                     *)
LEMMA LeastNumber ==
  ASSUME NEW T \in SUBSET Nat, T # {}
  PROVE  \E m \in T : \A k \in T : m <= k
<1>1. PICK m \in T : \A k \in T : <<k, m>> \notin OpToRel(<, Nat)
  BY NatLessThanWellFounded, WFMin
<1>2. \A k \in T : ~ (k < m)
  BY <1>1 DEF OpToRel
<1> QED BY <1>2

(* HASH_ID names a slot.                                                   *)
LEMMA HashInSlots ==
  ASSUME NEW id \in Nat
  PROVE  HASH_ID(id) \in Slots
BY SocketAssumption DEF HASH_ID, Slots

(* reserve_id gives out a new id, whose slot is free.                      *)
LEMMA Reservable ==
  ASSUME alloc_id \in Ids, reservable # {}, Min(reservable) <= MaxAlloc
  PROVE  /\ Min(reservable) \in Ids /\ alloc_id < Min(reservable)
         /\ Free(Min(reservable))
<1>1. alloc_id \in Nat /\ MaxSocket \in Nat
  BY SocketAssumption DEF Ids
<1>2. reservable \in SUBSET Nat
  BY <1>1 DEF reservable
<1>3. PICK m \in reservable : \A k \in reservable : m <= k
  BY <1>2, LeastNumber
<1>4. Min(reservable) \in reservable
  BY <1>3 DEF Min
<1>5. Min(reservable) \in (alloc_id + 1)..(alloc_id + MaxSocket)
      /\ Free(Min(reservable))
  BY <1>4 DEF reservable
<1> QED BY <1>1, <1>5, SocketAssumption DEF Ids

-----------------------------------------------------------------------------
(* Pieces of sequences.                                                    *)
LEMMA Piece ==
  ASSUME NEW S, NEW t \in Seq(S), NEW a \in Nat \ {0}, NEW b \in Nat,
         a <= b + 1, b <= Len(t)
  PROVE  /\ SubSeq(t, a, b) \in Seq(S) /\ Len(SubSeq(t, a, b)) = b - a + 1
         /\ \A i \in 1..(b - a + 1) : SubSeq(t, a, b)[i] = t[a + i - 1]
<1>1. \A i \in a..b : t[i] \in S
  OBVIOUS
<1> QED BY <1>1, SubSeqProperties

(* The first n elements of a sequence.                                     *)
LEMMA First ==
  ASSUME NEW S, NEW t \in Seq(S), NEW n \in 0..Len(t)
  PROVE  /\ SubSeq(t, 1, n) \in Seq(S) /\ Len(SubSeq(t, 1, n)) = n
         /\ \A i \in 1..n : SubSeq(t, 1, n)[i] = t[i]
<1>1. 1 \in Nat \ {0} /\ n \in Nat /\ 1 <= n + 1 /\ n <= Len(t)
      /\ n - 1 + 1 = n /\ \A i \in 1..n : 1 + i - 1 = i
  OBVIOUS
<1>2. /\ SubSeq(t, 1, n) \in Seq(S) /\ Len(SubSeq(t, 1, n)) = n - 1 + 1
      /\ \A i \in 1..(n - 1 + 1) : SubSeq(t, 1, n)[i] = t[1 + i - 1]
  BY <1>1, Piece
<1> QED BY <1>1, <1>2

(* What follows the first n elements.                                      *)
LEMMA Rest ==
  ASSUME NEW S, NEW t \in Seq(S), NEW n \in 0..Len(t)
  PROVE  /\ SubSeq(t, n + 1, Len(t)) \in Seq(S)
         /\ Len(SubSeq(t, n + 1, Len(t))) = Len(t) - n
         /\ \A i \in 1..(Len(t) - n) : SubSeq(t, n + 1, Len(t))[i] = t[n + i]
<1>1. PICK a, b : a = n + 1 /\ b = Len(t)
  OBVIOUS
<1>2. a \in Nat \ {0} /\ b \in Nat /\ a <= b + 1 /\ b <= Len(t)
      /\ b - a + 1 = Len(t) - n
      /\ \A i \in 1..(Len(t) - n) : a + i - 1 = n + i
  BY <1>1
<1>3. /\ SubSeq(t, a, b) \in Seq(S) /\ Len(SubSeq(t, a, b)) = b - a + 1
      /\ \A i \in 1..(b - a + 1) : SubSeq(t, a, b)[i] = t[a + i - 1]
  BY <1>2, Piece
<1> QED BY <1>1, <1>2, <1>3

(* Two sequences, one behind the other.                                    *)
LEMMA Joined ==
  ASSUME NEW S, NEW t \in Seq(S), NEW u \in Seq(S)
  PROVE  /\ t \o u \in Seq(S) /\ Len(t \o u) = Len(t) + Len(u)
         /\ \A i \in 1..Len(t) : (t \o u)[i] = t[i]
         /\ \A i \in 1..Len(u) : (t \o u)[Len(t) + i] = u[i]
<1>1. Len(t) \in Nat /\ Len(u) \in Nat
  OBVIOUS
<1>2. /\ t \o u \in Seq(S) /\ Len(t \o u) = Len(t) + Len(u)
      /\ \A i \in 1..(Len(t) + Len(u)) :
           (t \o u)[i] = IF i <= Len(t) THEN t[i] ELSE u[i - Len(t)]
  BY ConcatProperties
<1>3. ASSUME NEW i \in 1..Len(t) PROVE (t \o u)[i] = t[i]
  <2>1. i \in 1..(Len(t) + Len(u)) /\ i <= Len(t)
    BY <1>1
  <2> QED BY <1>2, <2>1
<1>4. ASSUME NEW i \in 1..Len(u) PROVE (t \o u)[Len(t) + i] = u[i]
  <2>1. PICK n : n = Len(t)
    OBVIOUS
  <2>2. n + i \in 1..(n + Len(u)) /\ ~ n + i <= n /\ (n + i) - n = i
    BY <1>1, <2>1
  <2> QED BY <1>2, <2>1, <2>2
<1> QED BY <1>2, <1>3, <1>4

(* A list without one of its elements: those behind it move up.            *)
LEMMA Removed ==
  ASSUME NEW S, NEW c \in Seq(S), NEW i \in 1..Len(c)
  PROVE  /\ RemoveAt(c, i) \in Seq(S) /\ Len(RemoveAt(c, i)) = Len(c) - 1
         /\ \A j \in 1..(Len(c) - 1) :
              RemoveAt(c, i)[j] = IF j < i THEN c[j] ELSE c[j + 1]
<1>1. PICK n, a : n = Len(c) /\ a = i - 1
  OBVIOUS
<1>2. n \in Nat /\ a \in 0..n /\ i \in 0..n
  BY <1>1
<1>3. PICK u, v : u = SubSeq(c, 1, a) /\ v = SubSeq(c, i + 1, n)
  OBVIOUS
<1>4. u \in Seq(S) /\ Len(u) = a /\ \A j \in 1..a : u[j] = c[j]
  BY <1>1, <1>2, <1>3, First
<1>5. v \in Seq(S) /\ Len(v) = n - i /\ \A j \in 1..(n - i) : v[j] = c[i + j]
  BY <1>1, <1>2, <1>3, Rest
<1>6. u \o v = RemoveAt(c, i)
  BY <1>1, <1>3 DEF RemoveAt
<1>7. PICK r : r = u \o v
  OBVIOUS
<1>8. /\ r \in Seq(S) /\ Len(r) = a + (n - i)
      /\ \A j \in 1..a : r[j] = u[j]
      /\ \A j \in 1..(n - i) : r[a + j] = v[j]
  <2>0. u \in Seq(S) /\ v \in Seq(S)
    BY <1>4, <1>5
  <2>1. Len(u) = a /\ Len(v) = n - i
    BY <1>4, <1>5
  <2>2. /\ u \o v \in Seq(S) /\ Len(u \o v) = Len(u) + Len(v)
        /\ \A j \in 1..Len(u) : (u \o v)[j] = u[j]
        /\ \A j \in 1..Len(v) : (u \o v)[Len(u) + j] = v[j]
    BY <2>0, Joined
  <2> QED BY <1>7, <2>1, <2>2
<1>9. ASSUME NEW j \in 1..(n - 1)
      PROVE  r[j] = IF j < i THEN c[j] ELSE c[j + 1]
  <2>1. CASE j < i
    <3>1. j \in 1..a
      BY <1>1, <2>1
    <3> QED BY <1>4, <1>8, <2>1, <3>1
  <2>2. CASE ~ (j < i)
    <3>1. PICK x : x = j - a
      OBVIOUS
    <3>2. x \in 1..(n - i) /\ a + x = j /\ i + x = j + 1
      BY <1>1, <1>2, <2>2, <3>1
    <3>3. r[j] = v[x] /\ v[x] = c[j + 1]
      BY <1>5, <1>8, <3>2
    <3> QED BY <2>2, <3>3
  <2> QED BY <2>1, <2>2
<1>10. a + (n - i) = n - 1
  BY <1>1, <1>2
<1> QED BY <1>1, <1>6, <1>7, <1>8, <1>9, <1>10

-----------------------------------------------------------------------------
(* What goes out on one connection: f[1] to f[n] are the numbers of the    *)
(* messages its bytes belong to, and q is the list of the messages. Each   *)
(* message is one block of Size bytes.                                     *)
Blocks(f, n) ==
  \A i \in 1..n : \E a \in 0..(n - 1) :
    /\ a < i /\ i <= a + Size /\ a + Size <= n
    /\ \A j \in 1..n : f[j] = f[i] <=> a < j /\ j <= a + Size

(* No block goes on beyond byte c.                                         *)
Cut(f, n, c) == 0 < c /\ c < n => f[c] # f[c + 1]

(* Messages of one priority are in the order they were sent.               *)
Ordered(q, f, n) ==
  \A i, j \in 1..n : i < j /\ q[f[i]].cmd = q[f[j]].cmd => f[i] <= f[j]

(* Blocks in order, of messages that were taken; those after byte c, where *)
(* the low list begins, have low priority.                                 *)
Good(q, f, n, c) ==
  /\ Blocks(f, n) /\ Ordered(q, f, n) /\ Cut(f, n, c)
  /\ \A i \in 1..n : /\ f[i] \in 1..Len(q) /\ q[f[i]].st = "taken"
                     /\ c < i => q[f[i]].cmd = "P"

(* WireWhole, for one connection.                                          *)
Whole(q, w) ==
  \A i \in 1..(Len(w) - 1) :
    w[i] # w[i + 1] =>
      /\ count(w, w[i]) = Size
      /\ \A j \in (i + 1)..Len(w) :
           /\ w[j] # w[i]
           /\ q[w[i]].cmd = q[w[j]].cmd => w[i] < w[j]

(* The sizes that the proofs use are numbers.                              *)
LEMMA SizeIsNat == Size \in Nat \ {0} /\ MaxAlloc \in Nat \ {0}
BY SocketAssumption

(* The number of places in an interval.                                    *)
LEMMA Places ==
  ASSUME NEW a \in Nat, NEW b \in Nat
  PROVE  Cardinality((a + 1)..(a + b)) = b
<1>1. PICK x, y : x = a + 1 /\ y = a + b
  OBVIOUS
<1>2. x \in Int /\ y \in Int /\ y - x + 1 = b /\ (x > y => b = 0)
  BY <1>1
<1>3. Cardinality(x..y) = IF x > y THEN 0 ELSE y - x + 1
  BY <1>2, FS_Interval
<1> QED BY <1>1, <1>2, <1>3

(* What count counts, when it is a run of b places behind place a.         *)
Run(t, m, a, b) ==
  a + b <= Len(t) /\ \A j \in 1..Len(t) : t[j] = m <=> a < j /\ j <= a + b

(* What count counts, when it is a run of b places behind place a.         *)
LEMMA CountRun ==
  ASSUME NEW S, NEW t \in Seq(S), NEW m, NEW a \in Nat, NEW b \in Nat,
         Run(t, m, a, b)
  PROVE  count(t, m) = b
<1>1. DOMAIN t = 1..Len(t) /\ Len(t) \in Nat
  OBVIOUS
<1>2. {i \in DOMAIN t : t[i] = m} = (a + 1)..(a + b)
  BY <1>1 DEF Run
<1> QED BY <1>2, Places DEF count

(* A block put in where no block is cut.                                   *)
Inserted(f, n, c, m, g, N) ==
  /\ N = n + Size /\ \A i \in 1..n : f[i] # m
  /\ \A i \in 1..c : g[i] = f[i]
  /\ \A i \in (c + 1)..(c + Size) : g[i] = m
  /\ \A i \in (c + 1)..n : g[i + Size] = f[i]

(* A block put in where no block is cut leaves only whole blocks.          *)
LEMMA BlocksInsert ==
  ASSUME NEW n \in Nat, NEW c \in 0..n, NEW f, Blocks(f, n), Cut(f, n, c),
         NEW m, NEW g, NEW N, Inserted(f, n, c, m, g, N)
  PROVE  Blocks(g, N)
<1>0. /\ N = n + Size /\ \A i \in 1..n : f[i] # m
      /\ \A i \in 1..c : g[i] = f[i]
      /\ \A i \in (c + 1)..(c + Size) : g[i] = m
      /\ \A i \in (c + 1)..n : g[i + Size] = f[i]
  BY DEF Inserted
<1> USE <1>0
<1> SUFFICES ASSUME NEW i \in 1..N
             PROVE  \E a \in 0..(N - 1) :
                      /\ a < i /\ i <= a + Size /\ a + Size <= N
                      /\ \A j \in 1..N :
                           g[j] = g[i] <=> a < j /\ j <= a + Size
  BY DEF Blocks
<1>1. Size \in Nat /\ Size # 0
  BY SizeIsNat
<1>2. ASSUME NEW j \in (c + Size + 1)..(n + Size)
      PROVE  g[j] = f[j - Size] /\ j - Size \in (c + 1)..n /\ j - Size \in 1..n
  <2>1. j - Size \in (c + 1)..n /\ (j - Size) + Size = j /\ j - Size \in 1..n
    BY <1>1
  <2> QED BY <2>1
<1>3. ASSUME NEW j \in 1..(n + Size)
      PROVE  \/ j \in 1..c /\ j \in 1..n /\ g[j] = f[j]
             \/ j \in (c + 1)..(c + Size) /\ g[j] = m
             \/ j \in (c + Size + 1)..(n + Size) /\ g[j] = f[j - Size]
                /\ j - Size \in (c + 1)..n /\ j - Size \in 1..n
  <2>1. j \in 1..c \/ j \in (c + 1)..(c + Size) \/ j \in (c + Size + 1)..(n + Size)
    BY <1>1
  <2>2. j \in 1..c => j \in 1..n
    OBVIOUS
  <2> QED BY <1>2, <2>1, <2>2
<1>4. CASE i \in 1..c
  <2>1. PICK a \in 0..(n - 1) :
          /\ a < i /\ i <= a + Size /\ a + Size <= n
          /\ \A j \in 1..n : f[j] = f[i] <=> a < j /\ j <= a + Size
    BY <1>4 DEF Blocks
  <2>2. a + Size <= c
    <3>1. SUFFICES ASSUME c < a + Size PROVE FALSE
      BY <1>1
    <3>2. c \in 1..n /\ c + 1 \in 1..n /\ a < c /\ c <= a + Size
          /\ a < c + 1 /\ c + 1 <= a + Size /\ 0 < c /\ c < n
      BY <1>1, <1>4, <2>1, <3>1
    <3>3. f[c] = f[i] /\ f[c + 1] = f[i]
      BY <2>1, <3>2
    <3> QED BY <3>2, <3>3 DEF Cut
  <2>3. g[i] = f[i] /\ f[i] # m /\ i \in 1..n
    BY <1>4
  <2>4. ASSUME NEW j \in 1..(n + Size)
        PROVE  g[j] = g[i] <=> a < j /\ j <= a + Size
    <3>1. CASE j \in 1..c /\ j \in 1..n /\ g[j] = f[j]
      BY <2>1, <2>3, <3>1
    <3>2. CASE j \in (c + 1)..(c + Size) /\ g[j] = m
      BY <1>1, <2>2, <2>3, <3>2
    <3>3. CASE j \in (c + Size + 1)..(n + Size) /\ g[j] = f[j - Size]
                /\ j - Size \in (c + 1)..n /\ j - Size \in 1..n
      <4>1. PICK x \in 1..n : x = j - Size
        BY <3>3
      <4>2. ~ (j <= a + Size) /\ ~ (x <= a + Size)
        BY <1>1, <2>2, <3>3, <4>1
      <4>3. f[x] # f[i]
        BY <2>1, <4>2
      <4> QED BY <2>3, <3>3, <4>1, <4>2, <4>3
    <3> QED BY <1>3, <3>1, <3>2, <3>3
  <2>5. a \in 0..(n + Size - 1) /\ a + Size <= n + Size
    BY <1>1, <2>1
  <2> QED BY <2>1, <2>4, <2>5
<1>5. CASE i \in (c + 1)..(c + Size)
  <2>1. g[i] = m
    BY <1>5
  <2>2. ASSUME NEW j \in 1..(n + Size)
        PROVE  g[j] = g[i] <=> c < j /\ j <= c + Size
    <3>1. CASE j \in 1..c /\ j \in 1..n /\ g[j] = f[j]
      BY <2>1, <3>1
    <3>2. CASE j \in (c + 1)..(c + Size) /\ g[j] = m
      BY <1>1, <2>1, <3>2
    <3>3. CASE j \in (c + Size + 1)..(n + Size) /\ g[j] = f[j - Size]
                /\ j - Size \in (c + 1)..n /\ j - Size \in 1..n
      <4>1. ~ (j <= c + Size)
        BY <1>1, <3>3
      <4> QED BY <2>1, <3>3, <4>1
    <3> QED BY <1>3, <3>1, <3>2, <3>3
  <2>3. c \in 0..(n + Size - 1) /\ c < i /\ i <= c + Size /\ c + Size <= n + Size
    BY <1>1, <1>5
  <2> QED BY <2>2, <2>3
<1>6. CASE i \in (c + Size + 1)..(n + Size)
  <2>0. PICK y \in 1..n : y = i - Size /\ c < y /\ g[i] = f[y]
    <3>1. g[i] = f[i - Size] /\ i - Size \in 1..n /\ c < i - Size
      BY <1>2, <1>6
    <3> QED BY <3>1
  <2>1. PICK a \in 0..(n - 1) :
          /\ a < y /\ y <= a + Size /\ a + Size <= n
          /\ \A j \in 1..n : f[j] = f[y] <=> a < j /\ j <= a + Size
    BY DEF Blocks
  <2>2. c <= a
    <3>1. SUFFICES ASSUME a < c PROVE FALSE
      OBVIOUS
    <3>2. c \in 1..n /\ c + 1 \in 1..n /\ a < c /\ c <= a + Size
          /\ a < c + 1 /\ c + 1 <= a + Size /\ 0 < c /\ c < n
      BY <1>1, <2>0, <2>1, <3>1
    <3>3. f[c] = f[y] /\ f[c + 1] = f[y]
      BY <2>1, <3>2
    <3> QED BY <3>2, <3>3 DEF Cut
  <2>3. PICK b : b = a + Size
    OBVIOUS
  <2>4. ASSUME NEW j \in 1..(n + Size)
        PROVE  g[j] = g[i] <=> b < j /\ j <= b + Size
    <3>1. CASE j \in 1..c /\ j \in 1..n /\ g[j] = f[j]
      <4>1. ~ (a < j) /\ ~ (b < j)
        BY <1>1, <2>2, <2>3, <3>1
      <4> QED BY <2>0, <2>1, <3>1, <4>1
    <3>2. CASE j \in (c + 1)..(c + Size) /\ g[j] = m
      <4>1. ~ (b < j)
        BY <1>1, <2>2, <2>3, <3>2
      <4>2. f[y] # m
        OBVIOUS
      <4> QED BY <2>0, <3>2, <4>1, <4>2
    <3>3. CASE j \in (c + Size + 1)..(n + Size) /\ g[j] = f[j - Size]
                /\ j - Size \in (c + 1)..n /\ j - Size \in 1..n
      <4>1. PICK x \in 1..n : x = j - Size
        BY <3>3
      <4>2. (a < x <=> b < j) /\ (x <= a + Size <=> j <= b + Size)
        BY <1>1, <2>3, <4>1
      <4>3. f[x] = f[y] <=> a < x /\ x <= a + Size
        BY <2>1
      <4> QED BY <2>0, <3>3, <4>1, <4>2, <4>3
    <3> QED BY <1>3, <3>1, <3>2, <3>3
  <2>5. b \in 0..(n + Size - 1) /\ b < i /\ i <= b + Size /\ b + Size <= n + Size
    BY <1>1, <2>0, <2>1, <2>3
  <2> QED BY <2>4, <2>5
<1> QED BY <1>3, <1>4, <1>5, <1>6

(* What follows a cut.                                                     *)
LEMMA BlocksRest ==
  ASSUME NEW n \in Nat, NEW c \in 0..n, NEW f, Blocks(f, n), Cut(f, n, c),
         NEW g, \A i \in 1..(n - c) : g[i] = f[c + i]
  PROVE  Blocks(g, n - c)
<1> SUFFICES ASSUME NEW i \in 1..(n - c)
             PROVE  \E a \in 0..(n - c - 1) :
                      /\ a < i /\ i <= a + Size /\ a + Size <= n - c
                      /\ \A j \in 1..(n - c) :
                           g[j] = g[i] <=> a < j /\ j <= a + Size
  BY DEF Blocks
<1>1. Size \in Nat /\ Size # 0
  BY SizeIsNat
<1>2. PICK y \in 1..n : y = c + i /\ g[i] = f[y]
  <2>1. c + i \in 1..n
    OBVIOUS
  <2> QED BY <2>1
<1>3. PICK a \in 0..(n - 1) :
        /\ a < y /\ y <= a + Size /\ a + Size <= n
        /\ \A j \in 1..n : f[j] = f[y] <=> a < j /\ j <= a + Size
  BY DEF Blocks
<1>4. c <= a
  <2>1. SUFFICES ASSUME a < c PROVE FALSE
    OBVIOUS
  <2>2. c \in 1..n /\ c + 1 \in 1..n /\ a < c /\ c <= a + Size
        /\ a < c + 1 /\ c + 1 <= a + Size /\ 0 < c /\ c < n
    BY <1>1, <1>2, <1>3, <2>1
  <2>3. f[c] = f[y] /\ f[c + 1] = f[y]
    BY <1>3, <2>2
  <2> QED BY <2>2, <2>3 DEF Cut
<1>5. PICK b : b = a - c
  OBVIOUS
<1>6. ASSUME NEW j \in 1..(n - c)
      PROVE  g[j] = g[i] <=> b < j /\ j <= b + Size
  <2>1. PICK x \in 1..n : x = c + j /\ g[j] = f[x]
    <3>1. c + j \in 1..n
      OBVIOUS
    <3> QED BY <3>1
  <2>2. (a < x <=> b < j) /\ (x <= a + Size <=> j <= b + Size)
    BY <1>1, <1>5, <2>1
  <2>3. f[x] = f[y] <=> a < x /\ x <= a + Size
    BY <1>3
  <2> QED BY <1>2, <2>1, <2>2, <2>3
<1>7. b \in 0..(n - c - 1) /\ b < i /\ i <= b + Size /\ b + Size <= n - c
  BY <1>1, <1>2, <1>3, <1>4, <1>5
<1> QED BY <1>6, <1>7

-----------------------------------------------------------------------------
Messages == [to : Ids, cmd : {"D", "P"}, st : {"pipe", "taken", "dropped"}]

(* A beginning of such a stream is whole.                                  *)
LEMMA WholePrefix ==
  ASSUME NEW q \in Seq(Messages), NEW f, NEW n \in Nat, NEW c, Good(q, f, n, c),
         NEW w \in Seq(Nat), Len(w) <= n, \A i \in 1..Len(w) : w[i] = f[i]
  PROVE  Whole(q, w)
<1>1. Size \in Nat \ {0} /\ Len(w) \in Nat /\ Len(q) \in Nat
  BY SizeIsNat
<1> SUFFICES ASSUME NEW i \in 1..(Len(w) - 1), w[i] # w[i + 1]
             PROVE  /\ count(w, w[i]) = Size
                    /\ \A j \in (i + 1)..Len(w) :
                         /\ w[j] # w[i]
                         /\ q[w[i]].cmd = q[w[j]].cmd => w[i] < w[j]
  BY DEF Whole
<1>2. i \in 1..n /\ i \in 1..Len(w) /\ i + 1 \in 1..n /\ i + 1 \in 1..Len(w)
  BY <1>1
<1>3. PICK a \in 0..(n - 1) :
        /\ a < i /\ i <= a + Size /\ a + Size <= n
        /\ \A j \in 1..n : f[j] = f[i] <=> a < j /\ j <= a + Size
  BY <1>2 DEF Good, Blocks
<1>4. i = a + Size
  <2>0. i \in Nat /\ a \in Nat /\ Size \in Nat /\ i <= a + Size
    BY <1>1, <1>2, <1>3
  <2>1. SUFFICES ASSUME i + 1 <= a + Size PROVE FALSE
    BY <2>0
  <2>2. f[i + 1] = f[i]
    <3>1. a < i /\ a < i + 1
      BY <1>3, <2>0
    <3> QED BY <1>2, <1>3, <2>1, <3>1
  <2> QED BY <1>2, <2>2
<1>5. \A j \in 1..Len(w) : w[j] = w[i] <=> a < j /\ j <= a + Size
  <2>1. TAKE j \in 1..Len(w)
  <2>2. w[j] = f[j] /\ w[i] = f[i]
    BY <1>2
  <2>3. j \in 1..n
    BY <1>1
  <2> QED BY <1>3, <2>2, <2>3
<1>6. count(w, w[i]) = Size
  <2>1. Run(w, w[i], a, Size) /\ a \in Nat
    BY <1>2, <1>4, <1>5 DEF Run
  <2> QED BY <1>1, <2>1, CountRun
<1>7. ASSUME NEW j \in (i + 1)..Len(w)
      PROVE  w[j] # w[i] /\ (q[w[i]].cmd = q[w[j]].cmd => w[i] < w[j])
  <2>0. i \in Nat /\ j \in Nat /\ i + 1 <= j /\ j <= Len(w)
    BY <1>1
  <2>1. j \in 1..Len(w) /\ j \in 1..n /\ i < j /\ ~ (j <= a + Size)
    <3>1. 1 <= i /\ i < j /\ 1 <= j
      BY <2>0
    <3>2. j \in 1..Len(w) /\ j \in 1..n
      BY <1>1, <2>0, <3>1
    <3>3. ~ (j <= a + Size)
      BY <1>1, <1>4, <2>0
    <3> QED BY <3>1, <3>2, <3>3
  <2>2. w[j] # w[i] /\ w[j] = f[j] /\ w[i] = f[i]
    BY <1>2, <1>5, <2>1
  <2>3. q[f[i]].cmd = q[f[j]].cmd => f[i] <= f[j]
    BY <1>2, <2>1 DEF Good, Ordered
  <2>4. f[i] \in Nat /\ f[j] \in Nat
    <3>1. PICK z \in Nat : z = Len(q)
      BY <1>1
    <3>2. \A x \in 1..n : f[x] \in 1..z
      BY <3>1 DEF Good
    <3>3. \A x \in 1..n : f[x] \in Nat
      BY <3>2
    <3> QED BY <1>2, <2>1, <3>3
  <2> QED BY <2>2, <2>3, <2>4
<1> QED BY <1>6, <1>7

(* The same bytes in other lists.                                          *)
LEMMA GoodSame ==
  ASSUME NEW q, NEW f, NEW n \in Nat, NEW c \in Nat, Good(q, f, n, c),
         NEW g, \A i \in 1..n : g[i] = f[i],
         NEW d \in Nat, c <= d, Cut(g, n, d)
  PROVE  Good(q, g, n, d)
<1>1. Blocks(g, n)
  BY DEF Good, Blocks
<1>2. Ordered(q, g, n)
  BY DEF Good, Ordered
<1>3. \A i \in 1..n : /\ g[i] \in 1..Len(q) /\ q[g[i]].st = "taken"
                      /\ d < i => q[g[i]].cmd = "P"
  BY DEF Good
<1> QED BY <1>1, <1>2, <1>3 DEF Good

(* More messages, or other news of them.                                   *)
Grown(q, r) ==
  /\ Len(q) <= Len(r)
  /\ \A i \in 1..Len(q) : /\ r[i].cmd = q[i].cmd /\ r[i].to = q[i].to
                          /\ q[i].st = "taken" => r[i].st = "taken"
                          /\ r[i].st = "pipe" => q[i].st = "pipe"

(* A stream in order stays so when messages are added.                     *)
LEMMA GoodGrown ==
  ASSUME NEW q \in Seq(Messages), NEW r \in Seq(Messages), Grown(q, r),
         NEW f, NEW n \in Nat, NEW c, Good(q, f, n, c)
  PROVE  Good(r, f, n, c)
<1>1. Len(q) \in Nat /\ Len(r) \in Nat /\ 1..Len(q) \subseteq 1..Len(r)
  BY DEF Grown
<1>2. ASSUME NEW i \in 1..n
      PROVE  /\ f[i] \in 1..Len(q) /\ r[f[i]].cmd = q[f[i]].cmd
             /\ r[f[i]].st = "taken" /\ c < i => q[f[i]].cmd = "P"
  BY DEF Good, Grown
<1>3. Ordered(r, f, n)
  BY <1>2 DEF Good, Ordered
<1>4. \A i \in 1..n : /\ f[i] \in 1..Len(r) /\ r[f[i]].st = "taken"
                      /\ c < i => r[f[i]].cmd = "P"
  BY <1>1, <1>2 DEF Good, Grown
<1> QED BY <1>3, <1>4 DEF Good

(* What was written stays whole when messages are added.                   *)
LEMMA WholeGrown ==
  ASSUME NEW q \in Seq(Messages), NEW r \in Seq(Messages), Grown(q, r),
         NEW w \in Seq(Nat), \A i \in 1..Len(w) : w[i] \in 1..Len(q), Whole(q, w)
  PROVE  Whole(r, w)
<1>1. \A i \in 1..Len(w) : r[w[i]].cmd = q[w[i]].cmd
  BY DEF Grown
<1>2. \A i \in 1..(Len(w) - 1) : i \in 1..Len(w)
  OBVIOUS
<1>3. \A i \in 1..(Len(w) - 1) : \A j \in (i + 1)..Len(w) : j \in 1..Len(w)
  OBVIOUS
<1> QED BY <1>1, <1>2, <1>3 DEF Whole

(* A message is taken: its bytes are put between the two lists, or behind  *)
(* both.                                                                   *)
Place(q, m, n, c, d, e) ==
  \/ d = n /\ e = c /\ q[m].cmd = "P"
  \/ d = c /\ e = c + Size /\ (c = n \/ q[m].cmd = "D")

(* A message is taken that is newer than all that were: its bytes are put  *)
(* between the two lists, or behind both, and the stream stays in order.   *)
LEMMA GoodInsert ==
  ASSUME NEW q \in Seq(Messages), NEW f, NEW n \in Nat, NEW c \in 0..n,
         Good(q, f, n, c),
         NEW m \in 1..Len(q), q[m].st = "pipe",
         \A v \in 1..Len(q) : q[v].st = "taken" => v < m,
         NEW r \in Seq(Messages), Grown(q, r), r[m].st = "taken",
         NEW d \in 0..n, NEW e \in Nat,
         Place(q, m, n, c, d, e),
         NEW N, NEW g, Inserted(f, n, d, m, g, N)
  PROVE  Good(r, g, N, e)
<1>0. /\ N = n + Size
      /\ \A i \in 1..d : g[i] = f[i]
      /\ \A i \in (d + 1)..(d + Size) : g[i] = m
      /\ \A i \in (d + 1)..n : g[i + Size] = f[i]
  BY DEF Inserted
<1>13. \/ d = n /\ e = c /\ q[m].cmd = "P"
       \/ d = c /\ e = c + Size /\ (c = n \/ q[m].cmd = "D")
  BY DEF Place
<1> USE <1>0, <1>13
<1>1. Size \in Nat /\ Size # 0 /\ Len(q) \in Nat /\ Len(r) \in Nat
      /\ Len(q) <= Len(r) /\ m \in 1..Len(r)
  BY SizeIsNat DEF Grown
<1>2. ASSUME NEW i \in 1..n
      PROVE  f[i] \in 1..Len(q) /\ f[i] # m /\ f[i] < m
             /\ (c < i => q[f[i]].cmd = "P")
  BY DEF Good
<1>3. Cut(f, n, d)
  BY DEF Good, Cut
<1>4. Blocks(f, n) /\ Ordered(q, f, n)
  BY DEF Good
<1>5. \A i \in 1..n : f[i] # m
  BY <1>2
<1>6. Blocks(g, N)
  BY <1>3, <1>4, BlocksInsert
<1>7. ASSUME NEW j \in 1..N
      PROVE  \/ j \in 1..d /\ j \in 1..n /\ g[j] = f[j]
             \/ j \in (d + 1)..(d + Size) /\ g[j] = m
             \/ \E x \in (d + 1)..n : j = x + Size /\ g[j] = f[x]
  <2>1. CASE j <= d
    BY <2>1
  <2>2. CASE d < j /\ j <= d + Size
    BY <2>2, <1>1
  <2>3. CASE d + Size < j
    <3>1. PICK x : x = j - Size
      OBVIOUS
    <3>2. x \in (d + 1)..n /\ j = x + Size
      BY <1>1, <2>3, <3>1
    <3> QED BY <3>2
  <2> QED BY <1>1, <2>1, <2>2, <2>3
<1>8. Cut(g, N, e)
  <2>1. SUFFICES ASSUME 0 < e, e < N PROVE g[e] # g[e + 1]
    BY DEF Cut
  <2>2. CASE d = c /\ e = c + Size /\ (c = n \/ q[m].cmd = "D")
    <3>1. c + 1 \in 1..n /\ e \in (d + 1)..(d + Size) /\ c + 1 \in (d + 1)..n
          /\ c + 1 + Size = e + 1
      BY <1>1, <2>1, <2>2
    <3>2. g[e] = m /\ g[e + 1] = f[c + 1]
      BY <3>1
    <3> QED BY <1>5, <3>1, <3>2
  <2>3. CASE d = n /\ e = c /\ q[m].cmd = "P"
    <3>1. e \in 1..n /\ e \in 1..d
      BY <2>1, <2>3
    <3>2. g[e] = f[e] /\ f[e] # m
      BY <1>5, <3>1
    <3>3. CASE e = n
      <4>1. e + 1 \in (d + 1)..(d + Size)
        BY <1>1, <2>3, <3>3
      <4> QED BY <3>2, <4>1
    <3>4. CASE e < n
      <4>1. e + 1 \in 1..d /\ 0 < c /\ c < n
        BY <2>1, <2>3, <3>4
      <4>2. g[e + 1] = f[e + 1] /\ f[c] # f[c + 1]
        BY <4>1 DEF Good, Cut
      <4> QED BY <2>3, <3>2, <4>2
    <3> QED BY <2>3, <3>1, <3>3, <3>4
  <2> QED BY <2>2, <2>3
<1>9. \A j \in 1..n : r[f[j]].cmd = q[f[j]].cmd
  BY <1>2 DEF Grown
<1>10. r[m].cmd = q[m].cmd
  BY DEF Grown
<1>11. Ordered(r, g, N)
  <2>1. SUFFICES ASSUME NEW i \in 1..N, NEW j \in 1..N, i < j,
                        r[g[i]].cmd = r[g[j]].cmd
                 PROVE  g[i] <= g[j]
    BY DEF Ordered
  <2>2. CASE g[j] = m
    <3>1. g[i] <= m
      <4>1. CASE i \in 1..d /\ i \in 1..n /\ g[i] = f[i]
        BY <1>1, <1>2, <4>1
      <4>2. CASE g[i] = m
        BY <4>2
      <4>3. CASE \E x \in (d + 1)..n : i = x + Size /\ g[i] = f[x]
        BY <1>1, <1>2, <4>3
      <4> QED BY <1>7, <4>1, <4>2, <4>3
    <3> QED BY <2>2, <3>1
  <2>3. CASE g[i] = m /\ g[j] # m
    <3>0. d < i
      <4>1. i \notin 1..d
        BY <1>5, <2>3
      <4> QED BY <1>1, <1>7, <4>1
    <3>1. PICK x \in (d + 1)..n : g[j] = f[x]
      <4>1. j \notin 1..d
        BY <2>1, <3>0
      <4> QED BY <1>7, <2>3, <4>1
    <3>2. d = c /\ c # n /\ q[m].cmd = "D"
      BY <3>1
    <3>3. x \in 1..n /\ c < x
      BY <3>1, <3>2
    <3>4. q[f[x]].cmd = "P"
      BY <1>2, <3>3
    <3> QED BY <1>9, <1>10, <2>1, <2>3, <3>1, <3>2, <3>3, <3>4
  <2>4. CASE g[i] # m /\ g[j] # m
    <3>1. PICK x \in 1..n : g[i] = f[x] /\ ((x = i /\ x <= d) \/ (i = x + Size /\ d < x))
      BY <1>7, <2>4
    <3>2. PICK y \in 1..n : g[j] = f[y] /\ ((y = j /\ y <= d) \/ (j = y + Size /\ d < y))
      BY <1>7, <2>4
    <3>3. x < y
      BY <1>1, <2>1, <3>1, <3>2
    <3>4. q[f[x]].cmd = q[f[y]].cmd
      BY <1>9, <2>1, <3>1, <3>2
    <3> QED BY <1>4, <3>1, <3>2, <3>3, <3>4 DEF Ordered
  <2> QED BY <2>2, <2>3, <2>4
<1>12. ASSUME NEW j \in 1..N
       PROVE  /\ g[j] \in 1..Len(r) /\ r[g[j]].st = "taken"
              /\ e < j => r[g[j]].cmd = "P"
  <2>1. ASSUME NEW x \in 1..n
        PROVE  f[x] \in 1..Len(r) /\ r[f[x]].st = "taken"
    <3>1. f[x] \in 1..Len(q) /\ q[f[x]].st = "taken"
      BY DEF Good
    <3>2. r[f[x]].st = "taken"
      BY <3>1 DEF Grown
    <3> QED BY <1>1, <3>1, <3>2
  <2>2. CASE j \in 1..d /\ j \in 1..n /\ g[j] = f[j]
    <3>1. e < j => c < j
      BY <1>1, <2>2
    <3> QED BY <1>2, <1>9, <2>1, <2>2, <3>1
  <2>3. CASE j \in (d + 1)..(d + Size) /\ g[j] = m
    <3>1. e < j => q[m].cmd = "P"
      BY <1>1, <2>3
    <3> QED BY <1>1, <1>10, <2>3, <3>1
  <2>4. CASE \E x \in (d + 1)..n : j = x + Size /\ g[j] = f[x]
    <3>1. PICK x \in (d + 1)..n : j = x + Size /\ g[j] = f[x]
      BY <2>4
    <3>2. x \in 1..n /\ (e < j => c < x)
      BY <1>1, <3>1
    <3> QED BY <1>2, <1>9, <2>1, <3>1, <3>2
  <2> QED BY <1>7, <2>2, <2>3, <2>4
<1> QED BY <1>6, <1>8, <1>11, <1>12 DEF Good

-----------------------------------------------------------------------------
LiveTypes == {"PLISTEN", "LISTEN", "CONNECTING", "CONNECTED", "HALFCLOSE",
              "PACCEPT"}
Types == LiveTypes \cup {"INVALID", "RESERVE"}
Socket == [type : Types, id : 0..MaxAlloc, high : Seq(Nat), low : Seq(Nat),
           write : BOOLEAN]

(* A message in such a stream is there with all its bytes.                 *)
LEMMA GoodCount ==
  ASSUME NEW q, NEW f, NEW n \in Nat, NEW c, Good(q, f, n, c),
         NEW w \in Seq(Nat), Len(w) = n, \A i \in 1..n : w[i] = f[i],
         NEW i \in 1..n
  PROVE  count(w, f[i]) = Size
<1>1. PICK a \in 0..(n - 1) :
        /\ a < i /\ i <= a + Size /\ a + Size <= n
        /\ \A j \in 1..n : f[j] = f[i] <=> a < j /\ j <= a + Size
  BY DEF Good, Blocks
<1>2. Run(w, f[i], a, Size) /\ a \in Nat
  BY <1>1 DEF Run
<1> QED BY <1>2, SizeIsNat, CountRun

(* What list_uncomplete and the count of raise_uncomplete see of a list of *)
(* whole messages after d bytes: where the message that was cut ends.      *)
LEMMA CutUncomplete ==
  ASSUME NEW l \in Seq(Nat), Blocks(l, Len(l)), NEW d \in 0..Len(l),
         NEW r \in Seq(Nat), Len(r) = Len(l) - d,
         \A i \in 1..(Len(l) - d) : r[i] = l[d + i]
  PROVE  \E e \in d..Len(l) :
           /\ Cut(l, Len(l), e)
           /\ IF list_uncomplete(r) THEN count(r, Head(r)) = e - d ELSE e = d
<1>1. PICK z \in Nat : z = Len(l)
  OBVIOUS
<1>2. CASE d = z
  <2>1. r = <<>>
    BY <1>1, <1>2
  <2>2. ~ list_uncomplete(r) /\ Cut(l, Len(l), d)
    BY <1>1, <1>2, <2>1 DEF list_uncomplete, Cut
  <2> QED BY <1>1, <1>2, <2>2
<1>3. CASE d < z
  <2>1. d + 1 \in 1..z /\ d \in Nat /\ Size \in Nat /\ Size # 0 /\ 1 \in 1..(z - d)
    BY <1>1, <1>3, SizeIsNat
  <2>2. PICK a \in 0..(z - 1) :
          /\ a < d + 1 /\ d + 1 <= a + Size /\ a + Size <= z
          /\ \A j \in 1..z : l[j] = l[d + 1] <=> a < j /\ j <= a + Size
    BY <1>1, <2>1 DEF Blocks
  <2>3. PICK b \in Nat : b = a + Size - d
    BY <2>1, <2>2
  <2>4. r[1] = l[d + 1] /\ Head(r) = r[1] /\ r # <<>>
    BY <1>1, <2>1
  <2>5. ASSUME NEW j \in 1..(z - d)
        PROVE  r[j] = r[1] <=> 0 < j /\ j <= 0 + b
    <3>0. d + j \in 1..z /\ r[j] = l[d + j]
      <4>1. d + j \in 1..z
        BY <1>1, <2>1
      <4>2. j \in 1..(Len(l) - d)
        BY <1>1
      <4> QED BY <4>1, <4>2
    <3>1. PICK x \in 1..z : x = d + j /\ r[j] = l[x]
      BY <3>0
    <3>2. l[x] = l[d + 1] <=> a < x /\ x <= a + Size
      BY <2>2
    <3>3. a < x /\ (x <= a + Size <=> j <= b)
      BY <2>1, <2>2, <2>3, <3>1
    <3> QED BY <2>4, <3>1, <3>2, <3>3
  <2>6. Run(r, r[1], 0, b)
    <3>1. 0 + b <= z - d /\ Len(r) = z - d
      BY <1>1, <2>1, <2>2, <2>3
    <3> QED BY <2>5, <3>1 DEF Run
  <2>7. count(r, Head(r)) = b
    BY <2>4, <2>6, CountRun
  <2>8. list_uncomplete(r) <=> b < Size
    BY <2>4, <2>7 DEF list_uncomplete
  <2>9. CASE a = d
    <3>1. ~ list_uncomplete(r)
      BY <2>1, <2>3, <2>8, <2>9
    <3>2. Cut(l, z, d)
      BY <2>1, <2>2, <2>9 DEF Cut
    <3> QED BY <1>1, <1>3, <3>1, <3>2
  <2>10. CASE a < d
    <3>1. PICK e : e = a + Size
      OBVIOUS
    <3>0. b < Size /\ b = e - d /\ e \in d..z
      BY <2>1, <2>2, <2>3, <2>10, <3>1
    <3>2. list_uncomplete(r) /\ b = e - d /\ e \in d..z
      BY <2>8, <3>0
    <3>3. Cut(l, z, e)
      <4>1. SUFFICES ASSUME 0 < e, e < z PROVE l[e] # l[e + 1]
        BY DEF Cut
      <4>2. e \in 1..z /\ e + 1 \in 1..z /\ a < e /\ e <= a + Size
            /\ ~ (e + 1 <= a + Size)
        BY <2>1, <2>2, <3>1, <4>1
      <4> QED BY <2>2, <4>2
    <3> QED BY <1>1, <2>7, <3>2, <3>3
  <2>11. a = d \/ a < d
    BY <2>1, <2>2
  <2> QED BY <2>9, <2>10, <2>11, Zenon
<1>4. d = z \/ d < z
  BY <1>1
<1> QED BY <1>2, <1>3, <1>4, Zenon

(* A list of whole messages is not uncomplete, as the assert of            *)
(* send_buffer says.                                                       *)
LEMMA WholeList ==
  ASSUME NEW l \in Seq(Nat), Blocks(l, Len(l))
  PROVE  ~ list_uncomplete(l)
<1>1. SUFFICES ASSUME list_uncomplete(l) PROVE FALSE
  OBVIOUS
<1>2. Len(l) \in Nat /\ l # <<>> /\ count(l, Head(l)) < Size
  BY <1>1 DEF list_uncomplete
<1>3. 1 \in 1..Len(l) /\ Head(l) = l[1]
  BY <1>2
<1>4. PICK a \in 0..(Len(l) - 1) :
        /\ a < 1 /\ 1 <= a + Size /\ a + Size <= Len(l)
        /\ \A j \in 1..Len(l) : l[j] = l[1] <=> a < j /\ j <= a + Size
  BY <1>3 DEF Blocks
<1>5. Run(l, l[1], a, Size) /\ a \in Nat
  BY <1>4 DEF Run
<1>6. count(l, l[1]) = Size
  BY <1>5, SizeIsNat, CountRun
<1> QED BY <1>2, <1>3, <1>6, SizeIsNat

(* What drop leaves of a list.                                             *)
LEMMA Dropped ==
  ASSUME NEW l \in Seq(Nat), NEW n \in Int
  PROVE  /\ n <= 0 => drop(l, n) = l
         /\ n \in 0..Len(l) => drop(l, n) = SubSeq(l, n + 1, Len(l))
         /\ n >= Len(l) => drop(l, n) = <<>>
<1>1. n <= 0 => Max({n, 0}) = 0
  BY DEF Max
<1>2. n >= 0 => Max({n, 0}) = n
  BY DEF Max
<1>3. ASSUME n \in 0..Len(l)
      PROVE  drop(l, n) = SubSeq(l, n + 1, Len(l))
  <2>1. Max({n, 0}) = n
    BY <1>2, <1>3
  <2> QED BY Zenon, <2>1 DEF drop
<1>4. ASSUME n <= 0
      PROVE  drop(l, n) = l
  <2>1. Max({n, 0}) + 1 = 1
    BY <1>1, <1>4
  <2>2. drop(l, n) = SubSeq(l, 1, Len(l))
    BY Zenon, <2>1 DEF drop
  <2> QED BY <2>2, SubSeqFull
<1>5. ASSUME n >= Len(l)
      PROVE  drop(l, n) = <<>>
  <2>1. n >= 0 /\ n + 1 \in Int /\ Len(l) \in Int /\ Len(l) < n + 1
    BY <1>5
  <2>2. Max({n, 0}) = n
    BY <1>2, <2>1
  <2>3. drop(l, n) = SubSeq(l, n + 1, Len(l))
    BY Zenon, <2>2 DEF drop
  <2> QED BY <2>1, <2>3, SubSeqEmpty
<1> QED BY <1>3, <1>4, <1>5

-----------------------------------------------------------------------------
(* All the bytes of a connection: those written, and the two lists.        *)
Stream(w, h, l) ==
  [i \in 1..(Len(w) + Len(h) + Len(l)) |->
     IF i <= Len(w) THEN w[i]
     ELSE IF i <= Len(w) + Len(h) THEN h[i - Len(w)]
     ELSE l[i - (Len(w) + Len(h))]]

(* The lists x and y are what is left of h and l after n bytes; e bytes of *)
(* l are among those written or now have high priority.                    *)
After(h, l, n, x, y, e) ==
  /\ Len(y) = Len(l) - e /\ Cut(l, Len(l), e)
  /\ n + Len(x) = Len(h) + e
  /\ \A i \in 1..Len(x) :
       x[i] = IF n + i <= Len(h) THEN h[n + i] ELSE l[n + i - Len(h)]
  /\ \A i \in 1..Len(y) : y[i] = l[e + i]

(* The two lists after n bytes have gone out and raise_uncomplete has      *)
(* moved the message that was cut to the high list.                        *)
LEMMA LeftLists ==
  ASSUME NEW h \in Seq(Nat), NEW l \in Seq(Nat), Blocks(l, Len(l)),
         NEW n \in 0..(Len(h) + Len(l)), NEW s \in Socket,
         s.high = drop(h, n), s.low = drop(l, n - Len(h))
  PROVE  LET r == raise_uncomplete(s)
         IN  /\ r \in Socket
             /\ r.type = s.type /\ r.id = s.id /\ r.write = s.write
             /\ \E e \in 0..Len(l) : After(h, l, n, r.high, r.low, e)
<1>1. Len(h) \in Nat /\ Len(l) \in Nat
  OBVIOUS
<1> DEFINE r == raise_uncomplete(s)
<1>2. CASE n <= Len(h)
  <2>1. n \in 0..Len(h) /\ n - Len(h) \in Int /\ n - Len(h) <= 0 /\ n \in Int
    BY <1>1, <1>2
  <2>2. s.high = SubSeq(h, n + 1, Len(h)) /\ s.low = l
    BY <2>1, Dropped
  <2>3. r = s
    BY <2>2, WholeList DEF raise_uncomplete
  <2>4. /\ s.high \in Seq(Nat) /\ Len(s.high) = Len(h) - n
        /\ \A i \in 1..(Len(h) - n) : s.high[i] = h[n + i]
    BY <2>1, <2>2, Rest
  <2>5. After(h, l, n, s.high, l, 0)
    <3>1. Len(l) = Len(l) - 0 /\ Cut(l, Len(l), 0) /\ n + Len(s.high) = Len(h) + 0
      BY <1>1, <2>1, <2>4 DEF Cut
    <3>2. ASSUME NEW i \in 1..Len(s.high)
          PROVE  n + i <= Len(h) /\ s.high[i] = h[n + i]
      BY <1>1, <2>1, <2>4
    <3>3. \A i \in 1..Len(l) : 0 + i = i
      OBVIOUS
    <3> QED BY <3>1, <3>2, <3>3 DEF After
  <2>6. 0 \in 0..Len(l)
    BY <1>1
  <2> QED BY <2>2, <2>3, <2>5, <2>6
<1>3. CASE Len(h) < n
  <2>1. PICK d \in 0..Len(l) : d = n - Len(h)
    BY <1>1, <1>3
  <2>2. n \in Int /\ drop(h, n) = <<>>
    <3>1. n \in Int /\ n >= Len(h)
      BY <1>1, <1>3
    <3> QED BY <3>1, Dropped
  <2>3. s.high = <<>> /\ s.low = SubSeq(l, d + 1, Len(l))
    <3>1. d \in Int /\ s.low = drop(l, d)
      BY <2>1
    <3> QED BY <2>2, <3>1, Dropped
  <2>4. PICK t \in Seq(Nat) : t = s.low
    BY DEF Socket
  <2>5. Len(t) = Len(l) - d /\ \A i \in 1..(Len(l) - d) : t[i] = l[d + i]
    BY <2>3, <2>4, Rest
  <2>6. PICK e \in d..Len(l) :
          /\ Cut(l, Len(l), e)
          /\ IF list_uncomplete(t) THEN count(t, Head(t)) = e - d ELSE e = d
    BY <2>5, CutUncomplete
  <2>7. e \in 0..Len(l) /\ n = Len(h) + d /\ d \in Nat /\ e \in Nat
    BY <1>1, <2>1
  <2>8. CASE ~ list_uncomplete(t)
    <3>1. r = s /\ e = d
      BY <2>4, <2>6, <2>8 DEF raise_uncomplete
    <3>2. After(h, l, n, <<>>, t, e)
      <4>1. Len(t) = Len(l) - e /\ n + Len(<<>>) = Len(h) + e
        BY <1>1, <2>5, <2>7, <3>1
      <4>2. \A i \in 1..Len(t) : t[i] = l[e + i]
        BY <2>5, <3>1
      <4> QED BY <2>6, <4>1, <4>2 DEF After
    <3> QED BY <2>3, <2>4, <2>7, <3>1, <3>2
  <2>9. CASE list_uncomplete(t)
    <3>1. PICK b \in 0..Len(t) : b = e - d /\ count(t, Head(t)) = b
      BY <1>1, <2>1, <2>5, <2>6, <2>9
    <3>2. PICK x, y : x = SubSeq(t, 1, b) /\ y = SubSeq(t, b + 1, Len(t))
      OBVIOUS
    <3>3. r = [s EXCEPT !.high = x, !.low = y]
      BY <2>4, <2>9, <3>1, <3>2 DEF raise_uncomplete
    <3>4. x \in Seq(Nat) /\ Len(x) = b /\ \A i \in 1..b : x[i] = t[i]
      BY <3>2, First
    <3>5. y \in Seq(Nat) /\ Len(y) = Len(t) - b
          /\ \A i \in 1..(Len(t) - b) : y[i] = t[b + i]
      BY <3>2, Rest
    <3>6. /\ r \in Socket /\ r.type = s.type /\ r.id = s.id
          /\ r.write = s.write /\ r.high = x /\ r.low = y
      BY <3>3, <3>4, <3>5 DEF Socket
    <3>7. After(h, l, n, x, y, e)
      <4>1. PICK z \in Nat : z = Len(l)
        BY <1>1
      <4>2. Len(t) = z - d /\ d + b = e
        BY <1>1, <2>1, <2>5, <3>1, <4>1
      <4>3. Len(y) = Len(l) - e /\ n + Len(x) = Len(h) + e
        BY <1>1, <2>7, <3>1, <3>4, <3>5, <4>1, <4>2
      <4>4. ASSUME NEW i \in 1..Len(x)
            PROVE  x[i] = IF n + i <= Len(h) THEN h[n + i] ELSE l[n + i - Len(h)]
        <5>1. ~ (n + i <= Len(h)) /\ n + i - Len(h) = d + i /\ i \in 1..(z - d)
          BY <1>1, <1>3, <2>7, <3>1, <3>4, <4>2
        <5>2. x[i] = t[i] /\ t[i] = l[d + i]
          BY <2>5, <3>4, <4>1, <5>1
        <5> QED BY <5>1, <5>2
      <4>5. ASSUME NEW i \in 1..Len(y)
            PROVE  y[i] = l[e + i]
        <5>1. i \in 1..(Len(t) - b) /\ b + i \in 1..(z - d) /\ d + (b + i) = e + i
          BY <2>7, <3>1, <3>5, <4>2
        <5>2. y[i] = t[b + i] /\ t[b + i] = l[d + (b + i)]
          BY <2>5, <3>5, <4>1, <5>1
        <5> QED BY <5>1, <5>2
      <4> QED BY <2>6, <4>3, <4>4, <4>5 DEF After
    <3> QED BY <2>7, <3>6, <3>7
  <2> QED BY <2>8, <2>9
<1> QED BY <1>1, <1>2, <1>3

-----------------------------------------------------------------------------
Total(w, h, l) == Len(w) + Len(h) + Len(l)

(* The length of a stream is a number.                                     *)
LEMMA TotalIsNat ==
  ASSUME NEW w \in Seq(Nat), NEW h \in Seq(Nat), NEW l \in Seq(Nat)
  PROVE  Total(w, h, l) \in Nat
<1>1. PICK a \in Nat, b \in Nat, c \in Nat :
        a = Len(w) /\ b = Len(h) /\ c = Len(l)
  OBVIOUS
<1>2. Total(w, h, l) = a + b + c
  BY <1>1 DEF Total
<1> QED BY <1>2

(* The three parts of the stream F, one behind the other.                  *)
Layout(F, w, h, l) ==
  /\ \A i \in 1..Len(w) : F[i] = w[i]
  /\ \A i \in 1..Len(h) : F[Len(w) + i] = h[i]
  /\ \A i \in 1..Len(l) : F[Len(w) + Len(h) + i] = l[i]

(* Where the bytes of the three parts are in the stream.                   *)
LEMMA StreamAt ==
  ASSUME NEW w \in Seq(Nat), NEW h \in Seq(Nat), NEW l \in Seq(Nat)
  PROVE  Layout(Stream(w, h, l), w, h, l)
<1>1. PICK a, b, c : a = Len(w) /\ b = Len(h) /\ c = Len(l)
  OBVIOUS
<1>2. a \in Nat /\ b \in Nat /\ c \in Nat
  BY <1>1
<1>3. PICK F : F = [i \in 1..(a + b + c) |->
                      IF i <= a THEN w[i]
                      ELSE IF i <= a + b THEN h[i - a] ELSE l[i - (a + b)]]
  OBVIOUS
<1>4. Stream(w, h, l) = F
  BY <1>1, <1>3 DEF Stream
<1>5. ASSUME NEW i \in 1..a PROVE F[i] = w[i]
  <2>1. i \in 1..(a + b + c) /\ i <= a
    BY <1>2
  <2> QED BY <1>3, <2>1
<1>6. ASSUME NEW i \in 1..b PROVE F[a + i] = h[i]
  <2>1. PICK j \in 1..(a + b + c) : j = a + i
    BY <1>2
  <2>2. ~ (j <= a) /\ j <= a + b /\ j - a = i
    BY <1>2, <2>1
  <2> QED BY <1>3, <2>1, <2>2
<1>7. ASSUME NEW i \in 1..c PROVE F[a + b + i] = l[i]
  <2>1. PICK j \in 1..(a + b + c) : j = a + b + i
    BY <1>2
  <2>2. ~ (j <= a) /\ ~ (j <= a + b) /\ j - (a + b) = i
    BY <1>2, <2>1
  <2> QED BY <1>3, <2>1, <2>2
<1> QED BY <1>1, <1>4, <1>5, <1>6, <1>7 DEF Layout

Moved(w, h, l, n, v, x, y) ==
  /\ v \in Seq(Nat) /\ Len(v) = Len(w) + n
  /\ Total(v, x, y) = Total(w, h, l)
  /\ \A i \in 1..Total(w, h, l) : Stream(v, x, y)[i] = Stream(w, h, l)[i]

(* What send_buffer does when n bytes go out: v is written, and the lists  *)
(* are x and y.                                                            *)
Flow(w, h, l, n, x, y, e, v) ==
  /\ w \in Seq(Nat) /\ h \in Seq(Nat) /\ l \in Seq(Nat)
  /\ x \in Seq(Nat) /\ y \in Seq(Nat)
  /\ n \in 0..(Len(h) + Len(l)) /\ e \in 0..Len(l)
  /\ After(h, l, n, x, y, e) /\ v = w \o SubSeq(h \o l, 1, n)

(* Writing moves bytes, and no byte changes its place.                     *)
LEMMA Wrote ==
  ASSUME NEW w, NEW h, NEW l, NEW x, NEW y, NEW n, NEW e, NEW v,
         Flow(w, h, l, n, x, y, e, v)
  PROVE  Moved(w, h, l, n, v, x, y)
<1>0. /\ w \in Seq(Nat) /\ h \in Seq(Nat) /\ l \in Seq(Nat)
      /\ x \in Seq(Nat) /\ y \in Seq(Nat)
      /\ n \in 0..(Len(h) + Len(l)) /\ e \in 0..Len(l)
      /\ After(h, l, n, x, y, e) /\ v = w \o SubSeq(h \o l, 1, n)
  BY DEF Flow
<1> USE <1>0
<1>1. PICK a, b, c : a = Len(w) /\ b = Len(h) /\ c = Len(l)
  OBVIOUS
<1>2. a \in Nat /\ b \in Nat /\ c \in Nat /\ n \in Nat /\ n <= b + c /\ e \in Nat
      /\ e <= c
  BY <1>1
<1>3. PICK t : t = h \o l
  OBVIOUS
<1>4. /\ t \in Seq(Nat) /\ Len(t) = b + c
      /\ \A i \in 1..b : t[i] = h[i]
      /\ \A i \in 1..c : t[b + i] = l[i]
  <2>1. h \o l \in Seq(Nat) /\ Len(h \o l) = Len(h) + Len(l)
    BY Joined
  <2>2. \A i \in 1..Len(h) : (h \o l)[i] = h[i]
    BY Joined
  <2>3. \A i \in 1..Len(l) : (h \o l)[Len(h) + i] = l[i]
    BY Joined
  <2> QED BY <1>1, <1>3, <2>1, <2>2, <2>3
<1>5. PICK o : o = SubSeq(t, 1, n)
  OBVIOUS
<1>6. o \in Seq(Nat) /\ Len(o) = n /\ \A i \in 1..n : o[i] = t[i]
  <2>1. n \in 0..Len(t)
    BY <1>2, <1>4
  <2> QED BY <1>4, <1>5, <2>1, First
<1>7. v = w \o o
  BY <1>3, <1>5
<1>8. /\ v \in Seq(Nat) /\ Len(v) = a + n
      /\ \A i \in 1..a : v[i] = w[i]
      /\ \A i \in 1..n : v[a + i] = o[i]
  <2>0. o \in Seq(Nat)
    BY <1>6
  <2>1. /\ w \o o \in Seq(Nat) /\ Len(w \o o) = Len(w) + Len(o)
        /\ \A i \in 1..Len(w) : (w \o o)[i] = w[i]
        /\ \A i \in 1..Len(o) : (w \o o)[Len(w) + i] = o[i]
    BY <2>0, Joined
  <2>2. Len(w) = a /\ Len(o) = n
    BY <1>1, <1>6
  <2> QED BY <1>7, <2>1, <2>2
<1>13. PICK p : p = Len(x)
  OBVIOUS
<1>9. p \in Nat /\ Len(y) = c - e /\ n + p = b + e
  BY <1>1, <1>13 DEF After
<1>18. p \in Nat /\ n + p = b + e
  BY <1>9
<1>19. a + n \in Nat /\ a + n + p \in Nat /\ a + n + p = a + b + e
  BY <1>2, <1>18
<1>10. Total(v, x, y) = Total(w, h, l) /\ Total(w, h, l) = a + b + c
  <2>1. Total(w, h, l) = a + b + c
    BY <1>1 DEF Total
  <2>2. Total(v, x, y) = (a + n) + p + (c - e)
    BY <1>8, <1>9, <1>13 DEF Total
  <2>3. (a + n) + p + (c - e) = a + b + c
    BY <1>2, <1>9
  <2> QED BY <2>1, <2>2, <2>3
<1>11. PICK F, G : F = Stream(w, h, l) /\ G = Stream(v, x, y)
  OBVIOUS
<1>12. /\ \A i \in 1..a : F[i] = w[i]
       /\ \A i \in 1..b : F[a + i] = h[i]
       /\ \A i \in 1..c : F[a + b + i] = l[i]
  <2>1. Layout(F, w, h, l)
    BY <1>11, StreamAt
  <2> QED BY <1>1, <2>1 DEF Layout
<1>14. /\ \A i \in 1..(a + n) : G[i] = v[i]
       /\ \A i \in 1..p : G[a + n + i] = x[i]
       /\ \A i \in 1..(c - e) : G[a + n + p + i] = y[i]
  <2>0. v \in Seq(Nat) /\ x \in Seq(Nat) /\ y \in Seq(Nat)
    BY <1>8
  <2>1. Layout(G, v, x, y)
    BY <1>11, <2>0, StreamAt
  <2>2. Len(v) = a + n /\ Len(x) = p /\ Len(y) = c - e
    BY <1>8, <1>9, <1>13
  <2> QED BY <2>1, <2>2 DEF Layout
<1>15. ASSUME NEW i \in 1..(b + c) PROVE F[a + i] = t[i]
  <2>1. CASE i <= b
    <3>1. i \in 1..b
      BY <1>2, <2>1
    <3> QED BY <1>4, <1>12, <3>1
  <2>2. CASE b < i
    <3>1. PICK j \in 1..c : j = i - b
      BY <1>2, <2>2
    <3>2. b + j = i /\ a + b + j = a + i
      BY <1>2, <3>1
    <3>3. F[a + b + j] = l[j] /\ t[b + j] = l[j]
      BY <1>4, <1>12
    <3> QED BY <3>2, <3>3
  <2> QED BY <1>2, <2>1, <2>2
<1>16. ASSUME NEW i \in 1..(a + b + c) PROVE G[i] = F[i]
  <2>1. CASE i <= a
    <3>1. i \in 1..a /\ i \in 1..(a + n)
      BY <1>2, <2>1
    <3> QED BY <1>8, <1>12, <1>14, <3>1
  <2>2. CASE a < i /\ i <= a + n
    <3>1. PICK j \in 1..n : a + j = i
      <4>1. i - a \in 1..n /\ a + (i - a) = i
        BY <1>2, <2>2
      <4> QED BY <4>1
    <3>2. j \in 1..(b + c) /\ i \in 1..(a + n)
      BY <1>2, <2>2
    <3>3. G[i] = v[i] /\ v[a + j] = o[j] /\ o[j] = t[j] /\ F[a + j] = t[j]
      BY <1>6, <1>8, <1>14, <1>15, <3>2
    <3> QED BY <3>1, <3>3
  <2>3. CASE a + n < i /\ i <= a + n + p
    <3>1. PICK j \in 1..p : a + n + j = i
      <4>1. i - (a + n) \in 1..p /\ a + n + (i - (a + n)) = i
        BY <1>2, <1>9, <1>13, <2>3
      <4> QED BY <4>1
    <3>2. G[i] = x[j]
      BY <1>14, <3>1
    <3>3. x[j] = IF n + j <= b THEN h[n + j] ELSE l[n + j - b]
      BY <1>1, <1>13 DEF After
    <3>4. CASE n + j <= b
      <4>1. PICK k \in 1..b : k = n + j /\ a + k = i
        BY <1>2, <3>1, <3>4
      <4> QED BY <1>12, <3>2, <3>3, <3>4, <4>1
    <3>5. CASE ~ (n + j <= b)
      <4>1. n + j - b \in 1..c /\ a + b + (n + j - b) = i
        BY <1>2, <3>1, <3>5
      <4>2. PICK k \in 1..c : k = n + j - b /\ a + b + k = i
        BY <4>1
      <4> QED BY <1>12, <3>2, <3>3, <3>5, <4>2
    <3> QED BY <3>4, <3>5
  <2>4. CASE a + n + p < i
    <3>1. PICK j \in 1..(c - e) : a + n + p + j = i
      <4>1. PICK r \in Nat : r = a + n + p
        BY <1>19
      <4>2. r = a + b + e
        BY <1>19, <4>1
      <4>3. a \in Nat /\ b \in Nat /\ c \in Nat /\ e \in Nat /\ r < i /\ r \in Nat
        BY <1>2, <2>4, <4>1
      <4>4. i - r \in 1..(c - e) /\ r + (i - r) = i
        BY <4>2, <4>3
      <4> QED BY <4>1, <4>4
    <3>2. PICK k \in 1..c : k = e + j /\ a + b + k = i
      <4>1. e + j \in 1..c /\ a + b + (e + j) = i
        BY <1>2, <1>19, <3>1
      <4> QED BY <4>1
    <3>3. G[i] = y[j] /\ y[j] = l[e + j] /\ F[a + b + k] = l[k]
      <4>1. \A z \in 1..(c - e) : y[z] = l[e + z]
        BY <1>9 DEF After
      <4>2. G[a + n + p + j] = y[j]
        BY <1>14
      <4> QED BY <1>12, <3>1, <4>1, <4>2
    <3> QED BY <3>2, <3>3
  <2> QED BY <1>2, <1>9, <1>13, <2>1, <2>2, <2>3, <2>4
<1>17. \A i \in 1..Total(w, h, l) : G[i] = F[i]
  BY <1>10, <1>16
<1> QED BY <1>1, <1>8, <1>10, <1>11, <1>17 DEF Moved

GoodStream(q, w, h, l) ==
  Good(q, Stream(w, h, l), Total(w, h, l), Len(w) + Len(h))

(* Writing n bytes leaves the stream in order, for raise_uncomplete lets   *)
(* the low list begin with a whole message.                                *)
LEMMA GoodWrote ==
  ASSUME NEW w, NEW h, NEW l, NEW x, NEW y, NEW n, NEW e, NEW v,
         Flow(w, h, l, n, x, y, e, v),
         NEW q, GoodStream(q, w, h, l)
  PROVE  GoodStream(q, v, x, y)
<1>0. /\ w \in Seq(Nat) /\ h \in Seq(Nat) /\ l \in Seq(Nat)
      /\ x \in Seq(Nat) /\ y \in Seq(Nat)
      /\ n \in 0..(Len(h) + Len(l)) /\ e \in 0..Len(l)
      /\ After(h, l, n, x, y, e) /\ v = w \o SubSeq(h \o l, 1, n)
  BY DEF Flow
<1> USE <1>0
<1>1. PICK a, b, c : a = Len(w) /\ b = Len(h) /\ c = Len(l)
  OBVIOUS
<1>2. PICK F, G, N : F = Stream(w, h, l) /\ G = Stream(v, x, y) /\ N = Total(w, h, l)
  OBVIOUS
<1>3. /\ v \in Seq(Nat) /\ Len(v) = a + n /\ Total(v, x, y) = N
      /\ \A i \in 1..N : G[i] = F[i]
  <2>1. Moved(w, h, l, n, v, x, y)
    BY Wrote
  <2> QED BY <1>1, <1>2, <2>1 DEF Moved
<1>4. a \in Nat /\ b \in Nat /\ c \in Nat /\ e \in Nat /\ e <= c /\ n \in Nat
      /\ N = a + b + c
  BY <1>1, <1>2 DEF Total
<1>5. n + Len(x) = b + e /\ Len(x) \in Nat /\ Cut(l, c, e)
  BY <1>1 DEF After
<1>6. PICK d : d = a + b + e
  OBVIOUS
<1>7. Len(v) + Len(x) = d
  <2>1. PICK p \in Nat : p = Len(x)
    OBVIOUS
  <2>2. n + p = b + e
    BY <1>5, <2>1
  <2>3. a \in Nat /\ b \in Nat /\ e \in Nat /\ n \in Nat
    BY <1>4
  <2>4. a + n + p = a + b + e
    BY <2>2, <2>3
  <2> QED BY <1>3, <1>6, <2>1, <2>4
<1>8. Good(q, F, N, a + b)
  BY <1>1, <1>2 DEF GoodStream
<1>9. Cut(G, N, d)
  <2>1. SUFFICES ASSUME 0 < d, d < N PROVE G[d] # G[d + 1]
    BY DEF Cut
  <2>2. d \in 1..N /\ d + 1 \in 1..N
    BY <1>4, <1>6, <2>1
  <2>3. G[d] = F[d] /\ G[d + 1] = F[d + 1]
    BY <1>3, <2>2
  <2>4. CASE e = 0
    <3>1. d = a + b
      BY <1>4, <1>6, <2>4
    <3>2. F[d] # F[d + 1]
      BY <1>8, <2>1, <3>1 DEF Good, Cut
    <3> QED BY <2>3, <3>2
  <2>5. CASE 0 < e
    <3>1. e \in 1..c /\ e + 1 \in 1..c /\ e < c /\ a + b + (e + 1) = d + 1
      BY <1>4, <1>6, <2>1, <2>5
    <3>0. Layout(F, w, h, l)
      BY <1>2, StreamAt
    <3>2. \A i \in 1..c : F[a + b + i] = l[i]
      BY <1>1, <3>0 DEF Layout
    <3>3. F[a + b + e] = l[e] /\ F[a + b + (e + 1)] = l[e + 1]
      BY <3>1, <3>2
    <3>4. l[e] # l[e + 1]
      BY <1>5, <2>5, <3>1 DEF Cut
    <3> QED BY <1>6, <2>3, <3>1, <3>3, <3>4
  <2> QED BY <1>4, <2>4, <2>5
<1>10. N \in Nat /\ a + b \in Nat /\ d \in Nat /\ a + b <= d
  BY <1>4, <1>6
<1>11. Good(q, G, N, d)
  BY <1>3, <1>8, <1>9, <1>10, GoodSame
<1> QED BY <1>2, <1>3, <1>7, <1>11 DEF GoodStream

-----------------------------------------------------------------------------
(* What a connection promises. q is the list of the messages, w what was   *)
(* written to the connection id, s the slot it belongs to; u is what its   *)
(* owner was told, and c whether it was closed cleanly.                    *)
TakenFor(q, m, id) == q[m].st = "taken" /\ q[m].to = id
Holds(f, n, m) == \E i \in 1..n : f[i] = m

(* Slot s belongs to id, and its socket is there.                          *)
LiveIn(s, id) == s.id = id /\ s.type \in LiveTypes

(* What is promised while the socket is there: the stream is in order and  *)
(* holds every message taken, and the owner was not told of the end.       *)
Served(q, id, w, s, u, c) ==
  /\ GoodStream(q, w, s.high, s.low)
  /\ u # "over" /\ ~c /\ (s.type = "CONNECTED" => u = "open")
  /\ \A m \in 1..Len(q) : TakenFor(q, m, id) =>
       Holds(Stream(w, s.high, s.low), Total(w, s.high, s.low), m)

(* What is promised of the bytes written: they are whole, and all of them  *)
(* when the socket was closed cleanly.                                     *)
Written(q, id, w, c) ==
  /\ \A i \in 1..Len(w) : w[i] \in 1..Len(q)
  /\ Whole(q, w)
  /\ c => \A m \in 1..Len(q) : TakenFor(q, m, id) => count(w, m) = Size

(* All that is promised to the connection of id.                           *)
Conn(q, id, w, s, u, c) ==
  /\ Written(q, id, w, c) /\ u # "stray"
  /\ LiveIn(s, id) => Served(q, id, w, s, u, c)

(* What can be said of the lists x and y that After describes.             *)
LEMMA AfterLow ==
  ASSUME NEW h \in Seq(Nat), NEW l \in Seq(Nat), Blocks(l, Len(l)),
         NEW x \in Seq(Nat), NEW y \in Seq(Nat), NEW n, NEW e \in 0..Len(l),
         After(h, l, n, x, y, e)
  PROVE  /\ Blocks(y, Len(y))
         /\ \A i \in 1..Len(y) : e + i \in 1..Len(l) /\ y[i] = l[e + i]
<1>1. PICK c \in Nat : c = Len(l)
  OBVIOUS
<1>2. /\ e \in 0..c /\ Len(y) = c - e /\ Cut(l, c, e) /\ Blocks(l, c)
      /\ \A i \in 1..(c - e) : y[i] = l[e + i]
  BY <1>1 DEF After
<1>3. Blocks(y, c - e)
  BY <1>2, BlocksRest
<1>4. \A i \in 1..(c - e) : e + i \in 1..c
  BY <1>2
<1> QED BY <1>1, <1>2, <1>3, <1>4

(* What is written after n more bytes, and what is left, when the stream   *)
(* was in order.                                                           *)
LEMMA WrittenMore ==
  ASSUME NEW w, NEW h, NEW l, NEW x, NEW y, NEW n, NEW e, NEW v,
         Flow(w, h, l, n, x, y, e, v),
         NEW q \in Seq(Messages), NEW id,
         GoodStream(q, w, h, l)
  PROVE  /\ v \in Seq(Nat) /\ Written(q, id, v, FALSE)
         /\ GoodStream(q, v, x, y)
         /\ \A m : Holds(Stream(w, h, l), Total(w, h, l), m) =>
                   Holds(Stream(v, x, y), Total(v, x, y), m)
<1>0. /\ w \in Seq(Nat) /\ h \in Seq(Nat) /\ l \in Seq(Nat)
      /\ x \in Seq(Nat) /\ y \in Seq(Nat)
      /\ n \in 0..(Len(h) + Len(l)) /\ e \in 0..Len(l)
      /\ After(h, l, n, x, y, e) /\ v = w \o SubSeq(h \o l, 1, n)
  BY DEF Flow
<1> USE <1>0
<1>1. GoodStream(q, v, x, y)
  BY GoodWrote
<1>2. Moved(w, h, l, n, v, x, y)
  BY Wrote
<1>3. PICK G, N : G = Stream(v, x, y) /\ N = Total(v, x, y)
  OBVIOUS
<1>11. v \in Seq(Nat)
  BY <1>2 DEF Moved
<1>4. PICK a \in Nat : a = Len(v)
  BY <1>11
<1>5. N \in Nat /\ a <= N
  <2>1. Len(x) \in Nat /\ Len(y) \in Nat
    OBVIOUS
  <2>2. N = a + Len(x) + Len(y)
    BY <1>3, <1>4 DEF Total
  <2> QED BY <1>4, <2>1, <2>2
<1>6. \A i \in 1..a : v[i] = G[i]
  <2>1. Layout(G, v, x, y)
    BY <1>3, <1>11, StreamAt
  <2> QED BY <1>4, <2>1 DEF Layout
<1>7. Good(q, G, N, a + Len(x))
  BY <1>1, <1>3, <1>4 DEF GoodStream
<1>8. Whole(q, v)
  BY <1>4, <1>5, <1>6, <1>7, <1>11, WholePrefix
<1>9. \A i \in 1..Len(v) : v[i] \in 1..Len(q)
  <2>1. \A i \in 1..N : G[i] \in 1..Len(q)
    BY <1>7 DEF Good
  <2>2. \A i \in 1..a : i \in 1..N
    BY <1>4, <1>5
  <2> QED BY <1>4, <1>6, <2>1, <2>2
<1>10. ASSUME NEW m, Holds(Stream(w, h, l), Total(w, h, l), m)
       PROVE  Holds(Stream(v, x, y), Total(v, x, y), m)
  BY <1>2, <1>10 DEF Holds, Moved
<1> QED BY <1>1, <1>11, <1>8, <1>9, <1>10 DEF Written

(* All that was taken has been written when the two lists are empty.       *)
LEMMA WrittenAll ==
  ASSUME NEW v \in Seq(Nat), NEW q \in Seq(Messages), NEW id,
         NEW x, NEW y, x = <<>>, y = <<>>,
         GoodStream(q, v, x, y),
         \A m \in 1..Len(q) : TakenFor(q, m, id) =>
           Holds(Stream(v, x, y), Total(v, x, y), m),
         Written(q, id, v, FALSE)
  PROVE  Written(q, id, v, TRUE)
<1>1. x \in Seq(Nat) /\ y \in Seq(Nat) /\ Len(x) = 0 /\ Len(y) = 0
  OBVIOUS
<1>2. PICK a \in Nat : a = Len(v)
  OBVIOUS
<1>3. Total(v, x, y) = a /\ Len(v) + Len(x) = a
  BY <1>1, <1>2 DEF Total
<1>4. PICK G : G = Stream(v, x, y)
  OBVIOUS
<1>5. \A i \in 1..a : v[i] = G[i]
  <2>1. Layout(G, v, x, y)
    BY <1>1, <1>4, StreamAt
  <2> QED BY <1>2, <2>1 DEF Layout
<1>6. Good(q, G, a, a)
  BY <1>3, <1>4 DEF GoodStream
<1>7. ASSUME NEW m \in 1..Len(q), TakenFor(q, m, id)
      PROVE  count(v, m) = Size
  <2>1. PICK i \in 1..a : G[i] = m
    BY <1>3, <1>4, <1>7 DEF Holds
  <2>2. count(v, G[i]) = Size
    BY <1>2, <1>5, <1>6, GoodCount
  <2> QED BY <2>1, <2>2
<1> QED BY <1>7 DEF Written

-----------------------------------------------------------------------------
(* What a call of send_buffer on socket s leaves behind.                   *)
Sent(s, o, n, e, x, y) ==
  /\ n \in 0..(Len(s.high) + Len(s.low)) /\ e \in 0..Len(s.low)
  /\ x \in Seq(Nat) /\ y \in Seq(Nat) /\ After(s.high, s.low, n, x, y, e)
  /\ o.out = SubSeq(s.high \o s.low, 1, n)
  /\ s.type = "RESERVE" => n = 0
  /\ o.end \in {"none", "error", "flushed"}
  /\ o.end = "flushed" => s.type = "HALFCLOSE" /\ x = <<>> /\ y = <<>>
  /\ o.end = "none" =>
       /\ o.s \in Socket /\ o.s.type = s.type /\ o.s.id = s.id
       /\ o.s.high = x /\ o.s.low = y
       /\ o.s.write = s.write \/ (x = <<>> /\ y = <<>>)

(* drop leaves a list of bytes.                                            *)
LEMMA DroppedSeq ==
  ASSUME NEW l \in Seq(Nat), NEW n \in Int
  PROVE  drop(l, n) \in Seq(Nat)
<1>1. CASE n <= 0
  BY <1>1, Dropped
<1>2. CASE n >= Len(l)
  BY <1>2, Dropped
<1>3. CASE n \in 0..Len(l)
  BY <1>3, Dropped, Rest
<1>4. n <= 0 \/ n >= Len(l) \/ n \in 0..Len(l)
  OBVIOUS
<1> QED BY <1>1, <1>2, <1>3, <1>4

(* Each outcome of send_buffer is as Sent describes it.                    *)
LEMMA SendBuffer ==
  ASSUME NEW s \in Socket, Blocks(s.low, Len(s.low)), NEW o \in send_buffer(s)
  PROVE  \E n, e, x, y : Sent(s, o, n, e, x, y)
<1> DEFINE h == s.high
           l == s.low
           b == h \o l
<1>1. h = s.high /\ l = s.low
  OBVIOUS
<1>2. h \in Seq(Nat) /\ l \in Seq(Nat) /\ Len(h) \in Nat /\ Len(l) \in Nat
  BY <1>1 DEF Socket
<1>3. b = h \o l
  OBVIOUS
<1>4. Len(b) = Len(h) + Len(l) /\ b \in Seq(Nat)
  BY <1>2, <1>3, Joined
<1> DEFINE all(n) == n = Len(b) /\ l = <<>>
           t(n) == [s EXCEPT !.high = drop(@, n), !.low = drop(@, n - Len(h)),
                             !.write = @ /\ ~ all(n)]
           r(n) == raise_uncomplete(t(n))
           O(n, z, end) == [out |-> SubSeq(b, 1, n), s |-> z, end |-> end]
<1>5. \/ s.type = "RESERVE" /\ b # <<>> /\ o = O(0, s, "error")
      \/ /\ ~ (s.type = "RESERVE" /\ b # <<>>)
         /\ \/ \E n \in 0..(Len(b) - 1) : o = O(n, s, "error")
            \/ \E n \in 0..Len(b) :
                 o = O(n, r(n), IF all(n) /\ s.type = "HALFCLOSE"
                                THEN "flushed" ELSE "none")
  <2> DEFINE E == {O(n, s, "error") : n \in 0..(Len(b) - 1)}
             F == {O(n, r(n), IF all(n) /\ s.type = "HALFCLOSE"
                              THEN "flushed" ELSE "none") : n \in 0..Len(b)}
  <2>2. send_buffer(s) = IF s.type = "RESERVE" /\ b # <<>>
                         THEN {O(0, s, "error")} ELSE E \cup F
    BY Zenon DEF send_buffer
  <2>3. o \in send_buffer(s)
    OBVIOUS
  <2> HIDE DEF O, r, h, l, b
  <2>4. CASE s.type = "RESERVE" /\ b # <<>>
    BY <2>2, <2>3, <2>4
  <2>5. CASE ~ (s.type = "RESERVE" /\ b # <<>>)
    <3>1. o \in E \/ o \in F
      BY <2>2, <2>3, <2>5
    <3> QED BY <2>5, <3>1
  <2> QED BY <2>4, <2>5
<1> HIDE DEF h, l, b
<1>6. PICK n \in 0..Len(b) :
        /\ s.type = "RESERVE" => n = 0
        /\ \/ o = O(n, s, "error")
           \/ o = O(n, r(n), IF all(n) /\ s.type = "HALFCLOSE"
                             THEN "flushed" ELSE "none")
  <2>1. CASE s.type = "RESERVE" /\ b # <<>> /\ o = O(0, s, "error")
    <3>1. 0 \in 0..Len(b)
      BY <1>2, <1>4
    <3> QED BY <2>1, <3>1
  <2>2. ASSUME ~ (s.type = "RESERVE" /\ b # <<>>), NEW n \in 0..Len(b)
        PROVE  s.type = "RESERVE" => n = 0
    BY <1>4, <2>2
  <2>3. CASE /\ ~ (s.type = "RESERVE" /\ b # <<>>)
             /\ \E n \in 0..(Len(b) - 1) : o = O(n, s, "error")
    <3>1. PICK n \in 0..(Len(b) - 1) : o = O(n, s, "error")
      BY <2>3
    <3>2. n \in 0..Len(b)
      BY <1>2, <1>4
    <3> QED BY <2>2, <2>3, <3>1, <3>2
  <2>4. CASE /\ ~ (s.type = "RESERVE" /\ b # <<>>)
             /\ \E n \in 0..Len(b) :
                  o = O(n, r(n), IF all(n) /\ s.type = "HALFCLOSE"
                                 THEN "flushed" ELSE "none")
    BY <2>2, <2>4
  <2> QED BY <1>5, <2>1, <2>3, <2>4
<1>7. n \in Int /\ n - Len(h) \in Int /\ n \in 0..(Len(h) + Len(l))
  BY <1>2, <1>4
<1>8. /\ t(n) \in Socket /\ t(n).high = drop(h, n)
      /\ t(n).low = drop(l, n - Len(h))
      /\ t(n).type = s.type /\ t(n).id = s.id
      /\ t(n).write = (s.write /\ ~ all(n))
  <2>1. drop(h, n) \in Seq(Nat) /\ drop(l, n - Len(h)) \in Seq(Nat)
    BY <1>2, <1>7, DroppedSeq
  <2> QED BY <1>1, <2>1 DEF Socket
<1>9. PICK z : z = t(n)
  OBVIOUS
<1>10. /\ z \in Socket /\ z.high = drop(h, n) /\ z.low = drop(l, n - Len(h))
       /\ Blocks(l, Len(l))
  BY <1>1, <1>8, <1>9
<1>11. PICK v : v = raise_uncomplete(z)
  OBVIOUS
<1>12. /\ v \in Socket
       /\ v.type = z.type /\ v.id = z.id /\ v.write = z.write
       /\ \E e \in 0..Len(l) : After(h, l, n, v.high, v.low, e)
  BY <1>2, <1>7, <1>10, <1>11, LeftLists
<1>13. PICK e \in 0..Len(l) : After(h, l, n, v.high, v.low, e)
  BY <1>12
<1>14. v.high \in Seq(Nat) /\ v.low \in Seq(Nat)
  BY <1>12 DEF Socket
<1>15. ASSUME all(n)
       PROVE  v.high = <<>> /\ v.low = <<>>
  <2>1. n + Len(v.high) = Len(h) + e /\ Len(v.low) = Len(l) - e /\ Len(l) = 0
    BY <1>13, <1>15 DEF After
  <2>2. n = Len(h) /\ e = 0
    BY <1>2, <1>4, <1>15, <2>1
  <2>3. Len(v.high) = 0 /\ Len(v.low) = 0
    <3>1. PICK i \in Nat : i = Len(v.high)
      BY <1>14
    <3> QED BY <1>2, <2>1, <2>2, <3>1
  <2> QED BY <1>14, <2>3
<1>16. ~ all(n) => v.write = s.write
  BY <1>8, <1>9, <1>12 DEF Socket
<1>17. v.type = s.type /\ v.id = s.id
  BY <1>8, <1>9, <1>12
<1>18. /\ o.out = SubSeq(b, 1, n)
       /\ o.end \in {"none", "error", "flushed"}
       /\ o.end = "flushed" => all(n) /\ s.type = "HALFCLOSE"
       /\ o.end = "none" => o.s = v
  <2>1. CASE o = O(n, s, "error")
    BY <2>1
  <2>2. CASE o = O(n, r(n), IF all(n) /\ s.type = "HALFCLOSE"
                            THEN "flushed" ELSE "none")
    BY <1>9, <1>11, <2>2
  <2> QED BY <1>6, <2>1, <2>2
<1> HIDE DEF all, t, r, O
<1>19. Sent(s, o, n, e, v.high, v.low)
  <2>1. o.out = SubSeq(s.high \o s.low, 1, n)
    BY <1>1, <1>3, <1>18
  <2>2. /\ n \in 0..(Len(s.high) + Len(s.low)) /\ e \in 0..Len(s.low)
        /\ After(s.high, s.low, n, v.high, v.low, e)
    BY <1>1, <1>7, <1>13
  <2>3. s.type = "RESERVE" => n = 0
    BY <1>6
  <2>4. o.end = "flushed" => s.type = "HALFCLOSE" /\ v.high = <<>> /\ v.low = <<>>
    BY <1>15, <1>18
  <2>5. o.end = "none" =>
          /\ o.s \in Socket /\ o.s.type = s.type /\ o.s.id = s.id
          /\ o.s.high = v.high /\ o.s.low = v.low
          /\ o.s.write = s.write \/ (v.high = <<>> /\ v.low = <<>>)
    BY <1>12, <1>15, <1>16, <1>17, <1>18
  <2> QED BY <1>14, <1>18, <2>1, <2>2, <2>3, <2>4, <2>5, Zenon DEF Sent
<1> QED BY <1>19

-----------------------------------------------------------------------------
(* What slot k holds, when n is the last id that was given out.            *)
SlotOk(q, k, s, n) ==
  /\ s.id # 0 => HASH_ID(s.id) = k
  /\ s.type \in LiveTypes => s.id # 0
  /\ s.id <= n
  /\ s.type \in {"LISTEN", "PLISTEN", "PACCEPT"} =>
       s.high = <<>> /\ s.low = <<>>
  /\ s.type = "CONNECTING" => s.write
  /\ s.type \in {"CONNECTED", "HALFCLOSE"} =>
       s.write \/ (s.high = <<>> /\ s.low = <<>>)
  /\ Blocks(s.low, Len(s.low))
  /\ \A i \in 1..Len(s.low) : s.low[i] \in 1..Len(q) /\ q[s.low[i]].st # "pipe"

(* A slot with empty lists is as it should be.                             *)
LEMMA SlotEmptied ==
  ASSUME NEW q, NEW k, NEW n, NEW s, s.id # 0 => HASH_ID(s.id) = k, s.id <= n,
         s.type \in LiveTypes => s.id # 0, s.high = <<>>, s.low = <<>>,
         s.type = "CONNECTING" => s.write
  PROVE  SlotOk(q, k, s, n)
<1>1. Len(s.low) = 0
  OBVIOUS
<1>2. Blocks(s.low, Len(s.low))
  BY <1>1 DEF Blocks
<1>3. \A i \in 1..Len(s.low) : s.low[i] \in 1..Len(q) /\ q[s.low[i]].st # "pipe"
  BY <1>1
<1> QED BY <1>2, <1>3 DEF SlotOk

(* A slot stays as it should be when messages and ids are added.           *)
LEMMA SlotGrown ==
  ASSUME NEW q \in Seq(Messages), NEW r \in Seq(Messages), Grown(q, r),
         NEW k, NEW s, NEW n \in Int, NEW p \in Int, n <= p, s.id \in Int,
         SlotOk(q, k, s, n)
  PROVE  SlotOk(r, k, s, p)
<1>1. Len(q) \in Nat /\ Len(r) \in Nat /\ Len(q) <= Len(r)
  BY DEF Grown
<1>2. ASSUME NEW i \in 1..Len(s.low)
      PROVE  s.low[i] \in 1..Len(r) /\ r[s.low[i]].st # "pipe"
  <2>1. s.low[i] \in 1..Len(q) /\ q[s.low[i]].st # "pipe"
    BY DEF SlotOk
  <2> QED BY <1>1, <2>1 DEF Grown
<1>3. s.id <= p
  BY DEF SlotOk
<1> QED BY <1>2, <1>3 DEF SlotOk

(* The slot that a call of send_buffer leaves is as it should be, if it    *)
(* stays open or is half closed.                                           *)
LEMMA SlotSent ==
  ASSUME NEW q, NEW k, NEW a, NEW s \in Socket, SlotOk(q, k, s, a),
         NEW o, NEW n, NEW e, NEW x, NEW y, Sent(s, o, n, e, x, y),
         o.end = "none", NEW t,
         t.id = o.s.id, t.high = o.s.high, t.low = o.s.low, t.write = o.s.write,
         \/ t.type = s.type /\ s.type # "CONNECTING"
         \/ t.type = "HALFCLOSE" /\ s.type \in LiveTypes
  PROVE  SlotOk(q, k, t, a)
<1>1. PICK h, l : h = s.high /\ l = s.low
  OBVIOUS
<1>2. h \in Seq(Nat) /\ l \in Seq(Nat) /\ Len(h) \in Nat /\ Len(l) \in Nat
  BY <1>1 DEF Socket
<1>3. /\ x \in Seq(Nat) /\ y \in Seq(Nat) /\ After(h, l, n, x, y, e)
      /\ n \in 0..(Len(h) + Len(l)) /\ e \in 0..Len(l)
      /\ t.id = s.id /\ t.high = x /\ t.low = y
      /\ t.write = s.write \/ (x = <<>> /\ y = <<>>)
  BY <1>1 DEF Sent
<1>4. /\ Blocks(l, Len(l))
      /\ \A i \in 1..Len(l) : l[i] \in 1..Len(q) /\ q[l[i]].st # "pipe"
  BY <1>1 DEF SlotOk
<1>5. /\ Blocks(y, Len(y))
      /\ \A i \in 1..Len(y) : e + i \in 1..Len(l) /\ y[i] = l[e + i]
  <2>1. Blocks(y, Len(y))
    BY <1>2, <1>3, <1>4, AfterLow
  <2>2. \A i \in 1..Len(y) : e + i \in 1..Len(l) /\ y[i] = l[e + i]
    BY <1>2, <1>3, <1>4, AfterLow
  <2> QED BY <2>1, <2>2
<1>6. \A i \in 1..Len(y) : y[i] \in 1..Len(q) /\ q[y[i]].st # "pipe"
  BY <1>4, <1>5
<1>7. ASSUME h = <<>>, l = <<>>
      PROVE  x = <<>> /\ y = <<>>
  <2>1. Len(h) = 0 /\ Len(l) = 0
    BY <1>7
  <2>2. n = 0 /\ e = 0
    BY <1>3, <2>1
  <2>3. n + Len(x) = Len(h) + e /\ Len(y) = Len(l) - e
    BY <1>3 DEF After
  <2>4. PICK i \in Nat : i = Len(x)
    BY <1>3
  <2>5. Len(x) = 0 /\ Len(y) = 0
    BY <2>1, <2>2, <2>3, <2>4
  <2> QED BY <1>3, <2>5
<1>8. s.type \in {"LISTEN", "PLISTEN", "PACCEPT"} => x = <<>> /\ y = <<>>
  BY <1>1, <1>7 DEF SlotOk
<1>9. s.type \in {"CONNECTING", "CONNECTED", "HALFCLOSE"} =>
        t.write \/ (x = <<>> /\ y = <<>>)
  BY <1>1, <1>3, <1>7 DEF SlotOk
<1>10. /\ t.type \in {"LISTEN", "PLISTEN", "PACCEPT"} =>
            t.high = <<>> /\ t.low = <<>>
       /\ t.type = "CONNECTING" => t.write
  BY <1>3, <1>8
<1>11. t.type \in {"CONNECTED", "HALFCLOSE"} =>
         t.write \/ (t.high = <<>> /\ t.low = <<>>)
  <2>1. t.type \in {"CONNECTED", "HALFCLOSE"} =>
          s.type \in LiveTypes
    BY DEF LiveTypes
  <2> QED BY <1>3, <1>8, <1>9, <2>1 DEF LiveTypes
<1>12. /\ t.id # 0 => HASH_ID(t.id) = k
       /\ t.type \in LiveTypes => t.id # 0
       /\ t.id <= a
  BY <1>3 DEF SlotOk, LiveTypes
<1> QED BY <1>3, <1>5, <1>6, <1>10, <1>11, <1>12 DEF SlotOk

-----------------------------------------------------------------------------
(* A connection that ends keeps what was written to it.                    *)
LEMMA ConnOver ==
  ASSUME NEW q, NEW id, NEW w, NEW s, NEW u, NEW c, Conn(q, id, w, s, u, c),
         NEW t, ~ LiveIn(t, id), NEW v, v # "stray"
  PROVE  Conn(q, id, w, t, v, c)
BY DEF Conn

(* The promise to a connection stays kept when messages are added that are *)
(* not taken for it.                                                       *)
LEMMA ConnGrown ==
  ASSUME NEW q \in Seq(Messages), NEW r \in Seq(Messages), Grown(q, r),
         NEW id, NEW w \in Seq(Nat), NEW s \in Socket, NEW u, NEW c,
         Conn(q, id, w, s, u, c),
         \A m \in 1..Len(r) :
           TakenFor(r, m, id) => m \in 1..Len(q) /\ TakenFor(q, m, id)
  PROVE  Conn(r, id, w, s, u, c)
<1>1. Len(q) \in Nat /\ Len(r) \in Nat /\ 1..Len(q) \subseteq 1..Len(r)
  BY DEF Grown
<1>2. Written(q, id, w, c) /\ u # "stray"
  BY DEF Conn
<1>3. Whole(r, w)
  BY <1>2, WholeGrown DEF Written
<1>4. Written(r, id, w, c)
  <2>1. \A i \in 1..Len(w) : w[i] \in 1..Len(r)
    BY <1>1, <1>2 DEF Written
  <2>2. ASSUME c, NEW m \in 1..Len(r), TakenFor(r, m, id)
        PROVE  count(w, m) = Size
    BY <1>2, <2>2 DEF Written
  <2> QED BY <1>3, <2>1, <2>2 DEF Written
<1>5. ASSUME LiveIn(s, id)
      PROVE  Served(r, id, w, s, u, c)
  <2>1. Served(q, id, w, s, u, c)
    BY <1>5 DEF Conn
  <2>2. PICK F, N, C : /\ F = Stream(w, s.high, s.low)
                       /\ N = Total(w, s.high, s.low) /\ C = Len(w) + Len(s.high)
    OBVIOUS
  <2>3. Good(q, F, N, C)
    BY <2>1, <2>2 DEF Served, GoodStream
  <2>4. N \in Nat
    <3>1. s.high \in Seq(Nat) /\ s.low \in Seq(Nat)
      BY DEF Socket
    <3> QED BY <2>2, <3>1, TotalIsNat
  <2>5. Good(r, F, N, C)
    BY <2>3, <2>4, GoodGrown
  <2>6. GoodStream(r, w, s.high, s.low)
    BY <2>2, <2>5 DEF GoodStream
  <2>7. ASSUME NEW m \in 1..Len(r), TakenFor(r, m, id)
        PROVE  Holds(F, N, m)
    BY <2>1, <2>2, <2>7 DEF Served
  <2> QED BY <2>1, <2>2, <2>6, <2>7 DEF Served
<1> QED BY <1>2, <1>4, <1>5 DEF Conn

(* The lists empty, all that was taken has been written.                   *)
LEMMA ConnFinished ==
  ASSUME NEW q \in Seq(Messages), NEW id, NEW w \in Seq(Nat),
         NEW s \in Socket, NEW u, NEW c,
         Written(q, id, w, FALSE), Served(q, id, w, s, u, c), nomore(s)
  PROVE  Written(q, id, w, TRUE)
<1>1. s.high = <<>> /\ s.low = <<>>
  BY DEF nomore
<1>2. /\ GoodStream(q, w, s.high, s.low)
      /\ \A m \in 1..Len(q) : TakenFor(q, m, id) =>
           Holds(Stream(w, s.high, s.low), Total(w, s.high, s.low), m)
  BY DEF Served
<1> QED BY <1>1, <1>2, WrittenAll

(* What a call of send_buffer writes.                                      *)
LEMMA ConnSent ==
  ASSUME NEW q \in Seq(Messages), NEW id, NEW w \in Seq(Nat),
         NEW s \in Socket, NEW u, NEW c, Served(q, id, w, s, u, c),
         NEW o, NEW n, NEW e, NEW x, NEW y, Sent(s, o, n, e, x, y)
  PROVE  /\ w \o o.out \in Seq(Nat) /\ Written(q, id, w \o o.out, FALSE)
         /\ o.end = "flushed" => Written(q, id, w \o o.out, TRUE)
         /\ o.end = "none" => Served(q, id, w \o o.out, o.s, u, c)
<1>1. PICK h, l, v : h = s.high /\ l = s.low /\ v = w \o o.out
  OBVIOUS
<1>2. Flow(w, h, l, n, x, y, e, v)
  BY <1>1 DEF Sent, Flow, Socket
<1>3. /\ GoodStream(q, w, h, l)
      /\ \A m \in 1..Len(q) : TakenFor(q, m, id) =>
           Holds(Stream(w, h, l), Total(w, h, l), m)
      /\ u # "over" /\ ~c /\ (s.type = "CONNECTED" => u = "open")
  BY <1>1 DEF Served
<1>4. v \in Seq(Nat) /\ Written(q, id, v, FALSE) /\ GoodStream(q, v, x, y)
  BY <1>2, <1>3, WrittenMore
<1>5. ASSUME NEW m \in 1..Len(q), TakenFor(q, m, id)
      PROVE  Holds(Stream(v, x, y), Total(v, x, y), m)
  <2>1. Holds(Stream(w, h, l), Total(w, h, l), m)
    BY <1>3, <1>5
  <2> QED BY <1>2, <1>3, <2>1, WrittenMore
<1>6. ASSUME o.end = "flushed" PROVE Written(q, id, v, TRUE)
  <2>1. x = <<>> /\ y = <<>>
    BY <1>6 DEF Sent
  <2> QED BY <1>4, <1>5, <2>1, WrittenAll
<1>7. ASSUME o.end = "none" PROVE Served(q, id, v, o.s, u, c)
  <2>1. o.s.high = x /\ o.s.low = y /\ o.s.type = s.type
    BY <1>7 DEF Sent
  <2> QED BY <1>3, <1>4, <1>5, <2>1 DEF Served
<1> QED BY <1>1, <1>4, <1>6, <1>7

-----------------------------------------------------------------------------
(* Message m is taken: r is the list of the messages after that.           *)
Takes(q, r, m, id) ==
  /\ q \in Seq(Messages) /\ r \in Seq(Messages) /\ Grown(q, r)
  /\ m \in 1..Len(q) /\ q[m].st = "pipe"
  /\ \A v \in 1..Len(q) : q[v].st = "taken" => v < m
  /\ r[m].st = "taken" /\ Len(r) = Len(q)
  /\ \A i \in 1..Len(r) : TakenFor(r, i, id) => i = m \/ TakenFor(q, i, id)

(* Where the bytes of m begin: behind the whole stream, or where the low   *)
(* list begins.                                                            *)
Begins(q, m, w, h, l, v, x, d) ==
  \/ /\ d = Total(w, h, l) /\ Len(v) + Len(x) = Len(w) + Len(h)
     /\ q[m].cmd = "P"
  \/ /\ d = Len(w) + Len(h) /\ Len(v) + Len(x) = Len(w) + Len(h) + Size
     /\ (l = <<>> \/ q[m].cmd = "D")

(* The bytes of a message: they begin at place d of the stream.            *)
LEMMA TakenBytes ==
  ASSUME NEW q, NEW r, NEW m, NEW id, Takes(q, r, m, id),
         NEW w \in Seq(Nat), NEW h \in Seq(Nat), NEW l \in Seq(Nat),
         GoodStream(q, w, h, l),
         NEW v \in Seq(Nat), NEW x \in Seq(Nat), NEW y \in Seq(Nat),
         NEW d \in 0..Total(w, h, l),
         Begins(q, m, w, h, l, v, x, d),
         Inserted(Stream(w, h, l), Total(w, h, l), d, m, Stream(v, x, y),
                  Total(v, x, y))
  PROVE  /\ GoodStream(r, v, x, y)
         /\ \A i \in 1..Len(r) :
              /\ TakenFor(r, i, id)
              /\ TakenFor(q, i, id) => Holds(Stream(w, h, l), Total(w, h, l), i)
              => Holds(Stream(v, x, y), Total(v, x, y), i)
<1>1. PICK F, N, G, M : /\ F = Stream(w, h, l) /\ N = Total(w, h, l)
                        /\ G = Stream(v, x, y) /\ M = Total(v, x, y)
  OBVIOUS
<1>2. PICK c, e : c = Len(w) + Len(h) /\ e = Len(v) + Len(x)
  OBVIOUS
<1>3. c \in Nat /\ e \in Nat /\ N = c + Len(l) /\ Len(l) \in Nat
      /\ Size \in Nat /\ Size # 0
  <2>1. Len(w) \in Nat /\ Len(h) \in Nat /\ Len(l) \in Nat /\ Len(v) \in Nat
        /\ Len(x) \in Nat
    OBVIOUS
  <2>2. N = Len(w) + Len(h) + Len(l)
    BY <1>1 DEF Total
  <2> QED BY <1>2, <2>1, <2>2, SizeIsNat
<1>4. N \in Nat /\ c \in 0..N /\ d \in 0..N /\ (l = <<>> => c = N)
  BY <1>1, <1>3
<1>5. Good(q, F, N, c)
  BY <1>1, <1>2 DEF GoodStream
<1>6. Inserted(F, N, d, m, G, M)
  BY <1>1
<1>7. \/ d = N /\ e = c /\ q[m].cmd = "P"
      \/ d = c /\ e = c + Size /\ (c = N \/ q[m].cmd = "D")
  BY <1>1, <1>2, <1>4 DEF Begins
<1>8. /\ q \in Seq(Messages) /\ r \in Seq(Messages) /\ Grown(q, r)
      /\ m \in 1..Len(q) /\ q[m].st = "pipe" /\ r[m].st = "taken"
      /\ \A z \in 1..Len(q) : q[z].st = "taken" => z < m
  BY DEF Takes
<1>9. Good(r, G, M, e)
  <2>1. Place(q, m, N, c, d, e)
    BY <1>7 DEF Place
  <2> QED BY <1>3, <1>4, <1>5, <1>6, <1>8, <2>1, GoodInsert
<1>10. GoodStream(r, v, x, y)
  BY <1>1, <1>2, <1>9 DEF GoodStream
<1>11. /\ M = N + Size
       /\ \A i \in 1..d : G[i] = F[i]
       /\ \A i \in (d + 1)..(d + Size) : G[i] = m
       /\ \A i \in (d + 1)..N : G[i + Size] = F[i]
  BY <1>6 DEF Inserted
<1>12. Holds(G, M, m)
  <2>1. d + 1 \in (d + 1)..(d + Size) /\ d + 1 \in 1..M
    BY <1>3, <1>4, <1>11
  <2>2. G[d + 1] = m
    BY <1>11, <2>1
  <2> QED BY <2>1, <2>2 DEF Holds
<1>13. ASSUME NEW i, Holds(F, N, i)
       PROVE  Holds(G, M, i)
  <2>1. PICK j \in 1..N : F[j] = i
    BY <1>13 DEF Holds
  <2>2. CASE j <= d
    <3>1. j \in 1..d /\ j \in 1..M
      BY <1>3, <1>4, <1>11, <2>2
    <3>2. G[j] = i
      BY <1>11, <2>1, <3>1
    <3> QED BY <3>1, <3>2 DEF Holds
  <2>3. CASE d < j
    <3>1. j \in (d + 1)..N /\ j + Size \in 1..M
      BY <1>3, <1>4, <1>11, <2>3
    <3>2. G[j + Size] = i
      BY <1>11, <2>1, <3>1
    <3> QED BY <3>1, <3>2 DEF Holds
  <2>4. j <= d \/ d < j
    BY <1>4
  <2> QED BY <2>2, <2>3, <2>4
<1>14. ASSUME NEW i \in 1..Len(r), TakenFor(r, i, id),
              TakenFor(q, i, id) => Holds(F, N, i)
       PROVE  Holds(G, M, i)
  <2>1. i = m \/ TakenFor(q, i, id)
    BY <1>14 DEF Takes
  <2> QED BY <1>12, <1>13, <1>14, <2>1
<1> QED BY <1>1, <1>10, <1>14

-----------------------------------------------------------------------------

(* The bytes of a message are its number, n times.                         *)
LEMMA Copies ==
  ASSUME NEW m \in Nat, NEW n \in Nat, NEW t, t = [i \in 1..n |-> m]
  PROVE  t \in Seq(Nat) /\ Len(t) = n /\ \A i \in 1..n : t[i] = m
<1>1. t \in [1..n -> Nat]
  OBVIOUS
<1>2. t \in Seq(Nat) /\ Len(t) = n
  BY <1>1
<1> QED BY <1>2

(* A list with a message behind it.                                        *)
Behind(h, m, n, x) ==
  /\ x \in Seq(Nat) /\ Len(x) = Len(h) + n
  /\ \A i \in 1..Len(h) : x[i] = h[i]
  /\ \A i \in 1..n : x[Len(h) + i] = m

(* Appending the bytes of m puts them behind the list.                     *)
LEMMA PutBehind ==
  ASSUME NEW h \in Seq(Nat), NEW m \in Nat, NEW n \in Nat, NEW x,
         x = h \o [i \in 1..n |-> m]
  PROVE  Behind(h, m, n, x)
<1>1. PICK t : t = [i \in 1..n |-> m]
  OBVIOUS
<1>2. t \in Seq(Nat) /\ Len(t) = n /\ \A i \in 1..n : t[i] = m
  BY <1>1, Copies
<1>3. h \o t \in Seq(Nat) /\ Len(h \o t) = Len(h) + Len(t)
  BY <1>2, Joined
<1>4. \A i \in 1..Len(h) : (h \o t)[i] = h[i]
  BY <1>2, Joined
<1>5. \A i \in 1..Len(t) : (h \o t)[Len(h) + i] = t[i]
  BY <1>2, Joined
<1> QED BY <1>1, <1>2, <1>3, <1>4, <1>5 DEF Behind

(* Message m behind the low list, behind the high list, or behind what has *)
(* been written when both lists are empty.                                 *)
LEMMA PutLow ==
  ASSUME NEW w \in Seq(Nat), NEW h \in Seq(Nat), NEW l \in Seq(Nat),
         NEW m \in Nat, NEW y, Behind(l, m, Size, y),
         ~ Holds(Stream(w, h, l), Total(w, h, l), m)
  PROVE  Inserted(Stream(w, h, l), Total(w, h, l), Total(w, h, l), m,
                  Stream(w, h, y), Total(w, h, y))
<1>1. PICK a \in Nat, b \in Nat, c \in Nat :
        a = Len(w) /\ b = Len(h) /\ c = Len(l)
  OBVIOUS
<1>2. PICK F, G, N, M : /\ F = Stream(w, h, l) /\ G = Stream(w, h, y)
                        /\ N = Total(w, h, l) /\ M = Total(w, h, y)
  OBVIOUS
<1>3. /\ y \in Seq(Nat) /\ Len(y) = c + Size
      /\ \A i \in 1..c : y[i] = l[i]
      /\ \A i \in 1..Size : y[c + i] = m
  BY <1>1 DEF Behind
<1>4. Size \in Nat /\ N = a + b + c /\ M = a + b + (c + Size)
  BY <1>1, <1>2, <1>3, SizeIsNat DEF Total
<1>5. Layout(F, w, h, l) /\ Layout(G, w, h, y)
  BY <1>2, <1>3, StreamAt
<1>6. /\ \A i \in 1..a : F[i] = w[i]
      /\ \A i \in 1..b : F[a + i] = h[i]
      /\ \A i \in 1..c : F[a + b + i] = l[i]
  BY <1>1, <1>5 DEF Layout
<1>7. /\ \A i \in 1..a : G[i] = w[i]
      /\ \A i \in 1..b : G[a + i] = h[i]
      /\ \A i \in 1..(c + Size) : G[a + b + i] = y[i]
  BY <1>1, <1>3, <1>5 DEF Layout
<1>8. ASSUME NEW i \in 1..N PROVE G[i] = F[i]
  <2>1. CASE i <= a
    <3>1. i \in 1..a
      BY <1>4, <2>1
    <3> QED BY <1>6, <1>7, <3>1
  <2>2. CASE a < i /\ i <= a + b
    <3>1. PICK j \in 1..b : i = a + j
      <4>1. i - a \in 1..b /\ i = a + (i - a)
        BY <2>2
      <4> QED BY <4>1
    <3> QED BY <1>6, <1>7, <3>1
  <2>3. CASE a + b < i
    <3>1. PICK j \in 1..c : i = a + b + j
      <4>1. i - (a + b) \in 1..c /\ i = a + b + (i - (a + b))
        BY <1>4, <2>3
      <4> QED BY <4>1
    <3>2. j \in 1..(c + Size)
      BY <1>4
    <3>3. G[a + b + j] = y[j] /\ y[j] = l[j] /\ F[a + b + j] = l[j]
      BY <1>3, <1>6, <1>7, <3>2
    <3> QED BY <3>1, <3>3
  <2> QED BY <1>4, <2>1, <2>2, <2>3
<1>9. ASSUME NEW i \in (N + 1)..(N + Size) PROVE G[i] = m
  <2>1. PICK j \in 1..Size : i = N + j
    <3>1. i - N \in 1..Size /\ i = N + (i - N)
      BY <1>4
    <3> QED BY <3>1
  <2>2. c + j \in 1..(c + Size) /\ a + b + (c + j) = i
    BY <1>4, <2>1
  <2>3. PICK k \in 1..(c + Size) : k = c + j /\ a + b + k = i
    BY <2>2
  <2>4. G[a + b + k] = y[k] /\ y[c + j] = m
    BY <1>3, <1>7
  <2> QED BY <2>3, <2>4
<1>10. \A i \in 1..N : F[i] # m
  BY <1>2 DEF Holds
<1>11. M = N + Size /\ \A i \in (N + 1)..N : G[i + Size] = F[i]
  BY <1>4
<1> QED BY <1>2, <1>8, <1>9, <1>10, <1>11 DEF Inserted

(* Message m behind the high list.                                         *)
LEMMA PutHigh ==
  ASSUME NEW w \in Seq(Nat), NEW h \in Seq(Nat), NEW l \in Seq(Nat),
         NEW m \in Nat, NEW x, Behind(h, m, Size, x),
         ~ Holds(Stream(w, h, l), Total(w, h, l), m)
  PROVE  Inserted(Stream(w, h, l), Total(w, h, l), Len(w) + Len(h), m,
                  Stream(w, x, l), Total(w, x, l))
<1>1. PICK a \in Nat, b \in Nat, c \in Nat :
        a = Len(w) /\ b = Len(h) /\ c = Len(l)
  OBVIOUS
<1>2. PICK F, G, N, M : /\ F = Stream(w, h, l) /\ G = Stream(w, x, l)
                        /\ N = Total(w, h, l) /\ M = Total(w, x, l)
  OBVIOUS
<1>3. /\ x \in Seq(Nat) /\ Len(x) = b + Size
      /\ \A i \in 1..b : x[i] = h[i]
      /\ \A i \in 1..Size : x[b + i] = m
  BY <1>1 DEF Behind
<1>4. Size \in Nat /\ N = a + b + c /\ M = a + (b + Size) + c
  BY <1>1, <1>2, <1>3, SizeIsNat DEF Total
<1>5. Layout(F, w, h, l) /\ Layout(G, w, x, l)
  BY <1>2, <1>3, StreamAt
<1>6. /\ \A i \in 1..a : F[i] = w[i]
      /\ \A i \in 1..b : F[a + i] = h[i]
      /\ \A i \in 1..c : F[a + b + i] = l[i]
  BY <1>1, <1>5 DEF Layout
<1>7. /\ \A i \in 1..a : G[i] = w[i]
      /\ \A i \in 1..(b + Size) : G[a + i] = x[i]
      /\ \A i \in 1..c : G[a + (b + Size) + i] = l[i]
  BY <1>1, <1>3, <1>5 DEF Layout
<1>8. ASSUME NEW i \in 1..(a + b) PROVE G[i] = F[i]
  <2>1. CASE i <= a
    BY <1>6, <1>7, <2>1
  <2>2. CASE a < i
    <3>1. PICK j \in 1..b : i = a + j
      <4>1. i - a \in 1..b /\ i = a + (i - a)
        BY <2>2
      <4> QED BY <4>1
    <3>2. j \in 1..(b + Size)
      BY <1>4
    <3>3. G[a + j] = x[j] /\ x[j] = h[j] /\ F[a + j] = h[j]
      BY <1>3, <1>6, <1>7, <3>2
    <3> QED BY <3>1, <3>3
  <2> QED BY <2>1, <2>2
<1>9. ASSUME NEW i \in (a + b + 1)..(a + b + Size) PROVE G[i] = m
  <2>1. PICK j \in 1..Size : i = a + b + j
    <3>1. i - (a + b) \in 1..Size /\ i = a + b + (i - (a + b))
      BY <1>4
    <3> QED BY <3>1
  <2>2. PICK k \in 1..(b + Size) : k = b + j /\ a + k = i
    <3>1. b + j \in 1..(b + Size) /\ a + (b + j) = i
      BY <1>4, <2>1
    <3> QED BY <3>1
  <2>3. G[a + k] = x[k] /\ x[b + j] = m
    BY <1>3, <1>7
  <2> QED BY <2>2, <2>3
<1>10. ASSUME NEW i \in (a + b + 1)..N PROVE G[i + Size] = F[i]
  <2>1. PICK j \in 1..c : i = a + b + j
    <3>1. i - (a + b) \in 1..c /\ i = a + b + (i - (a + b))
      BY <1>4
    <3> QED BY <3>1
  <2>2. a + (b + Size) + j = i + Size
    BY <1>4, <2>1
  <2>3. G[a + (b + Size) + j] = l[j] /\ F[a + b + j] = l[j]
    BY <1>6, <1>7
  <2> QED BY <2>1, <2>2, <2>3
<1>11. \A i \in 1..N : F[i] # m
  BY <1>2 DEF Holds
<1>12. M = N + Size
  BY <1>4
<1> QED BY <1>1, <1>2, <1>8, <1>9, <1>10, <1>11, <1>12 DEF Inserted

(* Message m behind what has been written, in part on the wire and in part *)
(* in the high list, when both lists are empty.                            *)
LEMMA PutOut ==
  ASSUME NEW w \in Seq(Nat), NEW m \in Nat, NEW n \in 0..Size,
         NEW v, Behind(w, m, n, v), NEW x, Behind(<<>>, m, Size - n, x),
         ~ Holds(Stream(w, <<>>, <<>>), Total(w, <<>>, <<>>), m)
  PROVE  Inserted(Stream(w, <<>>, <<>>), Total(w, <<>>, <<>>),
                  Total(w, <<>>, <<>>), m, Stream(v, x, <<>>),
                  Total(v, x, <<>>))
<1>1. PICK a \in Nat : a = Len(w)
  OBVIOUS
<1>2. PICK F, G, N, M, z :
        /\ z = <<>> /\ F = Stream(w, z, z) /\ G = Stream(v, x, z)
        /\ N = Total(w, z, z) /\ M = Total(v, x, z)
  OBVIOUS
<1>3. z \in Seq(Nat) /\ Len(z) = 0 /\ Size \in Nat /\ n \in Nat /\ n <= Size
      /\ Size - n \in Nat
  BY <1>2, SizeIsNat
<1>4. /\ v \in Seq(Nat) /\ Len(v) = a + n
      /\ \A i \in 1..a : v[i] = w[i]
      /\ \A i \in 1..n : v[a + i] = m
  BY <1>1 DEF Behind
<1>5. Behind(z, m, Size - n, x)
  BY <1>2
<1>6. x \in Seq(Nat) /\ Len(x) = Size - n /\ \A i \in 1..(Size - n) : x[i] = m
  <2>1. /\ x \in Seq(Nat) /\ Len(x) = 0 + (Size - n)
        /\ \A i \in 1..(Size - n) : x[0 + i] = m
    BY <1>3, <1>5 DEF Behind
  <2>2. 0 + (Size - n) = Size - n
    BY <1>3
  <2>3. ASSUME NEW i \in 1..(Size - n) PROVE x[i] = m
    <3>1. 0 + i = i
      OBVIOUS
    <3> QED BY <2>1, <3>1
  <2> QED BY <2>1, <2>2, <2>3
<1>7. N = a /\ M = a + n + (Size - n)
  <2>1. N = a + 0 + 0 /\ M = (a + n) + (Size - n) + 0
    BY <1>1, <1>2, <1>3, <1>4, <1>6, Zenon DEF Total
  <2> QED BY <1>3, <2>1
<1>8. M = N + Size
  BY <1>3, <1>7
<1>9. Layout(F, w, z, z) /\ Layout(G, v, x, z)
  BY <1>2, <1>3, <1>4, <1>6, StreamAt
<1>10. \A i \in 1..a : F[i] = w[i]
  BY <1>1, <1>9 DEF Layout
<1>11. /\ \A i \in 1..(a + n) : G[i] = v[i]
       /\ \A i \in 1..(Size - n) : G[a + n + i] = x[i]
  BY <1>4, <1>6, <1>9 DEF Layout
<1>12. ASSUME NEW i \in 1..a PROVE G[i] = F[i]
  <2>1. i \in 1..(a + n)
    BY <1>3
  <2> QED BY <1>4, <1>10, <1>11, <2>1
<1>13. ASSUME NEW i \in (a + 1)..(a + Size) PROVE G[i] = m
  <2>1. CASE i <= a + n
    <3>1. PICK j \in 1..n : i = a + j
      <4>1. i - a \in 1..n /\ i = a + (i - a)
        BY <1>3, <2>1
      <4> QED BY <4>1
    <3>2. i \in 1..(a + n)
      BY <1>3, <2>1
    <3>3. G[i] = v[i] /\ v[a + j] = m
      BY <1>4, <1>11, <3>2
    <3> QED BY <3>1, <3>3
  <2>2. CASE a + n < i
    <3>1. PICK j \in 1..(Size - n) : i = a + n + j
      <4>1. i - (a + n) \in 1..(Size - n) /\ i = a + n + (i - (a + n))
        BY <1>3, <2>2
      <4> QED BY <4>1
    <3>2. G[a + n + j] = x[j] /\ x[j] = m
      BY <1>6, <1>11
    <3> QED BY <3>1, <3>2
  <2> QED BY <1>3, <2>1, <2>2
<1>14. \A i \in 1..N : F[i] # m
  BY <1>2 DEF Holds
<1>15. \A i \in (N + 1)..N : G[i + Size] = F[i]
  BY <1>7
<1>16. Inserted(F, N, N, m, G, M)
  BY <1>7, <1>8, <1>12, <1>13, <1>14, <1>15 DEF Inserted
<1> QED BY <1>2, <1>16

-----------------------------------------------------------------------------

(* A message that is only now taken has no byte in the stream.             *)
LEMMA NotYetTaken ==
  ASSUME NEW q, NEW r, NEW m, NEW id, Takes(q, r, m, id),
         NEW w, NEW h, NEW l, GoodStream(q, w, h, l)
  PROVE  m \in Nat /\ ~ Holds(Stream(w, h, l), Total(w, h, l), m)
<1>1. q \in Seq(Messages) /\ m \in 1..Len(q) /\ q[m].st = "pipe"
  BY DEF Takes
<1>2. \A i \in 1..Total(w, h, l) : q[Stream(w, h, l)[i]].st = "taken"
  BY DEF GoodStream, Good
<1>3. m \in Nat
  BY <1>1
<1> QED BY <1>1, <1>2, <1>3 DEF Holds

(* The bytes of m join the list that its command names.                    *)
Queues(q, m, s, t) ==
  /\ t.type = s.type
  /\ \/ q[m].cmd = "P" /\ t.high = s.high /\ Behind(s.low, m, Size, t.low)
     \/ q[m].cmd = "D" /\ t.low = s.low /\ Behind(s.high, m, Size, t.high)

(* The promise to the connection is kept when its message joins a list.    *)
LEMMA ConnQueued ==
  ASSUME NEW q, NEW r, NEW m, NEW id, Takes(q, r, m, id),
         NEW w \in Seq(Nat), NEW s \in Socket, NEW u, NEW c,
         Served(q, id, w, s, u, c), NEW t \in Socket, Queues(q, m, s, t)
  PROVE  Served(r, id, w, t, u, c)
<1>1. PICK h, l, x, y : h = s.high /\ l = s.low /\ x = t.high /\ y = t.low
  OBVIOUS
<1>2. /\ h \in Seq(Nat) /\ l \in Seq(Nat) /\ x \in Seq(Nat) /\ y \in Seq(Nat)
  BY <1>1 DEF Socket
<1>3. /\ GoodStream(q, w, h, l)
      /\ u # "over" /\ ~c /\ (t.type = "CONNECTED" => u = "open")
  BY <1>1 DEF Served, Queues
<1>4. ASSUME NEW i \in 1..Len(q), TakenFor(q, i, id)
      PROVE  Holds(Stream(w, h, l), Total(w, h, l), i)
  BY <1>1, <1>4 DEF Served
<1>5. m \in Nat /\ ~ Holds(Stream(w, h, l), Total(w, h, l), m)
  BY <1>3, NotYetTaken
<1>6. PICK a \in Nat, b \in Nat, z \in Nat, N \in Nat :
        /\ a = Len(w) /\ b = Len(h) /\ z = Len(l) /\ N = Total(w, h, l)
  BY <1>2, TotalIsNat
<1>7. N = a + b + z /\ Size \in Nat
  BY <1>6, SizeIsNat DEF Total
<1>8. \E d \in 0..N :
        /\ Begins(q, m, w, h, l, w, x, d)
        /\ Inserted(Stream(w, h, l), Total(w, h, l), d, m, Stream(w, x, y),
                    Total(w, x, y))
  <2>1. CASE q[m].cmd = "P" /\ x = h /\ Behind(l, m, Size, y)
    <3>1. Inserted(Stream(w, h, l), Total(w, h, l), Total(w, h, l), m,
                   Stream(w, h, y), Total(w, h, y))
      BY <1>2, <1>5, <2>1, PutLow
    <3>2. N \in 0..N
      OBVIOUS
    <3>3. Begins(q, m, w, h, l, w, x, N)
      BY <1>6, <2>1 DEF Begins
    <3> QED BY <1>6, <2>1, <3>1, <3>2, <3>3
  <2>2. CASE q[m].cmd = "D" /\ y = l /\ Behind(h, m, Size, x)
    <3>1. Inserted(Stream(w, h, l), Total(w, h, l), Len(w) + Len(h), m,
                   Stream(w, x, l), Total(w, x, l))
      BY <1>2, <1>5, <2>2, PutHigh
    <3>2. a + b \in 0..N
      BY <1>7
    <3>3. Len(x) = b + Size
      BY <1>6, <2>2 DEF Behind
    <3>4. Len(w) + Len(x) = Len(w) + Len(h) + Size
      <4>1. a + (b + Size) = a + b + Size
        BY <1>7
      <4> QED BY <1>6, <3>3, <4>1
    <3>5. Begins(q, m, w, h, l, w, x, a + b)
      BY <1>6, <2>2, <3>4 DEF Begins
    <3> QED BY <1>6, <2>2, <3>1, <3>2, <3>5
  <2> QED BY <1>1, <2>1, <2>2 DEF Queues
<1>9. /\ GoodStream(r, w, x, y)
      /\ \A i \in 1..Len(r) :
           /\ TakenFor(r, i, id)
           /\ TakenFor(q, i, id) => Holds(Stream(w, h, l), Total(w, h, l), i)
           => Holds(Stream(w, x, y), Total(w, x, y), i)
  BY <1>2, <1>3, <1>6, <1>8, TakenBytes
<1>10. Len(r) = Len(q)
  BY DEF Takes
<1>11. \A i \in 1..Len(r) : TakenFor(r, i, id) =>
         Holds(Stream(w, x, y), Total(w, x, y), i)
  BY <1>4, <1>9, <1>10
<1> QED BY <1>1, <1>3, <1>9, <1>11 DEF Served

(* Its bytes go out at once, but for those that the connection leaves.     *)
LEMMA ConnDirect ==
  ASSUME NEW q, NEW r, NEW m, NEW id, Takes(q, r, m, id),
         NEW w \in Seq(Nat), NEW s, NEW u, NEW c,
         Served(q, id, w, s, u, c), nomore(s),
         NEW n \in 0..Size, NEW v, Behind(w, m, n, v),
         NEW t, Behind(<<>>, m, Size - n, t.high), t.low = <<>>,
         t.type = s.type
  PROVE  /\ v \in Seq(Nat) /\ Written(r, id, v, FALSE)
         /\ Served(r, id, v, t, u, c)
<1>1. PICK z, x : z = <<>> /\ x = t.high
  OBVIOUS
<1>2. s.high = z /\ s.low = z /\ z \in Seq(Nat) /\ Len(z) = 0 /\ t.low = z
  BY <1>1 DEF nomore
<1>3. /\ GoodStream(q, w, z, z)
      /\ u # "over" /\ ~c /\ (t.type = "CONNECTED" => u = "open")
  BY <1>2 DEF Served
<1>4. ASSUME NEW i \in 1..Len(q), TakenFor(q, i, id)
      PROVE  Holds(Stream(w, z, z), Total(w, z, z), i)
  BY <1>2, <1>4 DEF Served
<1>5. m \in Nat /\ ~ Holds(Stream(w, z, z), Total(w, z, z), m)
  BY <1>3, NotYetTaken
<1>6. Size \in Nat /\ n \in Nat /\ Size - n \in Nat
  BY SizeIsNat
<1>7. PICK a \in Nat : a = Len(w)
  OBVIOUS
<1>8. v \in Seq(Nat) /\ Len(v) = a + n
  BY <1>7 DEF Behind
<1>9. x \in Seq(Nat) /\ Len(x) = Size - n
  <2>1. x \in Seq(Nat) /\ Len(x) = 0 + (Size - n)
    BY <1>1, <1>2 DEF Behind
  <2> QED BY <1>6, <2>1
<1>10. Total(w, z, z) = a /\ Len(w) + Len(z) = a
  BY <1>2, <1>7 DEF Total
<1>11. Inserted(Stream(w, z, z), Total(w, z, z), Total(w, z, z), m,
                Stream(v, x, z), Total(v, x, z))
  BY <1>1, <1>5, PutOut
<1>12. Len(v) + Len(x) = Len(w) + Len(z) + Size
  <2>1. (a + n) + (Size - n) = a + Size
    BY <1>6
  <2> QED BY <1>8, <1>9, <1>10, <2>1
<1>13. a \in 0..Total(w, z, z) /\ a = Len(w) + Len(z)
  BY <1>10
<1>14. /\ GoodStream(r, v, x, z)
       /\ \A i \in 1..Len(r) :
            /\ TakenFor(r, i, id)
            /\ TakenFor(q, i, id) => Holds(Stream(w, z, z), Total(w, z, z), i)
            => Holds(Stream(v, x, z), Total(v, x, z), i)
  <2>1. Inserted(Stream(w, z, z), Total(w, z, z), a, m, Stream(v, x, z),
                 Total(v, x, z))
    BY <1>10, <1>11
  <2>2. Begins(q, m, w, z, z, v, x, a)
    BY <1>1, <1>12, <1>13 DEF Begins
  <2>3. v \in Seq(Nat) /\ x \in Seq(Nat) /\ z \in Seq(Nat)
        /\ a \in 0..Total(w, z, z)
    BY <1>2, <1>8, <1>9, <1>13
  <2>4. GoodStream(r, v, x, z)
    BY <1>3, <2>1, <2>2, <2>3, TakenBytes
  <2>5. \A i \in 1..Len(r) :
          /\ TakenFor(r, i, id)
          /\ TakenFor(q, i, id) => Holds(Stream(w, z, z), Total(w, z, z), i)
          => Holds(Stream(v, x, z), Total(v, x, z), i)
    BY <1>3, <2>1, <2>2, <2>3, TakenBytes
  <2> QED BY <2>4, <2>5
<1>15. Len(r) = Len(q) /\ r \in Seq(Messages)
  BY DEF Takes
<1>16. \A i \in 1..Len(r) : TakenFor(r, i, id) =>
         Holds(Stream(v, x, z), Total(v, x, z), i)
  BY <1>4, <1>14, <1>15
<1>17. Served(r, id, v, t, u, c)
  BY <1>1, <1>2, <1>3, <1>14, <1>16 DEF Served
<1>18. Written(r, id, v, FALSE)
  <2>1. PICK F, N : F = Stream(v, x, z) /\ N = Total(v, x, z)
    OBVIOUS
  <2>2. N \in Nat /\ Len(v) <= N
    <3>1. (a + n) + (Size - n) + 0 = a + Size
      BY <1>6
    <3>2. N = a + Size
      BY <1>2, <1>8, <1>9, <2>1, <3>1 DEF Total
    <3> QED BY <1>6, <1>8, <3>2
  <2>3. Good(r, F, N, Len(v) + Len(x))
    BY <1>14, <2>1 DEF GoodStream
  <2>4. \A i \in 1..Len(v) : v[i] = F[i]
    <3>1. Layout(F, v, x, z)
      BY <1>2, <1>8, <1>9, <2>1, StreamAt
    <3> QED BY <3>1 DEF Layout
  <2>5. Whole(r, v)
    BY <1>8, <1>15, <2>2, <2>3, <2>4, WholePrefix
  <2>6. \A i \in 1..N : F[i] \in 1..Len(r)
    BY <2>3 DEF Good
  <2>7. \A i \in 1..Len(v) : i \in 1..N
    BY <1>8, <2>2
  <2> QED BY <2>4, <2>5, <2>6, <2>7 DEF Written
<1> QED BY <1>8, <1>17, <1>18

(* The low list with one more message.                                     *)
LEMMA LowQueued ==
  ASSUME NEW l \in Seq(Nat), Blocks(l, Len(l)), NEW m \in Nat, NEW y,
         Behind(l, m, Size, y), \A i \in 1..Len(l) : l[i] # m
  PROVE  /\ Blocks(y, Len(y))
         /\ \A i \in 1..Len(y) : y[i] = m \/ (i \in 1..Len(l) /\ y[i] = l[i])
<1>1. PICK n \in Nat, N \in Nat : n = Len(l) /\ N = Len(y)
  BY DEF Behind
<1>2. /\ y \in Seq(Nat) /\ N = n + Size /\ Size \in Nat
      /\ \A i \in 1..n : y[i] = l[i]
      /\ \A i \in 1..Size : y[n + i] = m
  BY <1>1, SizeIsNat DEF Behind
<1>3. ASSUME NEW i \in (n + 1)..(n + Size) PROVE y[i] = m
  <2>1. i - n \in 1..Size /\ n + (i - n) = i
    BY <1>2
  <2>2. PICK j \in 1..Size : n + j = i
    BY <2>1
  <2> QED BY <1>2, <2>2
<1>4. Inserted(l, n, n, m, y, N)
  <2>1. \A i \in (n + 1)..n : y[i + Size] = l[i]
    OBVIOUS
  <2> QED BY <1>1, <1>2, <1>3, <2>1 DEF Inserted
<1>5. Cut(l, n, n) /\ n \in 0..n
  BY DEF Cut
<1>6. Blocks(y, N)
  BY <1>1, <1>4, <1>5, BlocksInsert
<1>7. ASSUME NEW i \in 1..N PROVE y[i] = m \/ (i \in 1..n /\ y[i] = l[i])
  <2>1. i \in 1..n \/ i \in (n + 1)..(n + Size)
    BY <1>2
  <2> QED BY <1>2, <1>3, <2>1
<1> QED BY <1>1, <1>6, <1>7

-----------------------------------------------------------------------------
(* The inductive invariant.                                                *)
Requests == [cmd : {"O", "L", "S"}, id : Ids]
            \cup [cmd : {"D", "P"}, id : Ids, m : Nat]
            \cup [cmd : {"K"}, id : Ids, shutdown : BOOLEAN]
Events == [s : Slots, id : 0..MaxAlloc, missed : BOOLEAN, read : BOOLEAN,
           write : BOOLEAN]
Tellings == {"no", "open", "over", "stray"}

(* The types of the variables.                                             *)
TypeInv ==
  /\ alloc_id \in Ids /\ slot \in [Slots -> Socket] /\ pipe \in Seq(Requests)
  /\ ev \in Seq(Events) /\ toclear \in 0..MaxAlloc
  /\ checkctrl \in BOOLEAN /\ fresh \in BOOLEAN
  /\ reserving \in [Connectors -> 0..MaxAlloc] /\ known \in SUBSET Ids
  /\ msg \in Seq(Messages) /\ wire \in [Ids -> Seq(Nat)]
  /\ seen \in [Ids -> Tellings] /\ clean \in SUBSET Ids

(* Every slot is as it should be.                                          *)
SlotInv == \A k \in Slots : SlotOk(msg, k, slot[k], alloc_id)

(* The promise to every connection is kept.                                *)
ConnInv ==
  \A id \in Ids :
    Conn(msg, id, wire[id], slot[HASH_ID(id)], seen[id], id \in clean)

(* The batch has one event for a slot, none for a free one but the event   *)
(* that is to be cleared, and none for a connection not yet started.       *)
BatchInv ==
  /\ toclear # 0 => checkctrl /\ ~fresh
  /\ \A i, j \in 1..Len(ev) : ev[i].s = ev[j].s => i = j
  /\ \A i \in 1..Len(ev) :
       /\ slot[ev[i].s].type = "INVALID" =>
            toclear # 0 /\ slot[ev[i].s].id = toclear
       /\ slot[ev[i].s].type # "PACCEPT"

(* The messages in the pipe are in the order they were sent, after all     *)
(* that were taken.                                                        *)
Sends(r) == r.cmd \in {"D", "P"}
InPipe(q, r) ==
  /\ r.m \in 1..Len(q) /\ q[r.m].st = "pipe" /\ q[r.m].to = r.id
  /\ q[r.m].cmd = r.cmd
  /\ \A v \in 1..Len(q) : q[v].st = "taken" => v < r.m
PipeInv ==
  /\ \A i \in 1..Len(pipe) : Sends(pipe[i]) => InPipe(msg, pipe[i])
  /\ \A i, j \in 1..Len(pipe) :
       i < j /\ Sends(pipe[i]) /\ Sends(pipe[j]) => pipe[i].m < pipe[j].m

(* An id that no request has opened yet: nothing has happened to it.       *)
Opens(r) == r.cmd \in {"O", "L"}
Unborn(id) ==
  \/ alloc_id < id
  \/ \E t \in Connectors : reserving[t] = id
  \/ \E i \in 1..Len(pipe) : Opens(pipe[i]) /\ pipe[i].id = id
Untouched(q, id, w, u, c) ==
  /\ w = <<>> /\ u = "no" /\ ~c
  /\ \A m \in 1..Len(q) : ~ TakenFor(q, m, id)

(* Nothing has been written, told or taken for such an id.                 *)
UnbornInv ==
  \A id \in Ids : Unborn(id) =>
    Untouched(msg, id, wire[id], seen[id], id \in clean)

(* What a connector has reserved is its own.                               *)
ReserveInv ==
  \A t \in Connectors : reserving[t] # 0 =>
    /\ slot[HASH_ID(reserving[t])].type = "RESERVE"
    /\ reserving[t] \notin known /\ reserving[t] <= alloc_id
    /\ \A u \in Connectors : u # t /\ reserving[u] # 0 =>
         HASH_ID(reserving[u]) # HASH_ID(reserving[t])
    /\ \A i \in 1..Len(pipe) :
         Opens(pipe[i]) => HASH_ID(pipe[i].id) # HASH_ID(reserving[t])

(* A request to open has a reserved slot, and is the first of its id.      *)
OpenInv ==
  /\ \A i \in 1..Len(pipe) :
       /\ pipe[i].id \in known
       /\ Opens(pipe[i]) =>
            /\ slot[HASH_ID(pipe[i].id)].type = "RESERVE"
            /\ slot[HASH_ID(pipe[i].id)].id = pipe[i].id
  /\ \A i, j \in 1..Len(pipe) : j < i /\ Opens(pipe[i]) => pipe[j].id # pipe[i].id
  /\ \A id \in known : id <= alloc_id

(* The life of an id before its request to open: reserved, in the pipe.    *)
BirthInv == UnbornInv /\ ReserveInv /\ OpenInv

(* The whole; the life of an id is not followed after a failed assert.     *)
IInv ==
  /\ TypeInv /\ SlotInv /\ ConnInv /\ BatchInv /\ PipeInv
  /\ LowIsWhole
  /\ failed = "no" => BirthInv

-----------------------------------------------------------------------------

(* Ids and slots are numbers, and each id has its slot.                    *)
LEMMA SlotsOfIds ==
  /\ Slots \subseteq Nat /\ 0 \notin Ids /\ Ids \subseteq Nat /\ 1 \in Ids
  /\ \A id \in Ids : HASH_ID(id) \in Slots
  /\ MaxAlloc \in Nat /\ Ids \subseteq 0..MaxAlloc
<1>1. MaxAlloc \in Nat /\ MaxAlloc # 0 /\ MaxSocket \in Nat
  BY SocketAssumption
<1>2. Slots \subseteq Nat /\ 0 \notin Ids /\ Ids \subseteq Nat /\ 1 \in Ids
      /\ Ids \subseteq 0..MaxAlloc
  BY <1>1 DEF Slots, Ids
<1> QED BY <1>1, <1>2, HashInSlots

(* A slot that was just emptied.                                           *)
LEMMA EmptySocket ==
  ASSUME NEW type \in Types, NEW id \in 0..MaxAlloc
  PROVE  /\ Empty(type, id) \in Socket
         /\ Empty(type, id).type = type /\ Empty(type, id).id = id
         /\ Empty(type, id).high = <<>> /\ Empty(type, id).low = <<>>
         /\ Empty(type, id).write = FALSE
BY DEF Empty, Socket

(* A connection to which nothing has happened.                             *)
LEMMA GoodNothing ==
  ASSUME NEW q, NEW w, w = <<>>
  PROVE  GoodStream(q, w, <<>>, <<>>) /\ Total(w, <<>>, <<>>) = 0
<1>1. Len(<<>>) = 0
  OBVIOUS
<1>2. Total(w, <<>>, <<>>) = 0 /\ Len(w) + Len(<<>>) = 0
  BY <1>1 DEF Total
<1>3. ASSUME NEW f PROVE Good(q, f, 0, 0)
  BY DEF Good, Blocks, Ordered, Cut
<1> QED BY <1>2, <1>3 DEF GoodStream

(* A connection to which nothing has happened promises nothing yet,        *)
(* whatever becomes of its slot.                                           *)
LEMMA ConnUntouched ==
  ASSUME NEW q, NEW id, NEW w, NEW u, NEW c, Untouched(q, id, w, u, c),
         NEW s, s.high = <<>>, s.low = <<>>,
         NEW v, v # "stray", LiveIn(s, id) => v # "over",
         s.type = "CONNECTED" => v = "open"
  PROVE  Conn(q, id, w, s, v, c)
<1>1. w = <<>> /\ ~c /\ \A m \in 1..Len(q) : ~ TakenFor(q, m, id)
  BY DEF Untouched
<1>2. Len(w) = 0
  BY <1>1
<1>3. Written(q, id, w, c)
  BY <1>1, <1>2 DEF Written, Whole
<1>4. GoodStream(q, w, s.high, s.low)
  BY <1>1, GoodNothing
<1>5. LiveIn(s, id) => Served(q, id, w, s, v, c)
  BY <1>1, <1>4 DEF Served
<1> QED BY <1>3, <1>5 DEF Conn

(* The initial states satisfy the inductive invariant.                     *)
LEMMA InitIInv == Init => IInv
<1> SUFFICES ASSUME Init PROVE IInv
  OBVIOUS
<1>2. PICK A, B : A = Empty("LISTEN", 1) /\ B = Empty("INVALID", 0)
  OBVIOUS
<1>3. /\ A \in Socket /\ A.type = "LISTEN" /\ A.id = 1 /\ A.high = <<>>
      /\ A.low = <<>>
      /\ B \in Socket /\ B.type = "INVALID" /\ B.id = 0 /\ B.high = <<>>
      /\ B.low = <<>>
  <2>1. "LISTEN" \in Types /\ "INVALID" \in Types
    BY DEF Types, LiveTypes
  <2>2. 1 \in 0..MaxAlloc /\ 0 \in 0..MaxAlloc
    BY SlotsOfIds
  <2>3. A \in Socket /\ A.type = "LISTEN" /\ A.id = 1 /\ A.high = <<>>
        /\ A.low = <<>>
    BY <1>2, <2>1, <2>2, EmptySocket
  <2>4. B \in Socket /\ B.type = "INVALID" /\ B.id = 0 /\ B.high = <<>>
        /\ B.low = <<>>
    BY <1>2, <2>1, <2>2, EmptySocket
  <2> QED BY <2>3, <2>4
<1> USE SlotsOfIds DEF Init
<1>1. PICK h \in Slots : h = HASH_ID(1)
  OBVIOUS
<1>4. slot = [k \in Slots |-> IF k = h THEN A ELSE B]
  BY <1>1, <1>2
<1>5. TypeInv
  <2>1. slot \in [Slots -> Socket]
    BY <1>3, <1>4
  <2>2. reserving \in [Connectors -> 0..MaxAlloc]
    OBVIOUS
  <2>3. seen \in [Ids -> Tellings] /\ wire \in [Ids -> Seq(Nat)]
    BY DEF Tellings
  <2>4. alloc_id \in Ids /\ known \in SUBSET Ids /\ clean \in SUBSET Ids
    OBVIOUS
  <2>6. toclear \in 0..MaxAlloc
    OBVIOUS
  <2>7. checkctrl \in BOOLEAN /\ fresh \in BOOLEAN
    OBVIOUS
  <2>5. pipe \in Seq(Requests) /\ ev \in Seq(Events) /\ msg \in Seq(Messages)
    OBVIOUS
  <2> QED BY <2>1, <2>2, <2>3, <2>4, <2>5, <2>6, <2>7, Zenon DEF TypeInv
<1>6. SlotInv
  <2>1. SlotOk(msg, h, A, alloc_id)
    BY <1>1, <1>3, SlotEmptied
  <2>2. ASSUME NEW k \in Slots PROVE SlotOk(msg, k, B, alloc_id)
    BY <1>3, SlotEmptied DEF LiveTypes
  <2> QED BY <1>4, <2>1, <2>2 DEF SlotInv
<1>7. ASSUME NEW id \in Ids
      PROVE  Untouched(msg, id, wire[id], "no", id \in clean)
  BY DEF Untouched
<1>8. ConnInv
  <2> SUFFICES ASSUME NEW id \in Ids
               PROVE  Conn(msg, id, wire[id], slot[HASH_ID(id)], seen[id],
                           id \in clean)
    BY DEF ConnInv
  <2>1. PICK k \in Slots : k = HASH_ID(id)
    OBVIOUS
  <2>2. CASE k = h
    <3>1. seen[id] \in {"no", "open"} /\ slot[k] = A
      BY <1>4, <2>2
    <3> QED BY <1>3, <1>7, <2>1, <3>1, ConnUntouched
  <2>3. CASE k # h
    <3>1. seen[id] = "no" /\ slot[k] = B
      BY <1>1, <1>4, <2>1, <2>3
    <3> QED BY <1>3, <1>7, <2>1, <3>1, ConnUntouched
  <2> QED BY <2>2, <2>3
<1>9. BatchInv /\ PipeInv
  BY DEF BatchInv, PipeInv
<1>10. LowIsWhole
  BY DEF LowIsWhole
<1>11. BirthInv
  <2>1. ASSUME NEW id \in Ids, Unborn(id)
        PROVE  Untouched(msg, id, wire[id], seen[id], id \in clean)
    <3>1. id # 1
      BY <2>1 DEF Unborn
    <3>2. seen[id] = "no"
      BY <3>1
    <3> QED BY <1>7, <3>2
  <2>2. ReserveInv /\ OpenInv
    BY DEF ReserveInv, OpenInv
  <2> QED BY <2>1, <2>2 DEF BirthInv, UnbornInv
<1> QED BY <1>5, <1>6, <1>8, <1>9, <1>10, <1>11 DEF IInv

-----------------------------------------------------------------------------
(* A step that changes one slot, tells the owner of one id, and takes      *)
(* messages for that id only.                                              *)
SlotsOnly(k) == \A j \in Slots : j # k => slot'[j] = slot[j]
ReportsOnly(id) ==
  \A j \in Ids : j # id =>
    /\ wire'[j] = wire[j] /\ seen'[j] = seen[j]
    /\ (j \in clean') = (j \in clean)
TakesOnly(id) ==
  /\ msg' \in Seq(Messages) /\ Grown(msg, msg')
  /\ \A j \in Ids : j # id =>
       \A m \in 1..Len(msg') :
         TakenFor(msg', m, j) => m \in 1..Len(msg) /\ TakenFor(msg, m, j)

(* No message is taken when none changes.                                  *)
LEMMA MessagesKept ==
  ASSUME TypeInv, msg' = msg, NEW id
  PROVE  Grown(msg, msg') /\ TakesOnly(id)
<1>1. msg \in Seq(Messages) /\ Len(msg) \in Nat
  BY DEF TypeInv
<1>2. Grown(msg, msg')
  BY <1>1 DEF Grown
<1> QED BY <1>1, <1>2 DEF TakesOnly

(* A step that leaves slot k as it should be preserves SlotInv.            *)
LEMMA SlotStep ==
  ASSUME TypeInv, SlotInv, msg' \in Seq(Messages), Grown(msg, msg'),
         alloc_id' \in Ids, alloc_id <= alloc_id',
         NEW k, SlotsOnly(k),
         k \in Slots => SlotOk(msg', k, slot'[k], alloc_id')
  PROVE  SlotInv'
<1> SUFFICES ASSUME NEW j \in Slots PROVE SlotOk(msg', j, slot'[j], alloc_id')
  BY DEF SlotInv
<1>1. CASE j = k
  BY <1>1
<1>2. CASE j # k
  <2>1. slot'[j] = slot[j] /\ SlotOk(msg, j, slot[j], alloc_id)
    BY <1>2 DEF SlotsOnly, SlotInv
  <2>2. msg \in Seq(Messages) /\ alloc_id \in Int /\ alloc_id' \in Int
    BY SlotsOfIds DEF TypeInv
  <2>3. slot[j].id \in Int
    BY DEF TypeInv, Socket
  <2>4. SlotOk(msg', j, slot[j], alloc_id')
    BY <2>1, <2>2, <2>3, SlotGrown
  <2> QED BY <2>1, <2>4
<1> QED BY <1>1, <1>2

(* A step that keeps the promise to id, and gives the slot to nobody else, *)
(* preserves ConnInv.                                                      *)
LEMMA ConnStep ==
  ASSUME TypeInv, ConnInv, NEW k, NEW id, SlotsOnly(k), ReportsOnly(id),
         TakesOnly(id),
         \A j \in Ids : \/ j = id \/ slot'[k] = slot[k]
                        \/ ~ LiveIn(slot'[k], j),
         id \in Ids => /\ HASH_ID(id) = k
                       /\ Conn(msg', id, wire'[id], slot'[k], seen'[id],
                               id \in clean')
  PROVE  ConnInv'
<1> SUFFICES ASSUME NEW j \in Ids
             PROVE  Conn(msg', j, wire'[j], slot'[HASH_ID(j)], seen'[j],
                         j \in clean')
  BY DEF ConnInv
<1>1. CASE j = id
  BY <1>1
<1>2. CASE j # id
  <2>1. /\ wire'[j] = wire[j] /\ seen'[j] = seen[j]
        /\ (j \in clean') = (j \in clean)
    BY <1>2 DEF ReportsOnly
  <2>2. PICK h \in Slots : h = HASH_ID(j)
    BY SlotsOfIds
  <2>3. Conn(msg, j, wire[j], slot[h], seen[j], j \in clean)
    BY <2>2 DEF ConnInv
  <2>4. /\ msg \in Seq(Messages) /\ msg' \in Seq(Messages) /\ Grown(msg, msg')
        /\ wire[j] \in Seq(Nat) /\ slot[h] \in Socket
    BY DEF TypeInv, TakesOnly
  <2>5. \A m \in 1..Len(msg') :
          TakenFor(msg', m, j) => m \in 1..Len(msg) /\ TakenFor(msg, m, j)
    BY <1>2 DEF TakesOnly
  <2>6. Conn(msg', j, wire[j], slot[h], seen[j], j \in clean)
    BY <2>3, <2>4, <2>5, ConnGrown
  <2>7. slot'[h] = slot[h] \/ ~ LiveIn(slot'[h], j)
    BY <1>2 DEF SlotsOnly
  <2>8. Conn(msg', j, wire[j], slot'[h], seen[j], j \in clean)
    <3>1. CASE slot'[h] = slot[h]
      BY <2>6, <3>1
    <3>2. CASE ~ LiveIn(slot'[h], j)
      <4>1. seen[j] # "stray"
        BY <2>6 DEF Conn
      <4> QED BY <2>6, <3>2, <4>1, ConnOver
    <3> QED BY <2>7, <3>1, <3>2
  <2> QED BY <2>1, <2>2, <2>8
<1> QED BY <1>1, <1>2

(* What ConnInv says of the bytes written to id, and of what its owner was *)
(* told.                                                                   *)
LEMMA WrittenNow ==
  ASSUME ConnInv, NEW id \in Ids
  PROVE  Written(msg, id, wire[id], id \in clean) /\ seen[id] # "stray"
BY DEF ConnInv, Conn

(* What ConnInv says of an id whose connection is there.                   *)
LEMMA ServedNow ==
  ASSUME ConnInv, NEW id \in Ids, LiveIn(slot[HASH_ID(id)], id)
  PROVE  Served(msg, id, wire[id], slot[HASH_ID(id)], seen[id], id \in clean)
BY DEF ConnInv, Conn

(* The promise to a connection, from its parts.                            *)
LEMMA ConnMade ==
  ASSUME NEW q, NEW id, NEW w, NEW s, NEW u, NEW c, Written(q, id, w, c),
         u # "stray", LiveIn(s, id) => Served(q, id, w, s, u, c)
  PROVE  Conn(q, id, w, s, u, c)
BY DEF Conn

(* An id whose connection is there has been opened.                        *)
LEMMA LiveBorn ==
  ASSUME TypeInv, SlotInv, BirthInv, NEW id \in Ids,
         LiveIn(slot[HASH_ID(id)], id)
  PROVE  ~ Unborn(id)
<1>1. PICK k \in Slots : k = HASH_ID(id)
  BY SlotsOfIds
<1>2. slot[k].id = id /\ slot[k].type # "RESERVE"
  BY <1>1 DEF LiveIn, LiveTypes
<1>3. id <= alloc_id /\ alloc_id \in Int /\ id \in Int /\ id # 0
  BY <1>2, SlotsOfIds DEF SlotInv, SlotOk, TypeInv
<1>4. \A t \in Connectors : reserving[t] # id
  BY <1>1, <1>2, <1>3 DEF BirthInv, ReserveInv
<1>5. \A i \in 1..Len(pipe) : Opens(pipe[i]) => pipe[i].id # id
  BY <1>1, <1>2 DEF BirthInv, OpenInv
<1>6. ~ (alloc_id < id)
  BY <1>3
<1> QED BY <1>4, <1>5, <1>6 DEF Unborn

(* The requests that are left are those of pipe, without its head when a   *)
(* request is taken.                                                       *)
PipeLeft(d) ==
  /\ d \in {0, 1} /\ Len(pipe') = Len(pipe) - d
  /\ \A i \in 1..(Len(pipe) - d) : pipe'[i] = pipe[i + d]

(* The request at the head of the pipe is taken.                           *)
LEMMA PipeTail ==
  ASSUME TypeInv, pipe # <<>>, pipe' = Tail(pipe)
  PROVE  PipeLeft(1) /\ Head(pipe) = pipe[1] /\ 1 \in 1..Len(pipe)
         /\ pipe[1] \in Requests /\ pipe' \in Seq(Requests)
<1>1. pipe \in Seq(Requests) /\ Len(pipe) \in Nat /\ Len(pipe) # 0
  BY DEF TypeInv
<1>2. 1 \in 1..Len(pipe) /\ Head(pipe) = pipe[1]
  BY <1>1
<1>3. Len(pipe') = Len(pipe) - 1 /\ pipe' \in Seq(Requests)
  BY <1>1
<1>4. \A i \in 1..(Len(pipe) - 1) : pipe'[i] = pipe[i + 1]
  BY <1>1
<1> QED BY <1>1, <1>2, <1>3, <1>4 DEF PipeLeft

(* No request is taken.                                                    *)
LEMMA PipeKept ==
  ASSUME TypeInv, pipe' = pipe
  PROVE  PipeLeft(0)
<1>1. Len(pipe) \in Nat /\ Len(pipe) - 0 = Len(pipe)
  BY DEF TypeInv
<1> QED BY <1>1 DEF PipeLeft

(* Where a request that is left was before.                                *)
LEMMA LeftAt ==
  ASSUME TypeInv, NEW d, PipeLeft(d), NEW i \in 1..Len(pipe')
  PROVE  i \in Nat /\ d \in Nat /\ i + d \in 1..Len(pipe) /\ pipe'[i] = pipe[i + d]
<1>1. Len(pipe) \in Nat
  BY DEF TypeInv
<1> QED BY <1>1 DEF PipeLeft

-----------------------------------------------------------------------------
(* The id of the request that is taken has been opened, if not before then *)
(* by this request.                                                        *)
LEMMA HeadBorn ==
  ASSUME TypeInv, BirthInv, PipeLeft(1), 1 \in 1..Len(pipe),
         reserving' = reserving, alloc_id' = alloc_id,
         NEW id, id = pipe[1].id
  PROVE  ~ Unborn(id)'
<1>1. id \in known /\ id <= alloc_id
  BY DEF BirthInv, OpenInv
<1>2. id \in Ids /\ id \in Int /\ id # 0 /\ alloc_id \in Int
  BY <1>1, SlotsOfIds DEF TypeInv
<1>3. ~ (alloc_id < id)
  BY <1>1, <1>2
<1>4. \A t \in Connectors : reserving[t] # id
  BY <1>1, <1>2 DEF BirthInv, ReserveInv
<1>5. ASSUME NEW i \in 1..Len(pipe'), Opens(pipe'[i]) PROVE pipe'[i].id # id
  <2>1. i \in Nat /\ i + 1 \in 1..Len(pipe) /\ pipe'[i] = pipe[i + 1]
    BY LeftAt
  <2>2. i # 0 /\ 1 < i + 1
    BY <2>1
  <2>3. PICK x \in 1..Len(pipe) : x = i + 1
    BY <2>1
  <2>4. 1 < x /\ Opens(pipe[x]) /\ pipe'[i] = pipe[x]
    BY <1>5, <2>1, <2>2, <2>3
  <2> QED BY <2>4 DEF BirthInv, OpenInv
<1> QED BY <1>3, <1>4, <1>5 DEF Unborn

(* A reserved slot stays so until its request is taken.                    *)
ReservedKept(d) ==
  \A j \in Slots : slot[j].type = "RESERVE" =>
    \/ slot'[j].type = "RESERVE" /\ slot'[j].id = slot[j].id
    \/ d = 1 /\ Opens(pipe[1]) /\ j = HASH_ID(pipe[1].id)

(* A step of the socket thread that does something for an id already       *)
(* opened preserves BirthInv.                                              *)
LEMMA BirthStep ==
  ASSUME TypeInv, BirthInv, NEW d, PipeLeft(d), Len(pipe) # 0 \/ d = 0,
         reserving' = reserving, alloc_id' = alloc_id, known' = known,
         NEW id, id \in Ids => ~ Unborn(id)', ReportsOnly(id), TakesOnly(id),
         ReservedKept(d)
  PROVE  BirthInv'
<1>0. d \in {0, 1} /\ Len(pipe) \in Nat /\ (d = 1 => 1 \in 1..Len(pipe))
  BY DEF PipeLeft, TypeInv
<1>1. UnbornInv'
  <2> SUFFICES ASSUME NEW j \in Ids, Unborn(j)'
               PROVE  Untouched(msg', j, wire'[j], seen'[j], j \in clean')
    BY DEF UnbornInv
  <2>1. j # id
    OBVIOUS
  <2>2. Unborn(j)
    <3>1. CASE alloc_id < j
      BY <3>1 DEF Unborn
    <3>2. CASE \E t \in Connectors : reserving[t] = j
      BY <3>2 DEF Unborn
    <3>3. CASE \E i \in 1..Len(pipe') : Opens(pipe'[i]) /\ pipe'[i].id = j
      <4>1. PICK i \in 1..Len(pipe') : Opens(pipe'[i]) /\ pipe'[i].id = j
        BY <3>3
      <4>2. i + d \in 1..Len(pipe) /\ pipe'[i] = pipe[i + d]
        BY LeftAt
      <4> QED BY <4>1, <4>2 DEF Unborn
    <3> QED BY <3>1, <3>2, <3>3 DEF Unborn
  <2>3. Untouched(msg, j, wire[j], seen[j], j \in clean)
    BY <2>2 DEF BirthInv, UnbornInv
  <2>4. /\ wire'[j] = wire[j] /\ seen'[j] = seen[j]
        /\ (j \in clean') = (j \in clean)
    BY <2>1 DEF ReportsOnly
  <2>5. \A m \in 1..Len(msg') : ~ TakenFor(msg', m, j)
    BY <2>1, <2>3 DEF TakesOnly, Untouched
  <2> QED BY <2>3, <2>4, <2>5 DEF Untouched
<1>2. ASSUME NEW i \in 1..Len(pipe'), Opens(pipe'[i])
      PROVE  /\ slot'[HASH_ID(pipe'[i].id)].type = "RESERVE"
             /\ slot'[HASH_ID(pipe'[i].id)].id = pipe'[i].id
  <2>1. i \in Nat /\ i + d \in 1..Len(pipe) /\ pipe'[i] = pipe[i + d]
    BY LeftAt
  <2>2. PICK x \in 1..Len(pipe) : x = i + d
    BY <2>1
  <2>3. Opens(pipe[x]) /\ pipe'[i] = pipe[x]
    BY <1>2, <2>1, <2>2
  <2>4. PICK j \in Slots : j = HASH_ID(pipe[x].id)
    <3>1. pipe[x].id \in Ids
      BY DEF BirthInv, OpenInv, TypeInv
    <3> QED BY <3>1, SlotsOfIds
  <2>5. slot[j].type = "RESERVE" /\ slot[j].id = pipe[x].id
    BY <2>3, <2>4 DEF BirthInv, OpenInv
  <2>6. ~ (d = 1 /\ Opens(pipe[1]) /\ j = HASH_ID(pipe[1].id))
    <3>1. SUFFICES ASSUME d = 1, Opens(pipe[1]), j = HASH_ID(pipe[1].id)
                   PROVE  FALSE
      OBVIOUS
    <3>2. 1 \in 1..Len(pipe) /\ 1 < x
      BY <1>0, <2>1, <2>2, <3>1
    <3>3. slot[j].id = pipe[1].id
      BY <3>1, <3>2 DEF BirthInv, OpenInv
    <3>4. pipe[1].id # pipe[x].id
      BY <2>3, <3>2 DEF BirthInv, OpenInv
    <3> QED BY <2>5, <3>3, <3>4
  <2> QED BY <2>3, <2>4, <2>5, <2>6 DEF ReservedKept
<1>3. ReserveInv'
  <2> SUFFICES ASSUME NEW t \in Connectors, reserving[t] # 0
      PROVE /\ slot'[HASH_ID(reserving[t])].type = "RESERVE"
            /\ reserving[t] \notin known /\ reserving[t] <= alloc_id
            /\ \A u \in Connectors : u # t /\ reserving[u] # 0 =>
                 HASH_ID(reserving[u]) # HASH_ID(reserving[t])
            /\ \A i \in 1..Len(pipe') :
                 Opens(pipe'[i]) => HASH_ID(pipe'[i].id) # HASH_ID(reserving[t])
    BY DEF ReserveInv
  <2>1. /\ slot[HASH_ID(reserving[t])].type = "RESERVE"
        /\ reserving[t] \notin known /\ reserving[t] <= alloc_id
        /\ \A u \in Connectors : u # t /\ reserving[u] # 0 =>
             HASH_ID(reserving[u]) # HASH_ID(reserving[t])
        /\ \A i \in 1..Len(pipe) :
             Opens(pipe[i]) => HASH_ID(pipe[i].id) # HASH_ID(reserving[t])
    BY DEF BirthInv, ReserveInv
  <2>2. HASH_ID(reserving[t]) \in Slots
    <3>1. reserving[t] \in 0..MaxAlloc /\ MaxAlloc \in Nat
      BY SlotsOfIds DEF TypeInv
    <3>2. reserving[t] \in Nat
      BY <3>1
    <3> QED BY <3>2, HashInSlots
  <2>3. slot'[HASH_ID(reserving[t])].type = "RESERVE"
    BY <1>0, <2>1, <2>2 DEF ReservedKept
  <2>4. \A i \in 1..Len(pipe') :
          Opens(pipe'[i]) => HASH_ID(pipe'[i].id) # HASH_ID(reserving[t])
    BY <2>1, LeftAt
  <2> QED BY <2>1, <2>3, <2>4
<1>4. OpenInv'
  <2>1. ASSUME NEW i \in 1..Len(pipe') PROVE pipe'[i].id \in known
    <3>1. i + d \in 1..Len(pipe) /\ pipe'[i] = pipe[i + d]
      BY LeftAt
    <3> QED BY <3>1 DEF BirthInv, OpenInv
  <2>2. ASSUME NEW i \in 1..Len(pipe'), NEW j \in 1..Len(pipe'), j < i,
               Opens(pipe'[i])
        PROVE  pipe'[j].id # pipe'[i].id
    <3>1. /\ i \in Nat /\ i + d \in 1..Len(pipe) /\ pipe'[i] = pipe[i + d]
          /\ j \in Nat /\ j + d \in 1..Len(pipe) /\ pipe'[j] = pipe[j + d]
      BY LeftAt
    <3>2. PICK x \in 1..Len(pipe), y \in 1..Len(pipe) : x = i + d /\ y = j + d
      BY <3>1
    <3>3. y < x
      BY <1>0, <2>2, <3>1, <3>2
    <3>4. pipe[y].id # pipe[x].id
      BY <2>2, <3>1, <3>2, <3>3 DEF BirthInv, OpenInv
    <3> QED BY <3>1, <3>2, <3>4
  <2>3. \A j \in known : j <= alloc_id
    BY DEF BirthInv, OpenInv
  <2> QED BY <1>2, <2>1, <2>2, <2>3 DEF OpenInv
<1> QED BY <1>1, <1>3, <1>4 DEF BirthInv

-----------------------------------------------------------------------------
(* The order of the messages in the pipe does not change.                  *)
LEMMA PipeStep ==
  ASSUME TypeInv, PipeInv, NEW d, PipeLeft(d), msg' = msg
  PROVE  PipeInv'
<1>1. ASSUME NEW i \in 1..Len(pipe'), Sends(pipe'[i])
      PROVE  InPipe(msg', pipe'[i])
  <2>1. i + d \in 1..Len(pipe) /\ pipe'[i] = pipe[i + d]
    BY LeftAt
  <2>2. InPipe(msg, pipe'[i])
    BY <1>1, <2>1 DEF PipeInv
  <2> QED BY <2>2
<1>2. ASSUME NEW i \in 1..Len(pipe'), NEW j \in 1..Len(pipe'), i < j,
             Sends(pipe'[i]), Sends(pipe'[j])
      PROVE  pipe'[i].m < pipe'[j].m
  <2>1. /\ i \in Nat /\ d \in Nat /\ i + d \in 1..Len(pipe)
        /\ pipe'[i] = pipe[i + d]
        /\ j \in Nat /\ j + d \in 1..Len(pipe) /\ pipe'[j] = pipe[j + d]
    BY LeftAt
  <2>2. PICK x \in 1..Len(pipe), y \in 1..Len(pipe) : x = i + d /\ y = j + d
    BY <2>1
  <2>3. x < y
    BY <1>2, <2>1, <2>2
  <2> QED BY <1>2, <2>1, <2>2, <2>3 DEF PipeInv
<1> QED BY <1>1, <1>2 DEF PipeInv

(* The events that are left.                                               *)
BatchLeft(d) ==
  /\ d \in {0, 1} /\ Len(ev') = Len(ev) - d /\ ev' \in Seq(Events)
  /\ \A i \in 1..(Len(ev) - d) : ev'[i].s = ev[i + d].s

(* Where an event that is left was before.                                 *)
LEMMA EventAt ==
  ASSUME TypeInv, NEW d, BatchLeft(d), NEW i \in 1..Len(ev')
  PROVE  /\ i \in Nat /\ d \in Nat /\ i + d \in 1..Len(ev)
         /\ ev'[i].s = ev[i + d].s
<1>1. Len(ev) \in Nat
  BY DEF TypeInv
<1> QED BY <1>1 DEF BatchLeft

(* The first event of the batch is taken; no other is for its slot.        *)
LEMMA BatchTail ==
  ASSUME TypeInv, BatchInv, ev # <<>>, ev' = Tail(ev)
  PROVE  /\ BatchLeft(1) /\ Head(ev) = ev[1] /\ 1 \in 1..Len(ev)
         /\ \A i \in 1..Len(ev') : ev'[i].s # ev[1].s
<1>1. ev \in Seq(Events) /\ Len(ev) \in Nat /\ Len(ev) # 0
  BY DEF TypeInv
<1>2. 1 \in 1..Len(ev) /\ Head(ev) = ev[1]
  BY <1>1
<1>3. Len(ev') = Len(ev) - 1 /\ ev' \in Seq(Events)
  BY <1>1
<1>4. \A i \in 1..(Len(ev) - 1) : ev'[i] = ev[i + 1]
  BY <1>1
<1>5. BatchLeft(1)
  BY <1>1, <1>3, <1>4 DEF BatchLeft
<1>6. ASSUME NEW i \in 1..Len(ev') PROVE ev'[i].s # ev[1].s
  <2>1. i \in Nat /\ i + 1 \in 1..Len(ev) /\ ev'[i].s = ev[i + 1].s
    BY <1>5, EventAt
  <2>2. PICK x \in 1..Len(ev) : x = i + 1
    BY <2>1
  <2>3. x # 1
    BY <2>1, <2>2
  <2> QED BY <1>2, <2>1, <2>2, <2>3 DEF BatchInv
<1> QED BY <1>2, <1>5, <1>6

(* No event is taken.                                                      *)
LEMMA BatchSame ==
  ASSUME TypeInv, ev' = ev
  PROVE  BatchLeft(0)
<1>1. Len(ev) \in Nat /\ Len(ev) - 0 = Len(ev) /\ ev \in Seq(Events)
  BY DEF TypeInv
<1> QED BY <1>1 DEF BatchLeft

(* A step that changes one slot may leave it free if its event is the one  *)
(* to be cleared, or has been taken out.                                   *)
LEMMA BatchStep ==
  ASSUME TypeInv, BatchInv, NEW d, BatchLeft(d), NEW k, SlotsOnly(k),
         toclear' # 0 => checkctrl' /\ ~fresh',
         toclear = 0 \/ toclear' = toclear,
         \A i \in 1..Len(ev') : ev'[i].s = k =>
           /\ slot'[k].type = "INVALID" =>
                toclear' # 0 /\ slot'[k].id = toclear'
           /\ slot'[k].type # "PACCEPT"
  PROVE  BatchInv'
<1>1. ASSUME NEW i \in 1..Len(ev'), NEW j \in 1..Len(ev'), ev'[i].s = ev'[j].s
      PROVE  i = j
  <2>1. /\ i \in Nat /\ d \in Nat /\ i + d \in 1..Len(ev)
        /\ ev'[i].s = ev[i + d].s
        /\ j \in Nat /\ j + d \in 1..Len(ev) /\ ev'[j].s = ev[j + d].s
    BY EventAt
  <2>2. PICK x \in 1..Len(ev), y \in 1..Len(ev) : x = i + d /\ y = j + d
    BY <2>1
  <2>3. x = y
    BY <1>1, <2>1, <2>2 DEF BatchInv
  <2> QED BY <2>1, <2>2, <2>3
<1>2. ASSUME NEW i \in 1..Len(ev')
      PROVE  /\ slot'[ev'[i].s].type = "INVALID" =>
                  toclear' # 0 /\ slot'[ev'[i].s].id = toclear'
             /\ slot'[ev'[i].s].type # "PACCEPT"
  <2>1. CASE ev'[i].s = k
    BY <2>1
  <2>2. CASE ev'[i].s # k
    <3>1. i + d \in 1..Len(ev) /\ ev'[i].s = ev[i + d].s
      BY EventAt
    <3>2. /\ slot[ev'[i].s].type = "INVALID" =>
               toclear # 0 /\ slot[ev'[i].s].id = toclear
          /\ slot[ev'[i].s].type # "PACCEPT"
      BY <3>1 DEF BatchInv
    <3>3. ev'[i].s \in Slots
      <4>1. PICK c \in Seq(Events) : c = ev'
        BY DEF BatchLeft
      <4>2. c[i] \in Events
        BY <4>1
      <4> QED BY <4>1, <4>2 DEF Events
    <3>4. slot'[ev'[i].s] = slot[ev'[i].s]
      BY <2>2, <3>3 DEF SlotsOnly
    <3> QED BY <3>2, <3>4
  <2> QED BY <2>1, <2>2
<1> QED BY <1>1, <1>2 DEF BatchInv

-----------------------------------------------------------------------------
(* What a step does to one slot and the connection of one id.              *)
OneSlot(k, id) ==
  /\ slot' \in [Slots -> Socket] /\ wire' \in [Ids -> Seq(Nat)]
  /\ seen' \in [Ids -> Tellings] /\ clean' \in SUBSET Ids
  /\ SlotsOnly(k) /\ ReportsOnly(id) /\ TakesOnly(id)
  /\ k \in Slots => SlotOk(msg', k, slot'[k], alloc_id')
  /\ \A j \in Ids : \/ j = id \/ slot'[k] = slot[k]
                    \/ ~ LiveIn(slot'[k], j)
  /\ id \in Ids => /\ HASH_ID(id) = k
                   /\ Conn(msg', id, wire'[id], slot'[k], seen'[id],
                           id \in clean')

(* What it does to the batch and to the rest of the state.                 *)
BatchMoves(k) ==
  /\ toclear = 0 /\ toclear' \in 0..MaxAlloc
  /\ checkctrl' \in BOOLEAN /\ fresh' \in BOOLEAN
  /\ toclear' # 0 => checkctrl' /\ ~fresh'
  /\ \E e : BatchLeft(e)
  /\ \A i \in 1..Len(ev') : ev'[i].s = k =>
       /\ slot'[k].type = "INVALID" =>
            toclear' # 0 /\ slot'[k].id = toclear'
       /\ slot'[k].type # "PACCEPT"

(* A step of the socket thread that changes one slot and tells the owner   *)
(* of one id preserves the inductive invariant.                            *)
LEMMA ThreadStep ==
  ASSUME IInv, running, alloc_id' = alloc_id, reserving' = reserving,
         known' = known, NEW k, NEW id, OneSlot(k, id), BatchMoves(k),
         NEW d, PipeLeft(d), Len(pipe) # 0 \/ d = 0, pipe' \in Seq(Requests),
         PipeInv', LowIsWhole',
         failed' = "no" => ReservedKept(d) /\ (id \in Ids => ~ Unborn(id)')
  PROVE  IInv'
<1>1. TypeInv /\ SlotInv /\ ConnInv /\ BatchInv /\ BirthInv
  BY DEF IInv, running
<1>2. TypeInv'
  <2>1. msg' \in Seq(Messages)
    BY DEF OneSlot, TakesOnly
  <2>2. ev' \in Seq(Events)
    BY DEF BatchMoves, BatchLeft
  <2>3. alloc_id \in Ids /\ reserving \in [Connectors -> 0..MaxAlloc]
        /\ known \in SUBSET Ids
    BY <1>1 DEF TypeInv
  <2>4. /\ slot' \in [Slots -> Socket] /\ wire' \in [Ids -> Seq(Nat)]
        /\ seen' \in [Ids -> Tellings] /\ clean' \in SUBSET Ids
    BY DEF OneSlot
  <2>5. /\ toclear' \in 0..MaxAlloc
        /\ checkctrl' \in BOOLEAN /\ fresh' \in BOOLEAN
    BY DEF BatchMoves
  <2> QED BY <2>1, <2>2, <2>3, <2>4, <2>5 DEF TypeInv
<1>3. SlotInv'
  <2>1. alloc_id' \in Ids /\ alloc_id <= alloc_id'
    BY <1>1, SlotsOfIds DEF TypeInv
  <2>2. msg' \in Seq(Messages) /\ Grown(msg, msg') /\ SlotsOnly(k)
        /\ (k \in Slots => SlotOk(msg', k, slot'[k], alloc_id'))
    BY DEF OneSlot, TakesOnly
  <2> QED BY <1>1, <2>1, <2>2, SlotStep
<1>4. ConnInv'
  BY <1>1, ConnStep DEF OneSlot
<1>5. BatchInv'
  <2>1. PICK e : BatchLeft(e)
    BY DEF BatchMoves
  <2>2. SlotsOnly(k)
    BY DEF OneSlot
  <2>3. /\ toclear' # 0 => checkctrl' /\ ~fresh'
        /\ toclear = 0
        /\ \A i \in 1..Len(ev') : ev'[i].s = k =>
             /\ slot'[k].type = "INVALID" =>
                  toclear' # 0 /\ slot'[k].id = toclear'
             /\ slot'[k].type # "PACCEPT"
    BY DEF BatchMoves
  <2> QED BY <1>1, <2>1, <2>2, <2>3, BatchStep
<1>6. ASSUME failed' = "no" PROVE BirthInv'
  <2>1. ReportsOnly(id) /\ TakesOnly(id)
    BY DEF OneSlot
  <2>2. ReservedKept(d) /\ (id \in Ids => ~ Unborn(id)')
    BY <1>6
  <2> QED BY <1>1, <2>1, <2>2, BirthStep
<1> QED BY <1>2, <1>3, <1>4, <1>5, <1>6 DEF IInv

(* What the reports make of what the owner was told before.                *)
LEMMA Told ==
  ASSUME TypeInv, NEW id \in Ids
  PROVE  /\ told(id, "CLOSE") = "over" /\ told(id, "ERROR") = "over"
         /\ told(id, "none") = seen[id]
         /\ seen[id] # "over" => told(id, "OPEN") = "open"
         /\ seen[id] = "open" => told(id, "DATA") = "open"
BY DEF told

(* Nothing is written but to the connection of id.                         *)
WritesOnly(id) ==
  /\ wire' \in [Ids -> Seq(Nat)] /\ clean' \in SUBSET Ids
  /\ \A j \in Ids : j # id =>
       wire'[j] = wire[j] /\ (j \in clean') = (j \in clean)

(* Nothing is written.                                                     *)
LEMMA WritesKept ==
  ASSUME TypeInv, wire' = wire, clean' = clean, NEW id
  PROVE  WritesOnly(id)
BY DEF TypeInv, WritesOnly

(* The socket in slot k is closed.                                         *)
LEMMA CloseSlot ==
  ASSUME TypeInv, SlotInv, ConnInv, NEW k \in Slots, NEW id,
         id = slot[k].id, alloc_id' = alloc_id, TakesOnly(id),
         slot' = [slot EXCEPT ![k] = Empty("INVALID", @.id)],
         NEW type \in {"CLOSE", "ERROR"}, report(id, type),
         WritesOnly(id),
         id \in Ids => Written(msg', id, wire'[id], id \in clean')
  PROVE  OneSlot(k, id) /\ slot'[k].type = "INVALID" /\ slot'[k].id = id
<1>1. PICK E : E = Empty("INVALID", id)
  OBVIOUS
<1>2. /\ id \in 0..MaxAlloc /\ (id # 0 => HASH_ID(id) = k) /\ id <= alloc_id
  BY DEF TypeInv, Socket, SlotInv, SlotOk
<1>3. /\ E \in Socket /\ E.type = "INVALID" /\ E.id = id
      /\ E.high = <<>> /\ E.low = <<>>
  <2>1. "INVALID" \in Types
    BY DEF Types
  <2> QED BY <1>1, <1>2, <2>1, EmptySocket
<1>4. slot \in [Slots -> Socket] /\ slot' = [slot EXCEPT ![k] = E]
  BY <1>1 DEF TypeInv
<1>5. slot' \in [Slots -> Socket] /\ slot'[k] = E /\ SlotsOnly(k)
  BY <1>3, <1>4 DEF SlotsOnly
<1>6. seen' \in [Ids -> Tellings]
      /\ (\A j \in Ids : j # id => seen'[j] = seen[j])
      /\ (id \in Ids => seen'[id] = "over")
  <2>1. seen \in [Ids -> Tellings] /\ "over" \in Tellings
    BY DEF TypeInv, Tellings
  <2>2. seen' = [seen EXCEPT ![id] = told(id, type)]
    BY DEF report
  <2>3. id \in Ids => told(id, type) = "over"
    BY Told
  <2> QED BY <2>1, <2>2, <2>3
<1>7. ReportsOnly(id) /\ wire' \in [Ids -> Seq(Nat)] /\ clean' \in SUBSET Ids
  BY <1>6 DEF ReportsOnly, WritesOnly
<1>8. SlotOk(msg', k, E, alloc_id')
  BY <1>2, <1>3, SlotEmptied DEF LiveTypes
<1>9. \A j \in Ids : ~ LiveIn(E, j)
  BY <1>3 DEF LiveIn, LiveTypes
<1>10. ASSUME id \in Ids
       PROVE  /\ HASH_ID(id) = k
              /\ Conn(msg', id, wire'[id], E, seen'[id], id \in clean')
  <2>1. HASH_ID(id) = k
    BY <1>2, <1>10, SlotsOfIds
  <2>2. Written(msg', id, wire'[id], id \in clean') /\ seen'[id] = "over"
    BY <1>6, <1>10
  <2> QED BY <1>9, <1>10, <2>1, <2>2 DEF Conn
<1> QED BY <1>3, <1>5, <1>6, <1>7, <1>8, <1>9, <1>10 DEF OneSlot

-----------------------------------------------------------------------------
(* The threads of the services.                                            *)
LEMMA Appended ==
  ASSUME TypeInv, NEW r \in Requests, send_request(r)
  PROVE  /\ pipe' \in Seq(Requests) /\ Len(pipe) \in Nat
         /\ Len(pipe') = Len(pipe) + 1 /\ pipe'[Len(pipe) + 1] = r
         /\ \A i \in 1..Len(pipe) : pipe'[i] = pipe[i]
BY DEF TypeInv, send_request

(* A request in the pipe was there before, or is the new one.              *)
LEMMA AppendedAt ==
  ASSUME TypeInv, NEW r \in Requests, send_request(r), NEW i \in 1..Len(pipe')
  PROVE  \/ i \in 1..Len(pipe) /\ pipe'[i] = pipe[i]
         \/ i = Len(pipe) + 1 /\ pipe'[i] = r
<1>1. PICK a \in Nat : a = Len(pipe)
  BY Appended
<1>2. Len(pipe') = a + 1 /\ pipe'[a + 1] = r
      /\ \A x \in 1..a : pipe'[x] = pipe[x]
  BY <1>1, Appended
<1>3. i = a + 1 \/ i \in 1..a
  BY <1>2
<1> QED BY <1>1, <1>2, <1>3

(* Nothing but messages and requests that open no socket are added.        *)
Adds ==
  /\ pipe' \in Seq(Requests)
  /\ \A i \in 1..Len(pipe') :
       \/ i \in 1..Len(pipe) /\ pipe'[i] = pipe[i]
       \/ ~ Opens(pipe'[i]) /\ pipe'[i].id \in known /\ Len(pipe) < i

(* The socket thread has done nothing.                                     *)
SocketsSame ==
  /\ alloc_id' = alloc_id /\ slot' = slot /\ ev' = ev /\ toclear' = toclear
  /\ checkctrl' = checkctrl /\ fresh' = fresh /\ reserving' = reserving
  /\ known' = known /\ wire' = wire /\ seen' = seen /\ clean' = clean
  /\ failed' = failed

(* A step of a service that adds requests and messages preserves the       *)
(* inductive invariant.                                                    *)
LEMMA ServiceStep ==
  ASSUME IInv, running, SocketsSame, TakesOnly(0), Adds, PipeInv'
  PROVE  IInv'
<1>1. TypeInv /\ SlotInv /\ ConnInv /\ BatchInv /\ BirthInv /\ LowIsWhole
  BY DEF IInv, running
<1>2. msg' \in Seq(Messages) /\ Grown(msg, msg') /\ 0 \notin Ids
      /\ \A j \in Ids : j # 0
  BY SlotsOfIds DEF TakesOnly
<1> USE DEF SocketsSame
<1>3. TypeInv'
  <2>1. pipe' \in Seq(Requests)
    BY DEF Adds
  <2> QED BY <1>1, <1>2, <2>1 DEF TypeInv
<1>4. PICK k \in Slots : k = HASH_ID(1)
  BY SlotsOfIds
<1>5. SlotInv'
  <2>1. /\ SlotOk(msg, k, slot[k], alloc_id) /\ msg \in Seq(Messages)
        /\ alloc_id \in Int /\ alloc_id' \in Ids /\ alloc_id <= alloc_id'
        /\ slot[k] \in Socket
    BY <1>1, SlotsOfIds DEF SlotInv, TypeInv
  <2>2. slot[k].id \in Int
    BY <2>1 DEF Socket
  <2>3. SlotOk(msg', k, slot'[k], alloc_id')
    BY <1>2, <2>1, <2>2, SlotGrown
  <2>4. SlotsOnly(k)
    BY DEF SlotsOnly
  <2> QED BY <1>1, <1>2, <2>1, <2>3, <2>4, SlotStep
<1>6. ConnInv'
  <2>1. SlotsOnly(k) /\ ReportsOnly(0) /\ slot'[k] = slot[k]
    BY DEF SlotsOnly, ReportsOnly
  <2> QED BY <1>1, <1>2, <2>1, ConnStep
<1>7. BatchInv'
  BY <1>1 DEF BatchInv
<1>8. UnbornInv'
  <2> SUFFICES ASSUME NEW j \in Ids, Unborn(j)'
               PROVE  Untouched(msg', j, wire'[j], seen'[j], j \in clean')
    BY DEF UnbornInv
  <2>1. Unborn(j)
    BY DEF Unborn, Adds
  <2>2. Untouched(msg, j, wire[j], seen[j], j \in clean)
    BY <1>1, <2>1 DEF BirthInv, UnbornInv
  <2>3. \A m \in 1..Len(msg') : ~ TakenFor(msg', m, j)
    BY <1>2, <2>2 DEF TakesOnly, Untouched
  <2> QED BY <2>2, <2>3 DEF Untouched
<1>9. ReserveInv'
  <2>1. ReserveInv
    BY <1>1 DEF BirthInv
  <2> QED BY <2>1 DEF ReserveInv, Adds
<1>10. OpenInv'
  <2>1. OpenInv
    BY <1>1 DEF BirthInv
  <2>2. ASSUME NEW i \in 1..Len(pipe')
        PROVE  /\ pipe'[i].id \in known
               /\ Opens(pipe'[i]) =>
                    /\ slot[HASH_ID(pipe'[i].id)].type = "RESERVE"
                    /\ slot[HASH_ID(pipe'[i].id)].id = pipe'[i].id
    BY <2>1 DEF OpenInv, Adds
  <2>3. ASSUME NEW i \in 1..Len(pipe'), NEW j \in 1..Len(pipe'), j < i,
               Opens(pipe'[i])
        PROVE  pipe'[j].id # pipe'[i].id
    <3>1. i \in 1..Len(pipe) /\ pipe'[i] = pipe[i]
      BY <2>3 DEF Adds
    <3>2. Len(pipe) \in Nat /\ Len(pipe') \in Nat
      BY <1>1, <1>3 DEF TypeInv
    <3>3. ~ (Len(pipe) < j)
      BY <2>3, <3>1, <3>2
    <3>4. j \in 1..Len(pipe) /\ pipe'[j] = pipe[j]
      BY <3>3 DEF Adds
    <3> QED BY <2>1, <2>3, <3>1, <3>4 DEF OpenInv
  <2>4. \A j \in known : j <= alloc_id
    BY <2>1 DEF OpenInv
  <2> QED BY <2>2, <2>3, <2>4 DEF OpenInv
<1>11. LowIsWhole'
  BY <1>1 DEF LowIsWhole
<1> QED BY <1>3, <1>5, <1>6, <1>7, <1>8, <1>9, <1>10, <1>11
     DEF IInv, BirthInv

-----------------------------------------------------------------------------

(* So does a step that adds a request which neither sends nor opens.       *)
LEMMA QuietRequest ==
  ASSUME IInv, running, SocketsSame, msg' = msg, NEW r \in Requests,
         send_request(r), ~ Sends(r), ~ Opens(r), r.id \in known
  PROVE  IInv'
<1>1. TypeInv /\ PipeInv
  BY DEF IInv
<1>2. PICK a \in Nat : a = Len(pipe)
  BY <1>1, Appended
<1>3. ASSUME NEW i \in 1..Len(pipe')
      PROVE  \/ i \in 1..a /\ pipe'[i] = pipe[i]
             \/ i = a + 1 /\ pipe'[i] = r
  BY <1>1, <1>2, AppendedAt
<1>4. Adds
  <2>1. pipe' \in Seq(Requests)
    BY <1>1, Appended
  <2>2. a < a + 1
    OBVIOUS
  <2> QED BY <1>2, <1>3, <2>1, <2>2 DEF Adds
<1>5. PipeInv'
  <2>1. ASSUME NEW i \in 1..Len(pipe'), Sends(pipe'[i])
        PROVE  i \in 1..Len(pipe) /\ pipe'[i] = pipe[i]
    BY <1>2, <1>3, <2>1
  <2>2. \A i \in 1..Len(pipe') :
          Sends(pipe'[i]) => InPipe(msg', pipe'[i])
    BY <1>1, <2>1 DEF PipeInv
  <2>3. \A i, j \in 1..Len(pipe') :
          i < j /\ Sends(pipe'[i]) /\ Sends(pipe'[j]) => pipe'[i].m < pipe'[j].m
    BY <1>1, <2>1 DEF PipeInv
  <2> QED BY <2>2, <2>3 DEF PipeInv
<1>6. TakesOnly(0)
  BY <1>1, MessagesKept
<1> QED BY <1>4, <1>5, <1>6, ServiceStep

(* socket_server_start.                                                    *)
LEMMA StartStep ==
  ASSUME IInv, NEW id \in known, Start(id)
  PROVE  IInv'
<1>1. id \in Ids
  BY DEF IInv, TypeInv
<1>2. PICK r : r = [cmd |-> "S", id |-> id]
  OBVIOUS
<1>3. r \in Requests /\ ~ Sends(r) /\ ~ Opens(r) /\ r.id \in known
  BY <1>1, <1>2 DEF Requests, Sends, Opens
<1>4. running /\ send_request(r) /\ SocketsSame /\ msg' = msg
  BY <1>2 DEF Start, SocketsSame, ctrlVars, clientVars
<1> QED BY <1>3, <1>4, QuietRequest

(* socket_server_close and socket_server_shutdown.                         *)
LEMMA CloseStep ==
  ASSUME IInv, NEW id \in known, NEW shutdown \in BOOLEAN, Close(id, shutdown)
  PROVE  IInv'
<1>1. id \in Ids
  BY DEF IInv, TypeInv
<1>2. PICK r : r = [cmd |-> "K", id |-> id, shutdown |-> shutdown]
  OBVIOUS
<1>3. r \in Requests /\ ~ Sends(r) /\ ~ Opens(r) /\ r.id \in known
  BY <1>1, <1>2 DEF Requests, Sends, Opens
<1>4. running /\ send_request(r) /\ SocketsSame /\ msg' = msg
  BY <1>2 DEF Close, SocketsSame, ctrlVars
<1> QED BY <1>3, <1>4, QuietRequest

(* A new message is the last one, and is not yet taken.                    *)
LEMMA NewMessage ==
  ASSUME TypeInv, NEW e \in Messages, e.st # "taken", msg' = Append(msg, e)
  PROVE  /\ TakesOnly(0) /\ Len(msg) \in Nat /\ Len(msg') = Len(msg) + 1
         /\ msg'[Len(msg) + 1] = e /\ \A i \in 1..Len(msg) : msg'[i] = msg[i]
<1>1. msg \in Seq(Messages)
  BY DEF TypeInv
<1>2. PICK a \in Nat : a = Len(msg)
  BY <1>1
<1>3. /\ msg' \in Seq(Messages) /\ Len(msg') = a + 1 /\ msg'[a + 1] = e
      /\ \A i \in 1..a : msg'[i] = msg[i]
  BY <1>1, <1>2
<1>4. Grown(msg, msg')
  BY <1>2, <1>3 DEF Grown
<1>5. ASSUME NEW j, NEW m \in 1..Len(msg'), TakenFor(msg', m, j)
      PROVE  m \in 1..Len(msg) /\ TakenFor(msg, m, j)
  <2>1. m = a + 1 \/ m \in 1..a
    BY <1>3
  <2>2. m \in 1..a
    BY <1>3, <1>5, <2>1 DEF TakenFor
  <2> QED BY <1>2, <1>3, <1>5, <2>2 DEF TakenFor
<1> QED BY <1>2, <1>3, <1>4, <1>5 DEF TakesOnly

(* A message in the pipe stays there when another is sent.                 *)
LEMMA InPipeKept ==
  ASSUME TypeInv, NEW e \in Messages, e.st # "taken", msg' = Append(msg, e),
         NEW r, InPipe(msg, r)
  PROVE  InPipe(msg', r) /\ r.m \in 1..Len(msg)
<1>1. PICK a \in Nat : a = Len(msg)
  BY NewMessage
<1>2. /\ Len(msg') = a + 1 /\ msg'[a + 1] = e
      /\ \A i \in 1..a : msg'[i] = msg[i]
  BY <1>1, NewMessage
<1>3. r.m \in 1..a /\ r.m \in 1..(a + 1) /\ msg'[r.m] = msg[r.m]
  BY <1>1, <1>2 DEF InPipe
<1>4. ASSUME NEW v \in 1..(a + 1), msg'[v].st = "taken" PROVE v < r.m
  <2>1. v = a + 1 \/ v \in 1..a
    OBVIOUS
  <2>2. v \in 1..a
    BY <1>2, <1>4, <2>1
  <2> QED BY <1>1, <1>2, <1>4, <2>2 DEF InPipe
<1> QED BY <1>1, <1>2, <1>3, <1>4 DEF InPipe

(* socket_server_send and its variant of low priority.                     *)
LEMMA SendStep ==
  ASSUME IInv, NEW id \in known, NEW cmd \in {"D", "P"}, Send(id, cmd)
  PROVE  IInv'
<1>1. TypeInv /\ PipeInv /\ id \in Ids
  BY DEF IInv, TypeInv
<1>2. running /\ SocketsSame
  BY DEF Send, SocketsSame, ctrlVars, clientVars
<1>3. PICK a \in Nat : a = Len(msg)
  BY <1>1 DEF TypeInv
<1>4. CASE /\ msg' = Append(msg, [to |-> id, cmd |-> cmd, st |-> "dropped"])
           /\ pipe' = pipe
  <2>1. PICK e : e = [to |-> id, cmd |-> cmd, st |-> "dropped"]
    OBVIOUS
  <2>2. e \in Messages /\ e.st # "taken" /\ msg' = Append(msg, e)
    BY <1>1, <1>4, <2>1 DEF Messages
  <2>3. TakesOnly(0)
    BY <1>1, <2>2, NewMessage
  <2>4. Adds
    BY <1>1, <1>4 DEF Adds, TypeInv
  <2>5. ASSUME NEW i \in 1..Len(pipe'), Sends(pipe'[i])
        PROVE  InPipe(msg', pipe'[i])
    <3>1. InPipe(msg, pipe'[i])
      BY <1>1, <1>4, <2>5 DEF PipeInv
    <3> QED BY <1>1, <2>2, <3>1, InPipeKept
  <2>6. PipeInv'
    BY <1>1, <1>4, <2>5 DEF PipeInv
  <2> QED BY <1>2, <2>3, <2>4, <2>6, ServiceStep
<1>5. CASE /\ msg' = Append(msg, [to |-> id, cmd |-> cmd, st |-> "pipe"])
           /\ send_request([cmd |-> cmd, id |-> id, m |-> Len(msg) + 1])
  <2>1. PICK e, r : /\ e = [to |-> id, cmd |-> cmd, st |-> "pipe"]
                    /\ r = [cmd |-> cmd, id |-> id, m |-> a + 1]
    OBVIOUS
  <2>2. e \in Messages /\ e.st # "taken" /\ msg' = Append(msg, e)
    BY <1>1, <1>5, <2>1 DEF Messages
  <2>3. TakesOnly(0)
    BY <1>1, <2>2, NewMessage
  <2>4. /\ r \in Requests /\ ~ Opens(r) /\ r.id \in known /\ send_request(r)
        /\ r.m = a + 1
    BY <1>1, <1>3, <1>5, <2>1 DEF Requests, Opens
  <2>5. PICK b \in Nat : b = Len(pipe)
    BY <1>1 DEF TypeInv
  <2>6. ASSUME NEW i \in 1..Len(pipe')
        PROVE  \/ i \in 1..b /\ pipe'[i] = pipe[i]
               \/ i = b + 1 /\ pipe'[i] = r
    BY <1>1, <2>4, <2>5, AppendedAt
  <2>7. Adds
    <3>1. pipe' \in Seq(Requests)
      BY <1>1, <2>4, Appended
    <3>2. b < b + 1
      OBVIOUS
    <3> QED BY <2>4, <2>5, <2>6, <3>1, <3>2 DEF Adds
  <2>8. InPipe(msg', r)
    <3>1. /\ Len(msg') = a + 1 /\ msg'[a + 1] = e
          /\ \A i \in 1..a : msg'[i] = msg[i]
      BY <1>1, <1>3, <2>2, NewMessage
    <3>2. ASSUME NEW v \in 1..(a + 1), msg'[v].st = "taken" PROVE v < a + 1
      <4>1. v = a + 1 \/ v \in 1..a
        OBVIOUS
      <4> QED BY <2>2, <3>1, <3>2, <4>1
    <3>3. a + 1 \in 1..(a + 1)
      OBVIOUS
    <3>4. e.st = "pipe" /\ e.to = r.id /\ e.cmd = r.cmd
      BY <2>1
    <3> QED BY <2>4, <3>1, <3>2, <3>3, <3>4 DEF InPipe
  <2>9. ASSUME NEW i \in 1..b, Sends(pipe[i])
        PROVE  InPipe(msg', pipe[i]) /\ pipe[i].m < a + 1
    <3>1. InPipe(msg, pipe[i])
      BY <1>1, <2>5, <2>9 DEF PipeInv
    <3>2. InPipe(msg', pipe[i]) /\ pipe[i].m \in 1..Len(msg)
      BY <1>1, <2>2, <3>1, InPipeKept
    <3> QED BY <1>3, <3>2
  <2>10. PipeInv'
    <3>1. ASSUME NEW i \in 1..Len(pipe'), Sends(pipe'[i])
          PROVE  InPipe(msg', pipe'[i])
      BY <2>6, <2>8, <2>9, <3>1
    <3>2. ASSUME NEW i \in 1..Len(pipe'), NEW j \in 1..Len(pipe'), i < j,
                 Sends(pipe'[i]), Sends(pipe'[j])
          PROVE  pipe'[i].m < pipe'[j].m
      <4>1. i \in 1..b /\ pipe'[i] = pipe[i]
        <5>1. i # b + 1
          BY <2>6, <3>2
        <5> QED BY <2>6, <5>1
      <4>2. CASE j \in 1..b /\ pipe'[j] = pipe[j]
        BY <1>1, <2>5, <3>2, <4>1, <4>2 DEF PipeInv
      <4>3. CASE j = b + 1 /\ pipe'[j] = r
        BY <2>4, <2>9, <3>2, <4>1, <4>3
      <4> QED BY <2>6, <4>2, <4>3
    <3> QED BY <3>1, <3>2 DEF PipeInv
  <2> QED BY <1>2, <2>3, <2>7, <2>10, ServiceStep
<1> QED BY <1>4, <1>5 DEF Send

-----------------------------------------------------------------------------
(* Steps that change the batch only.                                       *)
BatchOnly ==
  /\ alloc_id' = alloc_id /\ slot' = slot /\ pipe' = pipe
  /\ reserving' = reserving /\ known' = known /\ msg' = msg /\ wire' = wire
  /\ seen' = seen /\ clean' = clean /\ failed' = failed
  /\ ev' \in Seq(Events) /\ toclear' \in 0..MaxAlloc
  /\ checkctrl' \in BOOLEAN /\ fresh' \in BOOLEAN

(* A step that changes the batch only preserves the rest.                  *)
LEMMA BatchOnlyStep ==
  ASSUME IInv, BatchOnly, BatchInv'
  PROVE  IInv'
<1> USE DEF BatchOnly
<1>1. TypeInv' /\ SlotInv' /\ ConnInv'
  BY DEF IInv, TypeInv, SlotInv, ConnInv
<1>2. PipeInv' /\ LowIsWhole'
  BY DEF IInv, PipeInv, LowIsWhole
<1>3. ASSUME failed' = "no" PROVE BirthInv'
  <2>1. UnbornInv /\ ReserveInv /\ OpenInv
    BY <1>3 DEF IInv, BirthInv
  <2>2. UnbornInv'
    BY <2>1 DEF UnbornInv, Unborn
  <2>3. ReserveInv' /\ OpenInv'
    BY <2>1 DEF ReserveInv, OpenInv
  <2> QED BY <2>2, <2>3 DEF BirthInv
<1> QED BY <1>1, <1>2, <1>3 DEF IInv

(* A step that changes nothing.                                            *)
LEMMA StutterStep == IInv /\ UNCHANGED vars => IInv'
<1> SUFFICES ASSUME IInv, UNCHANGED vars PROVE IInv'
  OBVIOUS
<1>1. BatchOnly
  BY DEF vars, ctrlVars, clientVars, BatchOnly, IInv, TypeInv
<1>2. BatchInv'
  BY DEF vars, ctrlVars, clientVars, IInv, BatchInv
<1> QED BY <1>1, <1>2, BatchOnlyStep

(* has_cmd finds no request.                                               *)
LEMMA NoCtrlStep == IInv /\ NoCtrl => IInv'
<1> SUFFICES ASSUME IInv, NoCtrl PROVE IInv'
  OBVIOUS
<1>1. BatchOnly
  BY DEF NoCtrl, clientVars, BatchOnly, IInv, TypeInv
<1>2. BatchInv'
  BY DEF NoCtrl, IInv, BatchInv
<1> QED BY <1>1, <1>2, BatchOnlyStep

(* Without the event of slot k.                                            *)
LEMMA EventCleared ==
  ASSUME NEW c \in Seq(Events), NEW k,
         \A i, j \in 1..Len(c) : c[i].s = c[j].s => i = j
  PROVE  LET r == without(c, k)
         IN  /\ r \in Seq(Events)
             /\ \A i, j \in 1..Len(r) : r[i].s = r[j].s => i = j
             /\ \A i \in 1..Len(r) :
                  \E x \in 1..Len(c) : r[i] = c[x] /\ c[x].s # k
<1> DEFINE r == without(c, k)
           I == {i \in 1..Len(c) : c[i].s = k}
<1>1. CASE I = {}
  <2>1. r = c
    BY <1>1 DEF without, RemoveFirstMatch
  <2> QED BY <1>1, <2>1
<1>2. CASE I # {}
  <2>1. r = RemoveAt(c, Min(I))
    <3>1. \E i \in 1..Len(c) : c[i].s = k
      BY <1>2
    <3> QED BY <1>2, <3>1, Zenon DEF without, RemoveFirstMatch, SelectInSeq
  <2>2. Min(I) \in I
    <3>1. I \in SUBSET Nat
      OBVIOUS
    <3>2. PICK m \in I : \A i \in I : m <= i
      BY <1>2, <3>1, LeastNumber
    <3> QED BY <3>2 DEF Min
  <2>3. PICK m \in 1..Len(c) : m = Min(I) /\ c[m].s = k
    BY <2>2
  <2>4. PICK a \in Nat : a = Len(c)
    OBVIOUS
  <2>5. PICK t : t = RemoveAt(c, m)
    OBVIOUS
  <2>6. t \in Seq(Events) /\ Len(t) = a - 1
        /\ \A j \in 1..(a - 1) : t[j] = IF j < m THEN c[j] ELSE c[j + 1]
    BY <2>4, <2>5, Removed
  <2>7. ASSUME NEW i \in 1..Len(t)
        PROVE  \E x \in 1..a : /\ t[i] = c[x] /\ x # m
                               /\ x = IF i < m THEN i ELSE i + 1
    <3>1. i \in 1..(a - 1) /\ m \in 1..a
      BY <2>4, <2>6
    <3>2. PICK x : x = IF i < m THEN i ELSE i + 1
      OBVIOUS
    <3>3. x \in 1..a /\ x # m
      BY <3>1, <3>2
    <3> QED BY <2>6, <3>1, <3>2, <3>3
  <2>8. ASSUME NEW i \in 1..Len(t), NEW j \in 1..Len(t), t[i].s = t[j].s
        PROVE  i = j
    <3>1. PICK x \in 1..a : t[i] = c[x] /\ x = IF i < m THEN i ELSE i + 1
      BY <2>7
    <3>2. PICK y \in 1..a : t[j] = c[y] /\ y = IF j < m THEN j ELSE j + 1
      BY <2>7
    <3>3. x = y
      BY <2>4, <2>8, <3>1, <3>2
    <3>4. i \in Nat /\ j \in Nat /\ m \in Nat
      BY <2>4, <2>6
    <3> QED BY <3>1, <3>2, <3>3, <3>4
  <2>9. ASSUME NEW i \in 1..Len(t)
        PROVE  \E x \in 1..Len(c) : t[i] = c[x] /\ c[x].s # k
    <3>1. PICK x \in 1..a : t[i] = c[x] /\ x # m
      BY <2>7
    <3>2. c[x].s # k
      BY <2>3, <2>4, <3>1
    <3> QED BY <2>4, <3>1, <3>2
  <2>10. without(c, k) = t
    BY <2>1, <2>3, <2>5
  <2>11. \A i, j \in 1..Len(t) : t[i].s = t[j].s => i = j
    BY <2>8
  <2>12. \A i \in 1..Len(t) : \E x \in 1..Len(c) : t[i] = c[x] /\ c[x].s # k
    BY <2>9
  <2> QED BY <2>6, <2>10, <2>11, <2>12, Zenon
<1> QED BY <1>1, <1>2

(* An event, missed when it is of id.                                      *)
Missed(f, id) == [f EXCEPT !.missed = @ \/ f.id = id]

(* The batch with the event of id missed.                                  *)
LEMMA EventsMissed ==
  ASSUME NEW c \in Seq(Events), NEW id
  PROVE  LET r == missing(c, id)
         IN  /\ r \in Seq(Events) /\ Len(r) = Len(c)
             /\ \A i \in 1..Len(c) :
                  /\ r[i].s = c[i].s /\ r[i].id = c[i].id
                  /\ r[i].missed = (c[i].missed \/ c[i].id = id)
<1>1. ASSUME NEW i \in 1..Len(c)
      PROVE  Missed(c[i], id) \in Events
             /\ Missed(c[i], id).s = c[i].s /\ Missed(c[i], id).id = c[i].id
             /\ Missed(c[i], id).missed = (c[i].missed \/ c[i].id = id)
  <2>1. PICK f \in Events : f = c[i]
    OBVIOUS
  <2>2. PICK b \in BOOLEAN : b = (f.missed \/ f.id = id)
    BY DEF Events
  <2>3. Missed(f, id) = [f EXCEPT !.missed = b]
    BY <2>2 DEF Missed
  <2>4. /\ Missed(f, id) \in Events /\ Missed(f, id).s = f.s
        /\ Missed(f, id).id = f.id /\ Missed(f, id).missed = b
    BY <2>3 DEF Events
  <2> QED BY <2>1, <2>2, <2>4
<1>2. PICK r : r = missing(c, id)
  OBVIOUS
<1>3. r = [i \in 1..Len(c) |-> Missed(c[i], id)]
  BY <1>2 DEF missing, Missed
<1>4. r \in [1..Len(c) -> Events]
  BY <1>1, <1>3
<1>5. r \in Seq(Events) /\ Len(r) = Len(c)
  BY <1>4
<1>6. \A i \in 1..Len(c) : r[i] = Missed(c[i], id)
  BY <1>3
<1>7. \A i \in 1..Len(c) :
        /\ r[i].s = c[i].s /\ r[i].id = c[i].id
        /\ r[i].missed = (c[i].missed \/ c[i].id = id)
  BY <1>1, <1>6
<1> QED BY <1>2, <1>5, <1>7

(* clear_closed_event takes the event of the socket that has ended out of  *)
(* the batch, unless its slot has been given to another.                   *)
LEMMA ClearStep == IInv /\ clear_closed_event => IInv'
<1> SUFFICES ASSUME IInv, clear_closed_event PROVE IInv'
  OBVIOUS
<1>1. TypeInv /\ SlotInv /\ BatchInv
  BY DEF IInv
<1>2. PICK k : k = HASH_ID(toclear)
  OBVIOUS
<1>3. /\ toclear # 0 /\ toclear' = 0
      /\ ev' = IF slot[k].type = "INVALID" /\ slot[k].id = toclear
               THEN without(ev, k) ELSE missing(ev, toclear)
  BY <1>2, Zenon DEF clear_closed_event
<1>4. ev \in Seq(Events) /\ \A i, j \in 1..Len(ev) : ev[i].s = ev[j].s => i = j
  BY <1>1 DEF TypeInv, BatchInv
<1>5. ASSUME NEW i \in 1..Len(ev)
      PROVE  /\ slot[ev[i].s].type = "INVALID" =>
                  ev[i].s = k /\ slot[k].id = toclear
             /\ slot[ev[i].s].type # "PACCEPT"
  <2>1. PICK j \in Slots : j = ev[i].s
    <3>1. ev[i] \in Events
      BY <1>4
    <3> QED BY <3>1 DEF Events
  <2>2. slot[j].type = "INVALID" => slot[j].id = toclear
    BY <1>1, <2>1 DEF BatchInv
  <2>3. slot[j].id # 0 => HASH_ID(slot[j].id) = j
    BY <1>1 DEF SlotInv, SlotOk
  <2>4. slot[j].type # "PACCEPT"
    BY <1>1, <2>1 DEF BatchInv
  <2> QED BY <1>2, <1>3, <2>1, <2>2, <2>3, <2>4
<1>6. CASE slot[k].type = "INVALID" /\ slot[k].id = toclear
  <2>1. PICK r : r = without(ev, k)
    OBVIOUS
  <2>2. ev' = r
    BY <1>3, <1>6, <2>1
  <2>3. /\ r \in Seq(Events)
        /\ \A i, j \in 1..Len(r) : r[i].s = r[j].s => i = j
        /\ \A i \in 1..Len(r) :
             \E x \in 1..Len(ev) : r[i] = ev[x] /\ ev[x].s # k
    BY <1>4, <2>1, EventCleared
  <2>4. BatchOnly
    BY <1>1, <1>3, <2>2, <2>3, SlotsOfIds
       DEF BatchOnly, clear_closed_event, clientVars, TypeInv
  <2>5. ASSUME NEW i \in 1..Len(r)
        PROVE  slot[r[i].s].type \notin {"INVALID", "PACCEPT"}
    BY <1>5, <2>3
  <2>6. BatchInv'
    <3>1. slot' = slot
      BY <2>4 DEF BatchOnly
    <3> QED BY <1>3, <2>2, <2>3, <2>5, <3>1 DEF BatchInv
  <2> QED BY <2>4, <2>6, BatchOnlyStep
<1>7. CASE ~ (slot[k].type = "INVALID" /\ slot[k].id = toclear)
  <2>1. PICK r : r = missing(ev, toclear)
    OBVIOUS
  <2>2. ev' = r
    BY <1>3, <1>7, <2>1
  <2>3. /\ r \in Seq(Events) /\ Len(r) = Len(ev)
        /\ \A i \in 1..Len(ev) : r[i].s = ev[i].s
    BY <1>4, <2>1, EventsMissed
  <2>4. BatchOnly
    BY <1>1, <1>3, <2>2, <2>3, SlotsOfIds
       DEF BatchOnly, clear_closed_event, clientVars, TypeInv
  <2>5. ASSUME NEW i \in 1..Len(r)
        PROVE  slot[r[i].s].type \notin {"INVALID", "PACCEPT"}
    BY <1>5, <1>7, <2>3
  <2>6. \A i, j \in 1..Len(r) : r[i].s = r[j].s => i = j
    BY <1>4, <2>3
  <2>7. BatchInv'
    <3>1. slot' = slot
      BY <2>4 DEF BatchOnly
    <3> QED BY <1>3, <2>2, <2>5, <2>6, <3>1 DEF BatchInv
  <2> QED BY <2>4, <2>7, BatchOnlyStep
<1> QED BY <1>6, <1>7

(* sp_wait fills the batch with one event for each socket at most.         *)
LEMMA WaitStep == IInv /\ Wait => IInv'
<1> SUFFICES ASSUME IInv, Wait PROVE IInv'
  OBVIOUS
<1>1. TypeInv /\ BatchInv
  BY DEF IInv
<1>2. PICK batch \in SUBSET polled :
        /\ ev' \in {s \in [1..Cardinality(batch) -> UNION {ready(k) : k \in batch}] :
                     {s[i].s : i \in DOMAIN s} = batch}
        /\ fresh' \in BOOLEAN
  BY DEF Wait
<1>3. PICK n : n = Cardinality(batch)
  OBVIOUS
<1>4. n \in Nat /\ IsFiniteSet(batch)
  <2>1. batch \in SUBSET (0..(MaxSocket - 1))
    BY DEF polled, Slots
  <2>2. 0 \in Int /\ MaxSocket - 1 \in Int
    BY SocketAssumption
  <2>3. IsFiniteSet(0..(MaxSocket - 1))
    BY <2>2, FS_Interval
  <2>4. IsFiniteSet(batch)
    BY <2>1, <2>3, FS_Subset
  <2> QED BY <1>3, <2>4, FS_CardinalityType
<1>5. /\ ev' \in [1..n -> UNION {ready(k) : k \in batch}]
      /\ {ev'[i].s : i \in 1..n} = batch
  BY <1>2, <1>3
<1>6. ASSUME NEW k \in batch PROVE ready(k) \subseteq Events
  <2>1. k \in Slots
    BY DEF polled
  <2>2. slot[k].id \in 0..MaxAlloc
    BY <1>1, <2>1 DEF TypeInv, Socket
  <2> QED BY <2>1, <2>2 DEF ready, Events
<1>7. ev' \in [1..n -> Events] /\ ev' \in Seq(Events) /\ Len(ev') = n
  <2>1. ev' \in [1..n -> Events]
    BY <1>5, <1>6
  <2> QED BY <1>4, <2>1
<1>8. ASSUME NEW i \in 1..n, NEW j \in 1..n, ev'[i].s = ev'[j].s
      PROVE  i = j
  <2>1. PICK f : f = [x \in 1..n |-> ev'[x].s]
    OBVIOUS
  <2>2. f \in [1..n -> batch] /\ \A t \in batch : \E x \in 1..n : f[x] = t
    BY <1>5, <2>1
  <2>3. f \in Surjection(1..n, batch)
    BY <2>2 DEF Surjection
  <2>4. IsFiniteSet(1..n) /\ Cardinality(1..n) = n
    <3>1. 1 \in Int /\ n \in Int
      BY <1>4
    <3> QED BY <1>4, <3>1, FS_Interval
  <2>5. f \in Injection(1..n, batch)
    BY <1>3, <2>3, <2>4, FS_SurjSameCardinalityImpliesInj
  <2>6. f[i] = f[j]
    BY <1>8, <2>1
  <2> QED BY <2>5, <2>6 DEF Injection, IsInjective
<1>9. ASSUME NEW i \in 1..n
      PROVE  slot[ev'[i].s].type \notin {"INVALID", "PACCEPT"}
  <2>1. ev'[i].s \in batch
    BY <1>5
  <2> QED BY <2>1 DEF polled
<1>10. toclear = 0
  BY <1>1 DEF BatchInv, Wait
<1>11. slot' = slot /\ toclear' = toclear /\ checkctrl' = TRUE
  BY DEF Wait
<1>12. BatchOnly
  BY <1>1, <1>2, <1>7, <1>11 DEF Wait, BatchOnly, clientVars, TypeInv
<1>13. BatchInv'
  BY <1>7, <1>8, <1>9, <1>10, <1>11 DEF BatchInv
<1> QED BY <1>12, <1>13, BatchOnlyStep

-----------------------------------------------------------------------------

(* reserve_id, in the thread of a service.                                 *)
LEMMA ReserveStep ==
  ASSUME IInv, NEW t \in Connectors, Reserve(t)
  PROVE  IInv'
<1>1. TypeInv /\ SlotInv /\ ConnInv /\ BatchInv /\ PipeInv /\ LowIsWhole
      /\ UnbornInv /\ ReserveInv /\ OpenInv
  BY DEF IInv, Reserve, running, BirthInv
<1>2. PICK id : id = Min(reservable)
  OBVIOUS
<1>3. /\ reserving[t] = 0 /\ alloc_id' = id
      /\ slot' = [slot EXCEPT ![HASH_ID(id)].type = "RESERVE"]
      /\ reserving' = [reserving EXCEPT ![t] = id]
  BY <1>2 DEF Reserve
<1>4. /\ pipe' = pipe /\ ev' = ev /\ toclear' = toclear /\ fresh' = fresh
      /\ checkctrl' = checkctrl /\ known' = known /\ msg' = msg /\ wire' = wire
      /\ seen' = seen /\ clean' = clean /\ failed' = failed
  BY DEF Reserve, ctrlVars
<1>5. id \in Ids /\ alloc_id < id /\ Free(id) /\ alloc_id \in Ids
  <2>1. reservable # {} /\ Min(reservable) <= MaxAlloc /\ alloc_id \in Ids
    BY <1>1 DEF Reserve, TypeInv
  <2> QED BY <1>2, <2>1, Reservable
<1>6. id \in Int /\ alloc_id \in Int /\ id # 0 /\ alloc_id <= id
      /\ id \in 0..MaxAlloc
  BY <1>5, SlotsOfIds
<1>7. PICK k \in Slots : k = HASH_ID(id)
  BY <1>5, SlotsOfIds
<1>8. slot[k].type = "INVALID" /\ slot[k] \in Socket /\ SlotOk(msg, k, slot[k], alloc_id)
  BY <1>1, <1>5, <1>7 DEF Free, TypeInv, SlotInv
<1>9. PICK s : s = [slot[k] EXCEPT !.type = "RESERVE"]
  OBVIOUS
<1>10. /\ s \in Socket /\ s.type = "RESERVE" /\ s.id = slot[k].id
       /\ s.high = slot[k].high /\ s.low = slot[k].low
  BY <1>8, <1>9 DEF Socket, Types
<1>11. slot' \in [Slots -> Socket] /\ slot'[k] = s /\ SlotsOnly(k)
  <2>1. slot' = [slot EXCEPT ![k] = s]
    BY <1>3, <1>7, <1>9
  <2>2. slot \in [Slots -> Socket]
    BY <1>1 DEF TypeInv
  <2> QED BY <1>10, <2>1, <2>2 DEF SlotsOnly
<1>12. TakesOnly(0) /\ msg' \in Seq(Messages) /\ Grown(msg, msg')
       /\ ReportsOnly(0) /\ 0 \notin Ids
  BY <1>1, <1>4, MessagesKept, SlotsOfIds DEF ReportsOnly, TypeInv
<1>13. TypeInv'
  <2>1. reserving' \in [Connectors -> 0..MaxAlloc]
    BY <1>1, <1>3, <1>6 DEF TypeInv
  <2> QED BY <1>1, <1>3, <1>4, <1>5, <1>11, <2>1 DEF TypeInv
<1>14. SlotInv'
  <2>1. s.id <= alloc_id
    BY <1>8, <1>10 DEF SlotOk
  <2>2. s.id <= id
    <3>1. s.id \in Int
      BY <1>10, SlotsOfIds DEF Socket
    <3> QED BY <1>6, <2>1, <3>1
  <2>3. SlotOk(msg', k, s, id)
    BY <1>4, <1>8, <1>10, <2>2 DEF SlotOk, LiveTypes
  <2> QED BY <1>1, <1>3, <1>5, <1>6, <1>11, <1>12, <2>3, SlotStep
<1>15. ConnInv'
  <2>1. \A j \in Ids : ~ LiveIn(slot'[k], j)
    BY <1>10, <1>11 DEF LiveIn, LiveTypes
  <2> QED BY <1>1, <1>11, <1>12, <2>1, ConnStep
<1>16. BatchInv'
  <2>1. BatchLeft(0) /\ slot'[k].type \notin {"INVALID", "PACCEPT"}
    BY <1>1, <1>4, <1>10, <1>11, BatchSame
  <2>2. toclear' # 0 => checkctrl' /\ ~fresh'
    BY <1>1, <1>4 DEF BatchInv
  <2> QED BY <1>1, <1>4, <1>11, <2>1, <2>2, BatchStep
<1>17. PipeInv' /\ LowIsWhole'
  BY <1>1, <1>4, PipeKept, PipeStep DEF LowIsWhole
<1>18. UnbornInv'
  <2> SUFFICES ASSUME NEW j \in Ids, Unborn(j)'
               PROVE  Untouched(msg, j, wire[j], seen[j], j \in clean)
    BY <1>4 DEF UnbornInv
  <2>1. Unborn(j)
    <3>1. CASE id < j
      <4>1. alloc_id < j
        BY <1>5, <1>6, <3>1, SlotsOfIds
      <4> QED BY <4>1 DEF Unborn
    <3>2. CASE \E u \in Connectors : reserving'[u] = j
      <4>1. PICK u \in Connectors : reserving'[u] = j
        BY <3>2
      <4>2. j = id \/ reserving[u] = j
        BY <1>1, <1>3, <4>1 DEF TypeInv
      <4> QED BY <1>5, <4>2 DEF Unborn
    <3>3. CASE \E i \in 1..Len(pipe) : Opens(pipe[i]) /\ pipe[i].id = j
      BY <3>3 DEF Unborn
    <3> QED BY <1>3, <1>4, <3>1, <3>2, <3>3 DEF Unborn
  <2> QED BY <1>1, <2>1 DEF UnbornInv
<1>19. \A u \in Connectors : u # t /\ reserving[u] # 0 =>
         HASH_ID(reserving[u]) # k
  BY <1>1, <1>8 DEF ReserveInv
<1>20. \A i \in 1..Len(pipe) : Opens(pipe[i]) => HASH_ID(pipe[i].id) # k
  BY <1>1, <1>8 DEF OpenInv
<1>21. id \notin known
  <2>1. \A j \in known : j <= alloc_id /\ j \in Int
    <3>1. known \subseteq Ids
      BY <1>1 DEF TypeInv
    <3>2. \A j \in known : j \in Int
      BY <3>1, SlotsOfIds
    <3> QED BY <1>1, <3>2 DEF OpenInv
  <2> QED BY <1>5, <1>6, <2>1
<1>22. ReserveInv'
  <2> SUFFICES ASSUME NEW u \in Connectors, reserving'[u] # 0
      PROVE /\ slot'[HASH_ID(reserving'[u])].type = "RESERVE"
            /\ reserving'[u] \notin known /\ reserving'[u] <= id
            /\ \A v \in Connectors : v # u /\ reserving'[v] # 0 =>
                 HASH_ID(reserving'[v]) # HASH_ID(reserving'[u])
            /\ \A i \in 1..Len(pipe) :
                 Opens(pipe[i]) => HASH_ID(pipe[i].id) # HASH_ID(reserving'[u])
    BY <1>3, <1>4 DEF ReserveInv
  <2>1. \A v \in Connectors : v # t => reserving'[v] = reserving[v]
    BY <1>1, <1>3 DEF TypeInv
  <2>2. reserving'[t] = id
    BY <1>1, <1>3 DEF TypeInv
  <2>3. CASE u = t
    BY <1>6, <1>7, <1>10, <1>11, <1>19, <1>20, <1>21, <2>1, <2>2, <2>3
  <2>4. CASE u # t
    <3>1. PICK j \in Ids : j = reserving[u] /\ j = reserving'[u]
      <4>1. reserving[u] \in 0..MaxAlloc /\ reserving[u] # 0
        BY <1>1, <2>1, <2>4 DEF TypeInv
      <4>2. reserving[u] \in Ids
        BY <4>1 DEF Ids
      <4> QED BY <2>1, <2>4, <4>2
    <3>2. PICK h \in Slots : h = HASH_ID(j)
      BY SlotsOfIds
    <3>3. /\ slot[h].type = "RESERVE" /\ h # k
          /\ j \notin known /\ j <= alloc_id
          /\ \A v \in Connectors : v # u /\ reserving[v] # 0 =>
               HASH_ID(reserving[v]) # h
          /\ \A i \in 1..Len(pipe) : Opens(pipe[i]) => HASH_ID(pipe[i].id) # h
      BY <1>1, <1>19, <2>4, <3>1, <3>2 DEF ReserveInv
    <3>4. slot'[h].type = "RESERVE" /\ j <= id
      <4>1. slot'[h] = slot[h]
        BY <1>11, <3>3 DEF SlotsOnly
      <4>2. j \in Int
        BY SlotsOfIds
      <4> QED BY <1>6, <3>3, <4>1, <4>2
    <3>5. ASSUME NEW v \in Connectors, v # u, reserving'[v] # 0
          PROVE  HASH_ID(reserving'[v]) # h
      BY <1>7, <2>1, <2>2, <3>3, <3>5
    <3> QED BY <3>1, <3>2, <3>3, <3>4, <3>5
  <2> QED BY <2>3, <2>4
<1>23. OpenInv'
  <2>1. ASSUME NEW i \in 1..Len(pipe)
        PROVE  /\ pipe[i].id \in known
               /\ Opens(pipe[i]) =>
                    /\ slot'[HASH_ID(pipe[i].id)].type = "RESERVE"
                    /\ slot'[HASH_ID(pipe[i].id)].id = pipe[i].id
    <3>1. pipe[i].id \in known /\ pipe[i].id \in Ids
      BY <1>1 DEF OpenInv, TypeInv
    <3>2. PICK h \in Slots : h = HASH_ID(pipe[i].id)
      BY <3>1, SlotsOfIds
    <3>3. Opens(pipe[i]) =>
            h # k /\ slot[h].type = "RESERVE" /\ slot[h].id = pipe[i].id
      BY <1>1, <1>20, <3>2 DEF OpenInv
    <3> QED BY <1>11, <3>1, <3>2, <3>3 DEF SlotsOnly
  <2>2. \A j \in known : j <= id
    <3>1. \A j \in known : j <= alloc_id /\ j \in Int
      <4>1. known \subseteq Ids
        BY <1>1 DEF TypeInv
      <4>2. \A j \in known : j \in Int
        BY <4>1, SlotsOfIds
      <4> QED BY <1>1, <4>2 DEF OpenInv
    <3> QED BY <1>6, <3>1
  <2> QED BY <1>1, <1>3, <1>4, <2>1, <2>2 DEF OpenInv
<1> QED BY <1>13, <1>14, <1>15, <1>16, <1>17, <1>18, <1>22, <1>23
     DEF IInv, BirthInv

-----------------------------------------------------------------------------

(* The request that follows it.                                            *)
LEMMA RequestStep ==
  ASSUME IInv, NEW t \in Connectors, Request(t)
  PROVE  IInv'
<1>1. TypeInv /\ SlotInv /\ ConnInv /\ BatchInv /\ PipeInv /\ LowIsWhole
      /\ UnbornInv /\ ReserveInv /\ OpenInv
  BY DEF IInv, Request, running, BirthInv
<1>2. PICK id : id = reserving[t]
  OBVIOUS
<1>3. /\ id # 0 /\ slot' = [slot EXCEPT ![HASH_ID(id)].id = id]
      /\ known' = known \cup {id} /\ reserving' = [reserving EXCEPT ![t] = 0]
      /\ \E cmd \in {"O", "L"} : send_request([cmd |-> cmd, id |-> id])
  BY <1>2 DEF Request
<1>4. /\ alloc_id' = alloc_id /\ ev' = ev /\ toclear' = toclear
      /\ checkctrl' = checkctrl /\ fresh' = fresh /\ msg' = msg /\ wire' = wire
      /\ seen' = seen /\ clean' = clean /\ failed' = failed
  BY DEF Request, ctrlVars
<1>5. PICK cmd \in {"O", "L"} : send_request([cmd |-> cmd, id |-> id])
  BY <1>3
<1>6. PICK r : r = [cmd |-> cmd, id |-> id]
  OBVIOUS
<1>7. id \in Ids /\ id \in 0..MaxAlloc
  <2>1. id \in 0..MaxAlloc
    BY <1>1, <1>2 DEF TypeInv
  <2> QED BY <1>3, <2>1 DEF Ids
<1>8. r \in Requests /\ ~ Sends(r) /\ Opens(r) /\ r.id = id /\ send_request(r)
  BY <1>5, <1>6, <1>7 DEF Requests, Sends, Opens
<1>9. PICK k \in Slots : k = HASH_ID(id)
  BY <1>7, SlotsOfIds
<1>10. /\ slot[k].type = "RESERVE" /\ id \notin known /\ id <= alloc_id
       /\ \A u \in Connectors : u # t /\ reserving[u] # 0 =>
            HASH_ID(reserving[u]) # k
       /\ \A i \in 1..Len(pipe) : Opens(pipe[i]) => HASH_ID(pipe[i].id) # k
  BY <1>1, <1>2, <1>3, <1>9 DEF ReserveInv
<1>11. slot[k] \in Socket /\ SlotOk(msg, k, slot[k], alloc_id)
  BY <1>1 DEF TypeInv, SlotInv
<1>12. PICK s : s = [slot[k] EXCEPT !.id = id]
  OBVIOUS
<1>13. /\ s \in Socket /\ s.type = "RESERVE" /\ s.id = id
       /\ s.high = slot[k].high /\ s.low = slot[k].low
  BY <1>7, <1>10, <1>11, <1>12 DEF Socket
<1>14. slot' \in [Slots -> Socket] /\ slot'[k] = s /\ SlotsOnly(k)
  <2>1. slot' = [slot EXCEPT ![k] = s]
    BY <1>3, <1>9, <1>12
  <2>2. slot \in [Slots -> Socket]
    BY <1>1 DEF TypeInv
  <2> QED BY <1>13, <2>1, <2>2 DEF SlotsOnly
<1>15. TakesOnly(0) /\ msg' \in Seq(Messages) /\ Grown(msg, msg')
       /\ ReportsOnly(0) /\ 0 \notin Ids
  BY <1>1, <1>4, MessagesKept, SlotsOfIds DEF ReportsOnly, TypeInv
<1>16. PICK a \in Nat : a = Len(pipe)
  BY <1>1 DEF TypeInv
<1>17. ASSUME NEW i \in 1..Len(pipe')
       PROVE  \/ i \in 1..a /\ pipe'[i] = pipe[i]
              \/ i = a + 1 /\ pipe'[i] = r
  BY <1>1, <1>8, <1>16, AppendedAt
<1>18. TypeInv'
  <2>1. reserving' \in [Connectors -> 0..MaxAlloc]
    BY <1>1, <1>3, SlotsOfIds DEF TypeInv
  <2>2. pipe' \in Seq(Requests)
    BY <1>1, <1>8, Appended
  <2> QED BY <1>1, <1>3, <1>4, <1>7, <1>14, <2>1, <2>2 DEF TypeInv
<1>19. SlotInv'
  <2>1. SlotOk(msg', k, s, alloc_id')
    BY <1>4, <1>9, <1>10, <1>11, <1>13 DEF SlotOk, LiveTypes
  <2>2. alloc_id' \in Ids /\ alloc_id <= alloc_id'
    BY <1>1, <1>4, SlotsOfIds DEF TypeInv
  <2> QED BY <1>1, <1>14, <1>15, <2>1, <2>2, SlotStep
<1>20. ConnInv'
  <2>1. \A j \in Ids : ~ LiveIn(slot'[k], j)
    BY <1>13, <1>14 DEF LiveIn, LiveTypes
  <2> QED BY <1>1, <1>14, <1>15, <2>1, ConnStep
<1>21. BatchInv'
  <2>1. BatchLeft(0) /\ slot'[k].type \notin {"INVALID", "PACCEPT"}
    BY <1>1, <1>4, <1>13, <1>14, BatchSame
  <2>2. toclear' # 0 => checkctrl' /\ ~fresh'
    BY <1>1, <1>4 DEF BatchInv
  <2> QED BY <1>1, <1>4, <1>14, <2>1, <2>2, BatchStep
<1>22. PipeInv' /\ LowIsWhole'
  <2>1. ASSUME NEW i \in 1..Len(pipe'), Sends(pipe'[i])
        PROVE  i \in 1..Len(pipe) /\ pipe'[i] = pipe[i]
    BY <1>8, <1>16, <1>17, <2>1
  <2>2. \A i \in 1..Len(pipe') :
          Sends(pipe'[i]) => InPipe(msg', pipe'[i])
    BY <1>1, <1>4, <2>1 DEF PipeInv
  <2>3. \A i, j \in 1..Len(pipe') :
          i < j /\ Sends(pipe'[i]) /\ Sends(pipe'[j]) => pipe'[i].m < pipe'[j].m
    BY <1>1, <2>1 DEF PipeInv
  <2> QED BY <1>1, <1>4, <2>2, <2>3 DEF PipeInv, LowIsWhole
<1>23. UnbornInv'
  <2> SUFFICES ASSUME NEW j \in Ids, Unborn(j)'
               PROVE  Untouched(msg, j, wire[j], seen[j], j \in clean)
    BY <1>4 DEF UnbornInv
  <2>1. Unborn(j)
    <3>1. CASE alloc_id < j
      BY <3>1 DEF Unborn
    <3>2. CASE \E u \in Connectors : reserving'[u] = j
      <4>1. PICK u \in Connectors : reserving'[u] = j
        BY <3>2
      <4>2. j = 0 \/ reserving[u] = j
        BY <1>1, <1>3, <4>1 DEF TypeInv
      <4> QED BY <1>15, <4>2 DEF Unborn
    <3>3. CASE \E i \in 1..Len(pipe') : Opens(pipe'[i]) /\ pipe'[i].id = j
      <4>1. PICK i \in 1..Len(pipe') : Opens(pipe'[i]) /\ pipe'[i].id = j
        BY <3>3
      <4>2. CASE i \in 1..a /\ pipe'[i] = pipe[i]
        BY <1>16, <4>1, <4>2 DEF Unborn
      <4>3. CASE pipe'[i] = r
        BY <1>2, <1>8, <4>1, <4>3 DEF Unborn
      <4> QED BY <1>17, <4>2, <4>3
    <3> QED BY <1>4, <3>1, <3>2, <3>3 DEF Unborn
  <2> QED BY <1>1, <2>1 DEF UnbornInv
<1>24. ReserveInv'
  <2> SUFFICES ASSUME NEW u \in Connectors, reserving'[u] # 0
      PROVE /\ slot'[HASH_ID(reserving'[u])].type = "RESERVE"
            /\ reserving'[u] \notin known' /\ reserving'[u] <= alloc_id
            /\ \A v \in Connectors : v # u /\ reserving'[v] # 0 =>
                 HASH_ID(reserving'[v]) # HASH_ID(reserving'[u])
            /\ \A i \in 1..Len(pipe') :
                 Opens(pipe'[i]) => HASH_ID(pipe'[i].id) # HASH_ID(reserving'[u])
    BY <1>4 DEF ReserveInv
  <2>1. \A v \in Connectors : v # t => reserving'[v] = reserving[v]
    BY <1>1, <1>3 DEF TypeInv
  <2>2. reserving'[t] = 0
    BY <1>1, <1>3 DEF TypeInv
  <2>3. u # t /\ reserving'[u] = reserving[u] /\ reserving[u] # 0
    BY <2>1, <2>2
  <2>4. PICK j \in Ids : j = reserving[u]
    <3>1. reserving[u] \in 0..MaxAlloc /\ reserving[u] # 0
      BY <1>1, <2>3 DEF TypeInv
    <3> QED BY <3>1 DEF Ids
  <2>5. PICK h \in Slots : h = HASH_ID(j)
    BY SlotsOfIds
  <2>6. h # k
    BY <1>10, <2>3, <2>4, <2>5
  <2>7. /\ slot[h].type = "RESERVE"
        /\ j \notin known /\ j <= alloc_id
        /\ \A v \in Connectors : v # u /\ reserving[v] # 0 =>
             HASH_ID(reserving[v]) # h
        /\ \A i \in 1..Len(pipe) : Opens(pipe[i]) => HASH_ID(pipe[i].id) # h
    BY <1>1, <2>3, <2>4, <2>5 DEF ReserveInv
  <2>8. j # id
    BY <1>9, <2>5, <2>6
  <2>9. slot'[h].type = "RESERVE" /\ j \notin known'
    BY <1>3, <1>14, <2>6, <2>7, <2>8 DEF SlotsOnly
  <2>10. ASSUME NEW v \in Connectors, v # u, reserving'[v] # 0
         PROVE  HASH_ID(reserving'[v]) # h
    BY <2>1, <2>2, <2>7, <2>10
  <2>11. ASSUME NEW i \in 1..Len(pipe'), Opens(pipe'[i])
         PROVE  HASH_ID(pipe'[i].id) # h
    BY <1>8, <1>9, <1>16, <1>17, <2>6, <2>7, <2>11
  <2> QED BY <2>3, <2>4, <2>5, <2>7, <2>9, <2>10, <2>11
<1>25. OpenInv'
  <2>1. ASSUME NEW i \in 1..Len(pipe')
        PROVE  /\ pipe'[i].id \in known'
               /\ Opens(pipe'[i]) =>
                    /\ slot'[HASH_ID(pipe'[i].id)].type = "RESERVE"
                    /\ slot'[HASH_ID(pipe'[i].id)].id = pipe'[i].id
    <3>1. CASE i \in 1..a /\ pipe'[i] = pipe[i]
      <4>1. pipe[i].id \in known /\ pipe[i].id \in Ids
        BY <1>1, <1>16, <3>1 DEF OpenInv, TypeInv
      <4>2. PICK h \in Slots : h = HASH_ID(pipe[i].id)
        BY <4>1, SlotsOfIds
      <4>3. Opens(pipe[i]) =>
              h # k /\ slot[h].type = "RESERVE" /\ slot[h].id = pipe[i].id
        BY <1>1, <1>10, <1>16, <3>1, <4>2 DEF OpenInv
      <4> QED BY <1>3, <1>14, <3>1, <4>1, <4>2, <4>3 DEF SlotsOnly
    <3>2. CASE pipe'[i] = r
      BY <1>3, <1>8, <1>9, <1>13, <1>14, <3>2
    <3> QED BY <1>17, <3>1, <3>2
  <2>2. ASSUME NEW i \in 1..Len(pipe'), NEW j \in 1..Len(pipe'), j < i,
               Opens(pipe'[i])
        PROVE  pipe'[j].id # pipe'[i].id
    <3>1. CASE i \in 1..a /\ pipe'[i] = pipe[i]
      <4>1. j # a + 1
        <5>1. i \in 1..a /\ j \in Int
          BY <1>18, <3>1 DEF TypeInv
        <5> QED BY <1>16, <2>2, <5>1
      <4>2. j \in 1..a /\ pipe'[j] = pipe[j]
        BY <1>17, <4>1
      <4> QED BY <1>1, <1>16, <2>2, <3>1, <4>2 DEF OpenInv
    <3>2. CASE i = a + 1 /\ pipe'[i] = r
      <4>1. j # a + 1
        BY <1>16, <2>2, <3>2
      <4>2. j \in 1..a /\ pipe'[j] = pipe[j]
        BY <1>17, <4>1
      <4>3. pipe[j].id \in known
        BY <1>1, <1>16, <4>2 DEF OpenInv
      <4> QED BY <1>8, <1>10, <3>2, <4>2, <4>3
    <3> QED BY <1>17, <3>1, <3>2
  <2>3. \A j \in known' : j <= alloc_id'
    BY <1>1, <1>3, <1>4, <1>10 DEF OpenInv
  <2> QED BY <2>1, <2>2, <2>3 DEF OpenInv
<1> QED BY <1>18, <1>19, <1>20, <1>21, <1>22, <1>23, <1>24, <1>25
     DEF IInv, BirthInv

-----------------------------------------------------------------------------
(* The requests, as the socket thread handles them.                        *)
LEMMA CtrlBegins ==
  ASSUME IInv, NEW cmd, Ctrl(cmd), NEW id, id = Head(pipe).id
  PROVE  /\ TypeInv /\ SlotInv /\ ConnInv /\ BatchInv /\ PipeInv /\ BirthInv
         /\ running /\ toclear = 0 /\ checkctrl = TRUE /\ fresh = FALSE
         /\ alloc_id' = alloc_id /\ reserving' = reserving /\ known' = known
         /\ ev' = ev /\ checkctrl' = checkctrl /\ fresh' = fresh
         /\ PipeLeft(1) /\ Len(pipe) # 0 /\ pipe' \in Seq(Requests)
         /\ BatchLeft(0) /\ id \in Ids /\ HASH_ID(id) \in Slots
         /\ ~ Unborn(id)' /\ 1 \in 1..Len(pipe) /\ pipe[1] = Head(pipe)
         /\ pipe[1] \in Requests /\ pipe[1].cmd \in cmd /\ failed = "no"
         /\ \A i \in 1..Len(ev) :
              slot[ev[i].s].type \notin {"INVALID", "PACCEPT"}
<1>1. /\ TypeInv /\ SlotInv /\ ConnInv /\ BatchInv /\ PipeInv /\ BirthInv
      /\ running /\ toclear = 0 /\ failed = "no"
  BY DEF IInv, Ctrl, running
<1>2. /\ alloc_id' = alloc_id /\ reserving' = reserving /\ known' = known
      /\ ev' = ev /\ checkctrl' = checkctrl /\ fresh' = fresh
      /\ pipe # <<>> /\ pipe' = Tail(pipe) /\ Head(pipe).cmd \in cmd
  BY DEF Ctrl, clientVars
<1>3. checkctrl = TRUE /\ fresh = FALSE
  BY <1>1 DEF Ctrl, TypeInv
<1>4. PipeLeft(1) /\ Head(pipe) = pipe[1] /\ 1 \in 1..Len(pipe)
      /\ pipe[1] \in Requests /\ pipe' \in Seq(Requests)
  BY <1>1, <1>2, PipeTail
<1>5. Len(pipe) # 0
  BY <1>4
<1>6. id \in Ids /\ HASH_ID(id) \in Slots
  BY <1>4, SlotsOfIds DEF Requests
<1>7. ~ Unborn(id)'
  BY <1>1, <1>2, <1>4, HeadBorn
<1>8. BatchLeft(0)
  BY <1>1, <1>2, BatchSame
<1>9. \A i \in 1..Len(ev) : slot[ev[i].s].type \notin {"INVALID", "PACCEPT"}
  BY <1>1 DEF BatchInv
<1> QED BY <1>1, <1>2, <1>3, <1>4, <1>5, <1>6, <1>7, <1>8, <1>9

(* What a request must leave behind: if the socket has ended and has an    *)
(* event in the batch, the event is to be cleared.                         *)
LEMMA CtrlEnds ==
  ASSUME IInv, NEW cmd, Ctrl(cmd), NEW id, id = Head(pipe).id,
         NEW k, k = HASH_ID(id), OneSlot(k, id), toclear' \in {0, id},
         slot'[k].type = "INVALID" =>
           \/ slot'[k] = slot[k]
           \/ slot'[k].id = id /\ toclear' = clearing(id, TRUE),
         slot'[k].type = "PACCEPT" => slot'[k] = slot[k],
         PipeInv', LowIsWhole', failed' = "no" => ReservedKept(1)
  PROVE  IInv'
<1>1. /\ running /\ toclear = 0 /\ checkctrl = TRUE /\ fresh = FALSE
      /\ alloc_id' = alloc_id /\ reserving' = reserving /\ known' = known
      /\ ev' = ev /\ checkctrl' = checkctrl /\ fresh' = fresh
      /\ PipeLeft(1) /\ Len(pipe) # 0 /\ pipe' \in Seq(Requests)
      /\ BatchLeft(0) /\ id \in Ids /\ ~ Unborn(id)'
      /\ \A i \in 1..Len(ev) :
           slot[ev[i].s].type \notin {"INVALID", "PACCEPT"}
  BY CtrlBegins
<1>2. toclear' \in 0..MaxAlloc /\ id # 0
  BY <1>1, SlotsOfIds
<1>3. ASSUME NEW i \in 1..Len(ev'), ev'[i].s = k
      PROVE  /\ slot'[k].type = "INVALID" =>
                  toclear' # 0 /\ slot'[k].id = toclear'
             /\ slot'[k].type # "PACCEPT"
  <2>1. slot[k].type \notin {"INVALID", "PACCEPT"}
    BY <1>1, <1>3
  <2>2. waiting(k)
    <3>1. i \in DOMAIN ev
      <4>1. ev \in Seq(Events)
        BY DEF IInv, TypeInv
      <4> QED BY <1>1, <4>1
    <3> QED BY <1>1, <1>3, <3>1 DEF waiting
  <2>3. clearing(id, TRUE) = id
    BY <2>2 DEF clearing
  <2> QED BY <1>2, <2>1, <2>3
<1>4. BatchMoves(k)
  BY <1>1, <1>2, <1>3 DEF BatchMoves
<1> QED BY <1>1, <1>4, ThreadStep

(* The event to be cleared is that of id, or none.                         *)
LEMMA Cleared ==
  ASSUME NEW id, NEW ends
  PROVE  clearing(id, ends) \in {0, id}
BY DEF clearing

(* new_fd finds the slot that was reserved for id, and nothing has         *)
(* happened to the connection yet.                                         *)
LEMMA OpenReserved ==
  ASSUME IInv, Ctrl({"O"}) \/ Ctrl({"L"}),
         NEW id, id = Head(pipe).id
  PROVE  /\ slot[HASH_ID(id)].type = "RESERVE" /\ slot[HASH_ID(id)].id = id
         /\ Untouched(msg, id, wire[id], seen[id], id \in clean)
         /\ Opens(pipe[1])
<1>1. /\ TypeInv /\ BirthInv /\ id \in Ids /\ 1 \in 1..Len(pipe)
      /\ pipe[1] = Head(pipe) /\ pipe[1].cmd \in {"O", "L"}
  <2>1. CASE Ctrl({"O"})
    BY <2>1, CtrlBegins
  <2>2. CASE Ctrl({"L"})
    BY <2>2, CtrlBegins
  <2> QED BY <2>1, <2>2
<1>2. Opens(pipe[1]) /\ pipe[1].id = id
  BY <1>1 DEF Opens
<1>3. slot[HASH_ID(id)].type = "RESERVE" /\ slot[HASH_ID(id)].id = id
  BY <1>1, <1>2 DEF BirthInv, OpenInv
<1>4. Unborn(id)
  BY <1>1, <1>2 DEF Unborn
<1> QED BY <1>1, <1>2, <1>3, <1>4 DEF BirthInv, UnbornInv

(* new_fd is called for id, and its owner is told v.                       *)
Opening(k, id, type, v) ==
  /\ new_fd(k, id, type) /\ seen' = [seen EXCEPT ![id] = v]
  /\ type \in Types \ {"RESERVE"} /\ v \in {"no", "open", "over"}
  /\ type \in LiveTypes => v # "over"
  /\ type = "CONNECTED" => v = "open"

(* new_fd fails its assert, or puts a new socket into the slot.            *)
LEMMA NewFd ==
  ASSUME IInv, Ctrl({"O"}) \/ Ctrl({"L"}),
         NEW id, id = Head(pipe).id, NEW k, k = HASH_ID(id),
         NEW type, NEW v, Opening(k, id, type, v),
         msg' = msg, wire' = wire, clean' = clean, alloc_id' = alloc_id
  PROVE  /\ OneSlot(k, id)
         /\ \/ slot'[k] = slot[k] /\ failed' = "lists"
            \/ slot'[k].type = type /\ slot'[k].id = id /\ failed' = failed
<1>0. /\ new_fd(k, id, type) /\ seen' = [seen EXCEPT ![id] = v]
      /\ type \in Types \ {"RESERVE"} /\ v \in {"no", "open", "over"}
      /\ type \in LiveTypes => v # "over"
      /\ type = "CONNECTED" => v = "open"
  BY DEF Opening
<1> USE <1>0
<1>1. TypeInv /\ SlotInv /\ ConnInv /\ id \in Ids /\ k \in Slots
  <2>1. CASE Ctrl({"O"})
    BY <2>1, CtrlBegins
  <2>2. CASE Ctrl({"L"})
    BY <2>2, CtrlBegins
  <2> QED BY <2>1, <2>2
<1>2. /\ slot[k].type = "RESERVE" /\ slot[k].id = id
      /\ Untouched(msg, id, wire[id], seen[id], id \in clean)
  BY OpenReserved
<1>3. TakesOnly(id)
  BY <1>1, MessagesKept
<1>4. seen' \in [Ids -> Tellings] /\ seen'[id] = v /\ ReportsOnly(id)
  BY <1>1 DEF TypeInv, Tellings, ReportsOnly
<1>5. wire' \in [Ids -> Seq(Nat)] /\ clean' \in SUBSET Ids
      /\ slot \in [Slots -> Socket] /\ slot[k] \in Socket
      /\ SlotOk(msg, k, slot[k], alloc_id)
  BY <1>1 DEF TypeInv, SlotInv
<1>6. CASE ~ nomore(slot[k])
  <2>1. slot' = slot /\ failed' = "lists"
    BY <1>6 DEF new_fd
  <2>2. \A j \in Ids : ~ LiveIn(slot[k], j)
    BY <1>2 DEF LiveIn, LiveTypes
  <2>3. Conn(msg, id, wire[id], slot[k], v, id \in clean)
    <3>1. Conn(msg, id, wire[id], slot[k], seen[id], id \in clean)
      BY <1>1 DEF ConnInv
    <3> QED BY <1>1, <2>2, <3>1, ConnOver
  <2>4. OneSlot(k, id)
    BY <1>1, <1>3, <1>4, <1>5, <2>1, <2>2, <2>3 DEF OneSlot, SlotsOnly
  <2> QED BY <2>1, <2>4
<1>7. CASE nomore(slot[k])
  <2>1. /\ slot' = [slot EXCEPT ![k].type = type, ![k].id = id,
                                ![k].write = type = "CONNECTING"]
        /\ failed' = failed
    BY <1>7 DEF new_fd
  <2>2. PICK s : s = [slot[k] EXCEPT !.type = type, !.id = id,
                                     !.write = (type = "CONNECTING")]
    OBVIOUS
  <2>3. slot' = [slot EXCEPT ![k] = s]
    BY <1>1, <1>5, <2>1, <2>2
  <2>4. /\ s \in Socket /\ s.type = type /\ s.id = id
        /\ s.high = <<>> /\ s.low = <<>> /\ s.write = (type = "CONNECTING")
    BY <1>1, <1>5, <1>7, <2>2, SlotsOfIds DEF Socket, nomore
  <2>5. slot' \in [Slots -> Socket] /\ slot'[k] = s /\ SlotsOnly(k)
    BY <1>1, <1>5, <2>3, <2>4 DEF SlotsOnly
  <2>6. SlotOk(msg', k, s, alloc_id')
    <3>1. id # 0 /\ id <= alloc_id
      BY <1>1, <1>2, <1>5, SlotsOfIds DEF SlotOk
    <3> QED BY <2>4, <3>1, SlotEmptied
  <2>7. Conn(msg', id, wire'[id], s, v, id \in clean')
    <3>1. LiveIn(s, id) => v # "over"
      BY <2>4 DEF LiveIn
    <3>2. s.type = "CONNECTED" => v = "open"
      BY <2>4
    <3> QED BY <1>2, <2>4, <3>1, <3>2, ConnUntouched
  <2>8. \A j \in Ids : j = id \/ ~ LiveIn(s, j)
    BY <2>4 DEF LiveIn
  <2>9. OneSlot(k, id)
    BY <1>1, <1>3, <1>4, <1>5, <2>5, <2>6, <2>7, <2>8 DEF OneSlot
  <2> QED BY <2>1, <2>4, <2>5, <2>9
<1> QED BY <1>6, <1>7

(* The request of an id that was reserved changes no other slot that is    *)
(* reserved.                                                               *)
LEMMA OpenKept ==
  ASSUME IInv, Ctrl({"O"}) \/ Ctrl({"L"}),
         NEW id, id = Head(pipe).id, NEW k, k = HASH_ID(id), SlotsOnly(k)
  PROVE  ReservedKept(1)
<1>1. Opens(pipe[1]) /\ pipe[1] = Head(pipe)
  BY OpenReserved, CtrlBegins
<1> QED BY <1>1 DEF ReservedKept, SlotsOnly

-----------------------------------------------------------------------------

(* open_socket.                                                            *)
LEMMA CtrlOpenStep == IInv /\ CtrlOpen => IInv'
<1> SUFFICES ASSUME IInv, CtrlOpen PROVE IInv'
  OBVIOUS
<1>1. Ctrl({"O"})
  BY DEF CtrlOpen
<1>2. PICK id, k : id = Head(pipe).id /\ k = HASH_ID(id)
  OBVIOUS
<1>3. \/ /\ slot' = [slot EXCEPT ![k].type = "INVALID"]
         /\ report(id, "ERROR") /\ toclear' = clearing(id, TRUE)
         /\ failed' = failed
      \/ /\ new_fd(k, id, "CONNECTED")
         /\ report(id, "OPEN") /\ toclear' = toclear
      \/ /\ new_fd(k, id, "CONNECTING")
         /\ seen' = seen /\ toclear' = toclear
  BY <1>2 DEF CtrlOpen
<1>4. /\ TypeInv /\ SlotInv /\ ConnInv /\ PipeInv /\ PipeLeft(1)
      /\ alloc_id' = alloc_id /\ toclear = 0
      /\ id \in Ids /\ failed = "no" /\ k \in Slots
  BY <1>1, <1>2, CtrlBegins
<1>5. msg' = msg /\ wire' = wire /\ clean' = clean
  BY DEF CtrlOpen
<1>6. slot[k].type = "RESERVE" /\ slot[k].id = id /\ seen[id] = "no"
  BY <1>1, <1>2, OpenReserved DEF Untouched
<1>7. told(id, "ERROR") = "over" /\ told(id, "OPEN") = "open"
  BY <1>4, <1>6, Told
<1>8. PipeInv'
  BY <1>4, <1>5, PipeStep
<1>9. CASE /\ slot' = [slot EXCEPT ![k].type = "INVALID"]
           /\ report(id, "ERROR") /\ toclear' = clearing(id, TRUE)
           /\ failed' = failed
  <2>1. slot \in [Slots -> Socket] /\ slot[k] \in Socket
        /\ SlotOk(msg, k, slot[k], alloc_id) /\ seen \in [Ids -> Tellings]
        /\ wire \in [Ids -> Seq(Nat)] /\ clean \in SUBSET Ids
    BY <1>4 DEF TypeInv, SlotInv
  <2>2. PICK s : s = [slot[k] EXCEPT !.type = "INVALID"]
    OBVIOUS
  <2>3. /\ s \in Socket /\ s.type = "INVALID" /\ s.id = id
        /\ s.high = slot[k].high /\ s.low = slot[k].low
    BY <1>6, <2>1, <2>2 DEF Socket, Types
  <2>4. slot' = [slot EXCEPT ![k] = s]
    BY <1>4, <1>9, <2>1, <2>2
  <2>5. slot' \in [Slots -> Socket] /\ slot'[k] = s /\ SlotsOnly(k)
    BY <1>4, <2>1, <2>3, <2>4 DEF SlotsOnly
  <2>6. SlotOk(msg', k, s, alloc_id')
    BY <1>4, <1>5, <1>6, <2>1, <2>3 DEF SlotOk, LiveTypes
  <2>7. seen' = [seen EXCEPT ![id] = "over"]
    BY <1>7, <1>9 DEF report
  <2>8. seen' \in [Ids -> Tellings] /\ seen'[id] = "over" /\ ReportsOnly(id)
    BY <1>4, <1>5, <2>1, <2>7 DEF Tellings, ReportsOnly
  <2>9. \A j \in Ids : ~ LiveIn(s, j)
    BY <2>3 DEF LiveIn, LiveTypes
  <2>10. Conn(msg, id, wire[id], s, "over", id \in clean)
    <3>1. Written(msg, id, wire[id], id \in clean)
      BY <1>4, WrittenNow
    <3> QED BY <1>4, <2>9, <3>1, ConnMade
  <2>11. TakesOnly(id)
    BY <1>4, <1>5, MessagesKept
  <2>12. OneSlot(k, id)
    BY <1>2, <1>4, <1>5, <2>1, <2>5, <2>6, <2>8, <2>9, <2>10, <2>11
       DEF OneSlot
  <2>13. toclear' \in {0, id} /\ LowIsWhole' /\ ReservedKept(1)
    BY <1>1, <1>2, <1>4, <1>9, <2>5, Cleared, OpenKept DEF LowIsWhole
  <2> QED BY <1>1, <1>2, <1>8, <1>9, <2>3, <2>5, <2>12, <2>13, CtrlEnds
<1>10. ASSUME NEW type \in {"CONNECTED", "CONNECTING"}, NEW v,
              new_fd(k, id, type), seen' = [seen EXCEPT ![id] = v],
              v \in {"no", "open"}, type = "CONNECTED" => v = "open",
              toclear' = toclear
       PROVE  IInv'
  <2>1. Opening(k, id, type, v)
    BY <1>10 DEF Opening, Types, LiveTypes
  <2>2. /\ OneSlot(k, id)
        /\ \/ slot'[k] = slot[k] /\ failed' = "lists"
           \/ slot'[k].type = type /\ slot'[k].id = id /\ failed' = failed
    BY <1>1, <1>2, <1>4, <1>5, <2>1, NewFd
  <2>3. /\ toclear' \in {0, id}
        /\ slot'[k].type = "INVALID" => slot'[k] = slot[k]
        /\ slot'[k].type = "PACCEPT" => slot'[k] = slot[k]
    BY <1>4, <1>10, <2>2
  <2>4. LowIsWhole'
    BY <1>4, <2>2 DEF LowIsWhole
  <2>5. ReservedKept(1)
    BY <1>1, <1>2, <2>2, OpenKept DEF OneSlot
  <2> QED BY <1>1, <1>2, <1>8, <2>2, <2>3, <2>4, <2>5, CtrlEnds
<1>11. CASE /\ new_fd(k, id, "CONNECTED")
            /\ report(id, "OPEN") /\ toclear' = toclear
  <2>1. seen' = [seen EXCEPT ![id] = "open"]
    BY <1>7, <1>11 DEF report
  <2> QED BY <1>10, <1>11, <2>1
<1>12. CASE /\ new_fd(k, id, "CONNECTING")
            /\ seen' = seen /\ toclear' = toclear
  <2>1. seen' = [seen EXCEPT ![id] = "no"]
    BY <1>4, <1>6, <1>12 DEF TypeInv
  <2> QED BY <1>10, <1>12, <2>1
<1> QED BY <1>3, <1>9, <1>11, <1>12

(* listen_socket.                                                          *)
LEMMA CtrlListenStep == IInv /\ CtrlListen => IInv'
<1> SUFFICES ASSUME IInv, CtrlListen PROVE IInv'
  OBVIOUS
<1>1. Ctrl({"L"})
  BY DEF CtrlListen
<1>2. PICK id, k : id = Head(pipe).id /\ k = HASH_ID(id)
  OBVIOUS
<1>3. new_fd(k, id, "PLISTEN")
  BY <1>2 DEF CtrlListen
<1>4. /\ TypeInv /\ PipeInv /\ PipeLeft(1) /\ alloc_id' = alloc_id
      /\ id \in Ids /\ failed = "no" /\ k \in Slots /\ toclear = 0
  BY <1>1, <1>2, CtrlBegins
<1>5. /\ msg' = msg /\ wire' = wire /\ clean' = clean /\ seen' = seen
      /\ toclear' = toclear
  BY DEF CtrlListen
<1>6. seen[id] = "no"
  BY <1>1, <1>2, OpenReserved DEF Untouched
<1>7. seen' = [seen EXCEPT ![id] = "no"]
  BY <1>4, <1>5, <1>6 DEF TypeInv
<1>8. "PLISTEN" \in Types \ {"RESERVE"}
  BY DEF Types, LiveTypes
<1>9. /\ OneSlot(k, id)
      /\ \/ slot'[k] = slot[k] /\ failed' = "lists"
         \/ slot'[k].type = "PLISTEN" /\ slot'[k].id = id /\ failed' = failed
  <2>1. Opening(k, id, "PLISTEN", "no")
    BY <1>3, <1>7, <1>8 DEF Opening
  <2> QED BY <1>1, <1>2, <1>4, <1>5, <2>1, NewFd
<1>10. PipeInv' /\ LowIsWhole'
  BY <1>4, <1>5, <1>9, PipeStep DEF LowIsWhole
<1>11. ReservedKept(1)
  BY <1>1, <1>2, <1>9, OpenKept DEF OneSlot
<1>12. /\ toclear' \in {0, id}
       /\ slot'[k].type = "INVALID" => slot'[k] = slot[k]
       /\ slot'[k].type = "PACCEPT" => slot'[k] = slot[k]
  BY <1>4, <1>5, <1>9
<1> QED BY <1>1, <1>2, <1>9, <1>10, <1>11, <1>12, CtrlEnds

-----------------------------------------------------------------------------
(* The owner of id is told v, and the slot stays what it is.               *)
Telling(id, v) ==
  /\ seen' = [seen EXCEPT ![id] = v] /\ v \in {"no", "open", "over"}
  /\ LiveIn(slot[HASH_ID(id)], id) =>
       /\ v # "over"
       /\ slot[HASH_ID(id)].type = "CONNECTED" => v = "open"

(* A step that only tells the owner of id something in its place changes   *)
(* one slot and one id at most.                                            *)
LEMMA OnlyTold ==
  ASSUME TypeInv, SlotInv, ConnInv, NEW id \in Ids, NEW k, k = HASH_ID(id),
         slot' = slot, msg' = msg, wire' = wire, clean' = clean,
         alloc_id' = alloc_id, NEW v, Telling(id, v)
  PROVE  OneSlot(k, id)
<1>1. k \in Slots /\ SlotOk(msg, k, slot[k], alloc_id)
  BY SlotsOfIds DEF SlotInv
<1>2. seen' = [seen EXCEPT ![id] = v] /\ v \in {"no", "open", "over"}
      /\ (LiveIn(slot[k], id) =>
            v # "over" /\ (slot[k].type = "CONNECTED" => v = "open"))
  BY DEF Telling
<1>3. seen' \in [Ids -> Tellings] /\ seen'[id] = v /\ ReportsOnly(id)
  BY <1>2 DEF TypeInv, Tellings, ReportsOnly
<1>4. Conn(msg, id, wire[id], slot[k], seen[id], id \in clean)
  BY DEF ConnInv
<1>5. Conn(msg, id, wire[id], slot[k], v, id \in clean)
  BY <1>2, <1>4 DEF Conn, Served
<1>6. TakesOnly(id)
  BY MessagesKept
<1>7. /\ slot' \in [Slots -> Socket] /\ wire' \in [Ids -> Seq(Nat)]
      /\ clean' \in SUBSET Ids /\ SlotsOnly(k)
  BY DEF TypeInv, SlotsOnly
<1> QED BY <1>1, <1>3, <1>5, <1>6, <1>7 DEF OneSlot

(* A step that changes a slot which is not reserved leaves those that are. *)
LEMMA ReservedStay ==
  ASSUME NEW k, SlotsOnly(k), slot[k].type # "RESERVE", NEW d
  PROVE  ReservedKept(d)
BY DEF SlotsOnly, ReservedKept

(* start_socket.                                                           *)
LEMMA CtrlStartStep == IInv /\ CtrlStart => IInv'
<1> SUFFICES ASSUME IInv, CtrlStart PROVE IInv'
  OBVIOUS
<1>1. Ctrl({"S"})
  BY DEF CtrlStart
<1>2. PICK id, k : id = Head(pipe).id /\ k = HASH_ID(id)
  OBVIOUS
<1>3. PICK to : to = IF slot[k].type = "PACCEPT" THEN "CONNECTED" ELSE "LISTEN"
  OBVIOUS
<1>4. \/ /\ Stale(id)
         /\ report(id, "ERROR") /\ toclear' = clearing(id, TRUE)
         /\ UNCHANGED <<slot, failed>>
      \/ /\ ~Stale(id) /\ slot[k].type \in {"PACCEPT", "PLISTEN"}
         /\ \/ slot' = [slot EXCEPT ![k].type = to] /\ report(id, "OPEN")
               /\ UNCHANGED <<failed, toclear>>
            \/ force_close(k) /\ report(id, "ERROR")
               /\ toclear' = clearing(id, TRUE)
      \/ /\ ~Stale(id) /\ slot[k].type \notin {"PACCEPT", "PLISTEN"}
         /\ report(id, IF slot[k].type = "CONNECTED" THEN "OPEN" ELSE "none")
         /\ UNCHANGED <<slot, failed, toclear>>
  BY <1>2, <1>3, Zenon DEF CtrlStart
<1>5. /\ TypeInv /\ SlotInv /\ ConnInv /\ BatchInv /\ PipeInv /\ PipeLeft(1)
      /\ alloc_id' = alloc_id /\ id \in Ids /\ k \in Slots /\ failed = "no"
      /\ toclear = 0 /\ slot[k] \in Socket
  <2>1. /\ TypeInv /\ SlotInv /\ ConnInv /\ BatchInv /\ PipeInv /\ PipeLeft(1)
        /\ alloc_id' = alloc_id /\ id \in Ids /\ k \in Slots /\ failed = "no"
        /\ toclear = 0
    BY <1>1, <1>2, CtrlBegins
  <2> QED BY <2>1 DEF TypeInv
<1>6. msg' = msg /\ wire' = wire /\ clean' = clean
  BY DEF CtrlStart
<1>7. PipeInv' /\ TakesOnly(id)
  BY <1>5, <1>6, PipeStep, MessagesKept
<1>8. wire' \in [Ids -> Seq(Nat)] /\ clean' \in SUBSET Ids
      /\ slot \in [Slots -> Socket]
  BY <1>5, <1>6 DEF TypeInv
<1>9. Written(msg, id, wire[id], id \in clean) /\ seen[id] # "stray"
  BY <1>5, WrittenNow
<1>10. seen[id] \in Tellings /\ seen \in [Ids -> Tellings]
  BY <1>5 DEF TypeInv
<1>11. Stale(id) \/ (slot[k].id = id /\ slot[k].type # "INVALID")
  BY <1>2 DEF Stale
<1>12. CASE /\ Stale(id)
            /\ report(id, "ERROR") /\ toclear' = clearing(id, TRUE)
            /\ UNCHANGED <<slot, failed>>
  <2>1. Telling(id, "over")
    <3>1. ~ LiveIn(slot[HASH_ID(id)], id)
      BY <1>12 DEF Stale, LiveIn, LiveTypes
    <3>2. told(id, "ERROR") = "over"
      BY <1>5, Told
    <3> QED BY <1>12, <3>1, <3>2 DEF Telling, report
  <2>2. OneSlot(k, id)
    BY <1>2, <1>5, <1>6, <1>12, <2>1, OnlyTold
  <2>3. toclear' \in {0, id} /\ LowIsWhole' /\ ReservedKept(1)
        /\ slot'[k] = slot[k]
    BY <1>5, <1>12, Cleared DEF LowIsWhole, ReservedKept
  <2> QED BY <1>1, <1>2, <1>7, <2>2, <2>3, CtrlEnds
<1>13. CASE /\ ~Stale(id) /\ slot[k].type \notin {"PACCEPT", "PLISTEN"}
            /\ report(id, IF slot[k].type = "CONNECTED" THEN "OPEN" ELSE "none")
            /\ UNCHANGED <<slot, failed, toclear>>
  <2>1. LiveIn(slot[k], id) =>
          seen[id] # "over" /\ (slot[k].type = "CONNECTED" => seen[id] = "open")
    BY <1>2, <1>5, ServedNow DEF Served
  <2>2. PICK v : v = IF slot[k].type = "CONNECTED" THEN "open" ELSE seen[id]
    OBVIOUS
  <2>3. seen' = [seen EXCEPT ![id] = v]
    <3>1. CASE slot[k].type = "CONNECTED"
      <4>1. LiveIn(slot[k], id)
        BY <1>11, <1>13, <3>1 DEF LiveIn, LiveTypes
      <4>2. told(id, "OPEN") = "open"
        BY <1>5, <2>1, <4>1, Told
      <4> QED BY <1>13, <2>2, <3>1, <4>2 DEF report
    <3>2. CASE slot[k].type # "CONNECTED"
      <4>1. told(id, "none") = seen[id]
        BY <1>5, Told
      <4> QED BY <1>13, <2>2, <3>2, <4>1 DEF report
    <3> QED BY <3>1, <3>2
  <2>4. v \in {"no", "open", "over"}
    BY <1>9, <1>10, <2>2 DEF Tellings
  <2>5. LiveIn(slot[HASH_ID(id)], id) =>
          v # "over" /\ (slot[HASH_ID(id)].type = "CONNECTED" => v = "open")
    BY <1>2, <2>1, <2>2
  <2>6. Telling(id, v)
    BY <2>3, <2>4, <2>5 DEF Telling
  <2>7. OneSlot(k, id)
    BY <1>2, <1>5, <1>6, <1>13, <2>6, OnlyTold
  <2>8. toclear' \in {0, id} /\ LowIsWhole' /\ ReservedKept(1)
        /\ slot'[k] = slot[k]
    BY <1>5, <1>13 DEF LowIsWhole, ReservedKept
  <2> QED BY <1>1, <1>2, <1>7, <2>7, <2>8, CtrlEnds
<1>14. CASE /\ ~Stale(id) /\ slot[k].type \in {"PACCEPT", "PLISTEN"}
            /\ slot' = [slot EXCEPT ![k].type = to] /\ report(id, "OPEN")
            /\ UNCHANGED <<failed, toclear>>
  <2>1. LiveIn(slot[k], id) /\ slot[k].id = id
    BY <1>11, <1>14 DEF LiveIn, LiveTypes
  <2>2. Served(msg, id, wire[id], slot[k], seen[id], id \in clean)
    BY <1>2, <1>5, <2>1, ServedNow
  <2>3. seen' = [seen EXCEPT ![id] = "open"]
    <3>1. told(id, "OPEN") = "open"
      BY <1>5, <2>2, Told DEF Served
    <3> QED BY <1>14, <3>1 DEF report
  <2>4. PICK s : s = [slot[k] EXCEPT !.type = to]
    OBVIOUS
  <2>5. slot' = [slot EXCEPT ![k] = s]
    BY <1>14, <2>4
  <2>6. /\ s \in Socket /\ s.type = to /\ s.id = id
        /\ s.high = slot[k].high /\ s.low = slot[k].low
        /\ to \in {"CONNECTED", "LISTEN"}
    <3>1. to \in Types /\ to \in {"CONNECTED", "LISTEN"}
      BY <1>3 DEF Types, LiveTypes
    <3> QED BY <1>5, <2>1, <2>4, <3>1 DEF Socket
  <2>7. slot' \in [Slots -> Socket] /\ slot'[k] = s /\ SlotsOnly(k)
    BY <1>5, <1>8, <2>5, <2>6 DEF SlotsOnly
  <2>8. seen' \in [Ids -> Tellings] /\ seen'[id] = "open" /\ ReportsOnly(id)
    BY <1>5, <1>6, <1>10, <2>3 DEF ReportsOnly, Tellings
  <2>9. SlotOk(msg', k, s, alloc_id')
    <3>1. SlotOk(msg, k, slot[k], alloc_id)
      BY <1>5 DEF SlotInv
    <3>2. /\ s.id # 0 => HASH_ID(s.id) = k
          /\ s.type \in LiveTypes => s.id # 0
          /\ s.id <= alloc_id
          /\ s.high = <<>> /\ s.low = <<>>
      BY <1>14, <2>1, <2>6, <3>1 DEF SlotOk, LiveTypes
    <3> QED BY <1>5, <2>6, <3>2, SlotEmptied
  <2>10. Conn(msg', id, wire'[id], s, "open", id \in clean')
    <3>1. Served(msg, id, wire[id], s, "open", id \in clean)
      BY <2>2, <2>6 DEF Served
    <3> QED BY <1>6, <1>9, <3>1 DEF Conn
  <2>11. \A j \in Ids : j = id \/ ~ LiveIn(s, j)
    BY <2>6 DEF LiveIn
  <2>12. OneSlot(k, id)
    BY <1>2, <1>7, <1>8, <2>7, <2>8, <2>9, <2>10, <2>11 DEF OneSlot
  <2>13. ReservedKept(1)
    BY <1>14, <2>7, ReservedStay
  <2>14. /\ toclear' \in {0, id} /\ LowIsWhole'
         /\ slot'[k].type \notin {"INVALID", "PACCEPT"}
    BY <1>5, <1>14, <2>6, <2>7 DEF LowIsWhole
  <2> QED BY <1>1, <1>2, <1>7, <2>12, <2>13, <2>14, CtrlEnds
<1>15. CASE /\ ~Stale(id) /\ slot[k].type \in {"PACCEPT", "PLISTEN"}
            /\ force_close(k) /\ report(id, "ERROR")
            /\ toclear' = clearing(id, TRUE)
  <2>1. slot[k].id = id
    BY <1>11, <1>15
  <2>2. /\ slot' = [slot EXCEPT ![k] = Empty("INVALID", @.id)]
        /\ failed' = "no"
    BY <1>5, <1>15 DEF force_close
  <2>3. Written(msg', id, wire'[id], id \in clean')
    BY <1>6, <1>9
  <2>4. OneSlot(k, id) /\ slot'[k].type = "INVALID" /\ slot'[k].id = id
    BY <1>5, <1>6, <1>7, <1>8, <1>15, <2>1, <2>2, <2>3, WritesKept,
       CloseSlot
  <2>5. toclear' \in {0, id} /\ LowIsWhole'
    BY <1>15, <2>2, Cleared DEF LowIsWhole
  <2>6. ReservedKept(1)
    BY <1>15, <2>4, ReservedStay DEF OneSlot
  <2> QED BY <1>1, <1>2, <1>7, <1>15, <2>4, <2>5, <2>6, CtrlEnds
<1> QED BY <1>4, <1>12, <1>13, <1>14, <1>15, Zenon

-----------------------------------------------------------------------------
(* The message at the head of the pipe is taken or dropped.                *)
Marks(m, id, x) ==
  /\ m = pipe[1].m /\ id = pipe[1].id /\ x \in {"taken", "dropped"}
  /\ Sends(pipe[1]) /\ msg' = [msg EXCEPT ![m].st = x]

(* The message is one that is in the pipe, and no other is changed.        *)
LEMMA Marked ==
  ASSUME TypeInv, PipeInv, 1 \in 1..Len(pipe), NEW m, NEW id \in Ids, NEW x,
         Marks(m, id, x)
  PROVE  /\ m \in 1..Len(msg) /\ m \in Nat /\ msg[m].st = "pipe"
         /\ msg[m].cmd = pipe[1].cmd
         /\ \A v \in 1..Len(msg) : msg[v].st = "taken" => v < m
         /\ msg' \in Seq(Messages) /\ Len(msg') = Len(msg)
         /\ msg'[m].st = x /\ msg'[m].to = id
         /\ \A v \in 1..Len(msg) : v # m => msg'[v] = msg[v]
         /\ \A v \in 1..Len(msg) :
              msg'[v].to = msg[v].to /\ msg'[v].cmd = msg[v].cmd
<1>1. /\ m = pipe[1].m /\ id = pipe[1].id /\ x \in {"taken", "dropped"}
      /\ Sends(pipe[1]) /\ msg' = [msg EXCEPT ![m].st = x]
  BY DEF Marks
<1>2. InPipe(msg, pipe[1])
  BY <1>1 DEF PipeInv
<1>3. /\ m \in 1..Len(msg) /\ msg[m].st = "pipe" /\ msg[m].to = id
      /\ msg[m].cmd = pipe[1].cmd
      /\ \A v \in 1..Len(msg) : msg[v].st = "taken" => v < m
  BY <1>1, <1>2 DEF InPipe
<1>4. msg \in Seq(Messages) /\ Len(msg) \in Nat /\ m \in Nat
  BY <1>3 DEF TypeInv
<1>5. PICK e : e = [msg[m] EXCEPT !.st = x]
  OBVIOUS
<1>6. msg[m] \in Messages
  BY <1>3, <1>4
<1>7. /\ e \in Messages /\ e.st = x /\ e.to = msg[m].to
      /\ e.cmd = msg[m].cmd
  BY <1>1, <1>5, <1>6 DEF Messages
<1>8. msg' = [msg EXCEPT ![m] = e]
  BY <1>1, <1>5
<1>9. /\ msg' \in Seq(Messages) /\ Len(msg') = Len(msg) /\ msg'[m] = e
      /\ \A v \in 1..Len(msg) : v # m => msg'[v] = msg[v]
  BY <1>3, <1>4, <1>7, <1>8
<1> QED BY <1>3, <1>4, <1>7, <1>9

(* It is newer than all that were taken.                                   *)
LEMMA MarkedTakes ==
  ASSUME TypeInv, PipeInv, 1 \in 1..Len(pipe), NEW m, NEW id \in Ids, NEW x,
         Marks(m, id, x)
  PROVE  /\ Grown(msg, msg') /\ TakesOnly(id)
         /\ x = "taken" => Takes(msg, msg', m, id)
         /\ x = "dropped" => \A j \in Ids : \A v \in 1..Len(msg') :
              TakenFor(msg', v, j) => v \in 1..Len(msg) /\ TakenFor(msg, v, j)
<1>1. /\ m \in 1..Len(msg) /\ m \in Nat /\ msg[m].st = "pipe"
      /\ \A v \in 1..Len(msg) : msg[v].st = "taken" => v < m
      /\ msg' \in Seq(Messages) /\ Len(msg') = Len(msg)
      /\ msg'[m].st = x /\ msg'[m].to = id
      /\ \A v \in 1..Len(msg) : v # m => msg'[v] = msg[v]
      /\ \A v \in 1..Len(msg) :
           msg'[v].to = msg[v].to /\ msg'[v].cmd = msg[v].cmd
  BY Marked
<1>2. x \in {"taken", "dropped"} /\ msg \in Seq(Messages) /\ Len(msg) \in Nat
  BY DEF Marks, TypeInv
<1>3. Grown(msg, msg')
  BY <1>1, <1>2 DEF Grown
<1>4. ASSUME NEW j, NEW v \in 1..Len(msg'), TakenFor(msg', v, j),
             j # id \/ x # "taken"
      PROVE  v \in 1..Len(msg) /\ TakenFor(msg, v, j)
  <2>1. v # m
    BY <1>1, <1>4 DEF TakenFor
  <2> QED BY <1>1, <1>4, <2>1 DEF TakenFor
<1>5. TakesOnly(id)
  BY <1>1, <1>3, <1>4 DEF TakesOnly
<1>6. ASSUME NEW i \in 1..Len(msg'), TakenFor(msg', i, id)
      PROVE  i = m \/ TakenFor(msg, i, id)
  BY <1>1, <1>6 DEF TakenFor
<1>7. x = "taken" => Takes(msg, msg', m, id)
  BY <1>1, <1>2, <1>3, <1>6 DEF Takes
<1> QED BY <1>3, <1>4, <1>5, <1>7

(* What the lists need to know of it.                                      *)
LEMMA MarkedOne ==
  ASSUME TypeInv, PipeInv, 1 \in 1..Len(pipe), NEW m, NEW id \in Ids, NEW x,
         Marks(m, id, x)
  PROVE  /\ m \in 1..Len(msg) /\ msg[m].st = "pipe" /\ msg'[m].st # "pipe"
         /\ msg[m].cmd = pipe[1].cmd /\ msg' \in Seq(Messages)
<1>1. /\ m \in 1..Len(msg) /\ msg[m].st = "pipe" /\ msg'[m].st = x
      /\ msg[m].cmd = pipe[1].cmd /\ msg' \in Seq(Messages)
  BY Marked
<1> QED BY <1>1 DEF Marks

(* The messages left in the pipe are newer still.                          *)
LEMMA MarkedPipe ==
  ASSUME TypeInv, PipeInv, 1 \in 1..Len(pipe), PipeLeft(1), NEW m,
         NEW id \in Ids, NEW x, Marks(m, id, x)
  PROVE  PipeInv'
<1>1. /\ m \in 1..Len(msg) /\ m \in Nat /\ Len(msg') = Len(msg)
      /\ \A v \in 1..Len(msg) : v # m => msg'[v] = msg[v]
      /\ Sends(pipe[1]) /\ m = pipe[1].m
  BY Marked DEF Marks
<1>2. ASSUME NEW i \in 1..Len(pipe')
      PROVE  \E y \in 1..Len(pipe) : y = i + 1 /\ 1 < y /\ pipe'[i] = pipe[y]
  <2>1. i \in Nat /\ i + 1 \in 1..Len(pipe) /\ pipe'[i] = pipe[i + 1]
    BY LeftAt
  <2>2. i # 0
    OBVIOUS
  <2> QED BY <2>1, <2>2
<1>3. ASSUME NEW i \in 1..Len(pipe'), Sends(pipe'[i])
      PROVE  InPipe(msg', pipe'[i])
  <2>1. PICK y \in 1..Len(pipe) : 1 < y /\ pipe'[i] = pipe[y]
    BY <1>2
  <2>2. PICK r : r = pipe[y]
    OBVIOUS
  <2>3. m < r.m
    BY <1>1, <1>3, <2>1, <2>2 DEF PipeInv
  <2>4. InPipe(msg, r)
    BY <1>3, <2>1, <2>2 DEF PipeInv
  <2>5. r.m \in 1..Len(msg) /\ r.m # m /\ msg'[r.m] = msg[r.m]
    BY <1>1, <2>3, <2>4 DEF InPipe
  <2>6. ASSUME NEW v \in 1..Len(msg'), msg'[v].st = "taken" PROVE v < r.m
    <3>1. CASE v = m
      BY <2>3, <3>1
    <3>2. CASE v # m
      BY <1>1, <2>4, <2>6, <3>2 DEF InPipe
    <3> QED BY <3>1, <3>2
  <2>7. InPipe(msg', r)
    BY <1>1, <2>4, <2>5, <2>6 DEF InPipe
  <2> QED BY <2>1, <2>2, <2>7
<1>4. ASSUME NEW i \in 1..Len(pipe'), NEW j \in 1..Len(pipe'), i < j,
             Sends(pipe'[i]), Sends(pipe'[j])
      PROVE  pipe'[i].m < pipe'[j].m
  <2>1. PICK y \in 1..Len(pipe) : y = i + 1 /\ pipe'[i] = pipe[y]
    BY <1>2
  <2>2. PICK z \in 1..Len(pipe) : z = j + 1 /\ pipe'[j] = pipe[z]
    BY <1>2
  <2>3. i \in Nat /\ j \in Nat
    BY LeftAt
  <2>4. y < z
    BY <1>4, <2>1, <2>2, <2>3
  <2> QED BY <1>4, <2>1, <2>2, <2>4 DEF PipeInv
<1> QED BY <1>3, <1>4 DEF PipeInv

(* A slot is given a new value.                                            *)
LEMMA SlotSet ==
  ASSUME TypeInv, NEW k \in Slots, NEW s \in Socket,
         slot' = [slot EXCEPT ![k] = s]
  PROVE  slot' \in [Slots -> Socket] /\ slot'[k] = s /\ SlotsOnly(k)
BY DEF TypeInv, SlotsOnly

(* What was written stays so when messages are added or taken.             *)
LEMMA WrittenGrown ==
  ASSUME NEW q \in Seq(Messages), NEW r \in Seq(Messages), Grown(q, r),
         NEW id, NEW w \in Seq(Nat), Written(q, id, w, FALSE)
  PROVE  Written(r, id, w, FALSE)
<1>1. Len(q) \in Nat /\ Len(r) \in Nat /\ Len(q) <= Len(r)
  BY DEF Grown
<1>2. \A i \in 1..Len(w) : w[i] \in 1..Len(q)
  BY DEF Written
<1>3. Whole(r, w)
  BY <1>2, WholeGrown DEF Written
<1>4. \A i \in 1..Len(w) : w[i] \in 1..Len(r)
  BY <1>1, <1>2
<1> QED BY <1>3, <1>4 DEF Written

-----------------------------------------------------------------------------

(* A slot with one more message in a list is as it should be.              *)
LEMMA QueuedOk ==
  ASSUME NEW q \in Seq(Messages), NEW r \in Seq(Messages), Grown(q, r),
         NEW k, NEW n \in Int, NEW s \in Socket, SlotOk(q, k, s, n),
         NEW m \in 1..Len(q), q[m].st = "pipe", r[m].st # "pipe",
         NEW t \in Socket, Queues(q, m, s, t), t.id = s.id, t.write = s.write,
         s.type \in {"RESERVE", "CONNECTING", "CONNECTED"},
         s.type = "CONNECTED" => ~ nomore(s)
  PROVE  SlotOk(r, k, t, n)
<1>1. PICK l, y : l = s.low /\ y = t.low
  OBVIOUS
<1>2. l \in Seq(Nat) /\ s.id \in Int
  BY <1>1, SlotsOfIds DEF Socket
<1>3. SlotOk(r, k, s, n)
  BY <1>2, SlotGrown
<1>4. /\ Blocks(l, Len(l))
      /\ \A i \in 1..Len(l) : l[i] \in 1..Len(r) /\ r[l[i]].st # "pipe"
  BY <1>1, <1>3 DEF SlotOk
<1>5. \A i \in 1..Len(l) : l[i] # m
  BY <1>1 DEF SlotOk
<1>6. m \in Nat /\ m \in 1..Len(r)
  BY DEF Grown
<1>7. y = l \/ Behind(l, m, Size, y)
  BY <1>1 DEF Queues
<1>8. /\ Blocks(y, Len(y))
      /\ \A i \in 1..Len(y) : y[i] \in 1..Len(r) /\ r[y[i]].st # "pipe"
  <2>1. CASE y = l
    BY <1>4, <2>1
  <2>2. CASE Behind(l, m, Size, y)
    <3>1. Blocks(y, Len(y))
      BY <1>2, <1>4, <1>5, <1>6, <2>2, LowQueued
    <3>2. \A i \in 1..Len(y) : y[i] = m \/ (i \in 1..Len(l) /\ y[i] = l[i])
      BY <1>2, <1>4, <1>5, <1>6, <2>2, LowQueued
    <3> QED BY <1>4, <1>6, <3>1, <3>2
  <2> QED BY <1>7, <2>1, <2>2
<1>9. t.type = s.type
  BY DEF Queues
<1>10. /\ t.type = "CONNECTING" => t.write
       /\ t.type \in {"CONNECTED", "HALFCLOSE"} => t.write
  BY <1>3, <1>9 DEF SlotOk, nomore
<1>11. /\ t.id # 0 => HASH_ID(t.id) = k
       /\ t.type \in LiveTypes => t.id # 0
       /\ t.id <= n
  BY <1>3, <1>9 DEF SlotOk
<1> QED BY <1>1, <1>8, <1>9, <1>10, <1>11 DEF SlotOk

(* So is a slot whose first message was written in part: the rest is in    *)
(* the high list.                                                          *)
LEMMA DirectOk ==
  ASSUME NEW q, NEW k, NEW n, NEW t, t.id # 0, HASH_ID(t.id) = k, t.id <= n,
         t.type = "CONNECTED", t.low = <<>>, t.write \/ t.high = <<>>
  PROVE  SlotOk(q, k, t, n)
<1>1. Len(t.low) = 0
  OBVIOUS
<1>2. Blocks(t.low, Len(t.low))
  BY <1>1 DEF Blocks
<1>3. \A i \in 1..Len(t.low) : t.low[i] \in 1..Len(q) /\ q[t.low[i]].st # "pipe"
  BY <1>1
<1> QED BY <1>2, <1>3 DEF SlotOk, LiveTypes

(* What a request to send finds.                                           *)
LEMMA SendMarks ==
  ASSUME IInv, Ctrl({"D", "P"}), NEW x \in {"taken", "dropped"},
         NEW id, id = Head(pipe).id, NEW m, m = Head(pipe).m,
         msg' = [msg EXCEPT ![m].st = x]
  PROVE  Marks(m, id, x)
<1>1. pipe[1] = Head(pipe) /\ pipe[1].cmd \in {"D", "P"}
  BY CtrlBegins
<1> QED BY <1>1 DEF Marks, Sends

(* What such a request does to the messages.                               *)
LEMMA SendBegins ==
  ASSUME IInv, Ctrl({"D", "P"}), NEW id, id = Head(pipe).id, NEW m, NEW x,
         Marks(m, id, x)
  PROVE  /\ PipeInv' /\ TakesOnly(id) /\ Grown(msg, msg')
         /\ msg \in Seq(Messages) /\ msg' \in Seq(Messages)
         /\ m \in 1..Len(msg) /\ msg[m].st = "pipe" /\ msg'[m].st # "pipe"
         /\ msg[m].cmd = Head(pipe).cmd /\ msg[m].cmd \in {"D", "P"}
         /\ x = "taken" => Takes(msg, msg', m, id)
<1>1. /\ TypeInv /\ PipeInv /\ 1 \in 1..Len(pipe) /\ PipeLeft(1)
      /\ pipe[1] = Head(pipe) /\ id \in Ids /\ pipe[1].cmd \in {"D", "P"}
  BY CtrlBegins
<1>2. Marks(m, id, x)
  OBVIOUS
<1>3. PipeInv' /\ TakesOnly(id) /\ Grown(msg, msg')
  BY <1>1, <1>2, MarkedPipe, MarkedTakes
<1>4. x = "taken" => Takes(msg, msg', m, id)
  BY <1>1, <1>2, MarkedTakes
<1>5. /\ m \in 1..Len(msg) /\ msg[m].st = "pipe" /\ msg'[m].st # "pipe"
      /\ msg[m].cmd = pipe[1].cmd /\ msg' \in Seq(Messages)
  BY <1>1, <1>2, MarkedOne
<1> QED BY <1>1, <1>2, <1>3, <1>4, <1>5 DEF TypeInv

(* send_socket drops the message.                                          *)
LEMMA SendRefused ==
  ASSUME IInv, Ctrl({"D", "P"}), NEW id, id = Head(pipe).id,
         NEW m, Marks(m, id, "dropped"),
         slot' = slot, wire' = wire, seen' = seen, clean' = clean,
         toclear' = toclear, failed' = failed
  PROVE  IInv'
<1>1. PICK k : k = HASH_ID(id)
  OBVIOUS
<1>2. /\ TypeInv /\ SlotInv /\ ConnInv /\ PipeInv /\ 1 \in 1..Len(pipe)
      /\ id \in Ids /\ k \in Slots /\ alloc_id' = alloc_id /\ toclear = 0
      /\ failed = "no"
  BY <1>1, CtrlBegins
<1>3. /\ Marks(m, id, "dropped") /\ PipeInv' /\ TakesOnly(id)
      /\ Grown(msg, msg')
      /\ msg \in Seq(Messages) /\ msg' \in Seq(Messages)
  BY SendBegins
<1>4. \A v \in 1..Len(msg') :
        TakenFor(msg', v, id) => v \in 1..Len(msg) /\ TakenFor(msg, v, id)
  BY <1>2, <1>3, MarkedTakes
<1>5. /\ slot[k] \in Socket /\ SlotOk(msg, k, slot[k], alloc_id)
      /\ wire[id] \in Seq(Nat) /\ alloc_id \in Int
      /\ Conn(msg, id, wire[id], slot[k], seen[id], id \in clean)
  BY <1>1, <1>2, SlotsOfIds DEF TypeInv, SlotInv, ConnInv
<1>6. Conn(msg', id, wire[id], slot[k], seen[id], id \in clean)
  BY <1>3, <1>4, <1>5, ConnGrown
<1>7. SlotOk(msg', k, slot[k], alloc_id)
  <2>1. slot[k].id \in Int
    BY <1>5, SlotsOfIds DEF Socket
  <2>2. alloc_id <= alloc_id
    BY <1>5
  <2> QED BY <1>3, <1>5, <2>1, <2>2, SlotGrown
<1>8. /\ slot' \in [Slots -> Socket] /\ wire' \in [Ids -> Seq(Nat)]
      /\ seen' \in [Ids -> Tellings] /\ clean' \in SUBSET Ids
      /\ SlotsOnly(k) /\ ReportsOnly(id)
  BY <1>2 DEF TypeInv, SlotsOnly, ReportsOnly
<1>9. OneSlot(k, id)
  BY <1>1, <1>2, <1>3, <1>6, <1>7, <1>8 DEF OneSlot
<1>10. toclear' \in {0, id} /\ LowIsWhole' /\ ReservedKept(1)
       /\ slot'[k] = slot[k]
  BY <1>2 DEF LowIsWhole, ReservedKept
<1> QED BY <1>1, <1>3, <1>9, <1>10, CtrlEnds

-----------------------------------------------------------------------------
(* The message waits in one of the lists.                                  *)
Queuing(k, id, m, x) ==
  /\ slot[k].id = id
  /\ slot[k].type \in {"RESERVE", "CONNECTING", "CONNECTED"}
  /\ slot[k].type = "CONNECTED" => ~ nomore(slot[k])
  /\ x \in {"taken", "dropped"} /\ (x = "taken" <=> slot[k].type # "RESERVE")
  /\ slot' = IF Head(pipe).cmd = "P"
             THEN [slot EXCEPT ![k].low = @ \o bytes(m)]
             ELSE [slot EXCEPT ![k].high = @ \o bytes(m)]
  /\ wire' = wire /\ seen' = seen /\ clean' = clean
  /\ toclear' = toclear /\ failed' = failed

(* send_socket puts the message into a list.                               *)
LEMMA SendQueued ==
  ASSUME IInv, Ctrl({"D", "P"}), NEW id, id = Head(pipe).id, NEW m, NEW x,
         Marks(m, id, x), NEW k, k = HASH_ID(id), Queuing(k, id, m, x)
  PROVE  IInv'
<1>1. /\ TypeInv /\ SlotInv /\ ConnInv /\ PipeInv
      /\ id \in Ids /\ k \in Slots /\ alloc_id' = alloc_id /\ toclear = 0
      /\ failed = "no"
  BY CtrlBegins
<1>2. /\ Marks(m, id, x) /\ PipeInv' /\ TakesOnly(id) /\ Grown(msg, msg')
      /\ msg \in Seq(Messages) /\ msg' \in Seq(Messages)
      /\ m \in 1..Len(msg) /\ msg[m].st = "pipe" /\ msg'[m].st # "pipe"
      /\ msg[m].cmd = Head(pipe).cmd /\ msg[m].cmd \in {"D", "P"}
      /\ x = "taken" => Takes(msg, msg', m, id)
  BY SendBegins
<1>3. m \in Nat /\ Size \in Nat
  <2>1. m \in Nat
    <3>1. m \in 1..Len(msg)
      BY <1>2
    <3> QED BY <3>1
  <2> QED BY <2>1, SizeIsNat
<1>4. PICK s \in Socket : s = slot[k]
  BY <1>1 DEF TypeInv
<1>21. /\ s.id = id /\ s.type \in {"RESERVE", "CONNECTING", "CONNECTED"}
       /\ s.type = "CONNECTED" => ~ nomore(s)
       /\ x \in {"taken", "dropped"} /\ (x = "taken" <=> s.type # "RESERVE")
       /\ wire' = wire /\ seen' = seen /\ clean' = clean
       /\ toclear' = toclear /\ failed' = failed
  BY <1>4 DEF Queuing
<1>5. s.high \in Seq(Nat) /\ s.low \in Seq(Nat)
  BY DEF Socket
<1>6. PICK y, z : y = s.low \o bytes(m) /\ z = s.high \o bytes(m)
  OBVIOUS
<1>7. Behind(s.low, m, Size, y) /\ Behind(s.high, m, Size, z)
  BY <1>3, <1>5, <1>6, PutBehind DEF bytes
<1>8. y \in Seq(Nat) /\ z \in Seq(Nat)
  BY <1>7 DEF Behind
<1>9. PICK t : t = IF Head(pipe).cmd = "P" THEN [s EXCEPT !.low = y]
                                           ELSE [s EXCEPT !.high = z]
  OBVIOUS
<1>10. /\ t \in Socket /\ t.id = s.id /\ t.write = s.write /\ t.type = s.type
       /\ Queues(msg, m, s, t)
  <2>1. CASE Head(pipe).cmd = "P"
    <3>1. t = [s EXCEPT !.low = y]
      BY <1>9, <2>1
    <3>2. /\ t \in Socket /\ t.id = s.id /\ t.write = s.write
          /\ t.type = s.type /\ t.high = s.high /\ t.low = y
      BY <1>8, <3>1 DEF Socket
    <3> QED BY <1>2, <1>7, <2>1, <3>2 DEF Queues
  <2>2. CASE Head(pipe).cmd # "P"
    <3>1. t = [s EXCEPT !.high = z]
      BY <1>9, <2>2
    <3>2. /\ t \in Socket /\ t.id = s.id /\ t.write = s.write
          /\ t.type = s.type /\ t.low = s.low /\ t.high = z
      BY <1>8, <3>1 DEF Socket
    <3> QED BY <1>2, <1>7, <2>2, <3>2 DEF Queues
  <2> QED BY <2>1, <2>2
<1>11. slot' = [slot EXCEPT ![k] = t]
  BY <1>4, <1>6, <1>9 DEF Queuing
<1>12. slot' \in [Slots -> Socket] /\ slot'[k] = t /\ SlotsOnly(k)
  BY <1>1, <1>10, <1>11, SlotSet
<1>13. SlotOk(msg', k, t, alloc_id)
  <2>1. SlotOk(msg, k, s, alloc_id) /\ alloc_id \in Int
    BY <1>1, <1>4, SlotsOfIds DEF SlotInv, TypeInv
  <2> QED BY <1>2, <1>10, <1>21, <2>1, QueuedOk
<1>14. /\ Written(msg, id, wire[id], id \in clean) /\ seen[id] # "stray"
       /\ wire[id] \in Seq(Nat)
  BY <1>1, WrittenNow DEF TypeInv
<1>15. Conn(msg', id, wire[id], t, seen[id], id \in clean)
  <2>1. CASE x = "dropped"
    <3>1. \A v \in 1..Len(msg') :
            TakenFor(msg', v, id) => v \in 1..Len(msg) /\ TakenFor(msg, v, id)
      BY <1>1, <1>2, <2>1, CtrlBegins, MarkedTakes
    <3>2. Conn(msg, id, wire[id], s, seen[id], id \in clean)
      BY <1>1, <1>4 DEF ConnInv
    <3>3. Conn(msg', id, wire[id], s, seen[id], id \in clean)
      BY <1>2, <1>14, <3>1, <3>2, ConnGrown
    <3>4. ~ LiveIn(t, id)
      BY <1>10, <1>21, <2>1 DEF LiveIn, LiveTypes
    <3> QED BY <1>14, <3>3, <3>4, ConnOver
  <2>2. CASE x = "taken"
    <3>1. LiveIn(s, id)
      BY <1>21, <2>2 DEF LiveIn, LiveTypes
    <3>2. Served(msg, id, wire[id], s, seen[id], id \in clean)
      BY <1>1, <1>4, <3>1, ServedNow
    <3>3. Takes(msg, msg', m, id)
      BY <1>2, <2>2
    <3>4. Served(msg', id, wire[id], t, seen[id], id \in clean)
      BY <1>10, <1>14, <3>2, <3>3, ConnQueued
    <3>5. ~ (id \in clean)
      BY <3>2 DEF Served
    <3>6. Written(msg', id, wire[id], FALSE)
      <4>1. Written(msg, id, wire[id], FALSE)
        BY <1>14, <3>5 DEF Written
      <4> QED BY <1>2, <1>14, <4>1, WrittenGrown
    <3>7. Written(msg', id, wire[id], id \in clean)
      BY <3>5, <3>6 DEF Written
    <3> QED BY <1>14, <3>4, <3>7, ConnMade
  <2> QED BY <1>21, <2>1, <2>2
<1>16. /\ wire' \in [Ids -> Seq(Nat)] /\ seen' \in [Ids -> Tellings]
       /\ clean' \in SUBSET Ids /\ ReportsOnly(id)
  BY <1>1, <1>21 DEF TypeInv, ReportsOnly
<1>17. \A j \in Ids : j = id \/ ~ LiveIn(t, j)
  BY <1>10, <1>21 DEF LiveIn
<1>18. OneSlot(k, id)
  BY <1>1, <1>2, <1>12, <1>13, <1>15, <1>16, <1>17, <1>21 DEF OneSlot
<1>19. ReservedKept(1)
  BY <1>4, <1>10, <1>12 DEF ReservedKept, SlotsOnly
<1>20. /\ toclear' \in {0, id} /\ LowIsWhole'
       /\ slot'[k].type \notin {"INVALID", "PACCEPT"}
  BY <1>1, <1>10, <1>12, <1>21 DEF LowIsWhole
<1> QED BY <1>2, <1>18, <1>19, <1>20, CtrlEnds

-----------------------------------------------------------------------------
(* The first bytes are written at once.                                    *)
Writing(k, id, m, n) ==
  /\ slot[k].id = id /\ slot[k].type = "CONNECTED" /\ nomore(slot[k])
  /\ n \in 0..Size
  /\ wire' = [wire EXCEPT ![id] = @ \o [i \in 1..n |-> m]]
  /\ slot' = [slot EXCEPT ![k].high = @ \o [i \in 1..(Size - n) |-> m],
                          ![k].write = @ \/ n < Size]
  /\ seen' = seen /\ clean' = clean /\ toclear' = toclear /\ failed' = failed

(* send_socket writes what the connection takes, and keeps the rest.       *)
LEMMA SendWritten ==
  ASSUME IInv, Ctrl({"D", "P"}), NEW id, id = Head(pipe).id, NEW m,
         Marks(m, id, "taken"), NEW k, k = HASH_ID(id), NEW n,
         Writing(k, id, m, n)
  PROVE  IInv'
<1>1. /\ TypeInv /\ SlotInv /\ ConnInv /\ PipeInv
      /\ id \in Ids /\ k \in Slots /\ alloc_id' = alloc_id /\ toclear = 0
      /\ failed = "no"
  BY CtrlBegins
<1>2. /\ PipeInv' /\ TakesOnly(id) /\ Grown(msg, msg')
      /\ msg \in Seq(Messages) /\ msg' \in Seq(Messages)
      /\ m \in 1..Len(msg) /\ Takes(msg, msg', m, id)
  BY SendBegins
<1>3. m \in Nat /\ Size \in Nat
  <2>1. m \in Nat
    <3>1. m \in 1..Len(msg)
      BY <1>2
    <3> QED BY <3>1
  <2> QED BY <2>1, SizeIsNat
<1>4. PICK s \in Socket : s = slot[k]
  BY <1>1 DEF TypeInv
<1>5. /\ s.id = id /\ s.type = "CONNECTED" /\ nomore(s) /\ n \in 0..Size
      /\ seen' = seen /\ clean' = clean
      /\ toclear' = toclear /\ failed' = failed
  BY <1>4 DEF Writing
<1>6. s.high = <<>> /\ s.low = <<>>
  BY <1>5 DEF nomore
<1>7. n \in Nat /\ Size - n \in Nat
  BY <1>3, <1>5
<1>8. PICK w \in Seq(Nat) : w = wire[id]
  BY <1>1 DEF TypeInv
<1>9. PICK v, x : /\ v = w \o [i \in 1..n |-> m]
                  /\ x = <<>> \o [i \in 1..(Size - n) |-> m]
  OBVIOUS
<1>10. Behind(w, m, n, v) /\ Behind(<<>>, m, Size - n, x)
  <2>1. <<>> \in Seq(Nat)
    OBVIOUS
  <2>2. Behind(w, m, n, v)
    BY <1>3, <1>7, <1>9, PutBehind
  <2>3. Behind(<<>>, m, Size - n, x)
    BY <1>3, <1>7, <1>9, <2>1, PutBehind
  <2> QED BY <2>2, <2>3
<1>11. v \in Seq(Nat) /\ x \in Seq(Nat) /\ (~ (n < Size) => x = <<>>)
  <2>1. v \in Seq(Nat) /\ x \in Seq(Nat) /\ Len(x) = Len(<<>>) + (Size - n)
    BY <1>10 DEF Behind
  <2>2. ~ (n < Size) => Len(x) = 0
    BY <1>3, <1>5, <2>1
  <2> QED BY <2>1, <2>2
<1>12. PICK t : t = [s EXCEPT !.high = x, !.write = (s.write \/ n < Size)]
  OBVIOUS
<1>13. /\ t \in Socket /\ t.id = id /\ t.type = "CONNECTED" /\ t.low = <<>>
       /\ t.high = x /\ t.write = (s.write \/ n < Size)
  BY <1>5, <1>6, <1>11, <1>12 DEF Socket
<1>14. slot' = [slot EXCEPT ![k] = t]
  <2>1. PICK c, b : c = [i \in 1..(Size - n) |-> m] /\ b = (n < Size)
    OBVIOUS
  <2>2. slot' = [slot EXCEPT ![k].high = @ \o c, ![k].write = @ \/ b]
    BY <2>1 DEF Writing
  <2>3. slot \in [Slots -> Socket] /\ s.high \o c = x
    BY <1>1, <1>6, <1>9, <2>1 DEF TypeInv
  <2>4. t = [s EXCEPT !.high = s.high \o c, !.write = (s.write \/ b)]
    BY <1>12, <2>1, <2>3
  <2>5. PICK f : f = [slot EXCEPT ![k] = [s EXCEPT !.high = s.high \o c]]
    OBVIOUS
  <2>6. slot' = [f EXCEPT ![k].write = @ \/ b]
    BY <1>4, <2>2, <2>5
  <2>7. f[k] = [s EXCEPT !.high = s.high \o c]
    BY <1>1, <2>3, <2>5
  <2>8. [f EXCEPT ![k].write = @ \/ b] = [slot EXCEPT ![k] = t]
    BY <1>1, <2>3, <2>4, <2>5, <2>7 DEF Socket
  <2> QED BY <2>6, <2>8
<1>15. slot' \in [Slots -> Socket] /\ slot'[k] = t /\ SlotsOnly(k)
  BY <1>1, <1>13, <1>14, SlotSet
<1>16. SlotOk(msg', k, t, alloc_id')
  <2>1. id # 0 /\ id <= alloc_id
    BY <1>1, <1>4, <1>5, SlotsOfIds DEF SlotInv, SlotOk
  <2>2. t.write \/ t.high = <<>>
    BY <1>11, <1>13
  <2> QED BY <1>1, <1>13, <2>1, <2>2, DirectOk
<1>17. /\ Written(msg, id, w, id \in clean) /\ seen[id] # "stray"
       /\ Served(msg, id, w, s, seen[id], id \in clean)
  <2>1. LiveIn(s, id)
    BY <1>5 DEF LiveIn, LiveTypes
  <2> QED BY <1>1, <1>4, <1>8, <2>1, WrittenNow, ServedNow
<1>18. ~ (id \in clean)
  BY <1>17 DEF Served
<1>19. /\ Written(msg', id, v, FALSE)
       /\ Served(msg', id, v, t, seen[id], id \in clean)
  <2>1. Behind(<<>>, m, Size - n, t.high) /\ t.low = <<>> /\ t.type = s.type
    BY <1>5, <1>10, <1>13
  <2> QED BY <1>2, <1>5, <1>10, <1>17, <2>1, ConnDirect
<1>20. Written(msg', id, v, id \in clean)
  BY <1>18, <1>19 DEF Written
<1>21. Conn(msg', id, v, t, seen[id], id \in clean)
  BY <1>17, <1>19, <1>20, ConnMade
<1>22. wire' = [wire EXCEPT ![id] = v]
  BY <1>8, <1>9 DEF Writing
<1>23. /\ wire' \in [Ids -> Seq(Nat)] /\ seen' \in [Ids -> Tellings]
       /\ clean' \in SUBSET Ids /\ ReportsOnly(id) /\ wire'[id] = v
  BY <1>1, <1>5, <1>11, <1>22 DEF TypeInv, ReportsOnly
<1>24. \A j \in Ids : j = id \/ ~ LiveIn(t, j)
  BY <1>13 DEF LiveIn
<1>25. OneSlot(k, id)
  BY <1>1, <1>2, <1>5, <1>15, <1>16, <1>21, <1>23, <1>24 DEF OneSlot
<1>26. ReservedKept(1)
  BY <1>4, <1>5, <1>15, ReservedStay
<1>27. /\ toclear' \in {0, id} /\ LowIsWhole'
       /\ slot'[k].type \notin {"INVALID", "PACCEPT"}
  BY <1>1, <1>5, <1>13, <1>15 DEF LowIsWhole
<1> QED BY <1>2, <1>25, <1>26, <1>27, CtrlEnds

(* The connection fails at the first write.                                *)
LEMMA SendFailed ==
  ASSUME IInv, Ctrl({"D", "P"}), NEW id, id = Head(pipe).id, NEW m,
         Marks(m, id, "taken"), NEW k, k = HASH_ID(id),
         slot[k].id = id, slot[k].type = "CONNECTED",
         force_close(k), report(id, "CLOSE"), toclear' = clearing(id, TRUE),
         wire' = wire, clean' = clean
  PROVE  IInv'
<1>1. /\ TypeInv /\ SlotInv /\ ConnInv /\ PipeInv
      /\ id \in Ids /\ k \in Slots /\ alloc_id' = alloc_id /\ failed = "no"
  BY CtrlBegins
<1>2. /\ PipeInv' /\ TakesOnly(id) /\ Grown(msg, msg')
      /\ msg \in Seq(Messages) /\ msg' \in Seq(Messages)
  BY SendBegins
<1>3. /\ slot' = [slot EXCEPT ![k] = Empty("INVALID", @.id)] /\ failed' = "no"
  BY <1>1 DEF force_close
<1>4. LiveIn(slot[k], id)
  BY DEF LiveIn, LiveTypes
<1>5. /\ Written(msg, id, wire[id], id \in clean) /\ wire[id] \in Seq(Nat)
      /\ ~ (id \in clean)
  BY <1>1, <1>4, WrittenNow, ServedNow DEF Served, TypeInv
<1>6. Written(msg', id, wire[id], FALSE)
  <2>1. Written(msg, id, wire[id], FALSE)
    BY <1>5 DEF Written
  <2> QED BY <1>2, <1>5, <2>1, WrittenGrown
<1>7. Written(msg', id, wire'[id], id \in clean')
  BY <1>5, <1>6 DEF Written
<1>8. WritesOnly(id)
  BY <1>1, WritesKept
<1>9. OneSlot(k, id) /\ slot'[k].type = "INVALID" /\ slot'[k].id = id
  BY <1>1, <1>2, <1>3, <1>7, <1>8, CloseSlot
<1>10. ReservedKept(1)
  BY <1>9, ReservedStay DEF OneSlot
<1>11. toclear' \in {0, id} /\ LowIsWhole'
  BY <1>3, Cleared DEF LowIsWhole
<1> QED BY <1>2, <1>9, <1>10, <1>11, CtrlEnds

-----------------------------------------------------------------------------

(* send_socket, in each of its outcomes.                                   *)
LEMMA CtrlSendStep == IInv /\ CtrlSend => IInv'
<1> SUFFICES ASSUME IInv, CtrlSend PROVE IInv'
  OBVIOUS
<1>1. Ctrl({"D", "P"}) /\ clean' = clean
  BY DEF CtrlSend
<1> DEFINE id == Head(pipe).id
           k == HASH_ID(id)
           m == Head(pipe).m
           s == slot[k]
           refused == Stale(id) \/ s.type \in {"HALFCLOSE", "PACCEPT", "PLISTEN",
                                               "LISTEN"}
           direct == send_buffer_empty(s) /\ s.type = "CONNECTED"
<1>2. id = Head(pipe).id /\ k = HASH_ID(id) /\ m = Head(pipe).m
  OBVIOUS
<1>3. s = slot[k]
  OBVIOUS
<1>4. msg' = [msg EXCEPT ![m].st = IF refused \/ s.type = "RESERVE"
                                   THEN "dropped" ELSE "taken"]
  BY Zenon DEF CtrlSend
<1>5. \/ refused /\ UNCHANGED <<slot, wire, seen, toclear, failed>>
      \/ /\ ~refused /\ direct
         /\ \E n \in 0..Size :
              /\ wire' = [wire EXCEPT ![id] = @ \o [i \in 1..n |-> m]]
              /\ slot' = [slot EXCEPT
                   ![k].high = @ \o [i \in 1..(Size - n) |-> m],
                   ![k].write = @ \/ n < Size]
         /\ UNCHANGED <<seen, toclear, failed>>
      \/ /\ ~refused /\ direct
         /\ force_close(k) /\ report(id, "CLOSE")
         /\ toclear' = clearing(id, TRUE) /\ UNCHANGED wire
      \/ /\ ~refused /\ ~direct
         /\ slot' = IF Head(pipe).cmd = "P"
                    THEN [slot EXCEPT ![k].low = @ \o bytes(m)]
                    ELSE [slot EXCEPT ![k].high = @ \o bytes(m)]
         /\ UNCHANGED <<wire, seen, toclear, failed>>
  BY Zenon DEF CtrlSend
<1> HIDE DEF id, k, m, s
<1>6. /\ TypeInv /\ id \in Ids /\ k \in Slots
  BY <1>1, <1>2, CtrlBegins
<1>7. s \in Socket /\ s.type \in Types
  BY <1>3, <1>6 DEF TypeInv, Socket
<1>8. ~ refused => s.id = id /\ s.type \in {"RESERVE", "CONNECTING", "CONNECTED"}
  BY <1>2, <1>3, <1>7 DEF Stale, Types, LiveTypes
<1>9. direct <=> (nomore(s) /\ s.type = "CONNECTED")
  BY DEF send_buffer_empty
<1> HIDE DEF refused, direct
<1>10. CASE refused /\ UNCHANGED <<slot, wire, seen, toclear, failed>>
  <2>1. msg' = [msg EXCEPT ![m].st = "dropped"]
    BY <1>4, <1>10
  <2>2. Marks(m, id, "dropped")
    BY <1>1, <1>2, <2>1, SendMarks
  <2> QED BY <1>1, <1>2, <1>10, <2>2, SendRefused
<1>11. CASE /\ ~refused /\ direct
            /\ \E n \in 0..Size :
                 /\ wire' = [wire EXCEPT ![id] = @ \o [i \in 1..n |-> m]]
                 /\ slot' = [slot EXCEPT
                      ![k].high = @ \o [i \in 1..(Size - n) |-> m],
                      ![k].write = @ \/ n < Size]
            /\ UNCHANGED <<seen, toclear, failed>>
  <2>1. s.type = "CONNECTED" /\ nomore(s) /\ s.id = id
    BY <1>8, <1>9, <1>11
  <2>2. msg' = [msg EXCEPT ![m].st = "taken"]
    BY <1>4, <1>11, <2>1
  <2>3. Marks(m, id, "taken")
    BY <1>1, <1>2, <2>2, SendMarks
  <2>4. PICK n \in 0..Size :
          /\ wire' = [wire EXCEPT ![id] = @ \o [i \in 1..n |-> m]]
          /\ slot' = [slot EXCEPT
               ![k].high = @ \o [i \in 1..(Size - n) |-> m],
               ![k].write = @ \/ n < Size]
    BY <1>11, Zenon
  <2>5. Writing(k, id, m, n)
    BY <1>1, <1>3, <1>11, <2>1, <2>4, Zenon DEF Writing
  <2> QED BY <1>1, <1>2, <2>3, <2>5, SendWritten
<1>12. CASE /\ ~refused /\ direct
            /\ force_close(k) /\ report(id, "CLOSE")
            /\ toclear' = clearing(id, TRUE) /\ UNCHANGED wire
  <2>1. s.type = "CONNECTED" /\ nomore(s) /\ s.id = id
    BY <1>8, <1>9, <1>12
  <2>2. msg' = [msg EXCEPT ![m].st = "taken"]
    BY <1>4, <1>12, <2>1
  <2>3. Marks(m, id, "taken")
    BY <1>1, <1>2, <2>2, SendMarks
  <2>4. slot[k].type = "CONNECTED" /\ slot[k].id = id
    BY <1>3, <2>1
  <2> QED BY <1>1, <1>2, <1>12, <2>3, <2>4, SendFailed
<1>13. CASE /\ ~refused /\ ~direct
            /\ slot' = IF Head(pipe).cmd = "P"
                       THEN [slot EXCEPT ![k].low = @ \o bytes(m)]
                       ELSE [slot EXCEPT ![k].high = @ \o bytes(m)]
            /\ UNCHANGED <<wire, seen, toclear, failed>>
  <2>1. PICK x : x = IF s.type = "RESERVE" THEN "dropped" ELSE "taken"
    OBVIOUS
  <2>2. msg' = [msg EXCEPT ![m].st = x]
    BY <1>4, <1>13, <2>1
  <2>3. x \in {"taken", "dropped"} /\ (x = "taken" <=> s.type # "RESERVE")
    BY <2>1
  <2>4. Marks(m, id, x)
    BY <1>1, <1>2, <2>2, <2>3, SendMarks
  <2>5. /\ s.id = id /\ s.type \in {"RESERVE", "CONNECTING", "CONNECTED"}
        /\ s.type = "CONNECTED" => ~ nomore(s)
    BY <1>8, <1>9, <1>13
  <2>6. Queuing(k, id, m, x)
    BY <1>1, <1>3, <1>13, <2>3, <2>5, Zenon DEF Queuing
  <2> QED BY <1>1, <1>2, <2>4, <2>6, SendQueued
<1> QED BY <1>5, <1>10, <1>11, <1>12, <1>13, Zenon

-----------------------------------------------------------------------------
(* A close request ends the socket, or waits for the lists to empty.       *)
LEMMA CloseEnds ==
  ASSUME IInv, Ctrl({"K"}), NEW id, id = Head(pipe).id, NEW k,
         k = HASH_ID(id), slot[k].id = id, msg' = msg,
         force_close(k), report(id, "CLOSE"), toclear' = clearing(id, TRUE),
         WritesOnly(id), Written(msg, id, wire'[id], id \in clean')
  PROVE  IInv'
<1>1. /\ TypeInv /\ SlotInv /\ ConnInv /\ PipeInv /\ PipeLeft(1)
      /\ id \in Ids /\ k \in Slots /\ alloc_id' = alloc_id /\ failed = "no"
  BY CtrlBegins
<1>2. TakesOnly(id) /\ PipeInv'
  BY <1>1, MessagesKept, PipeStep
<1>3. slot' = [slot EXCEPT ![k] = Empty("INVALID", @.id)]
      /\ (slot[k].type # "RESERVE" \/ failed' # "no") /\ failed' # "uncomplete"
  BY <1>1 DEF force_close
<1>4. Written(msg', id, wire'[id], id \in clean')
  OBVIOUS
<1>5. OneSlot(k, id) /\ slot'[k].type = "INVALID" /\ slot'[k].id = id
  BY <1>1, <1>2, <1>3, <1>4, CloseSlot
<1>6. failed' = "no" => ReservedKept(1)
  BY <1>3, <1>5, ReservedStay DEF OneSlot
<1>7. toclear' \in {0, id} /\ LowIsWhole'
  BY <1>3, Cleared DEF LowIsWhole
<1> QED BY <1>2, <1>5, <1>6, <1>7, CtrlEnds

-----------------------------------------------------------------------------
(* What a call of send_buffer does to the connection in slot k.            *)
LEMMA NoOutput ==
  ASSUME NEW s, NEW o, NEW n, NEW e, NEW x, NEW y, Sent(s, o, n, e, x, y),
         s.type = "RESERVE", NEW w \in Seq(Nat)
  PROVE  w \o o.out = w
<1>1. n = 0 /\ o.out = SubSeq(s.high \o s.low, 1, n)
  BY DEF Sent
<1>2. o.out = <<>>
  BY <1>1
<1> QED BY <1>2

(* A slot that is only reserved has no connection: writing fails.          *)
LEMMA ReservedFails ==
  ASSUME NEW s \in Socket, s.type = "RESERVE", ~ nomore(s),
         NEW o \in send_buffer(s)
  PROVE  o.end = "error"
<1>1. s.high \in Seq(Nat) /\ s.low \in Seq(Nat)
  BY DEF Socket
<1>2. s.high \o s.low # <<>>
  <2>1. PICK a \in Nat, b \in Nat : a = Len(s.high) /\ b = Len(s.low)
    BY <1>1
  <2>2. a # 0 \/ b # 0
    BY <1>1, <2>1 DEF nomore
  <2>3. Len(s.high \o s.low) = a + b
    BY <1>1, <2>1
  <2>4. Len(s.high \o s.low) # 0
    BY <2>2, <2>3
  <2>5. Len(<<>>) = 0
    OBVIOUS
  <2> QED BY <2>4, <2>5
<1>3. \E out : o = [out |-> out, s |-> s, end |-> "error"]
  BY <1>2 DEF send_buffer
<1> QED BY <1>3

(* o is an outcome of send_buffer on the slot k of id.                     *)
Flushes(k, id, o) ==
  /\ k \in Slots /\ slot[k].id = id /\ slot[k].type # "INVALID"
  /\ o \in send_buffer(slot[k])

(* Each outcome of send_buffer on a slot is as Sent describes it.          *)
LEMMA FlushSent ==
  ASSUME TypeInv, SlotInv, NEW k, NEW id, NEW o, Flushes(k, id, o)
  PROVE  \E n, e, x, y : Sent(slot[k], o, n, e, x, y)
<1>1. slot[k] \in Socket /\ o \in send_buffer(slot[k]) /\ k \in Slots
  BY DEF Flushes, TypeInv
<1>2. Blocks(slot[k].low, Len(slot[k].low))
  BY <1>1 DEF SlotInv, SlotOk
<1> QED BY <1>1, <1>2, SendBuffer

(* It keeps what was promised to the connection; when it ends a half       *)
(* close, all has been written.                                            *)
LEMMA FlushWrites ==
  ASSUME TypeInv, SlotInv, ConnInv, NEW k, NEW id \in Ids, NEW o,
         Flushes(k, id, o), NEW w, w = wire[id] \o o.out
  PROVE  /\ w \in Seq(Nat) /\ Written(msg, id, w, id \in clean)
         /\ o.end \in {"none", "error", "flushed"}
         /\ o.end = "flushed" => Written(msg, id, w, TRUE)
         /\ slot[k].type # "RESERVE" =>
              LiveIn(slot[k], id) /\ ~ (id \in clean)
         /\ slot[k].type # "RESERVE" /\ o.end = "none" =>
              Served(msg, id, w, o.s, seen[id], id \in clean)
<1>1. PICK s \in Socket : s = slot[k] /\ s.id = id /\ s.type # "INVALID"
  BY DEF Flushes, TypeInv
<1>2. PICK n, e, x, y : Sent(s, o, n, e, x, y)
  BY <1>1, FlushSent
<1>3. o.end \in {"none", "error", "flushed"}
      /\ (o.end = "flushed" => s.type = "HALFCLOSE")
  BY <1>2 DEF Sent
<1>4. wire[id] \in Seq(Nat) /\ msg \in Seq(Messages)
  BY DEF TypeInv
<1>5. Written(msg, id, wire[id], id \in clean)
  BY WrittenNow
<1>6. CASE s.type = "RESERVE"
  <2>1. w = wire[id]
    BY <1>2, <1>4, <1>6, NoOutput
  <2> QED BY <1>1, <1>3, <1>4, <1>5, <1>6, <2>1
<1>7. CASE s.type # "RESERVE"
  <2>1. LiveIn(s, id)
    BY <1>1, <1>7 DEF LiveIn, Socket, Types
  <2>2. k = HASH_ID(id)
    <3>1. SlotOk(msg, k, s, alloc_id)
      BY <1>1 DEF Flushes, SlotInv
    <3> QED BY <1>1, <3>1, SlotsOfIds DEF SlotOk
  <2>3. Served(msg, id, wire[id], s, seen[id], id \in clean)
    BY <1>1, <2>1, <2>2, ServedNow
  <2>4. ~ (id \in clean)
    BY <2>3 DEF Served
  <2>5. w \in Seq(Nat) /\ Written(msg, id, w, FALSE)
    BY <1>2, <1>4, <2>3, ConnSent
  <2>6. o.end = "flushed" => Written(msg, id, w, TRUE)
    BY <1>2, <1>4, <2>3, ConnSent
  <2>7. o.end = "none" => Served(msg, id, w, o.s, seen[id], id \in clean)
    BY <1>2, <1>4, <2>3, ConnSent
  <2>8. Written(msg, id, w, id \in clean)
    BY <2>4, <2>5 DEF Written
  <2> QED BY <1>1, <1>3, <2>1, <2>4, <2>5, <2>6, <2>7, <2>8
<1> QED BY <1>6, <1>7

(* The assert at the start of send_buffer holds.                           *)
LEMMA NeverFails ==
  ASSUME SlotInv, TypeInv, NEW k \in Slots
  PROVE  ~ flush_fails(k)
<1>1. slot[k].low \in Seq(Nat)
  BY DEF TypeInv, Socket
<1>2. Blocks(slot[k].low, Len(slot[k].low))
  BY DEF SlotInv, SlotOk
<1> QED BY <1>1, <1>2, WholeList DEF flush_fails

(* What was written, when the socket ends, is marked clean only if nothing *)
(* is left.                                                                *)
LEMMA FlushOnly ==
  ASSUME TypeInv, NEW id, NEW w \in Seq(Nat), wire' = [wire EXCEPT ![id] = w],
         clean' = clean \/ (clean' = clean \cup {id} /\ id \in Ids)
  PROVE  WritesOnly(id) /\ (id \in Ids => wire'[id] = w)
<1>1. wire \in [Ids -> Seq(Nat)] /\ clean \in SUBSET Ids
  BY DEF TypeInv
<1>2. wire' \in [Ids -> Seq(Nat)] /\ (id \in Ids => wire'[id] = w)
  BY <1>1
<1>3. \A j \in Ids : j # id => wire'[j] = wire[j]
  BY <1>1
<1>4. CASE clean' = clean
  BY <1>1, <1>2, <1>3, <1>4 DEF WritesOnly
<1>5. CASE clean' = clean \cup {id} /\ id \in Ids
  BY <1>1, <1>2, <1>3, <1>5 DEF WritesOnly
<1> QED BY <1>4, <1>5

(* The slot that it leaves is as it should be.                             *)
LEMMA FlushSlot ==
  ASSUME TypeInv, SlotInv, NEW k, NEW id, NEW o, Flushes(k, id, o),
         o.end = "none", NEW t \in Socket,
         t.id = o.s.id, t.high = o.s.high, t.low = o.s.low, t.write = o.s.write,
         \/ t.type = slot[k].type /\ slot[k].type # "CONNECTING"
         \/ t.type = "HALFCLOSE" /\ slot[k].type \in LiveTypes
  PROVE  SlotOk(msg, k, t, alloc_id) /\ t.id = id
<1>1. PICK s \in Socket : s = slot[k] /\ s.id = id
  BY DEF Flushes, TypeInv
<1>2. PICK n, e, x, y : Sent(s, o, n, e, x, y)
  BY <1>1, FlushSent
<1>3. SlotOk(msg, k, s, alloc_id)
  BY <1>1 DEF SlotInv, Flushes
<1>4. t.id = id
  BY <1>1, <1>2 DEF Sent
<1> QED BY <1>1, <1>2, <1>3, <1>4, SlotSent

-----------------------------------------------------------------------------
(* What a socket has written is marked clean only when nothing is left.    *)
LEMMA Finishing ==
  ASSUME TypeInv, NEW id \in Ids, NEW w \in Seq(Nat),
         wire' = [wire EXCEPT ![id] = w],
         clean' = clean \/ clean' = clean \cup {id},
         Written(msg, id, w, id \in clean),
         clean' # clean => Written(msg, id, w, TRUE)
  PROVE  WritesOnly(id) /\ Written(msg, id, wire'[id], id \in clean')
<1>1. WritesOnly(id) /\ wire'[id] = w
  BY FlushOnly
<1>2. CASE clean' = clean
  BY <1>1, <1>2
<1>3. CASE clean' # clean
  <2>1. Written(msg, id, w, TRUE) /\ id \in clean'
    BY <1>3
  <2>2. Written(msg, id, w, id \in clean')
    BY <2>1 DEF Written
  <2> QED BY <1>1, <2>2
<1> QED BY <1>2, <1>3

(* An id whose slot is neither free nor only reserved is being served.     *)
LEMMA ServedSlot ==
  ASSUME TypeInv, ConnInv, NEW id \in Ids, slot[HASH_ID(id)].id = id,
         HASH_ID(id) \in Slots,
         slot[HASH_ID(id)].type \notin {"INVALID", "RESERVE"}
  PROVE  /\ LiveIn(slot[HASH_ID(id)], id)
         /\ Served(msg, id, wire[id], slot[HASH_ID(id)], seen[id], id \in clean)
         /\ ~ (id \in clean) /\ Written(msg, id, wire[id], FALSE)
<1>1. slot[HASH_ID(id)] \in Socket
  BY DEF TypeInv
<1>2. LiveIn(slot[HASH_ID(id)], id)
  BY <1>1 DEF LiveIn, Socket, Types
<1>3. Served(msg, id, wire[id], slot[HASH_ID(id)], seen[id], id \in clean)
  BY <1>2, ServedNow
<1>4. ~ (id \in clean)
  BY <1>3 DEF Served
<1>5. Written(msg, id, wire[id], id \in clean)
  BY WrittenNow
<1>6. Written(msg, id, wire[id], FALSE)
  BY <1>4, <1>5 DEF Written
<1> QED BY <1>2, <1>3, <1>4, <1>6

(* A close request that finds both lists empty.                            *)
LEMMA CloseEmpty ==
  ASSUME IInv, Ctrl({"K"}), NEW id, id = Head(pipe).id, NEW k,
         k = HASH_ID(id), slot[k].id = id, slot[k].type # "INVALID",
         nomore(slot[k]), msg' = msg, wire' = wire,
         force_close(k), report(id, "CLOSE"), toclear' = clearing(id, TRUE),
         clean' = clean \/ (clean' = clean \cup {id} /\ failed' = "no")
  PROVE  IInv'
<1>1. /\ TypeInv /\ SlotInv /\ ConnInv /\ id \in Ids /\ k \in Slots
  BY CtrlBegins
<1>2. wire \in [Ids -> Seq(Nat)] /\ slot[k] \in Socket /\ msg \in Seq(Messages)
  BY <1>1 DEF TypeInv
<1>3. PICK w \in Seq(Nat) : w = wire[id]
  BY <1>1, <1>2
<1>4. wire' = [wire EXCEPT ![id] = w]
  BY <1>1, <1>2, <1>3
<1>5. Written(msg, id, w, id \in clean)
  BY <1>1, <1>3, WrittenNow
<1>6. clean' # clean => Written(msg, id, w, TRUE)
  <2> SUFFICES ASSUME clean' # clean PROVE Written(msg, id, w, TRUE)
    OBVIOUS
  <2>1. slot[k].type \notin {"INVALID", "RESERVE"}
    BY DEF force_close
  <2>2. /\ Served(msg, id, wire[id], slot[k], seen[id], id \in clean)
        /\ Written(msg, id, wire[id], FALSE)
    BY <1>1, <2>1, ServedSlot
  <2> QED BY <1>2, <1>3, <2>2, ConnFinished
<1>7. WritesOnly(id) /\ Written(msg, id, wire'[id], id \in clean')
  BY <1>1, <1>4, <1>5, <1>6, Finishing
<1> QED BY <1>7, CloseEnds

(* A close request that writes what it can, and ends the socket.           *)
LEMMA CloseFlushed ==
  ASSUME IInv, Ctrl({"K"}), NEW id, id = Head(pipe).id, NEW k,
         k = HASH_ID(id), NEW o, Flushes(k, id, o), msg' = msg,
         wire' = [wire EXCEPT ![id] = @ \o o.out],
         force_close(k), report(id, "CLOSE"), toclear' = clearing(id, TRUE),
         \/ clean' = clean
         \/ clean' = clean \cup {id} /\ slot[k].type # "RESERVE"
            /\ (o.end = "flushed" \/ (o.end = "none" /\ nomore(o.s)))
  PROVE  IInv'
<1>1. /\ TypeInv /\ SlotInv /\ ConnInv /\ id \in Ids /\ k \in Slots
  BY CtrlBegins
<1>2. wire \in [Ids -> Seq(Nat)] /\ msg \in Seq(Messages)
  BY <1>1 DEF TypeInv
<1>3. PICK w : w = wire[id] \o o.out
  OBVIOUS
<1>4. wire' = [wire EXCEPT ![id] = w]
  BY <1>3
<1>5. /\ w \in Seq(Nat) /\ Written(msg, id, w, id \in clean)
      /\ o.end = "flushed" => Written(msg, id, w, TRUE)
      /\ slot[k].type # "RESERVE" => ~ (id \in clean)
      /\ slot[k].type # "RESERVE" /\ o.end = "none" =>
           Served(msg, id, w, o.s, seen[id], id \in clean)
  BY <1>1, <1>3, FlushWrites
<1>6. clean' # clean => Written(msg, id, w, TRUE)
  <2> SUFFICES ASSUME clean' # clean PROVE Written(msg, id, w, TRUE)
    OBVIOUS
  <2>1. CASE o.end = "flushed"
    BY <1>5, <2>1
  <2>2. CASE o.end = "none" /\ nomore(o.s) /\ slot[k].type # "RESERVE"
    <3>1. o.s \in Socket
      BY <1>1, <2>2, FlushSent DEF Sent
    <3>2. Written(msg, id, w, FALSE)
      BY <1>5, <2>2 DEF Written
    <3> QED BY <1>2, <1>5, <2>2, <3>1, <3>2, ConnFinished
  <2> QED BY <2>1, <2>2
<1>7. WritesOnly(id) /\ Written(msg, id, wire'[id], id \in clean')
  BY <1>1, <1>4, <1>5, <1>6, Finishing
<1>8. slot[k].id = id
  BY DEF Flushes
<1> QED BY <1>7, <1>8, CloseEnds

-----------------------------------------------------------------------------
(* A close request writes what it can, and the rest waits.                 *)
Halving(k, id, o) ==
  /\ Flushes(k, id, o) /\ o.end = "none" /\ slot[k].type # "RESERVE"
  /\ slot' = [slot EXCEPT ![k] = [o.s EXCEPT !.type = "HALFCLOSE"]]
  /\ wire' = [wire EXCEPT ![id] = @ \o o.out]
  /\ seen' = seen /\ clean' = clean /\ failed' = failed

(* A close request that leaves the socket half closed.                     *)
LEMMA CloseHalf ==
  ASSUME IInv, Ctrl({"K"}), NEW id, id = Head(pipe).id, NEW k,
         k = HASH_ID(id), NEW o, Halving(k, id, o), msg' = msg,
         toclear' \in {0, id}
  PROVE  IInv'
<1>1. /\ TypeInv /\ SlotInv /\ ConnInv /\ PipeInv /\ PipeLeft(1)
      /\ id \in Ids /\ k \in Slots /\ alloc_id' = alloc_id /\ failed = "no"
  BY CtrlBegins
<1>2. /\ wire \in [Ids -> Seq(Nat)] /\ slot[k] \in Socket
      /\ clean \in SUBSET Ids /\ seen \in [Ids -> Tellings]
  BY <1>1 DEF TypeInv
<1>3. TakesOnly(id) /\ PipeInv'
  BY <1>1, MessagesKept, PipeStep
<1>4. PICK w : w = wire[id] \o o.out
  OBVIOUS
<1>5. wire' = [wire EXCEPT ![id] = w] /\ clean' = clean
  BY <1>4 DEF Halving
<1>6. Flushes(k, id, o) /\ o.end = "none" /\ slot[k].type # "RESERVE"
  BY DEF Halving
<1>7. /\ w \in Seq(Nat) /\ Written(msg, id, w, id \in clean)
      /\ LiveIn(slot[k], id) /\ ~ (id \in clean)
      /\ Served(msg, id, w, o.s, seen[id], id \in clean)
  BY <1>1, <1>4, <1>6, FlushWrites
<1>8. o.s \in Socket
  BY <1>1, <1>6, FlushSent DEF Sent
<1>9. PICK t : t = [o.s EXCEPT !.type = "HALFCLOSE"]
  OBVIOUS
<1>10. /\ t \in Socket /\ t.type = "HALFCLOSE" /\ t.id = o.s.id
       /\ t.high = o.s.high /\ t.low = o.s.low /\ t.write = o.s.write
  <2>1. "HALFCLOSE" \in Types
    BY DEF Types, LiveTypes
  <2> QED BY <1>8, <1>9, <2>1 DEF Socket
<1>11. slot' = [slot EXCEPT ![k] = t]
  BY <1>9 DEF Halving
<1>12. slot' \in [Slots -> Socket] /\ slot'[k] = t /\ SlotsOnly(k)
  BY <1>1, <1>10, <1>11, SlotSet
<1>13. SlotOk(msg, k, t, alloc_id) /\ t.id = id
  BY <1>1, <1>6, <1>7, <1>10, FlushSlot DEF LiveIn
<1>14. WritesOnly(id) /\ wire'[id] = w
  BY <1>1, <1>5, <1>7, FlushOnly
<1>15. seen' = seen /\ seen'[id] = seen[id] /\ failed' = failed
  BY DEF Halving
<1>16. Conn(msg', id, wire'[id], slot'[k], seen'[id], id \in clean')
  <2>1. Served(msg, id, w, t, seen[id], id \in clean)
    BY <1>7, <1>10 DEF Served
  <2>2. seen[id] # "stray"
    BY <1>1, WrittenNow
  <2>3. Conn(msg, id, w, t, seen[id], id \in clean)
    BY <1>7, <2>1, <2>2, ConnMade
  <2> QED BY <1>5, <1>12, <1>14, <1>15, <2>3
<1>17. \A j \in Ids : j = id \/ ~ LiveIn(slot'[k], j)
  BY <1>12, <1>13 DEF LiveIn
<1>18. ReportsOnly(id)
  BY <1>14, <1>15 DEF ReportsOnly, WritesOnly
<1>19. OneSlot(k, id)
  BY <1>1, <1>2, <1>3, <1>12, <1>13, <1>14, <1>15, <1>16, <1>17, <1>18
     DEF OneSlot, WritesOnly
<1>20. LowIsWhole'
  BY <1>1, <1>15 DEF LowIsWhole
<1>21. ReservedKept(1)
  BY <1>6, <1>12, ReservedStay
<1>22. slot'[k].type \notin {"INVALID", "PACCEPT"}
  BY <1>10, <1>12
<1> QED BY <1>3, <1>19, <1>20, <1>21, <1>22, CtrlEnds

(* close_socket, in each of its outcomes.                                  *)
LEMMA CtrlCloseStep == IInv /\ CtrlClose => IInv'
<1> SUFFICES ASSUME IInv, CtrlClose PROVE IInv'
  OBVIOUS
<1>1. Ctrl({"K"}) /\ msg' = msg
  BY DEF CtrlClose
<1> DEFINE id == Head(pipe).id
           k == HASH_ID(id)
           shut == Head(pipe).shutdown
           finish(s) ==
             IF shut \/ send_buffer_empty(s)
             THEN /\ force_close(k) /\ report(id, "CLOSE")
                  /\ clean' = IF shut \/ failed' # "no" THEN clean
                              ELSE clean \cup {id}
             ELSE /\ slot' = [slot EXCEPT ![k] = [s EXCEPT !.type = "HALFCLOSE"]]
                  /\ UNCHANGED <<seen, clean, failed>>
<1>2. id = Head(pipe).id /\ k = HASH_ID(id)
  OBVIOUS
<1>3. \/ /\ Stale(id)
         /\ report(id, "CLOSE") /\ UNCHANGED <<slot, wire, clean, failed>>
      \/ /\ ~Stale(id) /\ send_buffer_empty(slot[k])
         /\ finish(slot[k]) /\ UNCHANGED wire
      \/ /\ ~Stale(id) /\ ~send_buffer_empty(slot[k])
         /\ \/ flush_fails(k)
            \/ \E o \in send_buffer(slot[k]) :
                 flush(k, o) /\ (o.end # "none" \/ finish(o.s))
  BY Zenon DEF CtrlClose
<1>4. toclear' = clearing(id, slot'[k].type # "HALFCLOSE")
  BY Zenon DEF CtrlClose
<1>5. ASSUME NEW s, finish(s), shut \/ nomore(s)
      PROVE  /\ force_close(k) /\ report(id, "CLOSE")
             /\ clean' = clean \/ (clean' = clean \cup {id} /\ failed' = "no"
                                   /\ nomore(s))
  BY <1>5, Zenon DEF send_buffer_empty
<1>6. ASSUME NEW s, finish(s), ~ (shut \/ nomore(s))
      PROVE  /\ slot' = [slot EXCEPT ![k] = [s EXCEPT !.type = "HALFCLOSE"]]
             /\ seen' = seen /\ clean' = clean /\ failed' = failed
  BY <1>6, Zenon DEF send_buffer_empty
<1> HIDE DEF finish, shut, id, k
<1>7. /\ TypeInv /\ SlotInv /\ ConnInv /\ PipeInv /\ PipeLeft(1)
      /\ id \in Ids /\ k \in Slots /\ alloc_id' = alloc_id /\ failed = "no"
      /\ toclear = 0
  BY <1>1, <1>2, CtrlBegins
<1>8. toclear' \in {0, id}
  BY <1>4, Cleared
<1>9. force_close(k) => toclear' = clearing(id, TRUE)
  <2> SUFFICES ASSUME force_close(k) PROVE toclear' = clearing(id, TRUE)
    OBVIOUS
  <2>1. slot \in [Slots -> Socket]
    BY <1>7 DEF TypeInv
  <2>2. slot' = [slot EXCEPT ![k] = Empty("INVALID", slot[k].id)]
    BY DEF force_close
  <2>3. slot'[k].type = "INVALID"
    BY <1>7, <2>1, <2>2 DEF Empty
  <2> QED BY <1>4, <2>3 DEF clearing
<1>10. ~ Stale(id) => slot[k].id = id /\ slot[k].type # "INVALID"
  BY <1>2 DEF Stale
<1>11. CASE /\ Stale(id)
            /\ report(id, "CLOSE") /\ UNCHANGED <<slot, wire, clean, failed>>
  <2>1. Telling(id, "over")
    <3>1. ~ LiveIn(slot[HASH_ID(id)], id)
      BY <1>11 DEF Stale, LiveIn, LiveTypes
    <3>2. told(id, "CLOSE") = "over"
      BY <1>7, Told
    <3> QED BY <1>11, <3>1, <3>2 DEF Telling, report
  <2>2. OneSlot(k, id)
    BY <1>1, <1>2, <1>7, <1>11, <2>1, OnlyTold
  <2>3. PipeInv'
    BY <1>1, <1>7, PipeStep
  <2>4. LowIsWhole' /\ ReservedKept(1) /\ slot'[k] = slot[k]
    BY <1>7, <1>11 DEF LowIsWhole, ReservedKept
  <2> QED BY <1>1, <1>2, <1>8, <2>2, <2>3, <2>4, CtrlEnds
<1>12. CASE /\ ~Stale(id) /\ send_buffer_empty(slot[k])
            /\ finish(slot[k]) /\ UNCHANGED wire
  <2>1. slot[k].id = id /\ slot[k].type # "INVALID" /\ nomore(slot[k])
    BY <1>10, <1>12 DEF send_buffer_empty
  <2>2. /\ force_close(k) /\ report(id, "CLOSE")
        /\ clean' = clean \/ (clean' = clean \cup {id} /\ failed' = "no")
    BY <1>5, <1>12, <2>1
  <2>3. wire' = wire
    BY <1>12
  <2> QED BY <1>1, <1>2, <1>9, <2>1, <2>2, <2>3, CloseEmpty
<1>13. CASE /\ ~Stale(id) /\ ~send_buffer_empty(slot[k])
            /\ flush_fails(k)
  BY <1>7, <1>13, NeverFails
<1>14. CASE /\ ~Stale(id) /\ ~send_buffer_empty(slot[k])
            /\ \E o \in send_buffer(slot[k]) :
                 flush(k, o) /\ (o.end # "none" \/ finish(o.s))
  <2>1. PICK o \in send_buffer(slot[k]) :
                 flush(k, o) /\ (o.end # "none" \/ finish(o.s))
    BY <1>14, Zenon
  <2>2. slot[k].id = id /\ Flushes(k, id, o) /\ ~ nomore(slot[k])
    BY <1>7, <1>10, <1>14 DEF Flushes, send_buffer_empty
  <2>3. wire' = [wire EXCEPT ![id] = @ \o o.out]
    BY <2>1, <2>2 DEF flush
  <2>4. CASE o.end # "none"
    <3>1. /\ force_close(k) /\ report(id, "CLOSE")
          /\ clean' = IF o.end = "flushed" THEN clean \cup {id} ELSE clean
      BY <2>1, <2>2, <2>4 DEF flush
    <3>2. o.end = "flushed" => slot[k].type # "RESERVE"
      BY <1>7, <2>2, FlushSent DEF Sent
    <3>3. \/ clean' = clean
          \/ clean' = clean \cup {id} /\ slot[k].type # "RESERVE"
             /\ (o.end = "flushed" \/ (o.end = "none" /\ nomore(o.s)))
      BY <3>1, <3>2
    <3> QED BY <1>1, <1>2, <1>9, <2>2, <2>3, <3>1, <3>3, CloseFlushed
  <2>5. CASE o.end = "none"
    <3>1. finish(o.s)
      BY <2>1, <2>5
    <3>2. slot[k].type # "RESERVE"
      <4>1. slot[k] \in Socket
        BY <1>7 DEF TypeInv
      <4> QED BY <2>2, <2>5, <4>1, ReservedFails
    <3>3. CASE shut \/ nomore(o.s)
      <4>1. /\ force_close(k) /\ report(id, "CLOSE")
            /\ \/ clean' = clean
               \/ clean' = clean \cup {id} /\ slot[k].type # "RESERVE"
                  /\ (o.end = "flushed" \/ (o.end = "none" /\ nomore(o.s)))
        BY <1>5, <2>5, <3>1, <3>2, <3>3
      <4> QED BY <1>1, <1>2, <1>9, <2>2, <2>3, <4>1, CloseFlushed
    <3>4. CASE ~ (shut \/ nomore(o.s))
      <4>1. Halving(k, id, o)
        BY <1>6, <2>2, <2>3, <2>5, <3>1, <3>2, <3>4 DEF Halving
      <4> QED BY <1>1, <1>2, <1>8, <4>1, CloseHalf
    <3> QED BY <3>3, <3>4
  <2> QED BY <2>4, <2>5
<1> QED BY <1>3, <1>11, <1>12, <1>13, <1>14, Zenon

-----------------------------------------------------------------------------
(* What an event finds, and what it has to leave behind.                   *)
LEMMA EventBegins ==
  ASSUME IInv, NEW types, Event(types), NEW k, k = Head(ev).s,
         NEW id, id = slot[k].id
  PROVE  /\ TypeInv /\ SlotInv /\ ConnInv /\ BatchInv /\ PipeInv /\ BirthInv
         /\ running /\ failed = "no" /\ toclear = 0 /\ toclear' = 0
         /\ checkctrl' \in BOOLEAN /\ fresh' = FALSE
         /\ reserving' = reserving /\ pipe' = pipe /\ msg' = msg
         /\ PipeLeft(0) /\ PipeInv' /\ pipe' \in Seq(Requests)
         /\ ev # <<>> /\ Head(ev) = ev[1] /\ 1 \in 1..Len(ev)
         /\ k \in Slots /\ slot[k] \in Socket /\ slot[k].type \in types
         /\ slot[k].type \notin {"INVALID", "PACCEPT"}
         /\ slot[k].type # "RESERVE" => LiveIn(slot[k], id) /\ id \in Ids
         /\ id # 0 => HASH_ID(id) = k /\ id \in Ids
         /\ id = 0 => ~ (id \in Ids)
<1>1. /\ TypeInv /\ SlotInv /\ ConnInv /\ BatchInv /\ PipeInv
      /\ running /\ failed = "no" /\ BirthInv
  BY DEF IInv, Event, running
<1>2. /\ ev # <<>> /\ (fresh \/ ~checkctrl) /\ slot[k].type \in types
      /\ fresh' = FALSE /\ pipe' = pipe /\ toclear' = toclear
      /\ checkctrl' = checkctrl /\ reserving' = reserving /\ msg' = msg
  BY DEF Event
<1>3. toclear = 0
  BY <1>1, <1>2 DEF BatchInv
<1>4. /\ checkctrl \in BOOLEAN /\ ev \in Seq(Events) /\ pipe \in Seq(Requests)
      /\ slot \in [Slots -> Socket]
  BY <1>1 DEF TypeInv
<1>5. PipeLeft(0) /\ PipeInv'
  BY <1>1, <1>2, PipeKept, PipeStep
<1>6. Head(ev) = ev[1] /\ 1 \in 1..Len(ev) /\ ev[1] \in Events
  BY <1>2, <1>4
<1>7. k \in Slots
  BY <1>6 DEF Events
<1>8. slot[k] \in Socket
  BY <1>4, <1>7
<1>9. slot[k].type \notin {"INVALID", "PACCEPT"}
  BY <1>1, <1>3, <1>6 DEF BatchInv
<1>10. SlotOk(msg, k, slot[k], alloc_id)
  BY <1>1, <1>7 DEF SlotInv
<1>11. id \in 0..MaxAlloc /\ slot[k].type \in Types
  BY <1>8 DEF Socket
<1>12. /\ id # 0 => HASH_ID(id) = k /\ id \in Ids
       /\ id = 0 => ~ (id \in Ids)
  BY <1>10, <1>11, SlotsOfIds DEF SlotOk, Ids
<1>13. slot[k].type # "RESERVE" => LiveIn(slot[k], id) /\ id \in Ids
  BY <1>9, <1>10, <1>11, <1>12 DEF SlotOk, LiveIn, Types
<1> QED BY <1>1, <1>2, <1>3, <1>4, <1>5, <1>6, <1>7, <1>8, <1>9, <1>12, <1>13

(* What an event must leave behind, at the end of its step.                *)
LEMMA EventEnds ==
  ASSUME IInv, NEW types, Event(types), NEW k, k = Head(ev).s,
         alloc_id' = alloc_id, known' = known, NEW id, OneSlot(k, id),
         \/ ev' = Tail(ev)
         \/ BatchLeft(0) /\ slot'[k].type \notin {"INVALID", "PACCEPT"},
         LowIsWhole',
         failed' = "no" => ReservedKept(0) /\ (id \in Ids => ~ Unborn(id))
  PROVE  IInv'
<1>1. /\ TypeInv /\ BatchInv /\ running /\ toclear = 0 /\ toclear' = 0
      /\ checkctrl' \in BOOLEAN /\ fresh' = FALSE /\ reserving' = reserving
      /\ pipe' = pipe /\ PipeLeft(0) /\ PipeInv' /\ pipe' \in Seq(Requests)
      /\ ev # <<>> /\ Head(ev) = ev[1]
  BY EventBegins
<1>2. toclear' \in 0..MaxAlloc
  BY <1>1, SlotsOfIds
<1>3. BatchMoves(k)
  <2>1. CASE ev' = Tail(ev)
    <3>1. BatchLeft(1) /\ \A i \in 1..Len(ev') : ev'[i].s # k
      BY <1>1, <2>1, BatchTail
    <3> QED BY <1>1, <1>2, <3>1 DEF BatchMoves
  <2>2. CASE BatchLeft(0) /\ slot'[k].type \notin {"INVALID", "PACCEPT"}
    BY <1>1, <1>2, <2>2 DEF BatchMoves
  <2> QED BY <2>1, <2>2
<1>4. failed' = "no" => ReservedKept(0) /\ (id \in Ids => ~ Unborn(id)')
  BY <1>1 DEF Unborn
<1> QED BY <1>1, <1>3, <1>4, ThreadStep

(* An event that ends the socket.                                          *)
LEMMA EventClose ==
  ASSUME IInv, NEW types, Event(types), NEW k, k = Head(ev).s,
         NEW id, id = slot[k].id, alloc_id' = alloc_id, known' = known,
         ev' = Tail(ev), force_close(k), NEW type \in {"CLOSE", "ERROR"},
         report(id, type), WritesOnly(id),
         id \in Ids => Written(msg, id, wire'[id], id \in clean')
  PROVE  IInv'
<1>1. /\ TypeInv /\ SlotInv /\ ConnInv /\ BirthInv /\ msg' = msg
      /\ k \in Slots /\ failed = "no"
      /\ slot[k].type # "RESERVE" => LiveIn(slot[k], id) /\ id \in Ids
      /\ id # 0 => HASH_ID(id) = k
  BY EventBegins
<1>2. TakesOnly(id)
  BY <1>1, MessagesKept
<1>3. /\ slot' = [slot EXCEPT ![k] = Empty("INVALID", @.id)]
      /\ failed' = "no" => slot[k].type # "RESERVE"
      /\ failed' # "uncomplete"
  BY <1>1 DEF force_close
<1>4. OneSlot(k, id)
  BY <1>1, <1>2, <1>3, CloseSlot
<1>5. LowIsWhole'
  BY <1>3 DEF LowIsWhole
<1>6. ASSUME failed' = "no"
      PROVE  ReservedKept(0) /\ (id \in Ids => ~ Unborn(id))
  <2>1. slot[k].type # "RESERVE" /\ LiveIn(slot[k], id) /\ id \in Ids
    BY <1>1, <1>3, <1>6
  <2>2. HASH_ID(id) = k
    BY <1>1, <2>1, SlotsOfIds
  <2>3. ~ Unborn(id)
    BY <1>1, <2>1, <2>2, LiveBorn
  <2>4. ReservedKept(0)
    BY <1>4, <2>1, ReservedStay DEF OneSlot
  <2> QED BY <2>3, <2>4
<1> QED BY <1>4, <1>5, <1>6, EventEnds

-----------------------------------------------------------------------------
(* An event that leaves the socket open, and may report to its owner.      *)
Kept(k, id, s, v) ==
  /\ s \in Socket /\ SlotOk(msg, k, s, alloc_id) /\ s.id = id
  /\ s.high = slot[k].high /\ s.low = slot[k].low
  /\ s.type # "INVALID" /\ s.type # "PACCEPT"
  /\ slot' = [slot EXCEPT ![k] = s] /\ seen' = [seen EXCEPT ![id] = v]
  /\ v \in {"no", "open"} /\ (s.type = "CONNECTED" => v = "open")

(* An event that leaves the socket open preserves the inductive invariant. *)
LEMMA EventKept ==
  ASSUME IInv, NEW types, Event(types), NEW k, k = Head(ev).s,
         NEW id, id = slot[k].id, alloc_id' = alloc_id, known' = known,
         slot[k].type # "RESERVE", NEW s, NEW v, Kept(k, id, s, v),
         ev' = Tail(ev) \/ BatchLeft(0),
         wire' = wire, clean' = clean, failed' = failed
  PROVE  IInv'
<1>1. /\ TypeInv /\ SlotInv /\ ConnInv /\ BirthInv /\ msg' = msg
      /\ k \in Slots /\ failed = "no"
      /\ slot[k].type # "RESERVE" => LiveIn(slot[k], id) /\ id \in Ids
      /\ id # 0 => HASH_ID(id) = k
  BY EventBegins
<1>2. LiveIn(slot[k], id) /\ id \in Ids
  BY <1>1
<1>3. HASH_ID(id) = k
  BY <1>1, <1>2, SlotsOfIds
<1>4. /\ wire \in [Ids -> Seq(Nat)] /\ clean \in SUBSET Ids
      /\ seen \in [Ids -> Tellings]
  BY <1>1 DEF TypeInv
<1>5. TakesOnly(id)
  BY <1>1, MessagesKept
<1>6. /\ s \in Socket /\ SlotOk(msg, k, s, alloc_id) /\ s.id = id
      /\ s.high = slot[k].high /\ s.low = slot[k].low
      /\ s.type # "INVALID" /\ s.type # "PACCEPT"
      /\ v \in {"no", "open"} /\ (s.type = "CONNECTED" => v = "open")
  BY DEF Kept
<1>7. slot' \in [Slots -> Socket] /\ slot'[k] = s /\ SlotsOnly(k)
  <2>1. slot' = [slot EXCEPT ![k] = s]
    BY DEF Kept
  <2> QED BY <1>1, <1>6, <2>1, SlotSet
<1>8. seen' \in [Ids -> Tellings] /\ seen'[id] = v /\ ReportsOnly(id)
  <2>1. seen' = [seen EXCEPT ![id] = v] /\ v \in Tellings
    BY <1>6 DEF Kept, Tellings
  <2> QED BY <1>2, <1>4, <2>1 DEF ReportsOnly
<1>9. Conn(msg', id, wire'[id], slot'[k], seen'[id], id \in clean')
  <2>1. Served(msg, id, wire[id], slot[k], seen[id], id \in clean)
    BY <1>1, <1>2, <1>3, ServedNow
  <2>2. Served(msg, id, wire[id], s, v, id \in clean)
    BY <1>6, <2>1 DEF Served
  <2>3. Written(msg, id, wire[id], id \in clean) /\ v # "stray"
    BY <1>1, <1>2, <1>6, WrittenNow
  <2>4. Conn(msg, id, wire[id], s, v, id \in clean)
    BY <2>2, <2>3, ConnMade
  <2> QED BY <1>1, <1>7, <1>8, <2>4
<1>10. \A j \in Ids : j = id \/ ~ LiveIn(slot'[k], j)
  BY <1>6, <1>7 DEF LiveIn
<1>11. OneSlot(k, id)
  BY <1>1, <1>3, <1>4, <1>5, <1>6, <1>7, <1>8, <1>9, <1>10 DEF OneSlot
<1>12. LowIsWhole' /\ ReservedKept(0)
  BY <1>1, <1>7, ReservedStay DEF LowIsWhole
<1>13. ~ Unborn(id)
  BY <1>1, <1>2, <1>3, LiveBorn
<1>14. slot'[k].type \notin {"INVALID", "PACCEPT"}
  BY <1>6, <1>7
<1> QED BY <1>11, <1>12, <1>13, <1>14, EventEnds

(* report_connect.                                                         *)
LEMMA EventConnectStep == IInv /\ EventConnect => IInv'
<1> SUFFICES ASSUME IInv, EventConnect PROVE IInv'
  OBVIOUS
<1>1. PICK k, id : k = Head(ev).s /\ id = slot[k].id
  OBVIOUS
<1>2. /\ Event({"CONNECTING"}) /\ ev' = Tail(ev) /\ alloc_id' = alloc_id
      /\ known' = known /\ wire' = wire /\ clean' = clean
  BY DEF EventConnect
<1>3. \/ /\ slot' = [slot EXCEPT ![k] = connected(slot[k])]
         /\ report(id, "OPEN") /\ failed' = failed
      \/ force_close(k) /\ report(id, "ERROR")
  BY <1>1 DEF EventConnect, k0, id0
<1>4. /\ TypeInv /\ SlotInv /\ ConnInv /\ BirthInv /\ msg' = msg
      /\ k \in Slots /\ slot[k] \in Socket /\ slot[k].type = "CONNECTING"
      /\ LiveIn(slot[k], id) /\ id \in Ids
      /\ id # 0 => HASH_ID(id) = k
  <2>1. /\ slot[k].type \in {"CONNECTING"}
        /\ slot[k].type # "RESERVE" => LiveIn(slot[k], id) /\ id \in Ids
    BY <1>1, <1>2, EventBegins
  <2> QED BY <1>1, <1>2, <2>1, EventBegins
<1>5. HASH_ID(id) = k
  BY <1>4, SlotsOfIds
<1>6. CASE force_close(k) /\ report(id, "ERROR")
  <2>1. WritesOnly(id)
    BY <1>2, <1>4, WritesKept
  <2>2. Written(msg, id, wire'[id], id \in clean')
    BY <1>2, <1>4, WrittenNow
  <2> QED BY <1>1, <1>2, <1>6, <2>1, <2>2, EventClose
<1>7. CASE /\ slot' = [slot EXCEPT ![k] = connected(slot[k])]
           /\ report(id, "OPEN") /\ failed' = failed
  <2>1. PICK s : s = connected(slot[k])
    OBVIOUS
  <2>2. SlotOk(msg, k, slot[k], alloc_id)
    BY <1>4 DEF SlotInv
  <2>3. /\ s \in Socket /\ s.type = "CONNECTED" /\ s.id = id
        /\ s.high = slot[k].high /\ s.low = slot[k].low
        /\ s.write = (slot[k].write /\ ~ nomore(slot[k]))
    <3>1. "CONNECTED" \in Types
      BY DEF Types, LiveTypes
    <3>2. (slot[k].write /\ ~ nomore(slot[k])) \in BOOLEAN
      BY <1>4
    <3> QED BY <1>1, <1>4, <2>1, <3>1, <3>2
            DEF connected, send_buffer_empty, Socket
  <2>4. slot[k].write
    BY <1>4, <2>2 DEF SlotOk
  <2>5. s.write \/ (s.high = <<>> /\ s.low = <<>>)
    BY <2>3, <2>4 DEF nomore
  <2>6. SlotOk(msg, k, s, alloc_id)
    <3>1. s.id # 0 /\ HASH_ID(s.id) = k /\ s.id <= alloc_id
      BY <1>1, <1>4, <1>5, <2>2, <2>3, SlotsOfIds DEF SlotOk
    <3>2. /\ Blocks(s.low, Len(s.low))
          /\ \A i \in 1..Len(s.low) :
               s.low[i] \in 1..Len(msg) /\ msg[s.low[i]].st # "pipe"
      BY <2>2, <2>3 DEF SlotOk
    <3> QED BY <2>3, <2>5, <3>1, <3>2 DEF SlotOk
  <2>7. seen' = [seen EXCEPT ![id] = "open"]
    <3>1. Served(msg, id, wire[id], slot[k], seen[id], id \in clean)
      BY <1>4, <1>5, ServedNow
    <3>2. told(id, "OPEN") = "open"
      BY <1>4, <3>1, Told DEF Served
    <3> QED BY <1>7, <3>2 DEF report
  <2>8. Kept(k, id, s, "open")
    BY <1>7, <2>1, <2>3, <2>6, <2>7 DEF Kept
  <2> QED BY <1>1, <1>2, <1>4, <1>7, <2>8, EventKept
<1> QED BY <1>3, <1>6, <1>7

-----------------------------------------------------------------------------

(* forward_message_tcp.                                                    *)
LEMMA EventReadStep == IInv /\ EventRead => IInv'
<1> SUFFICES ASSUME IInv, EventRead PROVE IInv'
  OBVIOUS
<1>1. PICK k, id, types : /\ k = Head(ev).s /\ id = slot[k].id
                          /\ types = {"CONNECTED", "HALFCLOSE", "PACCEPT",
                                      "PLISTEN", "RESERVE"}
  OBVIOUS
<1>2. /\ Event(types) /\ alloc_id' = alloc_id
      /\ known' = known /\ wire' = wire /\ clean' = clean
  BY <1>1 DEF EventRead
<1>3. \/ /\ slot[k].type # "RESERVE"
         /\ \/ /\ slot[k].type \in {"CONNECTED", "PACCEPT"}
               /\ report(id, "DATA")
            \/ UNCHANGED seen
         /\ ev' = IF Head(ev).write THEN [ev EXCEPT ![1].read = FALSE]
                                    ELSE Tail(ev)
         /\ UNCHANGED <<slot, failed>>
      \/ force_close(k) /\ report(id, "CLOSE") /\ ev' = Tail(ev)
  BY <1>1 DEF EventRead, k0, id0
<1>4. /\ TypeInv /\ SlotInv /\ ConnInv /\ BirthInv /\ msg' = msg
      /\ k \in Slots /\ slot[k] \in Socket
      /\ slot[k].type \notin {"INVALID", "PACCEPT"}
      /\ slot[k].type # "RESERVE" => LiveIn(slot[k], id) /\ id \in Ids
      /\ id # 0 => HASH_ID(id) = k
      /\ ev # <<>> /\ Head(ev) = ev[1] /\ 1 \in 1..Len(ev)
  BY <1>1, <1>2, EventBegins
<1>5. CASE force_close(k) /\ report(id, "CLOSE") /\ ev' = Tail(ev)
  <2>1. WritesOnly(id)
    BY <1>2, <1>4, WritesKept
  <2>2. id \in Ids => Written(msg, id, wire'[id], id \in clean')
    BY <1>2, <1>4, WrittenNow
  <2> QED BY <1>1, <1>2, <1>5, <2>1, <2>2, EventClose
<1>6. CASE /\ slot[k].type # "RESERVE"
           /\ \/ /\ slot[k].type \in {"CONNECTED", "PACCEPT"}
                 /\ report(id, "DATA")
              \/ UNCHANGED seen
           /\ ev' = IF Head(ev).write THEN [ev EXCEPT ![1].read = FALSE]
                                      ELSE Tail(ev)
           /\ UNCHANGED <<slot, failed>>
  <2>1. LiveIn(slot[k], id) /\ id \in Ids
    BY <1>4, <1>6
  <2>2. HASH_ID(id) = k
    BY <1>4, <2>1, SlotsOfIds
  <2>3. /\ Served(msg, id, wire[id], slot[k], seen[id], id \in clean)
        /\ seen[id] # "stray"
    BY <1>4, <2>1, <2>2, ServedNow, WrittenNow
  <2>4. seen \in [Ids -> Tellings] /\ slot \in [Slots -> Socket]
        /\ ev \in Seq(Events)
    BY <1>4 DEF TypeInv
  <2>5. /\ seen[id] \in {"no", "open"}
        /\ slot[k].type = "CONNECTED" => seen[id] = "open"
    BY <2>1, <2>3, <2>4 DEF Served, Tellings
  <2>6. seen' = [seen EXCEPT ![id] = seen[id]]
    <3>1. CASE seen' = seen
      BY <2>1, <2>4, <3>1
    <3>2. CASE slot[k].type \in {"CONNECTED", "PACCEPT"} /\ report(id, "DATA")
      <4>1. seen[id] = "open"
        BY <1>4, <2>5, <3>2
      <4>2. told(id, "DATA") = "open"
        BY <1>4, <2>1, <4>1, Told
      <4> QED BY <3>2, <4>1, <4>2 DEF report
    <3> QED BY <1>6, <3>1, <3>2
  <2>7. slot' = [slot EXCEPT ![k] = slot[k]]
    BY <1>4, <1>6, <2>4
  <2>8. SlotOk(msg, k, slot[k], alloc_id)
    BY <1>4 DEF SlotInv
  <2>9. Kept(k, id, slot[k], seen[id])
    BY <1>1, <1>4, <2>5, <2>6, <2>7, <2>8 DEF Kept
  <2>10. ev' = Tail(ev) \/ BatchLeft(0)
    <3>1. CASE ev' = Tail(ev)
      BY <3>1
    <3>2. CASE ev' = [ev EXCEPT ![1].read = FALSE]
      <4>1. PICK e : e = [ev[1] EXCEPT !.read = FALSE]
        OBVIOUS
      <4>2. e \in Events /\ e.s = ev[1].s
        <5>1. ev[1] \in Events
          BY <1>4, <2>4
        <5> QED BY <4>1, <5>1 DEF Events
      <4>3. ev' = [ev EXCEPT ![1] = e]
        BY <3>2, <4>1
      <4>4. /\ ev' \in Seq(Events) /\ Len(ev') = Len(ev)
            /\ \A i \in 1..Len(ev) : ev'[i].s = ev[i].s
        BY <1>4, <2>4, <4>2, <4>3
      <4> QED BY <2>4, <4>4 DEF BatchLeft
    <3> QED BY <1>6, <3>1, <3>2
  <2> QED BY <1>1, <1>2, <1>6, <2>9, <2>10, EventKept
<1> QED BY <1>3, <1>5, <1>6

-----------------------------------------------------------------------------
(* A slot that is only reserved has nothing to write, or fails.            *)
LEMMA ReservedWrite ==
  ASSUME IInv, NEW types, Event(types), NEW k, k = Head(ev).s,
         NEW id, id = slot[k].id, alloc_id' = alloc_id, known' = known,
         slot[k].type = "RESERVE", NEW o, Flushes(k, id, o), o.end = "none",
         slot' = [slot EXCEPT ![k] = o.s], wire' = wire, ev' = Tail(ev),
         seen' = seen, clean' = clean, failed' = failed
  PROVE  IInv'
<1>1. /\ TypeInv /\ SlotInv /\ ConnInv /\ BirthInv /\ msg' = msg
      /\ k \in Slots /\ failed = "no" /\ slot[k] \in Socket
  BY EventBegins
<1>2. PICK n, e, x, y : Sent(slot[k], o, n, e, x, y)
  BY <1>1, FlushSent
<1>3. o.s \in Socket /\ o.s.type = "RESERVE" /\ o.s.id = id
  BY <1>2 DEF Sent
<1>4. SlotOk(msg, k, slot[k], alloc_id)
  BY <1>1 DEF SlotInv
<1>5. SlotOk(msg, k, o.s, alloc_id)
  BY <1>1, <1>2, <1>3, <1>4, SlotSent
<1>6. slot' \in [Slots -> Socket] /\ slot'[k] = o.s /\ SlotsOnly(k)
  BY <1>1, <1>3, SlotSet
<1>7. wire \in [Ids -> Seq(Nat)] /\ clean \in SUBSET Ids
      /\ seen \in [Ids -> Tellings]
  BY <1>1 DEF TypeInv
<1>8. TakesOnly(0) /\ ReportsOnly(0) /\ ~ (0 \in Ids)
  BY <1>1, MessagesKept, SlotsOfIds DEF ReportsOnly
<1>9. \A j : ~ LiveIn(slot'[k], j)
  BY <1>3, <1>6 DEF LiveIn, LiveTypes
<1>10. OneSlot(k, 0)
  BY <1>1, <1>5, <1>6, <1>7, <1>8, <1>9 DEF OneSlot
<1>11. LowIsWhole'
  BY <1>1 DEF LowIsWhole
<1>12. ReservedKept(0)
  BY <1>3, <1>6 DEF ReservedKept, SlotsOnly
<1> QED BY <1>8, <1>10, <1>11, <1>12, EventEnds

(* What is left to write stays, with the write event.                      *)
LEMMA LiveWrite ==
  ASSUME IInv, NEW types, Event(types), NEW k, k = Head(ev).s,
         NEW id, id = slot[k].id, alloc_id' = alloc_id, known' = known,
         slot[k].type \notin {"RESERVE", "CONNECTING"},
         NEW o, Flushes(k, id, o), o.end = "none",
         slot' = [slot EXCEPT ![k] = o.s],
         wire' = [wire EXCEPT ![id] = @ \o o.out], ev' = Tail(ev),
         seen' = seen, clean' = clean, failed' = failed
  PROVE  IInv'
<1>1. /\ TypeInv /\ SlotInv /\ ConnInv /\ BirthInv /\ msg' = msg
      /\ k \in Slots /\ failed = "no" /\ slot[k] \in Socket
      /\ LiveIn(slot[k], id) /\ id \in Ids
      /\ id # 0 => HASH_ID(id) = k
  BY EventBegins
<1>2. HASH_ID(id) = k
  BY <1>1, SlotsOfIds
<1>3. PICK n, e, x, y : Sent(slot[k], o, n, e, x, y)
  BY <1>1, FlushSent
<1>4. o.s \in Socket /\ o.s.type = slot[k].type /\ o.s.id = id
  BY <1>3 DEF Sent
<1>5. SlotOk(msg, k, o.s, alloc_id)
  BY <1>1, <1>4, FlushSlot
<1>6. slot' \in [Slots -> Socket] /\ slot'[k] = o.s /\ SlotsOnly(k)
  BY <1>1, <1>4, SlotSet
<1>7. PICK w : w = wire[id] \o o.out
  OBVIOUS
<1>8. /\ w \in Seq(Nat) /\ Written(msg, id, w, id \in clean)
      /\ Served(msg, id, w, o.s, seen[id], id \in clean)
  BY <1>1, <1>7, FlushWrites
<1>9. WritesOnly(id) /\ wire'[id] = w
  <2>1. wire' = [wire EXCEPT ![id] = w]
    BY <1>7
  <2> QED BY <1>1, <1>8, <2>1, FlushOnly
<1>10. TakesOnly(id) /\ ReportsOnly(id)
  BY <1>1, <1>9, MessagesKept DEF ReportsOnly, WritesOnly
<1>11. Conn(msg', id, wire'[id], slot'[k], seen'[id], id \in clean')
  <2>1. seen[id] # "stray"
    BY <1>1, WrittenNow
  <2>2. Conn(msg, id, w, o.s, seen[id], id \in clean)
    BY <1>8, <2>1, ConnMade
  <2> QED BY <1>1, <1>6, <1>9, <2>2
<1>12. \A j \in Ids : j = id \/ ~ LiveIn(slot'[k], j)
  BY <1>4, <1>6 DEF LiveIn
<1>13. seen' \in [Ids -> Tellings]
  BY <1>1 DEF TypeInv
<1>14. OneSlot(k, id)
  BY <1>1, <1>2, <1>5, <1>6, <1>9, <1>10, <1>11, <1>12, <1>13
     DEF OneSlot, WritesOnly
<1>15. LowIsWhole' /\ ReservedKept(0)
  BY <1>1, <1>6, ReservedStay DEF LowIsWhole
<1>16. ~ Unborn(id)
  BY <1>1, <1>2, LiveBorn
<1> QED BY <1>14, <1>15, <1>16, EventEnds

(* send_buffer, for the write flag of an event.                            *)
LEMMA EventWriteStep == IInv /\ EventWrite => IInv'
<1> SUFFICES ASSUME IInv, EventWrite PROVE IInv'
  OBVIOUS
<1>1. PICK k, id, types : /\ k = Head(ev).s /\ id = slot[k].id
                          /\ types = {"CONNECTED", "HALFCLOSE", "PACCEPT",
                                      "PLISTEN", "RESERVE"}
  OBVIOUS
<1>2. /\ Event(types) /\ ev' = Tail(ev) /\ alloc_id' = alloc_id
      /\ known' = known
  BY <1>1 DEF EventWrite
<1>3. \/ flush_fails(k)
      \/ \E o \in send_buffer(slot[k]) :
           /\ flush(k, o)
           /\ \/ o.end # "none"
              \/ /\ slot' = [slot EXCEPT ![k] = o.s]
                 /\ UNCHANGED <<seen, clean, failed>>
  BY <1>1 DEF EventWrite, k0
<1>4. /\ TypeInv /\ SlotInv /\ ConnInv
      /\ k \in Slots /\ slot[k] \in Socket /\ slot[k].type \in types
      /\ slot[k].type \notin {"INVALID", "PACCEPT"}
      /\ slot[k].type # "RESERVE" => id \in Ids
      /\ id = 0 => ~ (id \in Ids)
      /\ id # 0 => id \in Ids
  BY <1>1, <1>2, EventBegins
<1>5. wire \in [Ids -> Seq(Nat)] /\ clean \in SUBSET Ids
  BY <1>4 DEF TypeInv
<1>6. CASE flush_fails(k)
  BY <1>4, <1>6, NeverFails
<1>7. CASE \E o \in send_buffer(slot[k]) :
             /\ flush(k, o)
             /\ \/ o.end # "none"
                \/ /\ slot' = [slot EXCEPT ![k] = o.s]
                   /\ UNCHANGED <<seen, clean, failed>>
  <2>1. PICK o \in send_buffer(slot[k]) :
             /\ flush(k, o)
             /\ \/ o.end # "none"
                \/ /\ slot' = [slot EXCEPT ![k] = o.s]
                   /\ UNCHANGED <<seen, clean, failed>>
    BY <1>7, Zenon
  <2>2. Flushes(k, id, o)
    BY <1>1, <1>4 DEF Flushes
  <2>3. wire' = [wire EXCEPT ![id] = @ \o o.out]
    BY <1>1, <2>1 DEF flush
  <2>4. PICK n, e, x, y : Sent(slot[k], o, n, e, x, y)
    BY <1>4, <2>2, FlushSent
  <2>5. slot[k].type = "RESERVE" => wire' = wire
    <3> SUFFICES ASSUME slot[k].type = "RESERVE" PROVE wire' = wire
      OBVIOUS
    <3>1. CASE id \in Ids
      <4>1. wire[id] \in Seq(Nat)
        BY <1>5, <3>1
      <4>2. wire[id] \o o.out = wire[id]
        BY <2>4, <4>1, NoOutput
      <4> QED BY <1>5, <2>3, <4>2
    <3>2. CASE ~ (id \in Ids)
      BY <1>5, <2>3, <3>2
    <3> QED BY <3>1, <3>2
  <2>6. CASE o.end # "none"
    <3>1. /\ force_close(k) /\ report(id, "CLOSE")
          /\ clean' = IF o.end = "flushed" THEN clean \cup {id} ELSE clean
      BY <1>1, <2>1, <2>6 DEF flush
    <3>2. o.end = "flushed" => slot[k].type # "RESERVE"
      BY <2>4 DEF Sent
    <3>3. /\ WritesOnly(id)
          /\ id \in Ids => Written(msg, id, wire'[id], id \in clean')
      <4>1. CASE id \in Ids
        <5>1. PICK w : w = wire[id] \o o.out
          OBVIOUS
        <5>2. /\ w \in Seq(Nat) /\ Written(msg, id, w, id \in clean)
              /\ o.end = "flushed" => Written(msg, id, w, TRUE)
          BY <1>4, <2>2, <4>1, <5>1, FlushWrites
        <5>3. wire' = [wire EXCEPT ![id] = w]
          BY <2>3, <5>1
        <5>4. /\ clean' = clean \/ clean' = clean \cup {id}
              /\ clean' # clean => Written(msg, id, w, TRUE)
          BY <3>1, <5>2
        <5> QED BY <1>4, <4>1, <5>2, <5>3, <5>4, Finishing
      <4>2. CASE ~ (id \in Ids)
        <5>1. wire' = wire /\ clean' = clean
          BY <1>4, <2>5, <3>1, <3>2, <4>2
        <5> QED BY <1>4, <4>2, <5>1, WritesKept
      <4> QED BY <4>1, <4>2
    <3> QED BY <1>1, <1>2, <3>1, <3>3, EventClose
  <2>7. CASE o.end = "none"
    <3>1. /\ slot' = [slot EXCEPT ![k] = o.s]
          /\ seen' = seen /\ clean' = clean /\ failed' = failed
      BY <2>1, <2>7
    <3>2. CASE slot[k].type = "RESERVE"
      BY <1>1, <1>2, <2>2, <2>5, <2>7, <3>1, <3>2, ReservedWrite
    <3>3. CASE slot[k].type # "RESERVE"
      <4>1. slot[k].type \notin {"RESERVE", "CONNECTING"}
        BY <1>1, <1>4, <3>3
      <4> QED BY <1>1, <1>2, <2>2, <2>3, <2>7, <3>1, <4>1, LiveWrite
    <3> QED BY <3>2, <3>3
  <2> QED BY <2>6, <2>7
<1> QED BY <1>3, <1>6, <1>7

-----------------------------------------------------------------------------
(* A connection is given the next id whose slot is free.                   *)
Accepting(k, id) ==
  /\ alloc_id < id /\ id \in Ids /\ k = HASH_ID(id)
  /\ slot[k].type = "INVALID" /\ alloc_id' = id /\ known' = known \cup {id}
  /\ nomore(slot[k])
  /\ new_fd(k, id, "PACCEPT") /\ UNCHANGED <<wire, seen, clean>>

(* The slot of the new connection, which waits to be started.              *)
LEMMA AcceptSlot ==
  ASSUME IInv, NEW types, Event(types), ev' = Tail(ev),
         NEW k, NEW id, Accepting(k, id)
  PROVE  /\ slot' \in [Slots -> Socket] /\ SlotsOnly(k) /\ k \in Slots
         /\ slot'[k].type = "PACCEPT" /\ slot'[k].id = id
         /\ slot'[k].high = <<>> /\ slot'[k].low = <<>>
         /\ failed' = failed /\ TypeInv' /\ SlotInv'
<1>1. /\ TypeInv /\ SlotInv /\ msg' = msg /\ toclear' = 0
      /\ checkctrl' \in BOOLEAN /\ fresh' = FALSE /\ reserving' = reserving
      /\ pipe' \in Seq(Requests)
  <2>1. PICK h, i : h = Head(ev).s /\ i = slot[h].id
    OBVIOUS
  <2> QED BY <2>1, EventBegins
<1>2. /\ alloc_id < id /\ id \in Ids /\ k = HASH_ID(id)
      /\ slot[k].type = "INVALID" /\ alloc_id' = id
      /\ known' = known \cup {id} /\ wire' = wire /\ seen' = seen
      /\ clean' = clean /\ new_fd(k, id, "PACCEPT")
  BY DEF Accepting
<1>3. k \in Slots /\ id \in 0..MaxAlloc /\ id # 0
  BY <1>2, SlotsOfIds
<1>4. slot \in [Slots -> Socket] /\ slot[k] \in Socket
  BY <1>1, <1>3 DEF TypeInv
<1>5. slot[k].high = <<>> /\ slot[k].low = <<>>
  BY DEF Accepting, nomore
<1>6. /\ slot' = [slot EXCEPT ![k].type = "PACCEPT", ![k].id = id,
                              ![k].write = FALSE]
      /\ failed' = failed
  <2>1. nomore(slot[k])
    BY <1>5 DEF nomore
  <2>2. ("PACCEPT" = "CONNECTING") = FALSE
    OBVIOUS
  <2> QED BY <1>2, <2>1, <2>2 DEF new_fd
<1>7. PICK t : t = [slot[k] EXCEPT !.type = "PACCEPT", !.id = id, !.write = FALSE]
  OBVIOUS
<1>8. slot' = [slot EXCEPT ![k] = t]
  BY <1>3, <1>4, <1>6, <1>7
<1>9. /\ t \in Socket /\ t.type = "PACCEPT" /\ t.id = id
      /\ t.high = <<>> /\ t.low = <<>>
  <2>1. "PACCEPT" \in Types
    BY DEF Types, LiveTypes
  <2> QED BY <1>3, <1>4, <1>5, <1>7, <2>1 DEF Socket
<1>10. slot' \in [Slots -> Socket] /\ slot'[k] = t /\ SlotsOnly(k)
  BY <1>1, <1>3, <1>8, <1>9, SlotSet
<1>11. SlotInv'
  <2>1. Grown(msg, msg') /\ msg' \in Seq(Messages)
    BY <1>1, MessagesKept DEF TypeInv
  <2>2. alloc_id' \in Ids /\ alloc_id <= alloc_id'
    BY <1>1, <1>2, SlotsOfIds DEF TypeInv
  <2>3. SlotOk(msg', k, slot'[k], alloc_id')
    <3>1. id <= alloc_id'
      BY <1>2, SlotsOfIds
    <3> QED BY <1>2, <1>3, <1>9, <1>10, <3>1, SlotEmptied
  <2> QED BY <1>1, <1>10, <2>1, <2>2, <2>3, SlotStep
<1>12. TypeInv'
  <2>1. ev' \in Seq(Events)
    <3>1. ev \in Seq(Events) /\ ev # <<>> /\ ev' = Tail(ev)
      BY <1>1 DEF TypeInv, Event
    <3> QED BY <3>1
  <2>2. known' \in SUBSET Ids /\ toclear' \in 0..MaxAlloc
    BY <1>1, <1>2, SlotsOfIds DEF TypeInv
  <2> QED BY <1>1, <1>2, <1>10, <2>1, <2>2 DEF TypeInv
<1> QED BY <1>3, <1>6, <1>9, <1>10, <1>11, <1>12

-----------------------------------------------------------------------------

(* Nothing has happened to the new connection.                             *)
LEMMA AcceptConn ==
  ASSUME IInv, NEW types, Event(types), ev' = Tail(ev),
         NEW k, NEW id, Accepting(k, id)
  PROVE  ConnInv'
<1>1. TypeInv /\ ConnInv /\ BirthInv /\ msg' = msg
  <2>1. PICK h, i : h = Head(ev).s /\ i = slot[h].id
    OBVIOUS
  <2> QED BY <2>1, EventBegins
<1>2. /\ SlotsOnly(k) /\ slot'[k].type = "PACCEPT" /\ slot'[k].id = id
      /\ slot'[k].high = <<>> /\ slot'[k].low = <<>>
  BY AcceptSlot
<1>3. /\ alloc_id < id /\ id \in Ids /\ k = HASH_ID(id)
      /\ wire' = wire /\ seen' = seen /\ clean' = clean
  BY DEF Accepting
<1>4. Untouched(msg, id, wire[id], seen[id], id \in clean)
  BY <1>1, <1>3 DEF BirthInv, UnbornInv, Unborn
<1>5. seen[id] = "no"
  BY <1>4 DEF Untouched
<1>6. Conn(msg, id, wire[id], slot'[k], seen[id], id \in clean)
  BY <1>2, <1>4, <1>5, ConnUntouched
<1>7. Conn(msg', id, wire'[id], slot'[k], seen'[id], id \in clean')
  BY <1>1, <1>3, <1>6
<1>8. ReportsOnly(id) /\ TakesOnly(id)
  BY <1>1, <1>3, MessagesKept DEF ReportsOnly
<1>9. \A j \in Ids : j = id \/ ~ LiveIn(slot'[k], j)
  BY <1>2 DEF LiveIn
<1> QED BY <1>1, <1>2, <1>3, <1>7, <1>8, <1>9, ConnStep

(* Its slot was free, and so has no event in the batch.                    *)
LEMMA AcceptBatch ==
  ASSUME IInv, NEW types, Event(types), ev' = Tail(ev),
         NEW k, NEW id, Accepting(k, id)
  PROVE  BatchInv'
<1>1. /\ TypeInv /\ BatchInv /\ toclear = 0 /\ toclear' = 0
      /\ ev # <<>>
  <2>1. PICK h, i : h = Head(ev).s /\ i = slot[h].id
    OBVIOUS
  <2> QED BY <2>1, EventBegins
<1>2. SlotsOnly(k)
  BY AcceptSlot
<1>3. slot[k].type = "INVALID"
  BY DEF Accepting
<1>4. BatchLeft(1)
  BY <1>1, BatchTail
<1>5. ASSUME NEW i \in 1..Len(ev') PROVE ev'[i].s # k
  <2>1. i + 1 \in 1..Len(ev) /\ ev'[i].s = ev[i + 1].s
    BY <1>1, <1>4, EventAt
  <2>2. PICK x \in 1..Len(ev) : x = i + 1
    BY <2>1
  <2>3. ev'[i].s = ev[x].s
    BY <2>1, <2>2
  <2>4. slot[ev[x].s].type # "INVALID"
    BY <1>1 DEF BatchInv
  <2> QED BY <1>3, <2>3, <2>4
<1> QED BY <1>1, <1>2, <1>4, <1>5, BatchStep

(* No slot that is reserved is given to it.                                *)
LEMMA AcceptBirth ==
  ASSUME IInv, NEW types, Event(types), ev' = Tail(ev),
         NEW k, NEW id, Accepting(k, id)
  PROVE  BirthInv'
<1>1. /\ TypeInv /\ BirthInv /\ msg' = msg /\ reserving' = reserving
      /\ pipe' = pipe
  <2>1. PICK h, i : h = Head(ev).s /\ i = slot[h].id
    OBVIOUS
  <2> QED BY <2>1, EventBegins
<1>2. SlotsOnly(k)
  BY AcceptSlot
<1>3. /\ alloc_id < id /\ id \in Ids /\ k = HASH_ID(id)
      /\ slot[k].type = "INVALID"
      /\ alloc_id' = id /\ known' = known \cup {id}
      /\ wire' = wire /\ seen' = seen /\ clean' = clean
  BY DEF Accepting
<1>4. /\ alloc_id \in Nat /\ id \in Nat /\ Ids \subseteq Nat
      /\ reserving \in [Connectors -> 0..MaxAlloc] /\ MaxAlloc \in Nat
      /\ pipe \in Seq(Requests) /\ known \in SUBSET Ids
  BY <1>1, <1>3, SlotsOfIds DEF TypeInv
<1>5. ASSUME NEW j \in Ids, slot[HASH_ID(j)].type = "RESERVE"
      PROVE  slot'[HASH_ID(j)] = slot[HASH_ID(j)]
  <2>1. HASH_ID(j) # k /\ HASH_ID(j) \in Slots
    BY <1>3, <1>5, SlotsOfIds
  <2> QED BY <1>2, <2>1 DEF SlotsOnly
<1>6. UnbornInv'
  <2> SUFFICES ASSUME NEW j \in Ids, Unborn(j)'
               PROVE  Untouched(msg', j, wire'[j], seen'[j], j \in clean')
    BY DEF UnbornInv
  <2>1. Unborn(j)
    <3>1. j \in Nat
      BY <1>4
    <3> QED BY <1>1, <1>3, <1>4, <3>1 DEF Unborn
  <2>2. Untouched(msg, j, wire[j], seen[j], j \in clean)
    BY <1>1, <2>1 DEF BirthInv, UnbornInv
  <2> QED BY <1>1, <1>3, <2>2
<1>7. ReserveInv'
  <2> SUFFICES ASSUME NEW t \in Connectors, reserving[t] # 0
               PROVE  /\ slot'[HASH_ID(reserving[t])].type = "RESERVE"
                      /\ reserving[t] \notin known' /\ reserving[t] <= alloc_id'
                      /\ \A u \in Connectors : u # t /\ reserving[u] # 0 =>
                           HASH_ID(reserving[u]) # HASH_ID(reserving[t])
                      /\ \A i \in 1..Len(pipe) : Opens(pipe[i]) =>
                           HASH_ID(pipe[i].id) # HASH_ID(reserving[t])
    BY <1>1 DEF ReserveInv
  <2>1. /\ slot[HASH_ID(reserving[t])].type = "RESERVE"
        /\ reserving[t] \notin known /\ reserving[t] <= alloc_id
        /\ \A u \in Connectors : u # t /\ reserving[u] # 0 =>
             HASH_ID(reserving[u]) # HASH_ID(reserving[t])
        /\ \A i \in 1..Len(pipe) : Opens(pipe[i]) =>
             HASH_ID(pipe[i].id) # HASH_ID(reserving[t])
    BY <1>1 DEF BirthInv, ReserveInv
  <2>2. reserving[t] \in Ids /\ reserving[t] \in Nat
    BY <1>4 DEF Ids
  <2>3. slot'[HASH_ID(reserving[t])].type = "RESERVE"
    BY <1>5, <2>1, <2>2
  <2>4. reserving[t] <= alloc_id' /\ reserving[t] # id
    BY <1>3, <1>4, <2>1, <2>2
  <2>5. reserving[t] \notin known'
    BY <1>3, <2>1, <2>4
  <2> QED BY <2>1, <2>3, <2>4, <2>5
<1>8. OpenInv'
  <2>1. ASSUME NEW i \in 1..Len(pipe)
        PROVE  /\ pipe[i].id \in known'
               /\ Opens(pipe[i]) =>
                    /\ slot'[HASH_ID(pipe[i].id)].type = "RESERVE"
                    /\ slot'[HASH_ID(pipe[i].id)].id = pipe[i].id
    <3>1. /\ pipe[i].id \in known
          /\ Opens(pipe[i]) =>
               /\ slot[HASH_ID(pipe[i].id)].type = "RESERVE"
               /\ slot[HASH_ID(pipe[i].id)].id = pipe[i].id
      BY <1>1 DEF BirthInv, OpenInv
    <3>2. pipe[i].id \in Ids
      BY <1>4, <3>1
    <3> QED BY <1>3, <1>5, <3>1, <3>2
  <2>2. \A i, j \in 1..Len(pipe) :
          j < i /\ Opens(pipe[i]) => pipe[j].id # pipe[i].id
    BY <1>1 DEF BirthInv, OpenInv
  <2>3. \A j \in known' : j <= alloc_id'
    <3> SUFFICES ASSUME NEW j \in known' PROVE j <= id
      BY <1>3
    <3>1. CASE j \in known
      <4>1. j <= alloc_id /\ j \in Nat
        BY <1>1, <1>4, <3>1 DEF BirthInv, OpenInv
      <4> QED BY <1>3, <1>4, <4>1
    <3>2. CASE j = id
      BY <1>4, <3>2
    <3> QED BY <1>3, <3>1, <3>2
  <2> QED BY <1>1, <2>1, <2>2, <2>3 DEF OpenInv
<1> QED BY <1>6, <1>7, <1>8 DEF BirthInv

-----------------------------------------------------------------------------

(* The slot still has what was sent to it while it was reserved: new_fd    *)
(* fails its assert.                                                       *)
LEMMA AcceptRefused ==
  ASSUME IInv, NEW types, Event(types), ev' = Tail(ev),
         NEW id \in Ids, alloc_id < id, alloc_id' = id,
         known' = known \cup {id}, slot' = slot, wire' = wire,
         seen' = seen, clean' = clean, failed' = "lists"
  PROVE  IInv'
<1>1. /\ TypeInv /\ SlotInv /\ ConnInv /\ BatchInv /\ PipeInv'
      /\ msg' = msg /\ toclear = 0 /\ toclear' = 0 /\ ev # <<>>
      /\ checkctrl' \in BOOLEAN /\ fresh' = FALSE /\ reserving' = reserving
      /\ pipe' \in Seq(Requests)
  <2>1. PICK h, i : h = Head(ev).s /\ i = slot[h].id
    OBVIOUS
  <2> QED BY <2>1, EventBegins
<1>2. BatchLeft(1)
  BY <1>1, BatchTail
<1>3. PICK k : k \notin Slots
  BY SocketAssumption DEF Slots
<1>4. SlotsOnly(k)
  BY DEF SlotsOnly
<1>5. TypeInv'
  <2>1. ev' \in Seq(Events)
    BY <1>2 DEF BatchLeft
  <2>2. known' \in SUBSET Ids /\ toclear' \in 0..MaxAlloc
    BY <1>1, SlotsOfIds DEF TypeInv
  <2> QED BY <1>1, <2>1, <2>2 DEF TypeInv
<1>6. SlotInv'
  <2>1. Grown(msg, msg') /\ msg' \in Seq(Messages)
    BY <1>1, MessagesKept DEF TypeInv
  <2>2. alloc_id' \in Ids /\ alloc_id <= alloc_id'
    BY <1>1, SlotsOfIds DEF TypeInv
  <2> QED BY <1>1, <1>3, <1>4, <2>1, <2>2, SlotStep
<1>7. ConnInv'
  BY <1>1 DEF ConnInv
<1>8. BatchInv'
  <2>1. ASSUME NEW i \in 1..Len(ev') PROVE ev'[i].s \in Slots
    <3>1. PICK c \in Seq(Events) : c = ev'
      BY <1>2 DEF BatchLeft
    <3>2. c[i] \in Events
      BY <3>1
    <3> QED BY <3>1, <3>2 DEF Events
  <2>2. \A i \in 1..Len(ev') : ev'[i].s # k
    BY <1>3, <2>1
  <2> QED BY <1>1, <1>2, <1>4, <2>2, BatchStep
<1>9. LowIsWhole'
  BY DEF LowIsWhole
<1> QED BY <1>1, <1>5, <1>6, <1>7, <1>8, <1>9 DEF IInv

(* report_accept.                                                          *)
LEMMA EventAcceptStep == IInv /\ EventAccept => IInv'
<1> SUFFICES ASSUME IInv, EventAccept PROVE IInv'
  OBVIOUS
<1>1. PICK types : types = {"LISTEN"}
  OBVIOUS
<1>2. /\ Event(types) /\ ev' = Tail(ev)
      /\ wire' = wire /\ seen' = seen /\ clean' = clean
  BY <1>1 DEF EventAccept
<1>3. \/ /\ reservable # {} /\ Min(reservable) <= MaxAlloc
         /\ alloc_id' = Min(reservable) /\ known' = known \cup {Min(reservable)}
         /\ new_fd(HASH_ID(Min(reservable)), Min(reservable), "PACCEPT")
      \/ UNCHANGED <<alloc_id, known, slot, failed>>
  BY DEF EventAccept
<1>4. PICK k, id : k = Head(ev).s /\ id = slot[k].id
  OBVIOUS
<1>5. /\ TypeInv /\ SlotInv /\ ConnInv /\ PipeInv' /\ failed = "no"
      /\ k \in Slots /\ slot[k] \in Socket /\ slot[k].type \in types
      /\ slot[k].type # "RESERVE" => LiveIn(slot[k], id) /\ id \in Ids
      /\ id # 0 => HASH_ID(id) = k
  BY <1>2, <1>4, EventBegins
<1>6. CASE /\ reservable # {} /\ Min(reservable) <= MaxAlloc
           /\ alloc_id' = Min(reservable)
           /\ known' = known \cup {Min(reservable)}
           /\ new_fd(HASH_ID(Min(reservable)), Min(reservable), "PACCEPT")
  <2>1. PICK i, j : i = Min(reservable) /\ j = HASH_ID(i)
    OBVIOUS
  <2>2. alloc_id \in Ids
    BY <1>5 DEF TypeInv
  <2>3. i \in Ids /\ alloc_id < i /\ Free(i)
    BY <1>6, <2>1, <2>2, Reservable
  <2>4. CASE ~ nomore(slot[j])
    BY <1>2, <1>6, <2>1, <2>3, <2>4, AcceptRefused DEF new_fd
  <2>5. CASE nomore(slot[j])
    <3>1. Accepting(j, i)
      BY <1>2, <1>6, <2>1, <2>3, <2>5 DEF Accepting, Free
    <3>2. TypeInv' /\ SlotInv' /\ failed' = failed
      BY <1>2, <3>1, AcceptSlot
    <3>3. ConnInv' /\ BatchInv' /\ BirthInv'
      BY <1>2, <3>1, AcceptConn, AcceptBatch, AcceptBirth
    <3>4. LowIsWhole'
      BY <1>5, <3>2 DEF LowIsWhole
    <3> QED BY <1>5, <3>2, <3>3, <3>4 DEF IInv
  <2> QED BY <2>4, <2>5
<1>7. CASE UNCHANGED <<alloc_id, known, slot, failed>>
  <2>1. slot[k].type = "LISTEN"
    BY <1>1, <1>5
  <2>2. LiveIn(slot[k], id) /\ id \in Ids
    BY <1>5, <2>1
  <2>3. HASH_ID(id) = k
    BY <1>5, <2>2, SlotsOfIds
  <2>4. /\ Served(msg, id, wire[id], slot[k], seen[id], id \in clean)
        /\ seen[id] # "stray"
    BY <1>5, <2>2, <2>3, ServedNow, WrittenNow
  <2>5. seen \in [Ids -> Tellings] /\ slot \in [Slots -> Socket]
    BY <1>5 DEF TypeInv
  <2>6. seen[id] \in {"no", "open"}
    BY <2>2, <2>4, <2>5 DEF Served, Tellings
  <2>7. /\ seen' = [seen EXCEPT ![id] = seen[id]]
        /\ slot' = [slot EXCEPT ![k] = slot[k]]
    BY <1>2, <1>5, <1>7, <2>2, <2>5
  <2>8. SlotOk(msg, k, slot[k], alloc_id)
    BY <1>5 DEF SlotInv
  <2>9. Kept(k, id, slot[k], seen[id])
    BY <1>4, <1>5, <2>1, <2>6, <2>7, <2>8 DEF Kept
  <2>10. slot[k].type # "RESERVE"
    BY <2>1
  <2> QED BY <1>2, <1>4, <1>7, <2>9, <2>10, EventKept
<1> QED BY <1>3, <1>6, <1>7

(* Every step of a service preserves the inductive invariant.              *)
LEMMA ServiceKeeps == IInv /\ Service => IInv'
BY ReserveStep, RequestStep, SendStep, StartStep, CloseStep DEF Service

(* Every step of the socket thread preserves it.                           *)
LEMMA SocketThreadKeeps == IInv /\ SocketThread => IInv'
BY CtrlOpenStep, CtrlListenStep, CtrlStartStep, CtrlSendStep, CtrlCloseStep,
   NoCtrlStep, ClearStep, WaitStep, EventConnectStep, EventAcceptStep,
   EventReadStep, EventWriteStep
   DEF SocketThread

(* In every reachable state of socket_server.c, with any number of slots,  *)
(* connectors, ids, messages and close requests, the slots, the            *)
(* connections, the batch and the pipe are as the inductive invariant      *)
(* says.                                                                   *)
THEOREM Invariance == Spec => []IInv
<1>1. IInv /\ [Next]_vars => IInv'
  BY ServiceKeeps, SocketThreadKeeps, StutterStep DEF Next
<1> QED BY InitIInv, <1>1, PTL DEF Spec

(* The assert at the start of send_buffer never fails: the head of the low *)
(* list is never sent in part (LowIsWhole).                                *)
THEOREM LowWhole == Spec => []LowIsWhole
<1>1. IInv => LowIsWhole
  BY DEF IInv
<1> QED BY Invariance, <1>1, PTL

(* On every connection each message is a run of bytes, complete but for    *)
(* the last, and messages of one priority go out in the order they were    *)
(* sent, whatever the writes of send_buffer and send_socket take           *)
(* (WireWhole).                                                            *)
THEOREM MessagesWhole == Spec => []WireWhole
<1>1. IInv => WireWhole
  <2> SUFFICES ASSUME IInv, NEW id \in Ids PROVE Whole(msg, wire[id])
    BY DEF WireWhole, Whole
  <2>1. ConnInv
    BY DEF IInv
  <2> QED BY <2>1, WrittenNow DEF Written
<1> QED BY Invariance, <1>1, PTL

(* A socket that close_socket ends, without shutdown and without error,    *)
(* has written every message it had taken (NothingLost).                   *)
THEOREM CleanLosesNothing == Spec => []NothingLost
<1>1. IInv => NothingLost
  <2> SUFFICES ASSUME IInv, NEW m \in DOMAIN msg, msg[m].st = "taken",
                      msg[m].to \in clean
               PROVE  count(wire[msg[m].to], m) = Size
    BY DEF NothingLost
  <2>1. ConnInv /\ msg \in Seq(Messages) /\ clean \in SUBSET Ids
    BY DEF IInv, TypeInv
  <2>2. PICK id \in Ids : id = msg[m].to /\ id \in clean
    BY <2>1
  <2>3. m \in 1..Len(msg) /\ TakenFor(msg, m, id)
    BY <2>1, <2>2 DEF TakenFor
  <2>4. Written(msg, id, wire[id], id \in clean)
    BY <2>1, WrittenNow
  <2>5. count(wire[id], m) = Size
    BY <2>2, <2>3, <2>4 DEF Written
  <2> QED BY <2>2, <2>5
<1> QED BY Invariance, <1>1, PTL

(* Whatever waits in the lists of a socket has the write event on, so that *)
(* send_buffer is called again (WriteEventOn).                             *)
THEOREM WaitsForWriting == Spec => []WriteEventOn
<1>1. IInv => WriteEventOn
  <2> SUFFICES ASSUME IInv, NEW k \in Slots,
                      slot[k].type \in {"CONNECTING", "CONNECTED", "HALFCLOSE"},
                      ~ nomore(slot[k])
               PROVE  slot[k].write
    BY DEF WriteEventOn
  <2>1. SlotOk(msg, k, slot[k], alloc_id)
    BY DEF IInv, SlotInv
  <2> QED BY <2>1 DEF SlotOk, nomore
<1> QED BY Invariance, <1>1, PTL

-----------------------------------------------------------------------------
(* Every event of the batch is of the socket it was read for, unless the   *)
(* close of that socket has missed it or is about to clear it.             *)
OwnInv ==
  \A i \in 1..Len(ev) :
    /\ HASH_ID(ev[i].id) = ev[i].s
    /\ \/ ev[i].missed
       \/ toclear # 0 /\ toclear = ev[i].id
       \/ slot[ev[i].s].id = ev[i].id
            /\ slot[ev[i].s].type \notin {"INVALID", "RESERVE"}

(* A socket in slot k stays its own, or ends with its event to be cleared; *)
(* a slot with no socket may change as it will.                            *)
SameOwner(k) ==
  \/ slot[k].type \in {"INVALID", "RESERVE"}
  \/ slot'[k] = slot[k]
  \/ /\ slot'[k].id = slot[k].id /\ slot'[k].type # "RESERVE"
     /\ slot'[k].type = "INVALID" => toclear' = clearing(slot[k].id, TRUE)

(* A step that leaves the batch alone preserves OwnInv.                    *)
LEMMA OwnSame ==
  ASSUME TypeInv, SlotInv, OwnInv, ev' = ev, toclear' = toclear \/ toclear = 0,
         \A j \in Slots : SameOwner(j)
  PROVE  OwnInv'
<1> SUFFICES ASSUME NEW i \in 1..Len(ev)
             PROVE  /\ HASH_ID(ev[i].id) = ev[i].s
                    /\ \/ ev[i].missed
                       \/ toclear' # 0 /\ toclear' = ev[i].id
                       \/ slot'[ev[i].s].id = ev[i].id
                            /\ slot'[ev[i].s].type \notin {"INVALID", "RESERVE"}
  BY DEF OwnInv
<1>1. PICK j : j = ev[i].s
  OBVIOUS
<1>2. ev[i] \in Events /\ j \in Slots
  <2>1. ev[i] \in Events
    BY DEF TypeInv
  <2> QED BY <1>1, <2>1 DEF Events
<1>3. /\ HASH_ID(ev[i].id) = j
      /\ \/ ev[i].missed
         \/ toclear # 0 /\ toclear = ev[i].id
         \/ slot[j].id = ev[i].id /\ slot[j].type \notin {"INVALID", "RESERVE"}
  BY <1>1 DEF OwnInv
<1>4. ASSUME toclear # 0, toclear = ev[i].id
      PROVE  toclear' # 0 /\ toclear' = ev[i].id
  BY <1>4
<1>5. ASSUME slot[j].id = ev[i].id, slot[j].type \notin {"INVALID", "RESERVE"}
      PROVE  \/ toclear' # 0 /\ toclear' = ev[i].id
             \/ slot'[j].id = ev[i].id
                  /\ slot'[j].type \notin {"INVALID", "RESERVE"}
  <2>1. CASE slot'[j] = slot[j]
    BY <1>5, <2>1
  <2>2. CASE /\ slot'[j].id = slot[j].id /\ slot'[j].type # "RESERVE"
             /\ slot'[j].type = "INVALID" =>
                  toclear' = clearing(slot[j].id, TRUE)
    <3>1. waiting(HASH_ID(slot[j].id))
      BY <1>1, <1>3, <1>5 DEF waiting
    <3>2. clearing(slot[j].id, TRUE) = ev[i].id
      BY <1>5, <3>1 DEF clearing
    <3>3. ev[i].id # 0
      <4>1. slot[j].type \in Types
        BY <1>2 DEF TypeInv, Socket
      <4> QED BY <1>2, <1>5, <4>1 DEF SlotInv, SlotOk, Types
    <3> QED BY <1>5, <2>2, <3>2, <3>3
  <2> QED BY <1>2, <1>5, <2>1, <2>2 DEF SameOwner
<1> QED BY <1>1, <1>3, <1>4, <1>5

(* An event is taken; only its own slot, or a free one, has changed.       *)
LEMMA OwnTail ==
  ASSUME TypeInv, BatchInv, OwnInv, ev # <<>>, ev' = Tail(ev),
         toclear' = toclear,
         \A j \in Slots : \/ j = Head(ev).s \/ slot[j].type = "INVALID"
                          \/ slot'[j] = slot[j]
  PROVE  OwnInv'
<1>1. /\ Head(ev) = ev[1] /\ 1 \in 1..Len(ev) /\ BatchLeft(1)
      /\ \A i \in 1..Len(ev') : ev'[i].s # ev[1].s
  BY BatchTail
<1>2. ASSUME NEW i \in 1..Len(ev')
      PROVE  \E x \in 1..Len(ev) : ev'[i] = ev[x]
  <2>1. ev \in Seq(Events) /\ Len(ev) \in Nat /\ Len(ev') = Len(ev) - 1
    BY <1>1 DEF TypeInv, BatchLeft
  <2>2. i \in 1..(Len(ev) - 1) /\ i + 1 \in 1..Len(ev)
    BY <2>1
  <2>3. ev'[i] = ev[i + 1]
    BY <2>1, <2>2
  <2> QED BY <2>2, <2>3
<1>3. ASSUME NEW i \in 1..Len(ev')
      PROVE  /\ HASH_ID(ev'[i].id) = ev'[i].s
             /\ \/ ev'[i].missed
                \/ toclear' # 0 /\ toclear' = ev'[i].id
                \/ slot'[ev'[i].s].id = ev'[i].id
                     /\ slot'[ev'[i].s].type \notin {"INVALID", "RESERVE"}
  <2>1. PICK x \in 1..Len(ev) : ev'[i] = ev[x]
    BY <1>2
  <2>2. ev[x] \in Events
    BY DEF TypeInv
  <2>3. PICK j \in Slots : j = ev[x].s
    BY <2>2 DEF Events
  <2>4. /\ HASH_ID(ev[x].id) = j
        /\ \/ ev[x].missed
           \/ toclear # 0 /\ toclear = ev[x].id
           \/ slot[j].id = ev[x].id /\ slot[j].type \notin {"INVALID", "RESERVE"}
    BY <2>3 DEF OwnInv
  <2>5. j # Head(ev).s
    BY <1>1, <2>1, <2>3
  <2>6. slot[j].type = "INVALID" \/ slot'[j] = slot[j]
    BY <2>5
  <2>7. \/ ev[x].missed
        \/ toclear' # 0 /\ toclear' = ev[x].id
        \/ slot'[j].id = ev[x].id /\ slot'[j].type \notin {"INVALID", "RESERVE"}
    BY <2>4, <2>6
  <2> QED BY <2>1, <2>3, <2>4, <2>7
<1> QED BY <1>3 DEF OwnInv

(* Only slots with no socket change from the thread of a service.          *)
LEMMA OwnService == IInv /\ OwnInv /\ Service => OwnInv'
<1> SUFFICES ASSUME IInv, OwnInv, Service PROVE OwnInv'
  OBVIOUS
<1>1. TypeInv /\ SlotInv
  BY DEF IInv
<1>2. ASSUME slot' = slot, UNCHANGED ctrlVars PROVE OwnInv'
  BY <1>1, <1>2, OwnSame DEF SameOwner, ctrlVars
<1>3. ASSUME NEW t \in Connectors, Reserve(t) PROVE OwnInv'
  <2>1. PICK id : id = Min(reservable)
    OBVIOUS
  <2>2. PICK k : k = HASH_ID(id)
    OBVIOUS
  <2>3. slot' = [slot EXCEPT ![k].type = "RESERVE"] /\ UNCHANGED ctrlVars
    BY <1>3, <2>1, <2>2 DEF Reserve
  <2>4. slot[k].type = "INVALID"
    <3>1. reservable # {} /\ Min(reservable) <= MaxAlloc /\ alloc_id \in Ids
      BY <1>1, <1>3 DEF Reserve, TypeInv
    <3>2. Free(id)
      BY <2>1, <3>1, Reservable
    <3> QED BY <2>2, <3>2 DEF Free
  <2>5. \A j \in Slots : SameOwner(j)
    <3>1. slot \in [Slots -> Socket]
      BY <1>1 DEF TypeInv
    <3> QED BY <2>3, <2>4, <3>1 DEF SameOwner
  <2> QED BY <1>1, <2>3, <2>5, OwnSame DEF ctrlVars
<1>4. ASSUME NEW t \in Connectors, Request(t) PROVE OwnInv'
  <2>1. PICK k : k = HASH_ID(reserving[t])
    OBVIOUS
  <2>2. slot' = [slot EXCEPT ![k].id = reserving[t]] /\ UNCHANGED ctrlVars
    BY <1>4, <2>1 DEF Request
  <2>3. slot[k].type = "RESERVE"
    BY <1>4, <2>1 DEF Request, running, IInv, BirthInv, ReserveInv
  <2>4. \A j \in Slots : SameOwner(j)
    <3>1. slot \in [Slots -> Socket]
      BY <1>1 DEF TypeInv
    <3> QED BY <2>2, <2>3, <3>1 DEF SameOwner
  <2> QED BY <1>1, <2>2, <2>4, OwnSame DEF ctrlVars
<1>5. ASSUME NEW id, NEW cmd, Send(id, cmd) PROVE OwnInv'
  BY <1>2, <1>5 DEF Send
<1>6. ASSUME NEW id, Start(id) PROVE OwnInv'
  BY <1>2, <1>6 DEF Start
<1>7. ASSUME NEW id, NEW shutdown, Close(id, shutdown) PROVE OwnInv'
  BY <1>2, <1>7 DEF Close
<1> QED BY <1>3, <1>4, <1>5, <1>6, <1>7 DEF Service

(* A request changes the slot of its id.                                   *)
LEMMA OwnCtrl ==
  ASSUME IInv, OwnInv, NEW cmd, Ctrl(cmd), NEW id, id = Head(pipe).id,
         NEW k, k = HASH_ID(id), SlotsOnly(k),
         \/ slot[k].type \in {"INVALID", "RESERVE"}
         \/ slot'[k] = slot[k]
         \/ /\ slot[k].id = id /\ slot'[k].id = id
            /\ slot'[k].type # "RESERVE"
            /\ slot'[k].type = "INVALID" => toclear' = clearing(id, TRUE)
  PROVE  OwnInv'
<1>1. TypeInv /\ SlotInv /\ ev' = ev /\ toclear = 0
  BY CtrlBegins
<1>2. ASSUME NEW j \in Slots PROVE SameOwner(j)
  <2>1. CASE j = k
    BY <2>1 DEF SameOwner
  <2>2. CASE j # k
    BY <2>2 DEF SlotsOnly, SameOwner
  <2> QED BY <2>1, <2>2
<1> QED BY <1>1, <1>2, OwnSame

(* What new_fd and force_close do to slots other than k.                   *)
LEMMA OthersKept ==
  ASSUME TypeInv, NEW k \in Slots
  PROVE  /\ \A id, type : new_fd(k, id, type) => SlotsOnly(k)
         /\ force_close(k) => /\ SlotsOnly(k) /\ slot'[k].id = slot[k].id
                              /\ slot'[k].type = "INVALID"
<1>1. slot \in [Slots -> Socket]
  BY DEF TypeInv
<1>2. ASSUME NEW id, NEW type, new_fd(k, id, type) PROVE SlotsOnly(k)
  BY <1>1, <1>2 DEF new_fd, SlotsOnly
<1>3. ASSUME force_close(k)
      PROVE  /\ SlotsOnly(k) /\ slot'[k].id = slot[k].id
             /\ slot'[k].type = "INVALID"
  <2>1. PICK s : s = Empty("INVALID", slot[k].id)
    OBVIOUS
  <2>2. slot' = [slot EXCEPT ![k] = s]
    BY <1>3, <2>1 DEF force_close
  <2>3. s.id = slot[k].id /\ s.type = "INVALID"
    BY <2>1 DEF Empty
  <2> QED BY <1>1, <2>2, <2>3 DEF SlotsOnly
<1> QED BY <1>2, <1>3

(* A request to open finds its slot reserved.                              *)
LEMMA OwnOpen == IInv /\ OwnInv /\ (CtrlOpen \/ CtrlListen) => OwnInv'
<1> SUFFICES ASSUME IInv, OwnInv, CtrlOpen \/ CtrlListen PROVE OwnInv'
  OBVIOUS
<1>1. PICK id, k : id = Head(pipe).id /\ k = HASH_ID(id)
  OBVIOUS
<1>2. Ctrl({"O"}) \/ Ctrl({"L"})
  BY DEF CtrlOpen, CtrlListen
<1>3. TypeInv /\ k \in Slots /\ slot[k].type = "RESERVE"
  BY <1>1, <1>2, CtrlBegins, OpenReserved
<1>4. SlotsOnly(k)
  <2>1. slot \in [Slots -> Socket]
    BY <1>3 DEF TypeInv
  <2>2. CASE CtrlOpen
    <3>1. \/ slot' = [slot EXCEPT ![k].type = "INVALID"]
          \/ \E type : new_fd(k, id, type)
      BY <1>1, <2>2 DEF CtrlOpen
    <3>2. CASE slot' = [slot EXCEPT ![k].type = "INVALID"]
      BY <1>3, <2>1, <3>2 DEF SlotsOnly
    <3> QED BY <1>3, <3>1, <3>2, OthersKept
  <2>3. CASE CtrlListen
    <3>1. new_fd(k, id, "PLISTEN")
      BY <1>1, <2>3 DEF CtrlListen
    <3> QED BY <1>3, <3>1, OthersKept
  <2> QED BY <2>2, <2>3
<1> QED BY <1>1, <1>2, <1>3, <1>4, OwnCtrl

(* start_socket keeps the socket, or ends it.                              *)
LEMMA OwnStart == IInv /\ OwnInv /\ CtrlStart => OwnInv'
<1> SUFFICES ASSUME IInv, OwnInv, CtrlStart PROVE OwnInv'
  OBVIOUS
<1>1. PICK id, k : id = Head(pipe).id /\ k = HASH_ID(id)
  OBVIOUS
<1>2. Ctrl({"S"})
  BY DEF CtrlStart
<1>3. PICK to : to = IF slot[k].type = "PACCEPT" THEN "CONNECTED" ELSE "LISTEN"
  OBVIOUS
<1>4. TypeInv /\ k \in Slots /\ slot \in [Slots -> Socket] /\ slot[k] \in Socket
  <2>1. TypeInv /\ k \in Slots
    BY <1>1, <1>2, CtrlBegins
  <2> QED BY <2>1 DEF TypeInv
<1>5. \/ slot' = slot
      \/ ~Stale(id) /\ slot' = [slot EXCEPT ![k].type = to]
      \/ ~Stale(id) /\ force_close(k) /\ toclear' = clearing(id, TRUE)
  BY <1>1, <1>3, Zenon DEF CtrlStart
<1>6. ~Stale(id) => slot[k].id = id
  BY <1>1 DEF Stale
<1>7. CASE slot' = slot
  <2>1. SlotsOnly(k) /\ slot'[k] = slot[k]
    BY <1>7 DEF SlotsOnly
  <2> QED BY <1>1, <1>2, <2>1, OwnCtrl
<1>8. CASE ~Stale(id) /\ slot' = [slot EXCEPT ![k].type = to]
  <2>1. to \notin {"INVALID", "RESERVE"}
    BY <1>3
  <2>2. /\ SlotsOnly(k) /\ slot'[k].id = slot[k].id
        /\ slot'[k].type = to
    BY <1>4, <1>8 DEF SlotsOnly, Socket
  <2> QED BY <1>1, <1>2, <1>6, <1>8, <2>1, <2>2, OwnCtrl
<1>9. CASE ~Stale(id) /\ force_close(k) /\ toclear' = clearing(id, TRUE)
  <2>1. /\ SlotsOnly(k) /\ slot'[k].id = slot[k].id
        /\ slot'[k].type = "INVALID"
    BY <1>4, <1>9, OthersKept
  <2> QED BY <1>1, <1>2, <1>6, <1>9, <2>1, OwnCtrl
<1> QED BY <1>5, <1>7, <1>8, <1>9

(* send_socket keeps it, with more to write, or ends it.                   *)
LEMMA OwnSend == IInv /\ OwnInv /\ CtrlSend => OwnInv'
<1> SUFFICES ASSUME IInv, OwnInv, CtrlSend PROVE OwnInv'
  OBVIOUS
<1> DEFINE id == Head(pipe).id
           k == HASH_ID(id)
           m == Head(pipe).m
<1>1. id = Head(pipe).id /\ k = HASH_ID(id)
  OBVIOUS
<1>2. Ctrl({"D", "P"})
  BY DEF CtrlSend
<1>3. TypeInv /\ k \in Slots /\ slot \in [Slots -> Socket] /\ slot[k] \in Socket
  <2>1. TypeInv /\ k \in Slots
    BY <1>1, <1>2, CtrlBegins
  <2> QED BY <2>1 DEF TypeInv
<1>4. \/ slot' = slot
      \/ ~Stale(id) /\ \E n \in 0..Size :
           slot' = [slot EXCEPT ![k].high = @ \o [i \in 1..(Size - n) |-> m],
                                ![k].write = @ \/ n < Size]
      \/ ~Stale(id) /\ force_close(k) /\ toclear' = clearing(id, TRUE)
      \/ ~Stale(id) /\ slot' = [slot EXCEPT ![k].low = @ \o bytes(m)]
      \/ ~Stale(id) /\ slot' = [slot EXCEPT ![k].high = @ \o bytes(m)]
  <2>1. \/ UNCHANGED slot
        \/ \E n \in 0..Size :
             /\ wire' = [wire EXCEPT ![id] = @ \o [i \in 1..n |-> m]]
             /\ slot' = [slot EXCEPT
                  ![k].high = @ \o [i \in 1..(Size - n) |-> m],
                  ![k].write = @ \/ n < Size]
        \/ force_close(k) /\ toclear' = clearing(id, TRUE)
        \/ slot' = IF Head(pipe).cmd = "P"
                   THEN [slot EXCEPT ![k].low = @ \o bytes(m)]
                   ELSE [slot EXCEPT ![k].high = @ \o bytes(m)]
    BY Zenon DEF CtrlSend
  <2>2. ~Stale(id) \/ slot' = slot
    BY Zenon DEF CtrlSend
  <2> HIDE DEF id, k, m
  <2> QED BY <2>1, <2>2, Zenon
<1> HIDE DEF id, k, m
<1>5. ~Stale(id) => slot[k].id = id /\ slot[k].type # "INVALID"
  BY <1>1 DEF Stale
<1>6. ASSUME NEW s, slot' = [slot EXCEPT ![k] = s], s.id = slot[k].id,
             s.type = slot[k].type, ~Stale(id)
      PROVE  OwnInv'
  <2>1. SlotsOnly(k) /\ slot'[k] = s
    BY <1>3, <1>6 DEF SlotsOnly
  <2> QED BY <1>1, <1>2, <1>5, <1>6, <2>1, OwnCtrl
<1>7. CASE slot' = slot
  <2>1. SlotsOnly(k) /\ slot'[k] = slot[k]
    BY <1>7 DEF SlotsOnly
  <2> QED BY <1>1, <1>2, <2>1, OwnCtrl
<1>8. CASE ~Stale(id) /\ \E n \in 0..Size :
             slot' = [slot EXCEPT ![k].high = @ \o [i \in 1..(Size - n) |-> m],
                                  ![k].write = @ \/ n < Size]
  <2>1. PICK n \in 0..Size :
             slot' = [slot EXCEPT ![k].high = @ \o [i \in 1..(Size - n) |-> m],
                                  ![k].write = @ \/ n < Size]
    BY <1>8
  <2>2. PICK h : h = [i \in 1..(Size - n) |-> m]
    OBVIOUS
  <2>3. PICK s : s = [slot[k] EXCEPT !.high = @ \o h, !.write = @ \/ n < Size]
    OBVIOUS
  <2>4. slot' = [slot EXCEPT ![k] = s]
    BY <1>3, <2>1, <2>2, <2>3
  <2>5. s.id = slot[k].id /\ s.type = slot[k].type
    BY <1>3, <2>3 DEF Socket
  <2> QED BY <1>6, <1>8, <2>4, <2>5
<1>9. CASE ~Stale(id) /\ force_close(k) /\ toclear' = clearing(id, TRUE)
  <2>1. /\ SlotsOnly(k) /\ slot'[k].id = slot[k].id
        /\ slot'[k].type = "INVALID"
    BY <1>3, <1>9, OthersKept
  <2> QED BY <1>1, <1>2, <1>5, <1>9, <2>1, OwnCtrl
<1>10. CASE ~Stale(id) /\ slot' = [slot EXCEPT ![k].low = @ \o bytes(m)]
  <2>1. PICK s : s = [slot[k] EXCEPT !.low = @ \o bytes(m)]
    OBVIOUS
  <2>2. slot' = [slot EXCEPT ![k] = s]
    BY <1>3, <1>10, <2>1
  <2>3. s.id = slot[k].id /\ s.type = slot[k].type
    BY <1>3, <2>1 DEF Socket
  <2> QED BY <1>6, <1>10, <2>2, <2>3
<1>11. CASE ~Stale(id) /\ slot' = [slot EXCEPT ![k].high = @ \o bytes(m)]
  <2>1. PICK s : s = [slot[k] EXCEPT !.high = @ \o bytes(m)]
    OBVIOUS
  <2>2. slot' = [slot EXCEPT ![k] = s]
    BY <1>3, <1>11, <2>1
  <2>3. s.id = slot[k].id /\ s.type = slot[k].type
    BY <1>3, <2>1 DEF Socket
  <2> QED BY <1>6, <1>11, <2>2, <2>3
<1> QED BY <1>4, <1>7, <1>8, <1>9, <1>10, <1>11, Zenon

(* close_socket keeps it half closed, or ends it.                          *)
LEMMA OwnClose == IInv /\ OwnInv /\ CtrlClose => OwnInv'
<1> SUFFICES ASSUME IInv, OwnInv, CtrlClose PROVE OwnInv'
  OBVIOUS
<1>1. Ctrl({"K"})
  BY DEF CtrlClose
<1>2. PICK id, k : id = Head(pipe).id /\ k = HASH_ID(id)
  OBVIOUS
<1> DEFINE halved(s) ==
             slot' = [slot EXCEPT ![k] = [s EXCEPT !.type = "HALFCLOSE"]]
<1>3. \/ slot' = slot
      \/ ~Stale(id) /\ force_close(k)
      \/ ~Stale(id) /\ halved(slot[k])
      \/ ~Stale(id) /\ \E o \in send_buffer(slot[k]) :
                         o.end = "none" /\ halved(o.s)
  <2>1. \/ Stale(id) /\ UNCHANGED slot
        \/ ~Stale(id) /\ (force_close(k) \/ halved(slot[k]))
        \/ ~Stale(id) /\ flush_fails(k)
        \/ ~Stale(id) /\ \E o \in send_buffer(slot[k]) :
             flush(k, o) /\ (o.end # "none" \/ force_close(k) \/ halved(o.s))
    BY <1>2, Zenon DEF CtrlClose
  <2>2. flush_fails(k) => slot' = slot
    BY DEF flush_fails
  <2>3. ASSUME NEW o, flush(k, o) PROVE o.end = "none" \/ force_close(k)
    BY <2>3 DEF flush
  <2> QED BY <2>1, <2>2, <2>3, Zenon
<1>4. toclear' = clearing(id, slot'[k].type # "HALFCLOSE")
  BY <1>2, Zenon DEF CtrlClose
<1>5. /\ TypeInv /\ SlotInv /\ k \in Slots /\ slot \in [Slots -> Socket]
      /\ slot[k] \in Socket
  <2>1. TypeInv /\ SlotInv /\ k \in Slots
    BY <1>1, <1>2, CtrlBegins
  <2> QED BY <2>1 DEF TypeInv
<1>6. ~Stale(id) => slot[k].id = id /\ slot[k].type # "INVALID"
  BY <1>2 DEF Stale
<1>7. CASE slot' = slot
  <2>1. SlotsOnly(k) /\ slot'[k] = slot[k]
    BY <1>7 DEF SlotsOnly
  <2> QED BY <1>1, <1>2, <2>1, OwnCtrl
<1>8. CASE ~Stale(id) /\ force_close(k)
  <2>1. /\ SlotsOnly(k) /\ slot'[k].id = slot[k].id
        /\ slot'[k].type = "INVALID"
    BY <1>5, <1>8, OthersKept
  <2>2. toclear' = clearing(id, TRUE)
    BY <1>4, <2>1 DEF clearing
  <2> QED BY <1>1, <1>2, <1>6, <1>8, <2>1, <2>2, OwnCtrl
<1>9. ASSUME NEW s \in Socket, s.id = slot[k].id, halved(s), ~Stale(id)
      PROVE  OwnInv'
  <2>1. PICK t : t = [s EXCEPT !.type = "HALFCLOSE"]
    OBVIOUS
  <2>2. t.id = slot[k].id /\ t.type = "HALFCLOSE"
    BY <1>9, <2>1 DEF Socket
  <2>3. SlotsOnly(k) /\ slot'[k] = t
    BY <1>5, <1>9, <2>1 DEF SlotsOnly
  <2> QED BY <1>1, <1>2, <1>6, <1>9, <2>2, <2>3, OwnCtrl
<1>10. ASSUME NEW o \in send_buffer(slot[k]), o.end = "none", ~Stale(id)
       PROVE  o.s \in Socket /\ o.s.id = slot[k].id
  <2>1. Flushes(k, id, o)
    BY <1>5, <1>6, <1>10 DEF Flushes
  <2> QED BY <1>5, <1>10, <2>1, FlushSent DEF Sent
<1> HIDE DEF halved
<1> QED BY <1>3, <1>5, <1>7, <1>8, <1>9, <1>10

(* Events are taken from the batch as they come, or missed.                *)
LEMMA OwnClear == IInv /\ OwnInv /\ clear_closed_event => OwnInv'
<1> SUFFICES ASSUME IInv, OwnInv, clear_closed_event PROVE OwnInv'
  OBVIOUS
<1>1. TypeInv /\ BatchInv
  BY DEF IInv
<1>2. PICK k : k = HASH_ID(toclear)
  OBVIOUS
<1>3. /\ ev' = IF slot[k].type = "INVALID" /\ slot[k].id = toclear
               THEN without(ev, k) ELSE missing(ev, toclear)
      /\ slot' = slot
  BY <1>2, Zenon DEF clear_closed_event
<1>4. ev \in Seq(Events) /\ \A i, j \in 1..Len(ev) : ev[i].s = ev[j].s => i = j
  BY <1>1 DEF TypeInv, BatchInv
<1>5. \A i \in 1..Len(ev) :
        /\ HASH_ID(ev[i].id) = ev[i].s
        /\ \/ ev[i].missed \/ toclear = ev[i].id
           \/ slot[ev[i].s].id = ev[i].id
                /\ slot[ev[i].s].type \notin {"INVALID", "RESERVE"}
  BY DEF OwnInv
<1>6. CASE slot[k].type = "INVALID" /\ slot[k].id = toclear
  <2>1. PICK r : r = without(ev, k)
    OBVIOUS
  <2>2. ev' = r
    BY <1>3, <1>6, <2>1
  <2>3. \A i \in 1..Len(r) :
          \E x \in 1..Len(ev) : r[i] = ev[x] /\ ev[x].s # k
    BY <1>4, <2>1, EventCleared
  <2>4. ASSUME NEW i \in 1..Len(r)
        PROVE  /\ HASH_ID(r[i].id) = r[i].s
               /\ \/ r[i].missed
                  \/ slot[r[i].s].id = r[i].id
                       /\ slot[r[i].s].type \notin {"INVALID", "RESERVE"}
    BY <1>2, <1>5, <2>3
  <2> QED BY <1>3, <2>2, <2>4 DEF OwnInv
<1>7. CASE ~ (slot[k].type = "INVALID" /\ slot[k].id = toclear)
  <2>1. PICK r : r = missing(ev, toclear)
    OBVIOUS
  <2>2. ev' = r
    BY <1>3, <1>7, <2>1
  <2>3. /\ Len(r) = Len(ev)
        /\ \A i \in 1..Len(ev) :
             /\ r[i].s = ev[i].s /\ r[i].id = ev[i].id
             /\ r[i].missed = (ev[i].missed \/ ev[i].id = toclear)
    BY <1>4, <2>1, EventsMissed
  <2>4. ASSUME NEW i \in 1..Len(r)
        PROVE  /\ HASH_ID(r[i].id) = r[i].s
               /\ \/ r[i].missed
                  \/ slot[r[i].s].id = r[i].id
                       /\ slot[r[i].s].type \notin {"INVALID", "RESERVE"}
    BY <1>5, <2>3
  <2> QED BY <1>3, <2>2, <2>4 DEF OwnInv
<1> QED BY <1>6, <1>7

(* The events that sp_wait returns are of the sockets that are there.      *)
LEMMA OwnWait == IInv /\ OwnInv /\ Wait => OwnInv'
<1> SUFFICES ASSUME IInv, OwnInv, Wait PROVE OwnInv'
  OBVIOUS
<1>1. TypeInv /\ SlotInv
  BY DEF IInv
<1>2. PICK batch \in SUBSET polled :
        ev' \in {s \in [1..Cardinality(batch) -> UNION {ready(k) : k \in batch}] :
                  {s[i].s : i \in DOMAIN s} = batch}
  BY DEF Wait
<1>3. PICK n : n = Cardinality(batch)
  OBVIOUS
<1>4. n \in Nat
  <2>1. batch \in SUBSET (0..(MaxSocket - 1))
    BY DEF polled, Slots
  <2>2. 0 \in Int /\ MaxSocket - 1 \in Int
    BY SocketAssumption
  <2> QED BY <1>3, <2>1, <2>2, FS_Interval, FS_Subset, FS_CardinalityType
<1>5. ev' \in [1..n -> UNION {ready(k) : k \in batch}]
  BY <1>2, <1>3
<1>6. DOMAIN ev' = 1..n /\ ev' \in Seq(UNION {ready(k) : k \in batch})
  BY <1>4, <1>5
<1>7. Len(ev') = n
  BY <1>4, <1>6
<1>8. slot' = slot
  BY DEF Wait
<1>9. ASSUME NEW i \in 1..n
      PROVE  /\ HASH_ID(ev'[i].id) = ev'[i].s
             /\ slot[ev'[i].s].id = ev'[i].id
             /\ slot[ev'[i].s].type \notin {"INVALID", "RESERVE"}
  <2>1. PICK k \in batch : ev'[i] \in ready(k)
    BY <1>5
  <2>2. k \in Slots /\ slot[k].type \in LiveTypes
    BY DEF polled, LiveTypes
  <2>3. ev'[i].s = k /\ ev'[i].id = slot[k].id
    BY <2>1 DEF ready
  <2>4. HASH_ID(slot[k].id) = k
    BY <1>1, <2>2 DEF SlotInv, SlotOk
  <2>5. slot[k].type \notin {"INVALID", "RESERVE"}
    BY <2>2 DEF LiveTypes
  <2> QED BY <2>3, <2>4, <2>5
<1> QED BY <1>7, <1>8, <1>9 DEF OwnInv

(* An event changes its own slot, or takes a free one.                     *)
LEMMA OwnEvent ==
  IInv /\ OwnInv
    /\ (EventConnect \/ EventAccept \/ EventRead \/ EventWrite) => OwnInv'
<1> SUFFICES ASSUME IInv, OwnInv,
                    EventConnect \/ EventAccept \/ EventRead \/ EventWrite
             PROVE  OwnInv'
  OBVIOUS
<1>1. PICK k, id : k = Head(ev).s /\ id = slot[k].id
  OBVIOUS
<1>2. PICK types : Event(types)
  BY DEF EventConnect, EventAccept, EventRead, EventWrite
<1>3. /\ TypeInv /\ BatchInv /\ k \in Slots /\ slot \in [Slots -> Socket]
      /\ toclear' = toclear /\ toclear = 0 /\ ev # <<>>
      /\ Head(ev) = ev[1] /\ 1 \in 1..Len(ev)
  <2>1. /\ TypeInv /\ BatchInv /\ k \in Slots
        /\ toclear' = 0 /\ toclear = 0 /\ ev # <<>>
        /\ Head(ev) = ev[1] /\ 1 \in 1..Len(ev)
    BY <1>1, <1>2, EventBegins
  <2> QED BY <2>1 DEF TypeInv
<1>4. ASSUME SlotsOnly(k), ev' = Tail(ev) PROVE OwnInv'
  BY <1>1, <1>3, <1>4, OwnTail DEF SlotsOnly
<1>5. ASSUME NEW s, slot' = [slot EXCEPT ![k] = s] PROVE SlotsOnly(k)
  BY <1>3, <1>5 DEF SlotsOnly
<1>6. CASE EventConnect
  <2>1. ev' = Tail(ev) /\ (slot' = [slot EXCEPT ![k] = connected(@)]
                           \/ force_close(k))
    BY <1>1, <1>6 DEF EventConnect, k0
  <2> QED BY <1>3, <1>4, <1>5, <2>1, OthersKept
<1>7. CASE EventAccept
  <2>1. ev' = Tail(ev)
    BY <1>7 DEF EventAccept
  <2>2. CASE slot' = slot
    BY <1>4, <2>1, <2>2 DEF SlotsOnly
  <2>3. CASE slot' # slot
    <3>1. /\ reservable # {} /\ Min(reservable) <= MaxAlloc
          /\ new_fd(HASH_ID(Min(reservable)), Min(reservable), "PACCEPT")
      BY <1>7, <2>3 DEF EventAccept
    <3>2. PICK x : x = Min(reservable)
      OBVIOUS
    <3>3. PICK h : h = HASH_ID(x)
      OBVIOUS
    <3>4. x \in Ids /\ Free(x)
      <4>1. alloc_id \in Ids
        BY <1>3 DEF TypeInv
      <4> QED BY <3>1, <3>2, <4>1, Reservable
    <3>5. h \in Slots /\ slot[h].type = "INVALID" /\ SlotsOnly(h)
      BY <1>3, <3>1, <3>2, <3>3, <3>4, SlotsOfIds, OthersKept DEF Free
    <3>6. \A j \in Slots : slot[j].type = "INVALID" \/ slot'[j] = slot[j]
      BY <3>5 DEF SlotsOnly
    <3> QED BY <1>3, <2>1, <3>6, OwnTail
  <2> QED BY <2>2, <2>3
<1>8. CASE EventRead
  <2>1. \/ force_close(k) /\ ev' = Tail(ev)
        \/ slot' = slot /\ ev' = Tail(ev)
        \/ slot' = slot /\ ev' = [ev EXCEPT ![1].read = FALSE]
    BY <1>1, <1>8 DEF EventRead, k0
  <2>2. CASE force_close(k) /\ ev' = Tail(ev)
    BY <1>3, <1>4, <2>2, OthersKept
  <2>3. CASE slot' = slot /\ ev' = Tail(ev)
    BY <1>4, <2>3 DEF SlotsOnly
  <2>4. CASE slot' = slot /\ ev' = [ev EXCEPT ![1].read = FALSE]
    <3>1. ev \in Seq(Events) /\ ev[1] \in Events
      BY <1>3 DEF TypeInv
    <3>2. PICK e : e = [ev[1] EXCEPT !.read = FALSE]
      OBVIOUS
    <3>3. e.s = ev[1].s /\ e.id = ev[1].id /\ e.missed = ev[1].missed
      BY <3>1, <3>2 DEF Events
    <3>4. ev' = [ev EXCEPT ![1] = e] /\ e \in Events
      BY <2>4, <3>1, <3>2 DEF Events
    <3>5. /\ Len(ev') = Len(ev)
          /\ \A i \in 1..Len(ev) :
               /\ ev'[i].s = ev[i].s /\ ev'[i].id = ev[i].id
               /\ ev'[i].missed = ev[i].missed
      BY <1>3, <3>1, <3>3, <3>4
    <3> QED BY <1>3, <2>4, <3>5 DEF OwnInv
  <2> QED BY <2>1, <2>2, <2>3, <2>4
<1>9. CASE EventWrite
  <2>1. /\ ev' = Tail(ev)
        /\ \/ flush_fails(k) \/ force_close(k)
           \/ \E o : slot' = [slot EXCEPT ![k] = o.s]
    BY <1>1, <1>9 DEF EventWrite, flush, k0
  <2>2. flush_fails(k) => SlotsOnly(k)
    BY DEF flush_fails, SlotsOnly
  <2> QED BY <1>3, <1>4, <1>5, <2>1, <2>2, OthersKept
<1> QED BY <1>6, <1>7, <1>8, <1>9

(* Every step preserves OwnInv.                                            *)
LEMMA OwnStep == IInv /\ OwnInv /\ [Next]_vars => OwnInv'
<1>1. IInv /\ OwnInv /\ SocketThread => OwnInv'
  <2>1. ASSUME IInv, OwnInv, NoCtrl PROVE OwnInv'
    BY <2>1, OwnSame DEF IInv, NoCtrl, SameOwner
  <2> QED BY <2>1, OwnOpen, OwnStart, OwnSend, OwnClose, OwnClear, OwnWait,
             OwnEvent DEF SocketThread
<1>2. ASSUME IInv, OwnInv, UNCHANGED vars PROVE OwnInv'
  BY <1>2, OwnSame DEF IInv, vars, ctrlVars, SameOwner
<1> QED BY <1>1, <1>2, OwnService DEF Next

(* An event that is met finds the socket it was read for, unless another   *)
(* thread has reserved the slot between its close and clear_closed_event,  *)
(* and it never finds a free slot (EventIsOwn).                            *)
THEOREM EventsAreOwn == Spec => []EventIsOwn
<1>1. Init => OwnInv
  <2> SUFFICES ASSUME Init PROVE Len(ev) = 0
    BY DEF OwnInv
  <2> QED BY DEF Init
<1>2. IInv /\ OwnInv => EventIsOwn
  <2> SUFFICES ASSUME IInv, OwnInv, ev # <<>>, fresh \/ ~checkctrl, NEW e,
                      e = Head(ev)
               PROVE  /\ slot[e.s].type # "INVALID"
                      /\ e.missed \/ (slot[e.s].id = e.id
                                        /\ slot[e.s].type # "RESERVE")
    BY DEF EventIsOwn
  <2>1. TypeInv /\ BatchInv
    BY DEF IInv
  <2>2. toclear = 0
    BY <2>1 DEF BatchInv
  <2>3. e = ev[1] /\ 1 \in 1..Len(ev)
    BY <2>1 DEF TypeInv
  <2>4. slot[e.s].type # "INVALID"
    BY <2>1, <2>2, <2>3 DEF BatchInv
  <2>5. e.missed \/ (slot[e.s].id = e.id /\ slot[e.s].type # "RESERVE")
    BY <2>2, <2>3 DEF OwnInv
  <2> QED BY <2>4, <2>5
<1> QED BY Invariance, OwnStep, <1>1, <1>2, PTL DEF Spec

(* No owner gets data before its socket is open, and nothing but an end    *)
(* after the end (ReportsInOrder).                                         *)
THEOREM OwnersToldInOrder == Spec => []ReportsInOrder
<1>1. IInv => ReportsInOrder
  BY WrittenNow DEF IInv, ReportsInOrder
<1> QED BY Invariance, <1>1, PTL
=============================================================================
