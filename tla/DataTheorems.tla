---------------------------- MODULE DataTheorems ----------------------------
(***************************************************************************)
(* Facts about the data the programs keep, for every size of it: the        *)
(* operators of the ring buffers, and the order of the elements of a set.   *)
(* The provers do not reason about `%` with a variable divisor, so the      *)
(* first lemmas turn it into case distinctions and the others rest on       *)
(* those.                                                                   *)
(***************************************************************************)
EXTENDS Ring, Ordering, Integers, Sequences, FiniteSets, Functions, SequenceTheorems,
        FiniteSetTheorems, WellFoundedInduction, TLAPS

\* An index less than twice the capacity, modulo the capacity: the expression
\* behind (q->head + i) % q->capacity.
LEMMA ModCase ==
  \A n, a \in Nat : n # 0 /\ a < 2 * n => a % n = IF a < n THEN a ELSE a - n
<1> SUFFICES ASSUME NEW n \in Nat, NEW a \in Nat, n # 0, a < 2 * n
             PROVE  a % n = IF a < n THEN a ELSE a - n
  OBVIOUS
<1>1. CASE a < n
  BY <1>1
<1>2. CASE a >= n
  BY <1>2
<1> QED BY <1>1, <1>2

\* Division with remainder: a remainder exists, and there is only one.
LEMMA ModDiv ==
  ASSUME NEW n \in Nat, n >= 1, NEW x \in Int
  PROVE  x % n \in Nat /\ x % n < n /\ \E q \in Int : x = n * q + (x % n)
<1>1. x % n \in Nat /\ x % n < n
  OBVIOUS
<1>2. x \div n \in Int /\ x = n * (x \div n) + (x % n)
  OBVIOUS
<1> QED BY <1>1, <1>2

\* A quotient and a remainder below n are those of the division by n.
LEMMA ModUnique ==
  ASSUME NEW n \in Nat, n >= 1, NEW x \in Int, NEW q \in Int, NEW r \in Nat,
         r < n, x = n * q + r
  PROVE  x % n = r
<1> QED OBVIOUS

\* Counting from two numbers that agree modulo n, they go on agreeing.
LEMMA ModStep ==
  ASSUME NEW n \in Nat, n >= 1, NEW x \in Int, NEW y \in Int, x % n = y % n
  PROVE  (x + 1) % n = (y + 1) % n /\ (x - 1) % n = (y - 1) % n
<1> DEFINE r == x % n
<1>1. r \in Nat /\ r < n
  BY ModDiv
<1>2. PICK q \in Int : x = n * q + r
  BY ModDiv
<1>3. PICK p \in Int : y = n * p + r
  BY ModDiv
<1> HIDE DEF r
<1>4. /\ n * (q + 1) = n * q + n /\ n * (p + 1) = n * p + n
      /\ n * (q - 1) = n * q - n /\ n * (p - 1) = n * p - n
      /\ n * q \in Int /\ n * p \in Int
  OBVIOUS
<1>5. (x + 1) % n = (y + 1) % n
  <2>1. CASE r + 1 < n
    <3>1. /\ x + 1 = n * q + (r + 1) /\ y + 1 = n * p + (r + 1)
          /\ x + 1 \in Int /\ y + 1 \in Int /\ r + 1 \in Nat
      BY <1>1, <1>2, <1>3, <1>4
    <3>2. (x + 1) % n = r + 1 /\ (y + 1) % n = r + 1
      BY <2>1, <3>1, ModUnique
    <3> QED BY <3>2
  <2>2. CASE r + 1 = n
    <3> DEFINE z == 0
    <3>1. /\ x + 1 = n * (q + 1) + z /\ y + 1 = n * (p + 1) + z
          /\ x + 1 \in Int /\ y + 1 \in Int /\ q + 1 \in Int /\ p + 1 \in Int
          /\ z \in Nat /\ z < n
      BY <1>1, <1>2, <1>3, <1>4, <2>2
    <3> HIDE DEF z
    <3>2. (x + 1) % n = z /\ (y + 1) % n = z
      BY <3>1, ModUnique
    <3> QED BY <3>2
  <2> QED BY <1>1, <2>1, <2>2
<1>6. (x - 1) % n = (y - 1) % n
  <2>1. CASE r # 0
    <3>1. r - 1 \in Nat /\ r - 1 < n /\ r \in Int
      BY <1>1, <2>1
    <3>2. x - 1 \in Int /\ y - 1 \in Int
      OBVIOUS
    <3>3. x - 1 = n * q + (r - 1) /\ y - 1 = n * p + (r - 1)
      BY <1>2, <1>3, <1>4, <3>1
    <3>4. (x - 1) % n = r - 1 /\ (y - 1) % n = r - 1
      BY <3>1, <3>2, <3>3, ModUnique
    <3> QED BY <3>4
  <2>2. CASE r = 0
    <3>1. /\ x - 1 = n * (q - 1) + (n - 1) /\ y - 1 = n * (p - 1) + (n - 1)
          /\ x - 1 \in Int /\ y - 1 \in Int /\ q - 1 \in Int /\ p - 1 \in Int
          /\ n - 1 \in Nat /\ n - 1 < n
      BY <1>1, <1>2, <1>3, <1>4, <2>2
    <3>2. (x - 1) % n = n - 1 /\ (y - 1) % n = n - 1
      BY <3>1, ModUnique
    <3> QED BY <3>2
  <2> QED BY <2>1, <2>2
<1> QED BY <1>5, <1>6

\* A multiple of n more or less makes no difference.
LEMMA ModShift ==
  ASSUME NEW n \in Nat, n >= 1, NEW x \in Int
  PROVE  (x + n) % n = x % n /\ (x - n) % n = x % n
<1> DEFINE r == x % n
<1>1. r \in Nat /\ r < n
  BY ModDiv
<1>2. PICK q \in Int : x = n * q + r
  BY ModDiv
<1>3. /\ n * (q + 1) = n * q + n /\ n * (q - 1) = n * q - n /\ n * q \in Int
  OBVIOUS
<1> HIDE DEF r
<1>4. /\ x + n = n * (q + 1) + r /\ x - n = n * (q - 1) + r
      /\ x + n \in Int /\ x - n \in Int /\ q + 1 \in Int /\ q - 1 \in Int
  BY <1>1, <1>2, <1>3
<1>5. (x + n) % n = r /\ (x - n) % n = r
  BY <1>1, <1>4, ModUnique
<1> QED BY <1>5 DEF r

\* A slot is an index of the array.
LEMMA SlotInRange ==
  \A c \in Nat \ {0} : \A h \in 0..(c - 1), i \in 0..c :
     /\ Slot(h, i, c) = (IF h + i < c THEN h + i ELSE h + i - c)
     /\ Slot(h, i, c) \in 0..(c - 1)
<1> SUFFICES ASSUME NEW c \in Nat \ {0}, NEW h \in 0..(c - 1), NEW i \in 0..c
             PROVE  /\ Slot(h, i, c) = (IF h + i < c THEN h + i ELSE h + i - c)
                    /\ Slot(h, i, c) \in 0..(c - 1)
  OBVIOUS
<1> DEFINE a == h + i
<1>1. a \in Nat /\ c \in Nat /\ c # 0 /\ a < 2 * c
  OBVIOUS
<1>2. a % c = IF a < c THEN a ELSE a - c
  <2> HIDE DEF a
  <2> QED BY <1>1, ModCase
<1> QED BY <1>2 DEF Slot

\* Advancing an index keeps it an index.
LEMMA SuccInRange ==
  \A c \in Nat \ {0} : \A i \in 0..(c - 1) :
     /\ Succ(i, c) = (IF i + 1 < c THEN i + 1 ELSE 0)
     /\ Succ(i, c) \in 0..(c - 1)
<1> SUFFICES ASSUME NEW c \in Nat \ {0}, NEW i \in 0..(c - 1)
             PROVE  /\ Succ(i, c) = (IF i + 1 < c THEN i + 1 ELSE 0)
                    /\ Succ(i, c) \in 0..(c - 1)
  OBVIOUS
<1>1. i + 1 \in Nat /\ c \in Nat /\ c # 0 /\ i + 1 < 2 * c
  OBVIOUS
<1>2. (i + 1) % c = IF i + 1 < c THEN i + 1 ELSE (i + 1) - c
  BY <1>1, ModCase
<1> QED BY <1>2 DEF Succ

\* Different elements live in different slots.
LEMMA SlotInjective ==
  \A c \in Nat \ {0} : \A h \in 0..(c - 1), i, j \in 0..(c - 1) :
     i # j => Slot(h, i, c) # Slot(h, j, c)
<1> SUFFICES ASSUME NEW c \in Nat \ {0}, NEW h \in 0..(c - 1),
                    NEW i \in 0..(c - 1), NEW j \in 0..(c - 1), i # j
             PROVE  Slot(h, i, c) # Slot(h, j, c)
  OBVIOUS
<1>1. Slot(h, i, c) = IF h + i < c THEN h + i ELSE h + i - c
  BY SlotInRange
<1>2. Slot(h, j, c) = IF h + j < c THEN h + j ELSE h + j - c
  BY SlotInRange
<1> QED BY <1>1, <1>2

\* After a pop the i-th element is the one that was (i+1)-th before.
LEMMA SlotOfSucc ==
  \A c \in Nat \ {0} : \A h \in 0..(c - 1), i \in 0..(c - 1) :
     Slot(Succ(h, c), i, c) = Slot(h, i + 1, c)
<1> SUFFICES ASSUME NEW c \in Nat \ {0}, NEW h \in 0..(c - 1),
                    NEW i \in 0..(c - 1)
             PROVE  Slot(Succ(h, c), i, c) = Slot(h, i + 1, c)
  OBVIOUS
<1>1. /\ Succ(h, c) = (IF h + 1 < c THEN h + 1 ELSE 0)
      /\ Succ(h, c) \in 0..(c - 1)
  BY SuccInRange
<1>2. i \in 0..c /\ i + 1 \in 0..c
  OBVIOUS
<1>3. Slot(h, i + 1, c) = IF h + (i + 1) < c THEN h + (i + 1)
                                             ELSE h + (i + 1) - c
  BY <1>2, SlotInRange
<1>4. Slot(Succ(h, c), i, c) = IF Succ(h, c) + i < c THEN Succ(h, c) + i
                                                     ELSE Succ(h, c) + i - c
  BY <1>1, <1>2, SlotInRange
<1> QED BY <1>1, <1>3, <1>4

\* After a push the tail is one slot further.
LEMMA SuccOfSlot ==
  \A c \in Nat \ {0} : \A h \in 0..(c - 1), n \in 0..(c - 1) :
     Succ(Slot(h, n, c), c) = Slot(h, n + 1, c)
<1> SUFFICES ASSUME NEW c \in Nat \ {0}, NEW h \in 0..(c - 1),
                    NEW n \in 0..(c - 1)
             PROVE  Succ(Slot(h, n, c), c) = Slot(h, n + 1, c)
  OBVIOUS
<1>1. n \in 0..c /\ n + 1 \in 0..c
  OBVIOUS
<1>2. /\ Slot(h, n, c) = (IF h + n < c THEN h + n ELSE h + n - c)
      /\ Slot(h, n, c) \in 0..(c - 1)
  BY <1>1, SlotInRange
<1>3. Slot(h, n + 1, c) = IF h + (n + 1) < c THEN h + (n + 1)
                                             ELSE h + (n + 1) - c
  BY <1>1, SlotInRange
<1>4. Succ(Slot(h, n, c), c) = IF Slot(h, n, c) + 1 < c
                                 THEN Slot(h, n, c) + 1 ELSE 0
  BY <1>2, SuccInRange
<1> QED BY <1>2, <1>3, <1>4

\* A ring of elements of V: array b with c slots, head h, n elements.
IsRing(V, b, h, n, c) ==
  /\ c \in Nat \ {0}
  /\ b \in [0..(c - 1) -> V]
  /\ h \in 0..(c - 1)
  /\ n \in 0..c

\* The contents are a sequence as long as the count says.
LEMMA ContentsType ==
  ASSUME NEW V, NEW b, NEW h \in Nat, NEW n \in Nat, NEW c \in Nat,
         IsRing(V, b, h, n, c)
  PROVE  /\ Contents(b, h, n, c) \in Seq(V)
         /\ Len(Contents(b, h, n, c)) = n
<1>1. \A i \in 1..n : b[Slot(h, i - 1, c)] \in V
  <2> TAKE i \in 1..n
  <2>1. i - 1 \in 0..c
    BY DEF IsRing
  <2>2. Slot(h, i - 1, c) \in 0..(c - 1)
    BY <2>1, SlotInRange DEF IsRing
  <2> QED BY <2>2 DEF IsRing
<1> QED BY <1>1 DEF Contents, IsRing

\* The slot behind the last element holds none of the elements: writing there
\* and counting one more adds at the end.
LEMMA TailSlotFree ==
  ASSUME NEW c \in Nat \ {0}, NEW h \in 0..(c - 1), NEW n \in 0..(c - 1)
  PROVE  \A i \in 1..n : /\ Slot(h, i - 1, c) \in 0..(c - 1)
                        /\ Slot(h, i - 1, c) # Slot(h, n, c)
<1> TAKE i \in 1..n
<1>1. i - 1 \in 0..(c - 1) /\ i - 1 \in 0..c /\ i - 1 # n
  OBVIOUS
<1>2. Slot(h, i - 1, c) \in 0..(c - 1)
  BY <1>1, SlotInRange
<1>3. Slot(h, i - 1, c) # Slot(h, n, c)
  BY <1>1, SlotInjective
<1> QED BY <1>2, <1>3

\* Advancing the head and counting one less removes the oldest element.
LEMMA ContentsPop ==
  ASSUME NEW b, NEW c \in Nat \ {0}, NEW h \in 0..(c - 1), NEW n \in 1..c
  PROVE  /\ \A i \in 1..(n - 1) :
              Contents(b, Succ(h, c), n - 1, c)[i] = Contents(b, h, n, c)[i + 1]
         /\ Contents(b, h, n, c)[1] = b[h]
<1>1. Contents(b, h, n, c)[1] = b[h]
  <2>1. Slot(h, 0, c) = h
    BY SlotInRange
  <2> QED BY <2>1 DEF Contents
<1>2. \A i \in 1..(n - 1) :
        Contents(b, Succ(h, c), n - 1, c)[i] = Contents(b, h, n, c)[i + 1]
  <2> TAKE i \in 1..(n - 1)
  <2>1. i - 1 \in 0..(c - 1) /\ i + 1 \in 1..n /\ (i - 1) + 1 = (i + 1) - 1
    OBVIOUS
  <2>2. Slot(Succ(h, c), i - 1, c) = Slot(h, (i + 1) - 1, c)
    BY <2>1, SlotOfSucc
  <2> QED BY <2>1, <2>2 DEF Contents
<1> QED BY <1>1, <1>2

\* A resize keeps the elements and their order.
LEMMA ContentsRelocate ==
  ASSUME NEW b, NEW c \in Nat \ {0}, NEW d \in Nat \ {0},
         NEW h \in 0..(c - 1), NEW n \in 0..c, n <= d
  PROVE  Contents(Relocate(b, h, n, c, d), 0, n, d) = Contents(b, h, n, c)
<1>1. \A i \in 1..n :
        Relocate(b, h, n, c, d)[Slot(0, i - 1, d)] = b[Slot(h, i - 1, c)]
  <2> TAKE i \in 1..n
  <2>1. Slot(0, i - 1, d) = i - 1 /\ i - 1 \in 0..(d - 1) /\ i - 1 < n
    BY SlotInRange
  <2> QED BY <2>1 DEF Relocate
<1> QED BY <1>1 DEF Contents

\* Sequence s with m added at its end is r.
IsAppend(r, s, m) == r = Append(s, m)

\* Writing behind the last element and counting one more appends.
LEMMA ContentsAppend ==
  ASSUME NEW V, NEW c \in Nat \ {0}, NEW b \in [0..(c - 1) -> V],
         NEW h \in 0..(c - 1), NEW n \in 0..(c - 1), NEW m \in V,
         NEW d \in [0..(c - 1) -> V], d[Slot(h, n, c)] = m,
         \A j \in 0..(c - 1) : j # Slot(h, n, c) => d[j] = b[j]
  PROVE  IsAppend(Contents(d, h, n + 1, c), Contents(b, h, n, c), m)
<1> DEFINE old == Contents(b, h, n, c)
           new == Contents(d, h, n + 1, c)
<1>1. /\ c \in Nat /\ h \in Nat /\ n \in Nat /\ n + 1 \in Nat /\ n \in 0..c
      /\ n + 1 \in 0..c
  OBVIOUS
<1>2. old \in Seq(V) /\ Len(old) = n
  <2>1. IsRing(V, b, h, n, c)
    BY <1>1 DEF IsRing
  <2> QED BY <1>1, <2>1, ContentsType
<1>3. new \in Seq(V) /\ Len(new) = n + 1
  <2>1. IsRing(V, d, h, n + 1, c)
    BY <1>1 DEF IsRing
  <2> QED BY <1>1, <2>1, ContentsType
<1>4. \A i \in 1..n : new[i] = old[i]
  <2> TAKE i \in 1..n
  <2>1. /\ Slot(h, i - 1, c) \in 0..(c - 1)
        /\ Slot(h, i - 1, c) # Slot(h, n, c)
    BY TailSlotFree
  <2>2. d[Slot(h, i - 1, c)] = b[Slot(h, i - 1, c)]
    BY <2>1
  <2>3. i \in 1..(n + 1)
    BY <1>1
  <2> QED BY <2>2, <2>3 DEF Contents
<1>5. new[n + 1] = m
  <2>1. n + 1 \in 1..(n + 1) /\ (n + 1) - 1 = n
    BY <1>1
  <2> QED BY <2>1 DEF Contents
<1> HIDE DEF old, new
<1>6. /\ Append(old, m) \in Seq(V) /\ Len(Append(old, m)) = n + 1
      /\ \A i \in 1..n : Append(old, m)[i] = old[i]
      /\ Append(old, m)[n + 1] = m
  BY <1>2, AppendProperties
<1>7. \A i \in 1..(n + 1) : new[i] = Append(old, m)[i]
  BY <1>1, <1>4, <1>5, <1>6
<1>8. new = Append(old, m)
  BY <1>3, <1>6, <1>7, SeqEqual
<1>9. IsAppend(new, old, m)
  BY <1>8 DEF IsAppend
<1> QED BY <1>9 DEF old, new

\* Advancing the head and counting one less takes the first element away.
LEMMA ContentsTail ==
  ASSUME NEW V, NEW c \in Nat \ {0}, NEW b \in [0..(c - 1) -> V],
         NEW h \in 0..(c - 1), NEW n \in 1..c
  PROVE  /\ Contents(b, h, n, c) # <<>>
         /\ Head(Contents(b, h, n, c)) = b[h]
         /\ Contents(b, Succ(h, c), n - 1, c) = Tail(Contents(b, h, n, c))
<1> DEFINE old == Contents(b, h, n, c)
           new == Contents(b, Succ(h, c), n - 1, c)
<1>1. /\ c \in Nat /\ h \in Nat /\ n \in Nat /\ n - 1 \in Nat /\ n \in 0..c
      /\ n - 1 \in 0..c
  OBVIOUS
<1>2. Succ(h, c) \in 0..(c - 1) /\ Succ(h, c) \in Nat
  BY SuccInRange
<1>3. old \in Seq(V) /\ Len(old) = n
  <2>1. IsRing(V, b, h, n, c)
    BY <1>1 DEF IsRing
  <2> QED BY <1>1, <2>1, ContentsType
<1>4. new \in Seq(V) /\ Len(new) = n - 1
  <2>1. IsRing(V, b, Succ(h, c), n - 1, c)
    BY <1>1, <1>2 DEF IsRing
  <2> QED BY <1>1, <1>2, <2>1, ContentsType
<1>5. /\ \A i \in 1..(n - 1) : new[i] = old[i + 1]
      /\ old[1] = b[h]
  BY ContentsPop
<1> HIDE DEF old, new
<1>6. old # <<>>
  <2>1. Len(old) # 0
    BY <1>1, <1>3
  <2> QED BY <1>3, <2>1, EmptySeq
<1>7. /\ Tail(old) \in Seq(V) /\ Len(Tail(old)) = n - 1
      /\ \A i \in 1..(n - 1) : Tail(old)[i] = old[i + 1]
  BY <1>3, <1>6, HeadTailProperties
<1>8. \A i \in 1..(n - 1) : new[i] = Tail(old)[i]
  BY <1>5, <1>7
<1>9. new = Tail(old)
  BY <1>4, <1>7, <1>8, SeqEqual
<1>10. Head(old) = b[h]
  BY <1>3, <1>5, <1>6
<1> QED BY <1>6, <1>9, <1>10 DEF old, new

-----------------------------------------------------------------------------
(***************************************************************************)
(* Ranks: the elements of a finite set in the order of a relation.          *)
(***************************************************************************)

\* Every set of naturals but the empty one has a least element.
LEMMA LeastNatural ==
  ASSUME NEW S \in SUBSET Nat, S # {}
  PROVE  \E m \in S : \A i \in S : m <= i
<1> DEFINE R == OpToRel(<, Nat)
<1>1. IsWellFoundedOn(R, Nat)
  BY NatLessThanWellFounded
<1>2. \A i, j \in Nat : i < j => <<i, j>> \in R
  BY DEF OpToRel
<1> HIDE DEF R
<1>3. PICK m \in S : \A i \in S : ~(<<i, m>> \in R)
  BY <1>1, WFMin
<1>4. \A i \in S : m <= i
  <2> TAKE i \in S
  <2>1. m \in Nat /\ i \in Nat /\ ~(i < m)
    BY <1>2, <1>3
  <2> QED BY <2>1
<1> QED BY <1>4

\* A greater element has a greater rank.
LEMMA RankGrows ==
  ASSUME NEW S, IsFiniteSet(S), NEW R, Orders(R, S),
         NEW x \in S, NEW y \in S, <<x, y>> \in R
  PROVE  Cardinality(Below(R, S, x)) < Cardinality(Below(R, S, y))
<1>1. IsFiniteSet(Below(R, S, x)) /\ IsFiniteSet(Below(R, S, y))
  BY FS_Subset DEF Below
<1>2. x \notin Below(R, S, x) /\ Below(R, S, x) \cup {x} \subseteq Below(R, S, y)
  BY DEF Below, Orders
<1>3. Cardinality(Below(R, S, x) \cup {x}) = Cardinality(Below(R, S, x)) + 1
  BY <1>1, <1>2, FS_AddElement
<1>4. Cardinality(Below(R, S, x) \cup {x}) <= Cardinality(Below(R, S, y))
  BY <1>1, <1>2, FS_Subset
<1> QED BY <1>1, <1>3, <1>4, FS_CardinalityType

\* Ranks are less than the number of elements.
LEMMA RankInRange ==
  ASSUME NEW S, IsFiniteSet(S), NEW R, Orders(R, S), NEW x \in S
  PROVE  Cardinality(Below(R, S, x)) \in 0..(Cardinality(S) - 1)
<1>1. IsFiniteSet(Below(R, S, x))
  BY FS_Subset DEF Below
<1>2. Below(R, S, x) \subseteq S \ {x}
  BY DEF Below, Orders
<1>3. IsFiniteSet(S \ {x}) /\ Cardinality(S \ {x}) = Cardinality(S) - 1
  BY FS_RemoveElement
<1>4. Cardinality(Below(R, S, x)) <= Cardinality(S \ {x})
  BY <1>2, <1>3, FS_Subset
<1> QED BY <1>1, <1>3, <1>4, FS_CardinalityType

\* Two elements do not have the same rank, and every rank is taken.
LEMMA RankUnique ==
  ASSUME NEW S, IsFiniteSet(S), NEW R, Orders(R, S), NEW x \in S, NEW y \in S,
         Cardinality(Below(R, S, x)) = Cardinality(Below(R, S, y))
  PROVE  x = y
<1>1. Cardinality(Below(R, S, x)) \in Int
  BY RankInRange
<1>2. CASE <<x, y>> \in R
  BY <1>1, <1>2, RankGrows
<1>3. CASE <<y, x>> \in R
  BY <1>1, <1>3, RankGrows
<1> QED BY <1>2, <1>3 DEF Orders

\* Every number below the number of elements is a rank.
LEMMA RankTaken ==
  ASSUME NEW S, IsFiniteSet(S), NEW R, Orders(R, S),
         NEW k \in 0..(Cardinality(S) - 1)
  PROVE  \E x \in S : Cardinality(Below(R, S, x)) = k
<1> DEFINE T == 0..(Cardinality(S) - 1)
           f == [x \in S |-> Cardinality(Below(R, S, x))]
<1>1. f \in [S -> T]
  BY RankInRange
<1>2. f \in Injection(S, T)
  <2>1. \A x, y \in S : f[x] = f[y] => x = y
    BY RankUnique
  <2> QED BY <1>1, <2>1 DEF Injection, IsInjective
<1>3. Cardinality(S) \in Nat
  BY FS_CardinalityType
<1>4. IsFiniteSet(T) /\ Cardinality(T) = Cardinality(S)
  BY <1>3, FS_Interval
<1>5. f \in Surjection(S, T)
  BY <1>2, <1>4, FS_Injection
<1>6. PICK x \in S : f[x] = k
  BY <1>5 DEF Surjection
<1> QED BY <1>6

\* A set in order is a sequence of as many elements as the set has.
LEMMA ArrangedSeq ==
  ASSUME NEW S, IsFiniteSet(S), NEW R, Orders(R, S)
  PROVE  /\ Arranged(R, S) \in Seq(S)
         /\ Len(Arranged(R, S)) = Cardinality(S)
<1> DEFINE n == Cardinality(S)
           s == Arranged(R, S)
<1>1. n \in Nat
  BY FS_CardinalityType
<1>2. s = [k \in 1..n |->
             CHOOSE x \in S : Cardinality(Below(R, S, x)) = k - 1]
  BY DEF Arranged
<1>3. ASSUME NEW k \in 1..n
      PROVE  s[k] \in S
  <2>1. k - 1 \in 0..(n - 1)
    BY <1>1
  <2>2. \E x \in S : Cardinality(Below(R, S, x)) = k - 1
    BY <2>1, RankTaken
  <2> QED BY <1>2, <2>2
<1> HIDE DEF n, s
<1>4. s \in [1..n -> S]
  BY <1>2, <1>3
<1>5. s \in Seq(S) /\ Len(s) = n
  BY <1>1, <1>4, SeqDef, LenProperties
<1> QED BY <1>5 DEF n, s

\* Every element has a place in it.
LEMMA ArrangedOnto ==
  ASSUME NEW S, IsFiniteSet(S), NEW R, Orders(R, S), NEW x \in S
  PROVE  \E k \in DOMAIN Arranged(R, S) : Arranged(R, S)[k] = x
<1> DEFINE n == Cardinality(S)
           r(y) == Cardinality(Below(R, S, y))
           k == r(x) + 1
<1>1. n \in Nat /\ r(x) \in 0..(n - 1)
  BY FS_CardinalityType, RankInRange
<1>2. \A y \in S : r(y) = r(x) => y = x
  BY RankUnique
<1> HIDE DEF r
<1>3. k \in 1..n /\ k - 1 = r(x)
  BY <1>1
<1>4. Arranged(R, S) = [j \in 1..n |-> CHOOSE y \in S : r(y) = j - 1]
  BY DEF Arranged, r
<1>5. Arranged(R, S)[k] = CHOOSE y \in S : r(y) = r(x)
  BY <1>3, <1>4
<1>6. Arranged(R, S)[k] = x
  BY <1>2, <1>5
<1>7. k \in DOMAIN Arranged(R, S)
  BY <1>3, <1>4
<1> QED BY <1>6, <1>7

=============================================================================
